----------------------------- MODULE NamedPipe -----------------------------
(***************************************************************************)
(* The four named pipes of named_pipe.c.  Every process opens them O_RDWR, *)
(* so a read of an empty pipe and a write to a full one block and a closed *)
(* peer is never seen.  A packet is shorter than PIPE_BUF, so reads and    *)
(* writes of whole packets are atomic.                                     *)
(***************************************************************************)
EXTENDS Tlp, Sequences

CONSTANT PipeCap   \* packets the kernel buffer of one pipe holds

ASSUME PipeAssumption == PipeCap \in Nat \ {0}

VARIABLE pipe      \* contents of each pipe, oldest first

PipeNames == {"request_client", "request_server", "reply_server", "reply_client"}

PipeTypeOK == pipe \in [PipeNames -> Seq(Packet)]

PipeInit == pipe = [n \in PipeNames |-> << >>]

\* write(2) of one packet: blocks while the pipe is full.
PipeWrite(n, pkt) == /\ Len(pipe[n]) < PipeCap
                     /\ pipe' = [pipe EXCEPT ![n] = Append(@, pkt)]

\* read(2) of one packet: blocks while the pipe is empty.  The packet read is PipeFirst(n).
PipeRead(n) == /\ pipe[n] # << >>
               /\ pipe' = [pipe EXCEPT ![n] = Tail(@)]

PipeFirst(n) == Head(pipe[n])

\* What a place for one packet holds, as a sequence.
One(there, pkt) == IF there THEN <<pkt>> ELSE << >>
=============================================================================
