------------------------------ MODULE Startup ------------------------------
(***************************************************************************)
(* How the processes come up: which of them creates which pipe, which only *)
(* opens it, and what each does when it cannot.  Start-up is a list of     *)
(* steps; a process that gets through it is up, one that fails a step ends *)
(* and can be started again.  Nothing removes a pipe from the directory.   *)
(*                                                                         *)
(* CXL_RELAY_SERVER_PATH and the other variables source.me sets are taken  *)
(* as set, CXL_RELAY_LOG_PATH excepted.                                    *)
(***************************************************************************)
EXTENDS Naturals, Sequences

CONSTANTS
  Leftovers,   \* sets of pipes that earlier runs may have left in the directory
  MaxKills     \* bound on processes killed from outside

PipeFiles == {"request_client", "reply_client", "request_server", "reply_server"}

ASSUME StartupAssumption == Leftovers \subseteq SUBSET PipeFiles /\ MaxKills \in Nat

VARIABLES
  setup,   \* what does not change: the environment variables and the old pipes
  files,   \* the pipes that exist in the directory
  at,      \* the step each process is at; 0 when it does not run
  port,    \* "free", "taken" by the server, "waiting" in the kernel after its death
  kills

vars == <<setup, files, at, port, kills>>

\* over_ip: CXL_RELAY_OVER_IP is "yes"; log_path: CXL_RELAY_LOG_PATH is set.
Setup == [over_ip : BOOLEAN, log_path : BOOLEAN, old : Leftovers]

Procs == {"server", "client", "simv", "host"}

Make(n) == [call |-> "mkfifo", on |-> n]
Open(n) == [call |-> "open", on |-> n]
Bind    == [call |-> "bind", on |-> "port"]
Quit    == [call |-> "exit", on |-> "none"]

\* init_server_fifo, and init_cxl_relay_server_lib that calls it only with a log path.
MakeServerPipes == IF setup.log_path THEN <<Make("request_server"), Make("reply_server")>> ELSE << >>

\* init_client_fifo, in the same way.
MakeClientPipes == IF setup.log_path THEN <<Make("request_client"), Make("reply_client")>> ELSE << >>

OpenServerPipes == <<Open("request_server"), Open("reply_server")>>

OpenClientPipes == <<Open("request_client"), Open("reply_client")>>

\* main() of cxlrelayserver and the first lines of its thread.
ServerSteps == MakeServerPipes \o OpenServerPipes
               \o IF setup.over_ip THEN <<Bind>> ELSE OpenClientPipes

\* main() of cxlrelayclient.
ClientSteps == IF setup.over_ip THEN MakeClientPipes \o OpenClientPipes ELSE <<Quit>>

\* open_server_fifo; when it fails the first read of run() does too, and ends the simulation.
SimvSteps == OpenServerPipes

\* main() of testhost.  An access of Simics opens the same pipes.
HostSteps == OpenClientPipes

Steps(p) == CASE p = "server" -> ServerSteps
              [] p = "client" -> ClientSteps
              [] p = "simv"   -> SimvSteps
              [] p = "host"   -> HostSteps

Up(p) == at[p] = Len(Steps(p)) + 1

Does(p, call) == at[p] \in 1 .. Len(Steps(p)) /\ Steps(p)[at[p]].call = call

Target(p) == Steps(p)[at[p]].on

GoOn(p) == at' = [at EXCEPT ![p] = @ + 1]
End(p)  == at' = [at EXCEPT ![p] = 0]

Init == /\ setup \in Setup /\ files = setup.old
        /\ at = [p \in Procs |-> 0] /\ port = "free" /\ kills = 0

Start(p) == at[p] = 0 /\ GoOn(p) /\ UNCHANGED <<setup, files, port, kills>>

\* Mutant of MakePipe: a pipe that is there already ends the process, as the -1 of
\* init_server_fifo for reply_server_pipe would if its caller looked at it.
MakePipeOnce(p) == /\ Does(p, "mkfifo")
                   /\ IF Target(p) \in files THEN End(p) ELSE GoOn(p)
                   /\ files' = files \cup {Target(p)}
                   /\ UNCHANGED <<setup, port, kills>>

\* mkfifo(3).  That the pipe is there already is no error, or its caller ignores it.
MakePipe(p) == /\ Does(p, "mkfifo")
               /\ files' = files \cup {Target(p)}
               /\ GoOn(p)
               /\ UNCHANGED <<setup, port, kills>>

\* Mutant of OpenPipe: the open creates what is missing, as O_CREAT would.
OpenPipeCreates(p) == /\ Does(p, "open")
                      /\ files' = files \cup {Target(p)}
                      /\ GoOn(p)
                      /\ UNCHANGED <<setup, port, kills>>

OpenPipe(p) == /\ Does(p, "open")
               /\ Target(p) \in files
               /\ GoOn(p)
               /\ UNCHANGED <<setup, files, port, kills>>

\* open(2) with O_RDWR does not wait for another process: without the file it fails.
OpenPipeFails(p) == /\ Does(p, "open")
                    /\ Target(p) \notin files
                    /\ End(p)
                    /\ UNCHANGED <<setup, files, port, kills>>

\* CXL_InitServerNetwork: bind(2) and listen(2), without SO_REUSEADDR.
BindPort(p) == /\ Does(p, "bind")
               /\ port = "free"
               /\ port' = "taken"
               /\ GoOn(p)
               /\ UNCHANGED <<setup, files, kills>>

\* Mutant of BindPortFails: the message is printed and the server goes on.
BindPortFailsIgnored(p) == /\ Does(p, "bind")
                           /\ port # "free"
                           /\ GoOn(p)
                           /\ UNCHANGED <<setup, files, port, kills>>

BindPortFails(p) == /\ Does(p, "bind")
                    /\ port # "free"
                    /\ End(p)
                    /\ UNCHANGED <<setup, files, port, kills>>

\* cxlrelayclient without TCP: "No network in use".
ExitAtOnce(p) == Does(p, "exit") /\ End(p) /\ UNCHANGED <<setup, files, port, kills>>

\* A process is killed; connections of a server keep its port for a while.
Kill(p) == /\ at[p] # 0
           /\ kills < MaxKills
           /\ kills' = kills + 1
           /\ port' = IF p = "server" /\ port = "taken" THEN "waiting" ELSE port
           /\ End(p)
           /\ UNCHANGED <<setup, files>>

PortReleased == port = "waiting" /\ port' = "free" /\ UNCHANGED <<setup, files, at, kills>>

StartUpStep(p) == \/ MakePipe(p) \/ OpenPipe(p) \/ OpenPipeFails(p)
                  \/ BindPort(p) \/ BindPortFails(p) \/ ExitAtOnce(p)

Next == PortReleased \/ \E p \in Procs : Start(p) \/ StartUpStep(p) \/ Kill(p)

(***************************************************************************)
(* Processes run, the kernel frees the port in the end, and whoever starts *)
(* the processes starts again what has ended.                              *)
(***************************************************************************)
Spec == /\ Init /\ [][Next]_vars
        /\ WF_vars(PortReleased)
        /\ \A p \in Procs : WF_vars(Start(p)) /\ WF_vars(StartUpStep(p))

-----------------------------------------------------------------------------
(* Properties *)

\* A server over TCP that is up has the port, and nobody else has it, however often
\* servers were killed while their predecessor's connections still kept it.
PortHeldByServer == port = "taken" <=> (setup.over_ip /\ Up("server"))

Needed == IF setup.over_ip THEN Procs ELSE Procs \ {"client"}

\* The pipes that start-up does not create, for want of a log path or of TCP.
NobodyMakes == PipeFiles \ IF ~setup.log_path THEN {}
                           ELSE IF setup.over_ip THEN PipeFiles ELSE {"request_server", "reply_server"}

\* Whatever the order in which the processes are started, and restarted after they
\* ended or were killed, all that are needed come up and stay up, provided earlier runs
\* left the pipes that nobody creates now: without TCP the client pipes.
AllComeUp == NobodyMakes \subseteq setup.old => <>[](\A p \in Needed : Up(p))

OpenedBy(p) == {Steps(p)[i].on : i \in {j \in DOMAIN Steps(p) : Steps(p)[j].call = "open"}}

\* A process that opens a pipe nobody creates never comes up, however often it is started
\* and in whatever company: one machine and an empty directory do not go together, and
\* neither do an empty directory and no log path, for which pcie_tlp_pkt_lib.c:88 has a
\* default.
UpOnlyWithPipes == \A p \in Procs : Up(p) => (NobodyMakes \cap OpenedBy(p)) \subseteq setup.old
=============================================================================
