# TLA+ verification of the CXL transaction relay

This project models the program in `src/`: a relay that carries memory and
configuration accesses of a Simics host to an RTL simulation and the device's
replies back, either through named pipes on one machine or through named pipes
and a TCP connection between two. It consists of TLA+ modules, TLC
configurations that check them on small instances, and proofs checked by TLAPS.

## 1. The system

| Part | Source | State | Operations |
|---|---|---|---|
| Transaction | `cxl_tlp_fifo.h` | `simics_transaction_t` | copied from stage to stage |
| Named pipes | `named_pipe.c`, `cxl_tlp_fifo.c` | four pipes, opened `O_RDWR` by everybody | `send_*`, `recv_*` (blocking), `open_client_pipe`, `open_server_pipe` |
| Simics host | `forward-receiver.c`, `dml_debug.c` | `send_pkt`, `reply_pkt`, `simics_packet_no`, descriptors left open | `issue` → `simics_send_access_to_cosim` |
| Relay server, one machine | `cxl_tlp_relay_server.c` | two threads, one static buffer each | `cxl_server_fifo_access_thread`, `cxl_rtl_to_host_reply_thread` |
| Relay server, TCP | `cxl_tlp_relay_server.c`, `cxlcommlib.c` | socket, `stop_reply_thread`, one reply thread per connection ever made, a buffer they share | `cxl_tcp_server_thread`, `cxl_rtl_to_host_reply_thread` |
| Relay client | `cxl_tlp_relay_client.c`, `cxlcommlib.c` | socket, `stop_request_read_thread`, one reader per connection ever made, a buffer they share | `cxl_relay_client_thread`, `host_request_read_thread` |
| RTL side | `dpi_sv.c`, `dpi_sv.sv` | `req`, `rsp` | `run`, `simics_dpi_request`, `simics_dpi_response` |
| Test host | `testhost.c` | loop counter, request, response | ten transactions and a packet that ends the simulation |
| Forwarding device | `forward-pcie-main.dml`, `forward_comp.py`, `forward-receiver.c` | BAR registers, `use_rtl`, `mem_access_type` | `io_memory_access`, BAR mappings, `issue` |
| Start-up | `main` of each process, `named_pipe.c`, `pcie_tlp_pkt_lib.c`, `CXL_InitServerNetwork` | files in the pipe directory, the listening port | `mkfifo`, `open`, `bind` |

How a transaction travels:

    one machine:  host -request_client-> server -request_server-> RTL
                  host <-reply_client--- server <-reply_server--- RTL

    over TCP:     host -request_client-> client ==TCP==> server -request_server-> RTL
                  host <-reply_client--- client <==TCP== server <-reply_server--- RTL

Processes share nothing but the pipes and the connection. Nothing is locked,
no reply is compared with a request, and nothing is retried: that the right
reply reaches the right access rests on there being one access at a time.

What is hard here, and therefore what the properties are about:

* several threads and processes that block on the same pipes;
* readers and reply threads of dead connections that live on, with a stop flag
  that is set late and cleared early;
* packets lost with a connection; short receives; SIGPIPE; a send that reports
  failure after it succeeded;
* an access that stops waiting, a request that is never written, a Simics that
  is restarted while the relay is not;
* two descriptors leaked by every access, and a packet number that wraps to
  the value that ends the simulation;
* threads of several connections that share one static buffer;
* a server or a simulation that dies with packets in its hands, or forwards what
  a failed read left in its buffer;
* processes started in any order, in a directory with or without old pipes;
* a struct that C and SystemVerilog lay out differently, and reads and writes
  that place their bytes differently.

`PROJECT.json` lists these hazards one by one, at their lines.

What makes each part correct: pipes deliver whole packets in order; the relay
neither drops, repeats nor alters a packet; an access completes with the reply
to it; the relay ends find each other again after a failure; the simulation
ends only when the test is done.

## 2. The modules

| Module | Models | Kind |
|---|---|---|
| `Tlp` | the transaction and the reply the RTL side makes of it | data |
| `NamedPipe` | the four pipes | component |
| `SimicsHost` | `issue` with `use_rtl`, `simics_send_access_to_cosim` | component |
| `HostFaults` | failing pipe calls of the host, and its restart | component |
| `FifoServer` | the two threads of the server on one machine | component |
| `RtlDevice` | task `run` and the two DPI functions | component |
| `TcpLink` | the connections the kernel provides (external) | environment |
| `RelayClient`, `RelayServer` | the two ends over TCP, with all threads they ever spawned | component |
| `TestHost` | `testhost.c` | component |
| `RemoteAccess` | what the relay promises a host that waits | abstract |
| `OrderedReplies` | what it promises a host that does not always wait | abstract |
| `FifoRelay` | `SimicsHost` + `FifoServer` + `RtlDevice` | composition |
| `UnreliableFifoRelay` | `FifoRelay` + `HostFaults` | composition |
| `IpRelay` | `SimicsHost` + `RelayClient` + `RelayServer` + `RtlDevice` | composition |
| `RelayFaults` | death and restart of server and simulation, their failing pipe calls | component |
| `CrashingFifoRelay` | `FifoRelay` + `RelayFaults` | composition |
| `UnreliableIpRelay` | `IpRelay` + `HostFaults` without restarts | composition |
| `SharedBuffers` | `UnreliableIpRelay` with a history of what each thread read | composition |
| `TestRun` | `TestHost` + `FifoServer` + `RtlDevice` | composition |
| `Startup` | creating and opening the pipes, binding the port, in every process | component |
| `DpiLayout` | one transaction, byte by byte, through `dpi_sv.c` and `run` | component |
| `ForwardPcie` | `forward_comp`, the configuration bank and BARs, the data path of `issue`, with the relay as the queue of `OrderedReplies` and `run` as the echo of `DpiLayout` | composition |
| `NamedPipeProofs` | lemmas about packets and pipes that every proof about a relay uses | proofs |
| `FifoRelayProofs` | theorems about `FifoRelay`, `UnreliableFifoRelay` and `CrashingFifoRelay` | proofs |
| `IpRelayProofs` | theorems about `IpRelay` | proofs |
| `SharedBuffersProofs` | theorems about `UnreliableIpRelay` and `SharedBuffers`, from those about `IpRelay` | proofs |
| `TestRunProofs`, `StartupProofs`, `DpiLayoutProofs`, `ForwardPcieProofs` | theorems about the module each is named after | proofs |
| `MC...` | sets of addresses for TLC | model values |

Correspondence. A `..._pc` variable says at which blocking call or between
which two visible effects a thread is; an action is the code from there to the
next one. A packet keeps the three fields that behaviour or a property depends
on: `packet_number`, `r0w1`, `physical_address`. `ReplyTo` is what
`simics_dpi_response` does to them: the buffer is cleared and every field is
assigned except `r0w1`, so a reply always says it is a read. `host_fds` counts
the descriptors `open_client_pipe` opened and nobody closed.

Over TCP, `rd[k]` and `rt[k]` are the reader and the reply thread spawned for
connection `k`. Both processes have a single socket beside their listener,
pipes and log, so the kernel hands out the same descriptor number again and
again: a stale copy of it denotes whatever connection is open now, which the
models do by letting a thread of any generation send on the current one.
`CXL_Send` calls `send(2)` until it returns 0, that is once for the packet and
once for no bytes: `RdSend`/`RtSend` and `RdConfirm`/`RtConfirm` are the two
calls, because the connection can end between them.

In `RelayFaults` a process that dies loses what its threads hold; what is in a pipe
survives as long as some process has that pipe open (`Surviving`). `repeated`
counts the failed reads after which a thread passed its buffer on all the same.
`Startup` gives each process its steps as a list (`ServerSteps`, ...): `at[p]` is the
step it is at, one past the last when it is up, 0 when it does not run.

`DpiLayout` represents the struct as bytes at offsets: `COffset` and `SvOffset` are
the two layouts of one memory, `StoreRequest`, `Respond` and `LoadReply` what
`simics_dpi_request`, `run` and `simics_dpi_response` do to it. What C does not assign
of the output argument is old or zero, as the simulator likes. In `ForwardPcie` a value is
a function from the eight byte lanes of a `uint64`; `send_pkt` and `reply_data` are the
static buffers of `forward-receiver.c`, `owed` the replies the relay owes, and `Carry` is
`simics_send_access_to_cosim` from its write to its read: the request is written or not,
and the host takes the reply owed longest or is interrupted. For the properties it is
remembered which BAR values were in a configuration write that was written (`told`),
and for which BARs the last one was not (`lost`).

Operators named "Mutant of X" in a comment state a plausible bug in the code
that X models. No specification uses them; each is there to show that some
property of a run fails when X is replaced by it (`PROJECT.json`, "mutants").

### Abstractions

* Data bytes, sizes and packet types are left out of the relay and treated in
  `DpiLayout` and `ForwardPcie`; those two take the relay as one step. Logging,
  printing and the `verbose` flag are left out. With `verbose` set a failing write ends Simics, which
  `HostRestart` covers.
* `time_end_flag` is never set in this code, so the return at
  `dml_debug.c:111` is dead and not modelled.
* `cxl_client_stopflag`, `server_stopflag` and the like are never set after
  start-up; the branches they guard are not modelled. `use_named_pipe_set`
  always returns 1.
* `simics_validate_receive` always returns 1, so the branch at
  `cxl_tlp_relay_client.c:227` is never taken.
* A packet is smaller than `PIPE_BUF`, so pipe operations on whole packets are
  atomic. Over TCP, pipe calls of the relay and of the RTL side do not fail, and
  the relay processes are not started again.
* A network fault ends a connection for both ends, with or without what was
  under way. A peer that vanishes without a reset is not modelled.
* Except in `Startup`, models begin with the pipes created and opened, the
  server listening. `Startup` takes the environment variables that `source.me`
  sets as set, `CXL_RELAY_LOG_PATH` and `CXL_RELAY_OVER_IP` excepted.
* In `ForwardPcie` a BAR window has eight bytes and an address fits in one byte.
  Software does not map two BARs to one place. A restart of Simics is one between two
  accesses; one within an access is an interrupted access before it.
* `RelayServer` and `RelayClient` take accepting or connecting, clearing the stop flag and
  spawning the thread as one step each. In between neither end touches
  the connection, and the flag only keeps older threads for longer.
* `testhost` ends when a write fails; its `read(2)` does not fail.

## 3. Runs

| Run | Question | Constants | Result |
|---|---|---|---|
| `fifo_relay` | is the relay on one machine right for a host that waits? | 3 addresses, `Modulus` 4, `PipeCap` 1, `FdLimit` 7 | passes, 595 states |
| `fifo_relay_fds` | does a read return the device's data? | `FdLimit` 4 | violated (finding 1) |
| `unreliable_fifo_relay` | what survives a failing and restarted host? | 1 address, `FdLimit` 4, 7 faults | passes, 399,600 states |
| `stale_reply` | does an access still get its own reply? | 2 addresses, 2 faults | violated (finding 2) |
| `crashing_fifo_relay` | what do crashes, restarts, failed writes and reads do? | 2 addresses, `FdLimit` 6, 3 faults | passes, 358,943 states |
| `ip_relay` | safety, refinement and liveness over TCP | 1 address, `FdLimit` 4, 1 fault | passes, 47,604 states |
| `ip_relay_held_reply` | has a reply thread a socket? | 1 fault | violated (finding 3) |
| `unreliable_ip_relay` | do threads that share a buffer spoil it? | 3 accesses, 1 host fault and 1 network fault | passes, 853,034 states |
| `test_run` | does the test end, and last? | 15 transactions, `PipeCap` 2, failing writes | passes, 141 states |
| `startup` | when do all processes come up? | TCP or not, log path or not, 4 old directories, 2 kills | passes, 20,683 states |
| `dpi_layout` | is each reply the echo of its request? | 3 requests of 1 to 8 bytes | passes, 22,513 states |
| `forward_pcie` | does an access reach the right window, and what is read? | 2 BARs, 2 windows, 4 accesses per Simics, then refusals; 2 host faults; modes 1 and 2 | passes, 145,534 states |

What the properties say:

* `Conservation`: while the host waits exactly one packet is somewhere in the
  relay, otherwise none. `InFlightMatches`: it is the host's request or the
  reply to it, in every pipe and every buffer.
* `NumberCountsLeak`, `NeverStopsDevice`: the packet number and the leaked
  descriptors grow together, so descriptors run out before the number wraps to
  the one that ends the simulation. `RefusedForGood`: when they have run out
  between two accesses nothing is under way, and nothing moves again, although
  the host goes on completing accesses.
* `ImplementsPromise`: the refinement of `RemoteAccess`. On one machine with
  `MayLose` FALSE; over TCP an access may be lost, and that is the only
  difference. `EveryAccessReturns` over TCP adds that it is lost only if the network
  has failed.
* `Surplus`: with a failing host the packets in the relay exceed the waiting
  accesses by what was abandoned less what was never written, for ever: nobody
  resynchronises. `ServesInOrder`: the relay remains a queue of replies owed; over TCP
  until the network fails.
* `NeverTwoPackets`, `EndsAreServed`: the leftover readers never send a request
  twice and never starve the connection that is open.
* `EveryAccessEnds`, `Reconnects`: over TCP an access returns, or is lost, or a
  relay process was killed; and after the last fault the two ends settle on
  one connection.
* `ResponseMatches`, `StopsLast`, `TestEnds`: `testhost` prints the response to
  each request, the simulation ends after the last of them with nothing left
  in the pipes, and both sides come to an end.
* `WedgedOnlyWhenFull`: leftovers do not block the relay until they fill four pipes
  and three threads; one fewer and every access returns. With that many the run
  reaches states in which everybody waits on everybody.
* `NeverMoreThanOwed`: over TCP with a failing host and a failing network, and on
  one machine with crashes, packets may be lost and never multiply, failed reads
  excepted. `NoOvertaking`: the generations of threads keep the order of requests
  and replies even across connections. It holds although they share buffers,
  because a thread that read later overwrites the buffer with the younger packet:
  one is lost and the other sent twice, but none is sent out of order.
  `SentAsTaken`: that happens only when a connection broke and an access was given up.
  A leftover thread alone has nobody to share a packet with, since the host waits;
  a leftover packet alone has one thread to carry it.
* `ImplementsLossyPromise`: crashes, restarts and failing calls leave the
  refinement of `RemoteAccess` intact, with `MayLose` TRUE, until a failed read is
  taken for one that worked: the threads forward their static buffer then, before the
  first request the packet number 0 that ends the simulation.
* `AllComeUp`, `UpOnlyWithPipes`: any start order works if whoever starts the
  processes tries again, provided every pipe is created by a process or left by an
  earlier run; otherwise the processes that open it never come up.
  `PortHeldByServer`: a server over TCP is up only with the port.
* `ReplyEchoesRequest`: header, size and payload of every reply are those of its own
  request whatever earlier ones left in the shared structs. It also says that a
  read sent by Simics, whose payload is zero, always returns zeros.
* `MemoryHitsDeviceBar`: the bank decides where a BAR is mapped and the RTL side only
  hears of it; a memory packet that is sent still lies in the window the RTL side was told
  last, through refused, failed and interrupted accesses and restarts of Simics. The BARs
  whose last configuration write failed are excepted (section 4).
  When the opens are refused the copies differ as well, but then nothing is sent any more.
* `OnlyLeftoversAreRead`: unless more accesses were abandoned than were never sent, every
  read through the RTL side gives 0, the payload of its own request. So whatever
  else a read gives is the reply to an earlier access: `issue` clears its static buffers
  in time, and a reply that is left over does no harm once an access that was never
  sent has taken it.

### Bounds, and why they suffice

* `PipeCap` 1: the smallest capacity makes every writer meet a full pipe. In
  `test_run` it is 2 so that the stop packet can queue behind another.
* `Modulus` 3 or 4 with `FdLimit` up to 7: up to three accesses are accepted,
  then they are refused while the packet number goes on and wraps.
  `FdAssumption` (`FdLimit < 2 * Modulus`) is the code's own relation:
  descriptors are non-negative ints, numbers have 32 bits.
* Addresses: 0 (what a cleared buffer holds) and another one are enough to
  tell packets apart; with one address the packet number still does.
* `MaxFaults` bounds cuts and short receives together. `nconn` is at most one
  more. One fault gives two generations of threads.
* `MaxHostFaults` 7 in `unreliable_fifo_relay` is the number of places for packets with
  `PipeCap` 1, so that leftovers can fill them all; two accesses per life of Simics
  (`FdLimit` 4) give packets different numbers. In `unreliable_ip_relay` it is 1, the
  least that leaves a packet behind. Restarts of an idle host are free.
* `NUM_XACTIONS` is 10 in the code; 15 keeps the same alternation of reads and
  writes.
* `MaxRelayFaults` 3: a crash, a restart and two more faults within one access.
* `MaxKills` 2: the same process twice, or two processes that depend on each other.
  `Leftovers`: nothing, the pipes of either side, or all four.
* `DpiLayout`: sizes 1, 4, 6 and 8 cover no, part and all of the two words that
  the payload is displaced into; three requests leave old bytes of two others.
* `ForwardPcie`: BAR0 at an offset divisible by eight and BAR1 at one that is not;
  sizes 4 and 8 make shifts by a lane visible; `Budget` 4 lets
  both BARs be set, written and read before accesses are refused. `MaxHostFaults` 2 lets
  a reply be left over and taken by an access that was never sent, or two be left over.

`CHECK_DEADLOCK FALSE` is used where the system really may stop: with leftovers that fill
every pipe, over TCP with faults (a lost access, a killed process), in `test_run`, which ends, in the
runs with crashes, in `Startup`, where nothing is left to do once everybody is up, and
in `DpiLayout`, whose requests are bounded.

### Fairness

Every thread is weakly fair: the kernel schedules it and a blocking call
returns when it can. The network's faults, short receives, the host's faults
and the host's decision to issue another access are not fair: none need ever
happen. The reader of a pipe is one of several threads; weak fairness of each
suffices, since a packet in the pipe enables all of them until one takes it.

`CrashingFifoRelay` assumes nothing about restarts: `EveryAccessEnds` speaks of times
when both processes run. `Startup` assumes that whoever starts the processes
starts again what has ended, which is what a user does who reads "exit.."; without it a
process that came too early would stay away. Kills are bounded and not fair.

## 4. Findings

1. `fifo_relay_fds`: every access leaks two descriptors (`dml_debug.c:127`).
   When they run out the access completes without error and without the
   device, with zeros where `forward-receiver.c:123` says "relay the replied
   data back to simics".
2. `stale_reply`: after one access that stopped waiting (a read interrupted by
   a signal, or Simics restarted) every later access completes with the reply
   to an earlier one; no packet number is compared (`dml_debug.c:168`, `:180`).
3. `ip_relay_held_reply`: a reply thread that starts after its connection was
   closed reads -1 through the pointer it was given
   (`cxl_tlp_relay_server.c:249`), is not stopped (`:209`, `:166`) and takes a
   reply that the live connection should have carried.

Met while modelling, and visible in the models without a run of their own:

* With leftovers and a broken connection, reply threads send one reply twice and lose
  another (static buffer, `cxl_tlp_relay_server.c:250`), and readers do the same to requests
  (`cxl_tlp_relay_client.c:297`): the exception that `SentAsTaken` makes.
* A failed `read(2)` is announced as received and the buffer sent on
  (`cxl_tlp_relay_server.c:382`): the exception in `NeverMoreThanOwed`.
* Without TCP nobody creates the client pipes, and the server exits unless an earlier run
  over TCP left them (`cxl_tlp_relay_server.c:354`). Without `CXL_RELAY_LOG_PATH` the
  library means to log to `./` but returns before it creates any pipe
  (`pcie_tlp_pkt_lib.c:85`). Both are `NobodyMakes` in `Startup`.
* C and SystemVerilog disagree about the struct (`cxl_tlp_fifo.h:11`, `dpi_sv.sv:6`), so what
  `run` answers reads with (`dpi_sv.sv:58`) is not what `simics_dpi_response` passes to
  Simics (`dpi_sv.c:147`): a read returns the zeros of its own request, which
  `ReplyEchoesRequest` states.
* For the same reason the loop of `run` (`dpi_sv.sv:56`) takes bytes 4 to 7 of the payload,
  of this request or an earlier one, for the size, and runs past the 256 bytes of
  the array (`dpi_sv.sv:15`).
* `forward-receiver.c:164` ignores that a write was not sent and `:172` reports success: the
  bank keeps and maps a BAR the RTL side has not heard of, and the failure that
  `forward-pcie-main.dml:167` is there to log never comes. This is `lost`, the exception in
  `MemoryHitsDeviceBar`.
* `forward-receiver.c:129` takes a read's value from lane `addr & 7` (`Shifted`), while
  replies and writes start at `data[0]`: a four-byte read of BAR1 or BAR3 gives 0.
* The description of `mem_access_type` (`forward-receiver.c:273`) is the reverse of the
  code (`forward-receiver.c:113`): `MemAccessType` and `SendPkt`.

## 5. Proofs

A theorem holds for every value of the constants that the named assumptions
allow. Each run that checks the stated property checks it on a small instance;
the inductive invariants were checked by TLC as well before they were proved.

### One machine (`FifoRelayProofs`)

For every set of addresses containing 0, every `Modulus` above 1, every pipe
capacity and every descriptor limit below twice the modulus (`TlpAssumption`,
`PipeAssumption`, `FdAssumption`):

| Theorem | Statement |
|---|---|
| `TypeCorrect` | `Spec => []TypeOK` |
| `Invariance` | `Spec => []IInv` |
| `PacketsConserved` | `Spec => []Conservation` |
| `PacketsMatch` | `Spec => []InFlightMatches` |
| `NumbersFollowDescriptors` | `Spec => []NumberCountsLeak` |
| `DeviceKeepsRunning` | `Spec => []NeverStopsDevice` |
| `RelayImplementsPromise` | `Spec => ImplementsPromise` |
| `RefusalIsForEver` | `Spec => RefusedForGood` |

The argument. `IInv` is the conjunction of `TypeOK`, `Conservation`,
`InFlightMatches`, `NumberCountsLeak` and `NeverStopsDevice`. None of the middle ones
is inductive alone: that a reply matches needs that there is no second packet
when the host issues the next access; that the device is never stopped needs
that the request it reads is the host's (matching) and that the host's number is
not 0, which needs the descriptor count (`NumberCountsLeak`) and `FdAssumption`.
`ConservationAsSum` turns the seven-term count into a sum of naturals, from which
`QuietUnlessWaiting` follows: when the host does not wait, pipes are empty and
no thread holds a packet. Each action is then a move of one packet from one
term to the next (`PipeWriteEffect`, `PipeReadEffect`). The refinement uses
`IInv` at both ends of a step: `HostIssue` is `Ask`, `HostIssueRefused` is
`Refuse`, `DpiRequest` is `Serve`, `HostDequeue` is `Answer`, all others stutter.
`RefusedForGood` follows from `QuietUnlessWaiting`: with every pipe empty only the
host can step, and only by completing an access itself.

With a failing and restarted host, for every number of faults
(`HostFaultsAssumption`):

| Theorem | Statement |
|---|---|
| `UTypeCorrect` | `USpec => []UTypeOK` |
| `UInvariance` | `USpec => []UInv` |
| `SurplusIsExact` | `USpec => []Surplus` |
| `RelayServesInOrder` | `USpec => ServesInOrder` |

`Conservation` and `InFlightMatches` fail once an access is abandoned, so `IInv` is
of no use here. What remains true of a step of the relay is that it changes the
packets present by as much as the packets owed (`TotalFollowsOwed`, which needs
only `TypeOK` and is also the core of the proof of `Conservation`); a fault
changes what is owed and the two counters by as much as each other (`FaultSum`).
`Surplus` is that balance as long as the device runs, so `UInv` adds `NothingStops`:
no packet anywhere in the relay has number 0. That is inductive only together
with `NumberCountsLeak`, and a restart keeps it because the number and the
descriptors start again together, while packets of the previous Simics stay behind
with numbers that were never 0.

`RelayServesInOrder` is the refinement of `OrderedReplies`. `Owing` is shown to be seven
sequences of replies one after the other, for four pipes and three threads (`Flow`,
`OwingIsFlow`). A thread that reads or writes moves one reply between two neighbours
and leaves the whole unchanged (`ServerKeepsFlow`, `DeviceKeepsFlow`), so these steps
stutter; `HostEnqueue` is `Request` (`HostOwedLast`), `HostDequeue` is `Reply`
(`HostTakesOwedLongest`) and issue and restart are `Clear`. Two facts make it work:
no packet stops the device (`NothingStops`), and what is in the reply pipes already
is a reply (`RepliesAreReplies`), so the host receives what was owed, not something
that would still become it.

With processes that die and calls that fail, for every set of fault kinds and every
number of faults (`RelayFaultsAssumption`):

| Theorem | Statement |
|---|---|
| `CInvariance` | `CSpec => []CInv` |
| `OwedIsNotExceeded` | `CSpec => []NeverMoreThanOwed` |
| `CrashingImplementsLossyPromise` | `CSpec => ImplementsLossyPromise` |

Every fault but a failed read only takes packets away (`OnlyLoses`, `LossShrinks`),
a failed read adds one packet and counts it in `repeated` (`ReadFailsRepeats`).
`NeverMoreThanOwed` is that balance. What the packets are can be said only until a
thread passes on a buffer it has read nothing into, hence the conjunct `repeated = 0 =>
InFlightMatches` of `CInv`: with at most one packet, a request and a reply cannot
be under way together (`RequestExcludesReply`), and a loss is `Lose` in the abstract
specification, or stutters when there was nothing to lose.

### Over TCP (`IpRelayProofs`, `SharedBuffersProofs`)

For every number of network faults besides (`TcpAssumption`), and therefore of
connections and of threads left over from them:

| Theorem | Statement |
|---|---|
| `ServedInvariance` | `Spec => []Served` |
| `IpTypeCorrect` | `Spec => []TypeOK` |
| `ConnectionsServed` | `Spec => []EndsAreServed` |
| `Invariance` | `Spec => []IInv` |
| `NeverTwo` | `Spec => []NeverTwoPackets` |
| `InFlightIsTheAccess` | `Spec => []InFlightMatches` |
| `IpRelayImplementsPromise` | `Spec => ImplementsPromise` |

Not even `TypeOK` is inductive alone: a thread that receives must have a connection
to receive on. `Served` adds what the code relies on silently: while an end has a
connection open its stop flag is down and the thread spawned with it has not gone,
and threads belong only to connections that were made. The flag is raised after the
socket was closed and lowered before the next thread is spawned, so it can be up
only between connections.

The count of packets is a sum again, with two terms that are cardinalities: threads
that hold a packet and packets on connections. Both are finite because `Conns`
is (`FiniteSetTheorems`), a send moves an element from one set to the other, a close or a cut
takes a subset. `NeverTwoPackets` follows with `Owed`: the relay loses packets and
never makes one. `InFlightMatches` needs it at the point where the host issues the
next access, and the refinement needs two more conjuncts of `IInv`: `Numbered`, as on one
machine, so that the device is not stopped and nothing is lost inside it; and
`Undisturbed`, that until the first fault there is one connection which nobody closes
and whose reply thread has its descriptor. Without that one, `MayLose = FALSE` could not
be shown for `MaxFaults = 0`: a reply thread that starts late finds -1 in place of a
socket, and drops a reply, but it can only start late when a connection has ended.

With a host whose calls are interrupted as well:

| Theorem | Statement |
|---|---|
| `OwedIsNotExceeded` | `USpec => []NeverMoreThanOwed` |
| `OInvariance` | `USpec => []OInv` |
| `NoneOvertakes` | `USpec => []NoOvertaking` |
| `IpRelayServesInOrder` | `USpec => ServesInOrder` |
| `HInvariance` | `HSpec => []HInv` |
| `BuffersKept` | `HSpec => []SentAsTaken` |

`NeverMoreThanOwed` adds the host's two counters to the balance above. `SentAsTaken`
has a disjunctive exception, a network fault and a host fault, and its proof is
the reason for it: as long as either has not happened the threads that share a buffer
are kept apart, for different reasons. Without a network fault there is only one
connection, so one thread (`Undisturbed`). Without a host fault there may be any number
of threads but only one packet, so a thread that is about to read finds the pipe
empty while another has yet to send (`ReadsAlone`, `RepliesAlone`).

`NoOvertaking` speaks of what is under way and is not inductive: that the packet the
host writes next is not older than any other is a fact about the host's counter, and
that the packet sent on a new connection is not older than one left on an old one is a
fact about which connections are open. `OInv` adds both. `LastOpen`: only the last
connection is open, an older one holds nothing for the client, and the server has
closed its end of one before it accepts the next. `Stages` is the way of an access as
fourteen sets of packet numbers, from the host's reply buffer back through the
places of `Path`, all connections of a direction together, to the packet before its
write and the number of the next one. `InOrder` says that a stage never holds a number
above one in a later stage, and that no number is 0; `Within` that each pipe,
and the connections of a direction one after the other, are in order themselves.
The last stage needs `Counted`: as long as the pipes can be opened the number is half
of the descriptors and one more, so it has not wrapped (`FdAssumption`). Every step then
either puts nothing new anywhere (`LostInOrder`: close, cut, kill, a lost send) or
passes the first packet of one stage to the next one (`PassedInOrder`).
Threads that share a buffer pass the packet that was read last, which is why one
`Senders` stage for all of them is enough, and why the order survives although a
packet is sent twice. The path is built from the stages again in `PathInOrder`.

`IpRelayServesInOrder` is the refinement of `OrderedReplies` over TCP, for every step that
ends with no network fault counted. Until then there is one connection and one thread of each kind
(`Undisturbed`, `OneConnection`), so `Owing` is eleven sequences of replies one after the
other (`Glue`, `OwingIsGlue`). The ten moves of the client, the server and the device
each move one reply between two neighbours (`Moved`, `GlueMoved`) and stutter; the host's write
is `Request` (`GlueLonger`), its read `Reply` (`GlueShorter`), its issue `Clear`. An
interrupted call stutters. That the device is not stopped comes from `InOrder`,
and that the host gets what was owed from `RepliesAreReplies`, which holds after network
faults as well.

### The test run (`TestRunProofs`)

For every `PipeCap` and every number of transactions below `Modulus`
(`TestHostAssumption`):

| Theorem | Statement |
|---|---|
| `TestInvariance` | `Spec => []TInv` |
| `TestTypeCorrect` | `Spec => []TypeOK` |
| `ResponsesMatch` | `Spec => []ResponseMatches` |
| `SimulationStopsLast` | `Spec => []StopsLast` |

`testhost` compares no packet number; that it nevertheless pairs each request
with its own reply rests on there being one packet at a time. So `TInv` says
where that packet is: one disjunct of `RequestUnderWay` and `ReplyUnderWay` for each
stage, with every other pipe empty and every other thread at its read. Each
step of a thread moves it to the next stage (`RequestMoves`, `ReplyMoves`,
`DeviceTakes`, `DeviceReplies`); `testhost` sends only from the state with no packet.

### Start-up, structs, forwarding device

| Module | Theorem | Statement |
|---|---|---|
| `StartupProofs` | `Invariance` | `Spec => []Inv` |
| | `PortIsTheServers` | `Spec => []PortHeldByServer` |
| | `NobodyUpWithoutPipes` | `Spec => []UpOnlyWithPipes` |
| `DpiLayoutProofs` | `Invariance` | `Spec => []Inv` |
| | `TypeCorrect` | `Spec => []TypeOK` |
| | `RepliesEcho` | `Spec => []ReplyEchoesRequest` |
| `ForwardPcieProofs` | `Invariance` | `Spec => []Inv` |
| | `TypeCorrect` | `Spec => []TypeOK` |
| | `SentToItsBar` | `Spec => []MemoryHitsDeviceBar` |
| | `LeftoversOnly` | `Spec => OnlyLeftoversAreRead` |

* `Startup`, for every set of left-over pipe files and every number of kills
  (`StartupAssumption`). A process that is up is past all of its
  steps. Binding the port is the last one of the only process that binds
  (`HarmlessConcat` and the lemmas about the lists of steps), so the port is
  taken exactly by a server that is up. `OpenedExist` says that a process past a step that opens a
  pipe finds that pipe there, since nothing removes one; `OthersAreOld` that a pipe nobody
  makes was there from the start.
* `DpiLayout`, for packet numbers from 1 to 255, sizes from 1 to 8, payloads
  whose first byte is at most 15 and any number of requests (`DpiAssumption`). SystemVerilog sees the fields at the wrong offsets, so
  `Inv` speaks of bytes: `Carries` says that the bytes at C's offsets hold the
  request, `SmallNumbers` that the upper bytes of each number are 0. `run` assigns
  field by field, at SystemVerilog's offsets, and between them its assignments copy every
  byte the C code looks at later: that is what the proof of the `Respond` step shows.
* `ForwardPcie`, for every choice of BARs, windows, sizes, bytes, budget and number of
  failing calls that `ForwardAssumption` allows. `CopiesAgree`: as long as accesses are carried,
  the RTL side was told of every BAR that is set, or its last write was lost; after
  that nothing is sent. `Balanced`: the replies left over are the accesses abandoned
  less those never sent (`Surplus`, seen from the host), so when the two are equal a read gets
  the reply to its own request or none (`CarryFacts`). `LeftoversOnly` is a property of steps
  and is proved action by action from the invariant.

### Only model-checked

* Liveness (`EveryAccessReturns`, `EveryAccessEnds`, `Reconnects`,
  `WedgedOnlyWhenFull`, `TestEnds`, `AllComeUp`): TLAPS cannot reason about fairness and
  `ENABLED`.
* `ServesInOrder` over TCP says nothing of the time after the first network fault, by its own
  statement: packets may be lost then. What holds after it is `NoOvertaking`, which is proved.
* That `Startup` and `ForwardPcie` have the types their proofs use is part of their
  `Inv` (`StartupTypeOK`, `TypeOK`).

## 6. Not modelled

* Logging and printing (`pcie_tlp_pkt_lib.c`, `dml_memaccess.h`,
  `print_*` functions): text only.
* Functions that nothing calls: `close_*_pipe`, `init_named_fifo`, `CXL_GetTime`,
  `InvertEndianLong`, `dml_send_bank_access_to_cosim` and others.
* PCIe registers other than the BARs, capabilities and hot-plug messages: the
  Simics library, or stubs.
* Restart of the relay processes over TCP together with traffic; `Startup` has
  the restarts alone, `CrashingFifoRelay` has both on one machine.
* A network peer that vanishes without a reset.
* Build files, dependency files (`*.d`), generated headers and checked-in binaries.

## 7. Plan

Done: the core on one machine, host faults, crashes and failing calls, TCP with
network and host faults, start-up, the DPI structs, the forwarding device and the
test run, each with its runs, and proofs of all their safety properties and of every
refinement.

Left: restarts of both relay ends under traffic over TCP.
