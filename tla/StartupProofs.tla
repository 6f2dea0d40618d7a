--------------------------- MODULE StartupProofs ---------------------------
(* Theorems about Startup, for every set of leftovers and number of kills. *)
EXTENDS Startup, SequenceTheorems, TLAPS

\* What a step can be.
Step == [call : {"mkfifo", "open", "bind", "exit"}, on : PipeFiles \cup {"port", "none"}]

\* A process may take these steps at any time: nothing is bound, and what is made is
\* not one of the pipes that nobody makes.
Harmless(steps) ==
  /\ steps \in Seq(Step)
  /\ \A i \in 1 .. Len(steps) : /\ steps[i].call # "bind"
                                /\ steps[i].call = "mkfifo" =>
                                     steps[i].on \in PipeFiles \ NobodyMakes

\* Pipes are found in the directory before a step beyond their open is reached.
OpenedExist == \A p \in Procs : \A i \in 1 .. Len(Steps(p)) :
                 i < at[p] /\ Steps(p)[i].call = "open" => Steps(p)[i].on \in files

\* Only pipes that somebody makes come to those of earlier runs.
OthersAreOld == files \cap NobodyMakes \subseteq setup.old

\* Types; no process is beyond the end of its list.
StartupTypeOK ==
  /\ setup \in Setup
  /\ files \subseteq PipeFiles
  /\ at \in [Procs -> Nat]
  /\ \A p \in Procs : at[p] <= Len(Steps(p)) + 1
  /\ port \in {"free", "taken", "waiting"}
  /\ kills \in Nat

\* The inductive invariant.
Inv == StartupTypeOK /\ PortHeldByServer /\ OpenedExist /\ OthersAreOld

-----------------------------------------------------------------------------
(* The lists of steps *)

\* Harmless steps one after the other are harmless.
LEMMA HarmlessConcat ==
  ASSUME NEW s, NEW t, Harmless(s), Harmless(t)
  PROVE  Harmless(s \o t)
<1>1. s \in Seq(Step) /\ t \in Seq(Step)
  BY DEF Harmless
<1>2. /\ s \o t \in Seq(Step)
      /\ Len(s \o t) = Len(s) + Len(t)
      /\ \A i \in 1 .. Len(s) + Len(t) :
           (s \o t)[i] = IF i <= Len(s) THEN s[i] ELSE t[i - Len(s)]
  BY <1>1, ConcatProperties
<1>3. Len(s) \in Nat /\ Len(t) \in Nat
  BY <1>1, LenProperties
<1>4. ASSUME NEW i \in 1 .. Len(s \o t)
      PROVE  \/ \E j \in 1 .. Len(s) : (s \o t)[i] = s[j]
             \/ \E j \in 1 .. Len(t) : (s \o t)[i] = t[j]
  <2>1. CASE i <= Len(s)
    BY <1>2, <1>3, <2>1
  <2>2. CASE ~(i <= Len(s))
    <3>1. i - Len(s) \in 1 .. Len(t)
      BY <1>2, <1>3, <2>2
    <3> QED
      BY <1>2, <1>3, <2>2, <3>1
  <2> QED
    BY <2>1, <2>2
<1> QED
  BY <1>2, <1>4 DEF Harmless

\* Opening is harmless ...
LEMMA OpensHarmless ==
  /\ Harmless(OpenServerPipes) /\ Harmless(OpenClientPipes)
  /\ Len(OpenServerPipes) = 2 /\ Len(OpenClientPipes) = 2
BY DEF Harmless, OpenServerPipes, OpenClientPipes, Open, Step, PipeFiles

\* ... and so is making what is named after a log path.
LEMMA MakesHarmless ==
  /\ Harmless(MakeServerPipes)
  /\ setup.over_ip => Harmless(MakeClientPipes)
<1>1. CASE setup.log_path
  <2>1. {"request_server", "reply_server"} \subseteq PipeFiles \ NobodyMakes
    BY <1>1 DEF NobodyMakes, PipeFiles
  <2>2. setup.over_ip => {"request_client", "reply_client"} \subseteq PipeFiles \ NobodyMakes
    BY <1>1 DEF NobodyMakes, PipeFiles
  <2>3. /\ MakeServerPipes = <<Make("request_server"), Make("reply_server")>>
        /\ MakeClientPipes = <<Make("request_client"), Make("reply_client")>>
    BY <1>1 DEF MakeServerPipes, MakeClientPipes
  <2>4. Harmless(<<Make("request_server"), Make("reply_server")>>)
    BY <2>1 DEF Harmless, Make, Step, PipeFiles
  <2>5. setup.over_ip => Harmless(<<Make("request_client"), Make("reply_client")>>)
    BY <2>2 DEF Harmless, Make, Step, PipeFiles
  <2> QED
    BY <2>3, <2>4, <2>5
<1>2. CASE ~setup.log_path
  <2>1. MakeServerPipes = << >> /\ MakeClientPipes = << >>
    BY <1>2 DEF MakeServerPipes, MakeClientPipes
  <2>2. Harmless(<< >>)
    BY DEF Harmless
  <2> QED
    BY <2>1, <2>2
<1> QED
  BY <1>1, <1>2

\* A bind after harmless steps is the only one.
LEMMA BindLast ==
  ASSUME NEW s, Harmless(s)
  PROVE  /\ s \o <<Bind>> \in Seq(Step)
         /\ Len(s \o <<Bind>>) = Len(s) + 1
         /\ (s \o <<Bind>>)[Len(s) + 1].call = "bind"
         /\ \A i \in 1 .. Len(s) + 1 :
              /\ (s \o <<Bind>>)[i].call = "bind" => i = Len(s) + 1
              /\ (s \o <<Bind>>)[i].call = "mkfifo" =>
                   (s \o <<Bind>>)[i].on \in PipeFiles \ NobodyMakes
<1>1. s \in Seq(Step) /\ Len(s) \in Nat
  BY LenProperties DEF Harmless
<1>2. <<Bind>> \in Seq(Step) /\ Len(<<Bind>>) = 1 /\ <<Bind>>[1] = Bind /\ Bind.call = "bind"
  BY DEF Bind, Step
<1>3. /\ s \o <<Bind>> \in Seq(Step)
      /\ Len(s \o <<Bind>>) = Len(s) + 1
      /\ \A i \in 1 .. Len(s) + 1 :
           (s \o <<Bind>>)[i] = IF i <= Len(s) THEN s[i] ELSE <<Bind>>[i - Len(s)]
  BY <1>1, <1>2, ConcatProperties
<1>4. \A i \in 1 .. Len(s) : (s \o <<Bind>>)[i] = s[i]
  BY <1>1, <1>3
<1>5. (s \o <<Bind>>)[Len(s) + 1] = Bind
  BY <1>1, <1>2, <1>3
<1>6. ASSUME NEW i \in 1 .. Len(s) + 1
      PROVE  i \in 1 .. Len(s) \/ i = Len(s) + 1
  BY <1>1
<1> QED
  BY <1>1, <1>2, <1>3, <1>4, <1>5, <1>6 DEF Harmless

\* Harmless steps, and the server's last step over TCP.
StepsAre(p) ==
  /\ Steps(p) \in Seq(Step)
  /\ Len(Steps(p)) \in Nat \ {0}
  /\ \A i \in 1 .. Len(Steps(p)) :
       /\ Steps(p)[i].call = "bind" =>
            p = "server" /\ setup.over_ip /\ i = Len(Steps(p))
       /\ Steps(p)[i].call = "mkfifo" => Steps(p)[i].on \in PipeFiles \ NobodyMakes
  /\ p = "server" /\ setup.over_ip => Steps(p)[Len(Steps(p))].call = "bind"

\* A process whose steps are harmless.
LEMMA HarmlessStepsAre ==
  ASSUME NEW p \in Procs, Harmless(Steps(p)), Len(Steps(p)) # 0,
         p = "server" => ~setup.over_ip
  PROVE  StepsAre(p)
BY LenProperties DEF Harmless, StepsAre

\* Harmless steps before two opens of pipes are not none.
LEMMA ThenOpens ==
  ASSUME NEW s, NEW t, Harmless(s), Harmless(t), Len(t) = 2
  PROVE  Harmless(s \o t) /\ Len(s \o t) # 0
<1>1. s \in Seq(Step) /\ t \in Seq(Step)
  BY DEF Harmless
<1>2. Len(s) \in Nat /\ Len(s \o t) = Len(s) + Len(t)
  BY <1>1, LenProperties, ConcatProperties
<1> QED
  BY <1>2, HarmlessConcat

\* The steps of every process.
LEMMA StepFacts ==
  ASSUME NEW p \in Procs
  PROVE  StepsAre(p)
<1>1. CASE p = "server"
  <2> DEFINE s == MakeServerPipes \o OpenServerPipes
  <2>1. Harmless(s)
    BY MakesHarmless, OpensHarmless, HarmlessConcat
  <2>2. Steps(p) = s \o (IF setup.over_ip THEN <<Bind>> ELSE OpenClientPipes)
    BY <1>1 DEF Steps, ServerSteps
  <2> HIDE DEF s
  <2>3. CASE setup.over_ip
    <3>1. Steps(p) = s \o <<Bind>>
      BY <2>2, <2>3
    <3>2. Len(s) \in Nat
      BY <2>1, LenProperties DEF Harmless
    <3> QED
      BY <1>1, <2>1, <2>3, <3>1, <3>2, BindLast DEF StepsAre
  <2>4. CASE ~setup.over_ip
    <3>1. Steps(p) = s \o OpenClientPipes
      BY <2>2, <2>4
    <3> QED
      BY <2>1, <2>4, <3>1, OpensHarmless, ThenOpens, HarmlessStepsAre
  <2> QED
    BY <2>3, <2>4
<1>2. CASE p = "client"
  <2>1. CASE setup.over_ip
    <3>1. Steps(p) = MakeClientPipes \o OpenClientPipes
      BY <1>2, <2>1 DEF Steps, ClientSteps
    <3>2. Harmless(Steps(p)) /\ Len(Steps(p)) # 0
      BY <2>1, <3>1, MakesHarmless, OpensHarmless, ThenOpens
    <3> QED
      BY <1>2, <3>2, HarmlessStepsAre
  <2>2. CASE ~setup.over_ip
    <3>1. Steps(p) = <<Quit>>
      BY <1>2, <2>2 DEF Steps, ClientSteps
    <3>2. Harmless(<<Quit>>) /\ Len(<<Quit>>) = 1
      BY DEF Harmless, Quit, Step
    <3> QED
      BY <1>2, <3>1, <3>2, HarmlessStepsAre
  <2> QED
    BY <2>1, <2>2
<1>3. CASE p = "simv"
  <2>1. Steps(p) = OpenServerPipes
    BY <1>3 DEF Steps, SimvSteps
  <2> QED
    BY <1>3, <2>1, OpensHarmless, HarmlessStepsAre
<1>4. CASE p = "host"
  <2>1. Steps(p) = OpenClientPipes
    BY <1>4 DEF Steps, HostSteps
  <2> QED
    BY <1>4, <2>1, OpensHarmless, HarmlessStepsAre
<1> QED
  BY <1>1, <1>2, <1>3, <1>4 DEF Procs

\* The steps are the same as long as the environment is.
LEMMA StepsStay ==
  ASSUME setup' = setup
  PROVE  /\ \A p \in Procs : Steps(p)' = Steps(p)
         /\ NobodyMakes' = NobodyMakes
BY DEF Steps, ServerSteps, ClientSteps, SimvSteps, HostSteps, MakeServerPipes, MakeClientPipes,
       OpenServerPipes, OpenClientPipes, Procs, NobodyMakes

-----------------------------------------------------------------------------
(* Every step *)

\* A process that goes on has done its step: an open found its pipe, and a bind the port.
LEMMA GoOnInv ==
  ASSUME Inv, NEW p \in Procs, GoOn(p), setup' = setup, kills' = kills,
         files \subseteq files', files' \subseteq files \cup (PipeFiles \ NobodyMakes),
         at[p] \in 0 .. Len(Steps(p)),
         at[p] # 0 /\ Steps(p)[at[p]].call = "open" => Steps(p)[at[p]].on \in files',
         IF at[p] # 0 /\ Steps(p)[at[p]].call = "bind" THEN port' = "taken" ELSE port' = port
  PROVE  Inv'
<1>1. StartupTypeOK /\ PortHeldByServer /\ OpenedExist /\ OthersAreOld
  BY DEF Inv
<1>2. \A q \in Procs : StepsAre(q)
  BY StepFacts
<1>3. /\ \A q \in Procs : Steps(q)' = Steps(q)
      /\ NobodyMakes' = NobodyMakes
  BY StepsStay
<1>4. /\ at' \in [Procs -> Nat]
      /\ at'[p] = at[p] + 1
      /\ \A q \in Procs : q # p => at'[q] = at[q]
  BY <1>1 DEF GoOn, StartupTypeOK
<1>5. StartupTypeOK'
  <2>1. \A q \in Procs : at'[q] <= Len(Steps(q)) + 1
    <3>1. ASSUME NEW q \in Procs PROVE at'[q] <= Len(Steps(q)) + 1
      <4>1. Len(Steps(q)) \in Nat
        BY <1>2 DEF StepsAre
      <4>2. at[q] \in Nat /\ at[q] <= Len(Steps(q)) + 1
        BY <1>1 DEF StartupTypeOK
      <4>3. CASE q = p
        BY <1>4, <4>1, <4>2, <4>3
      <4> QED
        BY <1>4, <4>2, <4>3
    <3> QED
      BY <3>1
  <2>2. port' \in {"free", "taken", "waiting"} /\ kills' \in Nat
    BY <1>1 DEF StartupTypeOK
  <2>3. files' \subseteq PipeFiles /\ setup' \in Setup
    BY <1>1 DEF StartupTypeOK
  <2> QED
    BY <1>3, <1>4, <2>1, <2>2, <2>3 DEF StartupTypeOK
<1>6. PortHeldByServer'
  <2>1. "server" \in Procs
    BY DEF Procs
  <2>2. Up("server")' <=> at'["server"] = Len(Steps("server")) + 1
    BY <1>3, <2>1 DEF Up
  <2>3. CASE p # "server"
    <3>1. port' = port
      BY <1>2, <2>3 DEF StepsAre
    <3>2. at'["server"] = at["server"]
      BY <1>4, <2>1, <2>3
    <3> QED
      BY <1>1, <2>2, <3>1, <3>2 DEF PortHeldByServer, Up
  <2>4. CASE p = "server"
    <3>1. Len(Steps(p)) \in Nat \ {0} /\ at[p] \in Nat
      BY <1>1, <1>2 DEF StepsAre, StartupTypeOK
    <3>2. port # "taken"
      BY <1>1, <2>4, <3>1 DEF PortHeldByServer, Up
    <3>3. CASE at[p] # 0 /\ Steps(p)[at[p]].call = "bind"
      <4>1. at[p] = Len(Steps(p)) /\ setup.over_ip
        BY <1>2, <3>1, <3>3 DEF StepsAre
      <4> QED
        BY <1>4, <2>2, <2>4, <3>3, <4>1 DEF PortHeldByServer
    <3>4. CASE ~(at[p] # 0 /\ Steps(p)[at[p]].call = "bind")
      <4>1. setup.over_ip => at[p] # Len(Steps(p))
        BY <1>2, <2>4, <3>1, <3>4 DEF StepsAre
      <4>2. setup.over_ip => at'[p] # Len(Steps(p)) + 1
        BY <1>4, <3>1, <4>1
      <4> QED
        BY <2>2, <2>4, <3>2, <3>4, <4>2 DEF PortHeldByServer
    <3> QED
      BY <3>3, <3>4
  <2> QED
    BY <2>3, <2>4
<1>7. OpenedExist'
  <2>1. SUFFICES ASSUME NEW q \in Procs, NEW i \in 1 .. Len(Steps(q)),
                        i < at'[q], Steps(q)[i].call = "open"
                 PROVE  Steps(q)[i].on \in files'
    BY <1>3 DEF OpenedExist
  <2>2. CASE i < at[q]
    BY <1>1, <2>1, <2>2 DEF OpenedExist
  <2>3. CASE ~(i < at[q])
    <3>1. q = p /\ i = at[p]
      <4>1. at[q] \in Nat /\ Len(Steps(q)) \in Nat
        BY <1>1, <1>2 DEF StartupTypeOK, StepsAre
      <4>2. q = p
        BY <1>4, <2>1, <2>3
      <4> QED
        BY <1>4, <2>1, <2>3, <4>1, <4>2
    <3> QED
      BY <2>1, <3>1
  <2> QED
    BY <2>2, <2>3
<1>8. OthersAreOld'
  BY <1>1, <1>3 DEF OthersAreOld
<1> QED
  BY <1>5, <1>6, <1>7, <1>8 DEF Inv

\* A process that ends leaves its pipes behind, and the server's port to the kernel.
LEMMA EndInv ==
  ASSUME Inv, NEW p \in Procs, End(p), setup' = setup, files' = files, kills' \in Nat,
         port' = IF p = "server" /\ port = "taken" THEN "waiting" ELSE port
  PROVE  Inv'
<1>1. StartupTypeOK /\ PortHeldByServer /\ OpenedExist /\ OthersAreOld
  BY DEF Inv
<1>2. \A q \in Procs : Len(Steps(q)) \in Nat \ {0}
  BY StepFacts DEF StepsAre
<1>3. /\ \A q \in Procs : Steps(q)' = Steps(q)
      /\ NobodyMakes' = NobodyMakes
  BY StepsStay
<1>4. /\ at' \in [Procs -> Nat]
      /\ at'[p] = 0
      /\ \A q \in Procs : q # p => at'[q] = at[q]
  BY <1>1 DEF End, StartupTypeOK
<1>5. StartupTypeOK'
  <2>1. \A q \in Procs : at'[q] <= Len(Steps(q)) + 1
    BY <1>1, <1>2, <1>4 DEF StartupTypeOK
  <2>2. port' \in {"free", "taken", "waiting"}
    BY <1>1 DEF StartupTypeOK
  <2> QED
    BY <1>1, <1>3, <1>4, <2>1, <2>2 DEF StartupTypeOK
<1>6. PortHeldByServer'
  <2>1. "server" \in Procs
    BY DEF Procs
  <2>2. Up("server")' <=> at'["server"] = Len(Steps("server")) + 1
    BY <1>3, <2>1 DEF Up
  <2>3. CASE p # "server"
    <3>1. at'["server"] = at["server"] /\ port' = port
      BY <1>4, <2>1, <2>3
    <3> QED
      BY <1>1, <2>2, <3>1 DEF PortHeldByServer, Up
  <2>4. CASE p = "server"
    <3>1. port' # "taken"
      BY <2>4
    <3>2. at'["server"] # Len(Steps("server")) + 1
      BY <1>2, <1>4, <2>1, <2>4
    <3> QED
      BY <2>2, <3>1, <3>2 DEF PortHeldByServer
  <2> QED
    BY <2>3, <2>4
<1>7. OpenedExist'
  <2>1. SUFFICES ASSUME NEW q \in Procs, NEW i \in 1 .. Len(Steps(q)),
                        i < at'[q], Steps(q)[i].call = "open"
                 PROVE  Steps(q)[i].on \in files
    BY <1>3 DEF OpenedExist
  <2>2. i < at[q]
    BY <1>2, <1>4, <2>1
  <2> QED
    BY <1>1, <2>1, <2>2 DEF OpenedExist
<1>8. OthersAreOld'
  BY <1>1, <1>3 DEF OthersAreOld
<1> QED
  BY <1>5, <1>6, <1>7, <1>8 DEF Inv

\* Every step of start-up that a process takes.
LEMMA StartUpStepInv ==
  ASSUME Inv, NEW p \in Procs, StartUpStep(p)
  PROVE  Inv'
<1>1. StartupTypeOK /\ StepsAre(p)
  BY StepFacts DEF Inv
<1>2. /\ at[p] \in Nat /\ Len(Steps(p)) \in Nat /\ kills \in Nat
      /\ at[p] = Len(Steps(p)) + 1 <=> Up(p)
  BY <1>1 DEF StartupTypeOK, StepsAre, Up
<1>3. /\ at[p] \in 1 .. Len(Steps(p))
      /\ at[p] \in 0 .. Len(Steps(p))
      /\ ~Up(p)
  BY <1>2 DEF StartUpStep, MakePipe, OpenPipe, OpenPipeFails, BindPort, BindPortFails,
              ExitAtOnce, Does
<1>4. p = "server" /\ setup.over_ip => port # "taken"
  BY <1>3 DEF Inv, PortHeldByServer
<1>5. p = "server" => port # "taken"
  BY <1>4 DEF Inv, PortHeldByServer
<1>6. CASE MakePipe(p)
  <2>1. Steps(p)[at[p]].call = "mkfifo"
    BY <1>6 DEF MakePipe, Does
  <2>2. Target(p) \in PipeFiles \ NobodyMakes
    BY <1>1, <1>3, <2>1 DEF StepsAre, Target
  <2>3. files \subseteq files' /\ files' \subseteq files \cup (PipeFiles \ NobodyMakes)
    BY <1>6, <2>2 DEF MakePipe
  <2> QED
    BY <1>3, <1>6, <2>1, <2>3, GoOnInv DEF MakePipe
<1>7. CASE OpenPipe(p)
  <2>1. Steps(p)[at[p]].call = "open" /\ Steps(p)[at[p]].on \in files
    BY <1>7 DEF OpenPipe, Does, Target
  <2> QED
    BY <1>3, <1>7, <2>1, GoOnInv DEF OpenPipe
<1>8. CASE BindPort(p)
  <2>1. Steps(p)[at[p]].call = "bind"
    BY <1>8 DEF BindPort, Does
  <2> QED
    BY <1>3, <1>8, <2>1, GoOnInv DEF BindPort
<1>9. CASE OpenPipeFails(p) \/ BindPortFails(p) \/ ExitAtOnce(p)
  <2>1. End(p) /\ UNCHANGED <<setup, files, port, kills>>
    BY <1>9 DEF OpenPipeFails, BindPortFails, ExitAtOnce
  <2> QED
    BY <1>2, <1>5, <2>1, EndInv
<1> QED
  BY <1>6, <1>7, <1>8, <1>9 DEF StartUpStep

\* The other steps.
LEMMA NextInv == Inv /\ [Next]_vars => Inv'
<1> SUFFICES ASSUME Inv, [Next]_vars PROVE Inv'
  OBVIOUS
<1>1. ASSUME NEW p \in Procs, Start(p) PROVE Inv'
  <2>1. Len(Steps(p)) \in Nat
    BY StepFacts DEF StepsAre
  <2> QED
    BY <1>1, <2>1, GoOnInv DEF Start
<1>2. ASSUME NEW p \in Procs, StartUpStep(p) PROVE Inv'
  BY <1>2, StartUpStepInv
<1>3. ASSUME NEW p \in Procs, Kill(p) PROVE Inv'
  <2>1. kills' \in Nat
    BY <1>3 DEF Kill, Inv, StartupTypeOK
  <2> QED
    BY <1>3, <2>1, EndInv DEF Kill
<1>4. CASE PortReleased
  <2>1. /\ \A p \in Procs : Steps(p)' = Steps(p)
        /\ NobodyMakes' = NobodyMakes
    BY <1>4, StepsStay DEF PortReleased
  <2>2. "server" \in Procs
    BY DEF Procs
  <2>3. StartupTypeOK'
    BY <1>4, <2>1 DEF PortReleased, Inv, StartupTypeOK
  <2>4. PortHeldByServer'
    BY <1>4, <2>1, <2>2 DEF PortReleased, Inv, PortHeldByServer, Up
  <2>5. OpenedExist' /\ OthersAreOld'
    BY <1>4, <2>1 DEF PortReleased, Inv, OpenedExist, OthersAreOld
  <2> QED
    BY <2>3, <2>4, <2>5 DEF Inv
<1>5. CASE UNCHANGED vars
  <2>1. /\ \A p \in Procs : Steps(p)' = Steps(p)
        /\ NobodyMakes' = NobodyMakes
    BY <1>5, StepsStay DEF vars
  <2>2. "server" \in Procs
    BY DEF Procs
  <2>3. StartupTypeOK' /\ OpenedExist' /\ OthersAreOld'
    BY <1>5, <2>1 DEF vars, Inv, StartupTypeOK, OpenedExist, OthersAreOld
  <2>4. PortHeldByServer'
    BY <1>5, <2>1, <2>2 DEF vars, Inv, PortHeldByServer, Up
  <2> QED
    BY <2>3, <2>4 DEF Inv
<1> QED
  BY <1>1, <1>2, <1>3, <1>4, <1>5 DEF Next

\* The initial states: nothing runs, and every pipe is an old one.
LEMMA InitInv == Init => Inv
<1> SUFFICES ASSUME Init PROVE Inv
  OBVIOUS
<1>1. /\ setup \in Setup /\ files = setup.old /\ port = "free" /\ kills = 0
      /\ at = [p \in Procs |-> 0]
  BY DEF Init
<1>2. setup.old \subseteq PipeFiles
  BY <1>1, StartupAssumption DEF Setup
<1>3. "server" \in Procs /\ \A p \in Procs : Len(Steps(p)) \in Nat \ {0}
  BY StepFacts DEF StepsAre, Procs
<1>4. StartupTypeOK
  BY <1>1, <1>2, <1>3 DEF StartupTypeOK
<1>5. PortHeldByServer
  BY <1>1, <1>3 DEF PortHeldByServer, Up
<1>6. OpenedExist /\ OthersAreOld
  BY <1>1, <1>3 DEF OpenedExist, OthersAreOld
<1> QED
  BY <1>4, <1>5, <1>6 DEF Inv

-----------------------------------------------------------------------------
(* Theorems *)

\* All of the invariant.  That a bind comes last, and that no process goes beyond an open
\* without the pipe, is what makes the two properties inductive.
THEOREM Invariance == Spec => []Inv
BY InitInv, NextInv, PTL DEF Spec

\* The port is taken if and only if a server over TCP is up, through any number of deaths
\* and of binds that come too early (CXL_InitServerNetwork).
THEOREM PortIsTheServers == Spec => []PortHeldByServer
<1>1. Inv => PortHeldByServer
  BY DEF Inv
<1> QED
  BY <1>1, Invariance, PTL

\* Nothing comes up without the pipes it opens: those that nobody makes are left from
\* earlier runs.
THEOREM NobodyUpWithoutPipes == Spec => []UpOnlyWithPipes
<1>1. Inv => UpOnlyWithPipes
  <2>1. SUFFICES ASSUME Inv, NEW p \in Procs, Up(p), NEW n \in NobodyMakes \cap OpenedBy(p)
                 PROVE  n \in setup.old
    BY DEF UpOnlyWithPipes
  <2>2. PICK i \in DOMAIN Steps(p) : Steps(p)[i].call = "open" /\ Steps(p)[i].on = n
    BY DEF OpenedBy
  <2>3. i \in 1 .. Len(Steps(p)) /\ i < at[p]
    <3>1. Steps(p) \in Seq(Step) /\ Len(Steps(p)) \in Nat
      BY StepFacts DEF StepsAre
    <3>2. i \in 1 .. Len(Steps(p))
      BY <3>1, LenProperties
    <3> QED
      BY <2>1, <3>1, <3>2 DEF Up
  <2>4. n \in files
    BY <2>1, <2>2, <2>3 DEF Inv, OpenedExist
  <2> QED
    BY <2>1, <2>4 DEF Inv, OthersAreOld
<1> QED
  BY <1>1, Invariance, PTL
=============================================================================
