-------------------------- MODULE SupervisorProofs --------------------------
(***************************************************************************)
(* Proofs about Supervisor for every number of containers, every set of    *)
(* pids and helpers, every channel capacity and whether or not crun fails: *)
(* its type invariant, that no done channel is closed twice, that the pid  *)
(* index keeps no pid whose exit has already been received, and that an    *)
(* exit is correlated to the container whose init exited, so that the      *)
(* consumer deletes after it no container that runs, and Run does not      *)
(* return without an error under a container that is never restarted.      *)
(***************************************************************************)
EXTENDS Supervisor, TLAPS

(* A crun kill leaves the types of what it changes: zombies and inits.     *)
LEMMA KillTyped ==
  ASSUME TypeOK, NEW c \in Container, Kill(c)
  PROVE  /\ zombies' \subseteq Reap!Reaped /\ UNCHANGED <<events, lost, closed, ctxDone, rt>>
         /\ init' \in [Container -> Pid \cup {NoPid}]
<1>1. Killed({init[c]}) \subseteq Reap!Reaped
  BY DEF TypeOK, Killed, Reap!Reaped, Child, Status
<1> QED
  BY <1>1 DEF TypeOK, Kill, Reap!Exit, reapVars, rtVars

(* A crun delete leaves the types of what it changes.                      *)
LEMMA DeleteTyped ==
  ASSUME TypeOK, NEW c \in Container, Delete(c)
  PROVE  /\ zombies' \subseteq Reap!Reaped /\ UNCHANGED <<events, lost, closed, ctxDone>>
         /\ rt' \in [Container -> {"absent", "created", "running"}]
         /\ init' \in [Container -> Pid \cup {NoPid}]
<1>1. Killed({init[c]}) \subseteq Reap!Reaped
  BY DEF TypeOK, Killed, Reap!Reaped, Child, Status
<1> QED
  BY <1>1 DEF TypeOK, Delete, Reap!Exit, reapVars, rtVars

(* A jump of one goroutine to one of its own labels keeps the type of pc.  *)
LEMMA GotoTyped ==
  ASSUME TypeOK, NEW g \in Goroutine, NEW l, Goto(g, l),
         g = "main" => l \in MainLabel,
         g = "consumer" => l \in ConsumerLabel,
         g = "stop" => l \in StopLabel
  PROVE  /\ pc' \in [Goroutine -> MainLabel \cup ConsumerLabel \cup StopLabel]
         /\ pc'["main"] \in MainLabel /\ pc'["consumer"] \in ConsumerLabel
         /\ pc'["stop"] \in StopLabel
BY DEF TypeOK, Goto, Goroutine, Starter

(* Both goroutines that start containers have the labels of startOne.      *)
LEMMA StarterTyped ==
  ASSUME NEW g \in Starter, NEW l \in StarterLabel
  PROVE  g \in Goroutine /\ l \in MainLabel /\ l \in ConsumerLabel
BY DEF Goroutine, MainLabel, ConsumerLabel

(* The return of a runtime call collects at most the zombie of that call.  *)
LEMMA ReturnTyped ==
  ASSUME TypeOK, NEW g \in Starter, NEW a, NEW b, Return(g, a, b)
  PROVE  /\ zombies' \subseteq Reap!Reaped /\ UNCHANGED <<events, lost, closed, ctxDone>>
         /\ Goto(g, a) \/ Goto(g, b)
BY DEF TypeOK, Return, Reap!Collect

(* An exited crun process is a child of PID 1 like any other.              *)
LEMMA RanTyped ==
  ASSUME NEW g \in Starter, NEW s \in Status
  PROVE  Ran(g, s) \in Reap!Reaped
BY DEF Ran, Reap!Reaped, Child

(* startOne keeps the types, whichever goroutine runs it.                  *)
LEMMA StartOneTyped ==
  ASSUME TypeOK, NEW g \in Starter, StartOne(g)
  PROVE  TypeOK'
<1> USE ConstantsAreSound
<1> DEFINE Labels == MainLabel \cup ConsumerLabel \cup StopLabel
           PcTyped == /\ pc' \in [Goroutine -> Labels]
                      /\ pc'["main"] \in MainLabel /\ pc'["consumer"] \in ConsumerLabel
                      /\ pc'["stop"] \in StopLabel
<1>0. target[g] \in Container /\ g \in Goroutine
  BY DEF TypeOK, Goroutine
<1>a. ASSUME NEW l \in StarterLabel \cup {GiveUp(g)}, Goto(g, l) PROVE PcTyped
  <2>1. /\ g = "main" => l \in MainLabel
        /\ g = "consumer" => l \in ConsumerLabel
        /\ g # "stop"
    BY DEF GiveUp, MainLabel, ConsumerLabel, Starter
  <2> QED
    BY <1>a, <1>0, <2>1, GotoTyped
<1>b. Ran(g, "ok") \in Reap!Reaped /\ Ran(g, "fail") \in Reap!Reaped
  BY RanTyped DEF Status
<1>1. CASE CreateInvoke(g)
  <2>1. PcTyped
    BY <1>1, <1>a DEF CreateInvoke, StarterLabel
  <2>2. zombies' \subseteq Reap!Reaped /\ UNCHANGED <<events, lost, closed, ctxDone>>
    <3>1. Reap!Exit({Ran(g, "ok")}) \/ Reap!Exit({Ran(g, "fail")})
      BY <1>1 DEF CreateInvoke
    <3> QED
      BY <3>1, <1>b DEF TypeOK, Reap!Exit
  <2>3. rt' \in [Container -> {"absent", "created", "running"}]
        /\ init' \in [Container -> Pid \cup {NoPid}]
    <3>1. CASE UNCHANGED rtVars
      BY <3>1 DEF TypeOK, rtVars
    <3>2. CASE /\ rt' = [rt EXCEPT ![target[g]] = "created"]
               /\ \E p \in Free : init' = [init EXCEPT ![target[g]] = p]
      <4>1. PICK p \in Pid : init' = [init EXCEPT ![target[g]] = p]
        BY <3>2 DEF Free
      <4> QED
        BY <3>2, <4>1, <1>0 DEF TypeOK
    <3> QED
      BY <1>1, <3>1, <3>2 DEF CreateInvoke
  <2> QED
    BY <1>1, <2>1, <2>2, <2>3 DEF TypeOK, CreateInvoke, supVars, locals
<1>2. CASE CreateRet(g) \/ StartRet(g)
  <2>1. PcTyped
    BY <1>2, <1>a DEF CreateRet, StartRet, Return, StarterLabel
  <2>2. zombies' \subseteq Reap!Reaped /\ UNCHANGED <<events, lost, closed, ctxDone>>
    BY <1>2, ReturnTyped DEF CreateRet, StartRet
  <2> QED
    BY <1>2, <2>1, <2>2 DEF TypeOK, CreateRet, StartRet, supVars, rtVars, locals
<1>3. CASE StartInvoke(g)
  <2>1. PcTyped
    BY <1>3, <1>a DEF StartInvoke, StarterLabel
  <2>2. zombies' \subseteq Reap!Reaped /\ UNCHANGED <<events, lost, closed, ctxDone>>
    BY <1>3, <1>b DEF TypeOK, StartInvoke, Reap!Exit
  <2> QED
    BY <1>3, <1>0, <2>1, <2>2 DEF TypeOK, StartInvoke, supVars, locals
<1>4. CASE StartUndo(g)
  <2>1. PcTyped
    BY <1>4, <1>a DEF StartUndo
  <2> QED
    BY <1>4, <1>0, <2>1, DeleteTyped DEF TypeOK, StartUndo, supVars, locals
<1>5. CASE StateInvoke(g)
  <2>1. PcTyped
    BY <1>5, <1>a DEF StateInvoke, StarterLabel
  <2>2. zombies' \subseteq Reap!Reaped /\ UNCHANGED <<events, lost, closed, ctxDone>>
    BY <1>5, <1>b DEF TypeOK, StateInvoke, Reap!Exit
  <2>3. gotPid' \in [Starter -> Pid \cup {NoPid}]
    BY <1>5, <1>0 DEF TypeOK, StateInvoke
  <2> QED
    BY <1>5, <2>1, <2>2, <2>3 DEF TypeOK, StateInvoke, supVars, rtVars
<1>6. CASE StateRet(g)
  <2>1. PcTyped /\ target' \in [Starter -> Container]
    <3>1. CASE g = "consumer"
      BY <1>6, <3>1, <1>0, GotoTyped DEF TypeOK, StateRet, AfterStart, ConsumerLabel
    <3>2. CASE g = "main" /\ target["main"] < N
      <4>1. target["main"] + 1 \in Container
        BY <3>2, <1>0 DEF Container
      <4> QED
        BY <1>6, <3>2, <4>1, <1>0, GotoTyped DEF TypeOK, StateRet, AfterStart, MainLabel
    <3>3. CASE g = "main" /\ ~(target["main"] < N)
      <4>1. 1 \in Container
        BY DEF Container
      <4> QED
        BY <1>6, <3>3, <4>1, <1>0 DEF TypeOK, StateRet, AfterStart, MainLabel, ConsumerLabel,
              StopLabel, StarterLabel, Goroutine, Starter
    <3> QED
      BY <3>1, <3>2, <3>3 DEF Starter
  <2>2. zombies' \subseteq Reap!Reaped /\ UNCHANGED <<events, lost, closed, ctxDone>>
    BY <1>6 DEF TypeOK, StateRet, Reap!Collect
  <2>3. pidIndex' \in [Pid -> Container \cup {NoContainer}]
    BY <1>6, <1>0 DEF TypeOK, StateRet
  <2>4. gotPid' \in [Starter -> Pid \cup {NoPid}]
    BY <1>6 DEF TypeOK, StateRet
  <2> QED
    BY <1>6, <2>1, <2>2, <2>3, <2>4 DEF TypeOK, StateRet, rtVars
<1> QED
  BY <1>1, <1>2, <1>3, <1>4, <1>5, <1>6 DEF StartOne

(* Supervisor.Run keeps the types.                                         *)
LEMMA MainTyped ==
  ASSUME TypeOK, MainStep
  PROVE  TypeOK'
<1> USE ConstantsAreSound
<1>0. "main" \in Goroutine /\ target["main"] \in Container
  BY DEF TypeOK, Goroutine, Starter
<1>1. CASE RunNext
  <2>1. Goto("main", "create") /\ "create" \in MainLabel
    BY <1>1 DEF RunNext, MainLabel, StarterLabel
  <2> QED
    BY <1>1, <1>0, <2>1, GotoTyped DEF TypeOK, RunNext, reapVars, rtVars, locals
<1>2. CASE StartOne("main")
  BY <1>2, StartOneTyped DEF Starter
<1>3. CASE RunFailed \/ RunCancelled
  <2>1. Goto("main", "poweroff") /\ "poweroff" \in MainLabel
    BY <1>3 DEF RunFailed, RunCancelled, RunReturns, MainLabel
  <2> QED
    BY <1>3, <1>0, <2>1, GotoTyped
       DEF TypeOK, RunFailed, RunCancelled, RunReturns, Reap!Cancel, supVars, rtVars
<1>4. CASE RunDone
  <2>1. CASE target["main"] < N
    <3>1. target["main"] + 1 \in Container
      BY <2>1, <1>0 DEF Container
    <3> QED
      BY <1>4, <2>1, <3>1 DEF TypeOK, RunDone, reapVars, supVars, rtVars
  <2>2. CASE ~(target["main"] < N)
    <3>1. Goto("main", "poweroff") /\ "poweroff" \in MainLabel
      BY <1>4, <2>2 DEF RunDone, RunReturns, MainLabel
    <3> QED
      BY <1>4, <1>0, <2>2, <3>1, GotoTyped
         DEF TypeOK, RunDone, RunReturns, Reap!Cancel, supVars, rtVars
  <2> QED
    BY <2>1, <2>2
<1> QED
  BY <1>1, <1>2, <1>3, <1>4 DEF MainStep

(* consumeReaper keeps the types: a received event is one that was sent.   *)
LEMMA ConsumerTyped ==
  ASSUME TypeOK, ConsumerStep
  PROVE  TypeOK'
<1> USE ConstantsAreSound
<1>0. "consumer" \in Goroutine /\ target["consumer"] \in Container
  BY DEF TypeOK, Goroutine, Starter
<1>1. CASE ConsumerReceive
  <2>1. Head(events) \in Reap!Reaped /\ events' \in Seq(Reap!Reaped) /\ Len(events') <= EventCap
    BY <1>1 DEF TypeOK, ConsumerReceive, Reap!Receive
  <2>2. UNCHANGED <<zombies, lost, closed, ctxDone>>
    BY <1>1 DEF ConsumerReceive, Reap!Receive
  <2> DEFINE p == Head(events).pid
  <2>3. CASE p \in Pid /\ pidIndex[p] # NoContainer
    <3>1. pidIndex[p] \in Container /\ Head(events).status \in Status
      BY <2>1, <2>3 DEF TypeOK, Reap!Reaped
    <3>2. Goto("consumer", "delete") /\ "delete" \in ConsumerLabel
      BY <1>1, <2>3 DEF ConsumerReceive, ConsumerLabel
    <3>3. /\ pidIndex' = [pidIndex EXCEPT ![p] = NoContainer]
          /\ lastExit' = lastExit \cup {pidIndex[p]}
          /\ target' = [target EXCEPT !["consumer"] = pidIndex[p]]
          /\ evStatus' = Head(events).status
          /\ UNCHANGED <<restart, states, stopped, closes, rtVars, gotPid, ids, todo, runErr>>
      BY <1>1, <2>3 DEF ConsumerReceive
    <3>4. pidIndex' \in [Pid -> Container \cup {NoContainer}]
      BY <3>3, <2>3 DEF TypeOK
    <3> QED
      BY <1>0, <2>1, <2>2, <3>1, <3>2, <3>3, <3>4, GotoTyped DEF TypeOK, rtVars
  <2>4. CASE ~(p \in Pid /\ pidIndex[p] # NoContainer)
    BY <1>1, <2>1, <2>2, <2>4 DEF TypeOK, ConsumerReceive, rtVars
  <2> QED
    BY <2>3, <2>4
<1>2. CASE ConsumerClosed
  <2>1. Goto("consumer", "exited") /\ "exited" \in ConsumerLabel
    BY <1>2 DEF ConsumerClosed, ConsumerLabel
  <2> QED
    BY <1>2, <1>0, <2>1, GotoTyped DEF TypeOK, ConsumerClosed, reapVars, supVars, rtVars, locals
<1>3. CASE ConsumerDelete
  <2>1. Goto("consumer", "decide") /\ "decide" \in ConsumerLabel
    BY <1>3 DEF ConsumerDelete, ConsumerLabel
  <2> QED
    BY <1>3, <1>0, <2>1, GotoTyped, DeleteTyped DEF TypeOK, ConsumerDelete, supVars, locals
<1>4. CASE ConsumerDecide \/ ConsumerGivesUp
  <2>1. PICK l \in {"create", "recv"} : Goto("consumer", l)
    BY <1>4 DEF ConsumerDecide, ConsumerGivesUp
  <2>2. l \in ConsumerLabel
    BY DEF ConsumerLabel, StarterLabel
  <2>3. closes' \in [Container -> Nat]
    <3>1. closes' = closes \/ CloseDone(target["consumer"])
      BY <1>4 DEF ConsumerDecide, ConsumerGivesUp
    <3>2. closes[target["consumer"]] + 1 \in Nat
      BY <1>0 DEF TypeOK
    <3>3. CASE closes' = closes
      BY <3>3, <1>0 DEF TypeOK
    <3>4. CASE closes' = [closes EXCEPT ![target["consumer"]] = @ + 1]
      BY <3>2, <3>4, <1>0 DEF TypeOK
    <3> QED
      BY <3>1, <3>3, <3>4 DEF CloseDone
  <2>4. UNCHANGED <<reapVars, restart, states, pidIndex, lastExit, stopped, rtVars, locals>>
    BY <1>4 DEF ConsumerDecide, ConsumerGivesUp
  <2> QED
    BY <1>0, <2>1, <2>2, <2>3, <2>4, GotoTyped DEF TypeOK, reapVars, rtVars, locals
<1>5. CASE StartOne("consumer")
  BY <1>5, StartOneTyped DEF Starter
<1> QED
  BY <1>1, <1>2, <1>3, <1>4, <1>5 DEF ConsumerStep

(* The signal goroutine and Stop keep the types.                           *)
LEMMA StopTyped ==
  ASSUME TypeOK, StopSignal \/ StopStep
  PROVE  TypeOK'
<1> USE ConstantsAreSound
<1>0. "stop" \in Goroutine /\ StopLabel = {"idle", "term", "poll", "kill", "cancel", "done"}
  BY DEF Goroutine, StopLabel
<1>1. CASE StopSignal
  BY <1>1, <1>0, GotoTyped DEF TypeOK, StopSignal, reapVars, rtVars
<1>2. CASE StopTerm
  BY <1>2 DEF TypeOK, StopTerm, reapVars, supVars, rtVars
<1>3. CASE StopTermed \/ StopAllExited \/ StopKilled
  <2>1. PICK l \in {"poll", "cancel"} : Goto("stop", l)
    BY <1>3 DEF StopTermed, StopAllExited, StopKilled
  <2> QED
    BY <1>3, <1>0, <2>1, GotoTyped
       DEF TypeOK, StopTermed, StopAllExited, StopKilled, reapVars, supVars, rtVars, locals
<1>4. CASE StopDeadline
  BY <1>4, <1>0, GotoTyped DEF TypeOK, StopDeadline, reapVars, supVars, rtVars
<1>5. CASE StopKill
  <2>1. PICK c \in todo : Kill(c) /\ todo' = todo \ {c}
    BY <1>5 DEF StopKill
  <2>2. c \in Container
    BY DEF TypeOK
  <2> QED
    BY <1>5, <2>1, <2>2, KillTyped DEF TypeOK, StopKill, supVars
<1>6. CASE StopCancel
  BY <1>6, <1>0, GotoTyped DEF TypeOK, StopCancel, Reap!Cancel, supVars, rtVars, locals
<1> QED
  BY <1>1, <1>2, <1>3, <1>4, <1>5, <1>6 DEF StopStep

(* Exits, the reaper and stuttering keep the types.                        *)
LEMMA KernelTyped ==
  ASSUME TypeOK,
         \/ \E p \in Reap!Pids(zombies) : ReapChild(p)
         \/ ReaperExit
         \/ \E c \in Container, s \in Status : ContainerExit(c, s)
         \/ \E h \in Helper : HelperExit(h)
         \/ Halted
         \/ UNCHANGED vars
  PROVE  TypeOK'
<1> USE ConstantsAreSound DEF unchangedByKernel, supVars, rtVars, locals
<1>1. CASE \E p \in Reap!Pids(zombies) : ReapChild(p)
  <2>1. PICK z \in zombies : Reap!Wait4(z) /\ UNCHANGED <<unchangedByKernel, rtVars>>
    BY <1>1 DEF ReapChild
  <2>2. z \in Reap!Reaped /\ z.pid \in Child
    BY DEF TypeOK, Reap!Reaped
  <2>3. events' \in Seq(Reap!Reaped) /\ Len(events') <= EventCap /\ lost' \subseteq Child
    <3>1. CASE Len(events) < EventCap /\ events' = Append(events, z) /\ lost' = lost
      <4>1. Len(Append(events, z)) = Len(events) + 1 /\ Append(events, z) \in Seq(Reap!Reaped)
        BY <2>2 DEF TypeOK
      <4> QED
        BY <3>1, <4>1 DEF TypeOK
    <3>2. CASE lost' = lost \cup {z.pid} /\ events' = events
      BY <3>2, <2>2 DEF TypeOK
    <3> QED
      BY <2>1, <3>1, <3>2 DEF Reap!Wait4
  <2> QED
    BY <2>1, <2>3 DEF TypeOK, Reap!Wait4
<1>2. CASE ReaperExit
  BY <1>2 DEF TypeOK, ReaperExit, Reap!Close
<1>3. CASE \E c \in Container, s \in Status : ContainerExit(c, s)
  <2>1. PICK c \in Container, s \in Status : ContainerExit(c, s)
    BY <1>3
  <2>2. init[c] \in Pid /\ [pid |-> init[c], status |-> s] \in Reap!Reaped
    BY <2>1 DEF TypeOK, ContainerExit, Reap!Reaped, Child
  <2> QED
    BY <2>1, <2>2 DEF TypeOK, ContainerExit, Reap!Exit
<1>4. CASE \E h \in Helper : HelperExit(h)
  <2>1. PICK h \in Helper : HelperExit(h)
    BY <1>4
  <2>2. [pid |-> h, status |-> "ok"] \in Reap!Reaped
    BY DEF Reap!Reaped, Child, Status
  <2> QED
    BY <2>1, <2>2 DEF TypeOK, HelperExit, Reap!Exit
<1>5. CASE Halted \/ UNCHANGED vars
  BY <1>5 DEF TypeOK, Halted, vars, reapVars
<1> QED
  BY <1>1, <1>2, <1>3, <1>4, <1>5

(* Every variable keeps its type: the events channel stays within its      *)
(* capacity, the index holds containers only, each goroutine stays within  *)
(* its own labels.                                                         *)
THEOREM SupervisorTypeCorrect == Spec => []TypeOK
<1>1. Init => TypeOK
  <2> SUFFICES ASSUME Init PROVE TypeOK
    OBVIOUS
  <2>1. /\ zombies \subseteq Reap!Reaped /\ lost \subseteq Child
        /\ events \in Seq(Reap!Reaped) /\ Len(events) <= EventCap
        /\ closed \in BOOLEAN /\ ctxDone \in BOOLEAN
    <3>1. <<>> \in Seq(Reap!Reaped) /\ Len(<<>>) = 0
      OBVIOUS
    <3>2. zombies = {} /\ events = <<>> /\ lost = {} /\ closed = FALSE /\ ctxDone = FALSE
      BY DEF Init, Reap!Init
    <3>3. 0 <= EventCap
      BY ConstantsAreSound
    <3> QED
      BY <3>1, <3>2, <3>3
  <2>2. /\ pc \in [Goroutine -> MainLabel \cup ConsumerLabel \cup StopLabel]
        /\ pc["main"] \in MainLabel /\ pc["consumer"] \in ConsumerLabel /\ pc["stop"] \in StopLabel
    BY DEF Init, Goroutine, Starter, MainLabel, ConsumerLabel, StopLabel
  <2>3. 1 \in Container
    BY ConstantsAreSound DEF Container
  <2> QED
    BY <2>1, <2>2, <2>3, ConstantsAreSound DEF TypeOK, Init, Status
<1>2. TypeOK /\ [Next]_vars => TypeOK'
  BY MainTyped, ConsumerTyped, StopTyped, KernelTyped DEF Next
<1> QED
  BY <1>1, <1>2, PTL DEF Spec

-----------------------------------------------------------------------------
MainStarting == pc["main"] \in StarterLabel \cup {"next", "failed"}
ConsumerBusy == pc["consumer"] \in StarterLabel \cup {"delete", "decide", "close"}

(* The inductive invariant behind ClosedAtMostOnce. At any moment a        *)
(* container has one handler at most: its entry in the index, or the       *)
(* consumer busy with it. Neither exists once its done channel is closed.  *)
(* While main starts containers the consumer is off, and the index holds   *)
(* only containers main has already been through.                          *)
OneHandler ==
    /\ MainStarting => /\ pc["consumer"] = "off"
                       /\ \A p \in Pid : pidIndex[p] < target["main"]
    /\ pc["consumer"] = "off" => \A c \in Container : closes[c] = 0
    /\ \A p, q \in Pid : pidIndex[p] = pidIndex[q] /\ pidIndex[p] # NoContainer => p = q
    /\ \A p \in Pid : pidIndex[p] # NoContainer => closes[pidIndex[p]] = 0
    /\ ConsumerBusy => /\ closes[target["consumer"]] = 0
                       /\ \A p \in Pid : pidIndex[p] # target["consumer"]
    /\ ClosedAtMostOnce

(* crun forgets a container only after its init is gone.                   *)
AbsentIsDead == \A c \in Container : rt[c] = "absent" => init[c] = NoPid

(* The same as IndexAccounted for a pid that startOne has read from crun   *)
(* state and not registered yet.                                           *)
GotAccounted ==
    \A g \in Starter : gotPid[g] # NoPid => pc[g] = "stateRet" /\ gotPid[g] \in InFlight

(* A step that leaves the index, the channels and the targets alone keeps  *)
(* OneHandler unless a goroutine enters one of the busy labels.            *)
LEMMA HandlerFrame ==
  ASSUME OneHandler, UNCHANGED <<pidIndex, closes, target>>,
         MainStarting' => MainStarting,
         ConsumerBusy' => ConsumerBusy,
         pc'["consumer"] = "off" <=> pc["consumer"] = "off"
  PROVE  OneHandler'
BY DEF OneHandler, ClosedAtMostOnce

(* startOne keeps OneHandler: only its last step, the registration,        *)
(* touches the index, for a container that has no other handler.           *)
LEMMA StartOneHandler ==
  ASSUME TypeOK, OneHandler, NEW g \in Starter, StartOne(g)
  PROVE  OneHandler'
<1> USE ConstantsAreSound
<1>0. target[g] \in Container /\ g \in Goroutine /\ NoContainer \notin Container
  BY DEF TypeOK, Goroutine, Container, NoContainer
<1>1. CASE ~StateRet(g)
  <2>1. /\ UNCHANGED <<pidIndex, closes, target>>
        /\ pc[g] \in StarterLabel
        /\ \E l \in StarterLabel \cup {GiveUp(g)} : Goto(g, l)
    BY <1>1 DEF StartOne, CreateInvoke, CreateRet, StartInvoke, StartRet, StartUndo, StateInvoke,
                Return, supVars, locals, StarterLabel
  <2>2. /\ MainStarting' => MainStarting
        /\ ConsumerBusy' => ConsumerBusy
        /\ pc'["consumer"] = "off" <=> pc["consumer"] = "off"
    BY <2>1, <1>0 DEF TypeOK, Goto, MainStarting, ConsumerBusy, StarterLabel, GiveUp, Starter,
                      Goroutine
  <2> QED
    BY <2>1, <2>2, HandlerFrame
<1>2. CASE StateRet(g) /\ g = "main"
  <2>1. /\ pc["consumer"] = "off"
        /\ \A c \in Container : closes[c] = 0
        /\ \A p \in Pid : pidIndex[p] < target["main"]
    BY <1>2 DEF OneHandler, MainStarting, StateRet, StarterLabel
  <2>2. \A p \in Pid : pidIndex'[p] = pidIndex[p] \/ (pidIndex'[p] = target["main"] /\ p = gotPid["main"])
    BY <1>2 DEF TypeOK, StateRet
  <2>3. closes' = closes
    BY <1>2 DEF StateRet
  <2>4. \A p \in Pid : pidIndex'[p] # NoContainer => closes'[pidIndex'[p]] = 0
    BY <2>1, <2>2, <2>3, <1>0, <1>2 DEF TypeOK
  <2>5. \A p, q \in Pid : pidIndex'[p] = pidIndex'[q] /\ pidIndex'[p] # NoContainer => p = q
    BY <2>1, <2>2, <1>0, <1>2 DEF TypeOK, OneHandler, Container
  <2>6. ClosedAtMostOnce'
    BY <2>1, <2>3 DEF ClosedAtMostOnce
  <2>7. ~ConsumerBusy'
    BY <1>2, <2>1, <1>0 DEF StateRet, AfterStart, Goto, TypeOK, ConsumerBusy, StarterLabel, Goroutine, Starter
  <2>8. MainStarting' => /\ pc'["consumer"] = "off"
                         /\ \A p \in Pid : pidIndex'[p] < target'["main"]
    <3>1. CASE target["main"] < N
      <4>1. target'["main"] = target["main"] + 1 /\ pc'["consumer"] = "off"
        BY <1>2, <2>1, <1>0, <3>1 DEF StateRet, AfterStart, Goto, TypeOK, Goroutine, Starter
      <4> QED
        <5>1. \A p \in Pid : pidIndex[p] \in Nat /\ pidIndex[p] < target["main"]
          BY <2>1 DEF TypeOK, Container, NoContainer
        <5>2. target["main"] \in Nat
          BY <1>0, <1>2 DEF Container
        <5> QED
          BY <4>1, <5>1, <5>2, <2>2
    <3>2. CASE ~(target["main"] < N)
      BY <1>2, <1>0, <3>2 DEF StateRet, AfterStart, TypeOK, MainStarting, StarterLabel, Goroutine, Starter
    <3> QED
      BY <3>1, <3>2
  <2> QED
    BY <2>1, <2>3, <2>4, <2>5, <2>6, <2>7, <2>8 DEF OneHandler
<1>3. CASE StateRet(g) /\ g = "consumer"
  <2> DEFINE c == target["consumer"]
  <2>1. closes[c] = 0 /\ \A p \in Pid : pidIndex[p] # c
    BY <1>3 DEF OneHandler, ConsumerBusy, StateRet, StarterLabel
  <2>2. \A p \in Pid : pidIndex'[p] = pidIndex[p] \/ (pidIndex'[p] = c /\ p = gotPid["consumer"])
    BY <1>3 DEF TypeOK, StateRet
  <2>3. UNCHANGED <<closes, target>> /\ pc' = [pc EXCEPT !["consumer"] = "recv"]
    BY <1>3 DEF StateRet, AfterStart, Goto
  <2>4. pc'["consumer"] = "recv" /\ pc["consumer"] = "stateRet" /\ ~MainStarting'
    BY <1>3, <2>3 DEF TypeOK, StateRet, OneHandler, MainStarting, Goroutine, Starter
  <2>5. \A p, q \in Pid : pidIndex'[p] = pidIndex'[q] /\ pidIndex'[p] # NoContainer => p = q
    BY <2>1, <2>2 DEF OneHandler
  <2>6. \A p \in Pid : pidIndex'[p] # NoContainer => closes'[pidIndex'[p]] = 0
    BY <2>1, <2>2, <2>3 DEF OneHandler
  <2> QED
    BY <2>3, <2>4, <2>5, <2>6 DEF OneHandler, ConsumerBusy, StarterLabel, ClosedAtMostOnce
<1> QED
  BY <1>1, <1>2, <1>3 DEF Starter

(* Supervisor.Run keeps OneHandler.                                        *)
LEMMA MainHandler ==
  ASSUME TypeOK, OneHandler, MainStep
  PROVE  OneHandler'
<1> USE ConstantsAreSound DEF Goto, StarterLabel, Goroutine, Starter
<1>1. CASE StartOne("main")
  BY <1>1, StartOneHandler
<1>2. CASE RunNext \/ RunFailed \/ RunCancelled
  <2>1. /\ UNCHANGED <<pidIndex, closes, target>>
        /\ pc["main"] = "next" \/ pc'["main"] = "poweroff"
        /\ pc'["consumer"] = pc["consumer"]
    BY <1>2 DEF TypeOK, RunNext, RunFailed, RunCancelled, RunReturns, supVars, locals
  <2> QED
    BY <2>1, HandlerFrame DEF MainStarting, ConsumerBusy
<1>3. CASE RunDone
  <2>1. /\ UNCHANGED <<pidIndex, closes>> /\ target'["consumer"] = target["consumer"]
        /\ pc'["consumer"] = pc["consumer"]
        /\ pc'["main"] \in {"wait", "poweroff"}
    BY <1>3 DEF TypeOK, RunDone, RunReturns, supVars
  <2> QED
    BY <2>1 DEF OneHandler, MainStarting, ConsumerBusy, ClosedAtMostOnce
<1> QED
  BY <1>1, <1>2, <1>3 DEF MainStep

(* consumeReaper keeps OneHandler: receiving an event moves a container    *)
(* from the index to the consumer, a decision moves it on.                 *)
LEMMA ConsumerHandler ==
  ASSUME TypeOK, OneHandler, ConsumerStep
  PROVE  OneHandler'
<1> USE ConstantsAreSound DEF Goto, StarterLabel, Goroutine, Starter
<1> DEFINE c == target["consumer"]
<1>0. c \in Container /\ NoContainer \notin Container
  BY DEF TypeOK, Container, NoContainer
<1>1. CASE StartOne("consumer")
  BY <1>1, StartOneHandler
<1>2. CASE ConsumerReceive
  <2> DEFINE p == Head(events).pid
  <2>0. pc["consumer"] = "recv" /\ ~MainStarting /\ pc'["main"] = pc["main"] /\ closes' = closes
    BY <1>2 DEF TypeOK, ConsumerReceive, OneHandler
  <2>1. CASE p \in Pid /\ pidIndex[p] # NoContainer
    <3>1. /\ pidIndex' = [pidIndex EXCEPT ![p] = NoContainer]
          /\ target'["consumer"] = pidIndex[p]
          /\ pc'["consumer"] = "delete"
      BY <1>2, <2>1 DEF ConsumerReceive, TypeOK
    <3>2. closes[pidIndex[p]] = 0 /\ \A q \in Pid : pidIndex'[q] # pidIndex[p]
      BY <2>1, <3>1 DEF OneHandler, TypeOK
    <3> QED
      BY <2>0, <2>1, <3>1, <3>2 DEF OneHandler, TypeOK, MainStarting, ConsumerBusy, ClosedAtMostOnce
  <2>2. CASE ~(p \in Pid /\ pidIndex[p] # NoContainer)
    BY <1>2, <2>0, <2>2, HandlerFrame DEF ConsumerReceive, MainStarting, ConsumerBusy
  <2> QED
    BY <2>1, <2>2
<1>3. CASE ConsumerClosed \/ ConsumerDelete
  <2>1. /\ UNCHANGED <<pidIndex, closes, target>>
        /\ pc["consumer"] \in {"recv", "delete"}
        /\ pc'["consumer"] = "exited" \/ (pc["consumer"] = "delete" /\ pc'["consumer"] = "decide")
        /\ pc'["main"] = pc["main"]
    BY <1>3 DEF TypeOK, ConsumerClosed, ConsumerDelete, supVars, locals
  <2> QED
    BY <2>1, HandlerFrame DEF MainStarting, ConsumerBusy
<1>4. CASE ConsumerDecide \/ ConsumerGivesUp
  <2>1. /\ UNCHANGED <<pidIndex, target>>
        /\ pc["consumer"] \in {"decide", "close"}
        /\ pc'["main"] = pc["main"]
    BY <1>4 DEF TypeOK, ConsumerDecide, ConsumerGivesUp, locals
  <2>2. closes[c] = 0 /\ \A p \in Pid : pidIndex[p] # c
    BY <2>1 DEF OneHandler, ConsumerBusy
  <2>3. CASE UNCHANGED closes /\ pc'["consumer"] = "create"
    BY <2>1, <2>3, HandlerFrame DEF MainStarting, ConsumerBusy
  <2>4. CASE CloseDone(c) /\ pc'["consumer"] = "recv"
    <3>1. \A d \in Container : closes'[d] = IF d = c THEN 1 ELSE closes[d]
      BY <1>0, <2>2, <2>4 DEF CloseDone, TypeOK
    <3>2. ~MainStarting'
      BY <2>1 DEF OneHandler, MainStarting
    <3>3. ClosedAtMostOnce'
      BY <3>1 DEF OneHandler, ClosedAtMostOnce
    <3>4. \A p \in Pid : pidIndex'[p] # NoContainer => closes'[pidIndex'[p]] = 0
      BY <2>1, <2>2, <3>1 DEF OneHandler, TypeOK
    <3> QED
      BY <2>1, <2>4, <3>2, <3>3, <3>4 DEF OneHandler, ConsumerBusy
  <2> QED
    BY <1>4, <2>3, <2>4 DEF ConsumerDecide, ConsumerGivesUp, TypeOK
<1> QED
  BY <1>1, <1>2, <1>3, <1>4 DEF ConsumerStep

(* Nobody else touches the index, the done channels or the two starters.   *)
LEMMA RestHandler ==
  ASSUME TypeOK, OneHandler, [Next]_vars, ~MainStep, ~ConsumerStep
  PROVE  OneHandler'
<1>1. UNCHANGED <<pidIndex, closes, target>> /\ pc'["main"] = pc["main"] /\ pc'["consumer"] = pc["consumer"]
  <2> USE DEF TypeOK, Goto, supVars, rtVars, locals, unchangedByKernel, Goroutine, Starter
  <2>1. CASE StopSignal \/ StopStep
    BY <2>1 DEF StopSignal, StopStep, StopTerm, StopTermed, StopAllExited, StopDeadline, StopKill,
                StopKilled, StopCancel
  <2>2. CASE ~(StopSignal \/ StopStep)
    BY <2>2 DEF Next, ReapChild, ReaperExit, ContainerExit, HelperExit, Halted, vars
  <2> QED
    BY <2>1, <2>2
<1> QED
  BY <1>1, HandlerFrame DEF MainStarting, ConsumerBusy

(* A container is never handled twice at a time, nor after it is done.     *)
THEOREM SupervisorHandlesOnce == Spec => []OneHandler
<1>1. Init => OneHandler
  BY ConstantsAreSound DEF Init, OneHandler, ClosedAtMostOnce, MainStarting, ConsumerBusy, StarterLabel,
     Goroutine, Starter, NoContainer, Container
<1>2. TypeOK /\ OneHandler /\ [Next]_vars => OneHandler'
  BY MainHandler, ConsumerHandler, RestHandler
<1> QED
  BY <1>1, <1>2, SupervisorTypeCorrect, PTL DEF Spec

(* No done channel is closed twice, so the supervisor never panics on one, *)
(* for any number of containers, pids and helpers.                         *)
THEOREM SupervisorClosesOnce == Spec => []ClosedAtMostOnce
<1>1. OneHandler => ClosedAtMostOnce
  BY DEF OneHandler
<1> QED
  BY <1>1, SupervisorHandlesOnce, PTL

-----------------------------------------------------------------------------
(* An init that stops being alive because its process exits is in flight   *)
(* as a zombie.                                                            *)
LEMMA ExitKeeps ==
  ASSUME NEW Z, Reap!Exit(Z), Alive \ Alive' \subseteq Reap!Pids(Z)
  PROVE  InFlight \subseteq InFlight'
<1>1. Reap!Pids(zombies') = Reap!Pids(zombies) \cup Reap!Pids(Z)
  BY DEF Reap!Exit, Reap!Pids
<1>2. Reap!Pids(Reap!Queued)' = Reap!Pids(Reap!Queued) /\ lost' = lost
  BY DEF Reap!Exit, Reap!Queued, Reap!Pids
<1> QED
  BY <1>1, <1>2 DEF InFlight, Reap!Pids

(* A goroutine that collects its own crun process loses track of no init.  *)
LEMMA CollectKeeps ==
  ASSUME NEW g \in Starter, Reap!Collect(g), init' = init
  PROVE  InFlight \cap Pid \subseteq InFlight'
<1>1. g \notin Pid
  BY ConstantsAreSound
<1>2. Reap!Pids(zombies) \cap Pid \subseteq Reap!Pids(zombies')
  BY <1>1 DEF Reap!Collect, Reap!Pids
<1>3. Reap!Pids(Reap!Queued)' = Reap!Pids(Reap!Queued) /\ lost' = lost /\ Alive' = Alive
  BY DEF Reap!Collect, Reap!Queued, Reap!Pids, Alive
<1> QED
  BY <1>2, <1>3 DEF InFlight, Reap!Pids

(* The reaper turns a zombie into a queued or a lost event.                *)
LEMMA Wait4Keeps ==
  ASSUME TypeOK, NEW z \in zombies, Reap!Wait4(z), init' = init
  PROVE  InFlight \subseteq InFlight'
<1> DEFINE Reaped == Reap!Pids(zombies) \subseteq Reap!Pids(zombies') \cup {z.pid}
<1>0. Reaped /\ Alive' = Alive
  BY DEF Reap!Wait4, Reap!Pids, Alive
<1>1. CASE events' = Append(events, z) /\ lost' = lost
  <2>1. events \in Seq(Reap!Reaped) /\ z \in Reap!Reaped
    BY DEF TypeOK
  <2>2. /\ DOMAIN events' = 1..(Len(events) + 1)
        /\ \A i \in DOMAIN events : i \in DOMAIN events' /\ events'[i] = events[i]
        /\ events'[Len(events) + 1] = z /\ Len(events) + 1 \in DOMAIN events'
    BY <1>1, <2>1
  <2>3. Reap!Queued \cup {z} \subseteq Reap!Queued'
    BY <2>2 DEF Reap!Queued
  <2>4. Reap!Pids(Reap!Queued) \cup {z.pid} \subseteq Reap!Pids(Reap!Queued)'
    BY <2>3 DEF Reap!Pids
  <2> QED
    BY <1>0, <1>1, <2>4 DEF InFlight, Reap!Pids
<1>2. CASE events' = events /\ lost' = lost \cup {z.pid}
  <2>1. Reap!Pids(Reap!Queued)' = Reap!Pids(Reap!Queued)
    BY <1>2 DEF Reap!Queued, Reap!Pids
  <2> QED
    BY <1>0, <1>2, <2>1 DEF InFlight, Reap!Pids
<1> QED
  BY <1>1, <1>2 DEF Reap!Wait4

(* Receiving takes only the oldest event off the record.                   *)
LEMMA ReceiveKeeps ==
  ASSUME TypeOK, Reap!Receive, init' = init
  PROVE  InFlight \ {Head(events).pid} \subseteq InFlight'
<1>1. events \in Seq(Reap!Reaped) /\ events # <<>> /\ events' = Tail(events)
  BY DEF TypeOK, Reap!Receive
<1>2. \A i \in DOMAIN events : i = 1 \/ (i - 1 \in DOMAIN events' /\ events'[i - 1] = events[i])
  BY <1>1
<1>3. Head(events) = events[1]
  BY <1>1
<1>4. Reap!Queued \ {Head(events)} \subseteq Reap!Queued'
  BY <1>2, <1>3 DEF Reap!Queued
<1>5. Reap!Pids(Reap!Queued) \ {Head(events).pid} \subseteq Reap!Pids(Reap!Queued)'
  BY <1>4 DEF Reap!Pids
<1>6. zombies' = zombies /\ lost' = lost /\ Alive' = Alive
  BY DEF Reap!Receive, Alive
<1> QED
  BY <1>5, <1>6 DEF InFlight, Reap!Pids

(* crun kill and crun delete leave a zombie where they end an init.        *)
LEMMA KillKeeps ==
  ASSUME TypeOK, NEW c \in Container, Kill(c) \/ Delete(c)
  PROVE  InFlight \subseteq InFlight'
<1>1. CASE init' = [init EXCEPT ![c] = NoPid] /\ Reap!Exit(Killed({init[c]}))
  <2>1. Alive \ Alive' \subseteq {init[c]} \ {NoPid}
    BY <1>1 DEF TypeOK, Alive
  <2>2. {init[c]} \ {NoPid} \subseteq Reap!Pids(Killed({init[c]}))
    <3> SUFFICES ASSUME init[c] # NoPid
                 PROVE  init[c] \in Reap!Pids(Killed({init[c]}))
      OBVIOUS
    <3> DEFINE z == [pid |-> init[c], status |-> "fail"]
    <3>1. z \in Killed({init[c]}) /\ z.pid = init[c]
      BY DEF Killed
    <3> HIDE DEF z
    <3> QED
      BY <3>1 DEF Reap!Pids
  <2> QED
    BY <1>1, <2>1, <2>2, ExitKeeps
<1>2. CASE UNCHANGED <<reapVars, rtVars>>
  BY <1>2 DEF reapVars, rtVars, InFlight, Alive, Reap!Pids, Reap!Queued
<1> QED
  BY <1>1, <1>2 DEF Kill, Delete

(* The inductive invariant behind IndexAccounted.                          *)
Accounts == IndexAccounted /\ GotAccounted /\ AbsentIsDead

(* A step keeps Accounts if it leaves the index and the pids read alone,   *)
(* takes no pid out of flight, and nobody leaves the registration.         *)
LEMMA AccountsFrame ==
  ASSUME TypeOK, Accounts, UNCHANGED <<pidIndex, gotPid>>,
         InFlight \cap Pid \subseteq InFlight', AbsentIsDead',
         \A g \in Starter : pc[g] = "stateRet" => pc'[g] = "stateRet"
  PROVE  Accounts'
BY DEF TypeOK, Accounts, IndexAccounted, GotAccounted

(* A jump from another label disturbs no pending registration.             *)
LEMMA GotoKeepsLabel ==
  ASSUME TypeOK, NEW g \in Goroutine, NEW l, Goto(g, l), pc[g] # "stateRet" \/ l = "stateRet"
  PROVE  \A h \in Starter : pc[h] = "stateRet" => pc'[h] = "stateRet"
BY DEF TypeOK, Goto, Goroutine

(* The work of crun create, start and state takes no pid out of flight: a  *)
(* create only fills in an init where there was none.                      *)
LEMMA CrunCallKeeps ==
  ASSUME TypeOK, AbsentIsDead, NEW g \in Starter,
         CreateInvoke(g) \/ StartInvoke(g) \/ StateInvoke(g)
  PROVE  InFlight \subseteq InFlight' /\ AbsentIsDead'
<1>0. target[g] \in Container
  BY DEF TypeOK
<1>1. PICK s \in {"ok", "fail"} : Reap!Exit({Ran(g, s)})
  BY DEF CreateInvoke, StartInvoke, StateInvoke
<1>2. Alive \subseteq Alive' /\ AbsentIsDead'
  <2>1. CASE UNCHANGED <<rt, init>>
    BY <2>1 DEF Alive, AbsentIsDead
  <2>2. CASE StartInvoke(g)
    BY <2>2 DEF StartInvoke, Alive, AbsentIsDead, TypeOK
  <2>3. CASE CreateInvoke(g) /\ ~UNCHANGED <<rt, init>>
    <3>1. /\ rt[target[g]] = "absent" /\ rt' = [rt EXCEPT ![target[g]] = "created"]
          /\ \E p \in Free : init' = [init EXCEPT ![target[g]] = p]
      BY <2>3 DEF CreateInvoke, rtVars
    <3>2. init[target[g]] = NoPid
      BY <3>1, <1>0 DEF AbsentIsDead
    <3>3. \A c \in Container : init[c] # NoPid => init'[c] = init[c]
      BY <3>1, <3>2 DEF TypeOK
    <3>4. Alive \subseteq Alive'
      BY <3>3 DEF Alive
    <3> QED
      BY <3>1, <3>4 DEF AbsentIsDead, TypeOK
  <2> QED
    BY <2>1, <2>2, <2>3 DEF StateInvoke, rtVars
<1> QED
  BY <1>1, <1>2, ExitKeeps

(* startOne keeps Accounts: what it registers is a pid that was in flight  *)
(* when crun printed it and that nobody can have received since.           *)
LEMMA StartOneAccounts ==
  ASSUME TypeOK, OneHandler, Accounts, NEW g \in Starter, StartOne(g)
  PROVE  Accounts'
<1>0. g \in Goroutine /\ target[g] \in Container /\ AbsentIsDead
  BY DEF Goroutine, TypeOK, Accounts
<1>1. CASE CreateInvoke(g) \/ StartInvoke(g)
  <2>1. /\ UNCHANGED <<pidIndex, gotPid>>
        /\ pc[g] # "stateRet" /\ \E l \in StarterLabel : Goto(g, l)
    BY <1>1 DEF CreateInvoke, StartInvoke, supVars, locals, StarterLabel
  <2> QED
    BY <1>0, <1>1, <2>1, CrunCallKeeps, GotoKeepsLabel, AccountsFrame
<1>2. CASE CreateRet(g) \/ StartRet(g)
  <2>1. /\ UNCHANGED <<pidIndex, gotPid, rt, init>>
        /\ pc[g] # "stateRet" /\ \E l \in StarterLabel \cup {GiveUp(g)} : Goto(g, l)
    BY <1>2 DEF CreateRet, StartRet, Return, supVars, rtVars, locals, StarterLabel
  <2>2. Reap!Collect(g)
    BY <1>2 DEF CreateRet, StartRet, Return
  <2> QED
    BY <1>0, <2>1, <2>2, CollectKeeps, GotoKeepsLabel, AccountsFrame DEF AbsentIsDead
<1>3. CASE StartUndo(g)
  <2>1. UNCHANGED <<pidIndex, gotPid>> /\ pc[g] # "stateRet" /\ Goto(g, GiveUp(g))
    BY <1>3 DEF StartUndo, supVars, locals
  <2>2. Delete(target[g])
    BY <1>3 DEF StartUndo
  <2>3. AbsentIsDead'
    BY <2>2, <1>0 DEF Delete, AbsentIsDead, TypeOK, rtVars
  <2> QED
    BY <1>0, <2>1, <2>2, <2>3, KillKeeps, GotoKeepsLabel, AccountsFrame
<1>4. CASE StateInvoke(g)
  <2>1. InFlight \subseteq InFlight' /\ AbsentIsDead'
    BY <1>0, <1>4, CrunCallKeeps
  <2>2. pidIndex' = pidIndex /\ pc'[g] = "stateRet" /\ \A h \in Starter : h # g => pc'[h] = pc[h]
    BY <1>4, <1>0 DEF StateInvoke, supVars, Goto, TypeOK
  <2>3. \A h \in Starter : h # g => gotPid'[h] = gotPid[h]
    BY <1>4 DEF StateInvoke, TypeOK
  <2>4. gotPid[g] = NoPid
    BY <1>4 DEF StateInvoke, Accounts, GotAccounted
  <2>5. gotPid'[g] # NoPid => gotPid'[g] \in InFlight'
    <3>1. gotPid'[g] \in {NoPid, init[target[g]]}
      BY <1>4, <2>4 DEF StateInvoke, TypeOK
    <3>2. init[target[g]] # NoPid => init[target[g]] \in InFlight
      BY <1>0 DEF InFlight, Alive
    <3> QED
      BY <3>1, <3>2, <2>1
  <2> QED
    BY <2>1, <2>2, <2>3, <2>5 DEF Accounts, IndexAccounted, GotAccounted
<1>5. CASE StateRet(g)
  <2>1. InFlight \cap Pid \subseteq InFlight' /\ UNCHANGED <<rt, init>>
    BY <1>5, CollectKeeps DEF StateRet, rtVars
  <2>2. /\ gotPid' = [gotPid EXCEPT ![g] = NoPid]
        /\ \A h \in Starter : pc[h] = "stateRet" /\ h # g => pc'[h] = "stateRet"
    <3>1. g = "main" => pc["consumer"] = "off"
      BY <1>5 DEF OneHandler, MainStarting, StateRet, StarterLabel
    <3>2. \A h \in Starter : pc[h] = "stateRet" /\ h # g => pc'[h] = pc[h]
      <4>1. \A h \in Starter : h \in Goroutine
        BY DEF Goroutine
      <4>2. CASE g = "consumer"
        BY <1>5, <4>1, <4>2 DEF StateRet, AfterStart, Goto, TypeOK
      <4>3. CASE g = "main"
        <5>1. \A h \in Starter : h # g => h = "consumer"
          BY <4>3 DEF Starter
        <5> QED
          BY <3>1, <4>3, <5>1
      <4> QED
        BY <4>2, <4>3 DEF Starter
    <3> QED
      BY <1>5, <3>2 DEF StateRet
  <2>3. \A p \in Pid : pidIndex'[p] = pidIndex[p] \/ (p = gotPid[g] /\ p # NoPid)
    BY <1>5 DEF StateRet, TypeOK
  <2>4. IndexAccounted'
    BY <2>1, <2>3 DEF Accounts, IndexAccounted, GotAccounted, TypeOK
  <2>5. GotAccounted'
    BY <2>1, <2>2 DEF Accounts, GotAccounted, TypeOK
  <2> QED
    BY <2>1, <2>4, <2>5, <1>0 DEF Accounts, AbsentIsDead
<1> QED
  BY <1>1, <1>2, <1>3, <1>4, <1>5 DEF StartOne

(* Supervisor.Run keeps Accounts.                                          *)
LEMMA MainAccounts ==
  ASSUME TypeOK, OneHandler, Accounts, MainStep
  PROVE  Accounts'
<1>1. CASE StartOne("main")
  BY <1>1, StartOneAccounts DEF Starter
<1>2. CASE ~StartOne("main")
  <2>1. UNCHANGED <<pidIndex, gotPid, rt, init, zombies, events, lost>>
    BY <1>2 DEF MainStep, RunNext, RunFailed, RunDone, RunCancelled, RunReturns, Reap!Cancel,
                reapVars, supVars, rtVars, locals
  <2>2. \/ UNCHANGED pc
        \/ pc["main"] # "stateRet" /\ \E l \in MainLabel : Goto("main", l)
    BY <1>2 DEF MainStep, RunNext, RunFailed, RunDone, RunCancelled, RunReturns, MainLabel,
                StarterLabel
  <2>3. \A g \in Starter : pc[g] = "stateRet" => pc'[g] = "stateRet"
    BY <2>2, GotoKeepsLabel DEF Goroutine, Starter
  <2>4. InFlight' = InFlight /\ AbsentIsDead'
    BY <2>1 DEF InFlight, Alive, Reap!Pids, Reap!Queued, Accounts, AbsentIsDead
  <2> QED
    BY <2>1, <2>3, <2>4, AccountsFrame
<1> QED
  BY <1>1, <1>2

(* consumeReaper keeps Accounts: the pid whose event is received leaves    *)
(* the index in the same critical section, and no registration is pending  *)
(* while the consumer receives.                                            *)
LEMMA ConsumerAccounts ==
  ASSUME TypeOK, OneHandler, Accounts, ConsumerStep
  PROVE  Accounts'
<1>0. "consumer" \in Goroutine /\ target["consumer"] \in Container /\ AbsentIsDead
  BY DEF Goroutine, Starter, TypeOK, Accounts
<1>1. CASE StartOne("consumer")
  BY <1>1, StartOneAccounts DEF Starter
<1>2. CASE ConsumerReceive
  <2> DEFINE p == Head(events).pid
  <2>1. /\ Reap!Receive /\ UNCHANGED <<rt, init, gotPid>> /\ pc["consumer"] = "recv"
        /\ pidIndex' = pidIndex \/ pidIndex' = [pidIndex EXCEPT ![p] = NoContainer]
        /\ pidIndex' = pidIndex => (p \in Pid => pidIndex[p] = NoContainer)
    BY <1>2 DEF ConsumerReceive, rtVars, TypeOK
  <2>2. InFlight \ {p} \subseteq InFlight'
    BY <2>1, ReceiveKeeps
  <2>3. \A g \in Starter : gotPid[g] = NoPid
    <3>1. pc["main"] # "stateRet"
      BY <2>1 DEF OneHandler, MainStarting, StarterLabel
    <3> QED
      BY <2>1, <3>1 DEF Accounts, GotAccounted, Starter
  <2>4. GotAccounted'
    BY <2>1, <2>3 DEF GotAccounted
  <2>5. \A q \in Pid : pidIndex'[q] # NoContainer => q # p /\ pidIndex[q] # NoContainer
    BY <2>1 DEF TypeOK
  <2>6. IndexAccounted'
    BY <2>2, <2>5 DEF Accounts, IndexAccounted
  <2> QED
    BY <1>0, <2>1, <2>4, <2>6 DEF Accounts, AbsentIsDead
<1>3. CASE ConsumerDelete
  <2>1. Delete(target["consumer"]) /\ Goto("consumer", "decide") /\ pc["consumer"] = "delete"
        /\ UNCHANGED <<pidIndex, gotPid>>
    BY <1>3 DEF ConsumerDelete, supVars, locals
  <2>2. AbsentIsDead'
    BY <1>0, <2>1 DEF Delete, AbsentIsDead, TypeOK, rtVars
  <2> QED
    BY <1>0, <2>1, <2>2, KillKeeps, GotoKeepsLabel, AccountsFrame
<1>4. CASE ConsumerClosed \/ ConsumerDecide \/ ConsumerGivesUp
  <2>1. UNCHANGED <<pidIndex, gotPid, rt, init, zombies, events, lost>>
    BY <1>4 DEF ConsumerClosed, ConsumerDecide, ConsumerGivesUp, reapVars, supVars, rtVars, locals
  <2>2. pc["consumer"] # "stateRet" /\ \E l : Goto("consumer", l)
    BY <1>4 DEF ConsumerClosed, ConsumerDecide, ConsumerGivesUp
  <2>3. InFlight' = InFlight /\ AbsentIsDead'
    BY <1>0, <2>1 DEF InFlight, Alive, Reap!Pids, Reap!Queued, AbsentIsDead
  <2> QED
    BY <1>0, <2>1, <2>2, <2>3, GotoKeepsLabel, AccountsFrame
<1> QED
  BY <1>1, <1>2, <1>3, <1>4 DEF ConsumerStep

(* The signal goroutine and Stop keep Accounts.                            *)
LEMMA StopAccounts ==
  ASSUME TypeOK, OneHandler, Accounts, StopSignal \/ StopStep
  PROVE  Accounts'
<1>0. AbsentIsDead
  BY DEF Accounts
<1>1. /\ UNCHANGED <<pidIndex, gotPid, rt>>
      /\ \A g \in Starter : pc'[g] = pc[g]
  BY DEF StopSignal, StopStep, StopTerm, StopTermed, StopAllExited, StopDeadline, StopKill,
         StopKilled, StopCancel, Kill, Goto, TypeOK, Goroutine, Starter, supVars, rtVars, locals
<1>2. CASE StopKill
  <2>1. PICK c \in Container : Kill(c)
    BY <1>2 DEF StopKill, TypeOK
  <2>2. AbsentIsDead'
    BY <1>0, <1>1, <2>1 DEF Kill, AbsentIsDead, TypeOK, rtVars
  <2> QED
    BY <1>1, <2>1, <2>2, KillKeeps, AccountsFrame
<1>3. CASE ~StopKill
  <2>1. UNCHANGED <<init, zombies, events, lost>>
    BY <1>3 DEF StopSignal, StopStep, StopTerm, StopTermed, StopAllExited, StopDeadline,
                StopKilled, StopCancel, Reap!Cancel, reapVars, rtVars
  <2>2. InFlight' = InFlight /\ AbsentIsDead'
    BY <1>0, <1>1, <2>1 DEF InFlight, Alive, Reap!Pids, Reap!Queued, AbsentIsDead
  <2> QED
    BY <1>1, <2>2, AccountsFrame
<1> QED
  BY <1>2, <1>3

(* Exits and the reaper keep Accounts: a pid goes from alive to zombie to  *)
(* queued or lost.                                                         *)
LEMMA KernelAccounts ==
  ASSUME TypeOK, Accounts,
         \/ \E p \in Reap!Pids(zombies) : ReapChild(p)
         \/ ReaperExit
         \/ \E c \in Container, s \in Status : ContainerExit(c, s)
         \/ \E h \in Helper : HelperExit(h)
         \/ Halted
         \/ UNCHANGED vars
  PROVE  Accounts'
<1>0. AbsentIsDead
  BY DEF Accounts
<1>1. UNCHANGED <<pidIndex, gotPid, pc, rt>>
  BY DEF ReapChild, ReaperExit, ContainerExit, HelperExit, Halted, unchangedByKernel, vars,
         supVars, rtVars, locals
<1>2. CASE \E p \in Reap!Pids(zombies) : ReapChild(p)
  <2>1. PICK z \in zombies : Reap!Wait4(z) /\ init' = init
    BY <1>2 DEF ReapChild, rtVars
  <2> QED
    BY <1>0, <1>1, <2>1, Wait4Keeps, AccountsFrame DEF AbsentIsDead
<1>3. CASE \E c \in Container, s \in Status : ContainerExit(c, s)
  <2>1. PICK c \in Container, s \in Status : ContainerExit(c, s)
    BY <1>3
  <2> DEFINE z == [pid |-> init[c], status |-> s]
  <2>2. init' = [init EXCEPT ![c] = NoPid] /\ Reap!Exit({z}) /\ z.pid = init[c]
    BY <2>1 DEF ContainerExit
  <2> HIDE DEF z
  <2>3. Alive \ Alive' \subseteq Reap!Pids({z})
    BY <2>2 DEF Alive, TypeOK, Reap!Pids
  <2>4. AbsentIsDead'
    BY <1>0, <1>1, <2>2 DEF AbsentIsDead, TypeOK
  <2> QED
    BY <1>1, <2>2, <2>3, <2>4, ExitKeeps, AccountsFrame
<1>4. CASE \E h \in Helper : HelperExit(h)
  <2>1. PICK h \in Helper : Reap!Exit({[pid |-> h, status |-> "ok"]}) /\ init' = init
    BY <1>4 DEF HelperExit, rtVars
  <2>2. Alive' = Alive
    BY <2>1 DEF Alive
  <2> QED
    BY <1>0, <1>1, <2>1, <2>2, ExitKeeps, AccountsFrame DEF AbsentIsDead
<1>5. CASE ReaperExit \/ Halted \/ UNCHANGED vars
  <2>1. UNCHANGED <<init, zombies, events, lost>>
    BY <1>5 DEF ReaperExit, Reap!Close, Halted, vars, reapVars, rtVars
  <2>2. InFlight' = InFlight /\ AbsentIsDead'
    BY <1>0, <1>1, <2>1 DEF InFlight, Alive, Reap!Pids, Reap!Queued, AbsentIsDead
  <2> QED
    BY <1>1, <2>2, AccountsFrame
<1> QED
  BY <1>2, <1>3, <1>4, <1>5

(* What startOne registers, and what is registered, is in flight.          *)
THEOREM SupervisorAccounts == Spec => []Accounts
<1>1. Init => Accounts
  BY DEF Init, Accounts, IndexAccounted, GotAccounted, AbsentIsDead
<1>2. TypeOK /\ OneHandler /\ Accounts /\ [Next]_vars => Accounts'
  BY MainAccounts, ConsumerAccounts, StopAccounts, KernelAccounts DEF Next
<1> QED
  BY <1>1, <1>2, SupervisorTypeCorrect, SupervisorHandlesOnce, PTL DEF Spec

(* A registered pid is alive or its exit is still to be received or was    *)
(* dropped on a full channel: an exit is never received before its pid is  *)
(* registered and forgotten.                                               *)
THEOREM SupervisorIndexAccounted == Spec => []IndexAccounted
<1>1. Accounts => IndexAccounted
  BY DEF Accounts
<1> QED
  BY <1>1, SupervisorAccounts, PTL

-----------------------------------------------------------------------------
(* Which exit is whose.                                                    *)

(* The pids whose exit the kernel, the channel or nobody any more holds.   *)
Dead == Reap!Pids(zombies) \cup Reap!Pids(Reap!Queued) \cup lost

(* The inductive invariant behind ConsumerDeletesOnlyExited.  No pid is    *)
(* dead and alive, no two containers have the same init, and a container   *)
(* that the index or a pending registration gives a pid has that init or   *)
(* none.                                                                   *)
Ownership ==
    /\ Dead \cap Alive = {}
    /\ \A c, d \in Container : init[c] = init[d] /\ init[c] # NoPid => c = d
    /\ \A p \in Pid : pidIndex[p] # NoContainer => init[pidIndex[p]] \in {p, NoPid}
    /\ \A g \in Starter : gotPid[g] # NoPid => init[target[g]] \in {gotPid[g], NoPid}
    /\ pc["consumer"] \in {"delete", "decide"} => init[target["consumer"]] = NoPid

(* What a step does to the inits: it may end some, each with a zombie ...  *)
Drains ==
    /\ \A c \in Container : init'[c] \in {init[c], NoPid}
    /\ Dead' \cap Pid \subseteq Dead \cup (Alive \ Alive')

(* ... or crun create fills in one, with a pid that is not in flight.      *)
Fills(g) ==
    /\ pc[g] = "create" /\ init[target[g]] = NoPid
    /\ \E p \in Free : init' = [init EXCEPT ![target[g]] = p]
    /\ Dead' \cap Pid \subseteq Dead

-----------------------------------------------------------------------------
(* What the operations of the reaper and of the kernel do to the dead.     *)
LEMMA ExitDead ==
  ASSUME NEW Z, Reap!Exit(Z)
  PROVE  Dead' \subseteq Dead \cup Reap!Pids(Z)
BY DEF Reap!Exit, Dead, Reap!Pids, Reap!Queued

LEMMA CollectDead ==
  ASSUME NEW g, Reap!Collect(g)
  PROVE  Dead' \subseteq Dead
BY DEF Reap!Collect, Dead, Reap!Pids, Reap!Queued

LEMMA ReceiveDead ==
  ASSUME TypeOK, Reap!Receive
  PROVE  Dead' \subseteq Dead /\ Head(events).pid \in Dead
<1>1. events \in Seq(Reap!Reaped) /\ events # <<>> /\ events' = Tail(events)
  BY DEF TypeOK, Reap!Receive
<1>2. /\ \A i \in DOMAIN events' : i + 1 \in DOMAIN events /\ events'[i] = events[i + 1]
      /\ 1 \in DOMAIN events /\ Head(events) = events[1]
  BY <1>1
<1>3. Reap!Queued' \subseteq Reap!Queued /\ Head(events) \in Reap!Queued
  BY <1>2 DEF Reap!Queued
<1> QED
  BY <1>3 DEF Dead, Reap!Pids, Reap!Receive

LEMMA Wait4Dead ==
  ASSUME TypeOK, NEW z, Reap!Wait4(z)
  PROVE  Dead' \subseteq Dead
<1>1. z.pid \in Dead /\ Reap!Pids(zombies)' \subseteq Reap!Pids(zombies)
  BY DEF Reap!Wait4, Dead, Reap!Pids
<1>2. CASE events' = Append(events, z) /\ lost' = lost
  <2>1. events \in Seq(Reap!Reaped) /\ z \in Reap!Reaped
    BY DEF TypeOK, Reap!Wait4
  <2>2. \A i \in DOMAIN events' : events'[i] = z \/ (i \in DOMAIN events /\ events'[i] = events[i])
    BY <1>2, <2>1
  <2>3. Reap!Queued' \subseteq Reap!Queued \cup {z}
    BY <2>2 DEF Reap!Queued
  <2>4. Reap!Pids(Reap!Queued)' \subseteq Reap!Pids(Reap!Queued) \cup {z.pid}
    BY <2>3 DEF Reap!Pids
  <2> QED
    BY <1>1, <1>2, <2>4 DEF Dead
<1>3. CASE events' = events /\ lost' = lost \cup {z.pid}
  <2>1. Reap!Pids(Reap!Queued)' = Reap!Pids(Reap!Queued)
    BY <1>3 DEF Reap!Queued, Reap!Pids
  <2> QED
    BY <1>1, <1>3, <2>1 DEF Dead
<1> QED
  BY <1>2, <1>3 DEF Reap!Wait4

(* An init that exits, or that crun kills, leaves a zombie of its pid.     *)
LEMMA EndDrains ==
  ASSUME TypeOK, Ownership, NEW c \in Container, NEW Z, Reap!Exit(Z),
         init' = [init EXCEPT ![c] = NoPid], Reap!Pids(Z) \subseteq {init[c]} \ {NoPid}
  PROVE  Drains
<1>1. \A d \in Container : init'[d] = IF d = c THEN NoPid ELSE init[d]
  BY DEF TypeOK
<1>2. {init[c]} \ {NoPid} \subseteq Alive \ Alive'
  BY <1>1 DEF Ownership, Alive
<1> QED
  BY <1>1, <1>2, ExitDead DEF Drains

LEMMA KillDrains ==
  ASSUME TypeOK, Ownership, NEW c \in Container, Kill(c) \/ Delete(c)
  PROVE  Drains
<1>1. CASE init' = [init EXCEPT ![c] = NoPid] /\ Reap!Exit(Killed({init[c]}))
  <2>1. Reap!Pids(Killed({init[c]})) \subseteq {init[c]} \ {NoPid}
    BY DEF Reap!Pids, Killed
  <2> QED
    BY <1>1, <2>1, EndDrains
<1>2. CASE UNCHANGED <<reapVars, rtVars>>
  BY <1>2 DEF Drains, reapVars, rtVars, Dead, Reap!Pids, Reap!Queued
<1> QED
  BY <1>1, <1>2 DEF Kill, Delete

(* A step that ends and creates no init drains if it adds no dead pid.     *)
LEMMA StillDrains ==
  ASSUME init' = init, Dead' \cap Pid \subseteq Dead
  PROVE  Drains
BY DEF Drains

-----------------------------------------------------------------------------
(* A step that only ends inits keeps Ownership when it leaves the index,   *)
(* the targets and the pids read alone, and the consumer takes up nothing. *)
LEMMA OwnershipFrame ==
  ASSUME TypeOK, Ownership, Drains, UNCHANGED <<pidIndex, target, gotPid>>,
         pc'["consumer"] \in {"delete", "decide"} => pc["consumer"] \in {"delete", "decide"}
  PROVE  Ownership'
<1>1. \A c \in Container : init'[c] \in {init[c], NoPid}
  BY DEF Drains
<1>2. Dead' \cap Alive' = {}
  <2>1. Alive' \subseteq Alive /\ Alive \subseteq Pid
    BY <1>1 DEF Alive, TypeOK
  <2> QED
    BY <2>1 DEF Drains, Ownership
<1>3. \A p \in Pid : pidIndex'[p] # NoContainer => init'[pidIndex'[p]] \in {p, NoPid}
  BY <1>1 DEF Ownership, TypeOK
<1>4. \A g \in Starter : gotPid'[g] # NoPid => init'[target'[g]] \in {gotPid'[g], NoPid}
  BY <1>1 DEF Ownership, TypeOK
<1>5. \A c, d \in Container : init'[c] = init'[d] /\ init'[c] # NoPid => c = d
  BY <1>1 DEF Ownership
<1>6. pc'["consumer"] \in {"delete", "decide"} => init'[target'["consumer"]] = NoPid
  <2>1. target["consumer"] \in Container
    BY DEF TypeOK, Starter
  <2> QED
    BY <1>1, <2>1 DEF Ownership
<1> QED
  BY <1>2, <1>3, <1>4, <1>5, <1>6 DEF Ownership

(* crun create gives a container an init only when nothing refers to it.   *)
LEMMA FillOwnership ==
  ASSUME TypeOK, OneHandler, Accounts, Ownership, NEW g \in Starter, Fills(g),
         UNCHANGED <<pidIndex, target, gotPid>>, Goto(g, "createRet")
  PROVE  Ownership'
<1> DEFINE c == target[g]
<1>0. c \in Container /\ NoContainer \notin Container /\ "consumer" \in Goroutine /\ g \in Goroutine
  BY DEF TypeOK, Container, NoContainer, Goroutine, Starter
<1>1. PICK p \in Free : init' = [init EXCEPT ![c] = p]
  BY DEF Fills
<1>2. p \in Pid /\ p \notin Dead /\ p \notin Alive /\ init[c] = NoPid /\ pc[g] = "create"
  BY DEF Free, InFlight, Dead, Fills
<1>3. \A d \in Container : init'[d] = IF d = c THEN p ELSE init[d]
  BY <1>0, <1>1 DEF TypeOK
<1> HIDE DEF c
<1>4. Dead' \cap Alive' = {}
  <2>1. Alive' \subseteq Alive \cup {p} /\ Alive \subseteq Pid
    BY <1>3 DEF Alive, TypeOK
  <2> QED
    BY <1>2, <2>1 DEF Fills, Ownership
<1>5. \A d, e \in Container : init'[d] = init'[e] /\ init'[d] # NoPid => d = e
  <2>1. \A d \in Container : init[d] # p
    BY <1>2, ConstantsAreSound DEF Alive
  <2> QED
    BY <1>3, <2>1 DEF Ownership
<1>6. \A q \in Pid : pidIndex[q] # c
  <2>1. CASE g = "consumer"
    BY <1>2, <2>1 DEF OneHandler, ConsumerBusy, StarterLabel, c
  <2>2. CASE g = "main"
    <3>1. \A q \in Pid : pidIndex[q] < c
      BY <1>2, <2>2 DEF OneHandler, MainStarting, StarterLabel, c
    <3> QED
      BY <3>1, <1>0 DEF Container
  <2> QED
    BY <2>1, <2>2 DEF Starter
<1>7. \A q \in Pid : pidIndex'[q] # NoContainer => init'[pidIndex'[q]] \in {q, NoPid}
  BY <1>3, <1>6 DEF Ownership, TypeOK
<1>8. ASSUME NEW h \in Starter, gotPid[h] # NoPid
      PROVE  init'[target[h]] \in {gotPid[h], NoPid}
  <2>1. pc[h] = "stateRet" /\ h # g
    BY <1>2, <1>8 DEF Accounts, GotAccounted
  <2>2. FALSE
    BY <1>2, <2>1, <1>8 DEF OneHandler, MainStarting, StarterLabel, Starter
  <2> QED
    BY <2>2
<1>9. pc'["consumer"] \notin {"delete", "decide"}
  <2>1. pc'["consumer"] \in {pc["consumer"], "createRet"} /\ (g = "consumer" => pc'["consumer"] = "createRet")
    BY <1>0 DEF Goto, TypeOK
  <2>2. g = "main" => pc["consumer"] = "off"
    BY <1>2 DEF OneHandler, MainStarting, StarterLabel
  <2> QED
    BY <2>1, <2>2 DEF Starter
<1> QED
  BY <1>4, <1>5, <1>7, <1>8, <1>9 DEF Ownership


(* startOne keeps Ownership: it registers for its container the pid that   *)
(* crun state read of that container's init.                               *)
LEMMA StartOneOwnership ==
  ASSUME TypeOK, OneHandler, Accounts, Ownership, NEW g \in Starter, StartOne(g)
  PROVE  Ownership'
<1>0. g \in Goroutine /\ target[g] \in Container /\ AbsentIsDead /\ "consumer" \in Goroutine
  BY DEF Goroutine, TypeOK, Accounts, Starter
<1>a. ASSUME NEW l \in StarterLabel \cup {GiveUp(g)}, Goto(g, l)
      PROVE  pc'["consumer"] \in {"delete", "decide"} => pc["consumer"] \in {"delete", "decide"}
  BY <1>0, <1>a DEF Goto, TypeOK, StarterLabel, GiveUp
<1>b. ASSUME NEW s, Reap!Exit({Ran(g, s)})
      PROVE  Dead' \cap Pid \subseteq Dead
  <2>1. Reap!Pids({Ran(g, s)}) = {g} /\ g \notin Pid
    BY ConstantsAreSound DEF Reap!Pids, Ran
  <2> QED
    BY <1>b, <2>1, ExitDead
<1>1. CASE CreateInvoke(g)
  <2>1. UNCHANGED <<pidIndex, target, gotPid>> /\ Goto(g, "createRet") /\ pc[g] = "create"
    BY <1>1 DEF CreateInvoke, supVars, locals
  <2>2. Dead' \cap Pid \subseteq Dead
    BY <1>1, <1>b DEF CreateInvoke
  <2>3. CASE init' = init
    BY <1>a, <2>1, <2>2, <2>3, StillDrains, OwnershipFrame DEF StarterLabel
  <2>4. CASE init' # init
    <3>1. rt[target[g]] = "absent" /\ \E p \in Free : init' = [init EXCEPT ![target[g]] = p]
      BY <1>1, <2>4 DEF CreateInvoke, rtVars
    <3>2. Fills(g)
      BY <1>0, <2>1, <2>2, <3>1 DEF Fills, AbsentIsDead
    <3> QED
      BY <2>1, <3>2, FillOwnership
  <2> QED
    BY <2>3, <2>4
<1>2. CASE CreateRet(g) \/ StartRet(g)
  <2>1. UNCHANGED <<pidIndex, target, gotPid, init>> /\ Reap!Collect(g)
    BY <1>2 DEF CreateRet, StartRet, Return, supVars, rtVars, locals
  <2>2. \E l \in StarterLabel \cup {GiveUp(g)} : Goto(g, l)
    BY <1>2 DEF CreateRet, StartRet, Return, StarterLabel
  <2> QED
    BY <1>a, <2>1, <2>2, CollectDead, StillDrains, OwnershipFrame
<1>3. CASE StartInvoke(g)
  <2>1. UNCHANGED <<pidIndex, target, gotPid, init>> /\ Goto(g, "startRet")
    BY <1>3 DEF StartInvoke, supVars, locals
  <2>2. Dead' \cap Pid \subseteq Dead
    BY <1>3, <1>b DEF StartInvoke
  <2> QED
    BY <1>a, <2>1, <2>2, StillDrains, OwnershipFrame DEF StarterLabel
<1>4. CASE StartUndo(g)
  <2>1. UNCHANGED <<pidIndex, target, gotPid>> /\ Goto(g, GiveUp(g)) /\ Delete(target[g])
    BY <1>4 DEF StartUndo, supVars, locals
  <2> QED
    BY <1>0, <1>a, <2>1, KillDrains, OwnershipFrame
<1>5. CASE StateInvoke(g)
  <2>1. UNCHANGED <<pidIndex, target, init>> /\ Goto(g, "stateRet")
    BY <1>5 DEF StateInvoke, supVars, rtVars
  <2>2. Dead' \cap Pid \subseteq Dead /\ Alive' = Alive
    BY <1>5, <1>b, <2>1 DEF StateInvoke, Alive
  <2>3. gotPid' = gotPid \/ gotPid' = [gotPid EXCEPT ![g] = init[target[g]]]
    BY <1>5 DEF StateInvoke
  <2>4. \A h \in Starter : gotPid'[h] = gotPid[h] \/ gotPid'[h] = init[target[h]]
    BY <2>3 DEF TypeOK
  <2>5. pc'["consumer"] \in {"delete", "decide"} => pc["consumer"] \in {"delete", "decide"}
    BY <1>a, <2>1 DEF StarterLabel
  <2>6. Dead' \cap Alive' = {}
    <3>1. Alive \subseteq Pid
      BY DEF Alive, TypeOK
    <3> QED
      BY <2>2, <3>1 DEF Ownership
  <2> QED
    BY <2>1, <2>4, <2>5, <2>6 DEF Ownership
<1>6. CASE StateRet(g)
  <2>1. UNCHANGED init /\ Reap!Collect(g)
    BY <1>6 DEF StateRet, rtVars
  <2>2. Dead' \cap Alive' = {}
    BY <2>1, CollectDead DEF Ownership, Alive
  <2>3. \A p \in Pid : pidIndex'[p] = pidIndex[p] \/ (pidIndex'[p] = target[g] /\ p = gotPid[g])
    BY <1>6 DEF StateRet, TypeOK
  <2>4. \A p \in Pid : pidIndex'[p] # NoContainer => init'[pidIndex'[p]] \in {p, NoPid}
    <3>1. NoPid \notin Pid
      BY ConstantsAreSound
    <3> QED
      BY <2>1, <2>3, <3>1 DEF Ownership
  <2>5. \A h \in Starter : gotPid'[h] # NoPid => h # g /\ gotPid'[h] = gotPid[h]
    BY <1>6 DEF StateRet, TypeOK
  <2>6. \A h \in Starter : gotPid[h] # NoPid => h = g
    <3>1. \A h \in Starter : gotPid[h] # NoPid => pc[h] = "stateRet"
      BY DEF Accounts, GotAccounted
    <3> QED
      BY <1>6, <3>1 DEF OneHandler, MainStarting, StarterLabel, Starter, StateRet
  <2>7. pc'["consumer"] \notin {"delete", "decide"}
    <3>1. g = "main" => pc["consumer"] = "off"
      BY <1>6 DEF OneHandler, MainStarting, StarterLabel, StateRet
    <3> QED
      BY <1>0, <1>6, <3>1 DEF StateRet, AfterStart, Goto, TypeOK, Starter
  <2> QED
    BY <2>1, <2>2, <2>4, <2>5, <2>6, <2>7 DEF Ownership
<1> QED
  BY <1>1, <1>2, <1>3, <1>4, <1>5, <1>6 DEF StartOne

(* Supervisor.Run keeps Ownership.                                         *)
LEMMA MainOwnership ==
  ASSUME TypeOK, OneHandler, Accounts, Ownership, MainStep
  PROVE  Ownership'
<1>1. CASE StartOne("main")
  BY <1>1, StartOneOwnership DEF Starter
<1>2. CASE ~StartOne("main")
  <2>0. RunNext \/ RunFailed \/ RunDone \/ RunCancelled
    BY <1>2 DEF MainStep
  <2>a. UNCHANGED <<pidIndex, gotPid, init, zombies, events, lost>> /\ pc["main"] # "stateRet"
    BY <2>0 DEF RunNext, RunFailed, RunDone, RunCancelled, RunReturns, Reap!Cancel,
                reapVars, supVars, rtVars, locals
  <2>b. pc' = pc \/ \E l : pc' = [pc EXCEPT !["main"] = l]
    BY <2>0 DEF RunNext, RunFailed, RunDone, RunCancelled, RunReturns, Goto
  <2>c. target' = target \/ \E c : target' = [target EXCEPT !["main"] = c]
    BY <2>0 DEF RunNext, RunFailed, RunDone, RunCancelled, locals
  <2>1. /\ UNCHANGED <<pidIndex, gotPid, init, zombies, events, lost>> /\ pc["main"] # "stateRet"
        /\ pc'["consumer"] = pc["consumer"] /\ target'["consumer"] = target["consumer"]
    BY <2>a, <2>b, <2>c DEF TypeOK, Goroutine, Starter
  <2>2. Dead' \cap Alive' = {}
    BY <2>1 DEF Ownership, Dead, Alive, Reap!Pids, Reap!Queued
  <2>3. gotPid["main"] = NoPid
    BY <2>1 DEF Accounts, GotAccounted, Starter
  <2>4. \A g \in Starter : gotPid'[g] # NoPid => init'[target'[g]] \in {gotPid'[g], NoPid}
    BY <2>1, <2>3 DEF Ownership, Starter
  <2> QED
    BY <2>1, <2>2, <2>4 DEF Ownership
<1> QED
  BY <1>1, <1>2

(* consumeReaper keeps Ownership: the pid of an event is dead, hence the   *)
(* container it is the index entry of has no init.                         *)
LEMMA ConsumerOwnership ==
  ASSUME TypeOK, OneHandler, Accounts, Ownership, ConsumerStep
  PROVE  Ownership'
<1>0. "consumer" \in Starter /\ "consumer" \in Goroutine /\ target["consumer"] \in Container
  BY DEF Goroutine, Starter, TypeOK
<1>1. CASE StartOne("consumer")
  BY <1>0, <1>1, StartOneOwnership
<1>2. CASE ConsumerReceive
  <2> DEFINE p == Head(events).pid
             Known == p \in Pid /\ pidIndex[p] # NoContainer
  <2>1. /\ Reap!Receive /\ UNCHANGED <<init, gotPid>> /\ pc["consumer"] = "recv"
        /\ Known => /\ pidIndex' = [pidIndex EXCEPT ![p] = NoContainer]
                    /\ target' = [target EXCEPT !["consumer"] = pidIndex[p]]
        /\ ~Known => UNCHANGED <<pidIndex, target, pc>>
    BY <1>2 DEF ConsumerReceive, rtVars
  <2>2. Dead' \subseteq Dead /\ p \in Dead
    BY <2>1, ReceiveDead
  <2>3. CASE ~Known
    BY <2>1, <2>2, <2>3, StillDrains, OwnershipFrame
  <2>4. CASE Known
    <3>1. init[pidIndex[p]] = NoPid
      <4>1. pidIndex[p] \in Container /\ init[pidIndex[p]] \in {p, NoPid}
        BY <2>4 DEF Ownership, TypeOK
      <4> QED
        BY <2>2, <4>1 DEF Ownership, Alive
    <3>2. target'["consumer"] = pidIndex[p] /\ target'["main"] = target["main"]
      BY <1>0, <2>1, <2>4 DEF TypeOK, Starter
    <3>3. \A q \in Pid : pidIndex'[q] \in {pidIndex[q], NoContainer}
      BY <2>1, <2>4 DEF TypeOK
    <3>4. gotPid["consumer"] = NoPid
      BY <2>1, <1>0 DEF Accounts, GotAccounted
    <3>5. Dead' \cap Alive' = {}
      BY <2>1, <2>2 DEF Ownership, Alive
    <3>6. \A g \in Starter : gotPid'[g] # NoPid => init'[target'[g]] \in {gotPid'[g], NoPid}
      BY <2>1, <3>2, <3>4 DEF Ownership, Starter
    <3>7. \A q \in Pid : pidIndex'[q] # NoContainer => init'[pidIndex'[q]] \in {q, NoPid}
      BY <2>1, <3>3 DEF Ownership
    <3> QED
      BY <2>1, <3>1, <3>2, <3>5, <3>6, <3>7 DEF Ownership
  <2> QED
    BY <2>3, <2>4
<1>3. CASE ConsumerDelete
  <2>1. /\ Delete(target["consumer"]) /\ UNCHANGED <<pidIndex, target, gotPid>>
        /\ pc["consumer"] = "delete"
    BY <1>3 DEF ConsumerDelete, supVars, locals
  <2> QED
    BY <1>0, <2>1, KillDrains, OwnershipFrame
<1>4. CASE ConsumerClosed \/ ConsumerDecide \/ ConsumerGivesUp
  <2>1. /\ UNCHANGED <<pidIndex, gotPid, target, init, zombies, events, lost>>
        /\ pc'["consumer"] \notin {"delete", "decide"}
    BY <1>0, <1>4 DEF ConsumerClosed, ConsumerDecide, ConsumerGivesUp, reapVars, supVars, rtVars,
       locals, Goto, TypeOK
  <2>2. Dead' \cap Pid \subseteq Dead
    BY <2>1 DEF Dead, Reap!Pids, Reap!Queued
  <2> QED
    BY <2>1, <2>2, StillDrains, OwnershipFrame
<1> QED
  BY <1>1, <1>2, <1>3, <1>4 DEF ConsumerStep

(* Everything else keeps Ownership: Stop's kill, exits and the reaper only *)
(* end inits and move the pids of the dead on.                             *)
LEMMA RestOwnership ==
  ASSUME TypeOK, OneHandler, Accounts, Ownership, [Next]_vars, ~MainStep, ~ConsumerStep
  PROVE  Ownership'
<1>1. UNCHANGED <<pidIndex, target, gotPid>> /\ pc'["consumer"] = pc["consumer"]
  <2> USE DEF TypeOK, Goto, supVars, rtVars, locals, unchangedByKernel, Goroutine, Starter
  <2>1. CASE StopSignal \/ StopStep
    BY <2>1 DEF StopSignal, StopStep, StopTerm, StopTermed, StopAllExited, StopDeadline, StopKill,
                StopKilled, StopCancel
  <2>2. CASE ~(StopSignal \/ StopStep)
    BY <2>2 DEF Next, ReapChild, ReaperExit, ContainerExit, HelperExit, Halted, vars
  <2> QED
    BY <2>1, <2>2
<1>2. SUFFICES Drains
  BY <1>1, OwnershipFrame
<1>3. CASE StopKill
  <2>1. PICK c \in Container : Kill(c)
    BY <1>3 DEF StopKill, TypeOK
  <2> QED
    BY <2>1, KillDrains
<1>4. CASE \E p \in Reap!Pids(zombies) : ReapChild(p)
  <2>1. PICK z : Reap!Wait4(z) /\ init' = init
    BY <1>4 DEF ReapChild, rtVars
  <2> QED
    BY <2>1, Wait4Dead, StillDrains
<1>5. CASE \E c \in Container, s \in Status : ContainerExit(c, s)
  <2>1. PICK c \in Container, s \in Status : ContainerExit(c, s)
    BY <1>5
  <2> DEFINE z == [pid |-> init[c], status |-> s]
  <2>2. /\ init' = [init EXCEPT ![c] = NoPid] /\ Reap!Exit({z})
        /\ Reap!Pids({z}) \subseteq {init[c]} \ {NoPid}
    BY <2>1 DEF ContainerExit, Reap!Pids
  <2> QED
    BY <2>2, EndDrains
<1>6. CASE \E h \in Helper : HelperExit(h)
  <2>1. PICK h \in Helper : Reap!Exit({[pid |-> h, status |-> "ok"]}) /\ init' = init
    BY <1>6 DEF HelperExit, rtVars
  <2>2. Reap!Pids({[pid |-> h, status |-> "ok"]}) \cap Pid = {}
    BY ConstantsAreSound DEF Reap!Pids
  <2> QED
    BY <2>1, <2>2, ExitDead, StillDrains
<1>7. CASE UNCHANGED <<init, zombies, events, lost>>
  BY <1>7, StillDrains DEF Dead, Reap!Pids, Reap!Queued
<1>8. \/ StopSignal \/ StopStep \/ ReaperExit \/ Halted \/ UNCHANGED vars
      \/ \E p \in Reap!Pids(zombies) : ReapChild(p)
      \/ \E c \in Container, s \in Status : ContainerExit(c, s)
      \/ \E h \in Helper : HelperExit(h)
  BY DEF Next
<1>9. (StopSignal \/ (StopStep /\ ~StopKill) \/ ReaperExit \/ Halted \/ UNCHANGED vars)
         => UNCHANGED <<init, zombies, events, lost>>
  BY DEF StopSignal, StopStep, StopTerm, StopTermed, StopAllExited, StopDeadline, StopKilled,
     StopCancel, Reap!Cancel, ReaperExit, Reap!Close, Halted, vars, reapVars, rtVars
<1> QED
  BY <1>3, <1>4, <1>5, <1>6, <1>7, <1>8, <1>9

(* An exit is handled for the container whose init exited, whatever pids   *)
(* the kernel reuses, in every interleaving of the goroutines.             *)
THEOREM SupervisorOwnsExits == Spec => []Ownership
<1>1. Init => Ownership
  BY ConstantsAreSound DEF Init, Ownership, Dead, Alive, Reap!Init, Reap!Pids, Reap!Queued, Goroutine,
     Starter, NoContainer, Container
<1>2. TypeOK /\ OneHandler /\ Accounts /\ Ownership /\ [Next]_vars => Ownership'
  BY MainOwnership, ConsumerOwnership, RestOwnership
<1> QED
  BY <1>1, <1>2, SupervisorTypeCorrect, SupervisorHandlesOnce, SupervisorAccounts, PTL DEF Spec

(* What the consumer deletes, by force, after an exit it has received is a *)
(* container whose init is gone, whatever pids are used again.  Of the     *)
(* delete that follows a failed start this says nothing.                   *)
THEOREM SupervisorConsumerDeletesOnlyExited == Spec => []ConsumerDeletesOnlyExited
<1>1. Ownership => ConsumerDeletesOnlyExited
  BY DEF Ownership, ConsumerDeletesOnlyExited
<1> QED
  BY <1>1, SupervisorOwnsExits, PTL


-----------------------------------------------------------------------------
(* The inductive invariant behind NilReturnAfterExits.  The consumer never *)
(* restarts a container that is never to be; such a container has no init  *)
(* once its done channel is closed; Run has seen the channels closed of    *)
(* all containers before the one it waits for.                             *)
Finality ==
    /\ pc["consumer"] \in StarterLabel \cup {"close"} => restart[target["consumer"]] # "never"
    /\ \A c \in Container : restart[c] = "never" /\ closes[c] > 0 => init[c] = NoPid
    /\ pc["main"] = "wait" => \A c \in Container : c < target["main"] => closes[c] > 0
    /\ runErr = "nil" => pc["main"] = "poweroff" /\ \A c \in Container : closes[c] > 0

(* No step gives an init to a container whose done channel is closed.      *)
LEMMA ClosedGetsNoInit ==
  ASSUME TypeOK, OneHandler, Accounts, [Next]_vars, NEW c \in Container, closes[c] > 0
  PROVE  init'[c] \in {init[c], NoPid}
<1>1. SUFFICES ASSUME init' # init, init'[c] \notin {init[c], NoPid} PROVE FALSE
  BY DEF TypeOK
<1>2. CASE \E g \in Starter : CreateInvoke(g)
  <2>1. PICK g \in Starter : CreateInvoke(g)
    BY <1>2
  <2>2. pc[g] = "create" /\ target[g] \in Container
    BY <2>1 DEF CreateInvoke, TypeOK
  <2>3. closes[target[g]] = 0
    BY <2>2 DEF OneHandler, MainStarting, ConsumerBusy, StarterLabel, Starter
  <2>4. \E p \in Free : init' = [init EXCEPT ![target[g]] = p]
    BY <1>1, <2>1 DEF CreateInvoke, rtVars
  <2>5. init'[c] = init[c]
    BY <2>3, <2>4 DEF TypeOK
  <2> QED
    BY <1>1, <2>5
<1>3. CASE \E d \in Container : init' = [init EXCEPT ![d] = NoPid]
  BY <1>1, <1>3 DEF TypeOK
<1>4. ASSUME NEW d, Delete(d) \/ Kill(d)
      PROVE  init' = [init EXCEPT ![d] = NoPid] \/ init' = init
  BY <1>4 DEF Delete, Kill, rtVars
<1>5. ASSUME NEW g \in Starter, StartOne(g)
      PROVE  init' = init \/ CreateInvoke(g) \/ \E d \in Container : init' = [init EXCEPT ![d] = NoPid]
  <2>1. target[g] \in Container
    BY DEF TypeOK
  <2>2. CASE StartUndo(g)
    BY <1>4, <2>1, <2>2 DEF StartUndo
  <2>3. CASE CreateRet(g) \/ StartInvoke(g) \/ StartRet(g) \/ StateInvoke(g) \/ StateRet(g)
    BY <2>3 DEF CreateRet, StartInvoke, StartRet, StateInvoke, StateRet, rtVars
  <2> QED
    BY <1>5, <2>2, <2>3 DEF StartOne
<1>6. CASE MainStep
  <2>1. RunNext \/ RunFailed \/ RunDone \/ RunCancelled => init' = init
    BY DEF RunNext, RunFailed, RunDone, RunCancelled, rtVars
  <2> QED
    BY <1>1, <1>2, <1>3, <1>5, <1>6, <2>1 DEF MainStep, Starter
<1>7. CASE ConsumerStep
  <2>1. ConsumerReceive \/ ConsumerClosed \/ ConsumerDecide \/ ConsumerGivesUp => init' = init
    BY DEF ConsumerReceive, ConsumerClosed, ConsumerDecide, ConsumerGivesUp, rtVars
  <2>2. ConsumerDelete => Delete(target["consumer"]) /\ target["consumer"] \in Container
    BY DEF ConsumerDelete, TypeOK, Starter
  <2> QED
    BY <1>1, <1>2, <1>3, <1>4, <1>5, <1>7, <2>1, <2>2 DEF ConsumerStep, Starter
<1>8. CASE ~MainStep /\ ~ConsumerStep
  <2>1. ASSUME StopKill
        PROVE  \E d \in Container : Kill(d)
    BY <2>1 DEF StopKill, TypeOK
  <2>2. ASSUME NEW d \in Container, NEW s, ContainerExit(d, s)
        PROVE  init' = [init EXCEPT ![d] = NoPid]
    BY <2>2 DEF ContainerExit
  <2>3. (StopSignal \/ (StopStep /\ ~StopKill) \/ ReaperExit \/ Halted \/ UNCHANGED vars)
           => init' = init
    BY DEF StopSignal, StopStep, StopTerm, StopTermed, StopAllExited, StopDeadline, StopKilled,
       StopCancel, ReaperExit, Halted, vars, rtVars
  <2>4. \A p, h : ReapChild(p) \/ HelperExit(h) => init' = init
    BY DEF ReapChild, HelperExit, rtVars
  <2> QED
    BY <1>1, <1>3, <1>4, <1>8, <2>1, <2>2, <2>3, <2>4 DEF Next, StopStep
<1> QED
  BY <1>6, <1>7, <1>8

(* A step of another keeps Finality if it leaves the consumer's and main's *)
(* places, the targets and the done channels alone.                        *)
LEMMA FinalityFrame ==
  ASSUME TypeOK, OneHandler, Accounts, Finality, [Next]_vars,
         UNCHANGED <<restart, closes, target, runErr>>,
         pc'["consumer"] \in StarterLabel \cup {"close"} =>
            pc["consumer"] \in StarterLabel \cup {"close"},
         pc'["main"] = "wait" => pc["main"] = "wait",
         pc["main"] = "poweroff" => pc'["main"] = "poweroff"
  PROVE  Finality'
<1>1. \A c \in Container : restart'[c] = "never" /\ closes'[c] > 0 => init'[c] = NoPid
  BY ClosedGetsNoInit DEF Finality
<1> QED
  BY <1>1 DEF Finality

(* startOne keeps Finality.                                                *)
LEMMA StartOneFinality ==
  ASSUME TypeOK, OneHandler, Accounts, Finality, NEW g \in Starter, StartOne(g), [Next]_vars
  PROVE  Finality'
<1>0. g \in Goroutine /\ "main" \in Goroutine /\ "consumer" \in Goroutine
      /\ pc[g] \in StarterLabel /\ (g = "main" => pc["consumer"] = "off")
  <2>1. pc[g] \in StarterLabel
    BY DEF StartOne, CreateInvoke, CreateRet, StartInvoke, StartRet, StartUndo, StateInvoke,
       StateRet, StarterLabel
  <2> QED
    BY <2>1 DEF Goroutine, Starter, OneHandler, MainStarting
<1>1. CASE ~StateRet(g)
  <2>1. UNCHANGED <<restart, closes, target, runErr>> /\ \E l \in StarterLabel \cup {GiveUp(g)} : Goto(g, l)
    BY <1>1 DEF StartOne, CreateInvoke, CreateRet, StartInvoke, StartRet, StartUndo, StateInvoke,
                Return, supVars, locals, StarterLabel
  <2>2. /\ pc'["consumer"] \in StarterLabel \cup {"close"} =>
              pc["consumer"] \in StarterLabel \cup {"close"}
        /\ pc'["main"] = "wait" => pc["main"] = "wait"
        /\ pc["main"] = "poweroff" => pc'["main"] = "poweroff"
    BY <1>0, <2>1 DEF Goto, TypeOK, StarterLabel, GiveUp, Starter
  <2> QED
    BY <2>1, <2>2, FinalityFrame
<1>2. CASE StateRet(g)
  <2>1. UNCHANGED <<restart, closes, runErr, init>> /\ AfterStart(g)
    BY <1>2 DEF StateRet, rtVars
  <2>2. CASE g = "consumer"
    <3>1. target' = target /\ pc'["consumer"] = "recv" /\ pc'["main"] = pc["main"]
      BY <1>0, <2>1, <2>2 DEF AfterStart, Goto, TypeOK
    <3> QED
      BY <2>1, <3>1 DEF Finality, StarterLabel
  <2>3. CASE g = "main"
    <3>1. runErr # "nil"
      BY <1>0, <2>3 DEF Finality, StarterLabel
    <3>2. pc'["consumer"] \in {"off", "recv"}
      BY <1>0, <2>1, <2>3 DEF AfterStart, Goto, TypeOK
    <3>3. pc'["main"] = "wait" => target'["main"] = 1
      BY <1>0, <2>1, <2>3 DEF AfterStart, Goto, TypeOK
    <3>4. \A c \in Container : ~(c < 1)
      BY DEF Container
    <3> QED
      BY <2>1, <3>1, <3>2, <3>3, <3>4 DEF Finality, StarterLabel
  <2> QED
    BY <2>2, <2>3 DEF Starter
<1> QED
  BY <1>1, <1>2

(* Supervisor.Run keeps Finality: it returns nil only at the end of a loop *)
(* that has seen every done channel closed.                                *)
LEMMA MainFinality ==
  ASSUME TypeOK, OneHandler, Accounts, Finality, MainStep, [Next]_vars
  PROVE  Finality'
<1>0. "main" \in Goroutine /\ "consumer" \in Goroutine /\ target["main"] \in Container
  BY DEF Goroutine, Starter, TypeOK
<1>1. CASE StartOne("main")
  BY <1>1, StartOneFinality DEF Starter
<1>2. CASE RunNext
  <2>1. /\ UNCHANGED <<restart, closes, target, runErr>> /\ pc["main"] = "next"
        /\ pc'["consumer"] = pc["consumer"] /\ pc'["main"] = "create"
    BY <1>0, <1>2 DEF RunNext, Goto, locals, TypeOK
  <2> QED
    BY <2>1, FinalityFrame
<1>3. CASE RunFailed \/ RunCancelled
  <2>1. /\ UNCHANGED <<restart, closes, target, init>> /\ runErr' # "nil"
        /\ pc'["consumer"] = pc["consumer"] /\ pc'["main"] = "poweroff"
    BY <1>0, <1>3 DEF RunFailed, RunCancelled, RunReturns, Goto, supVars, rtVars, TypeOK
  <2> QED
    BY <2>1 DEF Finality
<1>4. CASE RunDone
  <2>1. /\ UNCHANGED <<restart, closes, init>> /\ pc["main"] = "wait" /\ closes[target["main"]] > 0
        /\ runErr # "nil"
    BY <1>4 DEF RunDone, supVars, rtVars, Finality
  <2>2. \A c \in Container : c <= target["main"] => closes[c] > 0
    <3>1. \A c \in Container : c <= target["main"] => c < target["main"] \/ c = target["main"]
      BY <1>0 DEF Container
    <3> QED
      BY <2>1, <3>1 DEF Finality
  <2>3. CASE target["main"] < N
    <3>1. /\ pc' = pc /\ runErr' = runErr /\ target'["main"] = target["main"] + 1
          /\ target'["consumer"] = target["consumer"]
      BY <1>4, <2>3 DEF RunDone, TypeOK, Starter
    <3>2. \A c \in Container : c < target["main"] + 1 => c <= target["main"]
      BY <1>0 DEF Container
    <3> QED
      BY <2>1, <2>2, <3>1, <3>2 DEF Finality
  <2>4. CASE ~(target["main"] < N)
    <3>1. target' = target /\ pc'["main"] = "poweroff" /\ pc'["consumer"] = pc["consumer"]
      BY <1>0, <1>4, <2>4 DEF RunDone, RunReturns, Goto, TypeOK
    <3>2. \A c \in Container : c <= target["main"]
      BY <1>0, <2>4, ConstantsAreSound DEF Container
    <3> QED
      BY <2>1, <2>2, <3>1, <3>2 DEF Finality
  <2> QED
    BY <2>3, <2>4
<1> QED
  BY <1>1, <1>2, <1>3, <1>4 DEF MainStep

(* consumeReaper keeps Finality: what it closes has exited, or is to be    *)
(* restarted and could not be.                                             *)
LEMMA ConsumerFinality ==
  ASSUME TypeOK, OneHandler, Accounts, Ownership, Finality, ConsumerStep, [Next]_vars
  PROVE  Finality'
<1>0. /\ "consumer" \in Goroutine /\ "main" \in Goroutine /\ target["consumer"] \in Container
      /\ "consumer" \in Starter
  BY DEF Goroutine, Starter, TypeOK
<1>1. CASE StartOne("consumer")
  BY <1>0, <1>1, StartOneFinality
<1>2. CASE ConsumerReceive
  <2>1. /\ UNCHANGED <<restart, closes, runErr, init>> /\ pc'["main"] = pc["main"]
        /\ pc'["consumer"] \in {"recv", "delete"} /\ target'["main"] = target["main"]
    BY <1>0, <1>2 DEF ConsumerReceive, rtVars, Goto, TypeOK, Starter
  <2> QED
    BY <2>1 DEF Finality, StarterLabel
<1>3. CASE ConsumerClosed \/ ConsumerDelete
  <2>1. /\ UNCHANGED <<restart, closes, target, runErr>> /\ pc'["main"] = pc["main"]
        /\ pc'["consumer"] \in {"exited", "decide"}
    BY <1>0, <1>3 DEF ConsumerClosed, ConsumerDelete, supVars, locals, Goto, TypeOK
  <2> QED
    BY <2>1, FinalityFrame DEF StarterLabel
<1>4. CASE ConsumerDecide \/ ConsumerGivesUp
  <2> DEFINE c == target["consumer"]
  <2>1. /\ UNCHANGED <<restart, target, runErr, init>> /\ pc'["main"] = pc["main"]
        /\ pc["consumer"] \in {"decide", "close"}
        /\ \/ ShouldRestart(c, evStatus) /\ UNCHANGED closes
           \/ /\ pc'["consumer"] = "recv" /\ CloseDone(c)
    BY <1>0, <1>4 DEF ConsumerDecide, ConsumerGivesUp, rtVars, locals, Goto, TypeOK
  <2>2. restart[c] = "never" => init[c] = NoPid
    BY <2>1 DEF Ownership, Finality
  <2>3. CASE ShouldRestart(c, evStatus) /\ UNCHANGED closes
    BY <2>1, <2>3 DEF Finality, ShouldRestart
  <2>4. CASE pc'["consumer"] = "recv" /\ CloseDone(c)
    <3>1. \A d \in Container : closes[d] \in Nat /\ closes'[d] = IF d = c THEN closes[d] + 1 ELSE closes[d]
      BY <1>0, <2>4 DEF CloseDone, TypeOK
    <3>2. \A d \in Container : /\ closes[d] > 0 => closes'[d] > 0
                               /\ closes'[d] > 0 => closes[d] > 0 \/ d = c
      BY <3>1
    <3> QED
      BY <2>1, <2>2, <2>4, <3>2 DEF Finality, StarterLabel
  <2> QED
    BY <2>1, <2>3, <2>4
<1> QED
  BY <1>1, <1>2, <1>3, <1>4 DEF ConsumerStep

(* Everything else keeps Finality.                                         *)
LEMMA RestFinality ==
  ASSUME TypeOK, OneHandler, Accounts, Finality, [Next]_vars, ~MainStep, ~ConsumerStep
  PROVE  Finality'
<1>1. UNCHANGED <<restart, closes, target, runErr>> /\ pc'["main"] = pc["main"]
      /\ pc'["consumer"] = pc["consumer"]
  <2> USE DEF TypeOK, Goto, supVars, rtVars, locals, unchangedByKernel, Goroutine, Starter
  <2>1. CASE StopSignal \/ StopStep
    BY <2>1 DEF StopSignal, StopStep, StopTerm, StopTermed, StopAllExited, StopDeadline, StopKill,
                StopKilled, StopCancel
  <2>2. CASE ~(StopSignal \/ StopStep)
    BY <2>2 DEF Next, ReapChild, ReaperExit, ContainerExit, HelperExit, Halted, vars
  <2> QED
    BY <2>1, <2>2
<1> QED
  BY <1>1, FinalityFrame

(* Run does not return without an error while a container that is never    *)
(* restarted still runs, for any number of containers and any policies.    *)
THEOREM SupervisorNilReturnAfterExits == Spec => []NilReturnAfterExits
<1>1. Init => Finality
  BY DEF Init, Finality, Goroutine, Starter, StarterLabel
<1>2. TypeOK /\ OneHandler /\ Accounts /\ Ownership /\ Finality /\ [Next]_vars => Finality'
  BY MainFinality, ConsumerFinality, RestFinality
<1>3. Finality => NilReturnAfterExits
  BY DEF Finality, NilReturnAfterExits
<1> QED
  BY <1>1, <1>2, <1>3, SupervisorTypeCorrect, SupervisorHandlesOnce, SupervisorAccounts,
     SupervisorOwnsExits, PTL DEF Spec
=============================================================================
