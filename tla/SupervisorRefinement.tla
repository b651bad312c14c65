------------------------ MODULE SupervisorRefinement -----------------------
(***************************************************************************)
(* Proof that Supervisor implements Lifecycle, for every number of         *)
(* containers, every set of pids and every mix of policies: what the       *)
(* goroutines, the runtime and the reaper do with a container is, seen     *)
(* through Phase, a step of its life or nothing.                           *)
(***************************************************************************)
EXTENDS SupervisorProofs

(* The inductive invariant behind the mapping: which containers have an    *)
(* entry while main starts them one by one, that the consumer runs only    *)
(* when all have, and that Run returns once.                               *)
Progress ==
    /\ runErr # "none" => pc["main"] = "poweroff"
    /\ runErr = "start" => pc["consumer"] = "off"
    /\ pc["main"] = "next" => \A c \in Container : c \in states <=> c < target["main"]
    /\ pc["main"] \in StarterLabel \cup {"failed"} =>
          \A c \in Container : c \in states <=> c <= target["main"]
    /\ pc["consumer"] # "off" => states = Container

(* The two variables of Lifecycle that Supervisor does not have.           *)
PhaseOf == [c \in Container |-> Phase(c)]
ExitOf(c) == IF closes[c] = 0 /\ Handling(c) THEN evStatus ELSE "none"
Exits == [c \in Container |-> ExitOf(c)]

(* What Phase and ExitOf read.                                             *)
MainHas(c) ==
    /\ target["main"] = c
    /\ pc["main"] \in StarterLabel \cup {"failed", "close"} \/ runErr = "start"
ConsumerHas(c) ==
    target["consumer"] = c /\ pc["consumer"] \in StarterLabel \cup {"failed", "close"}

(* A step that changes none of it for d.                                   *)
Untouched(d) ==
    /\ d \in states' <=> d \in states
    /\ closes'[d] = closes[d]
    /\ MainHas(d)' <=> MainHas(d)
    /\ ConsumerHas(d)' <=> ConsumerHas(d)
    /\ Handling(d)' <=> Handling(d)
    /\ Handling(d) => evStatus' = evStatus

LEMMA LaunchingCases ==
  ASSUME NEW c \in Container
  PROVE  Launching(c) <=> MainHas(c) \/ ConsumerHas(c)
BY DEF Launching, MainHas, ConsumerHas, Starter

LEMMA LaunchingCasesNext ==
  ASSUME NEW c \in Container
  PROVE  Launching(c)' <=> MainHas(c)' \/ ConsumerHas(c)'
BY DEF Launching, MainHas, ConsumerHas, Starter

LEMMA UntouchedSame ==
  ASSUME NEW d \in Container, Untouched(d)
  PROVE  Phase(d)' = Phase(d) /\ ExitOf(d)' = ExitOf(d)
BY LaunchingCases, LaunchingCasesNext DEF Untouched, Phase, ExitOf

-----------------------------------------------------------------------------
(* Progress is inductive.                                                  *)

(* Only main's own steps and the launch of the consumer matter to it.      *)
LEMMA ProgressFrame ==
  ASSUME Progress, UNCHANGED <<states, runErr, pc, target>> \/
         /\ UNCHANGED <<states, runErr>> /\ target'["main"] = target["main"]
         /\ pc'["main"] = pc["main"]
         /\ pc'["consumer"] = "off" <=> pc["consumer"] = "off"
  PROVE  Progress'
BY DEF Progress

LEMMA MainProgress ==
  ASSUME TypeOK, OneHandler, Progress, MainStep
  PROVE  Progress'
<1>0. /\ "main" \in Goroutine /\ "consumer" \in Goroutine /\ target["main"] \in Container
      /\ "main" \in Starter
  BY DEF Goroutine, Starter, TypeOK
<1>1. CASE RunNext
  <2>1. /\ UNCHANGED <<target, runErr>> /\ pc["main"] = "next" /\ pc'["main"] = "create"
        /\ pc'["consumer"] = pc["consumer"] /\ states' = states \cup {target["main"]}
    BY <1>0, <1>1 DEF RunNext, Goto, locals, TypeOK
  <2>2. \A c \in Container : c <= target["main"] <=> c < target["main"] \/ c = target["main"]
    BY <1>0 DEF Container
  <2>3. pc["consumer"] = "off"
    BY <2>1 DEF OneHandler, MainStarting
  <2> QED
    BY <2>1, <2>2, <2>3 DEF Progress
<1>2. CASE RunFailed \/ RunDone \/ RunCancelled
  <2>1. /\ states' = states /\ pc'["consumer"] = pc["consumer"]
        /\ \/ pc'["main"] = "poweroff" /\ runErr' # "start"
           \/ pc'["main"] = "poweroff" /\ pc["main"] = "failed"
           \/ pc["main"] = "wait" /\ pc' = pc /\ runErr' = runErr
    BY <1>0, <1>2 DEF RunFailed, RunDone, RunCancelled, RunReturns, Goto, supVars, TypeOK
  <2>2. pc["main"] = "failed" => pc["consumer"] = "off"
    BY DEF OneHandler, MainStarting
  <2> QED
    BY <2>1, <2>2 DEF Progress, StarterLabel
<1>3. CASE StartOne("main") /\ ~StateRet("main")
  <2>1. UNCHANGED <<target, runErr, states>> /\ pc["main"] \in StarterLabel
        /\ \E l \in StarterLabel \cup {"failed"} : Goto("main", l)
    BY <1>3 DEF StartOne, CreateInvoke, CreateRet, StartInvoke, StartRet, StartUndo, StateInvoke,
                Return, GiveUp, supVars, locals, StarterLabel
  <2>2. pc'["main"] \in StarterLabel \cup {"failed"} /\ pc'["consumer"] = pc["consumer"]
    BY <1>0, <2>1 DEF Goto, TypeOK
  <2> QED
    BY <2>1, <2>2 DEF Progress, StarterLabel
<1>4. CASE StateRet("main")
  <2>1. UNCHANGED <<runErr, states>> /\ pc["main"] = "stateRet" /\ AfterStart("main")
    BY <1>4 DEF StateRet
  <2>2. pc["consumer"] = "off" /\ runErr = "none" /\ \A c \in Container : c \in states <=> c <= target["main"]
    BY <2>1 DEF Progress, OneHandler, MainStarting, StarterLabel
  <2>3. CASE target["main"] < N
    <3>1. /\ pc'["main"] = "next" /\ pc'["consumer"] = "off"
          /\ target'["main"] = target["main"] + 1
      BY <1>0, <2>1, <2>2, <2>3 DEF AfterStart, Goto, TypeOK
    <3>2. \A c \in Container : c <= target["main"] <=> c < target["main"] + 1
      BY <1>0 DEF Container
    <3> QED
      BY <2>1, <2>2, <3>1, <3>2 DEF Progress, StarterLabel
  <2>4. CASE ~(target["main"] < N)
    <3>1. pc'["main"] = "wait"
      BY <1>0, <2>1, <2>4 DEF AfterStart, TypeOK
    <3>2. \A c \in Container : c <= target["main"]
      BY <1>0, <2>4, ConstantsAreSound DEF Container
    <3>3. states = Container
      BY <2>2, <3>2 DEF TypeOK
    <3> QED
      BY <2>1, <2>2, <3>1, <3>3 DEF Progress, StarterLabel
  <2> QED
    BY <2>3, <2>4
<1> QED
  BY <1>1, <1>2, <1>3, <1>4 DEF MainStep

LEMMA ConsumerProgress ==
  ASSUME TypeOK, OneHandler, Progress, ConsumerStep
  PROVE  Progress'
<1>0. "consumer" \in Goroutine /\ "main" \in Goroutine
  BY DEF Goroutine, Starter
<1>1. UNCHANGED <<states, runErr>> /\ \/ UNCHANGED pc
                                      \/ pc["consumer"] # "off" /\ \E l : l # "off" /\ Goto("consumer", l)
  BY DEF ConsumerStep, ConsumerReceive, ConsumerClosed, ConsumerDelete, ConsumerDecide,
     ConsumerGivesUp, StartOne, CreateInvoke, CreateRet, StartInvoke, StartRet, StartUndo,
     StateInvoke, StateRet, AfterStart, Return, GiveUp, supVars, locals
<1>2. target'["main"] = target["main"]
  <2>1. target' = target \/ \E c : target' = [target EXCEPT !["consumer"] = c]
    BY DEF ConsumerStep, ConsumerReceive, ConsumerClosed, ConsumerDelete, ConsumerDecide,
       ConsumerGivesUp, StartOne, CreateInvoke, CreateRet, StartInvoke, StartRet, StartUndo,
       StateInvoke, StateRet, AfterStart, locals
  <2> QED
    BY <2>1 DEF TypeOK, Starter
<1>3. pc'["main"] = pc["main"] /\ (pc'["consumer"] = "off" <=> pc["consumer"] = "off")
  BY <1>0, <1>1 DEF Goto, TypeOK
<1> QED
  BY <1>1, <1>2, <1>3, ProgressFrame

(* Nobody else touches what the mapping reads.                             *)
LEMMA RestSame ==
  ASSUME TypeOK, [Next]_vars, ~MainStep, ~ConsumerStep
  PROVE  /\ UNCHANGED <<restart, states, closes, target, evStatus, runErr>>
         /\ pc'["main"] = pc["main"] /\ pc'["consumer"] = pc["consumer"]
<1> USE DEF TypeOK, Goto, supVars, rtVars, locals, unchangedByKernel, Goroutine, Starter
<1>1. CASE StopSignal \/ StopStep
  BY <1>1 DEF StopSignal, StopStep, StopTerm, StopTermed, StopAllExited, StopDeadline, StopKill,
              StopKilled, StopCancel
<1>2. CASE ~(StopSignal \/ StopStep)
  BY <1>2 DEF Next, ReapChild, ReaperExit, ContainerExit, HelperExit, Halted, vars
<1> QED
  BY <1>1, <1>2

THEOREM SupervisorProgress == Spec => []Progress
<1>1. Init => Progress
  <2>1. \A c \in Container : ~(c < 1)
    BY DEF Container
  <2> QED
    BY <2>1 DEF Init, Progress, Goroutine, Starter, StarterLabel
<1>2. TypeOK /\ OneHandler /\ Progress /\ [Next]_vars => Progress'
  BY MainProgress, ConsumerProgress, RestSame, ProgressFrame
<1> QED
  BY <1>1, <1>2, SupervisorTypeCorrect, SupervisorHandlesOnce, PTL DEF Spec


-----------------------------------------------------------------------------
(* The steps, seen through the mapping.                                    *)

(* A step that touches no container is a stutter of Lifecycle.             *)
LEMMA Stutters ==
  ASSUME restart' = restart, \A d \in Container : Untouched(d)
  PROVE  restart' = restart /\ PhaseOf' = PhaseOf /\ Exits' = Exits
BY UntouchedSame DEF PhaseOf, Exits

(* A step that touches one container moves that one.                       *)
LEMMA Moves ==
  ASSUME NEW c \in Container, NEW to, Phase(c)' = to, NEW s, ExitOf(c)' = s,
         \A d \in Container \ {c} : Untouched(d)
  PROVE  /\ PhaseOf' = [PhaseOf EXCEPT ![c] = to]
         /\ Exits' = [Exits EXCEPT ![c] = s]
         /\ PhaseOf[c] = Phase(c) /\ Exits[c] = ExitOf(c)
<1>1. \A d \in Container : /\ d # c => Phase(d)' = Phase(d) /\ ExitOf(d)' = ExitOf(d)
  BY UntouchedSame
<1> QED
  BY <1>1 DEF PhaseOf, Exits

(* The steps of startOne before the last are part of the launch.           *)
LEMMA StartingStutters ==
  ASSUME TypeOK, Progress, NEW g \in Starter, StartOne(g), ~StateRet(g)
  PROVE  restart' = restart /\ \A d \in Container : Untouched(d)
<1>1. /\ UNCHANGED <<restart, states, closes, target, evStatus, runErr>> /\ pc[g] \in StarterLabel
      /\ \E l \in StarterLabel \cup {"failed", "close"} : Goto(g, l)
  BY DEF StartOne, CreateInvoke, CreateRet, StartInvoke, StartRet, StartUndo, StateInvoke,
         Return, GiveUp, supVars, locals, StarterLabel
<1>2. /\ pc'[g] \in StarterLabel \cup {"failed", "close"}
      /\ \A h \in Starter : h # g => pc'[h] = pc[h]
  BY <1>1 DEF Goto, TypeOK, Goroutine
<1>3. \A h \in Starter : /\ (pc'[h] \in StarterLabel \cup {"failed", "close"}) <=>
                            (pc[h] \in StarterLabel \cup {"failed", "close"})
                         /\ pc'[h] \in {"delete", "decide"} <=> pc[h] \in {"delete", "decide"}
  BY <1>1, <1>2 DEF StarterLabel
<1> QED
  BY <1>1, <1>3 DEF Untouched, MainHas, ConsumerHas, Handling, Starter

(* The last one ends it.                                                   *)
LEMMA LaunchEnds ==
  ASSUME TypeOK, OneHandler, Progress, NEW g \in Starter, StateRet(g), NEW c, c = target[g]
  PROVE  Life!Launched(c)
<1> DEFINE Away == StarterLabel \cup {"failed", "close"}
<1>0. /\ c \in Container /\ "consumer" \in Goroutine /\ "main" \in Goroutine
      /\ pc[g] = "stateRet" /\ UNCHANGED <<restart, states, closes, evStatus, runErr>>
      /\ AfterStart(g)
  BY DEF Goroutine, Starter, TypeOK, StateRet
<1>1. /\ c \in states /\ closes[c] = 0 /\ runErr # "start"
      /\ g = "main" => pc["consumer"] = "off"
      /\ g = "consumer" => pc["main"] \notin Away
  <2>1. CASE g = "main"
    <3>1. c \in states
      <4>1. c <= c
        BY <1>0 DEF Container
      <4> QED
        BY <1>0, <2>1, <4>1 DEF Progress, StarterLabel
    <3> QED
      BY <1>0, <2>1, <3>1 DEF Progress, OneHandler, MainStarting, StarterLabel
  <2>2. CASE g = "consumer"
    <3>1. pc["main"] # "close"
      BY DEF TypeOK, MainLabel, StarterLabel
    <3> QED
      BY <1>0, <2>2, <3>1 DEF Progress, OneHandler, MainStarting, ConsumerBusy, StarterLabel
  <2> QED
    BY <2>1, <2>2 DEF Starter
<1>2. Phase(c) = "launching" /\ ExitOf(c) = "none"
  <2>1. Launching(c)
    BY <1>0 DEF Launching, StarterLabel
  <2>2. ~Handling(c)
    BY <1>0, <1>1 DEF Handling, Starter
  <2> QED
    BY <1>1, <2>1, <2>2 DEF Phase, ExitOf
<1>3. /\ pc'["consumer"] \notin Away \cup {"delete", "decide"} /\ pc'["main"] \notin Away
      /\ g = "consumer" => target' = target /\ pc'["main"] = pc["main"]
  <2>1. CASE g = "consumer"
    BY <1>0, <1>1, <2>1 DEF AfterStart, Goto, TypeOK, StarterLabel
  <2>2. CASE g = "main"
    BY <1>0, <1>1, <2>2 DEF AfterStart, Goto, TypeOK, StarterLabel
  <2> QED
    BY <2>1, <2>2 DEF Starter
<1>4. \A d \in Container : ~MainHas(d)' /\ ~ConsumerHas(d)' /\ ~Handling(d)'
  BY <1>0, <1>1, <1>3 DEF MainHas, ConsumerHas, Handling
<1>5. \A d \in Container \ {c} : Untouched(d)
  <2>1. \A d \in Container \ {c} : ~MainHas(d) /\ ~ConsumerHas(d) /\ ~Handling(d)
    BY <1>0, <1>1 DEF MainHas, ConsumerHas, Handling, StarterLabel, Starter
  <2> QED
    BY <1>0, <1>4, <2>1 DEF Untouched
<1>6. Phase(c)' = "up" /\ ExitOf(c)' = "none"
  BY <1>0, <1>1, <1>4, LaunchingCasesNext DEF Phase, ExitOf
<1>7. /\ PhaseOf' = [PhaseOf EXCEPT ![c] = "up"] /\ PhaseOf[c] = "launching"
      /\ Exits' = [Exits EXCEPT ![c] = "none"] /\ Exits[c] = "none"
  BY <1>0, <1>2, <1>5, <1>6, Moves
<1>8. Exits' = Exits
  BY <1>0, <1>7 DEF Exits
<1> QED
  BY <1>0, <1>7, <1>8 DEF Life!Launched, Life!Enter, PhaseOf, Exits, ExitOf


(* Supervisor.Run: an entry in the states map begins a launch, the end of  *)
(* startOne ends it, and the wait and the return move no container.        *)
LEMMA MainRefines ==
  ASSUME TypeOK, OneHandler, Progress, MainStep
  PROVE  [Life!Next]_Life!lifeVars
<1>0. /\ "consumer" \in Goroutine /\ "main" \in Goroutine /\ "main" \in Starter
      /\ target["main"] \in Container
  BY DEF Goroutine, Starter, TypeOK
<1>1. CASE RunNext
  <2>1. PICK c \in Container : c = target["main"]
    BY <1>0
  <2>2. /\ UNCHANGED <<restart, closes, target, evStatus, runErr>> /\ states' = states \cup {c}
        /\ pc["main"] = "next" /\ pc'["main"] = "create" /\ pc'["consumer"] = pc["consumer"]
    BY <1>0, <1>1, <2>1 DEF RunNext, Goto, locals, TypeOK
  <2>3. pc["consumer"] = "off" /\ runErr = "none" /\ c \notin states /\ closes[c] = 0
    <3>1. ~(c < c)
      BY DEF Container
    <3> QED
      BY <2>1, <2>2, <3>1 DEF Progress, OneHandler, MainStarting
  <2>4. Phase(c) = "pending" /\ ExitOf(c) = "none"
    BY <2>3 DEF Phase, ExitOf, Handling
  <2>5. Phase(c)' = "launching" /\ ExitOf(c)' = "none"
    BY <2>1, <2>2, <2>3, LaunchingCasesNext DEF Phase, ExitOf, Handling, MainHas, StarterLabel
  <2>6. \A d \in Container \ {c} : Untouched(d)
    BY <2>1, <2>2, <2>3 DEF Untouched, MainHas, ConsumerHas, Handling
  <2>7. /\ PhaseOf' = [PhaseOf EXCEPT ![c] = "launching"] /\ PhaseOf[c] = "pending"
        /\ Exits' = [Exits EXCEPT ![c] = "none"] /\ Exits[c] = "none"
    BY <2>4, <2>5, <2>6, Moves
  <2>8. Exits' = Exits
    BY <2>7 DEF Exits
  <2>9. Life!Launch(c)
    BY <2>2, <2>7, <2>8 DEF Life!Launch, Life!Enter, PhaseOf, Exits, ExitOf
  <2> QED
    BY <2>9 DEF Life!Next
<1>2. CASE StateRet("main")
  BY <1>0, <1>2, LaunchEnds DEF Life!Next
<1>3. CASE ~RunNext /\ ~StateRet("main")
  <2>0. SUFFICES restart' = restart /\ \A d \in Container : Untouched(d)
    BY Stutters DEF Life!lifeVars, PhaseOf, Exits, ExitOf
  <2>1. CASE StartOne("main")
    BY <1>0, <1>3, <2>1, StartingStutters
  <2>2. CASE RunFailed
    <3>1. /\ UNCHANGED <<restart, states, closes, target, evStatus>> /\ pc["main"] = "failed"
          /\ pc'["main"] = "poweroff" /\ pc'["consumer"] = pc["consumer"] /\ runErr' = "start"
      BY <1>0, <2>2 DEF RunFailed, RunReturns, Goto, supVars, TypeOK
    <3> QED
      BY <3>1 DEF Untouched, MainHas, ConsumerHas, Handling
  <2>3. CASE RunDone \/ RunCancelled
    <3>1. /\ UNCHANGED <<restart, states, closes, evStatus>> /\ pc["main"] = "wait"
          /\ pc'["main"] \in {"wait", "poweroff"} /\ pc'["consumer"] = pc["consumer"]
          /\ target'["consumer"] = target["consumer"] /\ runErr' \in {runErr, "nil", "cancelled"}
      BY <1>0, <2>3 DEF RunDone, RunCancelled, RunReturns, Goto, supVars, TypeOK, Starter
    <3>2. runErr = "none"
      BY <3>1 DEF Progress
    <3> QED
      BY <3>1, <3>2 DEF Untouched, MainHas, ConsumerHas, Handling, StarterLabel
  <2> QED
    BY <1>3, <2>1, <2>2, <2>3 DEF MainStep
<1> QED
  BY <1>1, <1>2, <1>3

(* consumeReaper: a received event is the exit of a container that is up,  *)
(* a decision relaunches it as its policy says or finishes it, and a       *)
(* restart that fails abandons it.                                         *)
LEMMA ConsumerRefines ==
  ASSUME TypeOK, TypeOK', OneHandler, Progress, ConsumerStep
  PROVE  [Life!Next]_Life!lifeVars
<1>0. /\ "consumer" \in Goroutine /\ "main" \in Goroutine /\ "consumer" \in Starter
      /\ target["consumer"] \in Container
  BY DEF Goroutine, Starter, TypeOK
<1>1. CASE StateRet("consumer")
  BY <1>0, <1>1, LaunchEnds DEF Life!Next
<1>2. CASE StartOne("consumer") /\ ~StateRet("consumer")
  BY <1>0, <1>2, StartingStutters, Stutters DEF Life!lifeVars, PhaseOf, Exits, ExitOf
<1>3. ASSUME pc["consumer"] # "off"
      PROVE  /\ states = Container /\ \A d \in Container : ~MainHas(d)
  <2>1. pc["main"] # "close"
    BY DEF TypeOK, MainLabel, StarterLabel
  <2> QED
    BY <1>3, <2>1 DEF Progress, OneHandler, MainStarting, MainHas
<1>4. CASE ConsumerReceive
  <2> DEFINE p == Head(events).pid
             Known == p \in Pid /\ pidIndex[p] # NoContainer
  <2>1. /\ UNCHANGED <<restart, states, closes, runErr>> /\ pc["consumer"] = "recv"
        /\ pc'["main"] = pc["main"]
    BY <1>0, <1>4 DEF ConsumerReceive, Goto, TypeOK
  <2>2. CASE ~Known
    <3>1. UNCHANGED <<target, evStatus, pc>>
      BY <1>4, <2>2 DEF ConsumerReceive
    <3>2. \A d \in Container : Untouched(d)
      BY <2>1, <3>1 DEF Untouched, MainHas, ConsumerHas, Handling
    <3> QED
      BY <2>1, <3>2, Stutters DEF Life!lifeVars, PhaseOf, Exits, ExitOf
  <2>3. CASE Known
    <3>1. PICK c \in Container : c = pidIndex[p]
      BY <2>3 DEF TypeOK
    <3>2. PICK s \in Status : s = evStatus'
      BY DEF TypeOK
    <3>3. /\ target'["consumer"] = c /\ target'["main"] = target["main"]
          /\ pc'["consumer"] = "delete" /\ closes[c] = 0
      BY <1>0, <1>4, <2>3, <3>1 DEF ConsumerReceive, Goto, TypeOK, Starter, OneHandler
    <3>4. \A d \in Container : ~MainHas(d)' /\ ~MainHas(d)
      BY <1>3, <2>1, <3>3 DEF MainHas
    <3>5. \A d \in Container : ~ConsumerHas(d) /\ ~ConsumerHas(d)' /\ ~Handling(d) /\ (Handling(d)' <=> d = c)
      BY <2>1, <3>3 DEF ConsumerHas, Handling, StarterLabel
    <3>6. Phase(c) = "up" /\ ExitOf(c) = "none"
      BY <1>3, <2>1, <3>3, <3>4, <3>5, LaunchingCases DEF Phase, ExitOf
    <3>7. Phase(c)' = "down" /\ ExitOf(c)' = s
      BY <1>3, <2>1, <3>2, <3>3, <3>5 DEF Phase, ExitOf
    <3>8. \A d \in Container \ {c} : Untouched(d)
      BY <2>1, <3>4, <3>5 DEF Untouched
    <3>9. /\ PhaseOf' = [PhaseOf EXCEPT ![c] = "down"] /\ PhaseOf[c] = "up"
          /\ Exits' = [Exits EXCEPT ![c] = s]
      BY <3>6, <3>7, <3>8, Moves
    <3>10. Life!Exited(c, s)
      BY <2>1, <3>9 DEF Life!Exited, Life!Enter, PhaseOf, Exits, ExitOf
    <3> QED
      BY <3>10 DEF Life!Next
  <2> QED
    BY <2>2, <2>3
<1>5. CASE ConsumerClosed \/ ConsumerDelete
  <2>1. /\ UNCHANGED <<restart, states, closes, target, evStatus, runErr>> /\ pc'["main"] = pc["main"]
        /\ \/ pc["consumer"] = "recv" /\ pc'["consumer"] = "exited"
           \/ pc["consumer"] = "delete" /\ pc'["consumer"] = "decide"
    BY <1>0, <1>5 DEF ConsumerClosed, ConsumerDelete, Goto, supVars, locals, TypeOK
  <2>2. \A d \in Container : Untouched(d)
    BY <2>1 DEF Untouched, MainHas, ConsumerHas, Handling, StarterLabel
  <2> QED
    BY <2>1, <2>2, Stutters DEF Life!lifeVars, PhaseOf, Exits, ExitOf
<1>6. CASE ConsumerDecide \/ ConsumerGivesUp
  <2>1. PICK c \in Container : c = target["consumer"]
    BY <1>0
  <2>2. /\ UNCHANGED <<restart, states, target, evStatus, runErr>> /\ pc'["main"] = pc["main"]
        /\ \/ /\ pc["consumer"] = "decide" /\ pc'["consumer"] = "create"
              /\ ShouldRestart(c, evStatus) /\ closes' = closes
           \/ /\ pc["consumer"] \in {"decide", "close"} /\ pc'["consumer"] = "recv"
              /\ closes' = [closes EXCEPT ![c] = @ + 1]
    BY <1>0, <1>6, <2>1 DEF ConsumerDecide, ConsumerGivesUp, CloseDone, Goto, locals, TypeOK
  <2>3. states = Container /\ closes[c] = 0 /\ \A d \in Container : ~MainHas(d) /\ ~MainHas(d)'
    BY <1>3, <2>1, <2>2 DEF OneHandler, ConsumerBusy, MainHas
  <2>4. \A d \in Container : /\ closes'[d] = IF d = c /\ pc'["consumer"] = "recv" THEN 1 ELSE closes[d]
                             /\ ConsumerHas(d) <=> d = c /\ pc["consumer"] = "close"
                             /\ ConsumerHas(d)' <=> d = c /\ pc'["consumer"] = "create"
                             /\ Handling(d) <=> d = c /\ pc["consumer"] = "decide"
                             /\ ~Handling(d)'
    BY <2>1, <2>2, <2>3 DEF ConsumerHas, Handling, StarterLabel, TypeOK
  <2>5. \A d \in Container \ {c} : Untouched(d)
    BY <2>2, <2>3, <2>4 DEF Untouched
  <2>6. CASE pc["consumer"] = "decide" /\ pc'["consumer"] = "create"
    <3>1. Phase(c) = "down" /\ ExitOf(c) = evStatus
      BY <2>3, <2>4, <2>6 DEF Phase, ExitOf
    <3>2. Phase(c)' = "launching" /\ ExitOf(c)' = "none"
      BY <2>2, <2>3, <2>4, <2>6, LaunchingCasesNext DEF Phase, ExitOf
    <3>3. /\ PhaseOf' = [PhaseOf EXCEPT ![c] = "launching"] /\ PhaseOf[c] = "down"
          /\ Exits' = [Exits EXCEPT ![c] = "none"] /\ Exits[c] = evStatus
      BY <2>5, <3>1, <3>2, Moves
    <3>4. restart[c] = "always" \/ (restart[c] = "on-failure" /\ Exits[c] = "fail")
      BY <2>2, <2>6, <3>3 DEF ShouldRestart
    <3>5. Life!Relaunch(c)
      BY <2>2, <3>3, <3>4 DEF Life!Relaunch, Life!Enter, PhaseOf, Exits, ExitOf
    <3> QED
      BY <3>5 DEF Life!Next
  <2>7. CASE pc'["consumer"] = "recv"
    <3>1. Phase(c)' = "finished" /\ ExitOf(c)' = "none"
      BY <2>2, <2>3, <2>4, <2>7 DEF Phase, ExitOf
    <3>2. CASE pc["consumer"] = "decide"
      <4>1. Phase(c) = "down"
        BY <2>3, <2>4, <3>2 DEF Phase
      <4>2. /\ PhaseOf' = [PhaseOf EXCEPT ![c] = "finished"] /\ PhaseOf[c] = "down"
            /\ Exits' = [Exits EXCEPT ![c] = "none"]
        BY <2>5, <3>1, <4>1, Moves
      <4>3. Life!Finish(c)
        BY <2>2, <4>2 DEF Life!Finish, Life!Enter, PhaseOf, Exits, ExitOf
      <4> QED
        BY <4>3 DEF Life!Next
    <3>3. CASE pc["consumer"] = "close"
      <4>1. Phase(c) = "launching" /\ ExitOf(c) = "none"
        BY <2>3, <2>4, <3>3, LaunchingCases DEF Phase, ExitOf
      <4>2. /\ PhaseOf' = [PhaseOf EXCEPT ![c] = "finished"] /\ PhaseOf[c] = "launching"
            /\ Exits' = [Exits EXCEPT ![c] = "none"] /\ Exits[c] = "none"
        BY <2>5, <3>1, <4>1, Moves
      <4>3. Exits' = Exits
        BY <4>2 DEF Exits
      <4>4. Life!Abandon(c)
        BY <2>2, <4>2, <4>3 DEF Life!Abandon, Life!Enter, PhaseOf, Exits, ExitOf
      <4> QED
        BY <4>4 DEF Life!Next
    <3> QED
      BY <2>2, <2>7, <3>2, <3>3
  <2> QED
    BY <2>2, <2>6, <2>7
<1> QED
  BY <1>1, <1>2, <1>4, <1>5, <1>6 DEF ConsumerStep

(* The other goroutines and the kernel take no step of Lifecycle.          *)
LEMMA RestRefines ==
  ASSUME TypeOK, [Next]_vars, ~MainStep, ~ConsumerStep
  PROVE  UNCHANGED Life!lifeVars
<1>1. restart' = restart /\ \A d \in Container : Untouched(d)
  BY RestSame DEF Untouched, MainHas, ConsumerHas, Handling
<1> QED
  BY <1>1, Stutters DEF Life!lifeVars, PhaseOf, Exits, ExitOf

(* Whatever the goroutines, crun and the reaper do, each container lives   *)
(* the life Lifecycle describes: launched once, each exit handled once, a  *)
(* relaunch only if the policy calls for it, nothing after its channel is  *)
(* closed.                                                                 *)
THEOREM SupervisorImplementsLifecycle == Spec => ImplementsLifecycle
<1>1. Init => Life!Init
  <2> SUFFICES ASSUME Init PROVE Life!Init
    OBVIOUS
  <2>1. restart \in [Container -> Policy] /\ states = {} /\ pc["consumer"] = "off"
    BY ConstantsAreSound DEF Init, Goroutine, Starter
  <2> QED
    BY <2>1 DEF Life!Init, Phase, Handling
<1>2. TypeOK /\ TypeOK' /\ OneHandler /\ Progress /\ [Next]_vars => [Life!Next]_Life!lifeVars
  BY MainRefines, ConsumerRefines, RestRefines
<1> QED
  BY <1>1, <1>2, SupervisorTypeCorrect, SupervisorHandlesOnce, SupervisorProgress, PTL
     DEF Spec, ImplementsLifecycle, Life!Spec
=============================================================================
