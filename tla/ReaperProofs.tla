---------------------------- MODULE ReaperProofs ----------------------------
(***************************************************************************)
(* Proofs about Reaper for every set of processes and statuses and every   *)
(* channel capacity: its type invariant, that a sleeping reaper leaves no  *)
(* unannounced zombie, and that it implements the safety of ReapService.   *)
(***************************************************************************)
EXTENDS Reaper, TLAPS

(* Every variable keeps its type.  The only conjuncts with content are the *)
(* bound of the signal channel, which Deliver's drop keeps, and that what  *)
(* is sent on the channel is a zombie's record.                            *)
THEOREM ReaperTypeCorrect == Spec => []TypeOK
<1>1. Init => TypeOK
  <2>1. 0 \in 0..SigCap
    BY CapsArePositive
  <2>2. <<>> \in Seq(Reaped)
    OBVIOUS
  <2> QED
    BY <2>1, <2>2 DEF Init, TypeOK
<1>2. TypeOK /\ [Next]_reaperVars => TypeOK'
  <2> SUFFICES ASSUME TypeOK, [Next]_reaperVars
               PROVE  TypeOK'
    OBVIOUS
  <2> USE CapsArePositive DEF TypeOK
  <2>1. CASE Subscribe \/ SelectDone \/ DrainEnd
    BY <2>1 DEF Subscribe, SelectDone, DrainEnd
  <2>2. CASE SelectSignal
    BY <2>2 DEF SelectSignal
  <2>3. CASE \E z \in zombies : Wait4(z)
    <3> PICK z \in zombies : Wait4(z)
      BY <2>3
    <3>1. z \in Reaped /\ z.pid \in Proc
      BY DEF Reaped
    <3>2. events' \in Seq(Reaped) /\ lost' \subseteq Proc
      BY <3>1 DEF Wait4
    <3> QED
      BY <3>2 DEF Wait4
  <2>4. CASE Deliver
    <3>1. sigCh' \in 0..SigCap
      <4>1. CASE sigCh' = sigCh
        BY <4>1
      <4>2. CASE sigCh < SigCap /\ sigCh' = sigCh + 1
        BY <4>2
      <4> QED
        BY <2>4, <4>1, <4>2 DEF Deliver
    <3> QED
      BY <2>4, <3>1 DEF Deliver
  <2>5. CASE Cancel
    BY <2>5 DEF Cancel
  <2>6. CASE Receive
    BY <2>6 DEF Receive
  <2>7. CASE \E z \in Reaped : Exit({z})
    BY <2>7 DEF Exit, Subscribed
  <2>8. CASE \E p \in Pids(zombies) : Collect(p)
    BY <2>8 DEF Collect
  <2>9. CASE UNCHANGED reaperVars
    BY <2>9 DEF reaperVars
  <2> QED
    BY <2>1, <2>2, <2>3, <2>4, <2>5, <2>6, <2>7, <2>8, <2>9 DEF Next, ReaperStep
<1> QED
  BY <1>1, <1>2, PTL DEF Spec

(* A zombie is never stranded behind a sleeping reaper.  It is inductive   *)
(* given the types: a drain ends only when no zombie is left, an exit      *)
(* after that raises SIGCHLD, the signal stays pending until it is in the  *)
(* channel or the channel already holds one, and taking one from the       *)
(* channel starts a drain.                                                 *)
THEOREM ReaperNeverStrandsZombie == Spec => []NoStrandedZombie
<1>1. Init => NoStrandedZombie
  BY DEF Init, NoStrandedZombie
<1>2. TypeOK /\ NoStrandedZombie /\ [Next]_reaperVars => NoStrandedZombie'
  <2> SUFFICES ASSUME TypeOK, NoStrandedZombie, [Next]_reaperVars
               PROVE  NoStrandedZombie'
    OBVIOUS
  <2> USE CapsArePositive DEF TypeOK, NoStrandedZombie
  <2>1. CASE ReaperStep
    BY <2>1 DEF ReaperStep, Subscribe, SelectSignal, SelectDone, Wait4, DrainEnd
  <2>2. CASE Deliver
    BY <2>2 DEF Deliver, Subscribed
  <2>3. CASE Cancel \/ Receive \/ UNCHANGED reaperVars
    BY <2>3 DEF Cancel, Receive, reaperVars
  <2>4. CASE \E z \in Reaped : Exit({z})
    BY <2>4 DEF Exit, Subscribed
  <2>5. CASE \E p \in Pids(zombies) : Collect(p)
    BY <2>5 DEF Collect
  <2> QED
    BY <2>1, <2>2, <2>3, <2>4, <2>5 DEF Next
<1> QED
  BY <1>1, <1>2, ReaperTypeCorrect, PTL DEF Spec

-----------------------------------------------------------------------------
(* The final drain follows a cancellation.                                 *)
FinalAfterCancel == reaper \in {"final", "exited"} => ctxDone

THEOREM ReaperStopsAfterCancel == Spec => []FinalAfterCancel
<1>1. Init => FinalAfterCancel
  BY DEF Init, FinalAfterCancel
<1>2. FinalAfterCancel /\ [Next]_reaperVars => FinalAfterCancel'
  BY DEF FinalAfterCancel, Next, ReaperStep, Subscribe, SelectSignal, SelectDone, Wait4, DrainEnd,
         Deliver, Cancel, Receive, Exit, Collect, reaperVars
<1> QED
  BY <1>1, <1>2, PTL DEF Spec

(* The safety part of ImplementsService: with its signals and its loop     *)
(* left out, the reaper is the service the supervisor is composed with.    *)
(* The steps of the loop itself and of the signals are stutters; leaving   *)
(* the final drain closes the channel, of a cancelled and clean reaper.    *)
ServiceSafety == Service!Init /\ [][Service!Next]_Service!serviceVars

THEOREM ReaperImplementsService == Spec => ServiceSafety
<1>1. Init => Service!Init
  BY DEF Init, Service!Init
<1>2. FinalAfterCancel /\ [Next]_reaperVars => [Service!Next]_Service!serviceVars
  <2> SUFFICES ASSUME FinalAfterCancel, [Next]_reaperVars
               PROVE  [Service!Next]_Service!serviceVars
    OBVIOUS
  <2>1. CASE Subscribe \/ SelectSignal \/ SelectDone \/ Deliver \/ UNCHANGED reaperVars
    BY <2>1 DEF Subscribe, SelectSignal, SelectDone, Deliver, reaperVars, Service!serviceVars
  <2>2. CASE DrainEnd
    BY <2>2 DEF DrainEnd, FinalAfterCancel, Service!serviceVars, Service!Next, Service!Close
  <2>3. CASE \E z \in zombies : Wait4(z)
    <3>1. PICK z \in zombies : Wait4(z)
      BY <2>3
    <3>2. Service!Wait4(z)
      BY <3>1 DEF Wait4, Service!Wait4
    <3> QED
      BY <3>2 DEF Service!Next
  <2>4. CASE Cancel \/ Receive
    BY <2>4 DEF Cancel, Receive, Service!Next, Service!Cancel, Service!Receive
  <2>5. CASE \E z \in Reaped : Exit({z})
    <3>1. PICK z \in Reaped : Exit({z})
      BY <2>5
    <3>2. Service!Exit({z}) /\ z \in Service!Reaped
      BY <3>1 DEF Exit, Service!Exit, Pids, Service!Pids, Reaped, Service!Reaped, Subscribed
    <3> QED
      BY <3>2 DEF Service!Next
  <2>6. CASE \E p \in Pids(zombies) : Collect(p)
    <3>1. PICK p \in Pids(zombies) : Collect(p)
      BY <2>6
    <3>2. p \in Service!Pids(zombies) /\ Service!Collect(p)
      BY <3>1 DEF Collect, Service!Collect, Pids, Service!Pids
    <3> QED
      BY <3>2 DEF Service!Next
  <2> QED
    BY <2>1, <2>2, <2>3, <2>4, <2>5, <2>6 DEF Next, ReaperStep
<1> QED
  BY <1>1, <1>2, ReaperStopsAfterCancel, PTL DEF Spec, ServiceSafety
=============================================================================
