-------------------------- MODULE ExperimentProofs --------------------------
(***************************************************************************)
(* Theorems about Experiment, for every value of its constants.            *)
(***************************************************************************)
EXTENDS Experiment, SequenceTheorems, TLAPS

-----------------------------------------------------------------------------
(* What appending a phase does to what the timeline says.                  *)

LEMMA AppendRecorded ==
  ASSUME timeline \in Seq(Phases), NEW p \in Phases, Record(p)
  PROVE  /\ timeline' \in Seq(Phases)
         /\ Recorded(p)'
         /\ \A q : Recorded(q)' <=> (Recorded(q) \/ q = p)
<1>1. timeline' = Append(timeline, p)
  BY DEF Record
<1>2. /\ timeline' \in Seq(Phases)
      /\ DOMAIN timeline = 1 .. Len(timeline)
      /\ DOMAIN timeline' = 1 .. (Len(timeline) + 1)
      /\ Len(timeline) \in Nat
      /\ \A i \in 1 .. Len(timeline) : timeline'[i] = timeline[i]
      /\ timeline'[Len(timeline) + 1] = p
  BY <1>1
<1>3. QED
  BY <1>2 DEF Recorded

LEMMA SameRecorded ==
  ASSUME timeline' = timeline
  PROVE  \A q : Recorded(q)' <=> Recorded(q)
BY DEF Recorded

-----------------------------------------------------------------------------
(* Type correctness.                                                       *)

LEMMA TypeInit == Init => TypeOK
<1> SUFFICES ASSUME Init PROVE TypeOK
  OBVIOUS
<1>1. pc \in [Threads -> Labels]
  BY DEF Init, Labels, StartLabels, TimerLabels, RecoverLabels
<1>2. <<>> \in Seq(Phases)
  OBVIOUS
<1>3. evidence \in [recovered : BOOLEAN, events : Seq(Phases)]
  BY <1>2 DEF Init, NoEvidence
<1>4. timeline \in Seq(Phases)
  BY <1>2 DEF Init
<1>5. up \in BOOLEAN /\ recovered \in BOOLEAN /\ armed \in BOOLEAN /\ effect \in BOOLEAN
  BY Zenon DEF Init
<1>6. duration \in Durations /\ fireIn \in Int /\ left \in Int
  BY DEF Init
<1>7. QED
  BY <1>1, <1>3, <1>4, <1>5, <1>6 DEF TypeOK

LEMMA RecoverType ==
  ASSUME TypeOK, NEW t \in Threads, Recover(t)
  PROVE  TypeOK'
<1> USE DEF TypeOK, Labels, RunLabels, TimerLabels, RollbackLabels, RecoverLabels,
            Goto, ReturnLabel
<1>1. CASE Claim(t)
  BY <1>1 DEF Claim
<1>2. CASE StopTimer(t)
  BY <1>2 DEF StopTimer, Threads
<1>3. CASE FaultRecover(t)
  BY <1>3 DEF FaultRecover
<1>4. CASE RecordRecover(t)
  BY <1>4, AppendRecorded DEF RecordRecover, Phases
<1>5. QED
  BY <1>1, <1>2, <1>3, <1>4 DEF Recover

LEMMA MainType ==
  ASSUME TypeOK, MainStep
  PROVE  TypeOK'
<1> USE DEF TypeOK, Labels, StartLabels, RunLabels, TimerLabels, Goto
<1>0. Main \in Threads /\ Timer \in Threads
  BY DEF Threads
<1>1. CASE Start
  BY <1>1, AppendRecorded DEF Start, Phases
<1>2. CASE CheckPasses
  BY <1>2, AppendRecorded DEF CheckPasses, Phases
<1>3. CASE StartFails
  BY <1>3, AppendRecorded DEF StartFails, Phases
<1>4. CASE Inject
  BY <1>4 DEF Inject
<1>5. CASE Injected
  BY <1>5, AppendRecorded DEF Injected, Phases
<1>6. CASE AfterFunc
  BY <1>6, <1>0, DurationsAssumption DEF AfterFunc
<1>7. CASE Store
  BY <1>7 DEF Store
<1>8. CASE Armed
  BY <1>8, AppendRecorded DEF Armed, Phases
<1>9. CASE SetDeadline
  <2>1. left' \in Int
    <3>1. duration \in Int /\ Grace \in Int /\ MaxDuration \in Int
      BY DurationsAssumption, TimesAssumption DEF TypeOK
    <3>2. Wrap(duration + Grace) \in Int
      BY <3>1 DEF Wrap
    <3>3. QED
      BY <1>9, <3>2 DEF SetDeadline
  <2>2. QED
    BY <1>9, <2>1, <1>0 DEF SetDeadline
<1>10. CASE LeaveLoop
  BY <1>10 DEF LeaveLoop, RecoverLabels
<1>11. CASE Recover(Main)
  BY <1>11, <1>0, RecoverType
<1>12. CASE Done
  BY <1>12, AppendRecorded DEF Done, Phases
<1>13. CASE Write
  <2>1. evidence' \in [recovered : BOOLEAN, events : Seq(Phases)]
    BY <1>13 DEF Write
  <2>2. QED
    BY <1>13, <2>1, <1>0 DEF Write
<1>14. CASE Exit
  BY <1>14 DEF Exit, Die
<1>15. QED
  BY <1>1, <1>2, <1>3, <1>4, <1>5, <1>6, <1>7, <1>8, <1>9, <1>10, <1>11, <1>12,
     <1>13, <1>14 DEF MainStep

LEMMA TypeStep == TypeOK /\ [Next]_vars => TypeOK'
<1> SUFFICES ASSUME TypeOK, [Next]_vars PROVE TypeOK'
  OBVIOUS
<1>0. Main \in Threads /\ Timer \in Threads /\ Callers \subseteq Threads
  BY DEF Threads
<1>1. CASE MainStep
  BY <1>1, MainType
<1>2. CASE Fire
  BY <1>2 DEF Fire, TypeOK, Goto, Labels, RecoverLabels
<1>3. CASE RecordAuto
  BY <1>3, AppendRecorded DEF RecordAuto, TypeOK, Goto, Labels, TimerLabels, Phases
<1>4. ASSUME NEW t \in Callers \union {Timer}, Recover(t) PROVE TypeOK'
  BY <1>4, <1>0, RecoverType
<1>5. CASE Tick
  BY <1>5 DEF Tick, TypeOK
<1>6. CASE Interrupt
  BY <1>6 DEF Interrupt, Die, TypeOK
<1>7. CASE UNCHANGED vars
  BY <1>7 DEF vars, TypeOK
<1>8. QED
  BY <1>1, <1>2, <1>3, <1>4, <1>5, <1>6, <1>7
     DEF Next, Step, TimerStep, Terminated

\* Every variable stays in its domain, for any callers, durations and bounds.
THEOREM TypeCorrect == Safety => []TypeOK
BY TypeInit, TypeStep, PTL DEF Safety

-----------------------------------------------------------------------------
(* Recover rolls back once, whoever calls it.                              *)

\* OneRollback is not inductive alone: a goroutine may only enter the rollback
\* because recovered is still unset, so recovered must cover every goroutine
\* that is in it and every one that has recorded it.
OneRollbackInv ==
  /\ OneRollback
  /\ \A t \in Threads : Rolling(t) => recovered
  /\ Recorded("recover") => recovered

\* A step that moves no goroutine into the rollback, leaves recovered
\* alone and does not record "recover" disturbs nothing.
LEMMA QuietStep ==
  ASSUME TypeOK, OneRollbackInv,
         \A t \in Threads : Rolling(t)' => Rolling(t),
         recovered' = recovered,
         \/ timeline' = timeline
         \/ \E p \in Phases \ {"recover"} : Record(p)
  PROVE  OneRollbackInv'
<1>1. CASE timeline' = timeline
  BY <1>1 DEF OneRollbackInv, OneRollback, Recorded
<1>2. ASSUME NEW p \in Phases \ {"recover"}, Record(p) PROVE OneRollbackInv'
  <2>1. timeline \in Seq(Phases) /\ timeline' = Append(timeline, p)
    BY <1>2 DEF TypeOK, Record
  <2>2. Recorded("recover")' <=> Recorded("recover")
    BY <1>2, <2>1, AppendRecorded
  <2>3. \A i, j \in DOMAIN timeline' :
          timeline'[i] = "recover" /\ timeline'[j] = "recover" => i = j
    BY <2>1, p # "recover" DEF OneRollbackInv, OneRollback
  <2>4. QED
    BY <2>2, <2>3 DEF OneRollbackInv, OneRollback
<1>3. QED
  BY <1>1, <1>2

LEMMA RecoverKeepsOne ==
  ASSUME TypeOK, OneRollbackInv, NEW t \in Threads, Recover(t)
  PROVE  OneRollbackInv'
<1>0. /\ pc \in [Threads -> Labels]
      /\ Timer \in Threads
      /\ ReturnLabel(t) \notin RollbackLabels
  BY DEF TypeOK, Threads, ReturnLabel, RollbackLabels
<1>1. CASE Claim(t)
  <2>1. CASE recovered
    BY <1>0, <1>1, <2>1, QuietStep DEF Claim, Goto, Rolling, RollbackLabels
  <2>2. CASE ~recovered
    <3>1. \A u \in Threads : ~Rolling(u)
      BY <2>2 DEF OneRollbackInv
    <3>2. \A u \in Threads : Rolling(u)' => u = t
      BY <1>0, <1>1, <3>1 DEF Claim, Goto, Rolling
    <3>3. ~Recorded("recover") /\ recovered' = TRUE /\ timeline' = timeline
      BY <1>1, <2>2 DEF Claim, OneRollbackInv
    <3>4. QED
      BY <3>2, <3>3 DEF OneRollbackInv, OneRollback, Recorded
  <2>3. QED
    BY <2>1, <2>2
<1>2. CASE StopTimer(t)
  <2>1. \A u \in Threads : Rolling(u)' => Rolling(u)
    BY <1>0, <1>2 DEF StopTimer, Rolling, RollbackLabels
  <2>2. QED
    BY <1>2, <2>1, QuietStep DEF StopTimer
<1>3. CASE FaultRecover(t)
  <2>1. \A u \in Threads : Rolling(u)' => Rolling(u)
    BY <1>0, <1>3 DEF FaultRecover, Goto, Rolling, RollbackLabels
  <2>2. QED
    BY <1>3, <2>1, QuietStep DEF FaultRecover
<1>4. CASE RecordRecover(t)
  <2>1. Rolling(t)
    BY <1>4 DEF RecordRecover, Rolling, RollbackLabels
  <2>2. recovered /\ ~Recorded("recover")
    BY <2>1 DEF OneRollbackInv, OneRollback
  <2>3. \A u \in Threads : ~Rolling(u)'
    BY <1>0, <1>4, <2>1 DEF RecordRecover, Goto, Rolling, OneRollbackInv, OneRollback
  <2>4. timeline \in Seq(Phases) /\ timeline' = Append(timeline, "recover")
    BY <1>4 DEF TypeOK, RecordRecover, Record
  <2>5. \A i, j \in DOMAIN timeline' :
          timeline'[i] = "recover" /\ timeline'[j] = "recover" => i = j
    BY <2>2, <2>4 DEF Recorded
  <2>6. QED
    BY <1>4, <2>2, <2>3, <2>5 DEF RecordRecover, OneRollbackInv, OneRollback
<1>5. QED
  BY <1>1, <1>2, <1>3, <1>4 DEF Recover

LEMMA MainKeepsOne ==
  ASSUME TypeOK, OneRollbackInv, MainStep
  PROVE  OneRollbackInv'
<1>0. pc \in [Threads -> Labels] /\ Main \in Threads /\ Timer \in Threads
  BY DEF TypeOK, Threads
<1>1. CASE Recover(Main)
  BY <1>0, <1>1, RecoverKeepsOne
<1>2. CASE ~Recover(Main)
  <2>1. \A t \in Threads : Rolling(t)' => Rolling(t)
    <3>1. CASE AfterFunc
      BY <1>0, <3>1 DEF AfterFunc, Rolling, RollbackLabels
    <3>2. CASE Exit
      BY <3>2 DEF Exit, Die, Rolling
    <3>3. CASE ~AfterFunc /\ ~Exit
      <4>1. pc[Main] \notin RollbackLabels /\ \E l \in Labels \ RollbackLabels : Goto(Main, l)
        BY <1>2, <3>3 DEF MainStep, Start, CheckPasses, StartFails, Inject, Injected,
           Store, Armed, SetDeadline, LeaveLoop, Done, Write,
           Labels, StartLabels, RunLabels, RecoverLabels, RollbackLabels
      <4>2. QED
        BY <1>0, <4>1 DEF Goto, Rolling
    <3>4. QED
      BY <3>1, <3>2, <3>3
  <2>2. recovered' = recovered
    BY <1>2 DEF MainStep, Start, CheckPasses, StartFails, Inject, Injected,
       AfterFunc, Store, Armed, SetDeadline, LeaveLoop, Done, Write, Exit, Die
  <2>3. \/ timeline' = timeline
        \/ \E p \in {"start", "check", "error", "inject", "armed", "done"} : Record(p)
    BY <1>2 DEF MainStep, Start, CheckPasses, StartFails, Inject, Injected,
       AfterFunc, Store, Armed, SetDeadline, LeaveLoop, Done, Write, Exit, Die
  <2>4. QED
    BY <2>1, <2>2, <2>3, QuietStep DEF Phases
<1>3. QED
  BY <1>1, <1>2

LEMMA OneRollbackStep ==
  TypeOK /\ OneRollbackInv /\ [Next]_vars => OneRollbackInv'
<1> SUFFICES ASSUME TypeOK, OneRollbackInv, [Next]_vars PROVE OneRollbackInv'
  OBVIOUS
<1>0. /\ pc \in [Threads -> Labels]
      /\ Timer \in Threads /\ Callers \subseteq Threads
  BY DEF TypeOK, Threads
<1>1. CASE MainStep
  BY <1>1, MainKeepsOne
<1>2. CASE Fire
  BY <1>0, <1>2, QuietStep DEF Fire, Goto, Rolling, RollbackLabels
<1>3. CASE RecordAuto
  <2>1. \A t \in Threads : Rolling(t)' => Rolling(t)
    BY <1>0, <1>3 DEF RecordAuto, Goto, Rolling, RollbackLabels
  <2>2. \E p \in Phases \ {"recover"} : Record(p)
    BY <1>3 DEF RecordAuto, Phases
  <2>3. QED
    BY <1>3, <2>1, <2>2, QuietStep DEF RecordAuto
<1>4. ASSUME NEW t \in Callers \union {Timer}, Recover(t) PROVE OneRollbackInv'
  BY <1>0, <1>4, RecoverKeepsOne
<1>5. CASE Tick
  BY <1>5, QuietStep DEF Tick, Rolling
<1>6. CASE Interrupt
  BY <1>6, QuietStep DEF Interrupt, Die, Rolling
<1>7. CASE UNCHANGED vars
  BY <1>7, QuietStep DEF vars, Rolling
<1>8. QED
  BY <1>1, <1>2, <1>3, <1>4, <1>5, <1>6, <1>7
     DEF Next, Step, TimerStep, Terminated

LEMMA OneRollbackInit == Init => OneRollbackInv
BY DEF Init, OneRollbackInv, OneRollback, Rolling, RollbackLabels, Recorded

\* Whatever goroutines call Recover, however slow the rollback is and whether
\* or not it fails: one of them rolls back, and it is recorded once.
THEOREM RollsBackOnce == Safety => []OneRollback
<1>1. Init => OneRollbackInv
  BY OneRollbackInit
<1>2. OneRollbackInv => OneRollback
  BY DEF OneRollbackInv
<1>3. QED
  BY <1>1, <1>2, OneRollbackStep, TypeCorrect, PTL DEF Safety
-----------------------------------------------------------------------------
(* Run confirms the rollback, as long as autoRecover finishes within the   *)
(* safety bound.                                                           *)

BeforeTimer == {"start", "check", "inject", "injected", "arm", "failed"}
AfterRollback == {"record", "auto", "over"}

\* With no explicit caller the timer goroutine always wins the test-and-set.
\* The last conjuncts carry the argument about time: main's deadline is never
\* closer than the timer's expiry plus Grace, and the timer goroutine is never
\* later than its expiry plus Lateness, so main cannot pass the first before the
\* timer goroutine has finished.
ConfirmInv ==
  /\ pc[Main] \in StartLabels \union RunLabels \union {"claim"}
  /\ pc[Timer] \in {"idle", "waiting", "auto", "over"} \union RecoverLabels
  /\ pc[Timer] = "idle" <=> pc[Main] \in BeforeTimer
  /\ recovered <=> pc[Timer] \in RollbackLabels \union AfterRollback
  /\ pc[Timer] \in AfterRollback => ~effect
  /\ Recorded("auto") => pc[Timer] = "over"
  /\ pc[Main] \in {"claim", "done", "write", "exit"} => pc[Timer] = "over"
  /\ Recorded("done") => pc[Main] \in {"write", "exit"}
  /\ TimerPending => -Lateness <= fireIn /\ fireIn <= duration
  /\ pc[Main] = "poll" /\ TimerPending => fireIn + Grace <= left
\* The regime of the command line in which the promise is kept.
BoundFits == \A d \in Durations : d + Grace <= MaxDuration
InBudget ==
  /\ BoundFits
  /\ Callers = {}
  /\ Fallible = FALSE
  /\ Lateness <= Grace
  /\ Durations \subseteq Nat

LEMMA BoundSum ==
  ASSUME BoundFits, TypeOK
  PROVE  Wrap(duration + Grace) = duration + Grace
<1>1. /\ duration + Grace <= MaxDuration
      /\ duration \in Int /\ Grace \in Int /\ MaxDuration \in Int
  BY DurationsAssumption, TimesAssumption DEF BoundFits, TypeOK
<1>2. QED
  BY <1>1 DEF Wrap

LEMMA ConfirmInit == Init => ConfirmInv
BY DEF Init, ConfirmInv, BeforeTimer, AfterRollback, StartLabels, TimerPending,
       RollbackLabels, RecoverLabels, Recorded, Threads, Main, Timer

\* The steps of main before the timer exists, and until it polls.
LEMMA StartConfirm ==
  ASSUME InBudget, TypeOK, ConfirmInv,
         \/ Start \/ CheckPasses \/ StartFails \/ Inject \/ Injected
         \/ AfterFunc \/ Store \/ Armed \/ SetDeadline
  PROVE  ConfirmInv'
<1> USE DEF ConfirmInv, BeforeTimer, AfterRollback, StartLabels, RunLabels,
            TimerPending, RollbackLabels, RecoverLabels, Goto, Main, Timer
<1>0. /\ pc \in [Threads -> Labels] /\ Main \in Threads /\ Timer \in Threads
      /\ timeline \in Seq(Phases)
      /\ fireIn \in Int /\ left \in Int /\ duration \in Nat
      /\ Grace \in Nat /\ Lateness \in Nat
  BY TimesAssumption DEF TypeOK, Threads, InBudget
<1>1. CASE Start
  BY <1>0, <1>1, AppendRecorded DEF Start, Phases
<1>2. CASE CheckPasses
  BY <1>0, <1>2, AppendRecorded DEF CheckPasses, Phases
<1>3. CASE StartFails
  BY <1>0, <1>3, AppendRecorded DEF StartFails, Phases
<1>4. CASE Inject
  BY <1>0, <1>4, SameRecorded DEF Inject
<1>5. CASE Injected
  BY <1>0, <1>5, AppendRecorded DEF Injected, Phases
<1>6. CASE AfterFunc
  BY <1>0, <1>6, SameRecorded DEF AfterFunc
<1>7. CASE Store
  BY <1>0, <1>7, SameRecorded DEF Store
<1>8. CASE Armed
  BY <1>0, <1>8, AppendRecorded DEF Armed, Phases
<1>9. CASE SetDeadline
  <2>1. left' = duration + Grace
    BY <1>9, BoundSum DEF SetDeadline, InBudget
  <2>2. QED
    BY <1>0, <1>9, <2>1, SameRecorded DEF SetDeadline
<1>10. QED
  BY <1>1, <1>2, <1>3, <1>4, <1>5, <1>6, <1>7, <1>8, <1>9

\* Main leaves its loop only when the timer goroutine is over: either it has
\* seen "auto", or its deadline has passed and so has the timer's.
LEMMA LeaveConfirm ==
  ASSUME InBudget, TypeOK, ConfirmInv, LeaveLoop
  PROVE  pc[Timer] = "over"
<1>1. CASE PollDone
  BY <1>1 DEF PollDone, ConfirmInv
<1>2. CASE left < 0
  <2>1. ~TimerPending
    BY <1>2, TimesAssumption DEF LeaveLoop, ConfirmInv, InBudget, TypeOK
  <2>2. pc[Timer] # "idle"
    BY DEF LeaveLoop, ConfirmInv, BeforeTimer
  <2>3. QED
    BY <2>1, <2>2 DEF TimerPending, ConfirmInv
<1>3. QED
  BY <1>1, <1>2 DEF LeaveLoop

\* The steps of main from the loop on; its own Recover finds recovered set.
LEMMA EndConfirm ==
  ASSUME InBudget, TypeOK, ConfirmInv,
         LeaveLoop \/ Recover(Main) \/ Done \/ Write \/ Exit
  PROVE  ConfirmInv'
<1> USE DEF ConfirmInv, BeforeTimer, AfterRollback, StartLabels, RunLabels,
            TimerPending, RollbackLabels, RecoverLabels, Goto, Main, Timer
<1>0. /\ pc \in [Threads -> Labels] /\ Main \in Threads /\ Timer \in Threads
      /\ timeline \in Seq(Phases)
  BY DEF TypeOK, Threads
<1>1. CASE LeaveLoop
  BY <1>0, <1>1, LeaveConfirm, SameRecorded DEF LeaveLoop
<1>2. CASE Recover(Main)
  <2>1. Claim(Main) /\ recovered
    BY <1>2 DEF Recover, Claim, StopTimer, FaultRecover, RecordRecover
  <2>2. QED
    BY <1>0, <2>1, SameRecorded DEF Claim, ReturnLabel
<1>3. CASE Done
  BY <1>0, <1>3, AppendRecorded DEF Done, Phases
<1>4. CASE Write
  BY <1>0, <1>4, SameRecorded DEF Write
<1>5. CASE Exit
  BY <1>0, <1>5, SameRecorded DEF Exit, Die
<1>6. QED
  BY <1>1, <1>2, <1>3, <1>4, <1>5

\* The timer goroutine: it claims, rolls back and records without competition.
LEMMA TimerConfirm ==
  ASSUME InBudget, TypeOK, ConfirmInv, TimerStep
  PROVE  ConfirmInv'
<1> USE DEF ConfirmInv, BeforeTimer, AfterRollback, StartLabels, RunLabels,
            TimerPending, RollbackLabels, RecoverLabels, Goto, Main, Timer
<1>0. /\ pc \in [Threads -> Labels] /\ Main \in Threads /\ Timer \in Threads
      /\ timeline \in Seq(Phases)
  BY DEF TypeOK, Threads
<1>1. CASE Fire
  BY <1>0, <1>1, SameRecorded DEF Fire
<1>2. CASE Claim(Timer)
  BY <1>0, <1>2, SameRecorded DEF Claim, ReturnLabel
<1>3. CASE StopTimer(Timer)
  BY <1>0, <1>3, SameRecorded DEF StopTimer
<1>4. CASE FaultRecover(Timer)
  BY <1>0, <1>4, SameRecorded DEF FaultRecover, InBudget
<1>5. CASE RecordRecover(Timer)
  BY <1>0, <1>5, AppendRecorded DEF RecordRecover, ReturnLabel, Phases
<1>6. CASE RecordAuto
  BY <1>0, <1>6, AppendRecorded DEF RecordAuto, Phases
<1>7. QED
  BY <1>1, <1>2, <1>3, <1>4, <1>5, <1>6 DEF TimerStep, Recover

LEMMA ConfirmStep ==
  ASSUME InBudget, TypeOK, ConfirmInv, [Next]_vars
  PROVE  ConfirmInv'
<1>1. CASE MainStep
  BY <1>1, StartConfirm, EndConfirm DEF MainStep
<1>2. CASE TimerStep
  BY <1>2, TimerConfirm
<1>3. CASE Tick
  BY <1>3, SameRecorded, TimesAssumption
     DEF Tick, Polling, ConfirmInv, TimerPending, TypeOK, InBudget
<1>4. CASE Interrupt
  BY <1>4, SameRecorded DEF Interrupt, Die, ConfirmInv, TimerPending
<1>5. CASE UNCHANGED vars
  BY <1>5, SameRecorded DEF vars, ConfirmInv, TimerPending
<1>6. QED
  BY <1>1, <1>2, <1>3, <1>4, <1>5 DEF Next, Step, Terminated, InBudget

\* On the command line, with durations that are not negative and a rollback that
\* succeeds within the safety bound, "done" means that no fault is active: for
\* every such duration, bound and lateness, and also when signals may come.
THEOREM ConfirmsRollback ==
  ASSUME InBudget
  PROVE  Safety => []RunConfirmsRollback
<1>1. ConfirmInv => RunConfirmsRollback
  BY DEF ConfirmInv, RunConfirmsRollback, AfterRollback
<1>2. TypeOK /\ ConfirmInv /\ [Next]_vars => ConfirmInv'
  BY ConfirmStep
<1>3. QED
  BY <1>1, <1>2, ConfirmInit, TypeCorrect, PTL DEF Safety

-----------------------------------------------------------------------------
(* The observation window, without a word about how late anybody is.       *)

\* Before main has armed the timer nobody else does anything.
OrderInv ==
  /\ pc[Main] \in StartLabels \union RunLabels \union RecoverLabels
  /\ pc[Main] \in BeforeTimer => pc[Timer] = "idle" /\ ~recovered

\* The deadline of the main goroutine is never closer than the expiry of the
\* timer, as both count down together; past expiry it does not matter.
WindowInv ==
  /\ OrderInv
  /\ pc[Timer] # "waiting" => fireIn <= 0
  /\ recovered => fireIn <= 0
  /\ pc[Main] \in RecoverLabels \union {"done", "write", "exit"} => fireIn <= 0
  /\ pc[Main] \in {"store", "armed", "deadline"} => fireIn <= 0 \/ fireIn <= duration
  /\ pc[Main] = "poll" => fireIn <= 0 \/ fireIn + Grace <= left

LEMMA OrderStep ==
  ASSUME Callers = {}, TypeOK, OrderInv, [Next]_vars
  PROVE  OrderInv'
<1> USE DEF OrderInv, StartLabels, RunLabels, RollbackLabels, RecoverLabels, BeforeTimer,
            Goto, Main, Timer
<1>0. pc \in [Threads -> Labels] /\ Main \in Threads /\ Timer \in Threads
  BY DEF TypeOK, Threads
<1>1. CASE Start \/ CheckPasses \/ StartFails \/ Inject \/ Injected \/ Store \/ Armed
  BY <1>0, <1>1 DEF Start, CheckPasses, StartFails, Inject, Injected, Store, Armed
<1>2. CASE AfterFunc \/ SetDeadline \/ LeaveLoop \/ Done \/ Write
  BY <1>0, <1>2 DEF AfterFunc, SetDeadline, LeaveLoop, Done, Write
<1>3. ASSUME NEW t \in {Main, Timer}, Recover(t) PROVE OrderInv'
  BY <1>0, <1>3
     DEF Recover, Claim, StopTimer, FaultRecover, RecordRecover, ReturnLabel
<1>4. CASE Fire \/ RecordAuto
  BY <1>0, <1>4 DEF Fire, RecordAuto
<1>5. CASE Tick \/ Exit \/ Interrupt
  BY <1>5 DEF Tick, Exit, Interrupt, Die
<1>6. CASE UNCHANGED vars
  BY <1>6 DEF vars
<1>7. QED
  BY <1>1, <1>2, <1>3, <1>4, <1>5, <1>6
     DEF Next, Step, MainStep, TimerStep, Terminated

LEMMA WindowInit == Init => WindowInv
BY DEF Init, WindowInv, OrderInv, StartLabels, RecoverLabels, BeforeTimer, Threads, Main, Timer

LEMMA WindowMain ==
  ASSUME BoundFits, TypeOK, WindowInv, MainStep
  PROVE  WindowInv'
<1> USE DEF WindowInv, OrderInv, StartLabels, RunLabels, RollbackLabels, RecoverLabels, BeforeTimer,
            Goto, Main, Timer
<1>0. /\ pc \in [Threads -> Labels] /\ Main \in Threads /\ Timer \in Threads
      /\ fireIn \in Int /\ left \in Int /\ duration \in Int
      /\ Grace \in Nat
  BY TimesAssumption, DurationsAssumption DEF TypeOK, Threads
<1>1. CASE Start \/ CheckPasses \/ StartFails \/ Inject \/ Injected \/ Store \/ Armed
  BY <1>0, <1>1 DEF Start, CheckPasses, StartFails, Inject, Injected, Store, Armed
<1>2. CASE AfterFunc
  BY <1>0, <1>2 DEF AfterFunc
<1>3. CASE SetDeadline
  BY <1>0, <1>3, BoundSum DEF SetDeadline
<1>4. CASE LeaveLoop
  BY <1>0, <1>4 DEF LeaveLoop, PollDone
<1>5. CASE Claim(Main) \/ StopTimer(Main) \/ FaultRecover(Main) \/ RecordRecover(Main)
  BY <1>0, <1>5 DEF Claim, StopTimer, FaultRecover, RecordRecover, ReturnLabel
<1>6. CASE Done \/ Write
  BY <1>0, <1>6 DEF Done, Write
<1>7. CASE Exit
  BY <1>7 DEF Exit, Die
<1>8. QED
  BY <1>1, <1>2, <1>3, <1>4, <1>5, <1>6, <1>7 DEF MainStep, Recover

LEMMA WindowStep ==
  ASSUME Callers = {}, BoundFits, TypeOK, WindowInv, [Next]_vars
  PROVE  WindowInv'
<1>0. /\ pc \in [Threads -> Labels] /\ Main \in Threads /\ Timer \in Threads
      /\ fireIn \in Int /\ left \in Int /\ duration \in Int
      /\ Grace \in Nat
  BY TimesAssumption, DurationsAssumption DEF TypeOK, Threads
<1>1. CASE MainStep
  BY <1>1, WindowMain
<1>2. CASE TimerStep
  <2> USE DEF WindowInv, OrderInv, BeforeTimer, Goto, Main, Timer
  <2>1. CASE Fire \/ RecordAuto
    BY <1>0, <2>1 DEF Fire, RecordAuto
  <2>2. CASE Claim(Timer) \/ StopTimer(Timer)
    BY <1>0, <2>2 DEF Claim, StopTimer, ReturnLabel
  <2>3. CASE FaultRecover(Timer) \/ RecordRecover(Timer)
    BY <1>0, <2>3 DEF FaultRecover, RecordRecover, ReturnLabel
  <2>4. QED
    BY <1>2, <2>1, <2>2, <2>3 DEF TimerStep, Recover
<1>3. CASE Tick
  BY <1>0, <1>3 DEF Tick, Polling, TimerPending, RecoverLabels, WindowInv, OrderInv
<1>4. CASE Interrupt
  BY <1>4 DEF Interrupt, Die, WindowInv, OrderInv
<1>5. CASE UNCHANGED vars
  BY <1>5 DEF vars, WindowInv, OrderInv
<1>6. QED
  BY <1>1, <1>2, <1>3, <1>4, <1>5 DEF Next, Step, Terminated

\* With no explicit caller the fault stays for as long as it was asked to, for
\* any duration whose bound is a time.Duration too, however late the timer goroutine
\* is and whether or not the rollback fits into the safety bound.
THEOREM KeepsWindow ==
  ASSUME Callers = {}, BoundFits
  PROVE  Safety => []WindowKept
<1>1. WindowInv => WindowKept
  BY DEF WindowInv, WindowKept
<1>2. TypeOK /\ WindowInv /\ [Next]_vars => WindowInv'
  BY WindowStep
<1>3. QED
  BY <1>1, <1>2, WindowInit, TypeCorrect, PTL DEF Safety

-----------------------------------------------------------------------------
(* A start that fails leaves nothing behind.                               *)

\* As long as main has not injected, nothing is active, armed or recorded as
\* injected; "error" is on the timeline of a failed start and of no other.
InertInv ==
  /\ pc[Main] \in NotInjected => ~effect /\ ~armed /\ ~Recorded("inject")
  /\ Recorded("error") <=> pc[Main] = "failed"

LEMMA InertInit == Init => InertInv
BY DEF Init, InertInv, NotInjected, Recorded, Threads, Main, Timer

LEMMA InertMain ==
  ASSUME TypeOK, InertInv, MainStep
  PROVE  InertInv'
<1> USE DEF InertInv, NotInjected, Goto, Main, Timer
<1>0. /\ pc \in [Threads -> Labels] /\ Main \in Threads /\ Timer \in Threads
      /\ timeline \in Seq(Phases)
  BY DEF TypeOK, Threads
<1>1. CASE Start \/ CheckPasses \/ StartFails \/ Injected \/ Armed \/ Done
  BY <1>0, <1>1, AppendRecorded
     DEF Start, CheckPasses, StartFails, Injected, Armed, Done, Phases
<1>2. CASE Inject \/ AfterFunc \/ Store \/ SetDeadline \/ LeaveLoop \/ Write
  BY <1>0, <1>2, SameRecorded DEF Inject, AfterFunc, Store, SetDeadline, LeaveLoop, Write
<1>3. CASE Claim(Main) \/ StopTimer(Main) \/ FaultRecover(Main)
  BY <1>0, <1>3, SameRecorded DEF Claim, StopTimer, FaultRecover, ReturnLabel
<1>4. CASE RecordRecover(Main)
  BY <1>0, <1>4, AppendRecorded DEF RecordRecover, ReturnLabel, Phases
<1>5. CASE Exit
  BY <1>0, <1>5, SameRecorded DEF Exit, Die
<1>6. QED
  BY <1>1, <1>2, <1>3, <1>4, <1>5 DEF MainStep, Recover

LEMMA InertStep ==
  ASSUME Callers = {}, TypeOK, pc[Main] \in BeforeTimer => pc[Timer] = "idle",
         InertInv, [Next]_vars
  PROVE  InertInv'
<1>0. /\ pc \in [Threads -> Labels] /\ Main \in Threads /\ Timer \in Threads
      /\ timeline \in Seq(Phases)
  BY DEF TypeOK, Threads
<1>1. CASE MainStep
  BY <1>1, InertMain
<1>2. CASE TimerStep
  <2>1. pc[Timer] # "idle"
    BY <1>2 DEF TimerStep, Recover, Fire, RecordAuto, Claim, StopTimer, FaultRecover,
       RecordRecover
  <2>2. pc[Main] \notin NotInjected /\ pc'[Main] = pc[Main]
    BY <1>0, <1>2, <2>1 DEF BeforeTimer, NotInjected, TimerStep, Recover, Fire, RecordAuto,
       Claim, StopTimer, FaultRecover, RecordRecover, Goto, Main, Timer
  <2>3. Recorded("error")' <=> Recorded("error")
    BY <1>0, <1>2, AppendRecorded, SameRecorded DEF TimerStep, Recover, Fire, RecordAuto,
       Claim, StopTimer, FaultRecover, RecordRecover, Phases
  <2>4. QED
    BY <2>2, <2>3 DEF InertInv
<1>3. CASE Tick
  BY <1>3, SameRecorded DEF Tick, InertInv
<1>4. CASE Interrupt
  BY <1>4, SameRecorded DEF Interrupt, Die, InertInv
<1>5. CASE UNCHANGED vars
  BY <1>5, SameRecorded DEF vars, InertInv
<1>6. QED
  BY <1>1, <1>2, <1>3, <1>4, <1>5 DEF Next, Step, Terminated

\* With no explicit caller, a check or an injection that fails has armed and
\* rolled back nothing, for any duration, bound and lateness.
THEOREM FailsInert ==
  ASSUME Callers = {}
  PROVE  Safety => []FailedStartIsInert
<1>1. OrderInv => (pc[Main] \in BeforeTimer => pc[Timer] = "idle")
  BY DEF OrderInv
<1>2. TypeOK /\ OrderInv /\ [Next]_vars => OrderInv'
  BY OrderStep
<1>3. TypeOK /\ OrderInv /\ InertInv /\ [Next]_vars => InertInv'
  BY <1>1, InertStep
<1>4. Init => OneRollbackInv
  BY OneRollbackInit
<1>5. OrderInv /\ OneRollbackInv /\ InertInv => FailedStartIsInert
  BY DEF OrderInv, OneRollbackInv, InertInv, FailedStartIsInert, NotInjected, BeforeTimer
<1>6. Init => OrderInv
  BY WindowInit DEF WindowInv
<1>7. QED
  BY <1>2, <1>3, <1>4, <1>5, <1>6, InertInit, OneRollbackStep, TypeCorrect, PTL
     DEF Safety

-----------------------------------------------------------------------------
(* The timeline, word for word.                                            *)

\* The first n phases of the lifecycle, "armed" not among them yet.
Unarmed(n) == [i \in 1 .. n |-> Lifecycle[i]]

\* How many phases of the lifecycle are over, read off the program counters.
PhasesOver ==
  CASE pc[Main] = "start" -> 0
    [] pc[Main] = "check" -> 1
    [] pc[Main] \in {"inject", "injected"} -> 2
    [] pc[Main] \in {"write", "exit"} -> 6
    [] OTHER -> 3 + (CASE pc[Timer] = "over" -> 2 [] pc[Timer] = "auto" -> 1 [] OTHER -> 0)

BeforeArmed == pc[Main] \in BeforeTimer \union {"store", "armed"}

\* The pcs determine the timeline, except for where "armed" stands in it.
TimelineInv ==
  pc[Main] # "failed" =>
    IF BeforeArmed
    THEN timeline = Unarmed(PhasesOver)
    ELSE \E k \in 4 .. 6 : k <= PhasesOver + 1 /\ timeline = ArmedAsPhase(k, PhasesOver + 1)

\* What is written is what the timeline says once main has recorded "done".
EvidenceInv == TimelineInv /\ EvidenceComplete

LEMMA UnarmedSeq ==
  ASSUME NEW n \in 0 .. 6
  PROVE  Unarmed(n) \in Seq(Phases) /\ Len(Unarmed(n)) = n
<1>1. \A i \in 1 .. n : Lifecycle[i] \in Phases
  BY DEF Lifecycle, Phases
<1>2. QED
  BY <1>1 DEF Unarmed

LEMMA ArmedAsPhaseSeq ==
  ASSUME NEW n \in 1 .. 7, NEW k \in 1 .. n
  PROVE  ArmedAsPhase(k, n) \in Seq(Phases) /\ Len(ArmedAsPhase(k, n)) = n
<1>1. \A i \in 1 .. n : (IF i = k THEN "armed" ELSE Lifecycle[IF i < k THEN i ELSE i - 1]) \in Phases
  BY DEF Lifecycle, Phases
<1>2. QED
  BY <1>1 DEF ArmedAsPhase

\* A sequence that has one more element than another, and the same before it.
LEMMA OneMore ==
  ASSUME NEW s \in Seq(Phases), NEW p \in Phases, NEW t \in Seq(Phases),
         Len(t) = Len(s) + 1, \A i \in 1 .. Len(s) : t[i] = s[i], t[Len(s) + 1] = p
  PROVE  Append(s, p) = t
<1>1. /\ Append(s, p) \in Seq(Phases) /\ Len(Append(s, p)) = Len(s) + 1
      /\ \A i \in 1 .. Len(s) : Append(s, p)[i] = s[i]
      /\ Append(s, p)[Len(s) + 1] = p
  BY AppendProperties
<1>2. \A i \in 1 .. Len(t) : Append(s, p)[i] = t[i]
  BY <1>1
<1>3. QED
  BY <1>1, <1>2, SeqEqual

\* One more phase of the lifecycle, before and after "armed", and "armed" itself.
LEMMA UnarmedAppend ==
  ASSUME NEW n \in 0 .. 5
  PROVE  Append(Unarmed(n), Lifecycle[n + 1]) = Unarmed(n + 1)
<1>0. n \in 0 .. 6 /\ n + 1 \in 0 .. 6
  OBVIOUS
<1>1. /\ Unarmed(n) \in Seq(Phases) /\ Len(Unarmed(n)) = n
      /\ Unarmed(n + 1) \in Seq(Phases) /\ Len(Unarmed(n + 1)) = n + 1
  BY <1>0, UnarmedSeq
<1>2. Lifecycle[n + 1] \in Phases
  BY DEF Lifecycle, Phases
<1>3. /\ \A i \in 1 .. n : Unarmed(n + 1)[i] = Unarmed(n)[i]
      /\ Unarmed(n + 1)[n + 1] = Lifecycle[n + 1]
  BY DEF Unarmed
<1>4. QED
  BY <1>1, <1>2, <1>3, OneMore

LEMMA ArmedAppend ==
  ASSUME NEW n \in 0 .. 5
  PROVE  Append(Unarmed(n), "armed") = ArmedAsPhase(n + 1, n + 1)
<1>0. n \in 0 .. 6 /\ n + 1 \in 1 .. 7 /\ n + 1 \in 1 .. n + 1
  OBVIOUS
<1>1. /\ Unarmed(n) \in Seq(Phases) /\ Len(Unarmed(n)) = n
      /\ ArmedAsPhase(n + 1, n + 1) \in Seq(Phases) /\ Len(ArmedAsPhase(n + 1, n + 1)) = n + 1
  BY <1>0, UnarmedSeq, ArmedAsPhaseSeq
<1>2. "armed" \in Phases
  BY DEF Phases
<1>3. /\ \A i \in 1 .. n : ArmedAsPhase(n + 1, n + 1)[i] = Unarmed(n)[i]
      /\ ArmedAsPhase(n + 1, n + 1)[n + 1] = "armed"
  BY DEF Unarmed, ArmedAsPhase
<1>4. QED
  BY <1>1, <1>2, <1>3, OneMore

LEMMA ArmedAsPhaseAppend ==
  ASSUME NEW n \in 0 .. 5, NEW k \in 1 .. n + 1
  PROVE  Append(ArmedAsPhase(k, n + 1), Lifecycle[n + 1]) = ArmedAsPhase(k, n + 2)
<1>0. n + 1 \in 1 .. 7 /\ n + 2 \in 1 .. 7 /\ k \in 1 .. n + 2
  OBVIOUS
<1>1. /\ ArmedAsPhase(k, n + 1) \in Seq(Phases) /\ Len(ArmedAsPhase(k, n + 1)) = n + 1
      /\ ArmedAsPhase(k, n + 2) \in Seq(Phases) /\ Len(ArmedAsPhase(k, n + 2)) = n + 2
  BY <1>0, ArmedAsPhaseSeq
<1>2. Lifecycle[n + 1] \in Phases
  BY DEF Lifecycle, Phases
<1>3. /\ \A i \in 1 .. n + 1 : ArmedAsPhase(k, n + 2)[i] = ArmedAsPhase(k, n + 1)[i]
      /\ ArmedAsPhase(k, n + 2)[n + 2] = Lifecycle[n + 1]
  BY DEF ArmedAsPhase
<1>4. QED
  BY <1>1, <1>2, <1>3, OneMore

\* A step that records nothing, and one that records the phase that is due.
LEMMA TimelineSame ==
  ASSUME EvidenceInv, timeline' = timeline, evidence' = evidence,
         pc'[Main] # "failed" => pc[Main] # "failed",
         PhasesOver' = PhasesOver, BeforeArmed' <=> BeforeArmed
  PROVE  EvidenceInv'
BY DEF EvidenceInv, TimelineInv, EvidenceComplete

LEMMA TimelineAdvances ==
  ASSUME EvidenceInv, evidence' = evidence,
         pc[Main] # "failed", PhasesOver \in 0 .. 5, Record(Lifecycle[PhasesOver + 1]),
         PhasesOver' = PhasesOver + 1, BeforeArmed' <=> BeforeArmed
  PROVE  EvidenceInv'
<1>1. EvidenceComplete'
  BY DEF EvidenceInv, EvidenceComplete
<1>2. CASE BeforeArmed
  <2>1. timeline = Unarmed(PhasesOver)
    BY <1>2 DEF EvidenceInv, TimelineInv
  <2>2. timeline' = Unarmed(PhasesOver + 1)
    BY <2>1, UnarmedAppend DEF Record
  <2>3. QED
    BY <1>1, <1>2, <2>2 DEF TimelineInv, EvidenceInv
<1>3. CASE ~BeforeArmed
  <2>1. PICK k \in 4 .. 6 :
          k <= PhasesOver + 1 /\ timeline = ArmedAsPhase(k, PhasesOver + 1)
    BY <1>3 DEF EvidenceInv, TimelineInv
  <2>2. k \in 1 .. PhasesOver + 1 /\ k <= PhasesOver' + 1
    BY <2>1
  <2>3. timeline' = ArmedAsPhase(k, PhasesOver + 2)
    BY <2>1, <2>2, ArmedAsPhaseAppend DEF Record
  <2>4. PhasesOver + 2 = PhasesOver' + 1
    OBVIOUS
  <2>5. QED
    BY <1>1, <1>3, <2>2, <2>3, <2>4 DEF TimelineInv, EvidenceInv
<1>4. QED
  BY <1>1, <1>2, <1>3 DEF EvidenceInv

LEMMA EvidenceMain ==
  ASSUME InBudget, TypeOK, ConfirmInv, EvidenceInv, MainStep
  PROVE  EvidenceInv'
<1> USE DEF PhasesOver, BeforeArmed, BeforeTimer, Goto, Main, Timer
<1>0. pc \in [Threads -> Labels] /\ Main \in Threads /\ Timer \in Threads
  BY DEF TypeOK, Threads
<1>1. CASE Start \/ CheckPasses \/ Injected
  <2>1. /\ pc[Main] # "failed" /\ PhasesOver \in 0 .. 5 /\ PhasesOver' = PhasesOver + 1
        /\ BeforeArmed /\ BeforeArmed' /\ evidence' = evidence
    BY <1>0, <1>1 DEF Start, CheckPasses, Injected, ConfirmInv
  <2>2. Record(Lifecycle[PhasesOver + 1])
    BY <1>1 DEF Start, CheckPasses, Injected, Lifecycle
  <2>3. QED
    BY <2>1, <2>2, TimelineAdvances
<1>2. CASE StartFails
  BY <1>0, <1>2 DEF StartFails, EvidenceInv, TimelineInv, EvidenceComplete
<1>3. CASE Inject \/ Store \/ SetDeadline \/ LeaveLoop
  BY <1>0, <1>3, TimelineSame DEF Inject, Store, SetDeadline, LeaveLoop
<1>4. CASE AfterFunc
  <2>1. pc[Timer] = "idle"
    BY <1>4 DEF AfterFunc, ConfirmInv
  <2>2. QED
    BY <1>0, <1>4, <2>1, TimelineSame DEF AfterFunc
<1>5. CASE Armed
  <2>1. /\ pc[Main] = "armed" /\ pc'[Main] = "deadline"
        /\ PhasesOver' = PhasesOver /\ PhasesOver \in 3 .. 5
    BY <1>0, <1>5 DEF Armed
  <2>2. timeline' = ArmedAsPhase(PhasesOver + 1, PhasesOver + 1)
    <3> HIDE DEF PhasesOver
    <3>1. timeline = Unarmed(PhasesOver)
      BY <2>1 DEF EvidenceInv, TimelineInv
    <3>2. PhasesOver \in 0 .. 5
      BY <2>1
    <3>3. QED
      BY <1>5, <3>1, <3>2, ArmedAppend DEF Armed, Record
  <2>3. EvidenceComplete' /\ pc'[Main] # "failed" /\ ~BeforeArmed'
    BY <1>5, <2>1 DEF Armed, EvidenceInv, EvidenceComplete
  <2>4. /\ PhasesOver + 1 \in 4 .. 6 /\ PhasesOver + 1 <= PhasesOver' + 1
        /\ timeline' = ArmedAsPhase(PhasesOver + 1, PhasesOver' + 1)
    BY <2>1, <2>2
  <2>5. QED
    BY <2>3, <2>4 DEF EvidenceInv, TimelineInv
<1>6. CASE Recover(Main)
  <2>1. Claim(Main) /\ recovered
    BY <1>6 DEF Recover, Claim, StopTimer, FaultRecover, RecordRecover, ConfirmInv,
       StartLabels, RunLabels, RollbackLabels, AfterRollback
  <2>2. QED
    BY <1>0, <2>1, TimelineSame DEF Claim, ReturnLabel
<1>7. CASE Done
  <2>1. pc[Timer] = "over"
    BY <1>7 DEF Done, ConfirmInv
  <2>2. QED
    BY <1>0, <1>7, <2>1, TimelineAdvances DEF Done, Lifecycle
<1>8. CASE Write
  <2>1. recovered
    BY <1>8 DEF Write, ConfirmInv, AfterRollback
  <2>2. \E k \in 4 .. 6 : timeline = ArmedAsPhase(k, 7)
    BY <1>8 DEF Write, EvidenceInv, TimelineInv
  <2>3. EvidenceComplete'
    BY <1>8, <2>1, <2>2 DEF Write, EvidenceInv, EvidenceComplete, Complete
  <2>4. QED
    BY <1>0, <1>8, <2>3 DEF Write, EvidenceInv, TimelineInv
<1>9. CASE Exit
  BY <1>9, TimelineSame DEF Exit, Die
<1>10. QED
  BY <1>1, <1>2, <1>3, <1>4, <1>5, <1>6, <1>7, <1>8, <1>9 DEF MainStep

LEMMA EvidenceTimer ==
  ASSUME InBudget, TypeOK, ConfirmInv, EvidenceInv, TimerStep
  PROVE  EvidenceInv'
<1> USE DEF PhasesOver, BeforeArmed, BeforeTimer, Goto, Main, Timer
<1>0. pc \in [Threads -> Labels] /\ Main \in Threads /\ Timer \in Threads
  BY DEF TypeOK, Threads
<1>1. CASE Fire \/ Claim(Timer) \/ StopTimer(Timer) \/ FaultRecover(Timer)
  <2>1. Claim(Timer) => ~recovered
    BY DEF Claim, ConfirmInv, RollbackLabels, AfterRollback
  <2>2. QED
    BY <1>0, <1>1, <2>1, TimelineSame DEF Fire, Claim, StopTimer, FaultRecover
<1>2. CASE RecordRecover(Timer) \/ RecordAuto
  <2>1. pc[Main] \in {"store", "armed", "deadline", "poll"}
    BY <1>2 DEF RecordRecover, RecordAuto, ConfirmInv, StartLabels, RunLabels
  <2>2. QED
    BY <1>0, <1>2, <2>1, TimelineAdvances
       DEF RecordRecover, RecordAuto, ReturnLabel, Lifecycle
<1>3. QED
  BY <1>1, <1>2 DEF TimerStep, Recover

LEMMA EvidenceStep ==
  ASSUME InBudget, TypeOK, ConfirmInv, EvidenceInv, [Next]_vars
  PROVE  EvidenceInv'
<1> USE DEF PhasesOver, BeforeArmed
<1>1. CASE MainStep
  BY <1>1, EvidenceMain
<1>2. CASE TimerStep
  BY <1>2, EvidenceTimer
<1>3. CASE Tick
  BY <1>3, TimelineSame DEF Tick
<1>4. CASE Interrupt
  BY <1>4, TimelineSame DEF Interrupt, Die
<1>5. CASE UNCHANGED vars
  BY <1>5, TimelineSame DEF vars
<1>6. QED
  BY <1>1, <1>2, <1>3, <1>4, <1>5 DEF Next, Step, Terminated, InBudget

LEMMA EvidenceInvariant ==
  ASSUME InBudget
  PROVE  Safety => []EvidenceInv
<1>1. Init => EvidenceInv
  <2>1. Unarmed(0) = <<>>
    BY DEF Unarmed
  <2>2. QED
    BY <2>1 DEF Init, EvidenceInv, TimelineInv, EvidenceComplete, PhasesOver,
       BeforeArmed, BeforeTimer, Threads, Main, Timer
<1>2. TypeOK /\ ConfirmInv /\ [Next]_vars => ConfirmInv'
  BY ConfirmStep
<1>3. TypeOK /\ ConfirmInv /\ EvidenceInv /\ [Next]_vars => EvidenceInv'
  BY EvidenceStep
<1>4. QED
  BY <1>1, <1>2, <1>3, ConfirmInit, TypeCorrect, PTL DEF Safety

\* A timeline that a run leaves behind is the whole story, for any duration and
\* bound and however the goroutines interleave, as long as the rollback is done
\* within the safety bound.
THEOREM CompletesEvidence ==
  ASSUME InBudget
  PROVE  Safety => []EvidenceComplete
<1>1. EvidenceInv => EvidenceComplete
  BY DEF EvidenceInv
<1>2. QED
  BY <1>1, EvidenceInvariant, PTL

-----------------------------------------------------------------------------
(* The scheduler implements the safety part of Rollback in that regime.    *)

\* What main has done so far, read off the timeline and the effect.
StartInv ==
  /\ InertInv
  /\ pc[Main] \in {"write", "exit"} => Recorded("done")

LEMMA StartInvInit == Init => StartInv
BY InertInit DEF Init, StartInv, Threads, Main, Timer

LEMMA StartInvStep ==
  ASSUME InBudget, TypeOK, ConfirmInv, StartInv, [Next]_vars
  PROVE  StartInv'
<1>0. /\ pc \in [Threads -> Labels] /\ Main \in Threads /\ Timer \in Threads
      /\ timeline \in Seq(Phases)
  BY DEF TypeOK, Threads
<1>1. InertInv'
  BY InertStep DEF InBudget, ConfirmInv, StartInv
<1>2. timeline' = timeline \/ \E p \in Phases : Record(p)
  BY DEF Next, Step, vars, Terminated, MainStep, TimerStep, Recover, Start, CheckPasses,
     StartFails, Inject, Injected, AfterFunc, Store, Armed, SetDeadline, LeaveLoop, Done,
     Write, Exit, Die, Claim, StopTimer, FaultRecover, RecordRecover, Fire, RecordAuto,
     Tick, Interrupt, Phases
<1>3. Recorded("done") => Recorded("done")'
  BY <1>0, <1>2, AppendRecorded, SameRecorded
<1>4. CASE Done
  BY <1>0, <1>1, <1>4, AppendRecorded DEF Done, StartInv, Phases
<1>5. CASE Recover(Main)
  <2>1. Claim(Main) /\ recovered
    BY <1>5 DEF Recover, Claim, StopTimer, FaultRecover, RecordRecover, ConfirmInv,
       StartLabels, RunLabels, RollbackLabels, AfterRollback
  <2>2. QED
    BY <1>0, <1>1, <2>1 DEF Claim, ReturnLabel, StartInv, Goto
<1>6. CASE ~Done /\ ~Recover(Main)
  <2>1. pc'[Main] \in {"write", "exit"} => pc[Main] \in {"write", "exit"}
    BY <1>0, <1>6 DEF InBudget, Next, Step, vars, Terminated, MainStep, TimerStep, Recover,
       Start, CheckPasses, StartFails, Inject, Injected, AfterFunc, Store, Armed,
       SetDeadline, LeaveLoop, Write, Exit, Die, Claim, StopTimer, FaultRecover,
       RecordRecover, Fire, RecordAuto, Tick, Interrupt, Goto, Main, Timer
  <2>2. QED
    BY <1>1, <1>3, <2>1 DEF StartInv
<1>7. QED
  BY <1>4, <1>5, <1>6

LEMMA AllInvariants ==
  ASSUME InBudget
  PROVE  Safety => [](TypeOK /\ ConfirmInv /\ StartInv)
<1>1. TypeOK /\ ConfirmInv /\ StartInv /\ [Next]_vars => (ConfirmInv /\ StartInv)'
  BY ConfirmStep, StartInvStep
<1>2. QED
  BY <1>1, ConfirmInit, StartInvInit, TypeCorrect, PTL DEF Safety

LEMMA RefinesInit == Init => Promise!Init
BY DEF Init, Promise!Init, AbsFault, AbsVerdict, NotInjected, Recorded, Threads

\* A step that neither changes the effect, nor lets main pass its injection, nor
\* records a verdict is a stuttering step of Rollback.
LEMMA Stutters ==
  ASSUME effect' = effect,
         (pc[Main] \in NotInjected)' <=> pc[Main] \in NotInjected,
         Recorded("error")' <=> Recorded("error"),
         Recorded("done")' <=> Recorded("done")
  PROVE  UNCHANGED Promise!vars
BY DEF Promise!vars, AbsFault, AbsVerdict

LEMMA RefinesMain ==
  ASSUME InBudget, TypeOK, ConfirmInv, StartInv, MainStep
  PROVE  [Promise!Next]_(Promise!vars)
<1> USE DEF StartInv, InertInv, NotInjected, Goto, Main, Timer
<1>0. /\ pc \in [Threads -> Labels] /\ Main \in Threads /\ Timer \in Threads
      /\ timeline \in Seq(Phases) /\ effect \in BOOLEAN
  BY DEF TypeOK, Threads
<1>1. CASE Start \/ CheckPasses \/ Injected \/ Armed
  BY <1>0, <1>1, AppendRecorded, Stutters
     DEF Start, CheckPasses, Injected, Armed, Phases
<1>2. CASE StartFails
  <2>1. /\ effect = FALSE /\ effect' = FALSE
        /\ pc'[Main] = "failed" /\ Recorded("error")'
        /\ ~Recorded("error") /\ ~Recorded("done")
    BY <1>0, <1>2, AppendRecorded DEF StartFails, Phases, ConfirmInv
  <2>2. Promise!Refuse
    BY <1>2, <2>1 DEF StartFails, Promise!Refuse, AbsFault, AbsVerdict
  <2>3. QED
    BY <2>2 DEF Promise!Next
<1>3. CASE Inject
  <2>1. /\ effect = FALSE /\ effect' = TRUE
        /\ ~Recorded("error") /\ ~Recorded("done")
        /\ ~Recorded("error")' /\ ~Recorded("done")'
    BY <1>0, <1>3, SameRecorded DEF Inject, ConfirmInv
  <2>2. Promise!Inject
    BY <1>3, <2>1 DEF Inject, Promise!Inject, AbsFault, AbsVerdict
  <2>3. QED
    BY <2>2 DEF Promise!Next
<1>4. CASE Store \/ SetDeadline \/ LeaveLoop \/ Write
  BY <1>0, <1>4, SameRecorded, Stutters DEF Store, SetDeadline, LeaveLoop, Write
<1>5. CASE AfterFunc
  BY <1>0, <1>5, SameRecorded, Stutters DEF AfterFunc
<1>6. CASE Recover(Main)
  <2>1. Claim(Main) /\ recovered
    BY <1>6 DEF Recover, Claim, StopTimer, FaultRecover, RecordRecover, ConfirmInv,
       StartLabels, RunLabels, RollbackLabels, AfterRollback
  <2>2. QED
    BY <1>0, <2>1, SameRecorded, Stutters DEF Claim, ReturnLabel
<1>7. CASE Done
  <2>1. /\ effect = FALSE /\ effect' = FALSE
        /\ pc[Main] = "done" /\ pc'[Main] = "write"
        /\ ~Recorded("error") /\ ~Recorded("error")'
        /\ ~Recorded("done") /\ Recorded("done")'
    BY <1>0, <1>7, AppendRecorded DEF Done, Phases, ConfirmInv, AfterRollback
  <2>2. Promise!Finish
    BY <2>1 DEF Promise!Finish, AbsFault, AbsVerdict
  <2>3. QED
    BY <2>2 DEF Promise!Next
<1>8. CASE Exit
  <2>1. ~effect
    BY <1>8 DEF Exit, ConfirmInv, AfterRollback
  <2>2. effect' = effect
    BY <1>0, <1>8, <2>1 DEF Exit, Die
  <2>3. pc' = pc /\ timeline' = timeline
    BY <1>8 DEF Exit, Die
  <2>4. QED
    BY <2>2, <2>3, SameRecorded, Stutters
<1>9. QED
  BY <1>1, <1>2, <1>3, <1>4, <1>5, <1>6, <1>7, <1>8 DEF MainStep

\* Losing the effect, by a rollback or with the process, is Rollback's Remove.
LEMMA RefinesLoss ==
  ASSUME StartInv, effect' = FALSE, pc'[Main] = pc[Main], timeline' = timeline
  PROVE  [Promise!Next]_(Promise!vars)
<1>0. /\ Recorded("error")' <=> Recorded("error")
      /\ Recorded("done")' <=> Recorded("done")
  BY SameRecorded
<1>1. CASE effect
  <2>1. pc[Main] \notin NotInjected
    BY <1>1 DEF StartInv, InertInv
  <2>2. Promise!Remove
    BY <1>0, <1>1, <2>1 DEF Promise!Remove, AbsFault, AbsVerdict
  <2>3. QED
    BY <2>2 DEF Promise!Next
<1>2. CASE ~effect
  BY <1>0, <1>2 DEF Promise!vars, AbsFault, AbsVerdict
<1>3. QED
  BY <1>1, <1>2

LEMMA RefinesStep ==
  ASSUME InBudget, TypeOK, ConfirmInv, StartInv, [Next]_vars
  PROVE  [Promise!Next]_(Promise!vars)
<1>0. /\ pc \in [Threads -> Labels] /\ Main \in Threads /\ Timer \in Threads
      /\ timeline \in Seq(Phases) /\ effect \in BOOLEAN
  BY DEF TypeOK, Threads
<1>1. CASE MainStep
  BY <1>1, RefinesMain
<1>2. CASE RecordRecover(Timer) \/ RecordAuto
  BY <1>0, <1>2, AppendRecorded, Stutters
     DEF RecordRecover, RecordAuto, Goto, Main, Timer, Phases
<1>3. CASE Fire \/ Claim(Timer) \/ StopTimer(Timer)
  BY <1>0, <1>3, SameRecorded, Stutters DEF Fire, Claim, StopTimer, Goto, Main, Timer
<1>4. CASE FaultRecover(Timer)
  BY <1>0, <1>4, RefinesLoss DEF FaultRecover, InBudget, Goto, Main, Timer
<1>5. CASE Tick
  BY <1>5, SameRecorded, Stutters DEF Tick
<1>6. CASE Interrupt
  <2>1. effect' = effect \/ effect' = FALSE
    BY <1>0, <1>6 DEF Interrupt, Die
  <2>2. pc' = pc /\ timeline' = timeline
    BY <1>6 DEF Interrupt, Die
  <2>3. CASE effect' = effect
    BY <2>2, <2>3, SameRecorded, Stutters
  <2>4. CASE effect' = FALSE
    BY <2>2, <2>4, RefinesLoss
  <2>5. QED
    BY <2>1, <2>3, <2>4
<1>7. CASE UNCHANGED vars
  BY <1>7, SameRecorded, Stutters DEF vars
<1>8. QED
  BY <1>1, <1>2, <1>3, <1>4, <1>5, <1>6, <1>7
     DEF Next, Step, TimerStep, Recover, Terminated, InBudget

\* In that regime every behaviour of the scheduler, signals included, is one that
\* Rollback allows; that the fault does end is left to the model checker.
THEOREM RefinesRollback ==
  ASSUME InBudget
  PROVE  Safety => Promise!Safety
<1>1. TypeOK /\ ConfirmInv /\ StartInv /\ [Next]_vars => [Promise!Next]_(Promise!vars)
  BY RefinesStep
<1>2. QED
  BY <1>1, RefinesInit, AllInvariants, PTL DEF Safety, Promise!Safety
=============================================================================
