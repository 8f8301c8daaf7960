------------------------- MODULE PyExperimentProofs -------------------------
(***************************************************************************)
(* Theorems about PyExperiment: every entry, any number of Ctrl-C, a       *)
(* rollback that may fail, a kill, any switch between the two threads.     *)
(***************************************************************************)
EXTENDS PyExperiment, FiniteSetTheorems, TLAPS

-----------------------------------------------------------------------------
(* The inductive invariants, each for one of the properties.               *)

\* The timer thread does not run before start has armed it, and until then
\* nothing is rolled back; no phase is recorded ahead of its time.
BeforeArmed == {"start", "check", "inject", "handle", "injected", "arm"}
StartInv ==
  /\ pc[Main] \in BodyLabels \union WaitLabels \union RecoverLabels \union EndLabels
  /\ pc[Timer] \in TimerLabels \union RecoverLabels
  /\ pc[Main] \in BeforeArmed =>
       pc[Timer] = "idle" /\ ~recovered /\ ~Recorded("recover")
  /\ pc[Main] \in {"start", "check", "inject"} => ~effect /\ ~Recorded("inject")
  /\ pc[Main] \in {"handle", "injected"} => ~Recorded("inject")
  /\ pc[Main] = "body" => entry = "guard"

\* Where the clock is still running, nobody has a reason to recover.
ClockInv ==
  /\ pc[Timer] \notin {"idle", "waiting", "stopped"} => clock # "running"
  /\ WindowKept
  /\ pc[Main] \in RecoverLabels \union EndLabels /\ Recorded("inject") /\ struck = {}
     /\ entry # "guard" => clock # "running"

\* Each thread has at most one rollback on the timeline.
One(b) == IF b THEN 1 ELSE 0
RaceInv ==
  /\ IsFiniteSet(Rollbacks)
  /\ Cardinality(Rollbacks) <= One(pc[Timer] \in {"auto", "over"}) + One(pc[Main] \in EndLabels)

\* What has gone through fault.recover is gone, unless the fault object could not
\* know it or the tool lied.
HonestInv ==
  /\ handled /\ effect /\ "silent" \notin refused => \A t \in Threads : pc[t] # "record"
  /\ handled /\ effect /\ "silent" \notin refused => ~Recorded("recover")
  /\ ShowsRollback => Recorded("recover")

\* Where _recovered is set with the fault still on, one of the excuses of
\* EvidenceHonest holds, or main is about to roll back, or has left recover without.
Excused == \/ ~handled
           \/ refused # {}
           \/ pc[Timer] \in {"cancel", "rollback"}
FileInv ==
  /\ recovered /\ effect => Excused \/ pc[Main] \in {"cancel", "rollback", "exit"}
  /\ evidence.recovered => recovered
  /\ evidence.recovered /\ effect => Excused

\* While main can still act, a fault that nobody has yet rolled back either has a
\* thread on its way to do so or is lost; main ends only past that.
Lost == \/ refused # {}
        \/ ~handled
        \/ struck \intersect RecoverLabels # {}
        \/ struck \intersect BodyLabels # {} /\ entry # "cli"
GapInv ==
  /\ recovered /\ effect => Lost \/ \E t \in Threads : pc[t] \in {"cancel", "rollback"}
  /\ pc[Main] \in EndLabels /\ effect => Lost \/ pc[Timer] \in {"cancel", "rollback"}
-----------------------------------------------------------------------------
(* What appending a phase does to what the timeline says.                  *)

LEMMA AppendRecorded ==
  ASSUME timeline \in Seq(Phases), NEW p \in Phases, Record(p)
  PROVE  /\ timeline' \in Seq(Phases)
         /\ \A q : Recorded(q)' <=> (Recorded(q) \/ q = p)
<1>1. timeline' = Append(timeline, p)
  BY DEF Record
<1>2. /\ timeline' \in Seq(Phases)
      /\ DOMAIN timeline = 1 .. Len(timeline)
      /\ DOMAIN timeline' = 1 .. (Len(timeline) + 1)
      /\ Len(timeline) \in Nat
      /\ \A i \in 1 .. Len(timeline) : timeline'[i] = timeline[i]
      /\ timeline'[Len(timeline) + 1] = p
  BY <1>1
<1>3. QED
  BY <1>2 DEF Recorded

LEMMA SameRecorded ==
  ASSUME timeline' = timeline
  PROVE  /\ \A q : Recorded(q)' <=> Recorded(q)
         /\ Rollbacks' = Rollbacks
BY DEF Recorded, Rollbacks

LEMMA AddOne ==
  ASSUME NEW S, NEW x, IsFiniteSet(S)
  PROVE  /\ IsFiniteSet(S \union {x})
         /\ Cardinality(S) \in Nat /\ Cardinality(S \union {x}) \in Nat
         /\ Cardinality(S \union {x}) <= Cardinality(S) + 1
<1>1. Cardinality(S) \in Nat
  BY FS_CardinalityType
<1>2. /\ IsFiniteSet(S \union {x})
      /\ Cardinality(S \union {x}) = IF x \in S THEN Cardinality(S) ELSE Cardinality(S) + 1
  BY FS_AddElement
<1>3. QED
  BY <1>1, <1>2

\* One more phase is one more rollback at most.
LEMMA AppendRollbacks ==
  ASSUME timeline \in Seq(Phases), NEW p \in Phases, Record(p), IsFiniteSet(Rollbacks)
  PROVE  /\ IsFiniteSet(Rollbacks')
         /\ p # "recover" => Rollbacks' = Rollbacks
         /\ Cardinality(Rollbacks') <= Cardinality(Rollbacks) + 1
         /\ Cardinality(Rollbacks) \in Nat /\ Cardinality(Rollbacks') \in Nat
<1>1. /\ DOMAIN timeline = 1 .. Len(timeline)
      /\ DOMAIN timeline' = 1 .. (Len(timeline) + 1)
      /\ Len(timeline) \in Nat
      /\ \A i \in 1 .. Len(timeline) : timeline'[i] = timeline[i]
      /\ timeline'[Len(timeline) + 1] = p
  BY DEF Record
<1>2. CASE p = "recover"
  <2>1. Rollbacks' = Rollbacks \union {Len(timeline) + 1}
    BY <1>1, <1>2 DEF Rollbacks
  <2>2. QED
    BY <1>2, <2>1, AddOne
<1>3. CASE p # "recover"
  <2>1. Rollbacks' = Rollbacks
    BY <1>1, <1>3 DEF Rollbacks
  <2>2. Cardinality(Rollbacks) \in Nat
    BY FS_CardinalityType
  <2>3. QED
    BY <2>1, <2>2
<1>4. QED
  BY <1>2, <1>3

-----------------------------------------------------------------------------
(* Type correctness.                                                       *)

\* The three ways fault.recover may end.
Rollback(t) == FaultRecover(t) \/ FaultRecoverSilent(t) \/ FaultRecoverRaises(t)

\* struck is finite, so that counting it makes sense.
TypeInv == TypeOK /\ IsFiniteSet(struck)

LEMMA TypeInit == Init => TypeInv
<1> SUFFICES ASSUME Init PROVE TypeInv
  OBVIOUS
<1>1. pc \in [Threads -> Labels]
  BY DEF Init, Labels, BodyLabels, TimerLabels
<1>2. timeline \in Seq(Phases) /\ evidence \in [recovered : BOOLEAN, events : Seq(Phases)]
  <2>1. <<>> \in Seq(Phases)
    OBVIOUS
  <2>2. QED
    BY <2>1 DEF Init, NoEvidence
<1>3. /\ up \in BOOLEAN /\ raising \in BOOLEAN /\ recovered \in BOOLEAN
      /\ armed \in BOOLEAN /\ effect \in BOOLEAN /\ handled \in BOOLEAN
  BY Zenon DEF Init
<1>4. struck \subseteq Labels /\ IsFiniteSet(struck) /\ Cardinality(struck) <= MaxInterrupts
  BY FS_EmptySet, InterruptsAssumption DEF Init
<1>5. QED
  BY <1>1, <1>2, <1>3, <1>4 DEF Init, TypeInv, TypeOK

LEMMA RecoverType ==
  ASSUME TypeInv, NEW t \in Threads, Recover(t)
  PROVE  TypeInv'
<1> USE DEF TypeInv, TypeOK, Goto, ReturnLabel, Labels, EndLabels, TimerLabels, RecoverLabels
<1>1. CASE Test(t)
  BY <1>1 DEF Test
<1>2. CASE Set(t)
  BY <1>2 DEF Set
<1>3. CASE Cancel(t)
  BY <1>3 DEF Cancel, Threads
<1>4. CASE FaultRecover(t) \/ FaultRecoverSilent(t) \/ FaultRecoverRaises(t)
  BY <1>4 DEF FaultRecover, FaultRecoverSilent, FaultRecoverRaises
<1>5. CASE RecordRecover(t)
  BY <1>5, AppendRecorded DEF RecordRecover, Phases
<1>6. QED
  BY <1>1, <1>2, <1>3, <1>4, <1>5 DEF Recover

LEMMA TypeStep ==
  ASSUME TypeInv, [Next]_vars
  PROVE  TypeInv'
<1> USE DEF TypeInv, TypeOK, Goto, AfterRaise, Labels, BodyLabels, WaitLabels, EndLabels,
            TimerLabels, RecoverLabels
<1>0. Main \in Threads /\ Timer \in Threads
  BY DEF Threads
<1>1. CASE Start \/ CheckPasses \/ Injected \/ Done
  <2>1. timeline' \in Seq(Phases)
    BY <1>1, AppendRecorded DEF Start, CheckPasses, Injected, Done, Started, Phases
  <2>2. pc' \in [Threads -> Labels]
    BY <1>0, <1>1 DEF Start, CheckPasses, Injected, Done, Started
  <2>3. QED
    BY <1>1, <2>1, <2>2 DEF Start, CheckPasses, Injected, Done, Started
<1>2. CASE Armed
  <2>1. entry = "cli" \/ entry = "run" \/ entry = "guard"
    BY EntriesAssumption
  <2>2. QED
    BY <1>0, <1>2, <2>1, AppendRecorded DEF Armed, Started, Phases
<1>3. CASE CheckFails
  BY <1>0, <1>3, AppendRecorded DEF CheckFails, Phases
<1>4. CASE InjectFails
  BY <1>0, <1>4 DEF InjectFails
<1>5. CASE Inject
  BY <1>0, <1>5 DEF Inject
<1>6. CASE Handle
  BY <1>0, <1>6 DEF Handle
<1>7. CASE Arm
  BY <1>0, <1>7 DEF Arm
<1>8. CASE Wake
  BY <1>0, <1>8 DEF Wake
<1>9. CASE Write
  <2>1. evidence' \in [recovered : BOOLEAN, events : Seq(Phases)]
    BY <1>9 DEF Write
  <2>2. QED
    BY <1>0, <1>9, <2>1 DEF Write
<1>10. CASE Exit
  BY <1>10 DEF Exit
<1>11. ASSUME NEW t \in Threads, Recover(t) PROVE TypeInv'
  BY <1>11, RecoverType
<1>12. CASE Fire
  BY <1>0, <1>12 DEF Fire
<1>13. CASE RecordAuto
  BY <1>0, <1>13, AppendRecorded DEF RecordAuto, Phases
<1>14. CASE TimePasses
  BY <1>14 DEF TimePasses
<1>15. CASE Interrupt
  <2>1. IsFiniteSet(struck') /\ Cardinality(struck') <= MaxInterrupts
    <3> HIDE DEF Labels, BodyLabels, WaitLabels, EndLabels, TimerLabels, RecoverLabels, Goto
    <3>1. /\ IsFiniteSet(struck) /\ Cardinality(struck) < MaxInterrupts
          /\ struck' = struck \union {pc[Main]}
      BY <1>15 DEF Interrupt
    <3>2. /\ Cardinality(struck) \in Nat /\ IsFiniteSet(struck')
          /\ Cardinality(struck') \in Nat /\ Cardinality(struck') <= Cardinality(struck) + 1
      BY <3>1, AddOne, Zenon
    <3>3. QED
      BY <3>1, <3>2, InterruptsAssumption
  <2>2. pc[Main] \in Labels /\ struck' \subseteq Labels
    BY <1>0, <1>15 DEF Interrupt
  <2>3. pc' \in [Threads -> Labels] /\ raising' \in BOOLEAN
    BY <1>0, <1>15 DEF Interrupt
  <2>4. QED
    BY <1>15, <2>1, <2>2, <2>3 DEF Interrupt
<1>16. CASE Kill
  BY <1>16 DEF Kill
<1>17. CASE UNCHANGED vars
  BY <1>17 DEF vars
<1>18. QED
  BY <1>0, <1>1, <1>2, <1>3, <1>4, <1>5, <1>6, <1>7, <1>8, <1>9, <1>10, <1>11, <1>12,
     <1>13, <1>14, <1>15, <1>16, <1>17
     DEF Next, MainStep, TimerStep, Terminated

LEMMA TypeInvariant == Safety => []TypeInv
BY TypeInit, TypeStep, PTL DEF Safety

\* Every variable stays in its domain, for any entries and any number of Ctrl-C.
THEOREM TypeCorrect == Safety => []TypeOK
<1>1. TypeInv => TypeOK
  BY DEF TypeInv
<1>2. QED
  BY <1>1, TypeInvariant, PTL
-----------------------------------------------------------------------------
(* What the two boolean-valued updates do.                                 *)

LEMMA KillKeeps ==
  ASSUME Kill
  PROVE  /\ effect' => effect
         /\ UNCHANGED <<entry, pc, raising, recovered, armed, clock, timeline, handled,
                        refused, struck, evidence>>
<1>1. effect' => effect
  BY Zenon DEF Kill
<1>2. QED
  BY <1>1 DEF Kill

\* A fault that its rollback leaves on was not known to the fault object, or the
\* rollback has gone wrong.
LEMMA RollbackKeeps ==
  ASSUME TypeOK, NEW t \in Threads, Rollback(t)
  PROVE  /\ effect' => effect
         /\ effect' /\ handled => refused' # {}
         /\ effect' /\ handled /\ "silent" \notin refused' => pc'[t] # "record"
         /\ refused \subseteq refused' /\ pc[t] = "rollback"
         /\ pc' = [pc EXCEPT ![t] = pc'[t]]
         /\ pc'[t] = "record" \/ pc'[t] = IF t = Timer THEN "over" ELSE "exit"
         /\ UNCHANGED <<up, entry, raising, recovered, armed, clock, timeline, handled,
                        struck, evidence>>
<1>0. pc \in [Threads -> Labels] /\ effect \in BOOLEAN
  BY DEF TypeOK
<1>1. CASE FaultRecover(t)
  <2>1. (effect' => effect) /\ ~(effect' /\ handled)
    BY <1>1, Zenon DEF FaultRecover
  <2>2. QED
    BY <1>0, <1>1, <2>1 DEF FaultRecover, Goto
<1>2. CASE FaultRecoverSilent(t)
  BY <1>0, <1>2 DEF FaultRecoverSilent, Goto
<1>3. CASE FaultRecoverRaises(t)
  <2>1. effect' => effect
    BY <1>3, Zenon DEF FaultRecoverRaises
  <2>2. /\ pc' = [pc EXCEPT ![t] = IF t = Timer THEN "over" ELSE "exit"]
        /\ pc'[t] = IF t = Timer THEN "over" ELSE "exit"
    BY <1>0, <1>3 DEF FaultRecoverRaises, Goto
  <2>3. pc'[t] # "record"
    BY <2>2
  <2>4. QED
    BY <1>3, <2>1, <2>2, <2>3 DEF FaultRecoverRaises
<1>4. QED
  BY <1>1, <1>2, <1>3 DEF Rollback

-----------------------------------------------------------------------------
(* The order of start.                                                     *)

LEMMA StartStep ==
  ASSUME TypeOK, StartInv, [Next]_vars
  PROVE  StartInv'
<1> USE DEF StartInv, BeforeArmed, BodyLabels, WaitLabels, RecoverLabels, EndLabels,
            TimerLabels, Goto, Main, Timer
<1>0. /\ pc \in [Threads -> Labels] /\ Main \in Threads /\ Timer \in Threads
      /\ Threads = {Main, Timer} /\ timeline \in Seq(Phases)
  BY DEF TypeOK, Threads
<1>1. CASE Start \/ CheckPasses \/ Injected \/ Done
  BY <1>0, <1>1, AppendRecorded DEF Start, CheckPasses, Injected, Done, Started, Phases
<1>2. CASE Armed
  <2>1. entry = "cli" \/ entry = "run" \/ entry = "guard"
    BY EntriesAssumption DEF TypeOK
  <2>2. QED
    BY <1>0, <1>2, <2>1, AppendRecorded DEF Armed, Started, Phases
<1>3. CASE CheckFails
  BY <1>0, <1>3, AppendRecorded DEF CheckFails, AfterRaise, Phases
<1>4. CASE InjectFails \/ Inject \/ Handle \/ Arm
  BY <1>0, <1>4, SameRecorded DEF InjectFails, Inject, Handle, Arm, AfterRaise
<1>5. CASE Wake \/ Write \/ Exit
  BY <1>0, <1>5, SameRecorded DEF Wake, Write, Exit
<1>6. ASSUME NEW t \in Threads, Test(t) \/ Set(t) \/ Cancel(t) \/ Rollback(t)
      PROVE  StartInv'
  BY <1>0, <1>6, SameRecorded DEF Test, Set, Cancel, Rollback, FaultRecover,
     FaultRecoverSilent, FaultRecoverRaises, ReturnLabel
<1>7. ASSUME NEW t \in Threads, RecordRecover(t) PROVE StartInv'
  BY <1>0, <1>7, AppendRecorded DEF RecordRecover, ReturnLabel, Phases
<1>8. CASE Fire
  BY <1>0, <1>8, SameRecorded DEF Fire
<1>9. CASE RecordAuto
  BY <1>0, <1>9, AppendRecorded DEF RecordAuto, Phases
<1>10. CASE TimePasses \/ Kill
  BY <1>0, <1>10, KillKeeps, SameRecorded DEF TimePasses
<1>11. CASE Interrupt
  BY <1>0, <1>11, SameRecorded DEF Interrupt, AfterRaise
<1>12. CASE UNCHANGED vars
  BY <1>12, SameRecorded DEF vars
<1>13. QED
  BY <1>0, <1>1, <1>2, <1>3, <1>4, <1>5, <1>6, <1>7, <1>8, <1>9, <1>10, <1>11, <1>12
     DEF Next, MainStep, TimerStep, Recover, Rollback, Terminated

LEMMA StartInvariant == Safety => []StartInv
<1>1. Init => StartInv
  BY DEF Init, StartInv, BeforeArmed, BodyLabels, TimerLabels, Recorded, Threads, Main, Timer
<1>2. TypeOK /\ StartInv /\ [Next]_vars => StartInv'
  BY StartStep
<1>3. QED
  BY <1>1, <1>2, TypeCorrect, PTL DEF Safety

-----------------------------------------------------------------------------
(* The observation window.                                                 *)

LEMMA ClockStep ==
  ASSUME TypeOK, StartInv, ClockInv, [Next]_vars
  PROVE  ClockInv'
<1> USE DEF ClockInv, WindowKept, StartInv, BeforeArmed, BodyLabels, WaitLabels,
            RecoverLabels, EndLabels, TimerLabels, Goto, Main, Timer
<1>0. /\ pc \in [Threads -> Labels] /\ Main \in Threads /\ Timer \in Threads
      /\ Threads = {Main, Timer} /\ timeline \in Seq(Phases)
  BY DEF TypeOK, Threads
<1>1. CASE Start \/ CheckPasses \/ Injected \/ Done
  BY <1>0, <1>1, AppendRecorded DEF Start, CheckPasses, Injected, Done, Started, Phases
<1>2. CASE Armed
  <2>1. entry = "cli" \/ entry = "run" \/ entry = "guard"
    BY EntriesAssumption DEF TypeOK
  <2>2. QED
    BY <1>0, <1>2, <2>1, AppendRecorded DEF Armed, Started, Phases
<1>3. CASE CheckFails
  BY <1>0, <1>3, AppendRecorded DEF CheckFails, AfterRaise, Phases
<1>4. CASE InjectFails \/ Inject \/ Handle \/ Arm
  BY <1>0, <1>4, SameRecorded DEF InjectFails, Inject, Handle, Arm, AfterRaise
<1>5. CASE Wake
  BY <1>0, <1>5, SameRecorded DEF Wake
<1>6. CASE Write \/ Exit
  BY <1>0, <1>6, SameRecorded DEF Write, Exit
<1>7. ASSUME NEW t \in Threads, Test(t) \/ Set(t) \/ Cancel(t) \/ Rollback(t)
      PROVE  ClockInv'
  BY <1>0, <1>7, SameRecorded DEF Test, Set, Cancel, Rollback, FaultRecover,
     FaultRecoverSilent, FaultRecoverRaises, ReturnLabel
<1>8. ASSUME NEW t \in Threads, RecordRecover(t) PROVE ClockInv'
  BY <1>0, <1>8, AppendRecorded DEF RecordRecover, ReturnLabel, Phases
<1>9. CASE Fire
  BY <1>0, <1>9, SameRecorded DEF Fire
<1>10. CASE RecordAuto
  BY <1>0, <1>10, AppendRecorded DEF RecordAuto, Phases
<1>11. CASE TimePasses \/ Kill
  BY <1>0, <1>11, KillKeeps, SameRecorded DEF TimePasses
<1>12. CASE Interrupt
  BY <1>0, <1>12, SameRecorded DEF Interrupt, AfterRaise
<1>13. CASE UNCHANGED vars
  BY <1>13, SameRecorded DEF vars
<1>14. QED
  BY <1>0, <1>1, <1>2, <1>3, <1>4, <1>5, <1>6, <1>7, <1>8, <1>9, <1>10, <1>11, <1>12,
     <1>13 DEF Next, MainStep, TimerStep, Recover, Rollback, Terminated

LEMMA ClockInvariant == Safety => []ClockInv
<1>1. Init => ClockInv
  BY DEF Init, ClockInv, WindowKept, RecoverLabels, EndLabels, Threads, Main, Timer
<1>2. TypeOK /\ StartInv /\ ClockInv /\ [Next]_vars => ClockInv'
  BY ClockStep
<1>3. QED
  BY <1>1, <1>2, StartInvariant, TypeCorrect, PTL DEF Safety

\* Without Ctrl-C, whichever thread comes first to recover, the fault has had
\* its duration, unless the body of a guard ended it.
THEOREM KeepsWindow == Safety => []WindowKept
<1>1. ClockInv => WindowKept
  BY DEF ClockInv
<1>2. QED
  BY <1>1, ClockInvariant, PTL

-----------------------------------------------------------------------------
(* How often the timeline can say "recover".                               *)

LEMMA RaceSame ==
  ASSUME RaceInv, timeline' = timeline,
         pc[Timer] \in {"auto", "over"} => pc'[Timer] \in {"auto", "over"},
         pc[Main] \in EndLabels => pc'[Main] \in EndLabels
  PROVE  RaceInv'
<1>1. Rollbacks' = Rollbacks
  BY SameRecorded
<1>2. Cardinality(Rollbacks) \in Nat
  BY FS_CardinalityType DEF RaceInv
<1>3. QED
  BY <1>1, <1>2 DEF RaceInv, One

LEMMA RaceRecord ==
  ASSUME RaceInv, timeline \in Seq(Phases), NEW p \in Phases \ {"recover"}, Record(p),
         pc[Timer] \in {"auto", "over"} => pc'[Timer] \in {"auto", "over"},
         pc[Main] \in EndLabels => pc'[Main] \in EndLabels
  PROVE  RaceInv'
<1>1. Rollbacks' = Rollbacks /\ Cardinality(Rollbacks) \in Nat
  BY AppendRollbacks DEF RaceInv
<1>2. QED
  BY <1>1 DEF RaceInv, One

LEMMA RaceRecover ==
  ASSUME TypeOK, RaceInv, NEW t \in Threads, RecordRecover(t)
  PROVE  RaceInv'
<1>0. /\ pc \in [Threads -> Labels] /\ Main \in Threads /\ Timer \in Threads
      /\ Threads = {Main, Timer} /\ timeline \in Seq(Phases)
  BY DEF TypeOK, Threads
<1>1. /\ IsFiniteSet(Rollbacks') /\ Cardinality(Rollbacks') <= Cardinality(Rollbacks) + 1
      /\ Cardinality(Rollbacks) \in Nat /\ Cardinality(Rollbacks') \in Nat
  BY <1>0, AppendRollbacks DEF RecordRecover, RaceInv, Phases
<1>2. CASE t = Main
  <2>1. /\ pc[Main] \notin EndLabels /\ pc'[Main] \in EndLabels
        /\ pc'[Timer] = pc[Timer]
    BY <1>0, <1>2 DEF RecordRecover, Goto, ReturnLabel, EndLabels, Main, Timer
  <2>2. QED
    BY <1>1, <2>1 DEF RaceInv, One
<1>3. CASE t = Timer
  <2>1. /\ pc[Timer] \notin {"auto", "over"} /\ pc'[Timer] \in {"auto", "over"}
        /\ pc'[Main] = pc[Main]
    BY <1>0, <1>3 DEF RecordRecover, Goto, ReturnLabel, Main, Timer
  <2>2. QED
    BY <1>1, <2>1 DEF RaceInv, One
<1>4. QED
  BY <1>0, <1>2, <1>3

LEMMA RaceStep ==
  ASSUME TypeOK, StartInv, RaceInv, [Next]_vars
  PROVE  RaceInv'
<1> USE DEF EndLabels, Goto, Main, Timer
<1>0. /\ pc \in [Threads -> Labels] /\ Main \in Threads /\ Timer \in Threads
      /\ Threads = {Main, Timer} /\ timeline \in Seq(Phases)
  BY DEF TypeOK, Threads
<1>1. CASE Start \/ CheckPasses \/ Injected \/ Armed \/ Done
  BY <1>0, <1>1, RaceRecord DEF Start, CheckPasses, Injected, Armed, Done, Started, Phases
<1>2. CASE CheckFails
  BY <1>0, <1>2, RaceRecord DEF CheckFails, Phases
<1>3. CASE InjectFails \/ Inject \/ Handle \/ Wake \/ Write \/ Exit
  BY <1>0, <1>3, RaceSame DEF InjectFails, Inject, Handle, Wake, Write, Exit
<1>4. CASE Arm
  BY <1>0, <1>4, RaceSame DEF Arm, StartInv, BeforeArmed
<1>5. ASSUME NEW t \in Threads, Test(t) \/ Set(t) \/ Cancel(t) \/ Rollback(t)
      PROVE  RaceInv'
  BY <1>0, <1>5, RaceSame DEF Test, Set, Cancel, Rollback, FaultRecover,
     FaultRecoverSilent, FaultRecoverRaises
<1>6. ASSUME NEW t \in Threads, RecordRecover(t) PROVE RaceInv'
  BY <1>6, RaceRecover
<1>7. CASE Fire
  BY <1>0, <1>7, RaceSame DEF Fire
<1>8. CASE RecordAuto
  BY <1>0, <1>8, RaceRecord DEF RecordAuto, Phases
<1>9. CASE TimePasses \/ Kill
  BY <1>0, <1>9, KillKeeps, RaceSame DEF TimePasses
<1>10. CASE Interrupt
  BY <1>0, <1>10, RaceSame DEF Interrupt, AfterRaise, BodyLabels, WaitLabels
<1>11. CASE UNCHANGED vars
  BY <1>11, RaceSame DEF vars
<1>12. QED
  BY <1>0, <1>1, <1>2, <1>3, <1>4, <1>5, <1>6, <1>7, <1>8, <1>9, <1>10, <1>11
     DEF Next, MainStep, TimerStep, Recover, Rollback, Terminated

\* Two rollbacks on the timeline at most, one of each thread, so that two mean that
\* the timer thread went through recover: without a lock, this is all that
\* _recovered is good for.
THEOREM RacesOnceAtMost == Safety => []DoubleRollbackOnlyInRace
<1>1. Init => RaceInv
  <2>1. Init => Rollbacks = {}
    BY DEF Init, Rollbacks
  <2>2. QED
    BY <2>1, FS_EmptySet DEF Init, RaceInv, One, EndLabels, Threads, Main, Timer
<1>2. TypeOK /\ StartInv /\ RaceInv /\ [Next]_vars => RaceInv'
  BY RaceStep
<1>3. ClockInv /\ RaceInv => DoubleRollbackOnlyInRace
  <2> SUFFICES ASSUME ClockInv, RaceInv PROVE DoubleRollbackOnlyInRace
    OBVIOUS
  <2>1. Cardinality(Rollbacks) \in Nat
    BY FS_CardinalityType DEF RaceInv
  <2>2. QED
    BY <2>1 DEF ClockInv, RaceInv, One, DoubleRollbackOnlyInRace
<1>4. QED
  BY <1>1, <1>2, <1>3, StartInvariant, ClockInvariant, TypeCorrect, PTL DEF Safety

-----------------------------------------------------------------------------
(* The evidence is true.                                                   *)

LEMMA SameShown ==
  ASSUME evidence' = evidence
  PROVE  ShowsRollback' <=> ShowsRollback
BY DEF ShowsRollback

LEMMA HonestStep ==
  ASSUME TypeOK, StartInv, HonestInv, [Next]_vars
  PROVE  HonestInv'
<1> USE DEF HonestInv, StartInv, BeforeArmed, TimerLabels, Goto, Main, Timer
<1>0. /\ pc \in [Threads -> Labels] /\ Main \in Threads /\ Timer \in Threads
      /\ Threads = {Main, Timer} /\ timeline \in Seq(Phases)
  BY DEF TypeOK, Threads
<1>1. CASE Start \/ CheckPasses \/ Injected \/ Done
  BY <1>0, <1>1, AppendRecorded, SameShown DEF Start, CheckPasses, Injected, Done, Started, Phases
<1>2. CASE Armed
  <2>1. entry = "cli" \/ entry = "run" \/ entry = "guard"
    BY EntriesAssumption DEF TypeOK
  <2>2. QED
    BY <1>0, <1>2, <2>1, AppendRecorded, SameShown DEF Armed, Started, Phases
<1>3. CASE CheckFails
  BY <1>0, <1>3, AppendRecorded, SameShown DEF CheckFails, AfterRaise, Phases
<1>4. CASE InjectFails \/ Inject \/ Handle \/ Arm \/ Wake \/ Exit
  <2>1. /\ timeline' = timeline /\ evidence' = evidence /\ refused' = refused
        /\ \A t \in Threads : pc'[t] = "record" => pc[t] = "record"
    BY <1>0, <1>4 DEF InjectFails, Inject, Handle, Arm, Wake, Exit, AfterRaise
  <2>2. handled' /\ effect' => pc[Main] \in {"inject", "handle"} \/ (handled /\ effect)
    BY <1>4 DEF InjectFails, Inject, Handle, Arm, Wake, Exit
  <2>3. QED
    BY <1>0, <2>1, <2>2, SameRecorded, SameShown
<1>5. CASE Write
  <2>1. \/ evidence' = evidence
        \/ evidence'.events = timeline
    BY <1>5 DEF Write
  <2>2. ShowsRollback' => ShowsRollback \/ Recorded("recover")
    BY <2>1 DEF Recorded, ShowsRollback
  <2>3. QED
    BY <1>0, <1>5, <2>2, SameRecorded, SameShown DEF Write
<1>6. ASSUME NEW t \in Threads, Test(t) \/ Set(t) \/ Cancel(t) \/ Rollback(t)
      PROVE  HonestInv'
  <2>1. CASE Test(t) \/ Set(t)
    BY <1>0, <2>1, SameRecorded, SameShown DEF Test, Set, ReturnLabel
  <2>2. CASE Cancel(t)
    BY <1>0, <2>2, SameRecorded, SameShown DEF Cancel
  <2>3. CASE Rollback(t)
    BY <1>0, <2>3, RollbackKeeps, SameRecorded, SameShown
  <2>4. QED
    BY <1>6, <2>1, <2>2, <2>3
<1>7. ASSUME NEW t \in Threads, RecordRecover(t) PROVE HonestInv'
  BY <1>0, <1>7, AppendRecorded, SameShown DEF RecordRecover, ReturnLabel, Phases
<1>8. CASE Fire
  BY <1>0, <1>8, SameRecorded, SameShown DEF Fire
<1>9. CASE RecordAuto
  BY <1>0, <1>9, AppendRecorded, SameShown DEF RecordAuto, Phases
<1>10. CASE TimePasses \/ Kill
  BY <1>0, <1>10, KillKeeps, SameRecorded, SameShown DEF TimePasses
<1>11. CASE Interrupt
  BY <1>0, <1>11, SameRecorded, SameShown DEF Interrupt, AfterRaise
<1>12. CASE UNCHANGED vars
  BY <1>12, SameRecorded, SameShown DEF vars
<1>13. QED
  BY <1>0, <1>1, <1>2, <1>3, <1>4, <1>5, <1>6, <1>7, <1>8, <1>9, <1>10, <1>11, <1>12
     DEF Next, MainStep, TimerStep, Recover, Rollback, Terminated

LEMMA HonestInvariant == Safety => []HonestInv
<1>1. Init => HonestInv
  BY DEF Init, HonestInv, ShowsRollback, NoEvidence, Recorded
<1>2. TypeOK /\ StartInv /\ HonestInv /\ [Next]_vars => HonestInv'
  BY HonestStep
<1>3. QED
  BY <1>1, <1>2, StartInvariant, TypeCorrect, PTL DEF Safety

LEMMA FileStep ==
  ASSUME TypeOK, StartInv, FileInv, [Next]_vars
  PROVE  FileInv'
<1> USE DEF FileInv, Excused, StartInv, BeforeArmed, BodyLabels, WaitLabels, EndLabels,
            RecoverLabels, TimerLabels, Goto, Main, Timer
<1>0. /\ pc \in [Threads -> Labels] /\ Main \in Threads /\ Timer \in Threads
      /\ Threads = {Main, Timer} /\ effect \in BOOLEAN
  BY DEF TypeOK, Threads
<1>1. CASE Start \/ CheckPasses \/ Injected \/ Done
  BY <1>0, <1>1 DEF Start, CheckPasses, Injected, Done, Started
<1>2. CASE Armed
  <2>1. entry = "cli" \/ entry = "run" \/ entry = "guard"
    BY EntriesAssumption DEF TypeOK
  <2>2. QED
    BY <1>0, <1>2, <2>1 DEF Armed, Started
<1>3. CASE CheckFails \/ InjectFails \/ Inject \/ Handle
  BY <1>0, <1>3 DEF CheckFails, InjectFails, Inject, Handle, AfterRaise
<1>4. CASE Arm \/ Wake \/ Exit
  BY <1>0, <1>4 DEF Arm, Wake, Exit
<1>5. CASE Write
  BY <1>0, <1>5 DEF Write
<1>6. ASSUME NEW t \in Threads, Recover(t) PROVE FileInv'
  <2>1. CASE Test(t)
    BY <1>0, <2>1 DEF Test, ReturnLabel
  <2>2. CASE Set(t)
    BY <1>0, <2>2 DEF Set
  <2>3. CASE Cancel(t)
    BY <1>0, <2>3 DEF Cancel
  <2>4. CASE Rollback(t)
    BY <1>0, <2>4, RollbackKeeps
  <2>5. CASE RecordRecover(t)
    BY <1>0, <2>5 DEF RecordRecover, ReturnLabel
  <2>6. QED
    BY <1>6, <2>1, <2>2, <2>3, <2>4, <2>5 DEF Recover, Rollback
<1>7. CASE Fire \/ RecordAuto
  BY <1>0, <1>7 DEF Fire, RecordAuto
<1>8. CASE TimePasses \/ Kill
  BY <1>0, <1>8, KillKeeps DEF TimePasses
<1>9. CASE Interrupt
  BY <1>0, <1>9 DEF Interrupt, AfterRaise
<1>10. CASE UNCHANGED vars
  BY <1>10 DEF vars
<1>11. QED
  BY <1>0, <1>1, <1>2, <1>3, <1>4, <1>5, <1>6, <1>7, <1>8, <1>9, <1>10
     DEF Next, MainStep, TimerStep, Terminated

LEMMA FileInvariant == Safety => []FileInv
<1>1. Init => FileInv
  BY DEF Init, FileInv, NoEvidence
<1>2. TypeOK /\ StartInv /\ FileInv /\ [Next]_vars => FileInv'
  BY FileStep
<1>3. QED
  BY <1>1, <1>2, StartInvariant, TypeCorrect, PTL DEF Safety

\* A file that says "recovered" is right, except in the cases EvidenceHonest names:
\* whichever thread rolled back, whichever wrote, wherever Ctrl-C came in.
THEOREM TellsTheTruth == Safety => []EvidenceHonest
<1>1. TypeOK /\ StartInv /\ HonestInv /\ FileInv => EvidenceHonest
  BY DEF TypeOK, HonestInv, FileInv, Excused, EvidenceHonest, StartInv
<1>2. QED
  BY <1>1, TypeCorrect, StartInvariant, HonestInvariant, FileInvariant, PTL

-----------------------------------------------------------------------------
(* The ways to leave a fault behind.                                       *)

LEMMA GapStep ==
  ASSUME TypeOK, StartInv, HonestInv, GapInv, [Next]_vars
  PROVE  GapInv'
<1> USE DEF GapInv, Lost, HonestInv, StartInv, BeforeArmed, BodyLabels, WaitLabels,
            RecoverLabels, EndLabels, TimerLabels, Goto, Main, Timer
<1>0. /\ pc \in [Threads -> Labels] /\ Main \in Threads /\ Timer \in Threads
      /\ Threads = {Main, Timer} /\ effect \in BOOLEAN
  BY DEF TypeOK, Threads
<1>1. CASE Start \/ CheckPasses \/ Injected \/ Done
  BY <1>0, <1>1 DEF Start, CheckPasses, Injected, Done, Started
<1>2. CASE Armed
  <2>1. entry = "cli" \/ entry = "run" \/ entry = "guard"
    BY EntriesAssumption DEF TypeOK
  <2>2. QED
    BY <1>0, <1>2, <2>1 DEF Armed, Started
<1>3. CASE CheckFails \/ InjectFails \/ Inject \/ Handle
  BY <1>0, <1>3 DEF CheckFails, InjectFails, Inject, Handle, AfterRaise
<1>4. CASE Arm \/ Wake \/ Write \/ Exit
  BY <1>0, <1>4 DEF Arm, Wake, Write, Exit
<1>5. ASSUME NEW t \in Threads, Recover(t) PROVE GapInv'
  <2>1. CASE Test(t)
    BY <1>0, <2>1 DEF Test, ReturnLabel
  <2>2. CASE Set(t)
    BY <1>0, <2>2 DEF Set
  <2>3. CASE Cancel(t)
    BY <1>0, <2>3 DEF Cancel
  <2>4. CASE Rollback(t)
    BY <1>0, <2>4, RollbackKeeps
  <2>5. CASE RecordRecover(t)
    BY <1>0, <2>5 DEF RecordRecover, ReturnLabel
  <2>6. QED
    BY <1>5, <2>1, <2>2, <2>3, <2>4, <2>5 DEF Recover, Rollback
<1>6. CASE Fire \/ RecordAuto
  BY <1>0, <1>6 DEF Fire, RecordAuto
<1>7. CASE TimePasses \/ Kill
  BY <1>0, <1>7, KillKeeps DEF TimePasses
<1>8. CASE Interrupt
  BY <1>0, <1>8 DEF Interrupt, AfterRaise
<1>9. CASE UNCHANGED vars
  BY <1>9 DEF vars
<1>10. QED
  BY <1>0, <1>1, <1>2, <1>3, <1>4, <1>5, <1>6, <1>7, <1>8, <1>9
     DEF Next, MainStep, TimerStep, Terminated

\* The six gaps of the property are all there are: wherever the threads switch,
\* Ctrl-C comes, a rollback fails or the process is killed.
THEOREM NoOtherGap == Safety => []LeftBehindOnlyByGaps
<1>1. Init => GapInv
  BY DEF Init, GapInv
<1>2. TypeOK /\ StartInv /\ HonestInv /\ GapInv /\ [Next]_vars => GapInv'
  BY GapStep
<1>3. StartInv /\ GapInv => LeftBehindOnlyByGaps
  BY DEF StartInv, GapInv, Lost, EndLabels, LeftBehindOnlyByGaps
<1>4. QED
  BY <1>1, <1>2, <1>3, StartInvariant, HonestInvariant, TypeCorrect, PTL DEF Safety
=============================================================================
