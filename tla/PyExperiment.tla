---------------------------- MODULE PyExperiment ----------------------------
(***************************************************************************)
(* The Python experiment scheduler (scheduler.py) and the code of chaos.py *)
(* that drives it.  Two threads: the main thread, which alone receives     *)
(* KeyboardInterrupt, and the daemon thread of a threading.Timer.  There   *)
(* is no lock: recover tests and sets _recovered in two steps, and the     *)
(* interpreter may switch threads between them.                            *)
(*                                                                         *)
(* Both threads wait for the same duration, the main thread from a moment  *)
(* later, so all that is kept of time is whether the duration, and then    *)
(* the safety bound of run, have passed: the threads may be late by any    *)
(* amount, and normally they race.                                         *)
(***************************************************************************)
EXTENDS Naturals, Sequences, FiniteSets

CONSTANTS
  Entries,        \* how it is driven: "cli" (_run_experiment), "run", "guard"
                  \* (the context manager function experiment)
  Outlives,       \* whether the effect outlives the process that injected it
  Fallible,       \* whether fault.recover may raise, or return with the fault on
  Signals,        \* whether the process may be killed by a signal
  MaxInterrupts   \* bound: how often Ctrl-C is pressed

Main == "main"
Timer == "timer"
Threads == {Main, Timer}

ASSUME EntriesAssumption == Entries \subseteq {"cli", "run", "guard"}
ASSUME OutlivesAssumption == Outlives \in BOOLEAN
ASSUME DeathAssumption == Fallible \in BOOLEAN /\ Signals \in BOOLEAN
ASSUME InterruptsAssumption == MaxInterrupts \in Nat

VARIABLES
  up,          \* the process is running
  entry,       \* which of Entries this process is
  pc,          \* where each thread is
  raising,     \* an exception is on its way through main's recover
  recovered,   \* self._recovered
  armed,       \* self._timer is not None
  clock,       \* "running", then "expired", then "overdue"
  timeline,    \* the phases of self.timeline, in order
  effect,      \* the fault is active in the world
  handled,     \* the fault object holds what its recover needs
  refused,     \* how fault.recover has gone wrong: "raised", "silent"
  struck,      \* where main was when Ctrl-C was pressed
  evidence     \* what write_timeline has written, or NoEvidence

vars == <<up, entry, pc, raising, recovered, armed, clock, timeline, effect,
          handled, refused, struck, evidence>>

Phases == {"start", "check", "inject", "armed", "recover", "auto", "done", "error"}

BodyLabels == {"start", "check", "inject", "handle", "injected", "arm", "armed"}
WaitLabels == {"sleep", "loop", "body"}
RecoverLabels == {"test", "set", "cancel", "rollback", "record"}
EndLabels == {"done", "write", "exit"}
TimerLabels == {"idle", "waiting", "auto", "stopped", "over"}
Labels == BodyLabels \union WaitLabels \union RecoverLabels \union EndLabels
          \union TimerLabels

NoEvidence == [recovered |-> FALSE, events |-> <<>>]

Recorded(phase) == \E i \in DOMAIN timeline : timeline[i] = phase

Goto(t, label) == pc' = [pc EXCEPT ![t] = label]

Record(phase) == timeline' = Append(timeline, phase)

\* Where an exception raised in start takes the main thread: the context manager
\* of the command line recovers, run and guard have not entered their try yet.
AfterRaise == IF entry = "cli" THEN "test" ELSE "exit"

-----------------------------------------------------------------------------
(* start                                                                   *)

\* Some atoms roll back by name (tc qdisc del) and need no handle.
Init ==
  /\ up = TRUE
  /\ entry \in Entries
  /\ pc = [t \in Threads |-> IF t = Main THEN "start" ELSE "idle"]
  /\ raising = FALSE /\ recovered = FALSE /\ armed = FALSE
  /\ clock = "running"
  /\ timeline = <<>>
  /\ effect = FALSE /\ handled \in BOOLEAN
  /\ refused = {} /\ struck = {}
  /\ evidence = NoEvidence

\* The steps of start that only record a phase.
Started(label, phase, next) ==
  /\ pc[Main] = label
  /\ Record(phase)
  /\ Goto(Main, next)
  /\ UNCHANGED <<up, entry, raising, recovered, armed, clock, effect, handled,
                 refused, struck, evidence>>

Start == Started("start", "start", "check")
CheckPasses == Started("check", "check", "inject")

CheckFails ==
  /\ pc[Main] = "check"
  /\ Record("error")
  /\ Goto(Main, AfterRaise)
  /\ raising' = TRUE
  /\ UNCHANGED <<up, entry, recovered, armed, clock, effect, handled, refused, struck,
                 evidence>>

\* Unlike a failed check, a failed injection is not recorded.
InjectFails ==
  /\ pc[Main] = "inject"
  /\ Goto(Main, AfterRaise)
  /\ raising' = TRUE
  /\ UNCHANGED <<up, entry, recovered, armed, clock, timeline, effect, handled,
                 refused, struck, evidence>>

\* inject first makes the fault happen, then keeps the process or buffer it made.
Inject ==
  /\ pc[Main] = "inject"
  /\ effect' = TRUE
  /\ Goto(Main, "handle")
  /\ UNCHANGED <<up, entry, raising, recovered, armed, clock, timeline, handled,
                 refused, struck, evidence>>

Handle ==
  /\ pc[Main] = "handle"
  /\ handled' = TRUE
  /\ Goto(Main, "injected")
  /\ UNCHANGED <<up, entry, raising, recovered, armed, clock, timeline, effect,
                 refused, struck, evidence>>

Injected == Started("injected", "inject", "arm")

\* self._timer is assigned and the daemon thread started.
Arm ==
  /\ pc[Main] = "arm"
  /\ armed' = TRUE
  /\ pc' = [pc EXCEPT ![Main] = "armed", ![Timer] = "waiting"]
  /\ UNCHANGED <<up, entry, raising, recovered, clock, timeline, effect, handled,
                 refused, struck, evidence>>

Armed == Started("armed", "armed", CASE entry = "cli" -> "sleep" [] entry = "run" -> "loop"
                                     [] entry = "guard" -> "body")

-----------------------------------------------------------------------------
(* The observation window.                                                 *)

\* The duration passes; later, so does run's safety bound.
TimePasses ==
  /\ armed
  /\ clock # "overdue"
  /\ clock' = IF clock = "running" THEN "expired" ELSE "overdue"
  /\ UNCHANGED <<up, entry, pc, raising, recovered, armed, timeline, effect,
                 handled, refused, struck, evidence>>

\* Mutant: the main thread does not wait.
WakeEarly ==
  /\ pc[Main] \in WaitLabels
  /\ Goto(Main, "test")
  /\ UNCHANGED <<up, entry, raising, recovered, armed, clock, timeline, effect,
                 handled, refused, struck, evidence>>

\* _run_experiment sleeps for the duration, run polls, the body of a guard takes
\* as long as it likes; all then recover.
Wake ==
  /\ \/ pc[Main] = "sleep" /\ clock # "running"
     \/ pc[Main] = "loop" /\ (recovered \/ clock = "overdue")
     \/ pc[Main] = "body"
  /\ Goto(Main, "test")
  /\ UNCHANGED <<up, entry, raising, recovered, armed, clock, timeline, effect,
                 handled, refused, struck, evidence>>

\* Mutant: the timer does not wait.
FireEarly ==
  /\ pc[Timer] = "waiting"
  /\ Goto(Timer, "test")
  /\ UNCHANGED <<up, entry, raising, recovered, armed, clock, timeline, effect,
                 handled, refused, struck, evidence>>

\* Timer.run finds its event not set.
Fire ==
  /\ pc[Timer] = "waiting" /\ clock # "running"
  /\ Goto(Timer, "test")
  /\ UNCHANGED <<up, entry, raising, recovered, armed, clock, timeline, effect,
                 handled, refused, struck, evidence>>

-----------------------------------------------------------------------------
(* recover, called by both threads.                                        *)

ReturnLabel(t) ==
  IF t = Timer THEN "auto"
  ELSE IF raising THEN "exit"
  ELSE IF entry = "run" THEN "done" ELSE "write"

\* Mutant: without a timer there is nothing to recover.
TestArmed(t) ==
  /\ pc[t] = "test"
  /\ Goto(t, IF recovered \/ ~armed THEN ReturnLabel(t) ELSE "set")
  /\ UNCHANGED <<up, entry, raising, recovered, armed, clock, timeline, effect,
                 handled, refused, struck, evidence>>

Test(t) ==
  /\ pc[t] = "test"
  /\ Goto(t, IF recovered THEN ReturnLabel(t) ELSE "set")
  /\ UNCHANGED <<up, entry, raising, recovered, armed, clock, timeline, effect,
                 handled, refused, struck, evidence>>

\* Mutant: without a timer the rollback is only recorded.
SetRecords(t) ==
  /\ pc[t] = "set"
  /\ recovered' = TRUE
  /\ Goto(t, IF armed THEN "cancel" ELSE "record")
  /\ UNCHANGED <<up, entry, raising, armed, clock, timeline, effect, handled,
                 refused, struck, evidence>>

Set(t) ==
  /\ pc[t] = "set"
  /\ recovered' = TRUE
  /\ Goto(t, IF armed THEN "cancel" ELSE "rollback")
  /\ UNCHANGED <<up, entry, raising, armed, clock, timeline, effect, handled,
                 refused, struck, evidence>>

Cancel(t) ==
  /\ pc[t] = "cancel"
  /\ pc' = [pc EXCEPT ![t] = "rollback",
                      ![Timer] = IF t = Timer THEN "rollback"
                                 ELSE IF @ = "waiting" THEN "stopped" ELSE @]
  /\ UNCHANGED <<up, entry, raising, recovered, armed, clock, timeline, effect,
                 handled, refused, struck, evidence>>

FaultRecover(t) ==
  /\ pc[t] = "rollback"
  /\ effect' = (effect /\ ~handled)
  /\ Goto(t, "record")
  /\ UNCHANGED <<up, entry, raising, recovered, armed, clock, timeline, handled,
                 refused, struck, evidence>>

\* NetworkFault takes a tc that is missing, and every rc=2 of it, for a qdisc that
\* is gone already.
FaultRecoverSilent(t) ==
  /\ Fallible /\ handled
  /\ pc[t] = "rollback"
  /\ refused' = refused \union {"silent"}
  /\ Goto(t, "record")
  /\ UNCHANGED <<up, entry, raising, recovered, armed, clock, timeline, effect,
                 handled, struck, evidence>>

\* _run raises on any other rc, _terminate_process_tree when the child survives its
\* kill.  Nobody catches it in recover: the timer thread dies, and an exception in
\* main unwinds past "done" and the evidence.
FaultRecoverRaises(t) ==
  /\ Fallible /\ handled
  /\ pc[t] = "rollback"
  /\ refused' = refused \union {"raised"}
  /\ effect' \in {effect, FALSE}
  /\ Goto(t, IF t = Timer THEN "over" ELSE "exit")
  /\ UNCHANGED <<up, entry, raising, recovered, armed, clock, timeline, handled,
                 struck, evidence>>

RecordRecover(t) ==
  /\ pc[t] = "record"
  /\ Record("recover")
  /\ Goto(t, ReturnLabel(t))
  /\ UNCHANGED <<up, entry, raising, recovered, armed, clock, effect, handled,
                 refused, struck, evidence>>

Recover(t) ==
  \/ Test(t) \/ Set(t) \/ Cancel(t) \/ RecordRecover(t)
  \/ FaultRecover(t) \/ FaultRecoverSilent(t) \/ FaultRecoverRaises(t)

\* Mutant: a phase nobody knows.
RecordFired ==
  /\ pc[Timer] = "auto"
  /\ Record("fired")
  /\ Goto(Timer, "over")
  /\ UNCHANGED <<up, entry, raising, recovered, armed, clock, effect, handled,
                 refused, struck, evidence>>

RecordAuto ==
  /\ pc[Timer] = "auto"
  /\ Record("auto")
  /\ Goto(Timer, "over")
  /\ UNCHANGED <<up, entry, raising, recovered, armed, clock, effect, handled,
                 refused, struck, evidence>>

-----------------------------------------------------------------------------
(* The end of the main thread.                                             *)

\* Only run records "done"; the command line does not go through it.
Done == Started("done", "done", "write")

Write ==
  /\ pc[Main] = "write"
  /\ evidence' \in {evidence, [recovered |-> recovered, events |-> timeline]}
  /\ Goto(Main, "exit")
  /\ UNCHANGED <<up, entry, raising, recovered, armed, clock, timeline, effect,
                 handled, refused, struck>>

\* The interpreter does not wait for a daemon thread.
Exit ==
  /\ pc[Main] = "exit"
  /\ up' = FALSE
  /\ effect' = (effect /\ Outlives)
  /\ UNCHANGED <<entry, pc, raising, recovered, armed, clock, timeline, handled,
                 refused, struck, evidence>>

\* Ctrl-C.  The command line catches it in the body of its with statement, run
\* and guard let it through their finally blocks, and nobody catches it in
\* recover or later.
Interrupt ==
  /\ Cardinality(struck) < MaxInterrupts
  /\ pc[Main] # "exit"
  /\ struck' = struck \union {pc[Main]}
  /\ Goto(Main, IF pc[Main] \in BodyLabels THEN AfterRaise
                ELSE IF pc[Main] \in WaitLabels THEN "test" ELSE "exit")
  /\ raising' = (raising \/ entry # "cli")
  /\ UNCHANGED <<up, entry, recovered, armed, clock, timeline, effect, handled,
                 refused, evidence>>

\* SIGTERM or SIGKILL: neither the finally blocks nor the evidence.
Kill ==
  /\ Signals
  /\ up' = FALSE
  /\ effect' = (effect /\ Outlives)
  /\ UNCHANGED <<entry, pc, raising, recovered, armed, clock, timeline, handled,
                 refused, struck, evidence>>

Terminated == ~up /\ UNCHANGED vars

MainStep ==
  \/ Start \/ CheckPasses \/ CheckFails \/ InjectFails \/ Inject \/ Handle
  \/ Injected \/ Arm \/ Armed \/ Wake \/ Recover(Main) \/ Done \/ Write \/ Exit

TimerStep == Fire \/ Recover(Timer) \/ RecordAuto

Next == (up /\ (MainStep \/ TimerStep \/ TimePasses \/ Interrupt \/ Kill)) \/ Terminated

Safety == Init /\ [][Next]_vars

\* Both threads are scheduled and time passes; Ctrl-C need not come.
Fairness == WF_vars(up /\ MainStep) /\ WF_vars(up /\ TimerStep) /\ WF_vars(up /\ TimePasses)

Spec == Safety /\ Fairness

-----------------------------------------------------------------------------
(* Properties.                                                             *)

\* Every variable stays in its domain.
TypeOK ==
  /\ up \in BOOLEAN /\ entry \in Entries
  /\ pc \in [Threads -> Labels]
  /\ raising \in BOOLEAN /\ recovered \in BOOLEAN /\ armed \in BOOLEAN
  /\ clock \in {"running", "expired", "overdue"}
  /\ timeline \in Seq(Phases)
  /\ effect \in BOOLEAN /\ handled \in BOOLEAN
  /\ refused \subseteq {"silent", "raised"}
  /\ struck \subseteq Labels /\ Cardinality(struck) <= MaxInterrupts
  /\ evidence \in [recovered : BOOLEAN, events : Seq(Phases)]

\* A process leaves its fault behind only through one of six gaps: a signal killed
\* it before main had come to its end; fault.recover raised, or returned with the
\* fault still on; the timer thread had set _recovered and not come to fault.recover
\* yet; Ctrl-C kept inject from storing its handle; Ctrl-C came within main's
\* recover; or it came within start and the caller had used run or the function
\* experiment, whose try begins later.
LeftBehindOnlyByGaps ==
  ~up /\ effect =>
    \/ pc[Main] # "exit"
    \/ refused # {}
    \/ pc[Timer] \in {"cancel", "rollback"}
    \/ ~handled
    \/ struck \intersect RecoverLabels # {}
    \/ struck \intersect BodyLabels # {} /\ entry # "cli"

\* Without Ctrl-C the fault is left alone until its duration has passed, unless
\* the body of a guard ends earlier.
WindowKept ==
  recovered /\ Recorded("inject") /\ struck = {} /\ entry # "guard" => clock # "running"

\* Evidence that says "recovered" is wrong about a fault that is still on only if
\* Ctrl-C kept the handle from being stored, or the tool reported a removal that did
\* not happen; or else its events show no "recover", for the timer thread has still
\* to roll back, or its rollback has raised.
ShowsRollback == \E i \in DOMAIN evidence.events : evidence.events[i] = "recover"
EvidenceHonest ==
  evidence.recovered /\ effect =>
    \/ ~handled
    \/ "silent" \in refused
    \/ /\ ~ShowsRollback
       /\ "raised" \in refused \/ pc[Timer] \in {"cancel", "rollback"}

\* However the test-and-set races, the timeline shows two rollbacks at most, and two
\* only when the timer thread has been through recover itself: never while the
\* duration runs, and never once main has stopped the timer.
Rollbacks == {i \in DOMAIN timeline : timeline[i] = "recover"}
DoubleRollbackOnlyInRace ==
  /\ Cardinality(Rollbacks) <= 2
  /\ Cardinality(Rollbacks) = 2 => clock # "running" /\ pc[Timer] \in {"auto", "over"}

\* However the process ends, no fault is left behind.
NothingLeftBehind == ~up => ~effect
=============================================================================
