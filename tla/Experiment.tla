----------------------------- MODULE Experiment -----------------------------
(***************************************************************************)
(* The Go experiment scheduler (go/internal/experiment) as the command     *)
(* line drives it: the main goroutine runs Experiment.Run, WriteTimeline   *)
(* and os.Exit; time.AfterFunc runs autoRecover on a goroutine of its own; *)
(* other goroutines may call Recover explicitly, once each.  The mutex     *)
(* makes the test-and-set in Recover and each append to the timeline       *)
(* atomic; everything between them interleaves.                            *)
(*                                                                         *)
(* Time is explicit.  A tick is one second; the two countdowns are what is *)
(* left until the timer expires and until Run's safety bound.  Tick may    *)
(* not pass over a started timer for more than Lateness ticks after it     *)
(* expired: Lateness bounds the scheduling delay, Fault.Recover and the    *)
(* two records together.  Nothing bounds the pace of the main goroutine.   *)
(***************************************************************************)
EXTENDS Integers, Sequences

CONSTANTS
  Callers,    \* goroutines that call Recover explicitly (the CLI has none)
  Durations,  \* the values -duration may have, in ticks
  MaxDuration,   \* the largest time.Duration, in ticks
  Grace,      \* what Run adds to the duration: its safety bound
  Lateness,   \* how long after expiry autoRecover may need to finish
  Fallible,   \* whether Fault.Recover may return an error
  Outlives,   \* whether the effect outlives the process that injected it
  Signals     \* whether the process may be killed by SIGINT or SIGTERM

Main == "main"
Timer == "timer"
Threads == {Main, Timer} \union Callers

ASSUME CallersAssumption == Callers \intersect {Main, Timer} = {}
ASSUME DurationsAssumption ==
  MaxDuration \in Nat /\ Durations \subseteq {d \in Int : d <= MaxDuration}
ASSUME TimesAssumption == Grace \in Nat /\ Lateness \in Nat
ASSUME SwitchesAssumption ==
  Fallible \in BOOLEAN /\ Outlives \in BOOLEAN /\ Signals \in BOOLEAN

VARIABLES
  up,         \* the process is running
  pc,         \* where each goroutine is
  duration,   \* Experiment.Duration
  recovered,  \* Experiment.recovered
  armed,      \* Experiment.timer is set
  timeline,   \* the phases of Experiment.timeline, in order
  fireIn,     \* ticks until the timer expires, negative once overdue
  left,       \* ticks until Run's deadline, -1 once it has passed
  effect,     \* the fault is active in the world
  evidence    \* what WriteTimeline has written, or NoEvidence

vars == <<up, pc, duration, recovered, armed, timeline, fireIn, left, effect,
          evidence>>

Phases == {"start", "check", "inject", "armed", "recover", "auto", "done", "error"}

StartLabels == {"start", "check", "inject", "injected", "arm", "store", "armed"}
RunLabels == {"deadline", "poll", "done", "write", "exit", "failed"}
TimerLabels == {"idle", "waiting", "auto", "stopped", "over"}
RollbackLabels == {"stop", "rollback", "record"}   \* won the test-and-set
RecoverLabels == {"claim"} \union RollbackLabels
Labels == StartLabels \union RunLabels \union TimerLabels \union RecoverLabels

NoEvidence == [recovered |-> FALSE, events |-> <<>>]

Recorded(phase) == \E i \in DOMAIN timeline : timeline[i] = phase

Goto(t, label) == pc' = [pc EXCEPT ![t] = label]

Record(phase) == timeline' = Append(timeline, phase)

-----------------------------------------------------------------------------
(* Start: everything up to Inject belongs to the main goroutine alone.     *)

Init ==
  /\ up = TRUE
  /\ pc = [t \in Threads |-> IF t = Main THEN "start"
                             ELSE IF t = Timer THEN "idle" ELSE "claim"]
  /\ duration \in Durations
  /\ recovered = FALSE /\ armed = FALSE
  /\ timeline = <<>>
  /\ fireIn = 0 /\ left = 0
  /\ effect = FALSE
  /\ evidence = NoEvidence

Start ==
  /\ pc[Main] = "start"
  /\ Record("start")
  /\ Goto(Main, "check")
  /\ UNCHANGED <<up, duration, recovered, armed, fireIn, left, effect, evidence>>

CheckPasses ==
  /\ pc[Main] = "check"
  /\ Record("check")
  /\ Goto(Main, "inject")
  /\ UNCHANGED <<up, duration, recovered, armed, fireIn, left, effect, evidence>>

\* Mutant: the error is recorded and Start goes on.
StartFailsGoesOn ==
  /\ pc[Main] \in {"check", "inject"}
  /\ Record("error")
  /\ Goto(Main, IF pc[Main] = "check" THEN "inject" ELSE "injected")
  /\ UNCHANGED <<up, duration, recovered, armed, fireIn, left, effect, evidence>>

\* Mutant: the injection fails half way and leaves what it did.
StartFailsActive ==
  /\ pc[Main] \in {"check", "inject"}
  /\ Record("error")
  /\ effect' = (pc[Main] = "inject")
  /\ Goto(Main, "failed")
  /\ UNCHANGED <<up, duration, recovered, armed, fireIn, left, evidence>>

\* Check or Inject returns an error: Start records it, Run returns it and
\* runExperiment leaves without writing a timeline.  A failed Inject leaves
\* nothing active behind (the contract every atom of internal/fault keeps).
StartFails ==
  /\ pc[Main] \in {"check", "inject"}
  /\ Record("error")
  /\ Goto(Main, "failed")
  /\ UNCHANGED <<up, duration, recovered, armed, fireIn, left, effect, evidence>>

Inject ==
  /\ pc[Main] = "inject"
  /\ effect' = TRUE
  /\ Goto(Main, "injected")
  /\ UNCHANGED <<up, duration, recovered, armed, timeline, fireIn, left, evidence>>

Injected ==
  /\ pc[Main] = "injected"
  /\ Record("inject")
  /\ Goto(Main, "arm")
  /\ UNCHANGED <<up, duration, recovered, armed, fireIn, left, effect, evidence>>

\* time.AfterFunc starts the timer (a duration below zero expires at once) ...
AfterFunc ==
  /\ pc[Main] = "arm"
  /\ pc' = [pc EXCEPT ![Main] = "store", ![Timer] = "waiting"]
  /\ fireIn' = IF duration < 0 THEN 0 ELSE duration
  /\ UNCHANGED <<up, duration, recovered, armed, timeline, left, effect, evidence>>

\* ... and only then is e.timer assigned, outside the mutex.
Store ==
  /\ pc[Main] = "store"
  /\ armed' = TRUE
  /\ Goto(Main, "armed")
  /\ UNCHANGED <<up, duration, recovered, timeline, fireIn, left, effect, evidence>>

Armed ==
  /\ pc[Main] = "armed"
  /\ Record("armed")
  /\ Goto(Main, "deadline")
  /\ UNCHANGED <<up, duration, recovered, armed, fireIn, left, effect, evidence>>

-----------------------------------------------------------------------------
(* Run, once Start has returned nil.                                       *)

\* The sum of two durations, an int64.
Wrap(d) == IF d > MaxDuration THEN d - 2 * (MaxDuration + 1) ELSE d

\* Mutant: the safety bound forgets the duration.
SetDeadlineShort ==
  /\ pc[Main] = "deadline"
  /\ left' = Grace
  /\ Goto(Main, "poll")
  /\ UNCHANGED <<up, duration, recovered, armed, timeline, fireIn, effect, evidence>>

SetDeadline ==
  /\ pc[Main] = "deadline"
  /\ left' = Wrap(duration + Grace)
  /\ Goto(Main, "poll")
  /\ UNCHANGED <<up, duration, recovered, armed, timeline, fireIn, effect, evidence>>

\* Mutants: Run does not wait for the rollback, or not for "auto".
PollRecovered == recovered
PollRolledBack == recovered /\ Recorded("recover")

PollDone == recovered /\ Recorded("recover") /\ Recorded("auto")

\* Mutant: the loop has no deadline.
LeaveLoopDone ==
  /\ pc[Main] = "poll"
  /\ PollDone
  /\ Goto(Main, "claim")
  /\ UNCHANGED <<up, duration, recovered, armed, timeline, fireIn, left, effect,
                 evidence>>

\* One iteration that leaves the loop; the others only sleep.
LeaveLoop ==
  /\ pc[Main] = "poll"
  /\ PollDone \/ left < 0
  /\ Goto(Main, "claim")
  /\ UNCHANGED <<up, duration, recovered, armed, timeline, fireIn, left, effect,
                 evidence>>

Done ==
  /\ pc[Main] = "done"
  /\ Record("done")
  /\ Goto(Main, "write")
  /\ UNCHANGED <<up, duration, recovered, armed, fireIn, left, effect, evidence>>

\* WriteTimeline; without -timeline, or when the file cannot be written,
\* there is no evidence.
Write ==
  /\ pc[Main] = "write"
  /\ evidence' \in {evidence, [recovered |-> recovered, events |-> timeline]}
  /\ Goto(Main, "exit")
  /\ UNCHANGED <<up, duration, recovered, armed, timeline, fireIn, left, effect>>

-----------------------------------------------------------------------------
(* Recover, called by the timer goroutine, by Run and by explicit callers. *)

ReturnLabel(t) == CASE t = Main -> "done" [] t = Timer -> "auto" [] OTHER -> "over"

\* Mutant: nobody looks at recovered.
ClaimAlways(t) ==
  /\ pc[t] = "claim"
  /\ recovered' = TRUE
  /\ Goto(t, IF armed THEN "stop" ELSE "rollback")
  /\ UNCHANGED <<up, duration, armed, timeline, fireIn, left, effect, evidence>>

\* Mutant: without a timer there is nothing to recover.
ClaimArmed(t) ==
  /\ pc[t] = "claim"
  /\ recovered' = TRUE
  /\ Goto(t, IF recovered \/ ~armed THEN ReturnLabel(t) ELSE "stop")
  /\ UNCHANGED <<up, duration, armed, timeline, fireIn, left, effect, evidence>>

\* The critical section: a caller that finds recovered set returns at once,
\* the others go on with the timer they read there.
Claim(t) ==
  /\ pc[t] = "claim"
  /\ recovered' = TRUE
  /\ Goto(t, IF recovered THEN ReturnLabel(t)
             ELSE IF armed THEN "stop" ELSE "rollback")
  /\ UNCHANGED <<up, duration, armed, timeline, fireIn, left, effect, evidence>>

\* timer.Stop prevents a callback that has not started, and no other.
StopTimer(t) ==
  /\ pc[t] = "stop"
  /\ pc' = [pc EXCEPT ![t] = "rollback",
                      ![Timer] = IF t = Timer THEN "rollback"
                                 ELSE IF @ = "waiting" THEN "stopped" ELSE @]
  /\ UNCHANGED <<up, duration, recovered, armed, timeline, fireIn, left, effect,
                 evidence>>

\* Fault.Recover; its error is discarded.
FaultRecover(t) ==
  /\ pc[t] = "rollback"
  /\ effect' \in {FALSE} \union (IF Fallible THEN {effect} ELSE {})
  /\ Goto(t, "record")
  /\ UNCHANGED <<up, duration, recovered, armed, timeline, fireIn, left, evidence>>

RecordRecover(t) ==
  /\ pc[t] = "record"
  /\ Record("recover")
  /\ Goto(t, ReturnLabel(t))
  /\ UNCHANGED <<up, duration, recovered, armed, fireIn, left, effect, evidence>>

Recover(t) == Claim(t) \/ StopTimer(t) \/ FaultRecover(t) \/ RecordRecover(t)

-----------------------------------------------------------------------------
(* The timer goroutine.                                                    *)

Fire ==
  /\ pc[Timer] = "waiting" /\ fireIn <= 0
  /\ Goto(Timer, "claim")
  /\ UNCHANGED <<up, duration, recovered, armed, timeline, fireIn, left, effect,
                 evidence>>

\* Mutant: a phase nobody knows.
RecordFired ==
  /\ pc[Timer] = "auto"
  /\ Record("fired")
  /\ Goto(Timer, "over")
  /\ UNCHANGED <<up, duration, recovered, armed, fireIn, left, effect, evidence>>

RecordAuto ==
  /\ pc[Timer] = "auto"
  /\ Record("auto")
  /\ Goto(Timer, "over")
  /\ UNCHANGED <<up, duration, recovered, armed, fireIn, left, effect, evidence>>

TimerPending == pc[Timer] \in {"waiting", "auto"} \union RecoverLabels
Polling == pc[Main] = "poll" /\ left >= 0

\* A second passes.  Nothing happens to a clock nobody looks at.
Tick ==
  /\ TimerPending \/ Polling
  /\ TimerPending => fireIn > -Lateness
  /\ fireIn' = IF TimerPending THEN fireIn - 1 ELSE fireIn
  /\ left' = IF Polling THEN left - 1 ELSE left
  /\ UNCHANGED <<up, pc, duration, recovered, armed, timeline, effect, evidence>>

-----------------------------------------------------------------------------
(* The process ends: os.Exit when main returns, or a signal that nothing   *)
(* in the program handles.  Goroutines stop where they are; the effect     *)
(* goes with the process unless it lives outside it.                       *)

Die == /\ up' = FALSE
       /\ effect' = (effect /\ Outlives)
       /\ UNCHANGED <<pc, duration, recovered, armed, timeline, fireIn, left, evidence>>

Exit == pc[Main] \in {"exit", "failed"} /\ Die

Interrupt == Signals /\ Die

Terminated == ~up /\ UNCHANGED vars

MainStep ==
  \/ Start \/ CheckPasses \/ StartFails \/ Inject \/ Injected
  \/ AfterFunc \/ Store \/ Armed
  \/ SetDeadline \/ LeaveLoop \/ Recover(Main) \/ Done \/ Write \/ Exit

TimerStep == Fire \/ Recover(Timer) \/ RecordAuto

Step == MainStep \/ TimerStep \/ (\E t \in Callers : Recover(t)) \/ Tick \/ Interrupt

Next == (up /\ Step) \/ Terminated

Safety == Init /\ [][Next]_vars

\* Goroutines are scheduled preemptively, system calls return and time passes.
Fairness ==
  /\ WF_vars(up /\ MainStep)
  /\ WF_vars(up /\ TimerStep)
  /\ \A t \in Callers : WF_vars(up /\ Recover(t))
  /\ WF_vars(up /\ Tick)

Spec == Safety /\ Fairness

-----------------------------------------------------------------------------
(* Properties.                                                             *)

\* Every variable stays in its domain; the countdowns stay in their ranges.
TypeOK ==
  /\ up \in BOOLEAN
  /\ pc \in [Threads -> Labels]
  /\ duration \in Durations
  /\ recovered \in BOOLEAN /\ armed \in BOOLEAN
  /\ timeline \in Seq(Phases)
  /\ fireIn \in Int /\ left \in Int
  /\ effect \in BOOLEAN
  /\ evidence \in [recovered : BOOLEAN, events : Seq(Phases)]

\* Run "confirms rollback": once "done" is on the timeline no fault is active,
\* whatever the scheduling of the timer goroutine and of main's polling.
RunConfirmsRollback == Recorded("done") => ~effect

\* Whoever calls Recover, from whatever goroutine and however often, one of
\* them rolls back: two never work on the fault at once, none after the
\* rollback was recorded, and "recover" is on the timeline at most once.
Rolling(t) == pc[t] \in RollbackLabels
OneRollback ==
  /\ \A t, u \in Threads : Rolling(t) /\ Rolling(u) => t = u
  /\ \A t \in Threads : Rolling(t) => ~Recorded("recover")
  /\ \A i, j \in DOMAIN timeline :
       timeline[i] = "recover" /\ timeline[j] = "recover" => i = j

\* The observation window is kept: with no explicit caller, neither the timer
\* nor Run's safety bound ends the fault before its duration has passed (unless
\* adding Grace to it overflows: then Run rolls back at once).
WindowKept == recovered => fireIn <= 0

\* The evidence file of a run is complete: it says recovered, it has every
\* phase of the lifecycle once, and it orders them as they happened (only
\* "armed" may be overtaken by the timer goroutine).
Lifecycle == <<"start", "check", "inject", "recover", "auto", "done">>
ArmedAsPhase(k, n) ==
  [i \in 1 .. n |-> IF i = k THEN "armed" ELSE Lifecycle[IF i < k THEN i ELSE i - 1]]
Complete(file) == file.recovered /\ \E k \in 4 .. 6 : file.events = ArmedAsPhase(k, 7)
EvidenceComplete == evidence # NoEvidence => Complete(evidence)

\* A run that failed its check or its injection has rolled nothing back and
\* armed nothing.
FailedStartIsInert ==
  Recorded("error") => ~effect /\ ~armed /\ ~Recorded("inject") /\ ~Recorded("recover")

\* However the process ends, no fault is left behind.
NothingLeftBehind == ~up => ~effect

\* A fault that was injected is eventually gone.
FaultEnds == effect ~> ~effect

\* Run returns and the process ends, even when a Recover call has stopped the
\* timer so that "auto" never reaches the timeline.
RunReturns == <>~up

\* The scheduler implements the promise of Rollback: on every path the fault is
\* injected at most once, eventually removed, and confirmed only after that.
NotInjected == {"start", "check", "inject", "failed"}
AbsFault == IF effect THEN "present"
            ELSE IF pc[Main] \in NotInjected THEN "absent" ELSE "removed"
AbsVerdict == IF Recorded("error") THEN "error"
              ELSE IF Recorded("done") THEN "done" ELSE "none"
Promise == INSTANCE Rollback WITH fault <- AbsFault, verdict <- AbsVerdict
ImplementsRollback == Promise!Spec
=============================================================================
