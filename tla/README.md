# Verification of chaos-injector

TLA+ models of chaos-injector, a fault injection tool with two implementations
(Go and Python), their TLC configurations, and TLAPS proofs: every safety
property that a passing run checks on a small instance is also a theorem. Paths
below are relative to the repository.

The one promise of the tool is *one experiment, guaranteed rollback*: check the
environment, inject one fault, keep it for a while, take it back on every path,
and leave a JSON timeline as evidence. The models ask whether the code keeps it.

## 1. The system: inventory

| Component | State | Operations | Hard because |
|---|---|---|---|
| Go scheduler, `go/internal/experiment` | `recovered`, `timer`, `timeline` under `mu`; `Duration` | `Start`, `Recover`, `autoRecover`, `Run`, `WriteTimeline` | three kinds of goroutines race for one rollback; two-second safety bound; non-positive durations |
| Go command line, `go/cmd/chaos-injector` | flags | `runExperiment`, `cmdK8sPodKill`, `cmdK8sExec`, `cmdRandom` | the process may be killed; an error path skips the evidence |
| Python scheduler, `scheduler.py` | `_recovered`, `_timer`, `timeline`, no lock | `start`, `recover`, `_auto_recover`, `run`, `__exit__`, `experiment` | unlocked test-and-set, daemon thread, Ctrl-C anywhere, rollbacks that raise |
| Python command line, `chaos.py` | arguments | `_run_experiment`, `main`, `cmd_*`, `SeededRng` | main and timer wait for the same duration |
| pod-kill atom and kubectl client, `fault/podkill.go`, `k8s/client.go` | `targets`, `healed`; the cluster | `Check`, `Inject`, `DeletePod`, `WaitForReplacement` | the cluster moves between calls; partial deletion; what counts as a replacement |
| pod orchestration, `cmdK8sExec`, `k8s/exec.go`, `k8s.py` | agent in the pod, its stream, files | `RunPodExperiment`: copy, chmod, exec, copy back | the orchestrator or its stream dies, the agent goes on and prints |
| MySQL atom, `fault/mysql.go` | holder processes, sessions | three modes | partial spawn, batch of KILLs, whole-second SLEEP |
| process atom, `fault/process.go` | matched pids | `protectedPIDs`, `matchProcesses`, `Inject` | the process table changes while it is read; pid reuse; ancestors; zombies |
| network atom, `fault/network.go` | the interface's root qdisc | `tc qdisc replace`/`del` | shared by experiments on one interface, and with the administrator |
| CPU, memory, port atoms | a process group or goroutines, a buffer, a listener | `Check`, `Inject`, `Recover` | memory is checked long before it is used; the effect may outlive the injector, or `Recover` |
| environment probe, load gate, `env.go` | none | `LoadGate`, `MemAvailableMB`, snapshots | a value read now and used later |
| seeded generator, random decision | 64-bit word | `NewSeededRng`, `Next`, `IntN`, `IntRange`, `cmdRandom`, `cmd_random` | two implementations that must agree; the zero state; the range of a seed |
| registry, platform stubs | none | | |

The scheduler calls the atom (`Check`, `Inject`, `Recover`) through the `Fault`
interface; a timer calls back into the scheduler on another thread; the command
line drives the scheduler, writes the evidence and ends the process, and some
effects end with it while others (a qdisc, a child in its own process group, a
holder's session) do not. Atoms shell out to `tc`, `stress-ng`, `mysql` and
`kubectl`. What makes each component correct:

- scheduler: one rollback, not before the window has passed, confirmed only
  after the fact, complete and truthful evidence, and an end on every path;
- pod-kill: never more pods than `-count`, success only when all targets are
  deleted, a replacement that really is one, a wait that ends;
- pod orchestration: success means that the fault in the pod is gone and its
  evidence is here; failure of the orchestrator does not keep the fault alive;
- process: neither the injector nor what it runs under is killed, and nothing
  that does not match, but for a pid that changed hands or program;
- the other atoms: an `Inject` that fails leaves nothing active, a `Recover`
  removes what `Inject` did and nothing else;
- random: a recorded seed gives the recorded experiment back.

The hazards, each at its line, are listed in `PROJECT.json`.

## 2. The modules

| Module | Models | Role | Theorems in |
|---|---|---|---|
| `Rollback` | | the abstract promise: a fault goes absent → present → removed, the verdict `done` only after removal, `error` only if nothing was touched | |
| `Experiment` | `experiment.go`, `runExperiment` in `main.go` | the Go scheduler; refines `Rollback` | `ExperimentProofs` |
| `MCExperiment` | | constant values for TLC | |
| `PyExperiment` | `scheduler.py`, `_run_experiment` and `main` in `chaos.py` | the Python scheduler | `PyExperimentProofs` |
| `PodKill` | `podkill.go`, `client.go` | the pod-kill atom against a cluster | `PodKillProofs` |
| `MySql` | `mysql.go` | the MySQL atom against a server | `MySqlProofs` |
| `PodExec` | `cmdK8sExec`, `k8s/exec.go` | the orchestrator, composed with `Experiment` as the agent in the pod | `PodExecProofs` |
| `ProcessKill` | `process.go`, `process_unix.go` | the process atom against a process table | `ProcessKillProofs` |
| `Host` | `cpu.go`, `mem.go`, `port.go`, `network.go`, `killProcessTree` | injectors that share one host | `HostProofs` |
| `SeededRng` | `rng.go`, `SeededRng` in `chaos.py` | what the generator computes, at 64 bits | |
| `RandomDecision` | `cmdRandom`, `cmd_random` | what is decided with a generator, in both languages | `RandomDecisionProofs` |
| `MCRandomDecision` | | `SeededRng` as that generator, seeds for TLC, and two facts it evaluates | |

Definitions whose comment begins with *Mutant* are not part of a specification:
each is the code with one plausible slip, and is there to show that a property
would notice (`PROJECT.json`, "mutants").

### Experiment

Every goroutine has a program counter: the main goroutine, the timer goroutine,
and any number of `Callers` that call `Recover` explicitly. A step ends where
the code releases the mutex or calls into the fault, so `Recover` is four steps:
`Claim` (lines 83–90, one critical section), `StopTimer` (92–94),
`FaultRecover` (95), `RecordRecover` (96–97). `timer.Stop` prevents a callback
that has not started and no other. `time.AfterFunc` and the assignment of
`e.timer` are two steps (`AfterFunc`, `Store`), because the callback can run in
between.

| State | Code |
|---|---|
| `recovered`, `timeline`, `duration` | the fields of `Experiment`; the timeline keeps only the phases |
| `armed` | `e.timer != nil` |
| `fireIn`, `left` | ticks until the timer expires, until `deadline` |
| `effect` | whether the fault is active in the world |
| `up`, `evidence` | the process; the file `WriteTimeline` leaves |

Time: `Tick` is one second. The timer goroutine, from expiry to its record of
`auto`, needs at most `Lateness` ticks; the main goroutine may be arbitrarily
slow. `Grace` is the two seconds of line 110. The ten-millisecond poll is only
its last iteration: the others change nothing. The deadline is a `time.Duration`,
64 bits of nanoseconds: `Wrap` is its overflow, and `MaxDuration` its largest
value, scaled down for TLC. (The conversion of a duration from float seconds,
which overflows earlier, is left out.) Left out: names, details, time
stamps, snapshots and `OnEvent` (which only prints).

### PyExperiment

The same scheduler without a lock: the test of `_recovered` and its assignment
are two steps (`Test`, `Set`). Three entries: `cli` (`_run_experiment`: sleep
for the duration, then `__exit__`), `run` (poll, `finally`), and `guard` (the
function `experiment`). Only the main thread receives `KeyboardInterrupt`;
`Interrupt` says where it is caught: in the body of the command line's `with`,
in the `finally` of `run` and `guard`, nowhere once `recover` has begun.
`Inject` and `Handle` are the two halves of an atom's `inject` that Ctrl-C can
separate; `handled` is true from the start for atoms that roll back by name.
`struck` is the set of places in main where Ctrl-C came: `LeftBehindOnlyByGaps`
refers to it, since what a Ctrl-C costs depends on where it strikes.
`fault.recover` may go wrong (`refused`): `NetworkFault.recover` returns as if all
was well when tc is missing or ends with status 2 (`FaultRecoverSilent`), and
raises on any other status, as `_terminate_process_tree` does when a child survives
its kill (`FaultRecoverRaises`); nobody catches that, so the timer thread dies with
`_recovered` set, or main unwinds. `Kill` is SIGTERM or SIGKILL, which runs no
`finally`. The timer thread is a daemon: `Exit` does not wait for it. Left out are
an `on_event` callback that raises (the command line's only prints) and a thread
that cannot be started. Time is reduced to
whether the duration, and later the safety bound, have passed: neither thread
is ever on time.

### PodKill

Each kubectl call is one step and the cluster may move between any two. A pod is
absent, pending, ready, terminating (deleted, still Ready), stopping (deleted,
no longer Ready) or gone; `DeletePod` only marks (`--wait=false`). `Check` runs
twice and chooses its targets anew the second time. `Poll`, `NotThisOne`,
`Heal`, `NextRound` and `WaitFails` are `WaitForReplacement`. The lists kubectl
returns may be in any order. The cluster's own actions (`Create`,
`BecomeReady`, `StopContainers`, `Vanish`, `Evict`) are external to the program.
Left out: that `kubectl` is missing or the namespace empty (a refusal like any
other), and pods that become unready without being deleted.

### MySql

`connection` and `lock` hold something through `mysql` processes that each run a
SLEEP; `session` lists sessions and kills the matching ones. A holder is a
process and a session: the process dies when it is killed, refused or done, the
session closes when the server notices. `Spawn` is one start, so a failure can
come after any number of them (`SpawnFails` runs `Recover` inside `Inject`);
`Kill` is one statement of the batch, which stops at the first that fails.
`Crash` kills the injector and leaves the processes. Left out: the length of
SLEEP, argument lists, parsing, and the race of `Recover` with the goroutine
that reaps a process (its two outcomes differ only in whether an already dead
process is killed again). External: the server and its other users; the server accepts at
least one connection (`MaxAssumption`), which is the least `max_connections` can be.

### PodExec

The agent copied into the pod is the Go program itself, so `PodExec` extends
`Experiment`: the variables of `Experiment` are the agent's, and each of its steps
is one of the agent's steps (`AgentMain`, `AgentTimer`, `AgentTick`), with what
it means for the stream beside it (`Alongside`). The orchestrator is `Gates`,
`CopyToPod`, `Chmod`, `Launch`, `AgentEnds`, `CopyFromPod`, each kubectl call one
step that may fail; it may be killed before any of them (`Kill`), and
`kubectl exec` may fail although the agent goes on (`StreamLost`).

The agent prints every event it records. What becomes of that after `kubectl
exec` is gone is up to the container runtime and not to this code, so `setup.drained`
is chosen at the start: either somebody goes on reading (containerd does), or the
pipe is broken (CRI-O closes it), the goroutine that writes next gets no further
(`choked`) and the process dies of SIGPIPE (`Choke`). Independently of both,
something in the pod may kill the agent at any step (`AgentKilled`, kept in
`slain`): the OOM killer, or a restart of the container whose liveness probe the
fault has made fail; the pod's network namespace, and a netem in it, survive that.
`Wanted` is
`timelineFlagValue`, which knows `-timeline path` and not `-timeline=path`: in
the second form the agent writes its timeline and nobody fetches it. The file
fetched is whatever lies at that path; after a dry run, which writes none, that
may be the timeline of an earlier experiment (`leftover`, `PodFile`). Left out:
a `-timeline` that is given twice or after a positional argument, where
orchestrator and agent may understand different things; resolving a pod among several, and the Python orchestrator, which takes the same
steps.

### ProcessKill

Reading the parent of one process (`Walk`), listing `/proc` (`ReadDir`), reading
one `comm` (`Match`) and each signal (`KillPID`, `KillFails`) are separate steps,
and between any two of them processes end, are reaped, run another program (or
rename themselves) under the same pid (`Exec`), and start under a pid that has
become free. `Inject` goes through the whole of `Check` again, as in the code.
A process that has ended keeps its entry until it is reaped, and a signal to it
succeeds without killing anything; the same is true of pid 1 signalled from
within its own namespace. `Lineage` is the reference definition of the injector's
ancestors, against which the walk is judged. Orphans go to pid 1: there is no
subreaper in the model. With one `AncestorsSpared` would not hold: a walk that
meets a parent that has just gone stops there, and the subreaper above it stays
unprotected.

### Host

Each of `Injectors` runs one atom of four and goes through what the scheduler
makes of it: `Check`, `Inject` (which checks again), `Recover`; the same atom may
run in several. Shared are the memory (`pages`, `Capacity`), the port and the root
qdisc. `handle` is what the fault object keeps (`proc`, `cancel`, `buf`, `ln`; the
network atom keeps nothing and rolls back by name). `Kill` is the end of the
process by a signal: its goroutines, buffer and listener go with it, its stress-ng
and its netem stay. `pages` follows the buffer: zero pages that cost nothing, then
touched by `touchPages`, a goroutine that nobody waits for, then garbage for
`Collect`. stress-ng is assumed to obey SIGTERM, and a CPU fault whose duration
has passed may end by itself (`StressEnds`). An injector's `Recover` comes once, as the scheduler
makes it (`OneRollback`), and when tc does not do it (`RecoverFails`) the injector
is `refused` for good: a missing tc, and status 2 for any reason, are success to
`network.go:72-79`, and the scheduler drops any other error (`experiment.go:95`).

### RandomDecision

`SeededRng` has the generator at its full width: a word is eight bytes, and
`NewSeededRng`, `NextState` and `IntN` are splitmix64 and xorshift64\* as both
languages have them. `RandomDecision` knows it as three constant operators
(`Seeded`, `Advanced`, `Drawn`), to which `RandomDecision.cfg` assigns the real
ones: a replay should not depend on what the generator computes, only on there
being one, and stated this way that can be proved. A first experiment takes or makes up a seed, records it,
draws a kind and its parameters; a second one, in either language, is given the
recorded seed. `MCRandomDecision` has TLC evaluate two facts: `CanonicalSequence`,
the sequences that the tests of both languages pin, which ties the model's
arithmetic to the code's; and `StuckSeed` (see section 3).

## 3. What is checked

| Run | Shows | Bounds |
|---|---|---|
| `go_run` | types; `RunConfirmsRollback`; `WindowKept`; `EvidenceComplete`; `FailedStartIsInert`; `FaultEnds` (liveness); `ImplementsRollback` (refinement with fairness) | durations 0, 1 and 4 around a grace of 2 and a lateness of 2: expired at once, shorter and longer than the grace; no explicit callers, as on the command line |
| `go_api` | `OneRollback`; `RunReturns` (liveness) | two explicit callers besides main and timer, durations -1, 0, 1, 3, lateness beyond the grace, a largest duration of 3, so that deadlines overflow, a rollback that may fail, signals |
| `py_run` | types; `LeftBehindOnlyByGaps`, `DoubleRollbackOnlyInRace` (exactly which interleavings go wrong); `WindowKept`; `EvidenceHonest` | all entries, effects that outlive the process, two Ctrl-C: one to reach `recover`, one to break it; rollbacks that raise or do nothing, signals |
| `podkill` | types; `BlastRadius`; `SuccessIsComplete`; `LoneReplicaVerified`; `InjectReturns` (liveness) | three names, one or two replicas, `-count` 0 to 2, one eviction, kubectl reliable or not |
| `mysql` | types; `NoProcessLeft`; `KilledIsTrue`; `Released`, `EndsByItself` (liveness) | a server of three connections, `-connections` 0 to 3 (too few, allowed, too many), two other sessions |
| `podexec` | types; `SuccessMeansRolledBack`; `EvidenceReturned`; `LostOnlyWithAgent`; `DrainedFaultEnds` (liveness) | durations 0 and 3, every mode of the agent (experiment, dry run, refusal), every form of its timeline flag, an old file or none, a runtime that drains or not, an agent killed at any step |
| `process` | `AncestorsSpared`; `StraysAreStale`; `SuccessKills` | pid 1, the injector and two more, in every arrangement of parents, matches and zombies; one process started meanwhile |
| `host` | `NothingElseLeft`; `OvercommitIsARace`; `CutShortByPeerOnly`; `EffectEnds` (liveness) | two injectors of any two atoms, memory for two units, so that either mem fault fits and both together may not |
| `random` | `Replayable` | the seeds of both test suites, the ends of each range, the stuck seed; with and without `-iface`, in either language and replayed in either |

Many of these properties say *exactly when* something goes wrong rather than that
it never does, because it can. Every exception they name has been confirmed to be
necessary by taking it out:

- `LeftBehindOnlyByGaps` has six: a signal; a rollback that raises, or returns with
  the fault still on; the timer thread between `_recovered` and the rollback;
  Ctrl-C between an effect and its handle; Ctrl-C within `recover`; Ctrl-C within
  `start` for users of `run` or `experiment`. `docs/architecture.md:74` says that
  `recover` never raises, line 85 that every path of interruption rolls back, line
  86 that `tc`'s status 2 is success because the qdisc is gone.
- `EvidenceHonest`: the field `recovered` of the evidence is set before the
  rollback and can therefore be wrong with no Ctrl-C at all; then no `recover` is
  among the events. Both are wrong together when a handle was lost to Ctrl-C or
  the tool misreported the removal.
- `DoubleRollbackOnlyInRace`: both threads roll back only when the timer thread went
  through `recover` itself, whichever tested `_recovered` first.
- `LoneReplicaVerified`: with a second replica, an eviction, or a kubectl error the
  reported pod may be old, or the wait may end early.
- `LostOnlyWithAgent`: the agent leaves its fault in the pod only if something in
  the pod killed it, or it printed to a broken pipe. `exec.go:49-51`,
  `client.go:6-9`, `docs/architecture.md:115` and `README.md:132` claim the rollback
  without these conditions, which are outside the program: the second is a property
  of the container runtime, the first of the pod.
- `AncestorsSpared`: the comment at `process.go:19` says that ancestors are never
  matched. The walk ends at pid 1 without protecting it, so pid 1, which is an
  ancestor of everything, can be matched; it can even be reported as killed
  (`SuccessKills`), although the kernel spares it.
- `SuccessKills`: a signal that is counted without having killed went to a process
  that had ended by itself and was not yet reaped, or to pid 1.
- `StraysAreStale`: whatever is killed without matching had, after `Inject` began,
  been given the pid of a match or run another program under its own.
- `NothingElseLeft`: there is no signal handler (`main.go:387`), so SIGINT or
  SIGTERM leaves a qdisc, or a stress-ng in its own group, in the host;
  `docs/architecture.md:85` says that every path of interruption rolls back.
  A rollback that tc does not do leaves the qdisc as well, and is not tried again.
  Memory may be there for a while after `Recover`, which only drops the buffer.
- `OvercommitIsARace`: the gate can be passed by two mem faults together. The race
  is wider than check-then-use, since what is checked is memory in use and pages
  are in use only once touched: one injector may have injected long before.
- `CutShortByPeerOnly`: network faults on one interface take each other's qdisc
  away, and so does an administrator's; nothing else interferes.
- `Replayable`: Python records negative seeds, Go takes a negative `-seed` for
  "make one up". Beside it, `StuckSeed` shows one seed, 7046029254386353131, that
  the generator maps to zero, where it stays; the comment at `rng.go:13` says
  that there is none. Both languages agree on it, so its experiment is replayable,
  but each draw is the first of its menu.

Three runs end in a counterexample, and each stands for a disagreement between
the code and what the repository says of it:

| Run | What happens | Said in |
|---|---|---|
| `go_slow` | a rollback longer than two seconds: the deadline passes, `Run` finds `recovered` set, records `done` with the fault active | `experiment.go:105` |
| `py_exit` | the timer thread sets `_recovered`; main trusts it, writes its evidence and ends the interpreter before the rollback | `scheduler.py:36` |
| `podkill_survivor` | with two replicas the survivor is reported as the replacement | `podkill.go:17` |

`py_exit` shows the third gap of `LeftBehindOnlyByGaps` with no Ctrl-C, no signal
and a rollback that cannot fail.

Fairness. In `Experiment` the goroutines are scheduled preemptively, so each
makes progress; system calls return (a rollback that never returns is outside
the model); time passes. Nothing is assumed about signals, errors or the pace of
the main goroutine. `PodExec` assumes the same of the agent, and that kubectl
calls return, but not that the orchestrator lives or keeps its stream:
`DrainedFaultEnds` holds however it dies, and excepts the agent being killed. `PodKill` assumes that kubectl returns
and time passes, and nothing of the cluster: `InjectReturns` holds even if no pod
ever becomes Ready. `MySql` assumes that the server answers a client and notices a
dead one, that a SLEEP ends, and that a request for the table that waits in the
server's queue is granted when the table is free time and again (strong fairness);
not that anybody releases the table, which `EndsByItself` has as its premise. `Host` assumes that the
scheduler calls `Recover` on an active fault (what `Experiment` shows) and that Go
collects garbage, not that `touchPages` ever finishes, that stress-ng ends of
itself, or that tc agrees to the rollback. No deadlock check is switched off: a
process that has ended stutters explicitly (`Terminated`, `Ended`, `AllOver`,
`Over`).

Bounds. Two threads of the scheduler suffice for its races because all contend
for a single flag; `go_api` has four. Three pod names are what it takes to have
two replicas and one replacement. Four pids leave the injector up to two
ancestors below pid 1 or a bystander whose pid is freed and taken; a second
start has been run as well. The properties
of `Host` relate an injector to at most one other; three injectors have been run
as well, and the theorems hold for any number.

## 4. What is proved

All theorems hold for every value of the constants that satisfies the named
assumptions of the module (`CallersAssumption`, `TimesAssumption`, ...), which
say no more than of what type a constant is, that sets that are counted are finite
and that a duration is one a `time.Duration` can hold. Four things are needed beside them:

- `InBudget` is the command line used as intended: no explicit callers (it has
  none), a duration that is not negative (it does not check), a rollback that
  succeeds (the contract of `Fault.Recover`), and `Lateness <= Grace`, a rollback
  that fits into the safety bound. The last is necessary: `go_slow` is the
  counterexample when `Lateness` exceeds `Grace`. So is the first: a caller whose
  `Recover` comes before the injection uses the only rollback up
  (`experiment.go:88`), and the safety bound then lets `Run` record `done` with
  the fault active, although `experiment.go:80` calls `Recover` safe to call
  before `Start`.
- `Callers = {}` is its first part alone, for what does not depend on time.
- `BoundFits`, a part of `InBudget` that `KeepsWindow` needs too: no duration is so
  long that the sum with the two seconds overflows. Without it the deadline is in
  the past at once and `Run` rolls back before the window (292 years) is over.
- `SignalsAssumption`: the agent in a pod can be killed by a signal, which is how
  a broken pipe or something in the pod kills it.

| Module | Theorem | States | Beyond the module's assumptions |
|---|---|---|---|
| `ExperimentProofs` | `TypeCorrect` | `TypeOK` | |
| | `RollsBackOnce` | `OneRollback` | |
| | `KeepsWindow` | `WindowKept` | `Callers = {}`, `BoundFits` |
| | `FailsInert` | `FailedStartIsInert` | `Callers = {}` |
| | `ConfirmsRollback` | `RunConfirmsRollback` | `InBudget` |
| | `CompletesEvidence` | `EvidenceComplete` | `InBudget` |
| | `RefinesRollback` | `Safety => Promise!Safety` | `InBudget` |
| `PodExecProofs` | `AgentIsExperiment` | `PodSafety => Safety` | |
| | `AgentKeepsPromise` | `PodSafety => Promise!Safety` | `InBudget` |
| | `PodTypeCorrect` | `PodTypeOK` | |
| | `SuccessIsRollback` | `SuccessMeansRolledBack` | `InBudget` |
| | `SuccessReturnsEvidence` | `EvidenceReturned` | `InBudget` |
| | `LosesOnlyWithAgent` | `LostOnlyWithAgent` | `InBudget` |
| `PyExperimentProofs` | `TypeCorrect` | `TypeOK` | |
| | `KeepsWindow` | `WindowKept` | |
| | `RacesOnceAtMost` | `DoubleRollbackOnlyInRace` | |
| | `TellsTheTruth` | `EvidenceHonest` | |
| | `NoOtherGap` | `LeftBehindOnlyByGaps` | |
| `PodKillProofs` | `TypeCorrect` | `TypeOK` | |
| | `LimitsBlastRadius` | `BlastRadius` | |
| | `SucceedsCompletely` | `SuccessIsComplete` | |
| | `VerifiesLoneReplica` | `LoneReplicaVerified` | |
| `MySqlProofs` | `TypeCorrect` | `TypeOK` | |
| | `LeavesNoProcess` | `NoProcessLeft` | |
| | `CountsTruly` | `KilledIsTrue` | |
| `ProcessKillProofs` | `SparesAncestors` | `AncestorsSpared` | |
| | `KillsOnlyStale` | `StraysAreStale` | |
| | `SuccessIsAKill` | `SuccessKills` | |
| `HostProofs` | `TypeCorrect` | `TypeOK` | |
| | `LeavesNothingElse` | `NothingElseLeft` | |
| | `DisturbsOnlyPeers` | `CutShortByPeerOnly`, an action property | |
| | `GateFailsByRace` | `OvercommitIsARace` | |
| `RandomDecisionProofs` | `Replays` | `Replayable` | |

Hardly any of these properties is inductive as it stands. What each proof adds,
and why:

### Experiment

*One rollback*: `OneRollbackInv` adds that a goroutine at work on the rollback,
and a rollback on the timeline, each imply `recovered`; the step that matters is
`Claim`, where the mutex makes test and set one.

*Window*: `OrderInv` says that nobody else does anything before main has armed the
timer; `WindowInv` compares the two clocks. While main polls, its deadline is
no closer than the timer's expiry plus `Grace`, as both count down together;
before that, `fireIn` is at most `duration`. Neither how late the timer is nor
the sign of the duration matters.

*Confirmation* rests on `ConfirmInv`. Main leaves its loop either because the
timeline says so, or because `left < 0`. The second needs the clock: `left` is
set to `duration + Grace` no earlier than the timer is started with `duration`,
so while main polls `left >= fireIn + Grace`; a timer still at work has
`fireIn >= -Lateness`; hence `left < 0` and `Lateness <= Grace` exclude it. With
`Lateness = Grace + 1` this step, and only this one, fails to prove.

*Evidence*: `TimelineInv` gives the timeline at every moment as a function of the
two program counters, up to the place of `armed`, which the timer goroutine may
overtake; the lemmas `UnarmedAppend`, `ArmedAppend` and `ArmedAsPhaseAppend` say
that each phase is appended where it is due.

*Refinement* maps `fault` and `verdict` to expressions over `effect`, the main
program counter and the timeline; each step of `Experiment` is an abstract step
or a stutter. `ConfirmInv` and `StartInv` are what rules out the steps that would
be neither, a rollback before the injection or a `done` before the rollback.

### PodExec

`AgentIsExperiment` makes every theorem about `Experiment` one about the agent:
each step of the pair is one of the agent's or leaves its variables alone, and a
broken pipe or the pod kills it where a signal could. `PodInv` follows what the orchestrator
concludes: status zero means that main came to its exit, with the file written
when one was asked for; there `ConfirmInv` and `EvidenceInv` say the rest.

### PyExperiment

`StartInv` says what cannot have happened before the timer is armed, `ClockInv`
that nobody is on the way to a rollback while the clock runs, `RaceInv` counts at
most one rollback for each thread that is past its own, `HonestInv` that what went
through `fault.recover` is gone unless it is *excused*: the fault object could not
know it, or the rollback failed. `FileInv` says what evidence that claims `recovered` about a fault still on can
rest on: a lost handle, a rollback that went wrong, or a timer thread still to roll
back. `GapInv` says that
a fault nobody has rolled back has a thread on its way or is lost to one of the
gaps. No number of Ctrl-C adds another gap.

### PodKill

`TargetInv` ties the pods deleted so far to the position in the target list.
`WaitInv` says that a wait reports something exactly when it ends well.
*Lone replica* needs the cluster's side too: a Deployment never has more live
pods than replicas (`AliveInv`), so with one replica and nobody else about the
only pod that ever stops is the one `Inject` deleted, and every other pod a round
has listed is still listed when it is queried (`LoneInv`).

### MySql

`HolderInv`: a running holder is one that `clients` names, and `clients` is empty
wherever the atom has failed or recovered. `BatchInv`: the sessions ended and
those still in the batch make up the matched ones.

### ProcessKill

`WalkInv` is what survives a process table that changes behind the walk: there is
a set of protected pids, with pid 1, that holds the injector and is closed under
parent, but for where the cursor stands. Since orphans go to pid 1 the chain of
ancestors may shrink behind the walk and never grows, so at the end that set
holds the whole of it. `StrayInv` and `KillInv` follow what a signal can meet: a
match, a pid taken or a program run since, pid 1, or a process that has already
ended: of every pid that was counted `KillInv` keeps which of these it was.

### Host

*Nothing else left*: a `Recover` could find no handle and leave the process group
behind. `Knows` adds what an injector's fault object has to know: a live group of
an injector that was not killed is the one its `handle` names, and that injector has its rollback
still to come, a listener on the
port belongs to the injector that has the handle for it and conversely, and a
netem is a network fault's. *Disturbs only peers* uses the same invariant: a step
of one injector ends the effect of another only by way of a resource that both
hold, `Knows` excludes that for groups, buffers and the port, and the root qdisc
is what is left.

*Overcommit*: `GateInv` says that whatever the gate let through fits beside the
memory it saw in use, `LastInv` that among faults of which any two saw each other
one saw all the rest: the last admitted. Its sum is therefore the sum of all, and
that fits. The proof needs what a sum over a finite set is: the lemmas from
`LeastNatural` to `TotalGrows` derive it from the definition of `MapThenSumSet`,
by a smallest counterexample in a well-founded order where one would use
induction.

### RandomDecision

`CourseInv` says that the decision so far follows the *course* of the recorded
seed, the states from `Seeded` on, and `OriginalInv` says the same of the one
that is replayed. Two courses of one seed agree (`CoursesAgree`, again by a
smallest counterexample), and the menus of the two languages are the same
(`SameMenus`), so the decisions are.

### Only model-checked

Every invariant and action property of a passing run is proved. With TLC stay:

- liveness (`FaultEnds`, `RunReturns`, `InjectReturns`, `Released`,
  `EndsByItself`, `DrainedFaultEnds`, `EffectEnds` and the fairness part of
  `ImplementsRollback`), which needs ENABLED, out of the prover's reach;
- what `SeededRng` computes (`CanonicalSequence`, `StuckSeed`): the prover knows
  nothing of the bitwise operators. That the agreement of the two languages does
  not depend on it is what `Replays` shows;
- the three runs that end in a counterexample.

## 5. Plan

The modules planned are written and their safety is proved. What is left, most
important first:

1. An abstract specification for the atoms beside `Rollback` (an injection takes
   effect whole or not at all, a rollback removes it), and `MySql` and an injector
   of `Host` shown to implement it.
2. `PyExperiment` shown to implement `Rollback` for behaviours without its gaps.
3. The theorems about `Experiment` that now assume `InBudget`, with explicit
   callers that call `Recover` only after `Start` has returned.

## 6. Not modelled

- The environment snapshots: evidence about the host, without effect on the
  experiment. `LoadGate` and `MemAvailableMB` are in `RandomDecision` and `Host`,
  by what they decide.
- Flag parsing, usage texts and printing, except where a flag changes what is done
  (`-confirm`, `-dry-run`, `-timeline`, `-seed`, `-iface`).
- The fault registry and the platform stubs: tables and constants.
- The Python orchestrator (`k8s.py`) and the Python atoms apart from what they do
  to the scheduler: they take the steps of the modelled Go ones. An exception is
  `_terminate_process_tree` (`faults.py:278`), which sends SIGTERM to the process
  group of a stress-ng that was started in the injector's own group; whether the
  injector is hit depends on whether stress-ng makes a group for itself.
- Time stamps of events, the fractions of a second that SLEEP loses, and duty
  cycles.
