---------------------------- MODULE PodExecProofs ----------------------------
(***************************************************************************)
(* Theorems about PodExec, for every value of its constants: the agent in  *)
(* the pod runs the very experiment of Experiment, so what is proved of    *)
(* that one holds of the agent, and the orchestrator learns of it through  *)
(* the agent's exit status and its timeline file.                          *)
(***************************************************************************)
EXTENDS PodExec, ExperimentProofs

-----------------------------------------------------------------------------
(* The agent is an Experiment.                                             *)

LEMMA AgentStep == [PodNext]_podvars => [Next]_vars
<1> SUFFICES ASSUME [PodNext]_podvars PROVE [Next]_vars
  OBVIOUS
<1>1. CASE Orchestrate \/ StreamLost \/ Kill \/ AllOver \/ UNCHANGED podvars
  BY <1>1 DEF Orchestrate, Gates, CopyToPod, Chmod, Launch, AgentEnds, CopyFromPod,
     StreamLost, Kill, Disconnect, OnlyOrch, AllOver, podvars
<1>2. CASE AgentDeclines \/ Choke \/ AgentKilled
  BY <1>2, SignalsAssumption DEF AgentDeclines, Choke, AgentKilled, Interrupt, Next, Step
<1>3. CASE AgentMain \/ AgentTimer \/ AgentTick
  BY <1>3 DEF AgentMain, AgentTimer, AgentTick, Alongside, Next, Step
<1>4. QED
  BY <1>1, <1>2, <1>3 DEF PodNext

\* Whatever the orchestrator, the stream and the pod do, what happens in the pod
\* is a behaviour of Experiment: the connection and the
\* pod can stop the agent, at a point where a signal could have stopped it, and have
\* no other hold on it.
THEOREM AgentIsExperiment == PodSafety => Safety
<1>1. PodInit => Init
  BY DEF PodInit
<1>2. QED
  BY <1>1, AgentStep, PTL DEF PodSafety, Safety

\* Within the budget of Experiment the agent keeps the promise of Rollback, whoever
\* dies or loses the stream: its fault is injected once, taken back at most once,
\* and "done" is recorded only after that.
THEOREM AgentKeepsPromise ==
  ASSUME InBudget
  PROVE  PodSafety => Promise!Safety
BY AgentIsExperiment, RefinesRollback, PTL

-----------------------------------------------------------------------------
(* Type correctness.                                                       *)

PodTypes ==
  /\ setup \in [mode : Modes, form : Forms, leftover : BOOLEAN, drained : BOOLEAN]
  /\ orch \in OrchLabels
  /\ agent \in {"none", "running", "zero", "nonzero"}
  /\ broken \in BOOLEAN /\ choked \subseteq {Main, Timer} /\ slain \in BOOLEAN
  /\ local \in Files

LEMMA PodTypesStep == PodTypes /\ [PodNext]_podvars => PodTypes'
<1> SUFFICES ASSUME PodTypes, [PodNext]_podvars PROVE PodTypes'
  OBVIOUS
<1> USE DEF PodTypes, OrchLabels, Ended
<1>1. CASE Gates \/ CopyToPod \/ Chmod \/ AgentEnds
  BY <1>1 DEF Gates, CopyToPod, Chmod, AgentEnds, OnlyOrch
<1>2. CASE Launch
  BY <1>2 DEF Launch
<1>3. CASE CopyFromPod
  BY <1>3 DEF CopyFromPod, PodFile, Files
<1>4. CASE StreamLost \/ Kill
  <2>1. /\ orch' \in {"failed", "killed"}
        /\ broken' \in BOOLEAN
        /\ UNCHANGED <<setup, agent, choked, slain, local>>
    BY <1>4 DEF StreamLost, Kill, Disconnect, OnlyOrch
  <2>2. QED
    BY <2>1
<1>5. CASE AgentDeclines
  BY <1>5 DEF AgentDeclines
<1>6. ASSUME NEW t \in {Main, Timer}, Alongside(t) PROVE PodTypes'
  BY <1>6 DEF Alongside, Status
<1>7. CASE AgentTick \/ Choke \/ AgentKilled
  BY <1>7 DEF AgentTick, Choke, AgentKilled
<1>8. CASE AllOver \/ UNCHANGED podvars
  BY <1>8 DEF AllOver, podvars
<1>9. QED
  BY <1>1, <1>2, <1>3, <1>4, <1>5, <1>6, <1>7, <1>8
     DEF PodNext, Orchestrate, AgentMain, AgentTimer

\* Every variable of the pair stays in its domain.
THEOREM PodTypeCorrect == PodSafety => []PodTypeOK
<1>1. PodInit => PodTypes
  BY DEF PodInit, PodTypes, OrchLabels, Files
<1>2. TypeOK /\ PodTypes => PodTypeOK
  BY DEF PodTypes, PodTypeOK
<1>3. QED
  BY <1>1, <1>2, PodTypesStep, AgentIsExperiment, TypeCorrect, PTL DEF PodSafety
-----------------------------------------------------------------------------
(* What the orchestrator may conclude from the agent's end.                *)

\* The orchestrator only knows the agent's exit status and whether kubectl cp
\* succeeded.  The chain that makes this enough: "ok" needs status zero, status
\* zero needs main to have come to its exit, with the file written when one was
\* asked for, and there ConfirmInv and EvidenceInv say the rest.
PodInv ==
  /\ orch \in {"gates", "copy", "chmod", "launch"} => agent = "none"
  /\ orch \in {"fetch", "ok"} => agent = "zero"
  /\ agent = "zero" /\ setup.mode = "run" =>
       pc[Main] = "exit" /\ (setup.form = "none" \/ evidence # NoEvidence)
  /\ orch = "fetch" => Wanted
  /\ orch = "ok" /\ setup.mode = "run" /\ Wanted => local = "new"
  /\ setup.mode # "run" => ~effect
  /\ choked # {} => broken
  /\ broken => ~setup.drained
  /\ ~up /\ effect => slain \/ choked # {}

LEMMA PodInvInit == PodInit => PodInv
BY DEF PodInit, Init, PodInv

LEMMA OrchestratorStep ==
  ASSUME PodInv, PodTypes, Orchestrate \/ StreamLost \/ Kill
  PROVE  PodInv'
<1> USE DEF PodInv, Wanted
<1>1. CASE Gates \/ CopyToPod \/ Chmod
  BY <1>1 DEF Gates, CopyToPod, Chmod, OnlyOrch, vars
<1>2. CASE Launch
  BY <1>2 DEF Launch, vars
<1>3. CASE AgentEnds
  BY <1>3 DEF AgentEnds, OnlyOrch, vars
<1>4. CASE CopyFromPod
  BY <1>4 DEF CopyFromPod, PodFile, vars
<1>5. CASE StreamLost \/ Kill
  <2>1. orch' \in {"failed", "killed"} /\ UNCHANGED <<vars, setup, agent, choked, slain, local>>
    BY <1>5 DEF StreamLost, Kill, Disconnect, OnlyOrch
  <2>2. (broken' => broken \/ ~setup.drained) /\ (broken => broken')
    <3>1. \/ broken' = broken
          \/ broken' = (broken \/ (agent = "running" /\ ~setup.drained))
      BY <1>5 DEF StreamLost, Kill, Disconnect, OnlyOrch
    <3>2. CASE broken' = broken
      BY <3>2
    <3>3. CASE broken' = (broken \/ (agent = "running" /\ ~setup.drained))
      BY <3>3, Zenon
    <3>4. QED
      BY <3>1, <3>2, <3>3
  <2>3. QED
    BY <2>1, <2>2 DEF vars
<1>6. QED
  BY <1>1, <1>2, <1>3, <1>4, <1>5 DEF Orchestrate

\* Main ends the process only at its exit or after a failed start, and neither
\* has a fault to leave behind.
LEMMA MainEnds ==
  ASSUME InBudget, TypeOK, ConfirmInv, StartInv, MainStep, up
  PROVE  \/ up'
         \/ /\ pc[Main] \in {"exit", "failed"} /\ ~effect'
            /\ UNCHANGED <<pc, evidence>>
<1>1. CASE Exit
  <2>1. ~effect
    BY <1>1 DEF Exit, ConfirmInv, AfterRollback, StartInv, InertInv, NotInjected
  <2>2. QED
    BY <1>1, <2>1 DEF Exit, Die
<1>2. CASE ~Exit
  BY <1>2 DEF MainStep, Recover, Start, CheckPasses, StartFails, Inject, Injected,
     AfterFunc, Store, Armed, SetDeadline, LeaveLoop, Done, Write, Claim, StopTimer,
     FaultRecover, RecordRecover
<1>3. QED
  BY <1>1, <1>2

LEMMA AgentStepInv ==
  ASSUME InBudget, TypeOK, ConfirmInv, StartInv, PodInv,
         AgentDeclines \/ AgentMain \/ AgentTimer \/ AgentTick \/ Choke \/ AgentKilled
  PROVE  PodInv'
<1> USE DEF PodInv, Wanted
<1>1. CASE AgentDeclines
  BY <1>1 DEF AgentDeclines, Die
<1>2. CASE AgentMain
  BY <1>2, MainEnds DEF AgentMain, Alongside, Status
<1>3. CASE AgentTimer
  <2>1. up'
    BY <1>3 DEF AgentTimer, Alongside, TimerStep, Recover, Fire, RecordAuto, Claim,
       StopTimer, FaultRecover, RecordRecover
  <2>2. QED
    BY <1>3, <2>1 DEF AgentTimer, Alongside
<1>4. CASE AgentTick
  BY <1>4 DEF AgentTick, Tick
<1>5. CASE Choke
  BY <1>5 DEF Choke, Interrupt, Die
<1>6. CASE AgentKilled
  <2>1. /\ effect' => effect
        /\ UNCHANGED <<setup, orch, broken, choked, local, pc, evidence>>
        /\ slain' /\ agent' = "nonzero" /\ agent = "running"
    BY <1>6, Zenon DEF AgentKilled, Interrupt, Die
  <2>2. QED
    BY <2>1
<1>7. QED
  BY <1>1, <1>2, <1>3, <1>4, <1>5, <1>6

LEMMA PodInvStep ==
  ASSUME InBudget, TypeOK, ConfirmInv, StartInv, PodTypes, PodInv, [PodNext]_podvars
  PROVE  PodInv'
<1>1. CASE AllOver \/ UNCHANGED podvars
  BY <1>1 DEF AllOver, podvars, vars, PodInv, Wanted
<1>2. QED
  BY <1>1, OrchestratorStep, AgentStepInv DEF PodNext

LEMMA PodInvariants ==
  ASSUME InBudget
  PROVE  PodSafety => [](ConfirmInv /\ EvidenceInv /\ PodInv)
<1>1. Safety => [](TypeOK /\ ConfirmInv /\ StartInv)
  BY AllInvariants
<1>2. TypeOK /\ ConfirmInv /\ StartInv /\ PodTypes /\ PodInv /\ [PodNext]_podvars => PodInv'
  BY PodInvStep
<1>3. PodInit => PodTypes
  BY DEF PodInit, PodTypes, OrchLabels, Files
<1>4. Safety => []EvidenceInv
  BY EvidenceInvariant
<1>5. QED
  BY <1>1, <1>2, <1>3, <1>4, PodInvInit, PodTypesStep, AgentIsExperiment, PTL
     DEF PodSafety

\* Success of k8s exec means that the fault in the pod was rolled back and that
\* the rollback was recorded, for every duration and bound, whatever fails or is
\* lost on the way and whoever is killed.
THEOREM SuccessIsRollback ==
  ASSUME InBudget
  PROVE  PodSafety => []SuccessMeansRolledBack
<1>1. ConfirmInv /\ EvidenceInv /\ PodInv => SuccessMeansRolledBack
  <2> SUFFICES ASSUME ConfirmInv, EvidenceInv, PodInv, orch = "ok", setup.mode = "run"
               PROVE  ~effect /\ recovered /\ Recorded("recover")
    BY DEF SuccessMeansRolledBack
  <2>1. pc[Main] = "exit"
    BY DEF PodInv
  <2>2. ~effect /\ recovered
    BY <2>1 DEF ConfirmInv, AfterRollback
  <2>3. PICK k \in 4 .. 6 : timeline = ArmedAsPhase(k, 7)
    BY <2>1 DEF EvidenceInv, TimelineInv, BeforeArmed, BeforeTimer, PhasesOver
  <2>4. /\ 4 \in DOMAIN timeline /\ 5 \in DOMAIN timeline
        /\ timeline[4] = "recover" \/ timeline[5] = "recover"
    BY <2>3 DEF ArmedAsPhase, Lifecycle
  <2>5. QED
    BY <2>2, <2>4 DEF Recorded
<1>2. QED
  BY <1>1, PodInvariants, PTL

\* Success, when a timeline was asked for, also means that the local file is the
\* complete evidence of this experiment and no other.
THEOREM SuccessReturnsEvidence ==
  ASSUME InBudget
  PROVE  PodSafety => []EvidenceReturned
<1>1. EvidenceInv /\ PodInv => EvidenceReturned
  <2> SUFFICES ASSUME EvidenceInv, PodInv, orch = "ok", setup.mode = "run", Wanted
               PROVE  local = "new" /\ Complete(evidence)
    BY DEF EvidenceReturned
  <2>1. local = "new" /\ evidence # NoEvidence
    BY DEF PodInv, Wanted
  <2>2. QED
    BY <2>1 DEF EvidenceInv, EvidenceComplete
<1>2. QED
  BY <1>1, PodInvariants, PTL

\* An agent that nothing in its pod kills leaves its fault there only when it has
\* written to a broken pipe of a runtime that does not read on: no end of the
\* orchestrator or of the stream is enough, and the agent's own ends never are.
THEOREM LosesOnlyWithAgent ==
  ASSUME InBudget
  PROVE  PodSafety => []LostOnlyWithAgent
<1>1. PodInv => LostOnlyWithAgent
  BY DEF PodInv, LostOnlyWithAgent
<1>2. QED
  BY <1>1, PodInvariants, PTL
=============================================================================
