------------------------------ MODULE PodExec ------------------------------
(***************************************************************************)
(* k8s exec: the orchestrator (cmdK8sExec and RunPodExperiment) copies the *)
(* agent into a pod, makes it executable, runs it there through kubectl    *)
(* exec and copies its timeline back.  The agent is the Go program itself: *)
(* the variables and steps of Experiment are the agent's, the other        *)
(* variables are the orchestrator's and those of the stream between them.  *)
(*                                                                         *)
(* The agent prints every event it records.  Once kubectl exec is gone, it *)
(* depends on the container runtime whether somebody still reads the       *)
(* agent's output (drained) or the pipe is broken; a Go program that       *)
(* writes to a broken standard output dies of SIGPIPE, the goroutine that  *)
(* writes never getting any further.  And the pod may kill it: the OOM     *)
(* killer, or the restart of its container after the fault has made the    *)
(* pod fail its liveness probe, which leaves the network of the pod as it  *)
(* is.                                                                     *)
(***************************************************************************)
EXTENDS Experiment

CONSTANTS
  Modes,   \* what the agent's flags make it do: "run" (-confirm), "dry"
           \* (-dry-run), "refuse" (neither)
  Forms    \* how the agent is asked for a timeline: "none", "pair" (-timeline
           \* path), "joined" (-timeline=path or --timeline path)

ASSUME ModesAssumption == Modes \subseteq {"run", "dry", "refuse"}
ASSUME FormsAssumption == Forms \subseteq {"none", "pair", "joined"}
ASSUME SignalsAssumption == Signals   \* the agent may be killed

VARIABLES
  setup,    \* [mode, form; leftover: the pod has a timeline file of an earlier
            \* experiment; drained: the runtime reads what nobody waits for]
  orch,     \* where the orchestrator is
  agent,    \* "none", "running", or ended with status "zero" or "nonzero"
  broken,   \* nobody reads the agent's standard output
  choked,   \* the goroutines that have written to the broken pipe
  slain,    \* something in the pod has killed the agent
  local     \* the timeline file the orchestrator copied back

podvars == <<vars, setup, orch, agent, broken, choked, slain, local>>

Files == {"none", "old", "new"}
Ended == {"refused", "failed", "ok", "killed"}
OrchLabels == {"gates", "copy", "chmod", "launch", "stream", "fetch"} \union Ended

PodInit ==
  /\ Init
  /\ setup \in [mode : Modes, form : Forms, leftover : BOOLEAN, drained : BOOLEAN]
  /\ orch = "gates"
  /\ agent = "none"
  /\ broken = FALSE /\ choked = {} /\ slain = FALSE
  /\ local = "none"

-----------------------------------------------------------------------------
(* The orchestrator.                                                       *)

OnlyOrch == UNCHANGED <<vars, setup, agent, broken, choked, slain, local>>

\* A pod, a known atom, an agent binary, no -dry-run, -confirm: or it refuses.
Gates == orch = "gates" /\ orch' \in {"copy", "refused"} /\ OnlyOrch

CopyToPod == orch = "copy" /\ orch' \in {"chmod", "failed"} /\ OnlyOrch

Chmod == orch = "chmod" /\ orch' \in {"launch", "failed"} /\ OnlyOrch

\* ExecStream: kubectl starts the agent, or fails before it does.
Launch ==
  /\ orch = "launch"
  /\ \/ orch' = "stream" /\ agent' = "running"
     \/ orch' = "failed" /\ UNCHANGED agent
  /\ UNCHANGED <<vars, setup, broken, choked, slain, local>>

\* timelineFlagValue knows only the two-argument form.
Wanted == setup.form = "pair"

\* Mutant: the agent's status is passed on as it is.
AgentEndsRaw ==
  /\ orch = "stream"
  /\ agent \in {"zero", "nonzero"}
  /\ orch' = IF Wanted THEN "fetch" ELSE agent
  /\ OnlyOrch

\* kubectl exec ends with the agent's exit status.
AgentEnds ==
  /\ orch = "stream"
  /\ agent \in {"zero", "nonzero"}
  /\ orch' = IF agent = "nonzero" THEN "failed" ELSE IF Wanted THEN "fetch" ELSE "ok"
  /\ OnlyOrch

Disconnect(outcome) ==
  /\ orch' = outcome
  /\ broken' = (broken \/ (agent = "running" /\ ~setup.drained))
  /\ UNCHANGED <<vars, setup, agent, choked, slain, local>>

\* Mutant: a lost connection is taken for the end of the agent.
StreamLostGoesOn == orch = "stream" /\ Disconnect(IF Wanted THEN "fetch" ELSE "ok")

\* kubectl exec fails although the agent goes on.
StreamLost == orch = "stream" /\ Disconnect("failed")

\* Mutant: the agent is the orchestrator's child and dies with it.
KillBoth ==
  /\ orch \notin Ended
  /\ orch' = "killed"
  /\ IF agent = "running" THEN Die /\ agent' = "nonzero" ELSE UNCHANGED <<vars, agent>>
  /\ UNCHANGED <<setup, broken, choked, slain, local>>

\* The orchestrator is killed; kubectl, its child, may be killed with it.
Kill ==
  /\ orch \notin Ended
  /\ Disconnect("killed") \/ (orch' = "killed" /\ OnlyOrch)

PodFile == IF evidence # NoEvidence THEN "new" ELSE IF setup.leftover THEN "old" ELSE "none"

\* Mutant: the error of kubectl cp is ignored.
CopyFromPodLax ==
  /\ orch = "fetch"
  /\ orch' = "ok" /\ local' \in {local, PodFile}
  /\ UNCHANGED <<vars, setup, agent, broken, choked, slain>>

\* CopyFromPod: it fails, too, when there is no such file.
CopyFromPod ==
  /\ orch = "fetch"
  /\ \/ PodFile # "none" /\ orch' = "ok" /\ local' = PodFile
     \/ orch' = "failed" /\ UNCHANGED local
  /\ UNCHANGED <<vars, setup, agent, broken, choked, slain>>

Orchestrate == Gates \/ CopyToPod \/ Chmod \/ Launch \/ AgentEnds \/ CopyFromPod

-----------------------------------------------------------------------------
(* The agent: runExperiment in the pod.                                    *)

\* Its own gates, before there is an experiment.
AgentDeclines ==
  /\ agent = "running" /\ up
  /\ setup.mode # "run"
  /\ agent' = IF setup.mode = "dry" THEN "zero" ELSE "nonzero"
  /\ Die
  /\ UNCHANGED <<setup, orch, broken, choked, slain, local>>

Status == IF pc[Main] = "exit" /\ (setup.form = "none" \/ evidence # NoEvidence)
          THEN "zero" ELSE "nonzero"

Prints == timeline' # timeline \/ evidence' # evidence

\* What a step of goroutine t means for the rest: whatever it records it prints.
Alongside(t) ==
  /\ agent = "running" /\ up
  /\ setup.mode = "run"
  /\ t \notin choked
  /\ setup.form = "none" => evidence' = evidence
  /\ choked' = IF broken /\ Prints THEN choked \union {t} ELSE choked
  /\ agent' = IF up' THEN agent ELSE Status
  /\ UNCHANGED <<setup, orch, broken, slain, local>>

AgentMain == MainStep /\ Alongside(Main)
AgentTimer == TimerStep /\ Alongside(Timer)
AgentTick ==
  /\ agent = "running" /\ up
  /\ Tick
  /\ UNCHANGED <<setup, orch, agent, broken, choked, slain, local>>

\* SIGPIPE.
Choke ==
  /\ agent = "running" /\ up
  /\ choked # {}
  /\ Interrupt
  /\ agent' = "nonzero"
  /\ UNCHANGED <<setup, orch, broken, choked, slain, local>>

\* SIGKILL by something in the pod.
AgentKilled ==
  /\ agent = "running" /\ up
  /\ Interrupt
  /\ agent' = "nonzero"
  /\ slain' = TRUE
  /\ UNCHANGED <<setup, orch, broken, choked, local>>

AllOver == orch \in Ended /\ agent # "running" /\ UNCHANGED podvars

PodNext ==
  \/ Orchestrate \/ StreamLost \/ Kill
  \/ AgentDeclines \/ AgentMain \/ AgentTimer \/ AgentTick \/ Choke \/ AgentKilled
  \/ AllOver

PodSafety == PodInit /\ [][PodNext]_podvars

\* kubectl calls return, the agent is scheduled like any Go program.
PodSpec ==
  /\ PodSafety
  /\ WF_podvars(Orchestrate)
  /\ WF_podvars(AgentDeclines) /\ WF_podvars(AgentMain) /\ WF_podvars(AgentTimer)
  /\ WF_podvars(AgentTick) /\ WF_podvars(Choke)

-----------------------------------------------------------------------------
(* Properties.                                                             *)

\* Every variable stays in its domain.
PodTypeOK ==
  /\ TypeOK
  /\ setup \in [mode : Modes, form : Forms, leftover : BOOLEAN, drained : BOOLEAN]
  /\ orch \in OrchLabels
  /\ agent \in {"none", "running", "zero", "nonzero"}
  /\ broken \in BOOLEAN /\ choked \subseteq {Main, Timer} /\ slain \in BOOLEAN
  /\ local \in Files

\* When k8s exec reports success for an experiment, the fault in the pod has
\* been rolled back, however its stream and its calls fared.
SuccessMeansRolledBack ==
  orch = "ok" /\ setup.mode = "run" => ~effect /\ recovered /\ Recorded("recover")

\* When it was asked for a timeline (as two arguments), success also means that
\* the local file is the complete evidence of this very experiment.
EvidenceReturned ==
  orch = "ok" /\ setup.mode = "run" /\ Wanted =>
    local = "new" /\ Complete(evidence)

\* The agent owns the rollback: the fault stays in the pod only when something in
\* the pod killed the agent, or a broken pipe did, and that takes a runtime that
\* does not read on.  The end of the orchestrator or of the stream, whenever it
\* comes, is not enough.
LostOnlyWithAgent ==
  ~up /\ effect => slain \/ (choked # {} /\ broken /\ ~setup.drained)

\* The orchestrator may die at any step: as long as somebody reads the agent's
\* output and nothing in the pod kills the agent, its fault is eventually gone.
DrainedFaultEnds == (setup.drained /\ effect) ~> (~effect \/ slain)
=============================================================================
