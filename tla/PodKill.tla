------------------------------- MODULE PodKill -------------------------------
(***************************************************************************)
(* The pod-kill atom (go/internal/fault/podkill.go) over kubectl           *)
(* (go/internal/k8s/client.go), with the part of Kubernetes it talks to: a *)
(* Deployment that keeps a number of pods alive, the kubelets that start   *)
(* and stop them, and somebody else who may delete pods too.               *)
(*                                                                         *)
(* Every kubectl call is one step; the cluster moves between any two of    *)
(* them.  Names are never used twice.  The cluster is external to the      *)
(* program: its actions say what the code may find, not how it works.      *)
(***************************************************************************)
EXTENDS Naturals, FiniteSets, SequencesExt

CONSTANTS
  Pods,          \* bound: the names pods can ever have, all matching the selector
  NoPod,         \* an empty -pod, or no pod observed
  Replicas,      \* the values the Deployment's replica count may have
  Counts,        \* the values -count may have
  MaxEvictions   \* bound: how many pods somebody else deletes

ASSUME PodsAssumption == IsFiniteSet(Pods) /\ NoPod \notin Pods
ASSUME CountsAssumption == Counts \subseteq Nat /\ Replicas \subseteq Nat
ASSUME EvictionsAssumption == MaxEvictions \in Nat

VARIABLES
  flags,      \* -pod, -count and whether -wait-ready is positive
  replicas,   \* the Deployment's replica count
  status,     \* what the API server says of each pod
  evictions,  \* how many pods somebody else has deleted
  flaky,      \* kubectl may fail for reasons of its own
  pc,         \* where Check and Inject are
  targets,    \* PodKillFault.targets
  names,      \* the list WaitForReplacement is going through
  at,         \* the position in targets, then in names
  expired,    \* the deadline of WaitForReplacement has passed
  healed,     \* PodKillFault.healed
  old,        \* history: the pods listed when Inject chose its targets
  deleted     \* history: the pods DeletePod has deleted

cluster == <<replicas, status, evictions, flaky>>
vars == <<flags, cluster, pc, targets, names, at, expired, healed, old, deleted>>

\* A deleted pod stays listed until its containers are gone, and Ready until its
\* kubelet stops them ("terminating").
Listed == {p \in Pods : status[p] \in {"pending", "ready", "terminating", "stopping"}}
Alive == {p \in Pods : status[p] \in {"pending", "ready"}}
IsReady(p) == status[p] \in {"ready", "terminating"}

\* DeletePod does not wait: the API server only marks the pod.
Marked(p) == [status EXCEPT ![p] = IF IsReady(p) THEN "terminating" ELSE "stopping"]

Init ==
  /\ flags \in [pod : Pods \union {NoPod}, count : Counts, wait : BOOLEAN]
  /\ replicas \in Replicas
  /\ status \in [Pods -> {"absent", "pending", "ready"}]
  /\ Cardinality(Alive) = replicas
  /\ evictions = 0 /\ flaky \in BOOLEAN
  /\ pc = "check"
  /\ targets = <<>> /\ names = <<>> /\ at = 1
  /\ expired = FALSE /\ healed = NoPod
  /\ old = {} /\ deleted = {}

-----------------------------------------------------------------------------
(* Check, called by the scheduler and again by Inject, which chooses anew. *)

\* A count below one means one; the list is cut to it.
Limit == IF flags.count < 1 THEN 1 ELSE flags.count
Whole(list) == list   \* mutant: the list is not cut
Cut(list) == IF Len(list) > Limit THEN SubSeq(list, 1, Limit) ELSE list

Selections ==
  IF flags.pod # NoPod THEN {<<p>> : p \in {flags.pod} \intersect Listed}
  ELSE {Cut(list) : list \in SetToSeqs(Listed) \ {<<>>}}

ChooseTargets ==
  /\ ~(flags.wait /\ flags.pod # NoPod)
  /\ targets' \in Selections

Check ==
  /\ pc = "check"
  /\ ChooseTargets
  /\ pc' = "inject"
  /\ UNCHANGED <<flags, cluster, names, at, expired, healed, old, deleted>>

Inject ==
  /\ pc = "inject"
  /\ ChooseTargets
  /\ old' = Listed
  /\ pc' = "delete"
  /\ UNCHANGED <<flags, cluster, names, at, expired, healed, deleted>>

CheckFails ==
  /\ pc \in {"check", "inject"}
  /\ flaky \/ (flags.wait /\ flags.pod # NoPod) \/ Selections = {}
  /\ pc' = "failed"
  /\ UNCHANGED <<flags, cluster, targets, names, at, expired, healed, old, deleted>>

-----------------------------------------------------------------------------
(* The deletions, one kubectl call each.                                   *)

DeletePod ==
  /\ pc = "delete"
  /\ targets[at] \in Listed
  /\ status' = Marked(targets[at])
  /\ deleted' = deleted \union {targets[at]}
  /\ at' = at + 1
  /\ pc' = IF at < Len(targets) THEN "delete" ELSE IF flags.wait THEN "poll" ELSE "injected"
  /\ UNCHANGED <<flags, replicas, evictions, flaky, targets, names, expired, healed, old>>

\* Mutant: a failed deletion is passed over.
DeletePassedOver ==
  /\ pc = "delete"
  /\ flaky \/ targets[at] \notin Listed
  /\ at' = at + 1
  /\ pc' = IF at < Len(targets) THEN "delete" ELSE IF flags.wait THEN "poll" ELSE "injected"
  /\ UNCHANGED <<flags, cluster, targets, names, expired, healed, old, deleted>>

\* The pod is gone, or kubectl fails: Inject gives up, whatever it has deleted.
DeleteFails ==
  /\ pc = "delete"
  /\ flaky \/ targets[at] \notin Listed
  /\ pc' = "failed"
  /\ UNCHANGED <<flags, cluster, targets, names, at, expired, healed, old, deleted>>

-----------------------------------------------------------------------------
(* WaitForReplacement: rounds of one list and one query per listed pod.    *)

\* Mutants: the deadline is not looked at; the first index is zero.
PollForever ==
  /\ pc = "poll"
  /\ names' \in SetToSeqs(Listed)
  /\ at' = 1
  /\ pc' = "probe"
  /\ UNCHANGED <<flags, cluster, targets, expired, healed, old, deleted>>

PollFromZero ==
  /\ pc = "poll" /\ ~expired
  /\ names' \in SetToSeqs(Listed)
  /\ at' = 0
  /\ pc' = "probe"
  /\ UNCHANGED <<flags, cluster, targets, expired, healed, old, deleted>>

Poll ==
  /\ pc = "poll" /\ ~expired
  /\ names' \in SetToSeqs(Listed)
  /\ at' = 1
  /\ pc' = "probe"
  /\ UNCHANGED <<flags, cluster, targets, expired, healed, old, deleted>>

ExcludedNone(p) == FALSE   \* mutant: the deleted pod counts as its own replacement
Excluded(p) == p = targets[1]

\* The pod at hand is skipped, or queried and found not Ready.
NotThisOne ==
  /\ pc = "probe" /\ at <= Len(names)
  /\ Excluded(names[at]) \/ (names[at] \in Listed /\ ~IsReady(names[at]))
  /\ at' = at + 1
  /\ UNCHANGED <<flags, cluster, pc, targets, names, expired, healed, old, deleted>>

Heal ==
  /\ pc = "probe" /\ at <= Len(names)
  /\ ~Excluded(names[at]) /\ IsReady(names[at])
  /\ healed' = names[at]
  /\ pc' = "injected"
  /\ names' = <<>> /\ at' = 1
  /\ UNCHANGED <<flags, cluster, targets, expired, old, deleted>>

NextRound ==
  /\ pc = "probe" /\ at > Len(names)
  /\ pc' = "poll"
  /\ names' = <<>> /\ at' = 1
  /\ UNCHANGED <<flags, cluster, targets, expired, healed, old, deleted>>

\* A listed pod that has vanished since makes kubectl fail as well.
WaitFails ==
  /\ \/ pc = "poll" /\ (expired \/ flaky)
     \/ pc = "probe" /\ at <= Len(names) /\ ~Excluded(names[at])
        /\ (flaky \/ names[at] \notin Listed)
  /\ pc' = "failed"
  /\ names' = <<>> /\ at' = 1
  /\ UNCHANGED <<flags, cluster, targets, expired, healed, old, deleted>>

Expire ==
  /\ pc \in {"poll", "probe"} /\ ~expired
  /\ expired' = TRUE
  /\ UNCHANGED <<flags, cluster, pc, targets, names, at, healed, old, deleted>>

-----------------------------------------------------------------------------
(* Kubernetes.                                                             *)

Turn(p, from, to) == status[p] \in from /\ status' = [status EXCEPT ![p] = to]

Create(p) == Cardinality(Alive) < replicas /\ Turn(p, {"absent"}, "pending")
BecomeReady(p) == Turn(p, {"pending"}, "ready")
StopContainers(p) == Turn(p, {"terminating"}, "stopping")
Vanish(p) == Turn(p, {"stopping"}, "gone")

Evict(p) ==
  /\ evictions < MaxEvictions
  /\ p \in Alive
  /\ evictions' = evictions + 1
  /\ status' = Marked(p)

Kubernetes ==
  /\ \E p \in Pods :
       \/ Evict(p)
       \/ /\ Create(p) \/ BecomeReady(p) \/ StopContainers(p) \/ Vanish(p)
          /\ UNCHANGED evictions
  /\ UNCHANGED <<flags, replicas, flaky, pc, targets, names, at, expired, healed, old,
                 deleted>>

-----------------------------------------------------------------------------
Terminated == pc \in {"injected", "failed"} /\ UNCHANGED vars

Atom ==
  \/ Check \/ Inject \/ CheckFails \/ DeletePod \/ DeleteFails
  \/ Poll \/ NotThisOne \/ Heal \/ NextRound \/ WaitFails

Next == Atom \/ Expire \/ Kubernetes \/ Terminated

Safety == Init /\ [][Next]_vars

\* kubectl returns and time passes; the cluster need not do anything.
Spec == Safety /\ WF_vars(Atom) /\ WF_vars(Expire)

-----------------------------------------------------------------------------
(* Properties.                                                             *)

\* Every variable stays in its domain.
Statuses == {"absent", "pending", "ready", "terminating", "stopping", "gone"}
TypeOK ==
  /\ flags \in [pod : Pods \union {NoPod}, count : Counts, wait : BOOLEAN]
  /\ replicas \in Replicas /\ evictions \in 0 .. MaxEvictions /\ flaky \in BOOLEAN
  /\ status \in [Pods -> Statuses]
  /\ pc \in {"check", "inject", "delete", "poll", "probe", "injected", "failed"}
  /\ targets \in Seq(Pods) /\ names \in Seq(Pods)
  /\ at \in Nat \ {0}
  /\ expired \in BOOLEAN /\ healed \in Pods \union {NoPod}
  /\ old \subseteq Pods /\ deleted \subseteq Pods

\* The blast radius: although the targets are chosen twice, and the cluster moves
\* in between, never more than -count pods (one, if it says less) are deleted,
\* and no pod that appeared after Inject chose is among them.
BlastRadius == Cardinality(deleted) <= Limit /\ deleted \subseteq old

\* Inject only succeeds with every target deleted and, when it was asked to
\* wait, with a replacement to show.
SuccessIsComplete ==
  pc = "injected" => deleted = ToSet(targets) /\ (flags.wait <=> healed # NoPod)

\* The replacement WaitForReplacement reports is a pod the cluster created after
\* the targets were chosen.
HealedIsNew == healed \notin old

\* A lone replica that nobody else touches is verified properly: what is
\* reported is new, and the wait is not given up before its timeout.
Undisturbed == replicas = 1 /\ evictions = 0 /\ ~flaky
LoneReplicaVerified ==
  Undisturbed =>
    /\ HealedIsNew
    /\ pc = "failed" /\ deleted # {} /\ deleted = ToSet(targets) => expired

\* Inject returns, even when no replacement ever becomes Ready.
InjectReturns == <>(pc \in {"injected", "failed"})
=============================================================================
