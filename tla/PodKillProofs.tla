---------------------------- MODULE PodKillProofs ----------------------------
(***************************************************************************)
(* Theorems about PodKill, for any set of pods, any replica and any count, *)
(* and any number of pods deleted by somebody else.                        *)
(***************************************************************************)
EXTENDS PodKill, FiniteSetTheorems, SequenceTheorems, TLAPS

-----------------------------------------------------------------------------
(* The inductive invariants.                                               *)

\* The targets are distinct, not more than asked for and, once Inject has chosen,
\* among the pods it saw; the loop deletes them one after the other.
TargetInv ==
  /\ \A i, j \in DOMAIN targets : i # j => targets[i] # targets[j]
  /\ Len(targets) <= Limit
  /\ pc \in {"check", "inject"} => deleted = {} /\ old = {} /\ at = 1
  /\ pc \in {"delete", "poll", "probe", "injected"} => targets # <<>> /\ ToSet(targets) \subseteq old
  /\ pc = "delete" => at <= Len(targets) /\ deleted = {targets[i] : i \in 1 .. (at - 1)}
  /\ pc \in {"poll", "probe", "injected"} => deleted = ToSet(targets)
  /\ deleted \subseteq old \intersect ToSet(targets)

\* A replacement is reported at the end of a wait and not before.
WaitInv ==
  /\ pc \in {"poll", "probe"} => flags.wait
  /\ pc # "injected" => healed = NoPod
  /\ pc = "injected" => (flags.wait <=> healed # NoPod)
  /\ healed # NoPod => healed # targets[1]

\* A Deployment never has more live pods than replicas.
AliveInv == Cardinality(Alive) <= replicas

\* With one replica and nobody else about, the only pod that ever stops is the
\* one Inject deletes, so that every other pod a round has listed stays listed.
LoneInv ==
  Undisturbed =>
    /\ \A p \in Pods : status[p] \in {"terminating", "stopping", "gone"} => p \in deleted
    /\ \A p \in old : p = targets[1]
    /\ pc = "probe" => \A i \in DOMAIN names : names[i] = targets[1] \/ names[i] \in Listed
    /\ pc = "failed" /\ deleted # {} /\ deleted = ToSet(targets) => expired

-----------------------------------------------------------------------------
(* The choice of the targets.                                              *)

\* kubectl lists every pod once, in an order nobody knows.
LEMMA ListElements ==
  ASSUME NEW S, IsFiniteSet(S), NEW q \in SetToSeqs(S)
  PROVE  /\ q \in Seq(S) /\ Len(q) \in Nat
         /\ \A i, j \in 1 .. Len(q) : i # j => q[i] # q[j]
<1> DEFINE n == Cardinality(S)
<1>1. n \in Nat
  BY FS_CardinalityType
<1>2. q \in [1 .. n -> S] /\ \A i, j \in 1 .. n : i # j => q[i] # q[j]
  BY DEF SetToSeqs
<1>3. q \in Seq(S) /\ Len(q) = n
  BY <1>1, <1>2
<1>4. QED
  BY <1>1, <1>2, <1>3

LEMMA FinitePods ==
  ASSUME NEW S \in SUBSET Pods
  PROVE  IsFiniteSet(S) /\ Cardinality(S) \in Nat
<1>1. IsFiniteSet(S)
  BY PodsAssumption, FS_Subset
<1>2. QED
  BY <1>1, FS_CardinalityType

LEMMA LimitIsPositive ==
  ASSUME TypeOK
  PROVE  Limit \in Nat /\ Limit >= 1
<1>1. flags.count \in Nat
  BY CountsAssumption DEF TypeOK
<1>2. QED
  BY <1>1 DEF Limit

\* Cutting a list leaves its first elements.
LEMMA CutList ==
  ASSUME TypeOK, NEW list \in Seq(Pods)
  PROVE  /\ Cut(list) \in Seq(Pods) /\ Len(Cut(list)) <= Limit /\ Len(Cut(list)) <= Len(list)
         /\ DOMAIN Cut(list) = 1 .. Len(Cut(list))
         /\ list # <<>> => Cut(list) # <<>>
         /\ \A i \in 1 .. Len(Cut(list)) : Cut(list)[i] = list[i]
<1>1. Limit \in Nat /\ Limit >= 1
  BY LimitIsPositive
<1>2. CASE Len(list) > Limit
  BY <1>1, <1>2 DEF Cut
<1>3. CASE ~(Len(list) > Limit)
  BY <1>1, <1>3 DEF Cut
<1>4. QED
  BY <1>2, <1>3

LEMMA Chosen ==
  ASSUME TypeOK, ChooseTargets
  PROVE  /\ targets' \in Seq(Pods) /\ targets' # <<>> /\ Len(targets') <= Limit
         /\ \A i, j \in DOMAIN targets' : i # j => targets'[i] # targets'[j]
         /\ ToSet(targets') \subseteq Listed
<1>1. Listed \in SUBSET Pods /\ IsFiniteSet(Listed)
  BY FinitePods DEF Listed
<1>2. CASE flags.pod # NoPod
  <2>1. PICK p \in Listed : targets' = <<p>>
    BY <1>2 DEF ChooseTargets, Selections
  <2>2. p \in Pods /\ Len(targets') = 1 /\ DOMAIN targets' = 1 .. 1 /\ targets'[1] = p
    BY <1>1, <2>1
  <2>3. QED
    BY <1>1, <2>1, <2>2, LimitIsPositive DEF ToSet
<1>3. CASE flags.pod = NoPod
  <2>1. PICK list \in SetToSeqs(Listed) : list # <<>> /\ targets' = Cut(list)
    BY <1>3 DEF ChooseTargets, Selections
  <2>2. /\ list \in Seq(Listed) /\ Len(list) \in Nat
        /\ \A i, j \in 1 .. Len(list) : i # j => list[i] # list[j]
        /\ \A i \in 1 .. Len(list) : list[i] \in Listed
    BY <1>1, <2>1, ListElements
  <2>3. list \in Seq(Pods)
    BY <1>1, <2>2
  <2>4. /\ targets' \in Seq(Pods) /\ Len(targets') <= Limit /\ Len(targets') <= Len(list)
        /\ DOMAIN targets' = 1 .. Len(targets')
        /\ targets' # <<>>
        /\ \A i \in 1 .. Len(targets') : targets'[i] = list[i]
    BY <2>1, <2>3, CutList
  <2>5. \A i \in 1 .. Len(targets') : i \in 1 .. Len(list)
    BY <2>2, <2>4
  <2>6. QED
    BY <2>2, <2>4, <2>5 DEF ToSet
<1>4. QED
  BY <1>2, <1>3

-----------------------------------------------------------------------------
(* Type correctness.                                                       *)

LEMMA TypeInit == Init => TypeOK
<1> SUFFICES ASSUME Init PROVE TypeOK
  OBVIOUS
<1>1. <<>> \in Seq(Pods)
  OBVIOUS
<1>2. status \in [Pods -> Statuses] /\ evictions \in 0 .. MaxEvictions
  BY EvictionsAssumption DEF Init, Statuses
<1>3. /\ flags \in [pod : Pods \union {NoPod}, count : Counts, wait : BOOLEAN]
      /\ replicas \in Replicas /\ expired = FALSE /\ flaky \in BOOLEAN
      /\ pc = "check" /\ targets = <<>> /\ names = <<>> /\ at = 1
      /\ healed = NoPod /\ old = {} /\ deleted = {}
  BY Zenon DEF Init
<1>4. targets \in Seq(Pods) /\ names \in Seq(Pods)
  BY <1>1, <1>3, Zenon
<1>5. at \in Nat \ {0}
  BY <1>3
<1>6. QED
  BY <1>2, <1>3, <1>4, <1>5, Zenon DEF TypeOK

LEMMA TypeStep ==
  ASSUME TypeOK, [Next]_vars
  PROVE  TypeOK'
<1> USE DEF TypeOK, Statuses, cluster
<1>0. <<>> \in Seq(Pods) /\ Listed \subseteq Pods
  BY DEF Listed
<1>1. CASE Check \/ Inject
  BY <1>0, <1>1, Chosen DEF Check, Inject, Listed
<1>2. CASE CheckFails \/ DeleteFails \/ Expire
  BY <1>2 DEF CheckFails, DeleteFails, Expire
<1>3. CASE DeletePod
  BY <1>3 DEF DeletePod, Marked, Listed
<1>4. CASE Poll
  <2>1. names' \in Seq(Listed)
    BY <1>0, <1>4, FinitePods, ListElements DEF Poll
  <2>2. names' \in Seq(Pods)
    BY <1>0, <2>1
  <2>3. QED
    BY <1>4, <2>2 DEF Poll
<1>5. CASE NotThisOne
  BY <1>5 DEF NotThisOne
<1>6. CASE Heal
  <2>1. names[at] \in Pods
    BY <1>6 DEF Heal
  <2>2. QED
    BY <1>0, <1>6, <2>1 DEF Heal
<1>7. CASE NextRound \/ WaitFails
  <2>1. /\ pc' \in {"poll", "failed"} /\ names' = <<>> /\ at' = 1
        /\ UNCHANGED <<flags, cluster, targets, expired, healed, old, deleted>>
    BY <1>7 DEF NextRound, WaitFails
  <2>2. QED
    BY <1>0, <2>1
<1>8. CASE Kubernetes
  BY <1>8, EvictionsAssumption
     DEF Kubernetes, Evict, Create, BecomeReady, StopContainers, Vanish, Turn, Marked
<1>9. CASE UNCHANGED vars
  BY <1>9 DEF vars
<1>10. QED
  BY <1>1, <1>2, <1>3, <1>4, <1>5, <1>6, <1>7, <1>8, <1>9 DEF Next, Atom, Terminated

\* Every variable stays in its domain.
THEOREM TypeCorrect == Safety => []TypeOK
BY TypeInit, TypeStep, PTL DEF Safety

-----------------------------------------------------------------------------
(* The deletions.                                                          *)

LEMMA TargetStep ==
  ASSUME TypeOK, TargetInv, [Next]_vars
  PROVE  TargetInv'
<1> USE DEF TargetInv, cluster
<1>0. /\ Len(targets) \in Nat /\ DOMAIN targets = 1 .. Len(targets)
      /\ at \in Nat /\ at >= 1 /\ Limit \in Nat /\ Limit >= 1
  BY LimitIsPositive DEF TypeOK
<1>1. CASE Check
  BY <1>1, Chosen DEF Check, Limit
<1>2. CASE Inject
  <2>1. /\ targets' # <<>> /\ targets' \in Seq(Pods) /\ ToSet(targets') \subseteq old'
        /\ Len(targets') >= 1 /\ Len(targets') <= Limit
        /\ \A i, j \in DOMAIN targets' : i # j => targets'[i] # targets'[j]
    BY <1>2, Chosen DEF Inject
  <2>2. {targets'[i] : i \in 1 .. (1 - 1)} = {}
    OBVIOUS
  <2>3. QED
    BY <1>2, <2>1, <2>2 DEF Inject, Limit
<1>3. CASE DeletePod
  <2>1. /\ at \in 1 .. Len(targets) /\ deleted = {targets[i] : i \in 1 .. (at - 1)}
        /\ targets # <<>> /\ ToSet(targets) \subseteq old
        /\ Len(targets) <= Limit
        /\ \A i, j \in DOMAIN targets : i # j => targets[i] # targets[j]
    BY <1>0, <1>3 DEF DeletePod
  <2> HIDE DEF TargetInv
  <2>2. /\ at' = at + 1 /\ UNCHANGED <<flags, targets, old>>
        /\ deleted' = deleted \union {targets[at]}
        /\ pc' = IF at < Len(targets) THEN "delete" ELSE IF flags.wait THEN "poll" ELSE "injected"
    BY <1>3 DEF DeletePod
  <2>3. deleted' = {targets[i] : i \in 1 .. at}
    <3>1. 1 .. at = (1 .. (at - 1)) \union {at}
      BY <1>0
    <3>2. QED
      BY <2>1, <2>2, <3>1
  <2>4. deleted' \subseteq ToSet(targets)
    BY <1>0, <2>1, <2>3 DEF ToSet
  <2>5. CASE at < Len(targets)
    <3>1. pc' = "delete" /\ at' <= Len(targets') /\ at' - 1 = at
      BY <1>0, <2>2, <2>5
    <3>2. deleted' = {targets'[i] : i \in 1 .. (at' - 1)}
      BY <2>2, <2>3, <3>1
    <3>3. QED
      BY <2>1, <2>2, <2>4, <3>1, <3>2 DEF TargetInv, Limit
  <2>6. CASE at = Len(targets)
    <3>1. pc' \in {"poll", "injected"} /\ deleted' = ToSet(targets)
      BY <1>0, <2>2, <2>3, <2>6 DEF ToSet
    <3>2. QED
      BY <2>1, <2>2, <2>4, <3>1 DEF TargetInv, Limit
  <2>7. at <= Len(targets)
    BY <1>3 DEF DeletePod, TargetInv
  <2>8. at < Len(targets) \/ at = Len(targets)
    <3>1. Len(targets) \in Nat /\ at \in Nat
      BY <1>0
    <3>2. QED
      BY <2>7, <3>1
  <2>9. QED
    BY <2>5, <2>6, <2>8
<1>4. CASE CheckFails \/ DeleteFails \/ WaitFails \/ NextRound \/ Heal \/ NotThisOne \/ Poll
  BY <1>4 DEF CheckFails, DeleteFails, WaitFails, NextRound, Heal, NotThisOne, Poll, Limit
<1>5. CASE Expire \/ Kubernetes \/ UNCHANGED vars
  BY <1>5 DEF Expire, Kubernetes, vars, Limit
<1>6. QED
  BY <1>1, <1>2, <1>3, <1>4, <1>5 DEF Next, Atom, Terminated

LEMMA TargetInvariant == Safety => []TargetInv
<1>1. Init => TargetInv
  <2> SUFFICES ASSUME Init PROVE TargetInv
    OBVIOUS
  <2>1. /\ targets = <<>> /\ Len(targets) = 0 /\ DOMAIN targets = {}
        /\ pc = "check" /\ deleted = {} /\ old = {} /\ at = 1
    BY DEF Init
  <2>2. Limit \in Nat /\ Limit >= 1
    BY TypeInit, LimitIsPositive
  <2>3. QED
    BY <2>1, <2>2 DEF TargetInv
<1>2. TypeOK /\ TargetInv /\ [Next]_vars => TargetInv'
  BY TargetStep
<1>3. QED
  BY <1>1, <1>2, TypeCorrect, PTL DEF Safety

\* A list has no more elements than its length.
LEMMA FewElements ==
  ASSUME NEW q \in Seq(Pods)
  PROVE  IsFiniteSet(ToSet(q)) /\ Cardinality(ToSet(q)) <= Len(q)
<1>1. Len(q) \in Nat /\ DOMAIN q = 1 .. Len(q) /\ q \in [1 .. Len(q) -> ToSet(q)]
  BY DEF ToSet
<1>2. q \in Surjection(1 .. Len(q), ToSet(q))
  BY <1>1 DEF Surjection, ToSet
<1>3. ExistsSurjection(1 .. Len(q), ToSet(q))
  BY <1>2 DEF ExistsSurjection
<1>4. QED
  BY <1>1, <1>3, FS_SurjCardinalityBound, FS_NatSurjection

\* The blast radius, for any count and any number of pods, whatever the cluster
\* and its other users do between the two choices and the deletions.
THEOREM LimitsBlastRadius == Safety => []BlastRadius
<1>1. TypeOK /\ TargetInv => BlastRadius
  <2> SUFFICES ASSUME TypeOK, TargetInv PROVE BlastRadius
    OBVIOUS
  <2>1. /\ IsFiniteSet(ToSet(targets)) /\ Cardinality(ToSet(targets)) <= Len(targets)
        /\ Len(targets) \in Nat
    BY FewElements DEF TypeOK
  <2>2. /\ deleted \in SUBSET ToSet(targets) /\ deleted \in SUBSET Pods
        /\ deleted \subseteq old /\ Len(targets) <= Limit
    BY DEF TargetInv, TypeOK
  <2>3. Cardinality(deleted) <= Cardinality(ToSet(targets))
    BY <2>1, <2>2, FS_Subset
  <2>4. Cardinality(deleted) \in Nat /\ Cardinality(ToSet(targets)) \in Nat /\ Limit \in Nat
    BY <2>1, <2>2, FinitePods, FS_CardinalityType, LimitIsPositive
  <2>5. QED
    BY <2>1, <2>2, <2>3, <2>4 DEF BlastRadius
<1>2. QED
  BY <1>1, TypeCorrect, TargetInvariant, PTL

LEMMA WaitStep ==
  ASSUME TypeOK, WaitInv, [Next]_vars
  PROVE  WaitInv'
<1> USE DEF WaitInv, cluster
<1>1. CASE DeletePod
  BY <1>1 DEF DeletePod
<1>2. CASE Heal
  <2>1. names[at] \in Pods
    BY <1>2 DEF Heal, TypeOK
  <2>2. QED
    BY <1>2, <2>1, PodsAssumption DEF Heal, Excluded
<1>3. CASE Check \/ Inject \/ CheckFails \/ DeleteFails
  BY <1>3 DEF Check, Inject, CheckFails, DeleteFails
<1>4. CASE Poll \/ NotThisOne \/ NextRound \/ WaitFails
  BY <1>4 DEF Poll, NotThisOne, NextRound, WaitFails
<1>5. CASE Expire \/ Kubernetes \/ UNCHANGED vars
  BY <1>5 DEF Expire, Kubernetes, vars
<1>6. QED
  BY <1>1, <1>2, <1>3, <1>4, <1>5 DEF Next, Atom, Terminated

LEMMA WaitInvariant == Safety => []WaitInv
<1>1. Init => WaitInv
  BY DEF Init, WaitInv
<1>2. TypeOK /\ WaitInv /\ [Next]_vars => WaitInv'
  BY WaitStep
<1>3. QED
  BY <1>1, <1>2, TypeCorrect, PTL DEF Safety

\* Inject does not succeed before every target is deleted, nor, when it waits,
\* without a replacement in hand.
THEOREM SucceedsCompletely == Safety => []SuccessIsComplete
<1>1. TargetInv /\ WaitInv => SuccessIsComplete
  BY DEF TargetInv, WaitInv, SuccessIsComplete
<1>2. QED
  BY <1>1, TargetInvariant, WaitInvariant, PTL

-----------------------------------------------------------------------------
(* A lone replica.                                                         *)

LEMMA AliveStep ==
  ASSUME TypeOK, AliveInv, [Next]_vars
  PROVE  AliveInv'
<1>0. /\ IsFiniteSet(Alive) /\ Cardinality(Alive) \in Nat /\ replicas \in Nat
      /\ status \in [Pods -> Statuses] /\ replicas' = replicas
  <2>1. replicas' = replicas
    BY DEF Next, Atom, Check, Inject, CheckFails, DeletePod, DeleteFails, Poll, NotThisOne,
       Heal, NextRound, WaitFails, Expire, Kubernetes, Terminated, vars, cluster
  <2>2. Alive \in SUBSET Pods
    BY DEF Alive
  <2>3. QED
    BY <2>1, <2>2, FinitePods, CountsAssumption DEF TypeOK
<1>1. ASSUME Alive' \subseteq Alive PROVE AliveInv'
  <2>1. Alive' \in SUBSET Alive
    BY <1>1
  <2>2. IsFiniteSet(Alive') /\ Cardinality(Alive') <= Cardinality(Alive)
    BY <1>0, <2>1, FS_Subset
  <2>3. Cardinality(Alive') \in Nat
    BY <2>2, FS_CardinalityType
  <2>4. QED
    BY <1>0, <2>2, <2>3 DEF AliveInv
<1>2. ASSUME NEW p \in Pods, Create(p) PROVE AliveInv'
  <2>1. Alive' = Alive \union {p} /\ Cardinality(Alive) < replicas
    BY <1>0, <1>2 DEF Create, Turn, Alive
  <2>2. \/ Cardinality(Alive \union {p}) = Cardinality(Alive)
        \/ Cardinality(Alive \union {p}) = Cardinality(Alive) + 1
    BY <1>0, FS_AddElement
  <2>3. Cardinality(Alive') = Cardinality(Alive) \/ Cardinality(Alive') = Cardinality(Alive) + 1
    BY <2>1, <2>2
  <2>4. QED
    BY <1>0, <2>1, <2>3 DEF AliveInv
<1>3. ASSUME NEW p \in Pods, Evict(p) \/ BecomeReady(p) \/ StopContainers(p) \/ Vanish(p)
      PROVE  Alive' \subseteq Alive
  BY <1>0, <1>3 DEF Evict, BecomeReady, StopContainers, Vanish, Turn, Marked, Alive
<1>4. CASE DeletePod
  BY <1>0, <1>1, <1>4 DEF DeletePod, Marked, Listed, Alive
<1>5. CASE status' = status
  BY <1>1, <1>5 DEF Alive
<1>6. QED
  BY <1>1, <1>2, <1>3, <1>4, <1>5 DEF Next, Atom, Check, Inject, CheckFails, DeleteFails,
     Poll, NotThisOne, Heal, NextRound, WaitFails, Expire, Kubernetes, Terminated, vars, cluster

LEMMA AliveInvariant == Safety => []AliveInv
<1>1. Init => AliveInv
  <2>1. Init => Cardinality(Alive) = replicas /\ replicas \in Nat
    BY CountsAssumption DEF Init
  <2>2. QED
    BY <2>1 DEF AliveInv
<1>2. TypeOK /\ AliveInv /\ [Next]_vars => AliveInv'
  BY AliveStep
<1>3. QED
  BY <1>1, <1>2, TypeCorrect, PTL DEF Safety

\* The only pod there is when Inject chooses is the one it chooses.
LEMMA LoneChoice ==
  ASSUME TypeOK, TargetInv, AliveInv, LoneInv, Undisturbed, Inject
  PROVE  \A p \in Listed : p = targets'[1]
<1>1. Listed \subseteq Alive
  BY DEF LoneInv, TargetInv, Inject, Listed, Alive
<1>2. Alive \in SUBSET Pods /\ replicas = 1
  BY DEF Alive, Undisturbed
<1>3. IsFiniteSet(Alive) /\ Cardinality(Alive) \in Nat /\ Cardinality(Alive) <= 1
  BY <1>2, FinitePods DEF AliveInv
<1>4. Cardinality(Alive) = 0 \/ Cardinality(Alive) = 1
  BY <1>3
<1>5. \A p, q \in Alive : p = q
  BY <1>3, <1>4, FS_EmptySet, FS_Singleton
<1>6. targets'[1] \in Listed
  <2>1. targets' \in Seq(Pods) /\ targets' # <<>> /\ ToSet(targets') \subseteq Listed
    BY Chosen DEF Inject
  <2>2. 1 \in DOMAIN targets'
    BY <2>1
  <2>3. QED
    BY <2>1, <2>2 DEF ToSet
<1>7. QED
  BY <1>1, <1>5, <1>6

LEMMA LoneStep ==
  ASSUME TypeOK, TargetInv, AliveInv, LoneInv, [Next]_vars
  PROVE  LoneInv'
<1> SUFFICES ASSUME Undisturbed' PROVE LoneInv'
  BY DEF LoneInv
<1>1. Undisturbed
  BY DEF TypeOK, Undisturbed, Next, Atom, Check, Inject, CheckFails, DeletePod, DeleteFails,
     Poll, NotThisOne, Heal, NextRound, WaitFails, Expire, Kubernetes, Evict, Terminated,
     vars, cluster
<1>2. /\ \A p \in Pods : status[p] \in {"terminating", "stopping", "gone"} => p \in deleted
      /\ \A p \in old : p = targets[1]
      /\ pc = "probe" => \A i \in DOMAIN names : names[i] = targets[1] \/ names[i] \in Listed
      /\ pc = "failed" /\ deleted # {} /\ deleted = ToSet(targets) => expired
  BY <1>1 DEF LoneInv
<1>3. CASE Check \/ CheckFails
  BY <1>2, <1>3 DEF Check, CheckFails, TargetInv, LoneInv, cluster
<1>4. CASE Inject
  BY <1>1, <1>2, <1>4, LoneChoice DEF Inject, TargetInv, LoneInv, cluster
<1>5. CASE DeletePod
  BY <1>2, <1>5 DEF DeletePod, Marked, LoneInv, TypeOK
<1>6. CASE DeleteFails
  <2>1. targets[at] \in ToSet(targets)
    BY <1>6 DEF DeleteFails, TargetInv, TypeOK, ToSet
  <2>2. targets[at] \notin deleted
    <3>1. /\ deleted = {targets[i] : i \in 1 .. at - 1}
          /\ \A i, j \in DOMAIN targets : i # j => targets[i] # targets[j]
      BY <1>6 DEF DeleteFails, TargetInv
    <3>2. at \in DOMAIN targets /\ (\A i \in 1 .. at - 1 : i \in DOMAIN targets /\ i # at)
      BY <1>6 DEF DeleteFails, TargetInv, TypeOK
    <3>3. QED
      BY <3>1, <3>2
  <2>3. QED
    BY <1>2, <1>6, <2>1, <2>2 DEF DeleteFails, LoneInv, cluster
<1>7. CASE Poll
  <2>1. \A i \in DOMAIN names' : names'[i] \in Listed
    BY <1>7 DEF Poll, SetToSeqs
  <2>2. QED
    BY <1>2, <1>7, <2>1 DEF Poll, LoneInv, Listed, cluster
<1>8. CASE NotThisOne \/ Heal \/ NextRound
  BY <1>2, <1>8 DEF NotThisOne, Heal, NextRound, LoneInv, Listed, cluster
<1>9. CASE WaitFails
  <2>1. pc = "probe" => names[at] = targets[1] \/ names[at] \in Listed
    BY <1>2, <1>9 DEF WaitFails, TypeOK
  <2>2. expired
    BY <1>1, <1>9, <2>1 DEF WaitFails, Excluded, Undisturbed
  <2>3. QED
    BY <1>2, <1>9, <2>2 DEF WaitFails, LoneInv, cluster
<1>10. CASE Expire \/ UNCHANGED vars
  BY <1>2, <1>10 DEF Expire, vars, LoneInv, Listed, cluster
<1>11. CASE Kubernetes
  <2>1. PICK p \in Pods : Create(p) \/ BecomeReady(p) \/ StopContainers(p) \/ Vanish(p)
    BY <1>1, <1>11 DEF Kubernetes, Evict, Undisturbed
  <2>2. \A q \in Pods : status'[q] \in {"terminating", "stopping", "gone"} => q \in deleted
    BY <1>2, <2>1 DEF Create, BecomeReady, StopContainers, Vanish, Turn, TypeOK
  <2>3. \A q \in Listed : q \in Listed' \/ q \in deleted
    BY <1>2, <2>1 DEF Create, BecomeReady, StopContainers, Vanish, Turn, TypeOK, Listed
  <2>4. \A q \in deleted : q = targets[1]
    BY <1>2 DEF TargetInv
  <2>5. QED
    BY <1>2, <1>11, <2>2, <2>3, <2>4 DEF Kubernetes, LoneInv
<1>12. QED
  BY <1>3, <1>4, <1>5, <1>6, <1>7, <1>8, <1>9, <1>10, <1>11 DEF Next, Atom, Terminated

\* With one replica, kubectl reliable and nobody else deleting pods, what the wait
\* reports is a new pod, and it is given up at its timeout only.
THEOREM VerifiesLoneReplica == Safety => []LoneReplicaVerified
<1>1. Init => LoneInv
  BY DEF Init, LoneInv
<1>2. TypeOK /\ TargetInv /\ AliveInv /\ LoneInv /\ [Next]_vars => LoneInv'
  BY LoneStep
<1>3. TypeOK /\ WaitInv /\ LoneInv => LoneReplicaVerified
  BY PodsAssumption DEF TypeOK, WaitInv, LoneInv, LoneReplicaVerified, HealedIsNew
<1>4. QED
  BY <1>1, <1>2, <1>3, TypeCorrect, TargetInvariant, WaitInvariant, AliveInvariant, PTL
     DEF Safety
=============================================================================
