----------------------------- MODULE HostProofs -----------------------------
(***************************************************************************)
(* Theorems about Host, for any number of injectors, any sizes and any     *)
(* capacity.                                                               *)
(***************************************************************************)
EXTENDS Host, FiniteSetTheorems, WellFoundedInduction, TLAPS

\* What an injector holds in the host, its fault object knows, until it is killed.
Knows(i) ==
  /\ i \in groups => pc[i] = "killed" \/ (pc[i] = "active" /\ handle[i] = "proc")
  /\ handle[i] # "none" => kind[i] # "network" /\ pc[i] = "active"
  /\ pages[i] # "none" => kind[i] = "mem" /\ pc[i] \in {"active", "recovered"}
  /\ port = i <=> handle[i] = "ln"
  /\ root = i => kind[i] = "network" /\ pc[i] \in {"active", "refused", "killed"}

KnowsInv == TypeOK /\ \A i \in Injectors : Knows(i)

-----------------------------------------------------------------------------
(* Every step preserves it.                                                *)

LEMMA KnowsInit == Init => KnowsInv
BY InjectorsAssumption DEF Init, KnowsInv, Knows, TypeOK, Labels, Handles

LEMMA CheckKnows ==
  ASSUME KnowsInv, NEW j \in Injectors, Check(j) \/ CheckFails(j)
  PROVE  KnowsInv'
<1> USE DEF KnowsInv, TypeOK, Labels, fixed, Becomes
<1>1. Resident \in SUBSET Injectors
  BY DEF Resident
<1>2. CASE Check(j)
  <2>1. TypeOK'
    BY <1>1, <1>2 DEF Check
  <2>2. ASSUME NEW i \in Injectors PROVE Knows(i)'
    BY <1>2, <2>2 DEF Check, Knows
  <2>3. QED
    BY <2>1, <2>2
<1>3. CASE CheckFails(j)
  BY <1>3 DEF CheckFails, Knows
<1>4. QED
  BY <1>2, <1>3

LEMMA InjectKnows ==
  ASSUME KnowsInv, NEW j \in Injectors, Inject(j)
  PROVE  KnowsInv'
<1> USE InjectorsAssumption DEF KnowsInv, Knows, TypeOK, Labels, Handles, fixed, Becomes, Holds
<1>1. CASE InjectCpu(j)
  BY <1>1 DEF InjectCpu
<1>2. CASE InjectMem(j)
  BY <1>2 DEF InjectMem
<1>3. CASE InjectPort(j)
  BY <1>3 DEF InjectPort
<1>4. CASE InjectNetwork(j)
  BY <1>4 DEF InjectNetwork
<1>5. QED
  BY <1>1, <1>2, <1>3, <1>4 DEF Inject

\* Recover finds in the fault object all that there is of the fault.
LEMMA RecoverKnows ==
  ASSUME KnowsInv, NEW j \in Injectors, Recover(j)
  PROVE  KnowsInv'
<1> USE InjectorsAssumption DEF KnowsInv, TypeOK, Labels, Handles, fixed, Becomes, Holds,
        KillProcessTree, ClosePort, DelQdisc
<1>1. TypeOK'
  BY DEF Recover
<1>2. Knows(j)'
  BY DEF Recover, Knows
<1>3. ASSUME NEW i \in Injectors, i # j PROVE Knows(i)'
  BY <1>3 DEF Recover, Knows
<1>4. QED
  BY <1>1, <1>2, <1>3

LEMMA KillKnows ==
  ASSUME KnowsInv, NEW j \in Injectors, Kill(j)
  PROVE  KnowsInv'
<1> USE InjectorsAssumption DEF KnowsInv, TypeOK, Labels, Handles, fixed, Becomes, Holds
<1>1. TypeOK'
  BY DEF Kill
<1>2. Knows(j)'
  BY DEF Kill, Knows
<1>3. ASSUME NEW i \in Injectors, i # j PROVE Knows(i)'
  BY <1>3 DEF Kill, Knows
<1>4. QED
  BY <1>1, <1>2, <1>3

LEMMA KnowsStep == KnowsInv /\ [Next]_vars => KnowsInv'
<1> SUFFICES ASSUME KnowsInv, [Next]_vars PROVE KnowsInv'
  OBVIOUS
<1>1. ASSUME NEW j \in Injectors, Injector(j) PROVE KnowsInv'
  <2>1. CASE Check(j) \/ CheckFails(j)
    BY <2>1, CheckKnows
  <2>2. CASE Inject(j)
    BY <2>2, InjectKnows
  <2>3. CASE TouchPages(j)
    BY <2>3 DEF TouchPages, KnowsInv, Knows, TypeOK, fixed
  <2>4. CASE Recover(j)
    BY <2>4, RecoverKnows
  <2>5. CASE RecoverFails(j)
    BY <2>5 DEF RecoverFails, KnowsInv, Knows, TypeOK, Labels, fixed, Becomes
  <2>6. CASE Collect(j)
    BY <2>6 DEF Collect, KnowsInv, Knows, TypeOK, fixed
  <2>7. CASE Kill(j)
    BY <2>7, KillKnows
  <2>8. QED
    BY <1>1, <2>1, <2>2, <2>3, <2>4, <2>5, <2>6, <2>7 DEF Injector
<1>2. ASSUME NEW j \in Injectors, StressEnds(j) PROVE KnowsInv'
  BY <1>2 DEF StressEnds, KnowsInv, Knows, TypeOK, fixed
<1>3. CASE Service
  BY <1>3, InjectorsAssumption DEF Service, KnowsInv, Knows, TypeOK, fixed
<1>4. CASE Administrator
  BY <1>4, InjectorsAssumption DEF Administrator, KnowsInv, Knows, TypeOK, fixed
<1>5. CASE UNCHANGED vars
  BY <1>5 DEF vars, fixed, KnowsInv, Knows, TypeOK
<1>6. QED
  BY <1>1, <1>2, <1>3, <1>4, <1>5 DEF Next

LEMMA KnowsAlways == Safety => []KnowsInv
BY KnowsInit, KnowsStep, PTL DEF Safety

-----------------------------------------------------------------------------
(* What follows from it.                                                   *)

\* Every variable stays in its domain.
THEOREM TypeCorrect == Safety => []TypeOK
<1>1. KnowsInv => TypeOK
  BY DEF KnowsInv
<1>2. QED
  BY <1>1, KnowsAlways, PTL

\* However many injectors share the host: what is in it belongs to one whose
\* rollback is still to come, to the collector, to one whose rollback tc did not do,
\* or to one that was killed.
THEOREM LeavesNothingElse == Safety => []NothingElseLeft
<1>1. KnowsInv => NothingElseLeft
  BY DEF KnowsInv, Knows, NothingElseLeft, Present, Burners
<1>2. QED
  BY <1>1, KnowsAlways, PTL

\* Only network faults disturb each other: Recover and Kill let go of what is the
\* injector's own, by the handle that Knows says is its own.
LEMMA CutShortStep ==
  ASSUME KnowsInv, [Next]_vars, NEW i \in Injectors, NEW j \in Injectors,
         i # j, pc'[j] # pc[j], Present(i), ~Present(i)'
  PROVE  kind[i] = "network" /\ kind[j] = "network"
<1>1. PICK k \in Injectors : Injector(k)
  BY DEF Next, StressEnds, Service, Administrator, vars
<1>2. k = j
  BY <1>1 DEF Injector, Check, CheckFails, Inject, InjectCpu, InjectMem, InjectPort,
     InjectNetwork, TouchPages, Recover, RecoverFails, Collect, Kill, Becomes,
     KnowsInv, TypeOK
<1> USE InjectorsAssumption DEF KnowsInv, Knows, TypeOK, Present, Burners, Becomes, Holds, fixed
<1>3. CASE Check(j) \/ CheckFails(j) \/ TouchPages(j) \/ RecoverFails(j) \/ Collect(j)
  BY <1>3 DEF Check, CheckFails, TouchPages, RecoverFails, Collect
<1>4. CASE Inject(j)
  BY <1>4 DEF Inject, InjectCpu, InjectMem, InjectPort, InjectNetwork
<1>5. CASE Recover(j)
  BY <1>5 DEF Recover, KillProcessTree, ClosePort, DelQdisc
<1>6. CASE Kill(j)
  BY <1>6 DEF Kill
<1>7. QED
  BY <1>1, <1>2, <1>3, <1>4, <1>5, <1>6 DEF Injector

\* No injector takes the fault of another away, unless both are network faults.
THEOREM DisturbsOnlyPeers == Safety => CutShortByPeerOnly
<1>1. KnowsInv /\ [Next]_vars =>
        [\A i, j \in Injectors :
           i # j /\ pc'[j] # pc[j] /\ Present(i) /\ ~Present(i)' =>
             kind[i] = "network" /\ kind[j] = "network"]_vars
  BY CutShortStep
<1>2. QED
  BY <1>1, KnowsAlways, PTL DEF Safety, CutShortByPeerOnly

-----------------------------------------------------------------------------
(* Sums.  MapThenSumSet is a recursion over the subsets of a set; the      *)
(* induction it takes is carried by well-founded orders: if a statement is *)
(* wrong for some set it is wrong for a smallest one.                      *)

\* The sum of f over S: what MapThenSumSet(LAMBDA x : f[x], S) stands for.
Total(f, S) == MapThenSumSet(LAMBDA x : f[x], S)

Pick(s) == CHOOSE x \in s : TRUE

\* g[s] is the sum over s that MapThenSumSet builds, for each s in D.
SumsUp(f, D, g) ==
  g = [s \in D |-> IF s = {} THEN 0 ELSE f[Pick(s)] + g[s \ {Pick(s)}]]

\* The order on numbers, and that on the subsets of a finite set, have least elements.
LEMMA LeastNatural ==
  ASSUME NEW T \in SUBSET Nat, T # {}
  PROVE  \E n \in T : \A m \in Nat : m < n => m \notin T
<1>1. IsWellFoundedOn(OpToRel(<, Nat), Nat)
  BY NatLessThanWellFounded, Zenon
<1>2. PICK n \in T : \A m \in T : <<m, n>> \notin OpToRel(<, Nat)
  BY <1>1, WFMin, Zenon
<1>3. QED
  BY <1>2 DEF OpToRel

LEMMA LeastSubset ==
  ASSUME NEW S, IsFiniteSet(S), NEW T \in SUBSET (SUBSET S), T # {}
  PROVE  \E s \in T : \A u \in SUBSET s : u # s => u \notin T
<1>1. IsWellFoundedOn(StrictSubsetOrdering(S), SUBSET S)
  BY FS_StrictSubsetOrderingWellFounded, FS_FiniteSubsetsOfFinite
<1>2. PICK s \in T : \A u \in T : <<u, s>> \notin StrictSubsetOrdering(S)
  BY <1>1, WFMin, Zenon
<1>3. QED
  BY <1>2 DEF StrictSubsetOrdering

LEMMA PickIsIn ==
  ASSUME NEW s, s # {}
  PROVE  Pick(s) \in s
BY DEF Pick

\* The recursion has a solution: from that for the sets of up to n elements one
\* gets that for the sets of up to n + 1.
LEMMA SumsExist ==
  ASSUME NEW S, IsFiniteSet(S), NEW f
  PROVE  \E g : SumsUp(f, SUBSET S, g)
<1> DEFINE Small(n) == {s \in SUBSET S : Cardinality(s) <= n}
           Bad == {n \in Nat : ~ \E g : SumsUp(f, Small(n), g)}
<1>1. \A s \in SUBSET S : /\ IsFiniteSet(s) /\ Cardinality(s) \in Nat
                          /\ Cardinality(s) = 0 <=> s = {}
                          /\ s # {} => Cardinality(s \ {Pick(s)}) = Cardinality(s) - 1
  <2> SUFFICES ASSUME NEW s \in SUBSET S
               PROVE  /\ IsFiniteSet(s) /\ Cardinality(s) \in Nat
                      /\ Cardinality(s) = 0 <=> s = {}
                      /\ s # {} => Cardinality(s \ {Pick(s)}) = Cardinality(s) - 1
    OBVIOUS
  <2>1. IsFiniteSet(s)
    BY FS_Subset
  <2>2. Cardinality(s) \in Nat
    BY <2>1, FS_CardinalityType
  <2>3. Cardinality(s) = 0 <=> s = {}
    BY <2>1, FS_EmptySet
  <2>4. s # {} => Cardinality(s \ {Pick(s)}) = Cardinality(s) - 1
    BY <2>1, FS_RemoveElement, PickIsIn
  <2>5. QED
    BY <2>1, <2>2, <2>3, <2>4
<1>2. 0 \notin Bad
  <2>1. ASSUME NEW s \in Small(0) PROVE s = {}
    <3>1. s \in SUBSET S /\ Cardinality(s) <= 0
      OBVIOUS
    <3>2. Cardinality(s) \in Nat
      BY <1>1, <3>1
    <3>3. Cardinality(s) = 0
      BY <3>1, <3>2
    <3>4. QED
      BY <1>1, <3>1, <3>3
  <2>2. SumsUp(f, Small(0), [s \in Small(0) |-> 0])
    BY <2>1 DEF SumsUp
  <2>3. QED
    BY <2>2
<1>3. ASSUME NEW n \in Nat, n \notin Bad PROVE n + 1 \notin Bad
  <2>1. PICK g : SumsUp(f, Small(n), g)
    BY <1>3
  <2> DEFINE h == [s \in Small(n + 1) |-> IF s = {} THEN 0 ELSE f[Pick(s)] + g[s \ {Pick(s)}]]
  <2>2. ASSUME NEW s \in Small(n + 1), s # {}
        PROVE  h[s \ {Pick(s)}] = g[s \ {Pick(s)}]
    <3>1. s \ {Pick(s)} \in Small(n) /\ s \ {Pick(s)} \in Small(n + 1)
      BY <1>1, <2>2
    <3>2. QED
      BY <2>1, <3>1 DEF SumsUp
  <2>3. SumsUp(f, Small(n + 1), h)
    BY <2>2 DEF SumsUp
  <2>4. QED
    BY <2>3
<1>4. Bad = {}
  <2> SUFFICES ASSUME Bad # {} PROVE FALSE
    OBVIOUS
  <2>1. PICK n \in Bad : \A m \in Nat : m < n => m \notin Bad
    <3>1. Bad \in SUBSET Nat
      OBVIOUS
    <3> HIDE DEF Bad
    <3>2. QED
      BY <3>1, LeastNatural
  <2>2. n # 0 /\ n \in Nat
    BY <1>2
  <2>3. n - 1 \in Nat /\ n - 1 < n /\ (n - 1) + 1 = n
    BY <2>2
  <2> HIDE DEF Bad
  <2>4. n - 1 \notin Bad
    BY <2>1, <2>3
  <2>5. QED
    BY <1>3, <2>3, <2>4
<1>5. Small(Cardinality(S)) = SUBSET S
  BY FS_Subset, <1>1
<1>6. Cardinality(S) \in Nat
  BY <1>1
<1>7. \E g : SumsUp(f, Small(Cardinality(S)), g)
  BY <1>4, <1>6
<1>8. QED
  BY <1>5, <1>7

\* What Total(f, S) is: a sum that SumsUp.
LEMMA TotalSumsUp ==
  ASSUME NEW S, IsFiniteSet(S), NEW f
  PROVE  \E g : SumsUp(f, SUBSET S, g) /\ Total(f, S) = g[S]
<1> DEFINE g == CHOOSE h : SumsUp(f, SUBSET S, h)
<1>1. SumsUp(f, SUBSET S, g)
  BY SumsExist
<1>2. Total(f, S) = g[S]
  BY DEF Total, MapThenSumSet, MapThenFoldSet, SumsUp, Pick
<1>3. QED
  BY <1>1, <1>2

\* Solutions for a set and for a part of it agree on the part.
LEMMA SumsAgree ==
  ASSUME NEW S, IsFiniteSet(S), NEW R, R \subseteq S, NEW f
  PROVE  \A g, h : SumsUp(f, SUBSET S, g) /\ SumsUp(f, SUBSET R, h)
                     => g[R] = h[R]
<1> SUFFICES ASSUME NEW g, NEW h, SumsUp(f, SUBSET S, g), SumsUp(f, SUBSET R, h)
             PROVE  \A s \in SUBSET R : g[s] = h[s]
  OBVIOUS
<1> DEFINE Bad == {s \in SUBSET R : g[s] # h[s]}
<1> SUFFICES ASSUME Bad # {} PROVE FALSE
  OBVIOUS
<1>1. IsFiniteSet(R)
  BY FS_Subset
<1>2. PICK s \in Bad : \A u \in SUBSET s : u # s => u \notin Bad
  <2>1. Bad \in SUBSET (SUBSET R)
    OBVIOUS
  <2> HIDE DEF Bad
  <2>2. QED
    BY <1>1, <2>1, LeastSubset
<1>3. s \in SUBSET R /\ s \in SUBSET S /\ g[s] # h[s]
  BY <1>2
<1>4. s # {}
  BY <1>3 DEF SumsUp
<1>5. s \ {Pick(s)} \in SUBSET s /\ s \ {Pick(s)} # s
  BY <1>4, PickIsIn
<1>6. g[s \ {Pick(s)}] = h[s \ {Pick(s)}]
  BY <1>2, <1>3, <1>5
<1>7. QED
  BY <1>3, <1>4, <1>6 DEF SumsUp

\* One round of the recursion.
LEMMA TotalUnfolds ==
  ASSUME NEW S, IsFiniteSet(S), NEW f
  PROVE  /\ S = {} => Total(f, S) = 0
         /\ S # {} => Total(f, S) = f[Pick(S)] + Total(f, S \ {Pick(S)})
<1>1. PICK g : SumsUp(f, SUBSET S, g) /\ Total(f, S) = g[S]
  BY TotalSumsUp
<1>2. S = {} => Total(f, S) = 0
  BY <1>1 DEF SumsUp
<1>3. ASSUME S # {}
      PROVE  Total(f, S) = f[Pick(S)] + Total(f, S \ {Pick(S)})
  <2>0. PICK R : R = S \ {Pick(S)}
    OBVIOUS
  <2>1. R \subseteq S /\ IsFiniteSet(R)
    BY <2>0, FS_Subset
  <2>2. PICK h : SumsUp(f, SUBSET R, h) /\ Total(f, R) = h[R]
    BY <2>1, TotalSumsUp
  <2>3. g[R] = h[R]
    BY <1>1, <2>1, <2>2, SumsAgree
  <2>4. g[S] = f[Pick(S)] + g[R]
    BY <1>1, <1>3, <2>0 DEF SumsUp
  <2>5. QED
    BY <1>1, <2>0, <2>2, <2>3, <2>4
<1>4. QED
  BY <1>2, <1>3

\* A sum of natural numbers is one.
LEMMA TotalIsNatural ==
  ASSUME NEW S, IsFiniteSet(S), NEW f, \A x \in S : f[x] \in Nat
  PROVE  Total(f, S) \in Nat
<1> DEFINE Bad == {s \in SUBSET S : Total(f, s) \notin Nat}
<1> SUFFICES ASSUME Bad # {} PROVE FALSE
  OBVIOUS
<1>1. PICK s \in Bad : \A u \in SUBSET s : u # s => u \notin Bad
  <2>1. Bad \in SUBSET (SUBSET S)
    OBVIOUS
  <2> HIDE DEF Bad
  <2>2. QED
    BY <2>1, LeastSubset
<1>2. s \in SUBSET S /\ Total(f, s) \notin Nat
  BY <1>1
<1>3. IsFiniteSet(s)
  BY <1>2, FS_Subset
<1>4. s # {}
  BY <1>2, <1>3, TotalUnfolds
<1>5. Pick(s) \in s
  BY <1>4, PickIsIn
<1>6. Total(f, s \ {Pick(s)}) \in Nat
  BY <1>1, <1>2, <1>5
<1>7. Total(f, s) = f[Pick(s)] + Total(f, s \ {Pick(s)})
  BY <1>3, <1>4, TotalUnfolds
<1>8. f[Pick(s)] \in Nat
  BY <1>2, <1>5
<1>9. QED
  BY <1>2, <1>6, <1>7, <1>8

\* Any element may be taken out first: the order of the additions does not matter.
LEMMA TotalRemoves ==
  ASSUME NEW S, IsFiniteSet(S), NEW f, \A x \in S : f[x] \in Nat, NEW x \in S
  PROVE  Total(f, S) = f[x] + Total(f, S \ {x})
<1> DEFINE Bad == {s \in SUBSET S : \E y \in s : Total(f, s) # f[y] + Total(f, s \ {y})}
<1> SUFFICES ASSUME Bad # {} PROVE FALSE
  OBVIOUS
<1>1. PICK s \in Bad : \A u \in SUBSET s : u # s => u \notin Bad
  <2>1. Bad \in SUBSET (SUBSET S)
    OBVIOUS
  <2> HIDE DEF Bad
  <2>2. QED
    BY <2>1, LeastSubset
<1>2. PICK y \in s : Total(f, s) # f[y] + Total(f, s \ {y})
  BY <1>1
<1> DEFINE c == Pick(s)
<1>3. c \in s
  BY PickIsIn
<1>4. \A u \in SUBSET s : IsFiniteSet(u) /\ Total(f, u) \in Nat
  BY FS_Subset, TotalIsNatural
<1>5. Total(f, s) = f[c] + Total(f, s \ {c})
  BY <1>2, <1>4, TotalUnfolds
<1>6. c # y
  BY <1>2, <1>5
<1> HIDE DEF c
<1>7. s \ {c} \notin Bad /\ s \ {y} \notin Bad
  BY <1>1, <1>3
<1>8. Total(f, s \ {c}) = f[y] + Total(f, (s \ {c}) \ {y})
  BY <1>6, <1>7
<1>9. Total(f, s \ {y}) = f[c] + Total(f, (s \ {y}) \ {c})
  BY <1>3, <1>6, <1>7
<1>10. (s \ {c}) \ {y} = (s \ {y}) \ {c}
  OBVIOUS
<1>11. Total(f, (s \ {y}) \ {c}) \in Nat /\ f[c] \in Nat /\ f[y] \in Nat
  BY <1>3, <1>4
<1>12. QED
  BY <1>2, <1>5, <1>8, <1>9, <1>10, <1>11

\* A part weighs no more than the whole.
LEMMA TotalGrows ==
  ASSUME NEW S, IsFiniteSet(S), NEW f, \A x \in S : f[x] \in Nat, NEW A \in SUBSET S
  PROVE  Total(f, A) <= Total(f, S)
<1> DEFINE Bad == {s \in SUBSET S : \E u \in SUBSET s : ~(Total(f, u) <= Total(f, s))}
<1> SUFFICES ASSUME Bad # {} PROVE FALSE
  OBVIOUS
<1>1. PICK s \in Bad : \A u \in SUBSET s : u # s => u \notin Bad
  <2>1. Bad \in SUBSET (SUBSET S)
    OBVIOUS
  <2> HIDE DEF Bad
  <2>2. QED
    BY <2>1, LeastSubset
<1>2. PICK u \in SUBSET s : ~(Total(f, u) <= Total(f, s))
  BY <1>1
<1>3. \A v \in SUBSET s : IsFiniteSet(v) /\ Total(f, v) \in Nat
  BY FS_Subset, TotalIsNatural
<1>4. u # s
  BY <1>2, <1>3
<1>5. PICK x \in s : x \notin u
  BY <1>4
<1>6. s \ {x} \notin Bad
  BY <1>1, <1>5
<1>7. Total(f, u) <= Total(f, s \ {x})
  BY <1>5, <1>6
<1>8. Total(f, s) = f[x] + Total(f, s \ {x})
  BY <1>3, TotalRemoves
<1>9. f[x] \in Nat /\ Total(f, s \ {x}) \in Nat /\ Total(f, u) \in Nat
  BY <1>3
<1>10. QED
  BY <1>2, <1>7, <1>8, <1>9

-----------------------------------------------------------------------------
(* The memory gate.                                                        *)

\* Those that have passed the gate twice and have not been killed.
Admitted == {i \in Injectors : kind[i] = "mem" /\ pc[i] \in {"go", "active", "recovered"}}

\* Only memory faults have pages, and what an injector has seen was there: somebody
\* through with its checks.
SeenInv ==
  /\ \A i \in Injectors : pages[i] # "none" => kind[i] = "mem"
  /\ \A i \in Injectors : kind[i] = "mem" => size[i] # 0
  /\ \A i, j \in Injectors : i \in seen[j] => pc[i] \notin {"new", "checked"}

\* What the gate has let through fits beside all that it saw.
GateInv == \A i \in Admitted : Total(size, seen[i]) + size[i] <= Capacity

\* Where of any two one has seen the other, there is one that has seen the rest: the
\* last that was admitted.
Racefree(R) == \A i, j \in R : i # j => i \in seen[j] \/ j \in seen[i]
LastInv ==
  \A R \in SUBSET Admitted : R # {} /\ Racefree(R) => \E k \in R : R \subseteq seen[k] \union {k}

MemoryInv == SeenInv /\ GateInv /\ LastInv

LEMMA UsedIsTotal == Used = Total(size, Resident)
BY DEF Used, Total

LEMMA TotalOfInjectors ==
  ASSUME TypeOK, NEW S \in SUBSET Injectors
  PROVE  IsFiniteSet(S) /\ (\A i \in S : size[i] \in Nat) /\ Total(size, S) \in Nat
<1>1. IsFiniteSet(S)
  BY InjectorsAssumption, FS_Subset
<1>2. \A i \in S : size[i] \in Nat
  <2>1. size \in [Injectors -> Sizes \union {0}] /\ Sizes \union {0} \subseteq Nat
    BY SizesAssumption DEF TypeOK
  <2>2. QED
    BY <2>1
<1>3. Total(size, S) \in Nat
  BY <1>1, <1>2, TotalIsNatural
<1>4. QED
  BY <1>1, <1>2, <1>3

LEMMA MemoryInit == Init => MemoryInv
<1> SUFFICES ASSUME Init PROVE MemoryInv
  OBVIOUS
<1>1. Admitted = {}
  BY DEF Init, Admitted
<1>2. SeenInv
  BY DEF Init, SeenInv
<1>3. QED
  BY <1>1, <1>2 DEF MemoryInv, GateInv, LastInv

\* A step that admits nobody and changes nothing that was seen.
LEMMA NobodyAdmitted ==
  ASSUME MemoryInv, UNCHANGED <<kind, size, seen>>, Admitted' \subseteq Admitted,
         \A i \in Injectors : pc'[i] \in {"new", "checked"} => pc[i] \in {"new", "checked"},
         \A i \in Injectors : pages'[i] # "none" => pages[i] # "none" \/ kind[i] = "mem"
  PROVE  MemoryInv'
<1>1. SeenInv'
  BY DEF MemoryInv, SeenInv
<1>2. GateInv'
  BY DEF MemoryInv, GateInv
<1>3. LastInv'
  BY DEF MemoryInv, LastInv, Racefree
<1>4. QED
  BY <1>1, <1>2, <1>3 DEF MemoryInv

\* The second Check of a memory fault admits it, with all there is in its sight.
LEMMA CheckMemory ==
  ASSUME KnowsInv, MemoryInv, NEW k \in Injectors, Check(k), kind[k] = "mem"
  PROVE  MemoryInv'
<1> USE DEF KnowsInv, TypeOK
<1>1. /\ seen' = [seen EXCEPT ![k] = Resident]
      /\ UNCHANGED <<kind, size, pages>> /\ pc[k] \in {"new", "checked"}
      /\ pc' = [pc EXCEPT ![k] = IF pc[k] = "new" THEN "checked" ELSE "go"]
      /\ size[k] <= MemAvailableMB
  BY DEF Check, Fits, fixed, Becomes
<1>2. Resident \subseteq Admitted /\ k \notin Resident /\ k \notin Admitted
  BY <1>1 DEF Resident, Admitted, Knows, MemoryInv, SeenInv
<1>3. Admitted' \subseteq Admitted \union {k}
  BY <1>1 DEF Admitted
<1>4. SeenInv'
  <2>1. ASSUME NEW i \in Injectors, NEW j \in Injectors, i \in seen'[j]
        PROVE  pc'[i] \notin {"new", "checked"}
    <3>1. i # k
      BY <1>1, <1>2, <2>1 DEF MemoryInv, SeenInv
    <3>2. pc[i] \notin {"new", "checked"}
      BY <1>1, <1>2, <2>1 DEF MemoryInv, SeenInv, Admitted
    <3>3. QED
      BY <1>1, <3>1, <3>2
  <2>2. QED
    BY <1>1, <2>1 DEF MemoryInv, SeenInv
<1>5. Total(size, Resident) + size[k] <= Capacity
  <2>1. size[k] \in Nat /\ size[k] # 0 /\ Capacity \in Nat
    BY SizesAssumption, CapacityAssumption DEF MemoryInv, SeenInv
  <2>2. Resident \in SUBSET Injectors
    BY DEF Resident
  <2>3. Total(size, Resident) \in Nat
    BY <2>2, TotalOfInjectors
  <2>4. size[k] <= IF Total(size, Resident) > Capacity
                   THEN 0 ELSE Capacity - Total(size, Resident)
    BY <1>1, UsedIsTotal DEF MemAvailableMB
  <2>5. QED
    BY <2>1, <2>3, <2>4
<1>6. GateInv'
  <2>1. ASSUME NEW i \in Admitted' PROVE Total(size, seen'[i]) + size[i] <= Capacity
    <3>1. CASE i = k
      <4>1. seen'[k] = Resident
        BY <1>1
      <4>2. QED
        BY <1>5, <3>1, <4>1
    <3>2. CASE i # k
      <4>1. i \in Admitted /\ seen'[i] = seen[i]
        BY <1>1, <1>3, <3>2 DEF Admitted
      <4>2. QED
        BY <4>1 DEF MemoryInv, GateInv
    <3>3. QED
      BY <3>1, <3>2
  <2>2. size' = size
    BY <1>1
  <2>3. QED
    BY <2>1, <2>2 DEF GateInv
<1>7. LastInv'
  <2>1. ASSUME NEW R \in SUBSET Admitted', R # {},
               \A i, j \in R : i # j => i \in seen'[j] \/ j \in seen'[i]
        PROVE  \E l \in R : R \subseteq seen'[l] \union {l}
    <3>1. CASE k \in R
      <4>1. \A j \in R : j # k => k \notin seen'[j]
        BY <1>1, <1>3, <2>1 DEF MemoryInv, SeenInv, Admitted
      <4>2. R \subseteq seen'[k] \union {k}
        BY <2>1, <3>1, <4>1
      <4>3. QED
        BY <3>1, <4>2
    <3>2. CASE k \notin R
      <4>1. R \in SUBSET Admitted
        BY <1>3, <3>2
      <4>2. \A i \in R : seen'[i] = seen[i]
        BY <1>1, <3>2, <4>1 DEF Admitted
      <4>3. Racefree(R)
        BY <2>1, <4>2 DEF Racefree
      <4>4. PICK l \in R : R \subseteq seen[l] \union {l}
        BY <2>1, <4>1, <4>3 DEF MemoryInv, LastInv
      <4>5. QED
        BY <4>2, <4>4
    <3>3. QED
      BY <3>1, <3>2
  <2>2. QED
    BY <2>1 DEF LastInv, Racefree
<1>8. QED
  BY <1>4, <1>6, <1>7 DEF MemoryInv

LEMMA MemoryStep == KnowsInv /\ MemoryInv /\ [Next]_vars => MemoryInv'
<1> SUFFICES ASSUME KnowsInv, MemoryInv, [Next]_vars PROVE MemoryInv'
  OBVIOUS
<1>1. ASSUME NEW k \in Injectors, Injector(k), ~(Check(k) /\ kind[k] = "mem")
      PROVE  MemoryInv'
  <2> USE DEF Becomes, fixed, KnowsInv, TypeOK
  <2>1. UNCHANGED <<kind, size, seen>>
    BY <1>1 DEF Injector, Check, CheckFails, Inject, InjectCpu, InjectMem, InjectPort,
       InjectNetwork, TouchPages, Recover, RecoverFails, Collect, Kill
  <2>2. Admitted' \subseteq Admitted
    BY <1>1 DEF Admitted, Injector, Check, CheckFails, Inject, InjectCpu, InjectMem, InjectPort,
       InjectNetwork, TouchPages, Recover, RecoverFails, Collect, Kill
  <2>3. \A i \in Injectors : pc'[i] \in {"new", "checked"} => pc[i] \in {"new", "checked"}
    BY <1>1 DEF Injector, Check, CheckFails, Inject, InjectCpu, InjectMem, InjectPort,
       InjectNetwork, TouchPages, Recover, RecoverFails, Collect, Kill
  <2>4. \A i \in Injectors : pages'[i] # "none" => pages[i] # "none" \/ kind[i] = "mem"
    BY <1>1 DEF Injector, Check, CheckFails, Inject, InjectCpu, InjectMem, InjectPort,
       InjectNetwork, TouchPages, Recover, RecoverFails, Collect, Kill
  <2>5. QED
    BY <2>1, <2>2, <2>3, <2>4, NobodyAdmitted
<1>2. CASE (\E k \in Injectors : StressEnds(k)) \/ Service \/ Administrator \/ UNCHANGED vars
  <2>1. UNCHANGED <<fixed, seen, pc, pages>>
    BY <1>2 DEF StressEnds, Service, Administrator, vars
  <2>2. Admitted' = Admitted
    BY <2>1 DEF Admitted, fixed
  <2>3. QED
    BY <2>1, <2>2, NobodyAdmitted DEF fixed
<1>3. QED
  BY <1>1, <1>2, CheckMemory DEF Next

\* Memory is overcommitted only by two that raced: each passed MemFault.Check
\* before the pages of the other were there to be counted.
THEOREM GateFailsByRace == Safety => []OvercommitIsARace
<1>1. KnowsInv /\ MemoryInv => OvercommitIsARace
  <2> SUFFICES ASSUME KnowsInv, MemoryInv, Racefree(Resident)
               PROVE  ~(Used > Capacity)
    BY DEF OvercommitIsARace, Racefree
  <2>1. Resident \in SUBSET Injectors /\ Resident \subseteq Admitted
    BY DEF Resident, Admitted, KnowsInv, Knows, MemoryInv, SeenInv
  <2>2. CASE Resident = {}
    <3>1. Total(size, Resident) = 0
      BY <2>1, <2>2, TotalOfInjectors, TotalUnfolds DEF KnowsInv
    <3>2. QED
      BY <3>1, UsedIsTotal, CapacityAssumption
  <2>3. CASE Resident # {}
    <3>1. PICK k \in Resident : Resident \subseteq seen[k] \union {k}
      BY <2>1, <2>3 DEF MemoryInv, LastInv
    <3>2. Total(size, seen[k]) + size[k] <= Capacity
      BY <2>1, <3>1 DEF MemoryInv, GateInv
    <3>3. PICK Rest : Rest = Resident \ {k}
      OBVIOUS
    <3>4. Rest \subseteq seen[k] /\ seen[k] \in SUBSET Injectors /\ Rest \in SUBSET Injectors
      BY <2>1, <3>1, <3>3 DEF KnowsInv, TypeOK
    <3>5. Total(size, Resident) = size[k] + Total(size, Rest)
      BY <2>1, <3>1, <3>3, TotalOfInjectors, TotalRemoves DEF KnowsInv
    <3>6. Total(size, Rest) <= Total(size, seen[k])
      BY <3>4, TotalOfInjectors, TotalGrows DEF KnowsInv
    <3>7. size[k] \in Nat /\ Total(size, Rest) \in Nat /\ Total(size, seen[k]) \in Nat
      BY <2>1, <3>1, <3>4, TotalOfInjectors DEF KnowsInv
    <3>8. QED
      BY <3>2, <3>5, <3>6, <3>7, UsedIsTotal, CapacityAssumption
  <2>4. QED
    BY <2>2, <2>3
<1>2. QED
  BY <1>1, KnowsAlways, MemoryInit, MemoryStep, PTL DEF Safety
=============================================================================
