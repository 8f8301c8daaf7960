------------------------ MODULE RandomDecisionProofs ------------------------
(***************************************************************************)
(* A recorded seed replays its experiment (RandomDecision): for every set  *)
(* of seeds and every generator, since all that counts is that the draws   *)
(* are made from the same state, in the same order, from the same menus.   *)
(***************************************************************************)
EXTENDS RandomDecision, SequenceTheorems, WellFoundedInduction, TLAPS

\* Go and Python offer the same values in the same order.
LEMMA SameMenus == Menus = GoMenus
BY DEF Menus, GoMenus, PyMenus, MAX_CORES

Kinds(n) == <<"cpu", "mem", "port">> \o (IF n THEN <<"network">> ELSE <<>>)
KindAt(n, s) == Kinds(n)[Drawn(s, Len(Kinds(n))) + 1]
ParameterAt(k, i, s) == GoMenus[k][i][Drawn(s, Len(GoMenus[k][i])) + 1]

\* f is the course of the generator that decides kind k and parameters d.
Course(f, word, n, k, d) ==
  /\ f[0] = Seeded(word)
  /\ \A i \in 0 .. Len(d) : f[i + 1] = Advanced(f[i])
  /\ k = KindAt(n, f[1])
  /\ \A i \in 1 .. Len(d) : d[i] = ParameterAt(k, i, f[i + 1])

IsSequence(d) == \E V : d \in Seq(V)

\* Which seed is in use: the recorded one; in a replay the one given, unless Go
\* finds it negative.
SeedInv ==
  /\ turn \in {1, 2} /\ impl \in {"go", "python"}
  /\ given \in Seeds \union {None}
  /\ pc \in {"gate", "seed", "kind", "parameters", "run", "refused"}
  /\ pc = "seed" /\ impl = "go" => given.sign # "wide"
  /\ pc \in {"kind", "parameters", "run"} =>
       recorded \in Seeds /\ (impl = "go" => recorded.sign = "plus")
  /\ turn = 2 =>
       /\ given \in Seeds /\ original.sign = given.sign
       /\ original.impl = "go" => given.sign = "plus"
       /\ original.impl \in {"go", "python"}
       /\ pc \in {"kind", "parameters", "run"} =>
            recorded = given \/ (impl = "go" /\ given.sign = "minus")

\* The decision made so far follows the course of the recorded seed.
CourseInv ==
  /\ IsSequence(drawn)
  /\ pc \in {"gate", "seed", "kind"} => drawn = <<>>
  /\ pc = "kind" => state = Seeded(recorded.word)
  /\ pc \in {"parameters", "run"} =>
       \E f : Course(f, recorded.word, network, kind, drawn) /\ state = f[Len(drawn) + 1]
  /\ pc = "run" => Len(drawn) = Len(GoMenus[kind])

\* So did the one that is replayed.
OriginalInv ==
  turn = 2 =>
    /\ IsSequence(original.drawn) /\ Len(original.drawn) = Len(GoMenus[original.kind])
    /\ \E f : Course(f, given.word, original.network, original.kind, original.drawn)

Inv == SeedInv /\ CourseInv /\ OriginalInv

LEMMA InvInit == Init => Inv
<1> SUFFICES ASSUME Init PROVE Inv
  OBVIOUS
<1>1. IsSequence(<<>>)
  BY DEF IsSequence
<1>2. SeedInv
  BY DEF Init, SeedInv
<1>3. CourseInv /\ OriginalInv
  BY <1>1 DEF Init, CourseInv, OriginalInv
<1>4. QED
  BY <1>2, <1>3 DEF Inv

LEMMA GateStep ==
  ASSUME Inv, LoadGate
  PROVE  Inv'
<1> USE DEF Inv, LoadGate
<1>1. pc' \in {"seed", "refused"} /\ pc = "gate"
  OBVIOUS
<1>2. SeedInv'
  BY <1>1 DEF SeedInv
<1>3. CourseInv' /\ OriginalInv'
  BY <1>1 DEF CourseInv, OriginalInv
<1>4. QED
  BY <1>2, <1>3

LEMMA SeedStep ==
  ASSUME Inv, TakeSeed
  PROVE  Inv'
<1> USE SeedsAssumption, FreshAssumption
<1>1. PICK seed \in IF given.sign = "none" \/ (impl = "go" /\ given.sign = "minus")
                    THEN Fresh ELSE {given} :
        state' = Seeded(seed.word) /\ recorded' = SeedSet(seed)
  BY DEF TakeSeed
<1>2. /\ pc = "seed" /\ pc' = "kind"
      /\ UNCHANGED <<turn, impl, network, given, kind, drawn, original>>
  BY DEF TakeSeed
<1>3. seed \in Seeds /\ (impl = "go" => seed.sign = "plus")
  BY <1>1, <1>2 DEF Inv, SeedInv, None
<1>4. recorded' = seed
  BY <1>1, <1>3 DEF SeedSet
<1>5. turn = 2 => seed = given \/ (impl = "go" /\ given.sign = "minus")
  BY <1>1 DEF Inv, SeedInv
<1>6. SeedInv'
  BY <1>2, <1>3, <1>4, <1>5 DEF Inv, SeedInv
<1>7. CourseInv' /\ OriginalInv'
  BY <1>1, <1>2, <1>4 DEF Inv, CourseInv, OriginalInv
<1>8. QED
  BY <1>6, <1>7 DEF Inv

LEMMA KindStep ==
  ASSUME Inv, DrawKind
  PROVE  Inv'
<1>1. /\ pc = "kind" /\ pc' = "parameters"
      /\ state' = Advanced(state) /\ kind' = KindAt(network, state')
      /\ UNCHANGED <<turn, impl, network, given, drawn, recorded, original>>
  BY DEF DrawKind, KindAt, Kinds
<1>2. drawn = <<>> /\ state = Seeded(recorded.word)
  BY <1>1 DEF Inv, CourseInv
<1>3. PICK f : f = [i \in 0 .. 1 |-> IF i = 0 THEN state ELSE state']
  OBVIOUS
<1>4. f[0] = state /\ f[1] = state' /\ Len(drawn) = 0
  BY <1>2, <1>3
<1>5. Course(f, recorded.word, network, kind', drawn) /\ state' = f[Len(drawn) + 1]
  BY <1>1, <1>2, <1>4 DEF Course
<1>6. CourseInv'
  BY <1>1, <1>5 DEF Inv, CourseInv
<1>7. SeedInv' /\ OriginalInv'
  BY <1>1 DEF Inv, SeedInv, OriginalInv
<1>8. QED
  BY <1>6, <1>7 DEF Inv

\* One more parameter is one more step of the course.
LEMMA ParameterStep ==
  ASSUME Inv, DrawParameter
  PROVE  Inv'
<1>1. PICK x : x = ParameterAt(kind, Len(drawn) + 1, state')
  OBVIOUS
<1>2. /\ pc = "parameters" /\ pc' = pc
      /\ state' = Advanced(state) /\ drawn' = Append(drawn, x)
      /\ UNCHANGED <<turn, impl, network, given, kind, recorded, original>>
  BY <1>1, SameMenus DEF DrawParameter, ParameterAt
<1>3. PICK V : drawn \in Seq(V)
  BY DEF Inv, CourseInv, IsSequence
<1>4. PICK n : n = Len(drawn)
  OBVIOUS
<1>5. PICK W : W = V \union {x}
  OBVIOUS
<1>6. /\ n \in Nat /\ Len(drawn') = n + 1 /\ drawn' \in Seq(W)
      /\ \A i \in 1 .. n : drawn'[i] = drawn[i]
      /\ drawn'[n + 1] = x
  <2>1. drawn \in Seq(W) /\ x \in W
    BY <1>3, <1>5
  <2>2. QED
    BY <1>2, <1>4, <2>1
<1>7. PICK f : Course(f, recorded.word, network, kind, drawn) /\ state = f[n + 1]
  BY <1>2, <1>4 DEF Inv, CourseInv
<1>8. PICK g : g = [i \in 0 .. n + 2 |-> IF i = n + 2 THEN state' ELSE f[i]]
  OBVIOUS
<1>9. (\A i \in 0 .. n + 1 : g[i] = f[i]) /\ g[n + 2] = state'
  BY <1>6, <1>8
<1>10. Course(g, recorded.word, network, kind, drawn')
  <2>1. g[0] = Seeded(recorded.word) /\ kind = KindAt(network, g[1])
    BY <1>6, <1>7, <1>9 DEF Course
  <2>2. ASSUME NEW i \in 0 .. n + 1 PROVE g[i + 1] = Advanced(g[i])
    <3>1. CASE i = n + 1
      <4>1. g[i] = state
        BY <1>6, <1>7, <1>9, <3>1
      <4>2. i + 1 = n + 2
        BY <1>6, <3>1
      <4>3. QED
        BY <1>2, <1>9, <4>1, <4>2
    <3>2. CASE i # n + 1
      <4>1. i \in 0 .. n /\ g[i] = f[i] /\ g[i + 1] = f[i + 1]
        BY <1>6, <1>9, <3>2
      <4>2. QED
        BY <1>4, <1>7, <4>1 DEF Course
    <3>3. QED
      BY <3>1, <3>2
  <2>3. ASSUME NEW i \in 1 .. n + 1 PROVE drawn'[i] = ParameterAt(kind, i, g[i + 1])
    <3>1. CASE i = n + 1
      <4>1. i + 1 = n + 2 /\ drawn'[i] = x
        BY <1>6, <3>1
      <4>2. QED
        BY <1>1, <1>4, <1>9, <3>1, <4>1
    <3>2. CASE i # n + 1
      <4>1. i \in 1 .. n /\ drawn'[i] = drawn[i] /\ g[i + 1] = f[i + 1]
        BY <1>6, <1>9, <3>2
      <4>2. QED
        BY <1>4, <1>7, <4>1 DEF Course
    <3>3. QED
      BY <3>1, <3>2
  <2>4. QED
    BY <1>6, <2>1, <2>2, <2>3 DEF Course
<1>11. state' = g[Len(drawn') + 1]
  <2>1. Len(drawn') + 1 = n + 2
    BY <1>6
  <2>2. QED
    BY <1>9, <2>1
<1>12. CourseInv'
  <2>1. IsSequence(drawn')
    BY <1>6 DEF IsSequence
  <2>2. \E h : Course(h, recorded.word, network, kind, drawn') /\ state' = h[Len(drawn') + 1]
    BY <1>10, <1>11
  <2>3. QED
    BY <1>2, <2>1, <2>2 DEF CourseInv, IsSequence
<1>13. SeedInv' /\ OriginalInv'
  BY <1>2 DEF Inv, SeedInv, OriginalInv
<1>14. QED
  BY <1>12, <1>13 DEF Inv

LEMMA ReplayStep ==
  ASSUME Inv, RunExperiment \/ Replay
  PROVE  Inv'
<1>1. CASE RunExperiment
  BY <1>1, SameMenus DEF RunExperiment, Inv, SeedInv, CourseInv, OriginalInv
<1>2. CASE Replay
  <2>1. /\ pc = "run" /\ turn = 1 /\ turn' = 2 /\ given' = recorded
        /\ impl' \in {"go", "python"} /\ pc' = "gate" /\ drawn' = <<>>
        /\ original'.sign = recorded.sign /\ original'.network = network
        /\ original'.impl = impl /\ original'.kind = kind /\ original'.drawn = drawn
    BY <1>2 DEF Replay
  <2>2. SeedInv'
    BY <2>1 DEF Inv, SeedInv
  <2>3. CourseInv'
    <3>1. IsSequence(<<>>)
      BY DEF IsSequence
    <3>2. QED
      BY <2>1, <3>1 DEF CourseInv
  <2>4. OriginalInv'
    BY <2>1 DEF Inv, CourseInv, OriginalInv
  <2>5. QED
    BY <2>2, <2>3, <2>4 DEF Inv
<1>3. QED
  BY <1>1, <1>2

LEMMA Invariance == Safety => []Inv
<1>1. Inv /\ [Next]_vars => Inv'
  <2> SUFFICES ASSUME Inv, [Next]_vars PROVE Inv'
    OBVIOUS
  <2>1. CASE Over \/ UNCHANGED vars
    BY <2>1 DEF Over, vars, Inv, SeedInv, CourseInv, OriginalInv
  <2>2. QED
    BY <2>1, GateStep, SeedStep, KindStep, ParameterStep, ReplayStep DEF Next
<1>2. QED
  BY <1>1, InvInit, PTL DEF Safety

-----------------------------------------------------------------------------
(* The replay.                                                             *)

\* Two courses of one seed go through the same states as far as both are known:
\* there is no least number at which they differ.
LEMMA CoursesAgree ==
  ASSUME NEW f, NEW g, NEW N \in Nat, f[0] = g[0],
         \A i \in 0 .. N : f[i + 1] = Advanced(f[i]) /\ g[i + 1] = Advanced(g[i])
  PROVE  \A i \in 0 .. N + 1 : f[i] = g[i]
<1> DEFINE Differ == {i \in Nat : i <= N + 1 /\ f[i] # g[i]}
<1> SUFFICES ASSUME Differ # {} PROVE FALSE
  OBVIOUS
<1>1. IsWellFoundedOn(OpToRel(<, Nat), Nat)
  BY NatLessThanWellFounded, Zenon
<1>2. PICK i \in Differ : \A j \in Differ : <<j, i>> \notin OpToRel(<, Nat)
  <2>1. Differ \subseteq Nat
    OBVIOUS
  <2> HIDE DEF Differ
  <2>2. QED
    BY <1>1, <2>1, WFMin, Zenon
<1>3. i \in Nat /\ i <= N + 1 /\ f[i] # g[i] /\ i # 0
  BY <1>2
<1>4. i - 1 \in 0 .. N /\ (i - 1) + 1 = i /\ i - 1 < i
  BY <1>3
<1>5. f[i - 1] # g[i - 1]
  BY <1>3, <1>4
<1>6. i - 1 \in Differ
  BY <1>3, <1>4, <1>5
<1>7. <<i - 1, i>> \in OpToRel(<, Nat)
  BY <1>3, <1>4 DEF OpToRel
<1>8. QED
  BY <1>2, <1>6, <1>7, Zenon

\* The same seed on the same interface decides on the same fault.
LEMMA SameDecision ==
  ASSUME NEW f, NEW g, NEW word, NEW n, NEW k, NEW l, NEW d, NEW e,
         Course(f, word, n, k, d), Course(g, word, n, l, e),
         IsSequence(d), Len(d) = Len(GoMenus[k]),
         IsSequence(e), Len(e) = Len(GoMenus[l])
  PROVE  k = l /\ d = e
<1>1. Len(d) \in Nat /\ Len(e) \in Nat
  BY DEF IsSequence
<1>2. f[0] = g[0] /\ f[1] = g[1]
  <2>1. 0 \in 0 .. Len(d) /\ 0 \in 0 .. Len(e)
    BY <1>1
  <2>2. f[0 + 1] = Advanced(f[0]) /\ g[0 + 1] = Advanced(g[0])
    BY <2>1 DEF Course
  <2>3. QED
    BY <2>2 DEF Course
<1>3. k = l
  BY <1>2 DEF Course
<1>4. PICK N \in Nat : N = Len(d) /\ N = Len(e)
  BY <1>1, <1>3
<1>5. \A i \in 0 .. N : f[i + 1] = Advanced(f[i]) /\ g[i + 1] = Advanced(g[i])
  BY <1>4 DEF Course
<1>6. \A i \in 0 .. N + 1 : f[i] = g[i]
  BY <1>2, <1>5, CoursesAgree
<1>7. ASSUME NEW i \in 1 .. N PROVE d[i] = e[i]
  <2>1. f[i + 1] = g[i + 1]
    BY <1>6
  <2>2. d[i] = ParameterAt(k, i, f[i + 1]) /\ e[i] = ParameterAt(l, i, g[i + 1])
    BY <1>4 DEF Course
  <2>3. QED
    BY <1>3, <2>1, <2>2
<1>8. d = e
  <2>1. PICK V : d \in Seq(V)
    BY DEF IsSequence
  <2>2. PICK W : e \in Seq(W)
    BY DEF IsSequence
  <2>3. PICK U : U = V \union W
    OBVIOUS
  <2>4. d \in Seq(U) /\ e \in Seq(U)
    BY <2>1, <2>2, <2>3
  <2>5. QED
    BY <1>4, <1>7, <2>4, SeqEqual
<1>9. QED
  BY <1>3, <1>8

\* Whatever the seed and the generator, a replay with the same interface injects the
\* same fault with the same parameters, in either language, unless Go is given the
\* negative seed that Python recorded.
THEOREM Replays == Safety => []Replayable
<1>1. Inv => Replayable
  <2> SUFFICES ASSUME Inv, pc = "run", turn = 2, network = original.network,
                      ~(original.impl = "python" /\ original.sign = "minus" /\ impl = "go")
               PROVE  kind = original.kind /\ drawn = original.drawn
    BY DEF Replayable
  <2>1. recorded = given
    BY DEF Inv, SeedInv
  <2>2. PICK f : Course(f, given.word, network, kind, drawn)
    BY <2>1 DEF Inv, CourseInv
  <2>3. PICK g : Course(g, given.word, network, original.kind, original.drawn)
    BY DEF Inv, OriginalInv
  <2>4. /\ IsSequence(drawn) /\ Len(drawn) = Len(GoMenus[kind])
        /\ IsSequence(original.drawn) /\ Len(original.drawn) = Len(GoMenus[original.kind])
    BY DEF Inv, CourseInv, OriginalInv
  <2>5. QED
    BY <2>2, <2>3, <2>4, SameDecision
<1>2. QED
  BY <1>1, Invariance, PTL
=============================================================================
