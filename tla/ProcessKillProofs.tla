-------------------------- MODULE ProcessKillProofs --------------------------
(***************************************************************************)
(* What the process atom kills (ProcessKill), for every set of pids and    *)
(* any number of processes that start, exec, end and are reaped meanwhile. *)
(***************************************************************************)
EXTENDS ProcessKill, TLAPS

\* The types, and where the atom is while it has killed nothing yet.
LocalsInv ==
  /\ pc \in {"walk", "list", "match", "kill", "ok", "failed"} /\ round \in {1, 2}
  /\ cursor \in Pids /\ protected \subseteq Pids /\ todo \subseteq Pids
  /\ targets \subseteq Pids
  /\ pc \in {"walk", "list", "match"} => felled = {} /\ strays = {}
  /\ pc = "kill" => round = 2

\* What the kernel keeps true of its table: pid 1 and the injector run, and a
\* parent that /proc names is a process that runs.
TableInv ==
  /\ alive \subseteq Pids /\ zombie \subseteq Pids /\ alive \intersect zombie = {}
  /\ {1, Injector} \subseteq alive
  /\ parent \in [Pids -> Pids \union {0}] /\ parent[1] = 0
  /\ \A p \in Pids : parent[p] \in alive \union {0}

\* S holds the injector and is closed under parent, but for what frontier holds.
Ancestry(S, frontier) ==
  /\ 1 \in S /\ Injector \in S \union frontier
  /\ \A q \in S : parent[q] \in S \union frontier \union {0}

\* The protected pids and pid 1 hold every ancestor, but for those the walk has
\* still to reach: the chain may shrink behind it, and never grows.
WalkInv ==
  /\ \E S \in SUBSET (protected \union {1}) :
       Ancestry(S, IF pc = "walk" THEN {cursor} ELSE {})
  /\ pc \in {"match", "kill"} => targets \intersect protected = {}

\* A target of Inject that runs and does not match has taken its pid since, or has
\* changed.
StrayInv ==
  /\ round = 2 /\ pc \in {"match", "kill"} => targets \intersect alive \subseteq hit \union recycled \union altered
  /\ strays \subseteq recycled \union altered

\* What a kill that succeeded can have met: a process, pid 1 or a zombie.
KillInv ==
  /\ pc \in {"match", "kill"} /\ 1 \in targets => 1 \in hit
  /\ zombie \subseteq ended \union felled
  /\ killed \subseteq felled \union ended \union ({1} \intersect hit)
  /\ pc = "ok" => killed # {}

Inv == LocalsInv /\ TableInv /\ WalkInv /\ StrayInv /\ KillInv

LEMMA InvInit == Init => Inv
<1> SUFFICES ASSUME Init PROVE Inv
  OBVIOUS
<1> USE PidsAssumption, InjectorAssumption
<1>1. LocalsInv
  BY DEF Init, LocalsInv
<1>2. TableInv
  <2>1. /\ alive \subseteq Pids /\ zombie \subseteq Pids /\ alive \intersect zombie = {}
        /\ {1, Injector} \subseteq alive
    BY DEF Init
  <2>2. \A p \in Pids : parent[p] \in alive \union {0}
    BY DEF Init
  <2>3. QED
    BY <2>1, <2>2 DEF Init, TableInv
<1>3. WalkInv
  <2>1. Ancestry({1}, {cursor})
    BY <1>2 DEF Init, TableInv, Ancestry
  <2>2. QED
    BY <2>1 DEF Init, WalkInv
<1>4. StrayInv /\ KillInv
  BY DEF Init, StrayInv, KillInv
<1>5. QED
  BY <1>1, <1>2, <1>3, <1>4 DEF Inv

-----------------------------------------------------------------------------
(* The atom on its way to the kills.                                       *)

LEMMA WalkStep ==
  ASSUME Inv, Walk
  PROVE  Inv'
<1> USE PidsAssumption
<1>1. LocalsInv' /\ TableInv' /\ StrayInv' /\ KillInv'
  <2>1. cursor' \in Pids
    BY DEF Inv, LocalsInv, TableInv, Walk
  <2>2. LocalsInv'
    BY <2>1 DEF Inv, LocalsInv, Walk, table, deeds
  <2>3. TableInv' /\ StrayInv' /\ KillInv'
    BY DEF Inv, TableInv, StrayInv, KillInv, Walk, table, deeds
  <2>4. QED
    BY <2>2, <2>3
<1>2. PICK S \in SUBSET (protected \union {1}) : Ancestry(S, {cursor})
  BY DEF Inv, WalkInv, Walk
<1>3. parent' = parent /\ cursor \in Pids /\ parent[cursor] \in Pids \union {0}
  BY DEF Walk, table, Inv, LocalsInv, TableInv
<1>4. PICK T \in SUBSET (protected' \union {1}) :
        T = S \union (IF cursor > 1 THEN {cursor} ELSE {})
  BY <1>2 DEF Walk
<1>5. cursor \in T
  BY <1>2, <1>3, <1>4 DEF Ancestry
<1>6. CASE cursor > 1 /\ parent[cursor] \notin {0, cursor}
  <2>1. pc' = "walk" /\ cursor' = parent[cursor]
    BY <1>6 DEF Walk
  <2>2. Ancestry(T, {cursor})'
    BY <1>2, <1>3, <1>4, <1>5, <2>1 DEF Ancestry
  <2>3. QED
    BY <1>1, <1>4, <2>1, <2>2 DEF Inv, WalkInv
<1>7. CASE ~(cursor > 1 /\ parent[cursor] \notin {0, cursor})
  <2>1. pc' = "list" /\ parent[1] = 0
    BY <1>7 DEF Walk, Inv, TableInv
  <2>2. Ancestry(T, {})'
    BY <1>2, <1>3, <1>4, <1>5, <1>7, <2>1 DEF Ancestry
  <2>3. QED
    BY <1>1, <1>4, <2>1, <2>2 DEF Inv, WalkInv
<1>8. QED
  BY <1>6, <1>7

LEMMA SearchStep ==
  ASSUME Inv, ReadDir \/ Match \/ CheckFails
  PROVE  Inv'
<1> USE DEF Inv, table, deeds
<1>1. LocalsInv' /\ TableInv'
  BY DEF LocalsInv, TableInv, ReadDir, Match, CheckFails
<1>2. WalkInv'
  <2>1. PICK S \in SUBSET (protected \union {1}) : Ancestry(S, {})
    BY DEF WalkInv, ReadDir, Match, CheckFails
  <2>2. Ancestry(S, {})' /\ pc' # "walk"
    BY <2>1 DEF Ancestry, ReadDir, Match, CheckFails
  <2>3. protected' = protected
        /\ (pc' \in {"match", "kill"} => targets' \intersect protected = {})
    BY DEF WalkInv, ReadDir, Match, CheckFails
  <2>4. QED
    BY <2>1, <2>2, <2>3 DEF WalkInv
<1>3. StrayInv' /\ KillInv'
  BY DEF StrayInv, KillInv, ReadDir, Match, CheckFails
<1>4. QED
  BY <1>1, <1>2, <1>3

LEMMA InjectStep ==
  ASSUME Inv, Inject
  PROVE  Inv'
<1> USE PidsAssumption DEF Inv, table, deeds
<1>1. LocalsInv' /\ TableInv'
  BY DEF LocalsInv, TableInv, Inject
<1>2. WalkInv'
  <2>1. CASE round = 1
    <3>1. Ancestry({1}, {Injector})'
      BY DEF Ancestry, TableInv, Inject
    <3>2. cursor' = Injector /\ pc' = "walk"
      BY <2>1 DEF Inject
    <3>3. QED
      BY <3>1, <3>2 DEF WalkInv
  <2>2. CASE round # 1
    <3>1. PICK S \in SUBSET (protected \union {1}) : Ancestry(S, {})
      BY DEF WalkInv, Inject
    <3>2. Ancestry(S, {})' /\ pc' = "kill" /\ protected' = protected /\ targets' = targets
      BY <2>2, <3>1 DEF Ancestry, Inject
    <3>3. targets \intersect protected = {}
      BY DEF WalkInv, Inject
    <3>4. QED
      BY <3>1, <3>2, <3>3 DEF WalkInv
  <2>3. QED
    BY <2>1, <2>2
<1>3. StrayInv' /\ KillInv'
  BY DEF StrayInv, KillInv, LocalsInv, Inject
<1>4. QED
  BY <1>1, <1>2, <1>3

-----------------------------------------------------------------------------
(* A process ends, by itself or because it is killed.                      *)

\* Pid 1 takes over its children, so a set that holds pid 1 stays closed.
LEMMA EndsShortens ==
  ASSUME TableInv, NEW p \in alive \ {1, Injector}, Ends(p)
  PROVE  /\ TableInv'
         /\ \A S \in SUBSET Pids : \A F : Ancestry(S, F) => Ancestry(S, F)'
<1> USE PidsAssumption
<1>1. parent' = [q \in Pids |-> IF parent[q] = p THEN 1 ELSE parent[q]]
      /\ alive' = alive \ {p} /\ zombie' = zombie \union {p}
  BY DEF Ends
<1>2. TableInv'
  BY <1>1 DEF TableInv
<1>3. ASSUME NEW S \in SUBSET Pids, NEW F, Ancestry(S, F)
      PROVE  Ancestry(S, F)'
  BY <1>1, <1>3 DEF Ancestry
<1>4. QED
  BY <1>2, <1>3

\* An invariant that speaks of the walk survives a process that ends.
LEMMA EndsWalk ==
  ASSUME Inv, NEW p \in alive \ {1, Injector}, Ends(p),
         targets' \subseteq targets, UNCHANGED <<pc, cursor, protected>>
  PROVE  WalkInv'
<1>1. PICK S \in SUBSET (protected \union {1}) :
        Ancestry(S, IF pc = "walk" THEN {cursor} ELSE {})
  BY DEF Inv, WalkInv
<1>2. PICK F : F = IF pc = "walk" THEN {cursor} ELSE {}
  OBVIOUS
<1>3. Ancestry(S, F)'
  BY <1>1, <1>2, EndsShortens, PidsAssumption DEF Inv, LocalsInv
<1>4. F = IF pc' = "walk" THEN {cursor'} ELSE {}
  BY <1>2
<1>5. Ancestry(S, IF pc = "walk" THEN {cursor} ELSE {})'
  BY <1>3, <1>4 DEF Ancestry
<1>6. QED
  BY <1>5 DEF Inv, WalkInv

\* No kill meets the injector or, but for pid 1, an ancestor of it.
LEMMA Spared ==
  ASSUME Inv, pc = "kill"
  PROVE  AncestorsSpared /\ Injector \notin targets
<1>1. PICK S \in SUBSET (protected \union {1}) : Ancestry(S, {})
  BY DEF Inv, WalkInv
<1>2. S \in SUBSET Pids /\ Injector \in S /\ \A q \in S : parent[q] \in S \union {0}
  BY <1>1, PidsAssumption DEF Ancestry, Inv, LocalsInv
<1>3. Lineage \subseteq S
  BY <1>2 DEF Lineage
<1>4. targets \intersect protected = {}
  BY DEF Inv, WalkInv
<1>5. QED
  BY <1>1, <1>2, <1>3, <1>4, InjectorAssumption DEF AncestorsSpared

LEMMA KillStep ==
  ASSUME Inv, NEW p \in Pids, KillPID(p)
  PROVE  Inv'
<1>1. LocalsInv'
  BY DEF Inv, LocalsInv, KillPID
<1>2. CASE p \in alive \ {1}
  <2>1. p \in alive \ {1, Injector} /\ Ends(p)
    BY <1>2, Spared DEF KillPID
  <2>2. TableInv'
    BY <2>1, EndsShortens DEF Inv
  <2>3. WalkInv'
    BY <2>1, EndsWalk DEF KillPID
  <2>4. StrayInv'
    BY <2>1 DEF Inv, StrayInv, LocalsInv, KillPID, Ends
  <2>5. KillInv'
    BY <2>1 DEF Inv, KillInv, LocalsInv, KillPID, Ends
  <2>6. QED
    BY <1>1, <2>2, <2>3, <2>4, <2>5 DEF Inv
<1>3. CASE p \notin alive \ {1}
  <2>1. UNCHANGED <<alive, zombie, parent, hit, deeds, pc, protected, cursor, ended, recycled, altered, round>>
        /\ targets' = targets \ {p} /\ killed' = killed \union {p}
    BY <1>3 DEF KillPID
  <2>2. TableInv' /\ StrayInv'
    BY <2>1 DEF Inv, TableInv, StrayInv, deeds
  <2>3. WalkInv'
    BY <2>1 DEF Inv, WalkInv, Ancestry
  <2>4. p = 1 \/ p \in zombie
    BY <1>3 DEF KillPID
  <2>5. KillInv'
    BY <2>1, <2>4 DEF Inv, KillInv, KillPID, deeds
  <2>6. QED
    BY <1>1, <2>2, <2>3, <2>5 DEF Inv
<1>4. QED
  BY <1>2, <1>3

LEMMA NoKillStep ==
  ASSUME Inv, (\E p \in Pids : KillFails(p)) \/ InjectReturns
  PROVE  Inv'
<1> USE DEF KillFails, InjectReturns, table, deeds
<1>1. LocalsInv' /\ TableInv' /\ StrayInv'
  BY DEF Inv, LocalsInv, TableInv, StrayInv
<1>2. KillInv'
  BY DEF Inv, KillInv, LocalsInv
<1>3. WalkInv'
  <2>1. PICK S \in SUBSET (protected \union {1}) : Ancestry(S, {})
    BY DEF Inv, WalkInv
  <2>2. Ancestry(S, {})' /\ pc' # "walk" /\ protected' = protected /\ targets' \subseteq targets
    BY <2>1 DEF Ancestry
  <2>3. QED
    BY <2>1, <2>2 DEF Inv, WalkInv
<1>4. QED
  BY <1>1, <1>2, <1>3 DEF Inv

-----------------------------------------------------------------------------
(* The other processes.                                                    *)

LEMMA ExitStep ==
  ASSUME Inv, NEW p \in Pids, Exit(p)
  PROVE  Inv'
<1>1. p \in alive \ {1, Injector} /\ Ends(p) /\ UNCHANGED <<locals, deeds>>
      /\ ended' = ended \union {p} /\ recycled' = recycled /\ altered' = altered
  BY DEF Exit
<1>2. LocalsInv'
  BY <1>1 DEF Inv, LocalsInv, locals, deeds
<1>3. TableInv'
  BY <1>1, EndsShortens DEF Inv
<1>4. WalkInv'
  BY <1>1, EndsWalk DEF locals
<1>5. StrayInv' /\ KillInv'
  BY <1>1 DEF Inv, StrayInv, KillInv, Ends, locals, deeds
<1>6. QED
  BY <1>2, <1>3, <1>4, <1>5 DEF Inv

LEMMA ReapStep ==
  ASSUME Inv, NEW p \in Pids, Reap(p)
  PROVE  Inv'
<1> USE DEF Inv, Reap, locals, deeds
<1>1. LocalsInv'
  BY DEF LocalsInv
<1>2. TableInv'
  BY PidsAssumption DEF TableInv
<1>3. WalkInv'
  <2>1. PICK S \in SUBSET (protected \union {1}) :
          Ancestry(S, IF pc = "walk" THEN {cursor} ELSE {})
    BY DEF WalkInv
  <2>2. \A q \in S : parent'[q] \in {parent[q], 0}
    BY <2>1, PidsAssumption DEF LocalsInv, TableInv
  <2>3. Ancestry(S, IF pc = "walk" THEN {cursor} ELSE {})'
    BY <2>1, <2>2 DEF Ancestry
  <2>4. QED
    BY <2>1, <2>3 DEF WalkInv
<1>4. StrayInv' /\ KillInv'
  BY DEF StrayInv, KillInv, TableInv
<1>5. QED
  BY <1>1, <1>2, <1>3, <1>4

\* A new process takes the pid of nobody's parent: the ancestry loses a pid that
\* has gone and gains none.
LEMMA ForkStep ==
  ASSUME Inv, NEW p \in Pids, NEW r \in Pids, Fork(p, r)
  PROVE  Inv'
<1>1. /\ r \notin alive /\ p \in alive
      /\ alive' = alive \union {r} /\ parent' = [parent EXCEPT ![r] = p]
      /\ recycled' = recycled \union {r} /\ hit \subseteq hit'
      /\ UNCHANGED <<zombie, altered, ended, locals, deeds>>
  BY DEF Fork
<1>2. LocalsInv'
  BY <1>1 DEF Inv, LocalsInv, locals, deeds
<1>3. TableInv'
  BY <1>1, PidsAssumption DEF Inv, TableInv, Fork
<1>4. WalkInv'
  <2>1. PICK S \in SUBSET (protected \union {1}) :
          Ancestry(S, IF pc = "walk" THEN {cursor} ELSE {})
    BY DEF Inv, WalkInv
  <2>2. PICK T : T = S \ {r}
    OBVIOUS
  <2>3. r # 1 /\ r # Injector /\ r # 0
    BY <1>1, PidsAssumption DEF Inv, TableInv
  <2>4. \A q \in T : parent'[q] = parent[q] /\ parent[q] # r
    BY <1>1, <2>1, <2>2, <2>3, PidsAssumption DEF Inv, LocalsInv, TableInv
  <2>5. Ancestry(T, IF pc = "walk" THEN {cursor} ELSE {})'
    BY <1>1, <2>1, <2>2, <2>3, <2>4 DEF Ancestry, locals
  <2>6. QED
    BY <1>1, <2>1, <2>2, <2>5 DEF Inv, WalkInv, locals
<1>5. StrayInv' /\ KillInv'
  BY <1>1 DEF Inv, StrayInv, KillInv, locals, deeds
<1>6. QED
  BY <1>2, <1>3, <1>4, <1>5 DEF Inv

LEMMA ExecStep ==
  ASSUME Inv, NEW p \in Pids, Exec(p)
  PROVE  Inv'
<1> USE DEF Inv, Exec, locals, deeds
<1>1. LocalsInv' /\ TableInv'
  BY DEF LocalsInv, TableInv
<1>2. WalkInv'
  BY DEF WalkInv, Ancestry
<1>3. StrayInv' /\ KillInv'
  BY DEF StrayInv, KillInv
<1>4. QED
  BY <1>1, <1>2, <1>3

LEMMA Invariance == Safety => []Inv
<1>1. Inv /\ [Next]_vars => Inv'
  <2> SUFFICES ASSUME Inv, [Next]_vars PROVE Inv'
    OBVIOUS
  <2>1. CASE Atom
    BY <2>1, WalkStep, SearchStep, InjectStep, KillStep, NoKillStep DEF Atom
  <2>2. CASE Others
    BY <2>2, ExitStep, ReapStep, ExecStep, ForkStep DEF Others
  <2>3. CASE UNCHANGED vars
    BY <2>3 DEF vars, table, locals, deeds, Inv, LocalsInv, TableInv, WalkInv, Ancestry,
       StrayInv, KillInv
  <2>4. QED
    BY <2>1, <2>2, <2>3 DEF Next
<1>2. QED
  BY <1>1, InvInit, PTL DEF Safety

-----------------------------------------------------------------------------
(* The theorems.                                                           *)

\* Whatever ends, is reaped or takes a freed pid while the chain of parents is
\* walked and the processes are killed, what is to be killed is never the injector
\* nor, at that moment, an ancestor of it, pid 1 excepted.
THEOREM SparesAncestors == Safety => []AncestorsSpared
<1>1. Inv => AncestorsSpared
  BY Spared DEF AncestorsSpared
<1>2. QED
  BY <1>1, Invariance, PTL

\* A process that does not match is killed only if it took its pid, or changed its
\* name, after the second Check, the one Inject makes, had begun.
THEOREM KillsOnlyStale == Safety => []StraysAreStale
<1>1. Inv => StraysAreStale
  BY DEF Inv, StrayInv, StraysAreStale
<1>2. QED
  BY <1>1, Invariance, PTL

\* Inject reports success only for signals that killed a process, met one that had
\* ended by itself and was still in /proc, or went to a matching pid 1.
THEOREM SuccessIsAKill == Safety => []SuccessKills
<1>1. Inv => SuccessKills
  BY DEF Inv, KillInv, SuccessKills
<1>2. QED
  BY <1>1, Invariance, PTL
===============================================================================
