----------------------------- MODULE MySqlProofs -----------------------------
(***************************************************************************)
(* Theorems about MySql, for every server, every number of connections     *)
(* asked for and every set of other sessions.                              *)
(***************************************************************************)
EXTENDS MySql, FiniteSetTheorems, SequenceTheorems, TLAPS

-----------------------------------------------------------------------------
(* The ids that mysql prints: a finite set in an order nobody knows        *)
(* (SetToSeqs of SequencesExt), walked through from its head.              *)

\* Such a list has every element of the set, and each once.
LEMMA ListOfSet ==
  ASSUME NEW S, IsFiniteSet(S), NEW q \in SetToSeqs(S)
  PROVE  /\ q \in Seq(S)
         /\ Len(q) = Cardinality(S) /\ Len(q) \in Nat
         /\ DOMAIN q = 1 .. Len(q)
         /\ \A i, j \in 1 .. Len(q) : i # j => q[i] # q[j]
         /\ ToSet(q) = S
<1> DEFINE n == Cardinality(S)
<1>1. n \in Nat
  BY FS_CardinalityType
<1>2. q \in [1 .. n -> S] /\ \A i, j \in 1 .. n : i # j => q[i] # q[j]
  BY DEF SetToSeqs
<1>3. q \in Seq(S) /\ Len(q) = n /\ DOMAIN q = 1 .. n
  BY <1>1, <1>2
<1>4. IsFiniteSet(1 .. n) /\ Cardinality(1 .. n) = n
  <2>1. 1 \in Int /\ n \in Int
    BY <1>1
  <2>2. /\ IsFiniteSet(1 .. n)
        /\ Cardinality(1 .. n) = IF 1 > n THEN 0 ELSE n - 1 + 1
    BY <2>1, FS_Interval, Zenon
  <2>3. QED
    BY <1>1, <2>2
<1>5. q \in Surjection(1 .. n, S)
  <2>1. q \in Injection(1 .. n, S)
    BY <1>2 DEF Injection, IsInjective
  <2>2. QED
    BY <1>4, <2>1, FS_Injection
<1>6. ToSet(q) = S
  BY <1>2, <1>5 DEF ToSet, Surjection
<1>7. QED
  BY <1>1, <1>2, <1>3, <1>6

\* The first element and the others.
LEMMA HeadOfList ==
  ASSUME NEW S, NEW q \in Seq(S), q # <<>>
  PROVE  /\ Head(q) \in ToSet(q) /\ Head(q) \in S
         /\ Tail(q) \in Seq(S)
         /\ ToSet(q) = {Head(q)} \union ToSet(Tail(q))
<1>1. /\ Len(q) \in Nat /\ Len(q) >= 1 /\ DOMAIN q = 1 .. Len(q)
      /\ Head(q) = q[1]
      /\ Tail(q) \in Seq(S) /\ Len(Tail(q)) = Len(q) - 1
      /\ DOMAIN Tail(q) = 1 .. (Len(q) - 1)
      /\ \A i \in 1 .. (Len(q) - 1) : Tail(q)[i] = q[i + 1]
  OBVIOUS
<1>2. ASSUME NEW i \in 1 .. Len(q) PROVE q[i] \in {Head(q)} \union ToSet(Tail(q))
  <2>1. CASE i = 1
    BY <1>1, <2>1
  <2>2. CASE i # 1
    <3>1. i - 1 \in DOMAIN Tail(q) /\ Tail(q)[i - 1] = q[i]
      BY <1>1, <2>2
    <3>2. QED
      BY <3>1 DEF ToSet
  <2>3. QED
    BY <2>1, <2>2
<1>3. {Head(q)} \union ToSet(Tail(q)) \subseteq ToSet(q)
  <2>1. \A j \in 1 .. (Len(q) - 1) : j + 1 \in 1 .. Len(q)
    BY <1>1
  <2>2. QED
    BY <1>1, <2>1 DEF ToSet
<1>4. Head(q) \in S
  BY <1>1
<1>5. ToSet(q) = {Head(q)} \union ToSet(Tail(q))
  BY <1>1, <1>2, <1>3 DEF ToSet
<1>6. Head(q) \in ToSet(q)
  BY <1>5
<1>7. QED
  BY <1>1, <1>4, <1>5, <1>6

-----------------------------------------------------------------------------
(* The inductive invariant.                                                *)

\* The processes are numbered as they are started, never more than the server
\* has connections, and one that runs is always in clients: this is why killing
\* the clients is killing every process.
HolderInv ==
  /\ pc = "spawn" => mode # "session" /\ Len(clients) < Wanted /\ Wanted <= MaxConnections
  /\ pc \in {"check", "inject", "list", "kill", "failed", "recovered"} => clients = <<>>
  /\ \A i \in Holders : process[i] = "running" => i \in ToSet(clients)

\* Of the matching sessions, the batch has ended those it has passed and only
\* those, and nothing is claimed before it is through.
BatchInv ==
  /\ pc \in {"list", "kill"} => mode = "session"
  /\ pc \in {"check", "inject", "list"} => victims = {}
  /\ pc = "kill" => matched # {} /\ victims \union ToSet(ids) = matched
  /\ KilledIsTrue

Inv == TypeOK /\ HolderInv /\ BatchInv

LEMMA InvInit == Init => Inv
<1> SUFFICES ASSUME Init PROVE Inv
  OBVIOUS
<1>1. <<>> \in Seq(Holders) /\ <<>> \in Seq(Sessions)
  OBVIOUS
<1>2. TypeOK
  BY <1>1 DEF Init, TypeOK
<1>3. HolderInv /\ BatchInv
  BY DEF Init, HolderInv, BatchInv, KilledIsTrue
<1>4. QED
  BY <1>2, <1>3 DEF Inv

\* Checks, failures and crashes move nothing but pc.
LEMMA MoveOn ==
  ASSUME Inv, Check \/ Inject \/ CheckFails \/ ListFails \/ KillFails \/ Crash
  PROVE  Inv'
<1> USE DEF Inv, vars, server
<1>1. /\ UNCHANGED <<mode, asked, clients, killed, ids, process, server, matched, victims>>
      /\ pc' \in {"inject", "list", "spawn", "failed", "crashed"}
  BY DEF Check, Inject, CheckFails, ListFails, KillFails, Crash
<1>2. TypeOK'
  BY <1>1 DEF TypeOK
<1>3. pc' = "spawn" => mode # "session" /\ Len(clients) < Wanted /\ Wanted <= MaxConnections
  <2> SUFFICES ASSUME pc' = "spawn"
               PROVE  mode # "session" /\ Len(clients) < Wanted /\ Wanted <= MaxConnections
    OBVIOUS
  <2>1. pc = "inject" /\ Allowed /\ mode # "session"
    BY DEF Check, Inject, CheckFails, ListFails, KillFails, Crash
  <2>2. Len(clients) = 0 /\ (mode = "connection" \/ mode = "lock") /\ asked \in Int
    BY <2>1, AskedAssumption DEF HolderInv, TypeOK, Modes
  <2>3. QED
    BY <2>1, <2>2, MaxAssumption DEF Allowed, Wanted
<1>4. HolderInv'
  BY <1>1, <1>3 DEF HolderInv, Wanted, Check, Inject, CheckFails, ListFails, KillFails, Crash
<1>5. BatchInv'
  BY <1>1 DEF BatchInv, KilledIsTrue, Check, Inject, CheckFails, ListFails, KillFails, Crash
<1>6. QED
  BY <1>2, <1>4, <1>5

LEMMA ClientSteps ==
  ASSUME Inv, Spawn \/ SpawnFails \/ Recover
  PROVE  Inv'
<1> USE DEF Inv, server
<1>0. /\ clients \in Seq(Holders) /\ MaxConnections \in Nat /\ Wanted \in Int
      /\ DOMAIN clients = 1 .. Len(clients) /\ Len(clients) \in Nat
  BY MaxAssumption, AskedAssumption DEF TypeOK, Wanted
<1>1. CASE Spawn
  <2> DEFINE i == Len(clients) + 1
  <2>1. /\ pc = "spawn" /\ i \in Holders
        /\ process' = [process EXCEPT ![i] = "running"]
        /\ clients' = Append(clients, i)
        /\ pc' = IF i < Wanted THEN "spawn" ELSE "injected"
        /\ UNCHANGED <<mode, asked, killed, ids, server, matched, victims>>
    BY <1>0, <1>1 DEF Spawn, HolderInv, Holders
  <2>2. /\ clients' \in Seq(Holders) /\ Len(clients') = i
        /\ ToSet(clients') = ToSet(clients) \union {i}
    <3>1. /\ clients' \in Seq(Holders) /\ DOMAIN clients' = 1 .. i /\ Len(clients') = i
          /\ \A j \in 1 .. Len(clients) : clients'[j] = clients[j]
          /\ clients'[i] = i
      BY <1>0, <2>1
    <3>2. 1 .. i = (1 .. Len(clients)) \union {i}
      BY <1>0
    <3>3. QED
      BY <1>0, <3>1, <3>2 DEF ToSet
  <2>3. TypeOK'
    BY <2>1, <2>2 DEF TypeOK
  <2>4. HolderInv'
    BY <2>1, <2>2 DEF HolderInv, Wanted, TypeOK
  <2>5. BatchInv'
    BY <2>1 DEF BatchInv, KilledIsTrue, HolderInv
  <2>6. QED
    BY <2>3, <2>4, <2>5
<1>2. CASE SpawnFails \/ Recover
  <2>1. /\ KillClients /\ pc' \in {"failed", "recovered"} /\ pc \in {"spawn", "injected"}
        /\ pc' = "failed" <=> pc = "spawn"
        /\ UNCHANGED <<mode, asked, killed, ids, server, matched, victims>>
    BY <1>2 DEF SpawnFails, Recover
  <2>2. TypeOK'
    <3>1. <<>> \in Seq(Holders)
      OBVIOUS
    <3>2. QED
      BY <2>1, <3>1 DEF TypeOK, KillClients
  <2>3. HolderInv'
    BY <2>1 DEF HolderInv, KillClients
  <2>4. BatchInv'
    BY <2>1 DEF BatchInv, KilledIsTrue, HolderInv
  <2>5. QED
    BY <2>2, <2>3, <2>4
<1>3. QED
  BY <1>1, <1>2

LEMMA FiniteSessions ==
  ASSUME NEW S \in SUBSET Sessions
  PROVE  /\ IsFiniteSet(S) /\ Cardinality(S) \in Nat
         /\ S # {} => Cardinality(S) > 0
<1>1. IsFiniteSet(S)
  BY SessionsAssumption, FS_Subset
<1>2. Cardinality(S) \in Nat
  BY <1>1, FS_CardinalityType
<1>3. Cardinality(S) = 0 <=> S = {}
  BY <1>1, FS_EmptySet
<1>4. QED
  BY <1>1, <1>2, <1>3

LEMMA BatchSteps ==
  ASSUME Inv, List \/ Kill \/ KillsDone
  PROVE  Inv'
<1> USE DEF Inv, server
<1>1. CASE List
  <2>1. /\ pc = "list" /\ mode = "session" /\ clients = <<>> /\ victims = {} /\ killed = 0
        /\ matched' \in SUBSET Sessions /\ ids' \in SetToSeqs(matched')
        /\ pc' = IF matched' = {} THEN "failed" ELSE "kill"
        /\ UNCHANGED <<mode, asked, clients, killed, process, server, victims>>
    BY <1>1 DEF List, HolderInv, BatchInv, KilledIsTrue
  <2>2. ids' \in Seq(matched') /\ ToSet(ids') = matched'
    BY <2>1, FiniteSessions, ListOfSet
  <2>3. ids' \in Seq(Sessions)
    BY <2>1, <2>2
  <2>4. TypeOK'
    BY <2>1, <2>3 DEF TypeOK
  <2>5. HolderInv' /\ BatchInv'
    BY <2>1, <2>2 DEF HolderInv, BatchInv, KilledIsTrue
  <2>6. QED
    BY <2>4, <2>5
<1>2. CASE Kill
  <2>1. /\ pc = "kill" /\ pc' = pc
        /\ Head(ids) \in ToSet(ids) /\ Tail(ids) \in Seq(Sessions)
        /\ ToSet(ids) = {Head(ids)} \union ToSet(Tail(ids))
        /\ ids' = Tail(ids) /\ victims' = victims \union {Head(ids)}
        /\ other' = [other EXCEPT ![Head(ids)] = "gone"]
        /\ UNCHANGED <<mode, asked, clients, killed, process, session, busy, matched>>
    BY <1>2, HeadOfList DEF Kill, TypeOK
  <2>2. victims' \subseteq matched /\ victims' \union ToSet(ids') = matched
    BY <2>1 DEF BatchInv
  <2>3. TypeOK'
    BY <2>1, <2>2 DEF TypeOK
  <2>4. HolderInv'
    BY <2>1 DEF HolderInv
  <2>5. BatchInv'
    BY <2>1, <2>2 DEF BatchInv, KilledIsTrue
  <2>6. QED
    BY <2>3, <2>4, <2>5
<1>3. CASE KillsDone
  <2>1. /\ pc = "kill" /\ pc' = "injected" /\ killed' = Cardinality(matched)
        /\ UNCHANGED <<mode, asked, clients, ids, process, server, matched, victims>>
    BY <1>3 DEF KillsDone
  <2>2. matched \in SUBSET Sessions /\ matched # {} /\ victims = matched
    <3>1. pc = "kill" /\ ids = <<>> /\ ToSet(<<>>) = {}
      BY <1>3 DEF KillsDone, ToSet
    <3>2. QED
      BY <3>1 DEF TypeOK, BatchInv
  <2>3. killed' \in Nat /\ killed' > 0
    BY <2>1, <2>2, FiniteSessions
  <2>4. TypeOK'
    BY <2>1, <2>3 DEF TypeOK
  <2>5. HolderInv' /\ BatchInv'
    BY <2>1, <2>2, <2>3 DEF HolderInv, BatchInv, KilledIsTrue
  <2>6. QED
    BY <2>4, <2>5
<1>4. QED
  BY <1>1, <1>2, <1>3

\* The server and the other users change neither what the atom knows nor, but by
\* ending it, what it has started.
LEMMA OtherSteps ==
  ASSUME Inv, Holding \/ Others \/ UNCHANGED vars
  PROVE  Inv'
<1> USE DEF Inv
<1>1. CASE Holding
  <2>1. PICK i \in Holders : Answer(i) \/ SleepEnds(i)
    BY <1>1 DEF Holding
  <2>2. /\ process' \in [Holders -> {"none", "running", "dead"}]
        /\ session' \in [Holders -> {"none", "waiting", "holding", "closed"}]
        /\ \A j \in Holders : process'[j] = "running" => process[j] = "running"
    BY <2>1 DEF Answer, Connect, Refuse, Notice, Grant, SleepEnds, TypeOK
  <2>3. QED
    BY <1>1, <2>2 DEF Holding, TypeOK, HolderInv, BatchInv, KilledIsTrue, Wanted
<1>2. CASE Others
  <2>1. busy' \in BOOLEAN /\ other' \in [Sessions -> {"match", "differ", "gone"}]
    BY <1>2 DEF Others, Present, TypeOK
  <2>2. QED
    BY <1>2, <2>1 DEF Others, TypeOK, HolderInv, BatchInv, KilledIsTrue, Wanted
<1>3. CASE UNCHANGED vars
  BY <1>3 DEF vars, server, TypeOK, HolderInv, BatchInv, KilledIsTrue, Wanted
<1>4. QED
  BY <1>1, <1>2, <1>3

LEMMA Invariant == Safety => []Inv
<1>1. Inv /\ [Next]_vars => Inv'
  BY MoveOn, ClientSteps, BatchSteps, OtherSteps DEF Next, Atom, Ended
<1>2. QED
  BY <1>1, InvInit, PTL DEF Safety

\* Every variable stays in its domain: in particular no process is started that
\* the server could not have a connection for.
THEOREM TypeCorrect == Safety => []TypeOK
<1>1. Inv => TypeOK
  BY DEF Inv
<1>2. QED
  BY <1>1, Invariant, PTL

\* Failed half way or recovered, no process is left that could still take a
\* connection or the lock: for any number of them, wherever the failure came.
THEOREM LeavesNoProcess == Safety => []NoProcessLeft
<1>1. Inv => NoProcessLeft
  BY DEF Inv, HolderInv, NoProcessLeft, ToSet
<1>2. QED
  BY <1>1, Invariant, PTL

\* The count of killed sessions is exact or zero, however the sessions come and
\* go between the query and the batch.
THEOREM CountsTruly == Safety => []KilledIsTrue
<1>1. Inv => KilledIsTrue
  BY DEF Inv, BatchInv
<1>2. QED
  BY <1>1, Invariant, PTL
=============================================================================
