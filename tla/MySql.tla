-------------------------------- MODULE MySql --------------------------------
(***************************************************************************)
(* The MySQL atom (go/internal/fault/mysql.go).  It holds connections or a *)
(* table lock through mysql client processes it has spawned, each running  *)
(* a SLEEP, and kills sessions by criteria.  The processes outlive the     *)
(* injector; the sessions live in the server and outlive the processes     *)
(* until the server notices.                                               *)
(*                                                                         *)
(* The server and the other sessions are external to the program.  A SLEEP *)
(* lasts as long as it likes: its length is left out.                      *)
(***************************************************************************)
EXTENDS Integers, FiniteSets, SequencesExt

CONSTANTS
  MaxConnections,   \* @@max_connections of the server
  Asked,            \* the values -connections may have
  Sessions          \* bound: the sessions of other users

ASSUME MaxAssumption == MaxConnections \in Nat \ {0}   \* the least a server accepts is one
ASSUME AskedAssumption == Asked \subseteq Int
ASSUME SessionsAssumption == IsFiniteSet(Sessions)

Modes == {"connection", "lock", "session"}
Holders == 1 .. MaxConnections

VARIABLES
  mode,      \* MySQLFault.Mode
  asked,     \* MySQLFault.Connections
  pc,        \* where the experiment is
  clients,   \* MySQLFault.clients, as the numbers of the processes
  killed,    \* MySQLFault.killed
  ids,       \* the sessions still to be killed by the batch
  process,   \* each holder process: "none", "running" or "dead"
  session,   \* its session: "none", "waiting" for the lock, "holding", "closed"
  busy,      \* somebody else has the table locked
  other,     \* each other session: "match" the criteria, "differ" or "gone"
  matched,   \* history: the sessions the process list showed as matching
  victims    \* history: the sessions KILL has ended

server == <<session, busy, other>>
vars == <<mode, asked, pc, clients, killed, ids, process, server, matched, victims>>

Open == {i \in Holders : session[i] \in {"waiting", "holding"}}
Present == {s \in Sessions : other[s] # "gone"}
Wanted == IF mode = "lock" THEN 1 ELSE asked

Init ==
  /\ mode \in Modes /\ asked \in Asked
  /\ pc = "check"
  /\ clients = <<>> /\ killed = 0 /\ ids = <<>>
  /\ process = [i \in Holders |-> "none"]
  /\ session = [i \in Holders |-> "none"]
  /\ busy \in BOOLEAN
  /\ other \in [Sessions -> {"match", "differ"}]
  /\ matched = {} /\ victims = {}

-----------------------------------------------------------------------------
(* Check, and again at the start of Inject.                                *)

Allowed == mode = "connection" => asked >= 1 /\ asked < MaxConnections

Check ==
  /\ pc = "check" /\ Allowed
  /\ pc' = "inject"
  /\ UNCHANGED <<mode, asked, clients, killed, ids, process, server, matched, victims>>

Inject ==
  /\ pc = "inject" /\ Allowed
  /\ pc' = IF mode = "session" THEN "list" ELSE "spawn"
  /\ UNCHANGED <<mode, asked, clients, killed, ids, process, server, matched, victims>>

\* A criterion is not met, or the server does not answer.
CheckFails ==
  /\ pc \in {"check", "inject"}
  /\ pc' = "failed"
  /\ UNCHANGED <<mode, asked, clients, killed, ids, process, server, matched, victims>>

-----------------------------------------------------------------------------
(* Recover kills every process in clients and forgets them.                *)

\* Mutant: the processes are forgotten before they are killed.
ForgetClients == clients' = <<>> /\ UNCHANGED process

KillClients ==
  /\ clients' = <<>>
  /\ process' = [i \in Holders |-> IF i \in ToSet(clients) THEN "dead" ELSE process[i]]

Recover ==
  /\ pc = "injected"
  /\ KillClients
  /\ pc' = "recovered"
  /\ UNCHANGED <<mode, asked, killed, ids, server, matched, victims>>

-----------------------------------------------------------------------------
(* injectConnection and injectLock.                                        *)

Spawn ==
  /\ pc = "spawn"
  /\ LET i == Len(clients) + 1
     IN /\ process' = [process EXCEPT ![i] = "running"]
        /\ clients' = Append(clients, i)
        /\ pc' = IF i < Wanted THEN "spawn" ELSE "injected"
  /\ UNCHANGED <<mode, asked, killed, ids, server, matched, victims>>

\* Mutant: the processes that could be started are left alone.
SpawnFailsOnly ==
  /\ pc = "spawn"
  /\ pc' = "failed"
  /\ UNCHANGED <<mode, asked, clients, killed, ids, process, server, matched, victims>>

SpawnFails ==
  /\ pc = "spawn"
  /\ KillClients
  /\ pc' = "failed"
  /\ UNCHANGED <<mode, asked, killed, ids, server, matched, victims>>

-----------------------------------------------------------------------------
(* injectSession: one query, then a batch of KILL statements in which the  *)
(* client stops at the first that fails.                                   *)

List ==
  /\ pc = "list"
  /\ matched' = {s \in Sessions : other[s] = "match"}
  /\ ids' \in SetToSeqs(matched')
  /\ pc' = IF matched' = {} THEN "failed" ELSE "kill"
  /\ UNCHANGED <<mode, asked, clients, killed, process, server, victims>>

ListFails ==
  /\ pc = "list"
  /\ pc' = "failed"
  /\ UNCHANGED <<mode, asked, clients, killed, ids, process, server, matched, victims>>

Kill ==
  /\ pc = "kill" /\ ids # <<>>
  /\ Head(ids) \in Present
  /\ other' = [other EXCEPT ![Head(ids)] = "gone"]
  /\ victims' = victims \union {Head(ids)}
  /\ ids' = Tail(ids)
  /\ UNCHANGED <<mode, asked, pc, clients, killed, process, session, busy, matched>>

\* Mutant: the batch goes on after an error.
KillPassedOver ==
  /\ pc = "kill" /\ ids # <<>>
  /\ ids' = Tail(ids)
  /\ UNCHANGED <<mode, asked, pc, clients, killed, process, server, matched, victims>>

\* The session is gone already (an unknown thread), or the connection is lost.
KillFails ==
  /\ pc = "kill" /\ ids # <<>>
  /\ pc' = "failed"
  /\ UNCHANGED <<mode, asked, clients, killed, ids, process, server, matched, victims>>

\* Mutant: the header line is taken off a count that has none.
KilledLessHeader ==
  /\ pc = "kill" /\ ids = <<>>
  /\ killed' = Len(ids) - 1
  /\ pc' = "injected"
  /\ UNCHANGED <<mode, asked, clients, ids, process, server, matched, victims>>

KillsDone ==
  /\ pc = "kill" /\ ids = <<>>
  /\ killed' = Cardinality(matched)
  /\ pc' = "injected"
  /\ UNCHANGED <<mode, asked, clients, ids, process, server, matched, victims>>

\* The injector is killed; what it has spawned goes on.
Crash ==
  /\ pc \notin {"recovered", "failed", "crashed"}
  /\ pc' = "crashed"
  /\ UNCHANGED <<mode, asked, clients, killed, ids, process, server, matched, victims>>

-----------------------------------------------------------------------------
(* The holder processes and the server.                                    *)

HasSlot == Cardinality(Open) + Cardinality(Present) < MaxConnections

Connect(i) ==
  /\ process[i] = "running" /\ session[i] = "none" /\ HasSlot
  /\ session' = [session EXCEPT ![i] = IF mode = "lock" THEN "waiting" ELSE "holding"]
  /\ UNCHANGED process

\* The server is full or unreachable: mysql prints an error nobody reads.
Refuse(i) ==
  /\ process[i] = "running" /\ session[i] = "none"
  /\ session' = [session EXCEPT ![i] = "closed"]
  /\ process' = [process EXCEPT ![i] = "dead"]

Grant(i) ==
  /\ session[i] = "waiting" /\ ~busy
  /\ session' = [session EXCEPT ![i] = "holding"]
  /\ UNCHANGED process

\* Mutant: the statement holds without an end of its own.
SleepForever(i) == FALSE /\ UNCHANGED <<session, process>>

\* SELECT SLEEP returns, mysql has no more statements and exits.
SleepEnds(i) ==
  /\ session[i] = "holding"
  /\ session' = [session EXCEPT ![i] = "closed"]
  /\ process' = [process EXCEPT ![i] = "dead"]

Notice(i) ==
  /\ process[i] = "dead" /\ i \in Open
  /\ session' = [session EXCEPT ![i] = "closed"]
  /\ UNCHANGED process

Answer(i) == Connect(i) \/ Refuse(i) \/ Notice(i) \/ Grant(i)

Holding == /\ \E i \in Holders : Answer(i) \/ SleepEnds(i)
           /\ UNCHANGED <<mode, asked, pc, clients, killed, ids, busy, other, matched, victims>>

\* Others take and release the table, and their sessions change and end.
Others ==
  /\ \/ /\ \A i \in Holders : session[i] # "holding"
        /\ busy' = ~busy
        /\ UNCHANGED other
     \/ /\ \E s \in Present : \E now \in {"match", "differ", "gone"} :
             other' = [other EXCEPT ![s] = now]
        /\ UNCHANGED busy
  /\ UNCHANGED <<mode, asked, pc, clients, killed, ids, process, session, matched, victims>>

Ended == pc \in {"recovered", "failed", "crashed"} /\ UNCHANGED vars

Atom ==
  \/ Check \/ Inject \/ CheckFails \/ Spawn \/ SpawnFails
  \/ List \/ ListFails \/ Kill \/ KillFails \/ KillsDone \/ Recover

Next == Atom \/ Crash \/ Holding \/ Others \/ Ended

Safety == Init /\ [][Next]_vars

\* The injector runs until it crashes.  The server answers a client, notices its
\* death and, when the table is free time and again, grants it to one that waits in
\* its queue; a SLEEP ends.  Nobody need ever release the table.
Quiet == <<mode, asked, pc, clients, killed, ids, busy, other, matched, victims>>
Spec ==
  /\ Safety
  /\ WF_vars(Atom)
  /\ \A i \in Holders : /\ WF_vars((Connect(i) \/ Refuse(i)) /\ UNCHANGED Quiet)
                        /\ SF_vars(Grant(i) /\ UNCHANGED Quiet)
                        /\ WF_vars(Notice(i) /\ UNCHANGED Quiet)
                        /\ WF_vars(SleepEnds(i) /\ UNCHANGED Quiet)

-----------------------------------------------------------------------------
(* Properties.                                                             *)

\* Every variable stays in its domain.
TypeOK ==
  /\ mode \in Modes /\ asked \in Asked
  /\ pc \in {"check", "inject", "spawn", "list", "kill", "injected", "recovered",
             "failed", "crashed"}
  /\ clients \in Seq(Holders) /\ killed \in Nat /\ ids \in Seq(Sessions)
  /\ process \in [Holders -> {"none", "running", "dead"}]
  /\ session \in [Holders -> {"none", "waiting", "holding", "closed"}]
  /\ busy \in BOOLEAN /\ other \in [Sessions -> {"match", "differ", "gone"}]
  /\ matched \subseteq Sessions /\ victims \subseteq matched

\* An injection that failed half way, and a recovered one, have no process left
\* that could still take a connection or the lock.
NoProcessLeft == pc \in {"failed", "recovered"} => \A i \in Holders : process[i] # "running"

\* The count of killed sessions is true: on success it is the number of sessions
\* that matched and all were killed, otherwise nothing is claimed.
KilledIsTrue ==
  IF pc \in {"injected", "recovered"} /\ mode = "session"
  THEN victims = matched /\ killed = Cardinality(victims) /\ killed > 0
  ELSE pc # "crashed" => killed = 0

\* After a failed injection or a rollback the server is free of the fault's
\* sessions, those included that still wait for a lock nobody releases.
Released == pc \in {"failed", "recovered"} ~> Open = {}

\* Whatever becomes of the injector, a client it has spawned ends and gives its
\* connection and the table back, one that waits for the table included, unless
\* others never leave the table alone.
EndsByItself ==
  []<>~busy =>
    \A i \in Holders :
      process[i] = "running" ~> (process[i] = "dead" /\ i \notin Open)
=============================================================================
