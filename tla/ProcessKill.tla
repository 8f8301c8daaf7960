----------------------------- MODULE ProcessKill -----------------------------
(***************************************************************************)
(* The process atom (process.go) against a process table that changes      *)
(* under it.  Every read of /proc is a step, every signal is a step, and   *)
(* between any two of them processes end, are reaped by their parents, run *)
(* another program (or rename themselves) under the same pid, and new ones *)
(* take the pids that are free.  Orphans go to pid 1: that another process *)
(* declares itself their reaper is left out, and so is what it would mean  *)
(* for a walk that meets a parent that has just gone.  As                  *)
(* under Linux, a process that has ended keeps its entry until its parent  *)
(* has waited for it, and a signal to it succeeds; so does SIGKILL to      *)
(* pid 1 from within its own pid namespace, which the kernel ignores.      *)
(***************************************************************************)
EXTENDS Naturals

CONSTANTS
  Pids,       \* process ids, 1 among them
  Injector,   \* the injector's own
  MaxForks    \* bound: how many processes start meanwhile

ASSUME PidsAssumption == Pids \subseteq Nat \ {0} /\ {1, Injector} \subseteq Pids
ASSUME InjectorAssumption == Injector # 1
ASSUME ForksAssumption == MaxForks \in Nat

VARIABLES
  alive, zombie,  \* the pids of processes that run, that ended unnoticed
  parent,         \* the PPid line of /proc/<pid>/status, 0 if there is none
  hit,            \* the pids whose comm or cmdline contains the pattern
  pc, round,      \* where the atom is; 1 in Check, 2 in the Check of Inject
  cursor, protected, todo, targets,   \* its local variables
  killed,         \* the pids that killPID succeeded for; the code counts them
  forks,          \* how many processes have started
  recycled,       \* the pids given out since the current round began
  altered,        \* the pids that began to match, or ceased to, since then
  ended,          \* the pids of processes that ended by themselves, until reaped
  felled,         \* the pids of the processes the atom killed
  strays          \* those among them that did not match the pattern

table == <<alive, zombie, parent, hit, forks, recycled, altered, ended>>
locals == <<pc, round, cursor, protected, todo, targets, killed>>
deeds == <<felled, strays>>
vars == <<table, locals, deeds>>

\* The pids p and its ancestors have: what every set closed under parent contains.
Lineage ==
  {p \in Pids : \A S \in SUBSET Pids :
     Injector \in S /\ (\A q \in S : parent[q] \in S \union {0}) => p \in S}

Init ==
  /\ \E Rest \in SUBSET (Pids \ {1, Injector}) : alive = {1, Injector} \union Rest
  /\ zombie \in SUBSET (Pids \ alive)
  /\ parent \in [Pids -> Pids \union {0}]
  /\ \A p \in Pids : IF p \in alive \union zombie /\ p # 1
                     THEN parent[p] \in alive /\ parent[p] < p ELSE parent[p] = 0
  /\ hit \in SUBSET (alive \union zombie)
  /\ pc = "walk" /\ round = 1
  /\ cursor = Injector /\ protected = {} /\ todo = {} /\ targets = {} /\ killed = {}
  /\ forks = 0 /\ recycled = {} /\ altered = {} /\ ended = zombie
  /\ felled = {} /\ strays = {}

-----------------------------------------------------------------------------
(* The atom.                                                               *)

\* Mutant: the walk stops at the parent.
WalkOnce ==
  /\ pc = "walk"
  /\ protected' = {Injector, parent[Injector]}
  /\ pc' = "list"
  /\ UNCHANGED <<table, round, cursor, todo, targets, killed, deeds>>

\* protectedPIDs: one round of its loop.  parent is 0 for a pid that has gone.
Walk ==
  /\ pc = "walk"
  /\ protected' = IF cursor > 1 THEN protected \union {cursor} ELSE protected
  /\ IF cursor > 1 /\ parent[cursor] \notin {0, cursor}
     THEN cursor' = parent[cursor] /\ UNCHANGED pc
     ELSE pc' = "list" /\ UNCHANGED cursor
  /\ UNCHANGED <<table, round, todo, targets, killed, deeds>>

ReadDir ==
  /\ pc = "list"
  /\ pc' = "match" /\ todo' = alive \union zombie /\ targets' = {}
  /\ UNCHANGED <<table, round, cursor, protected, killed, deeds>>

\* processMatches reads comm and cmdline of one pid, unless it is protected.
Match ==
  /\ pc = "match"
  /\ \E p \in todo :
       /\ todo' = todo \ {p}
       /\ targets' = IF p \in hit \ protected THEN targets \union {p} ELSE targets
  /\ UNCHANGED <<table, pc, round, cursor, protected, killed, deeds>>

\* Mutant: Inject trusts what Check has found.
InjectTrusts ==
  /\ pc = "match" /\ todo = {} /\ targets # {}
  /\ round' = 2 /\ pc' = "kill"
  /\ recycled' = {} /\ altered' = {}
  /\ UNCHANGED <<alive, zombie, parent, hit, forks, ended, cursor, protected, todo,
                 targets, killed, deeds>>

\* Check has found something: Inject follows and checks again, then it kills.
Inject ==
  /\ pc = "match" /\ todo = {} /\ targets # {}
  /\ round' = 2
  /\ IF round = 1
     THEN /\ pc' = "walk" /\ cursor' = Injector /\ protected' = {}
          /\ recycled' = {} /\ altered' = {}
     ELSE pc' = "kill" /\ UNCHANGED <<cursor, protected, recycled, altered>>
  /\ UNCHANGED <<alive, zombie, parent, hit, forks, ended, todo, targets, killed, deeds>>

CheckFails ==
  /\ pc = "match" /\ todo = {} /\ targets = {}
  /\ pc' = "failed"
  /\ UNCHANGED <<table, round, cursor, protected, todo, targets, killed, deeds>>

\* p ends: a zombie until it is reaped, its children handed to pid 1, its cmdline
\* empty, so that it matches by its comm or no more.
Ends(p) ==
  /\ alive' = alive \ {p} /\ zombie' = zombie \union {p}
  /\ parent' = [q \in Pids |-> IF parent[q] = p THEN 1 ELSE parent[q]]
  /\ hit' \in {hit, hit \ {p}}

KillPID(p) ==
  /\ pc = "kill" /\ p \in targets \intersect (alive \union zombie)
  /\ targets' = targets \ {p} /\ killed' = killed \union {p}
  /\ IF p \in alive \ {1}
     THEN /\ Ends(p)
          /\ felled' = felled \union {p}
          /\ strays' = IF p \in hit THEN strays ELSE strays \union {p}
     ELSE UNCHANGED <<alive, zombie, parent, hit, deeds>>
  /\ UNCHANGED <<forks, recycled, altered, ended, pc, round, cursor, protected, todo>>

\* Mutant: a kill that failed is counted.
KillCounts(p) ==
  /\ pc = "kill" /\ p \in targets
  /\ targets' = targets \ {p} /\ killed' = killed \union {p}
  /\ UNCHANGED <<table, pc, round, cursor, protected, todo, deeds>>

\* The process has gone, or it is somebody else's.
KillFails(p) ==
  /\ pc = "kill" /\ p \in targets
  /\ targets' = targets \ {p}
  /\ UNCHANGED <<table, pc, round, cursor, protected, todo, killed, deeds>>

InjectReturns ==
  /\ pc = "kill" /\ targets = {}
  /\ pc' = IF killed # {} THEN "ok" ELSE "failed"
  /\ UNCHANGED <<table, round, cursor, protected, todo, targets, killed, deeds>>

Atom ==
  \/ Walk \/ ReadDir \/ Match \/ Inject \/ CheckFails \/ InjectReturns
  \/ \E p \in Pids : KillPID(p) \/ KillFails(p)

-----------------------------------------------------------------------------
(* The other processes.                                                    *)

Exit(p) ==
  /\ p \in alive \ {1, Injector}
  /\ Ends(p)
  /\ ended' = ended \union {p}
  /\ UNCHANGED <<forks, recycled, altered, locals, deeds>>

Reap(p) ==
  /\ p \in zombie
  /\ zombie' = zombie \ {p} /\ hit' = hit \ {p}
  /\ parent' = [parent EXCEPT ![p] = 0]
  /\ ended' = IF p \in killed THEN ended ELSE ended \ {p}
  /\ UNCHANGED <<alive, forks, recycled, altered, locals, deeds>>

Fork(p, q) ==
  /\ forks < MaxForks
  /\ p \in alive /\ q \in Pids \ (alive \union zombie)
  /\ forks' = forks + 1
  /\ alive' = alive \union {q} /\ parent' = [parent EXCEPT ![q] = p]
  /\ hit' \in {hit, hit \union {q}}
  /\ recycled' = recycled \union {q}
  /\ UNCHANGED <<zombie, altered, ended, locals, deeds>>

\* execve, or a process that writes its own comm: the pid stays.
Exec(p) ==
  /\ p \in alive \ {1, Injector}
  /\ hit' = IF p \in hit THEN hit \ {p} ELSE hit \union {p}
  /\ altered' = altered \union {p}
  /\ UNCHANGED <<alive, zombie, parent, forks, recycled, ended, locals, deeds>>

Others == \E p \in Pids : Exit(p) \/ Reap(p) \/ Exec(p) \/ \E q \in Pids : Fork(p, q)

Over == pc \in {"ok", "failed"}

Next == (~Over /\ (Atom \/ Others)) \/ (Over /\ UNCHANGED vars)

Safety == Init /\ [][Next]_vars

-----------------------------------------------------------------------------
(* Properties.                                                             *)

\* The injector never kills itself or an ancestor, though the chain changes while
\* it is walked and killed by: pid 1 alone, which the walk leaves unprotected, may
\* be among the targets, and survives.
AncestorsSpared == pc = "kill" => targets \intersect Lineage \subseteq {1}

\* A process that does not match is killed only when, after Inject (not Check) had
\* begun, it took the pid of one that did, or ran another program under its own:
\* the second Check narrows the race to this.
StraysAreStale == strays \subseteq recycled \union altered

\* Success means that a process was killed; a signal counts without killing one only
\* if the pid was that of a process that had ended by itself and still had its entry
\* in /proc, or was pid 1, which matched.
SuccessKills ==
  pc = "ok" => killed # {} /\ killed \subseteq felled \union ended \union ({1} \intersect hit)
=============================================================================
