-------------------------------- MODULE Host --------------------------------
(***************************************************************************)
(* Injectors of the atoms cpu, mem, port and network on one host: what     *)
(* they share is its memory, a port and the root qdisc of an interface.    *)
(* The steps are those an injector's scheduler makes (Check, then Inject,  *)
(* which checks again, then Recover), with the effects the atoms leave in  *)
(* the host, and what the host does of itself.                             *)
(***************************************************************************)
EXTENDS Naturals, FiniteSetsExt

CONSTANTS
  Injectors,   \* one experiment each
  Sizes,       \* how much memory a mem fault may be told to take
  Capacity     \* the memory the host can spare

ASSUME InjectorsAssumption ==
  IsFiniteSet(Injectors) /\ Injectors \intersect {"free", "service", "default", "admin"} = {}
ASSUME SizesAssumption == Sizes \subseteq Nat \ {0}
ASSUME CapacityAssumption == Capacity \in Nat

VARIABLES
  kind, size,  \* the atom of an injector, the size of a mem fault
  pc,          \* where an injector is
  handle,      \* what its fault object holds on to
  pages,       \* of its buffer: "none", "untouched" by touchPages, "resident"
  seen,        \* the injectors whose pages were resident when it read MemAvailable
  groups,      \* the injectors whose stress-ng process group is alive
  port,        \* who listens on the port
  root         \* whose root qdisc the interface has

fixed == <<kind, size>>
vars == <<fixed, pc, handle, pages, seen, groups, port, root>>

Kinds == {"cpu", "mem", "port", "network"}
Labels == {"new", "checked", "go", "active", "refused", "recovered", "failed", "killed"}
Handles == {"none", "proc", "cancel", "buf", "ln"}

Init ==
  /\ kind \in [Injectors -> Kinds]
  /\ size \in [Injectors -> Sizes \union {0}]
  /\ \A i \in Injectors : kind[i] = "mem" <=> size[i] # 0
  /\ pc = [i \in Injectors |-> "new"]
  /\ handle = [i \in Injectors |-> "none"]
  /\ pages = [i \in Injectors |-> "none"]
  /\ seen = [i \in Injectors |-> {}]
  /\ groups = {}
  /\ port \in {"free", "service"}
  /\ root \in {"default", "admin"}

Resident == {i \in Injectors : pages[i] = "resident"}
Used == MapThenSumSet(LAMBDA i : size[i], Resident)
MemAvailableMB == IF Used > Capacity THEN 0 ELSE Capacity - Used

\* Those whose own goroutines burn CPU: burnCPU runs until its context is cancelled.
Burners == {i \in Injectors : handle[i] = "cancel"}

Becomes(i, label) == pc' = [pc EXCEPT ![i] = label]
Holds(i, h) == handle' = [handle EXCEPT ![i] = h]

-----------------------------------------------------------------------------
(* Check and Inject.                                                       *)

\* Mutant: no memory gate.
FitsAlways(i) == TRUE

\* The gate of MemFault.Check.
Fits(i) == size[i] <= MemAvailableMB

\* Start calls Check, and Inject calls it again.
Check(i) ==
  /\ pc[i] \in {"new", "checked"}
  /\ Fits(i)
  /\ Becomes(i, IF pc[i] = "new" THEN "checked" ELSE "go")
  /\ seen' = IF kind[i] = "mem" THEN [seen EXCEPT ![i] = Resident] ELSE seen
  /\ UNCHANGED <<fixed, handle, pages, groups, port, root>>

\* A parameter out of range, no tc, not root, /proc unreadable, or no memory left.
CheckFails(i) ==
  /\ pc[i] \in {"new", "checked"}
  /\ Becomes(i, "failed")
  /\ UNCHANGED <<fixed, handle, pages, seen, groups, port, root>>

\* stress-ng in a group of its own, or goroutines when there is none or it fails.
InjectCpu(i) ==
  /\ pc[i] = "go" /\ kind[i] = "cpu"
  /\ Becomes(i, "active")
  /\ \/ Holds(i, "proc") /\ groups' = groups \union {i}
     \/ Holds(i, "cancel") /\ UNCHANGED groups
  /\ UNCHANGED <<fixed, pages, seen, port, root>>

\* make gives zero pages, which take no memory until touchPages writes to them.
InjectMem(i) ==
  /\ pc[i] = "go" /\ kind[i] = "mem"
  /\ Becomes(i, "active") /\ Holds(i, "buf")
  /\ pages' = [pages EXCEPT ![i] = "untouched"]
  /\ UNCHANGED <<fixed, seen, groups, port, root>>

InjectPort(i) ==
  /\ pc[i] = "go" /\ kind[i] = "port"
  /\ IF port = "free"
     THEN Becomes(i, "active") /\ Holds(i, "ln") /\ port' = i
     ELSE Becomes(i, "failed") /\ UNCHANGED <<handle, port>>
  /\ UNCHANGED <<fixed, pages, seen, groups, root>>

\* tc qdisc replace takes the place of whatever is there, or fails.
InjectNetwork(i) ==
  /\ pc[i] = "go" /\ kind[i] = "network"
  /\ \/ Becomes(i, "active") /\ root' = i
     \/ Becomes(i, "failed") /\ UNCHANGED root
  /\ UNCHANGED <<fixed, handle, pages, seen, groups, port>>

Inject(i) == InjectCpu(i) \/ InjectMem(i) \/ InjectPort(i) \/ InjectNetwork(i)

\* touchPages, which may be in its loop when the fault has been recovered.
TouchPages(i) ==
  /\ pages[i] = "untouched"
  /\ pages' = [pages EXCEPT ![i] = "resident"]
  /\ UNCHANGED <<fixed, pc, handle, seen, groups, port, root>>

-----------------------------------------------------------------------------
(* Recover, and the end of a process.                                      *)

\* Mutant: SIGTERM to every stress-ng.
KillEveryTree(i) == {}

\* Mutant: without Setpgid there is no such group, and kill finds nobody.
KillNoTree(i) == groups

\* killProcessTree: SIGTERM to the group of f.proc, which is alive or not.
KillProcessTree(i) == IF handle[i] = "proc" THEN groups \ {i} ELSE groups

\* PortFault.Recover closes the listener it has.
ClosePort(i) == IF handle[i] = "ln" THEN "free" ELSE port

\* tc qdisc del removes whatever root qdisc there is, the default taking its place,
\* or there is none to remove.
DelQdisc(i) == IF kind[i] = "network" THEN "default" ELSE root

\* Mutant: MemFault.Recover keeps f.buf.
RecoverKeepsBuf(i) ==
  /\ pc[i] = "active"
  /\ Becomes(i, "recovered") /\ Holds(i, IF handle[i] = "buf" THEN "buf" ELSE "none")
  /\ groups' = KillProcessTree(i)
  /\ port' = ClosePort(i)
  /\ root' = DelQdisc(i)
  /\ UNCHANGED <<fixed, pages, seen>>

\* Recover of every atom: it lets go of what Inject made.
Recover(i) ==
  /\ pc[i] = "active"
  /\ Becomes(i, "recovered") /\ Holds(i, "none")
  /\ groups' = KillProcessTree(i)
  /\ port' = ClosePort(i)
  /\ root' = DelQdisc(i)
  /\ UNCHANGED <<fixed, pages, seen>>

\* tc is no longer found, or refuses the deletion: the first counts as success, and so
\* does a refusal with status 2, of whatever reason; the scheduler drops any other
\* error and tries no more.
RecoverFails(i) ==
  /\ pc[i] = "active" /\ kind[i] = "network"
  /\ Becomes(i, "refused")
  /\ UNCHANGED <<fixed, handle, pages, seen, groups, port, root>>

\* touchPages has returned and the garbage collector takes the buffer.
Collect(i) ==
  /\ handle[i] = "none" /\ pages[i] # "none"
  /\ pages' = [pages EXCEPT ![i] = "none"]
  /\ UNCHANGED <<fixed, pc, handle, seen, groups, port, root>>

\* A signal ends the injector, and with it goroutines, buffer and listener.
Kill(i) ==
  /\ pc[i] \notin {"refused", "recovered", "failed", "killed"}
  /\ Becomes(i, "killed") /\ Holds(i, "none")
  /\ pages' = [pages EXCEPT ![i] = "none"]
  /\ port' = IF port = i THEN "free" ELSE port
  /\ UNCHANGED <<fixed, seen, groups, root>>

-----------------------------------------------------------------------------
(* The host.                                                               *)

StressEnds(i) ==
  /\ groups' = groups \ {i}
  /\ UNCHANGED <<fixed, pc, handle, pages, seen, port, root>>

Service ==
  /\ port \in {"free", "service"} /\ port' \in {"free", "service"}
  /\ UNCHANGED <<fixed, pc, handle, pages, seen, groups, root>>

Administrator ==
  /\ root' \in {"default", "admin"}
  /\ UNCHANGED <<fixed, pc, handle, pages, seen, groups, port>>

Injector(i) ==
  \/ Check(i) \/ CheckFails(i) \/ Inject(i) \/ TouchPages(i)
  \/ Recover(i) \/ RecoverFails(i) \/ Collect(i) \/ Kill(i)

Next ==
  \/ \E i \in Injectors : Injector(i) \/ StressEnds(i)
  \/ Service \/ Administrator

Safety == Init /\ [][Next]_vars

\* The scheduler calls Recover, the collector of the Go runtime runs.
Spec ==
  /\ Safety
  /\ \A i \in Injectors :
       /\ WF_vars(pc[i] = "active" /\ (Recover(i) \/ RecoverFails(i)))
       /\ WF_vars(Collect(i))

-----------------------------------------------------------------------------
(* Properties.                                                             *)

\* What injector i does to the host at the moment.
Present(i) ==
  i \in groups \union Burners \/ pages[i] # "none" \/ port = i \/ root = i

\* Every variable stays in its domain.
TypeOK ==
  /\ kind \in [Injectors -> Kinds] /\ size \in [Injectors -> Sizes \union {0}]
  /\ pc \in [Injectors -> Labels] /\ handle \in [Injectors -> Handles]
  /\ pages \in [Injectors -> {"none", "untouched", "resident"}]
  /\ seen \in [Injectors -> SUBSET Injectors]
  /\ groups \subseteq Injectors
  /\ port \in Injectors \union {"free", "service"}
  /\ root \in Injectors \union {"default", "admin"}

\* However injectors overlap, fail and die, what is in the host is the fault of one
\* whose rollback is still to come, memory not yet collected, the netem of one whose
\* rollback tc did not do (though it may count as done), or, of an injector that was
\* killed, its stress-ng or its netem: those two outlive it.
NothingElseLeft ==
  \A i \in Injectors : Present(i) =>
    \/ pc[i] = "active"
    \/ pc[i] = "recovered" /\ pages[i] # "none"
    \/ pc[i] = "refused" /\ root = i
    \/ pc[i] = "killed" /\ (i \in groups \/ root = i)

\* The memory gate fails only in a race: two injectors that each read MemAvailable
\* before the pages of the other were there, though it may long have injected.
OvercommitIsARace ==
  Used > Capacity =>
    \E i, j \in Resident : i # j /\ i \notin seen[j] /\ j \notin seen[i]

\* No injector takes the fault of another away, except that a network fault which
\* starts or is recovered does so to one on the same interface.
CutShortByPeerOnly ==
  [][\A i, j \in Injectors :
       i # j /\ pc'[j] # pc[j] /\ Present(i) /\ ~Present(i)' =>
         kind[i] = "network" /\ kind[j] = "network"]_vars

\* The effect of an injector that is not killed ends, that of a mem fault when the
\* collector gets to it, unless tc does not do the rollback.
EffectEnds ==
  \A i \in Injectors : Present(i) ~> (~Present(i) \/ pc[i] \in {"refused", "killed"})
=============================================================================
