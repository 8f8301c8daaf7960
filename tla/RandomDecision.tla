--------------------------- MODULE RandomDecision ---------------------------
(***************************************************************************)
(* random: a seed is taken or made up, recorded, and decides which fault   *)
(* is injected with which parameters; an experiment is replayed by giving  *)
(* its recorded seed to a second invocation, in either language.  What the *)
(* generator computes is in SeededRng.                                     *)
(***************************************************************************)
EXTENDS Integers, Sequences

CONSTANTS
  Seeds,   \* [word, sign]: word is the seed modulo 2^64, sign tells its range:
           \* "plus" 0..2^63-1, "minus" -2^63..-1, "wide" anything else
  Fresh,   \* those that may be made up when none is given
  Seeded(_),    \* the generator: the state a seed's word gives it,
  Advanced(_),  \* the state after one more draw,
  Drawn(_, _)   \* and what a draw below n returns in the state it leaves

ASSUME SeedsAssumption == \A s \in Seeds : s.sign \in {"plus", "minus", "wide"}
ASSUME FreshAssumption == Fresh \subseteq {s \in Seeds : s.sign = "plus"}

VARIABLES
  turn,     \* 1 the experiment, 2 its replay
  impl,     \* "go" or "python"
  network,  \* -iface is given, on Linux
  given,    \* the -seed flag, or None
  pc,
  state,    \* of the generator
  kind, drawn,     \* the decision so far
  recorded,        \* the seed in the timeline
  original         \* the experiment that is replayed

vars == <<turn, impl, network, given, pc, state, kind, drawn, recorded, original>>

None == [sign |-> "none"]

-----------------------------------------------------------------------------
(* cmdRandom and cmd_random.                                               *)

IntRange(lo, hi) == [k \in 1 .. hi - lo + 1 |-> lo + k - 1]

\* Mutant: loss is drawn before delay.
LossFirst ==
  [cpu |-> <<IntRange(30, 90), IntRange(1, 4)>>,
   mem |-> <<IntRange(64, 256)>>,
   port |-> <<IntRange(8000, 9999)>>,
   network |-> <<<<0, 1, 3, 5, 10>>, <<50, 100, 200, 300, 500>>>>]

\* What is drawn for the parameters of a kind, in the order of the calls.
GoMenus ==
  [cpu |-> <<IntRange(30, 90), IntRange(1, 4)>>,
   mem |-> <<IntRange(64, 256)>>,
   port |-> <<IntRange(8000, 9999)>>,
   network |-> <<<<50, 100, 200, 300, 500>>, <<0, 1, 3, 5, 10>>>>]

MAX_CORES == 4
PyMenus ==
  [network |-> <<<<50, 100, 200, 300, 500>>, <<0, 1, 3, 5, 10>>>>,
   mem |-> <<IntRange(64, 256)>>,
   port |-> <<IntRange(8000, 9999)>>,
   cpu |-> <<IntRange(30, 90), IntRange(1, MAX_CORES)>>]

Menus == IF impl = "go" THEN GoMenus ELSE PyMenus

Init ==
  /\ turn = 1 /\ given \in Seeds \union {None}
  /\ impl \in {"go", "python"} /\ network \in BOOLEAN
  /\ pc = "gate" /\ state = None /\ kind = "none" /\ drawn = <<>>
  /\ recorded = None /\ original = None

\* The load is below the limit, or cannot be read; a seed Go cannot parse ends it.
LoadGate ==
  /\ pc = "gate"
  /\ pc' \in IF impl = "go" /\ given.sign = "wide" THEN {"refused"} ELSE {"seed", "refused"}
  /\ UNCHANGED <<turn, impl, network, given, state, kind, drawn, recorded, original>>

\* The timeline's seed: Go's SeedSet, Python's "is not None".
SeedSet(seed) == IF impl = "go" /\ seed.sign = "minus" THEN None ELSE seed

\* Go makes a seed up when the flag is negative, Python when there is none.
TakeSeed ==
  /\ pc = "seed"
  /\ \E seed \in IF given.sign = "none" \/ (impl = "go" /\ given.sign = "minus")
                 THEN Fresh ELSE {given} :
       state' = Seeded(seed.word) /\ recorded' = SeedSet(seed)
  /\ pc' = "kind"
  /\ UNCHANGED <<turn, impl, network, given, kind, drawn, original>>

DrawKind ==
  LET kinds == <<"cpu", "mem", "port">> \o (IF network THEN <<"network">> ELSE <<>>)
  IN  /\ pc = "kind"
      /\ state' = Advanced(state)
      /\ kind' = kinds[Drawn(state', Len(kinds)) + 1]
      /\ pc' = "parameters"
      /\ UNCHANGED <<turn, impl, network, given, drawn, recorded, original>>

DrawParameter ==
  /\ pc = "parameters" /\ Len(drawn) < Len(Menus[kind])
  /\ state' = Advanced(state)
  /\ LET menu == Menus[kind][Len(drawn) + 1]
     IN  drawn' = Append(drawn, menu[Drawn(state', Len(menu)) + 1])
  /\ UNCHANGED <<turn, impl, network, given, pc, kind, recorded, original>>

RunExperiment ==
  /\ pc = "parameters" /\ Len(drawn) = Len(Menus[kind])
  /\ pc' = "run"
  /\ UNCHANGED <<turn, impl, network, given, state, kind, drawn, recorded, original>>

\* A reader of the timeline replays it, with the same -iface or not.
Replay ==
  /\ pc = "run" /\ turn = 1
  /\ turn' = 2 /\ given' = recorded
  /\ impl' \in {"go", "python"} /\ network' \in BOOLEAN
  /\ pc' = "gate" /\ state' = None /\ kind' = "none" /\ drawn' = <<>>
  /\ original' = [sign |-> recorded.sign, network |-> network, impl |-> impl,
                  kind |-> kind, drawn |-> drawn]
  /\ UNCHANGED recorded

Over == (pc = "refused" \/ (pc = "run" /\ turn = 2)) /\ UNCHANGED vars

Next == LoadGate \/ TakeSeed \/ DrawKind \/ DrawParameter \/ RunExperiment \/ Replay \/ Over

Safety == Init /\ [][Next]_vars

-----------------------------------------------------------------------------
(* Properties.                                                             *)

\* A replay in either language injects the same fault with the same parameters,
\* given the same interface, but when Python has recorded a negative seed and Go
\* replays it: Go takes it for "make one up".
Replayable ==
  pc = "run" /\ turn = 2 /\ network = original.network =>
    \/ kind = original.kind /\ drawn = original.drawn
    \/ original.impl = "python" /\ original.sign = "minus" /\ impl = "go"
=============================================================================
