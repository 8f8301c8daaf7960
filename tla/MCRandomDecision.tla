-------------------------- MODULE MCRandomDecision --------------------------
(***************************************************************************)
(* Seeds for RandomDecision: those the tests of both languages use, the    *)
(* ends of each range, and the one that is stuck.  The generator is that   *)
(* of SeededRng.                                                           *)
(***************************************************************************)
EXTENDS RandomDecision

Rng == INSTANCE SeededRng
MCSeeded(word) == Rng!NewSeededRng(word)
MCAdvanced(s) == Rng!NextState(s)
MCDrawn(s, n) == Rng!IntN(s, n)

Small(n) == [sign |-> "plus", word |-> <<n, 0, 0, 0, 0, 0, 0, 0>>]
Plus63 == [sign |-> "plus", word |-> <<255, 255, 255, 255, 255, 255, 255, 127>>]
Minus1 == [sign |-> "minus", word |-> <<255, 255, 255, 255, 255, 255, 255, 255>>]
Minus63 == [sign |-> "minus", word |-> <<0, 0, 0, 0, 0, 0, 0, 128>>]
Stuck == [sign |-> "plus", word |-> <<\hEB, \h83, \hB5, \h80, \h46, \h86, \hC8, \h61>>]
Wide64 == [sign |-> "wide", word |-> Rng!Zero]

MCFresh == {Small(1), Small(99)}
MCSeeds == {Small(n) : n \in {0, 1, 2, 3, 5, 7, 8, 42, 99}} \union {Plus63, Minus1, Minus63, Wide64, Stuck}

\* The draws that the tests of both languages pin for seed 42 (rng_test.go:43, :51).
FortyTwo[k \in 0 .. 6] ==
  IF k = 0 THEN Rng!NewSeededRng(Small(42).word) ELSE Rng!NextState(FortyTwo[k - 1])

ASSUME CanonicalSequence ==
  /\ [k \in 1 .. 6 |-> 64 + Rng!IntN(FortyTwo[k], 193)] = <<79, 97, 110, 222, 89, 230>>
  /\ [k \in 1 .. 6 |-> Rng!IntN(FortyTwo[k], 3)] = <<1, 1, 2, 1, 2, 0>>

\* The comment at rng.go:13 says "map any seed to a non-zero state"; one it does not:
\* every draw of seed 7046029254386353131 is the first of its menu.
ASSUME StuckSeed == Rng!NewSeededRng(Stuck.word) = Rng!Zero /\ Rng!NextState(Rng!Zero) = Rng!Zero
=============================================================================
