------------------------------ MODULE SeededRng ------------------------------
(***************************************************************************)
(* SeededRng, the generator that both languages have: SplitMix64 makes the *)
(* state of a seed, xorshift64* goes on from it.  Words of 64 bits are     *)
(* tuples of eight bytes, the lowest first.                                *)
(***************************************************************************)
EXTENDS Integers, Bitwise

-----------------------------------------------------------------------------
(* 64-bit words.                                                           *)

Bytes == 0 .. 7
Byte(a, i) == IF i \in Bytes THEN a[i + 1] ELSE 0
Word(f(_)) == <<f(0), f(1), f(2), f(3), f(4), f(5), f(6), f(7)>>

XorWord(a, b) == Word(LAMBDA i : Byte(a, i) ^^ Byte(b, i))
ShiftLeft(a, k) ==
  LET q == k \div 8  r == k % 8
  IN  Word(LAMBDA i : ((Byte(a, i - q) * 2^r) % 256) + (Byte(a, i - q - 1) \div 2^(8 - r)))
ShiftRight(a, k) ==
  LET q == k \div 8  r == k % 8
  IN  Word(LAMBDA i : (Byte(a, i + q) \div 2^r) + ((Byte(a, i + q + 1) * 2^(8 - r)) % 256))

\* The columns of a sum or product, brought below 256 with the carry discarded at 2^64.
Carried(column(_)) ==
  LET sum[i \in Bytes] == column(i) + (IF i = 0 THEN 0 ELSE sum[i - 1] \div 256)
  IN  Word(LAMBDA i : sum[i] % 256)
Plus(a, b) == Carried(LAMBDA i : Byte(a, i) + Byte(b, i))
Times(a, b) ==
  LET product(i) ==
        LET part[j \in -1 .. i] == IF j = -1 THEN 0 ELSE part[j - 1] + Byte(a, j) * Byte(b, i - j)
        IN  part[i]
  IN  Carried(product)
Modulo(a, n) ==
  LET rest[i \in 0 .. 8] == IF i = 8 THEN 0 ELSE (rest[i + 1] * 256 + Byte(a, i)) % n
  IN  rest[0]

Zero == <<0, 0, 0, 0, 0, 0, 0, 0>>
Gamma == <<\h15, \h7C, \h4A, \h7F, \hB9, \h79, \h37, \h9E>>
MixA == <<\hB9, \hE5, \hE4, \h1C, \h6D, \h47, \h58, \hBF>>
MixB == <<\hEB, \h11, \h31, \h13, \hBB, \h49, \hD0, \h94>>
Star == <<\h1D, \hDD, \h6C, \h4F, \h91, \hF4, \h45, \h25>>

-----------------------------------------------------------------------------
(* The generator.                                                          *)

NewSeededRng(seed) ==
  LET z == Plus(seed, Gamma)
      a == Times(XorWord(z, ShiftRight(z, 30)), MixA)
      b == Times(XorWord(a, ShiftRight(a, 27)), MixB)
  IN  XorWord(b, ShiftRight(b, 31))

NextState(s) ==
  LET a == XorWord(s, ShiftRight(s, 12))
      b == XorWord(a, ShiftLeft(a, 25))
  IN  XorWord(b, ShiftRight(b, 27))

\* IntN(n) in the state it leaves: n is never 0.
IntN(s, n) == Modulo(Times(s, Star), n)
=============================================================================
