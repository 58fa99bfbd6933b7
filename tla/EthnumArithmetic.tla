-------------------------- MODULE EthnumArithmetic --------------------------
(* Sums, products and quotients of ethnum's 256-bit integers, put together   *)
(* from words of 128 bits and their halves (intrinsics/native/{add,sub,mul,  *)
(* divmod}.rs). The base B of a half word is a parameter; a U256 is a number *)
(* below N, an I256 the same bit pattern, read as two's complement by        *)
(* AsSigned. Overflow flags are the second component of a pair.              *)
EXTENDS Integers

CONSTANT B   \* the base of half a word: 2^64 in the code

ASSUME BaseAssumption == B \in Nat \ {0} /\ B % 2 = 0

M == B * B
N == M * M
Word == 0..(M - 1)
Pattern == 0..(N - 1)

IMIN == N \div 2

-----------------------------------------------------------------------------
\* One word: u128, and i128 as its two's complement reading.

Signed(w) == IF w >= M \div 2 THEN w - M ELSE w
Carry(a, b) == IF a + b >= M THEN 1 ELSE 0
Borrow(a, b) == IF a < b THEN 1 ELSE 0
WAdd(a, b) == (a + b) % M
WSub(a, b) == (a - b) % M
LimbUp(w) == (w * B) % M   \* `<< 64`

-----------------------------------------------------------------------------
\* A pair of words: U256 and, with the high word signed, I256.

FromWords(hi, lo) == hi * M + lo
High(x) == x \div M
Low(x) == x % M

\* What the bits of an I256 mean, and the bits of a number in its range.
AsSigned(x) == IF x >= IMIN THEN x - N ELSE x
Encode(v) == v % N

\* Ord::cmp, by words; the low word is compared unsigned in both types.
ULt(a, b) == High(a) < High(b) \/ (High(a) = High(b) /\ Low(a) < Low(b))
ILt(a, b) == Signed(High(a)) < Signed(High(b)) \/ (High(a) = High(b) /\ Low(a) < Low(b))

-----------------------------------------------------------------------------
\* add.rs, sub.rs. The in-place form of each operation (add2, mul2, ...)
\* computes what the three-operand form does and is not repeated.

Add3(a, b) ==
  FromWords(WAdd(WAdd(High(a), Carry(Low(a), Low(b))), High(b)), WAdd(Low(a), Low(b)))

UAddC(a, b) ==
  LET carry == Carry(Low(a), Low(b))
      hi == WAdd(High(a), carry)
  IN <<FromWords(WAdd(hi, High(b)), WAdd(Low(a), Low(b))),
       Carry(High(a), carry) = 1 \/ Carry(hi, High(b)) = 1>>

IAddC(a, b) ==
  LET s == Add3(a, b)
  IN <<s, IF ILt(b, 0) THEN ~ILt(s, a) ELSE ILt(s, a)>>

Sub3(a, b) ==
  FromWords(WSub(WSub(High(a), Borrow(Low(a), Low(b))), High(b)), WSub(Low(a), Low(b)))

USubC(a, b) ==
  LET borrow == Borrow(Low(a), Low(b))
      hi == WSub(High(a), borrow)
  IN <<FromWords(WSub(hi, High(b)), WSub(Low(a), Low(b))),
       Borrow(High(a), borrow) = 1 \/ Borrow(hi, High(b)) = 1>>

ISubC(a, b) ==
  LET s == Sub3(a, b)
  IN <<s, IF ILt(b, 0) THEN ~ILt(a, s) ELSE ILt(a, s)>>

-----------------------------------------------------------------------------
\* mul.rs. Half-word products, the middle ones folded in turn.

UMulDDI3(a, b) ==
  LET p == (a % B) * (b % B)
      t1 == p \div B + (a \div B) * (b % B)
      l1 == (p % B) + LimbUp(t1 % B)
      t2 == l1 \div B + (b \div B) * (a % B)
  IN FromWords(t1 \div B + t2 \div B + (a \div B) * (b \div B),
               (l1 % B) + LimbUp(t2 % B))

Mul3(a, b) ==
  LET r == UMulDDI3(Low(a), Low(b))
      cross == WAdd((High(a) * Low(b)) % M, (Low(a) * High(b)) % M)
  IN FromWords(WAdd(High(r), cross), Low(r))

UMulC(a, b) ==
  LET r == UMulDDI3(Low(a), Low(b))
      hiLo == High(a) * Low(b)
      loHi == Low(a) * High(b)
      hi == WAdd(hiLo % M, loHi % M)
  IN <<FromWords(WAdd(High(r), hi), Low(r)),
       \/ hiLo >= M
       \/ loHi >= M
       \/ Carry(hiLo % M, loHi % M) = 1
       \/ Carry(High(r), hi) = 1
       \/ (High(a) # 0 /\ High(b) # 0)>>

-----------------------------------------------------------------------------
\* divmod.rs: 256 by 128 bits in two half-word digits, each estimated from
\* the leading half of the divisor and corrected. The loop that lowers the
\* estimate leaves with the first round that finds it small enough or makes
\* the remainder overflow its half word.

CorrectDigitOnce(q, rhat, vn1, vn0, un) ==   \* slip: `if` for `while`
  LET rounds == IF q >= B \/ q * vn0 > B * rhat + un THEN 1 ELSE 0
  IN <<q - rounds, rounds>>
CorrectDigit(q, rhat, vn1, vn0, un) ==
  LET TooLarge(k) == q - k >= B \/ (q - k) * vn0 > B * (rhat + k * vn1) + un
      Leaves(k) == ~TooLarge(k) \/ (k > 0 /\ rhat + k * vn1 >= B)
      rounds == CHOOSE k \in 0..B : Leaves(k) /\ \A j \in 0..(k - 1) : ~Leaves(j)
  IN <<q - rounds, rounds>>

\* One quotient digit and what remains, for the next half word of the dividend.
QuotientDigit(un, next, v) ==
  CorrectDigit(un \div (v \div B), un % (v \div B), v \div B, v % B, next)
Remainder(un, next, v, digit) == (un * B + next - digit[1] * v) % M

\* With a normalized divisor v, one whose top bit is set, and u1 < v.
TwoDigits(un21, un0, v, d1, d0) ==
  [q |-> d1[1] * B + d0[1],
   r |-> Remainder(un21, un0, v, d0),
   steps |-> IF d1[2] > d0[2] THEN d1[2] ELSE d0[2]]
SecondDigit(un21, un0, v, d1) == TwoDigits(un21, un0, v, d1, QuotientDigit(un21, un0, v))
FirstDigit(u1, u0, v, d1) == SecondDigit(Remainder(u1, u0 \div B, v, d1), u0 % B, v, d1)
DivNormalized(u1, u0, v) == FirstDigit(u1, u0, v, QuotientDigit(u1, u0 \div B, v))

-----------------------------------------------------------------------------
\* The helpers of div_mod_knuth: three-word numbers, low word first.

FullMulWord(a, b) ==
  LET t0 == (a % B) * (b % B)
      t1 == (a \div B) * (b % B) + t0 \div B
      t2 == (a % B) * (b \div B) + (t1 % B)
  IN [lo |-> LimbUp(t2) + (t0 % B),
      hi |-> (a \div B) * (b \div B) + t1 \div B + t2 \div B]
FullMul(a, b) ==
  IF b = 0 THEN <<0, 0, 0>>
  ELSE LET l == FullMulWord(Low(a), b)
           h == FullMulWord(High(a), b)
       IN <<l.lo, WAdd(l.hi, h.lo), h.hi + Carry(l.hi, h.lo)>>
AddCarry(a, b, c) == <<WAdd(a, WAdd(b, c)), IF Carry(b, c) = 1 THEN 1 ELSE Carry(a, WAdd(b, c))>>
SubCarry(a, b, c) == <<WSub(a, WAdd(b, c)), IF Carry(b, c) = 1 THEN 1 ELSE Borrow(a, WAdd(b, c))>>

\* D3: the estimate is lowered as in CorrectDigit, by words for half words;
\* the addition that overflows ends the loop.
CorrectQHat(qHat, rHat, vn1, vn2, u0) ==
  LET TooLarge(k) == LET p == FullMulWord(qHat - k, vn2)
                     IN p.hi > rHat + k * vn1 \/ (p.hi = rHat + k * vn1 /\ p.lo > u0)
      Leaves(k) == ~TooLarge(k) \/ (k > 0 /\ rHat + k * vn1 >= M)
      rounds == CHOOSE k \in 0..M : Leaves(k) /\ \A j \in 0..(k - 1) : ~Leaves(j)
  IN <<qHat - rounds, rounds>>

\* d estimates the digit by the first two words of u and the first of v.
CorrectedQHat(d, u, v) == CorrectQHat(d.q, d.r, High(v), Low(v), u[1])

\* D4: u - p, with the borrow out of the top word.
SubFull(u, p) ==
  LET w0 == SubCarry(u[1], p[1], 0)
      w1 == SubCarry(u[2], p[2], w0[2])
      w2 == SubCarry(u[3], p[3], w1[2])
  IN [u |-> <<w0[1], w1[1], w2[1]>>, borrow |-> w2[2]]

\* D6: the estimate was one too large, v is added back. With a divisor of two
\* words D3 has compared all of it, so this never happens.
AddBack(u, v) ==
  LET w0 == AddCarry(u[1], Low(v), 0)
      w1 == AddCarry(u[2], High(v), w0[2])
  IN <<w0[1], w1[1], WAdd(u[3], w1[2])>>

\* D5, D6: the digit and the remainder, before it is shifted back.
KnuthResult(v, qHat, d) ==
  [q |-> IF d.borrow = 1 THEN qHat[1] - 1 ELSE qHat[1],
   u |-> IF d.borrow = 1 THEN AddBack(d.u, v) ELSE d.u,
   steps |-> qHat[2]]
KnuthSubtract(u, v, qHat) == KnuthResult(v, qHat, SubFull(u, FullMul(v, qHat[1])))
=============================================================================
