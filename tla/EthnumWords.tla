---------------------------- MODULE EthnumWords ----------------------------
(* The bits of ethnum's 256-bit integers (uint.rs, int.rs, macros/ops.rs     *)
(* bitwise, cmp.rs): what EthnumArithmetic does not need to know of them.    *)
(* Widths are parameters, as B is.                                           *)
EXTENDS EthnumArithmetic, Sums, Sequences, SequencesExt, FiniteSets

CONSTANTS HALF,        \* bits of half a word: 64 in the code
          BYTE,        \* bits of a byte: 8 in the code
          U32_MAX      \* u32::MAX, the largest exponent

WORD == 2 * HALF
BITS == 2 * WORD

\* The powers of two by which bits are shifted and cut.
Pow2[n \in 0..BITS] == IF n = 0 THEN 1 ELSE 2 * Pow2[n - 1]

ASSUME WidthsAssumption ==
  /\ HALF \in Nat \ {0} /\ B = Pow2[HALF]
  /\ BYTE \in 1..HALF /\ HALF % BYTE = 0
  /\ U32_MAX \in Nat

Exponent == 0..U32_MAX

\* The variables of the loop that raises to a power.
PowState == [base : Pattern, acc : Pattern, overflown : BOOLEAN]

\* A turn of it, and the factor that is multiplied in the end; taken is
\* acc * base, square is base * base, and overflown collects their flags.
PowTurn(odd, s, taken, square) ==
  [base |-> square[1], acc |-> IF odd THEN taken[1] ELSE s.acc,
   overflown |-> s.overflown \/ square[2] \/ (odd /\ taken[2])]
PowEnd(s, taken) == <<taken[1], s.overflown \/ taken[2]>>

ZERO == 0
ONE == 1
UMAX == N - 1
UMIN == 0
IMAX == (N \div 2) - 1

-----------------------------------------------------------------------------
\* One word
WShl(w, s) == (w * Pow2[s]) % M
WShr(w, s) == w \div Pow2[s]
WSar(w, s) == (Signed(w) \div Pow2[s]) % M
WNot(w) == (M - 1) - w

\* The bitwise operators of the machine, tabulated: bit[n] is the bit of the
\* result where n of the operands' bits are set.
BitByBit(bit) ==
  LET result[a \in Word] ==
        [b \in Word |-> IF a = 0 /\ b = 0 THEN 0
                        ELSE bit[(a % 2) + (b % 2)] + 2 * result[a \div 2][b \div 2]]
  IN result

AndTable == BitByBit([n \in 0..2 |-> n \div 2])
OrTable == BitByBit([n \in 0..2 |-> IF n = 0 THEN 0 ELSE 1])
XorTable == BitByBit([n \in 0..2 |-> n % 2])
WAnd(a, b) == AndTable[a][b]
WOr(a, b) == OrTable[a][b]
WXor(a, b) == XorTable[a][b]

Bit(w, i) == (w \div Pow2[i]) % 2
WOnes == [w \in Word |-> Cardinality({i \in 0..(WORD - 1) : Bit(w, i) = 1})]
\* leading_zeros and trailing_zeros of u128; WORD for zero.
WLeading == [w \in Word |->
  CHOOSE z \in 0..WORD : w < Pow2[WORD - z] /\ (z = WORD \/ w >= Pow2[WORD - z - 1])]
WTrailing == [w \in Word |->
  CHOOSE z \in 0..WORD : w % Pow2[z] = 0 /\ (z = WORD \/ Bit(w, z) = 1)]

\* swap_bytes and reverse_bits of u128.
WBytes(w) == [i \in 1..(WORD \div BYTE) |-> (w \div Pow2[(i - 1) * BYTE]) % Pow2[BYTE]]
FromBytes(s) == SumOver([i \in DOMAIN s |-> s[i] * Pow2[(i - 1) * BYTE]], DOMAIN s)
WSwapBytes == [w \in Word |-> FromBytes(Reverse(WBytes(w)))]
WReverseBits == [w \in Word |->
  CHOOSE r \in Word : \A i \in 0..(WORD - 1) : Bit(r, i) = Bit(w, WORD - 1 - i)]

-----------------------------------------------------------------------------
\* A pair of words

IntoWords(x) == <<High(x), Low(x)>>

\* new: a single word, sign-extended for I256.
UNew(w) == FromWords(0, w)
INew(w) == FromWords(WSar(w, WORD - 1), w)

BitAnd(a, b) == FromWords(WAnd(High(a), High(b)), WAnd(Low(a), Low(b)))
BitOr(a, b) == FromWords(WOr(High(a), High(b)), WOr(Low(a), Low(b)))
BitXor(a, b) == FromWords(WXor(High(a), High(b)), WXor(Low(a), Low(b)))
BitNot(x) == FromWords(WNot(High(x)), WNot(Low(x)))

\* What a checked operation makes of an overflowing one: Option as a set.
Checked(result) == IF result[2] THEN {} ELSE {result[1]}
OrElse(option, default) == IF option = {} THEN default ELSE CHOOSE v \in option : TRUE
Wrapped(result) == result[1]

\* as_u8 .. as_u128 and as_i8 .. as_i128 keep the low bits; as_u256 and
\* as_i256 keep the pattern.
AsUnsignedPrim(x, w) == Low(x) % Pow2[w]
AsSignedPrim(x, w) == LET low == AsUnsignedPrim(x, w)
                      IN IF low >= Pow2[w - 1] THEN low - Pow2[w] ELSE low
AsU256(x) == x
AsI256(x) == x

\* AsU256 and AsI256 of a primitive: its sign in the high word.
FromPrim(v) == FromWords(IF v >= 0 THEN 0 ELSE M - 1, v % M)
=============================================================================
