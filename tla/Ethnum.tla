------------------------------- MODULE Ethnum -------------------------------
(* A machine with two 256-bit registers that its program changes with the    *)
(* assigning operators of U256 and I256 (macros/ops.rs), in any order. Every *)
(* pair of patterns is a state of it; the properties ask of each pair that   *)
(* every operation of the crate returns what integer arithmetic says.        *)
EXTENDS EthnumUint, EthnumInt

VARIABLES lhs, rhs   \* bit patterns

vars == <<lhs, rhs>>

Init == lhs = ZERO /\ rhs = ZERO

\* The new contents of lhs; rhs is the operand, or the shift count as u32.
Assign(value) == lhs' = value /\ UNCHANGED rhs

AddAssign == Assign(Add3(lhs, rhs))
SubAssign == Assign(Sub3(lhs, rhs))
MulAssign == Assign(Mul3(lhs, rhs))
DivAssign == rhs # ZERO /\ (Assign(UDiv(lhs, rhs)) \/ Assign(IDiv(lhs, rhs)))
RemAssign == rhs # ZERO /\ (Assign(URem(lhs, rhs)) \/ Assign(IRem(lhs, rhs)))
ShlAssign == Assign(Shl3(lhs, rhs))
ShrAssign == Assign(Shr3(lhs, rhs)) \/ Assign(Sar3(lhs, rhs))
BitAssign == Assign(BitAnd(lhs, rhs)) \/ Assign(BitOr(lhs, rhs)) \/ Assign(BitXor(lhs, rhs))
Complement == Assign(BitNot(lhs))
Negate == Assign(INeg(lhs))
Swap == lhs' = rhs /\ rhs' = lhs

Next ==
  \/ AddAssign \/ SubAssign \/ MulAssign \/ DivAssign \/ RemAssign
  \/ ShlAssign \/ ShrAssign \/ BitAssign \/ Complement \/ Negate \/ Swap

Spec == Init /\ [][Next]_vars

-----------------------------------------------------------------------------
\* What the operations are measured against: the integers, and the two ranges.

URange == 0..(N - 1)
IRange == (-(N \div 2))..((N \div 2) - 1)
slhs == AsSigned(lhs)
srhs == AsSigned(rhs)
AbsOf(v) == IF v < 0 THEN -v ELSE v

\* Operands at which the checked, wrapping and saturating forms, which the code
\* derives from the overflowing ones, are compared as well.
Probes == {0, 1, 2, B, M - 1, M, M + 1, IMAX, IMIN, IMIN + 1, N - 1}

\* An overflowing, a checked and a wrapping result for the number v: its value
\* modulo 2^BITS, whether it left the range, the value if it did not. A
\* saturating one is the nearest value of the range.
UResult(v, overflowing, checked, wrapping) ==
  /\ overflowing = <<v % N, v \notin URange>>
  /\ rhs \in Probes => checked = (IF v \in URange THEN {v} ELSE {}) /\ wrapping = v % N
IResult(v, overflowing, checked, wrapping) ==
  /\ overflowing = <<Encode(v), v \notin IRange>>
  /\ rhs \in Probes => checked = (IF v \in IRange THEN {Encode(v)} ELSE {}) /\ wrapping = Encode(v)
UClamp(v) == IF v < 0 THEN 0 ELSE IF v >= N THEN UMAX ELSE v
IClamp(v) == IF v < -IMIN THEN IMIN ELSE IF v > IMAX THEN IMAX ELSE Encode(v)

\* Powers by repeated multiplication, exact as long as they are within N; a
\* larger one counts as N or -N, out of every range on its side.
Saturated(v) == IF AbsOf(v) < N THEN v ELSE IF v < 0 THEN -N ELSE N
Power[n \in Exponent] == [v \in Int |-> IF n = 0 THEN 1 ELSE Saturated(Power[n - 1][v] * v)]
PowerMod[n \in Exponent] == [v \in Int |-> IF n = 0 THEN 1 ELSE (PowerMod[n - 1][v] * v) % N]

UPowers ==
  LET p == Power[rhs][lhs]
  IN rhs \in Exponent =>
     /\ UOverflowingPow(lhs, rhs) = <<PowerMod[rhs][lhs], p \notin URange>>
     /\ rhs \in Probes =>
          /\ UCheckedPow(lhs, rhs) = (IF p \in URange THEN {p} ELSE {})
          /\ {PowerMod[rhs][lhs]} = {UWrappingPow(lhs, rhs), UPow(lhs, rhs)}
          /\ USaturatingPow(lhs, rhs) = UClamp(p)

UArithmetic ==
  /\ UResult(lhs + rhs, UOverflowingAdd(lhs, rhs), UCheckedAdd(lhs, rhs), UWrappingAdd(lhs, rhs))
  /\ UResult(lhs + srhs, UOverflowingAddSigned(lhs, rhs), UCheckedAddSigned(lhs, rhs), UWrappingAddSigned(lhs, rhs))
  /\ UResult(lhs - rhs, UOverflowingSub(lhs, rhs), UCheckedSub(lhs, rhs), UWrappingSub(lhs, rhs))
  /\ UResult(lhs * rhs, UOverflowingMul(lhs, rhs), UCheckedMul(lhs, rhs), UWrappingMul(lhs, rhs))
  /\ rhs = ZERO => UResult(-lhs, UOverflowingNeg(lhs), UCheckedNeg(lhs), UWrappingNeg(lhs))
  /\ rhs \in Probes =>
       /\ USaturatingAdd(lhs, rhs) = UClamp(lhs + rhs) /\ USaturatingAddSigned(lhs, rhs) = UClamp(lhs + srhs)
       /\ USaturatingSub(lhs, rhs) = UClamp(lhs - rhs) /\ USaturatingMul(lhs, rhs) = UClamp(lhs * rhs)
  /\ UAbsDiff(lhs, rhs) = AbsOf(lhs - rhs)

IPowers ==
  LET p == Power[rhs][slhs]
  IN rhs \in Exponent =>
     /\ IOverflowingPow(lhs, rhs) = <<PowerMod[rhs][lhs], p \notin IRange>>
     /\ rhs \in Probes =>
          /\ ICheckedPow(lhs, rhs) = (IF p \in IRange THEN {Encode(p)} ELSE {})
          /\ {PowerMod[rhs][lhs]} = {IWrappingPow(lhs, rhs), IPow(lhs, rhs)}
          /\ ISaturatingPow(lhs, rhs) = IClamp(p)

IArithmetic ==
  /\ IResult(slhs + srhs, IOverflowingAdd(lhs, rhs), ICheckedAdd(lhs, rhs), IWrappingAdd(lhs, rhs))
  /\ IResult(slhs + rhs, IOverflowingAddUnsigned(lhs, rhs), ICheckedAddUnsigned(lhs, rhs), IWrappingAddUnsigned(lhs, rhs))
  /\ IResult(slhs - srhs, IOverflowingSub(lhs, rhs), ICheckedSub(lhs, rhs), IWrappingSub(lhs, rhs))
  /\ IResult(slhs - rhs, IOverflowingSubUnsigned(lhs, rhs), ICheckedSubUnsigned(lhs, rhs), IWrappingSubUnsigned(lhs, rhs))
  /\ IResult(slhs * srhs, IOverflowingMul(lhs, rhs), ICheckedMul(lhs, rhs), IWrappingMul(lhs, rhs))
  /\ rhs \in Probes =>
       /\ ISaturatingAdd(lhs, rhs) = IClamp(slhs + srhs) /\ ISaturatingAddUnsigned(lhs, rhs) = IClamp(slhs + rhs)
       /\ ISaturatingSub(lhs, rhs) = IClamp(slhs - srhs) /\ ISaturatingSubUnsigned(lhs, rhs) = IClamp(slhs - rhs)
       /\ ISaturatingMul(lhs, rhs) = IClamp(slhs * srhs)
  /\ rhs = ZERO =>
       /\ IResult(-slhs, IOverflowingNeg(lhs), ICheckedNeg(lhs), IWrappingNeg(lhs))
       /\ IResult(AbsOf(slhs), IOverflowingAbs(lhs), ICheckedAbs(lhs), IWrappingAbs(lhs))
       /\ ISaturatingNeg(lhs) = IClamp(-slhs) /\ ISaturatingAbs(lhs) = IClamp(AbsOf(slhs))
       /\ IUnsignedAbs(lhs) = AbsOf(slhs) /\ IAbs(lhs) = Encode(AbsOf(slhs))
  /\ IAbsDiff(lhs, rhs) = AbsOf(slhs - srhs)

\* Whatever the word-level code does with carries, limbs and signs: each
\* overflowing, checked, wrapping and saturating operation of U256 and I256,
\* mixed signs and powers included, agrees with the integers (uint/api.rs,
\* int/api.rs over intrinsics/native/{add,sub,mul}.rs).
ArithmeticExact == UArithmetic /\ IArithmetic /\ UPowers /\ IPowers

-----------------------------------------------------------------------------
\* Truncating and Euclidean division of integers; TLA+'s own rounds down.
Quot(a, b) == IF (a < 0) = (b < 0) THEN AbsOf(a) \div AbsOf(b) ELSE -(AbsOf(a) \div AbsOf(b))
EuclidRem(a, b) == a % AbsOf(b)
EuclidQuot(a, b) == Quot(a - EuclidRem(a, b), b)
Overflows == lhs = IMIN /\ srhs = -1

\* Knuth's division with its estimated digits, corrections and add-back gives
\* quotient and remainder of the integers for every dividend and divisor, in
\* truncating and Euclidean form, for both signs; MIN / -1 is the one
\* overflow, zero the one divisor refused; and the loops that correct an
\* estimate stop after the two rounds divmod.rs:48, 66 and 291 promise.
DivisionExact ==
  IF rhs = ZERO
  THEN /\ {} = UCheckedDiv(lhs, rhs) \cup UCheckedRem(lhs, rhs) \cup UCheckedDivEuclid(lhs, rhs) \cup UCheckedRemEuclid(lhs, rhs)
       /\ {} = ICheckedDiv(lhs, rhs) \cup ICheckedRem(lhs, rhs) \cup ICheckedDivEuclid(lhs, rhs) \cup ICheckedRemEuclid(lhs, rhs)
  ELSE
  LET q == lhs \div rhs
      r == lhs % rhs
      iq == Quot(slhs, srhs)
      ir == slhs - iq * srhs
      eq == EuclidQuot(slhs, srhs)
      er == EuclidRem(slhs, srhs)
      some(v) == IF Overflows THEN {} ELSE {Encode(v)}
      agrees(d) == d.q = q /\ d.r = r /\ d.steps <= 2
  IN /\ agrees(UDivMod4(lhs, rhs))
     /\ IOverflowingDiv(lhs, rhs) = <<Encode(iq), Overflows>>
     /\ IOverflowingRemEuclid(lhs, rhs) = <<er, Overflows>>
     /\ rhs \in Probes =>
          /\ UOverflowingDiv(lhs, rhs) = <<q, FALSE>> /\ UOverflowingRem(lhs, rhs) = <<r, FALSE>>
          /\ IOverflowingRem(lhs, rhs) = <<Encode(ir), Overflows>>
          /\ IOverflowingDivEuclid(lhs, rhs) = <<Encode(eq), Overflows>>
          /\ {q} = UCheckedDiv(lhs, rhs) \cup UCheckedDivEuclid(lhs, rhs)
                    \cup {UWrappingDiv(lhs, rhs), UWrappingDivEuclid(lhs, rhs), USaturatingDiv(lhs, rhs)}
          /\ {r} = UCheckedRem(lhs, rhs) \cup UCheckedRemEuclid(lhs, rhs)
                    \cup {UWrappingRem(lhs, rhs), UWrappingRemEuclid(lhs, rhs)}
          /\ UOverflowingDivEuclid(lhs, rhs) = <<q, FALSE>> /\ UOverflowingRemEuclid(lhs, rhs) = <<r, FALSE>>
          /\ ICheckedDiv(lhs, rhs) = some(iq) /\ ICheckedRem(lhs, rhs) = some(ir)
          /\ ICheckedDivEuclid(lhs, rhs) = some(eq) /\ ICheckedRemEuclid(lhs, rhs) = some(er)
          /\ IWrappingDiv(lhs, rhs) = Encode(iq) /\ IWrappingDivEuclid(lhs, rhs) = Encode(eq)
          /\ IWrappingRem(lhs, rhs) = Encode(ir) /\ IWrappingRemEuclid(lhs, rhs) = er
          /\ ISaturatingDiv(lhs, rhs) = IClamp(iq)

-----------------------------------------------------------------------------
BitOf(v, i) == (v \div Pow2[i]) % 2
Positions == 0..(BITS - 1)
OnesOf(v) == Cardinality({i \in Positions : BitOf(v, i) = 1})
LeadingOf(v) == CHOOSE z \in 0..BITS : v \div Pow2[BITS - z] = 0 /\ (z = BITS \/ BitOf(v, BITS - 1 - z) = 1)
TrailingOf(v) == CHOOSE z \in 0..BITS : v % Pow2[z] = 0 /\ (z = BITS \/ BitOf(v, z) = 1)
NextPower(v) == CHOOSE p \in {Pow2[i] : i \in 0..BITS} : p >= v /\ (p = 1 \/ p \div 2 < v)

Shifts ==
  LET s == rhs % BITS
      over == rhs >= BITS
      some(v) == IF over THEN {} ELSE {v}
      left == (lhs * Pow2[s]) % N
  IN /\ UOverflowingShl(lhs, rhs) = <<left, over>> /\ UCheckedShl(lhs, rhs) = some(left)
     /\ IOverflowingShl(lhs, rhs) = <<left, over>> /\ ICheckedShl(lhs, rhs) = some(left)
     /\ UOverflowingShr(lhs, rhs) = <<lhs \div Pow2[s], over>> /\ UCheckedShr(lhs, rhs) = some(lhs \div Pow2[s])
     /\ IOverflowingShr(lhs, rhs) = <<Encode(slhs \div Pow2[s]), over>>
     /\ ICheckedShr(lhs, rhs) = some(Encode(slhs \div Pow2[s]))
     /\ ~over => UShl(lhs, rhs) = left /\ IShl(lhs, rhs) = left /\ UShr(lhs, rhs) = lhs \div Pow2[s]
                 /\ IShr(lhs, rhs) = Encode(slhs \div Pow2[s])
     /\ rhs <= BITS => /\ {left + lhs \div Pow2[BITS - s]} = {URotateLeft(lhs, rhs), IRotateLeft(lhs, rhs)}
                     /\ {lhs} = {URotateRight(URotateLeft(lhs, rhs), rhs), IRotateRight(IRotateLeft(lhs, rhs), rhs)}

Counts ==
  /\ {OnesOf(lhs)} = {UCountOnes(lhs), ICountOnes(lhs)}
  /\ {BITS - OnesOf(lhs)} = {UCountZeros(lhs), ICountZeros(lhs)}
  /\ {LeadingOf(lhs)} = {ULeadingZeros(lhs), ILeadingZeros(lhs)}
  /\ {TrailingOf(lhs)} = {UTrailingZeros(lhs), ITrailingZeros(lhs)}
  /\ {LeadingOf(N - 1 - lhs)} = {ULeadingOnes(lhs), ILeadingOnes(lhs)}
  /\ {TrailingOf(N - 1 - lhs)} = {UTrailingOnes(lhs), ITrailingOnes(lhs)}
  /\ UIsPowerOfTwo(lhs) = (lhs # 0 /\ NextPower(lhs) = lhs)
  /\ UNextPowerOfTwo(lhs) = NextPower(lhs) % N
  /\ UCheckedNextPowerOfTwo(lhs) = {NextPower(lhs)} \ {N}

Bytes ==
  LET le == [i \in 1..(BITS \div BYTE) |-> (lhs \div Pow2[(i - 1) * BYTE]) % Pow2[BYTE]]
  IN /\ {le} = {UToLeBytes(lhs), IToLeBytes(lhs)}
     /\ {Reverse(le)} = {UToBeBytes(lhs), IToBeBytes(lhs)}
     /\ {lhs} = {UFromLeBytes(le), IFromLeBytes(le), UFromBeBytes(Reverse(le)), IFromBeBytes(Reverse(le))}
     /\ {lhs} = {UFromBe(UToBe(lhs)), IFromBe(IToBe(lhs)), UFromLe(UToLe(lhs)), IFromLe(IToLe(lhs))}
     /\ \A i \in Positions :
          {BitOf(lhs, i)} = {BitOf(UReverseBits(lhs), BITS - 1 - i), BitOf(IReverseBits(lhs), BITS - 1 - i)}

Conversions ==
  LET w == 1 + (rhs % WORD)
      fits == slhs < Pow2[w - 1]
  IN /\ ULt(lhs, rhs) = (lhs < rhs) /\ ILt(lhs, rhs) = (slhs < srhs)
     /\ ISignum(lhs) = Encode(IF slhs < 0 THEN -1 ELSE IF slhs = 0 THEN 0 ELSE 1)
     /\ IIsPositive(lhs) = (slhs > 0) /\ IIsNegative(lhs) = (slhs < 0)
     /\ UTryFromI256(lhs) = (IF slhs < 0 THEN {} ELSE {slhs}) /\ ITryFromU256(rhs) = {rhs} \cap IRange
     /\ UTryFromSigned(Signed(Low(lhs))) = {Signed(Low(lhs))} \cap URange
     /\ UTryIntoUnsigned(lhs, w) = (IF lhs < Pow2[w] THEN {lhs} ELSE {})
     /\ UTryIntoSigned(lhs, w) = (IF lhs < Pow2[w - 1] THEN {lhs} ELSE {})
     \* A signed value too small for the target is truncated, not refused
     \* (int/convert.rs:170): only the upper end and the values that fit.
     /\ ITryIntoUnsigned(lhs, w) = (IF slhs >= Pow2[w] THEN {} ELSE {lhs % Pow2[w]})
     /\ (ITryIntoSigned(lhs, w) = {}) = ~fits
     /\ fits /\ slhs >= -(Pow2[w - 1]) => ITryIntoSigned(lhs, w) = {slhs}

\* Shifts, rotations, bit counts, byte orders, powers of two, comparisons and
\* conversions agree with their definition on the 256-bit pattern, although
\* each is put together from two words (intrinsics/native/{shl,shr,rot,ctz}.rs,
\* the cmp and convert modules).
BitsExact == Shifts /\ Conversions /\ (rhs = ZERO => Counts /\ Bytes)

=============================================================================
