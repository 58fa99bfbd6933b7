------------------------------ MODULE EthnumInt ------------------------------
(* The methods of ethnum's I256 (int/api.rs) over its intrinsics; results    *)
(* as in EthnumUint. An I256 is a bit pattern: comparisons with 0 are ILt.   *)
EXTENDS EthnumIntrinsics

MINUS1 == N - 1

IDiv(a, b) == IDivMod4(a, b).q
IRem(a, b) == IDivMod4(a, b).r
IShl(a, s) == Shl3(a, s)
IShr(a, s) == Sar3(a, s)
INeg(a) == Add3(BitNot(a), ONE)

ISignum128(a) ==
  LET hi == Signed(High(a))
  IN IF hi < 0 THEN -1 ELSE IF hi > 0 \/ Low(a) # 0 THEN 1 ELSE 0
ISignum(a) == INew(ISignum128(a) % M)
IIsPositive(a) == ISignum128(a) > 0
IIsNegative(a) == ISignum128(a) < 0

-----------------------------------------------------------------------------
\* Bits and bytes

ICountOnes(a) == WOnes[Low(a)] + WOnes[High(a)]
ICountZeros(a) == (WORD - WOnes[Low(a)]) + (WORD - WOnes[High(a)])
ILeadingZeros(a) == Ctlz(a)
ITrailingZeros(a) == Cttz(a)
ILeadingOnes(a) == ILeadingZeros(BitNot(a))
ITrailingOnes(a) == ITrailingZeros(BitNot(a))
IRotateLeft(a, s) == Rol3(a, s)
IRotateRight(a, s) == Ror3(a, s)
ISwapBytes(a) == FromWords(WSwapBytes[Low(a)], WSwapBytes[High(a)])
IReverseBits(a) == FromWords(WReverseBits[Low(a)], WReverseBits[High(a)])

IFromBe(a) == ISwapBytes(a)
IFromLe(a) == a
IToBe(a) == ISwapBytes(a)
IToLe(a) == a
IToNeBytes(a) == WBytes(Low(a)) \o WBytes(High(a))
IToBeBytes(a) == IToNeBytes(IToBe(a))
IToLeBytes(a) == IToNeBytes(IToLe(a))
IFromNeBytes(s) == FromBytes(s)
IFromBeBytes(s) == IFromBe(IFromNeBytes(s))
IFromLeBytes(s) == IFromLe(IFromNeBytes(s))

-----------------------------------------------------------------------------
\* Overflowing and wrapping operations

IWrappingAdd(a, b) == Add3(a, b)
IWrappingAddUnsigned(a, b) == IWrappingAdd(a, AsI256(b))
IWrappingSub(a, b) == Sub3(a, b)
IWrappingSubUnsigned(a, b) == IWrappingSub(a, AsI256(b))
IWrappingMul(a, b) == Mul3(a, b)
IWrappingNeg(a) == IWrappingSub(ZERO, a)
IWrappingAbs(a) == IF IIsNegative(a) THEN IWrappingNeg(a) ELSE a
IWrappingShl(a, s) == Shl3(a, s % BITS)
IWrappingShr(a, s) == Sar3(a, s % BITS)
IUnsignedAbs(a) == AsU256(IWrappingAbs(a))
IAbs(a) == IF IIsNegative(a) THEN INeg(a) ELSE a
IAbsDiff(a, b) == IF ILt(a, b) THEN Sub3(AsU256(b), AsU256(a)) ELSE Sub3(AsU256(a), AsU256(b))

\* Rounding towards minus infinity for b > 0, and up for b < 0.
IQuotientDown(q, r, b) ==
  IF ~ILt(r, 0) THEN q ELSE IF ILt(0, b) THEN Sub3(q, ONE) ELSE Add3(q, ONE)
IRemainderUp(r, b) == IF ~ILt(r, 0) THEN r ELSE IF ILt(b, 0) THEN Sub3(r, b) ELSE Add3(r, b)
IDivEuclid(a, b) == IQuotientDown(IDiv(a, b), IRem(a, b), b)
IRemEuclid(a, b) == IRemainderUp(IRem(a, b), b)

\* MIN / -1 is the one division that overflows.
IDivOverflows(a, b) == a = IMIN /\ b = MINUS1

IOverflowingAdd(a, b) == IAddC(a, b)
IOverflowingAddUnsigned(a, b) ==
  LET r == IOverflowingAdd(a, AsI256(b)) IN <<r[1], r[2] # ILt(AsI256(b), 0)>>
IOverflowingSub(a, b) == ISubC(a, b)
IOverflowingSubUnsigned(a, b) ==
  LET r == IOverflowingSub(a, AsI256(b)) IN <<r[1], r[2] # ILt(AsI256(b), 0)>>
IOverflowingMul(a, b) == IMulC(a, b)
IOverflowingDiv(a, b) == IF IDivOverflows(a, b) THEN <<a, TRUE>> ELSE <<IDiv(a, b), FALSE>>
IOverflowingDivEuclid(a, b) ==
  IF IDivOverflows(a, b) THEN <<a, TRUE>> ELSE <<IDivEuclid(a, b), FALSE>>
IOverflowingRem(a, b) == IF IDivOverflows(a, b) THEN <<ZERO, TRUE>> ELSE <<IRem(a, b), FALSE>>
IOverflowingRemEuclid(a, b) ==
  IF IDivOverflows(a, b) THEN <<ZERO, TRUE>> ELSE <<IRemEuclid(a, b), FALSE>>
IOverflowingNeg(a) == IF a = IMIN THEN <<IMIN, TRUE>> ELSE <<INeg(a), FALSE>>
IOverflowingShl(a, s) == <<IWrappingShl(a, s), s > BITS - 1>>
IOverflowingShr(a, s) == <<IWrappingShr(a, s), s > BITS - 1>>
IOverflowingAbs(a) == <<IWrappingAbs(a), a = IMIN>>

IWrappingDiv(a, b) == Wrapped(IOverflowingDiv(a, b))
IWrappingDivEuclid(a, b) == Wrapped(IOverflowingDivEuclid(a, b))
IWrappingRem(a, b) == Wrapped(IOverflowingRem(a, b))
IWrappingRemEuclid(a, b) == Wrapped(IOverflowingRemEuclid(a, b))

\* Exponentiation by squaring; the last factor is multiplied in the end.
IPowLoop[exp \in Exponent] ==
  [s \in PowState |->
     IF exp = 0 THEN <<ONE, FALSE>>
     ELSE IF exp = 1 THEN PowEnd(s, IOverflowingMul(s.acc, s.base))
     ELSE IPowLoop[exp \div 2][PowTurn(exp % 2 = 1, s, IOverflowingMul(s.acc, s.base),
                                    IOverflowingMul(s.base, s.base))]]

IOverflowingPow(a, exp) == IPowLoop[exp][[base |-> a, acc |-> ONE, overflown |-> FALSE]]
IWrappingPow(a, exp) == Wrapped(IOverflowingPow(a, exp))
IPow(a, exp) == Wrapped(IOverflowingPow(a, exp))

-----------------------------------------------------------------------------
\* Checked operations

ICheckedAdd(a, b) == Checked(IOverflowingAdd(a, b))
ICheckedAddUnsigned(a, b) == Checked(IOverflowingAddUnsigned(a, b))
ICheckedSub(a, b) == Checked(IOverflowingSub(a, b))
ICheckedSubUnsigned(a, b) == Checked(IOverflowingSubUnsigned(a, b))
ICheckedMul(a, b) == Checked(IOverflowingMul(a, b))
ICheckedDiv(a, b) == IF b = ZERO \/ IDivOverflows(a, b) THEN {} ELSE {IDiv(a, b)}
ICheckedDivEuclid(a, b) == IF b = ZERO \/ IDivOverflows(a, b) THEN {} ELSE {IDivEuclid(a, b)}
ICheckedRem(a, b) == IF b = ZERO \/ IDivOverflows(a, b) THEN {} ELSE {IRem(a, b)}
ICheckedRemEuclid(a, b) == IF b = ZERO \/ IDivOverflows(a, b) THEN {} ELSE {IRemEuclid(a, b)}
ICheckedNeg(a) == Checked(IOverflowingNeg(a))
ICheckedShl(a, s) == Checked(IOverflowingShl(a, s))
ICheckedShr(a, s) == Checked(IOverflowingShr(a, s))
ICheckedAbs(a) == IF IIsNegative(a) THEN ICheckedNeg(a) ELSE {a}
ICheckedPow(a, exp) == Checked(IOverflowingPow(a, exp))

-----------------------------------------------------------------------------
\* Saturating operations: on overflow the operands' signs tell which end.

ISaturatingAdd(a, b) == OrElse(ICheckedAdd(a, b), IF ILt(0, b) THEN IMAX ELSE IMIN)
ISaturatingAddUnsigned(a, b) == OrElse(ICheckedAddUnsigned(a, b), IMAX)
ISaturatingSub(a, b) == OrElse(ICheckedSub(a, b), IF ILt(0, b) THEN IMIN ELSE IMAX)
ISaturatingSubUnsigned(a, b) == OrElse(ICheckedSubUnsigned(a, b), IMIN)
ISaturatingNeg(a) == ISaturatingSub(ZERO, a)
ISaturatingAbs(a) == IF IIsNegative(a) THEN ISaturatingNeg(a) ELSE a
ISaturatingMul(a, b) == OrElse(ICheckedMul(a, b), IF ILt(a, 0) = ILt(b, 0) THEN IMAX ELSE IMIN)
ISaturatingDiv(a, b) == LET r == IOverflowingDiv(a, b) IN IF r[2] THEN IMAX ELSE r[1]
ISaturatingPow(a, exp) ==
  OrElse(ICheckedPow(a, exp), IF ILt(a, 0) /\ exp % 2 = 1 THEN IMIN ELSE IMAX)

-----------------------------------------------------------------------------
\* Conversions; an Err is the empty set. TryInto only looks at the upper end.

ITryFromU256(a) == IF ULt(AsU256(IMAX), a) THEN {} ELSE {AsI256(a)}
ITryIntoUnsigned(a, w) == IF ILt(FromPrim(Pow2[w] - 1), a) THEN {} ELSE {AsUnsignedPrim(a, w)}
ITryIntoSigned(a, w) == IF ILt(FromPrim(Pow2[w - 1] - 1), a) THEN {} ELSE {AsSignedPrim(a, w)}
=============================================================================
