----------------------------- MODULE EthnumUint -----------------------------
(* The methods of ethnum's U256 (uint/api.rs) over its intrinsics. Results   *)
(* as in the code: an overflowing operation returns a pair, a checked one an *)
(* option (a set of at most one element), the others a pattern. Operators    *)
(* `a / b` and `a % b` panic on b = 0; they are used with b # 0 only. The    *)
(* release profile has no debug assertions: `+`, `-`, `*` and shifts wrap.   *)
EXTENDS EthnumIntrinsics

UDiv(a, b) == UDivMod4(a, b).q
URem(a, b) == UDivMod4(a, b).r
UShl(a, s) == Shl3(a, s)
UShr(a, s) == Shr3(a, s)

-----------------------------------------------------------------------------
\* Bits and bytes

UCountOnes(a) == WOnes[Low(a)] + WOnes[High(a)]
UCountZeros(a) == (WORD - WOnes[Low(a)]) + (WORD - WOnes[High(a)])
ULeadingZeros(a) == Ctlz(a)
UTrailingZeros(a) == Cttz(a)
ULeadingOnes(a) == ULeadingZeros(BitNot(a))
UTrailingOnes(a) == UTrailingZeros(BitNot(a))
URotateLeft(a, s) == Rol3(a, s)
URotateRight(a, s) == Ror3(a, s)
USwapBytes(a) == FromWords(WSwapBytes[Low(a)], WSwapBytes[High(a)])
UReverseBits(a) == FromWords(WReverseBits[Low(a)], WReverseBits[High(a)])

\* On a little-endian target, as wasm32 is.
UFromBe(a) == USwapBytes(a)
UFromLe(a) == a
UToBe(a) == USwapBytes(a)
UToLe(a) == a
UToNeBytes(a) == WBytes(Low(a)) \o WBytes(High(a))
UToBeBytes(a) == UToNeBytes(UToBe(a))
UToLeBytes(a) == UToNeBytes(UToLe(a))
UFromNeBytes(s) == FromBytes(s)
UFromBeBytes(s) == UFromBe(UFromNeBytes(s))
UFromLeBytes(s) == UFromLe(UFromNeBytes(s))

-----------------------------------------------------------------------------
\* Overflowing and wrapping operations

UOverflowingAdd(a, b) == UAddC(a, b)
UOverflowingAddSigned(a, b) ==
  LET r == UOverflowingAdd(a, AsU256(b)) IN <<r[1], r[2] # ILt(b, 0)>>
UOverflowingSub(a, b) == USubC(a, b)
UOverflowingMul(a, b) == UMulC(a, b)
UOverflowingDiv(a, b) == <<UDiv(a, b), FALSE>>
UOverflowingDivEuclid(a, b) == <<UDiv(a, b), FALSE>>
UOverflowingRem(a, b) == <<URem(a, b), FALSE>>
UOverflowingRemEuclid(a, b) == <<URem(a, b), FALSE>>

UWrappingAdd(a, b) == Add3(a, b)
UWrappingAddSigned(a, b) == UWrappingAdd(a, AsU256(b))
UWrappingSub(a, b) == Sub3(a, b)
UWrappingMul(a, b) == Mul3(a, b)
UWrappingDiv(a, b) == UDiv(a, b)
UWrappingDivEuclid(a, b) == UDiv(a, b)
UWrappingRem(a, b) == URem(a, b)
UWrappingRemEuclid(a, b) == URem(a, b)
UWrappingShl(a, s) == Shl3(a, s % BITS)
UWrappingShr(a, s) == Shr3(a, s % BITS)

UOverflowingNeg(a) == <<UWrappingAdd(BitNot(a), ONE), a # ZERO>>
UOverflowingShl(a, s) == <<UWrappingShl(a, s), s > BITS - 1>>
UOverflowingShr(a, s) == <<UWrappingShr(a, s), s > BITS - 1>>
UWrappingNeg(a) == Wrapped(UOverflowingNeg(a))
UDivEuclid(a, b) == UDiv(a, b)
URemEuclid(a, b) == URem(a, b)
UAbsDiff(a, b) == IF ULt(a, b) THEN Sub3(b, a) ELSE Sub3(a, b)

\* Exponentiation by squaring.
UPowLoop[exp \in Exponent] ==
  [s \in PowState |->
     IF exp = 0 THEN <<s.acc, s.overflown>>
     ELSE IF exp = 1 THEN PowEnd(s, UOverflowingMul(s.acc, s.base))
     ELSE UPowLoop[exp \div 2][PowTurn(exp % 2 = 1, s, UOverflowingMul(s.acc, s.base),
                                    UOverflowingMul(s.base, s.base))]]

UOverflowingPow(a, exp) == UPowLoop[exp][[base |-> a, acc |-> ONE, overflown |-> FALSE]]
UWrappingPow(a, exp) == Wrapped(UOverflowingPow(a, exp))
UPow(a, exp) == Wrapped(UOverflowingPow(a, exp))

-----------------------------------------------------------------------------
\* Checked operations

UCheckedAdd(a, b) == Checked(UOverflowingAdd(a, b))
UCheckedAddSigned(a, b) == Checked(UOverflowingAddSigned(a, b))
UCheckedSub(a, b) == Checked(UOverflowingSub(a, b))
UCheckedMul(a, b) == Checked(UOverflowingMul(a, b))
UCheckedDiv(a, b) == IF b = ZERO THEN {} ELSE {UDiv(a, b)}
UCheckedDivEuclid(a, b) == IF b = ZERO THEN {} ELSE {UDivEuclid(a, b)}
UCheckedRem(a, b) == IF b = ZERO THEN {} ELSE {URem(a, b)}
UCheckedRemEuclid(a, b) == IF b = ZERO THEN {} ELSE {URemEuclid(a, b)}
UCheckedNeg(a) == Checked(UOverflowingNeg(a))
UCheckedShl(a, s) == Checked(UOverflowingShl(a, s))
UCheckedShr(a, s) == Checked(UOverflowingShr(a, s))
UCheckedPow(a, exp) == Checked(UOverflowingPow(a, exp))

-----------------------------------------------------------------------------
\* Saturating operations

USaturatingAdd(a, b) == OrElse(UCheckedAdd(a, b), UMAX)
USaturatingAddSigned(a, b) ==
  LET r == UOverflowingAdd(a, AsU256(b))
  IN IF r[2] = ILt(b, 0) THEN r[1] ELSE IF r[2] THEN UMAX ELSE ZERO
USaturatingSub(a, b) == OrElse(UCheckedSub(a, b), UMIN)
USaturatingMul(a, b) == OrElse(UCheckedMul(a, b), UMAX)
USaturatingDiv(a, b) == UWrappingDiv(a, b)
USaturatingPow(a, exp) == OrElse(UCheckedPow(a, exp), UMAX)

-----------------------------------------------------------------------------
\* Powers of two

UIsPowerOfTwo(a) == UCountOnes(a) = 1
UOneLessThanNextPowerOfTwo(a) ==
  IF ~ULt(ONE, a) THEN ZERO ELSE UShr(UMAX, ULeadingZeros(Sub3(a, ONE)))
UNextPowerOfTwo(a) == Add3(UOneLessThanNextPowerOfTwo(a), ONE)
UCheckedNextPowerOfTwo(a) == UCheckedAdd(UOneLessThanNextPowerOfTwo(a), ONE)

-----------------------------------------------------------------------------
\* Conversions; an Err is the empty set.

UTryFromSigned(v) == IF v >= 0 THEN {UNew(v)} ELSE {}
UTryFromI256(a) == IF ILt(a, 0) THEN {} ELSE {AsU256(a)}
UTryIntoUnsigned(a, w) == IF ULt(FromPrim(Pow2[w] - 1), a) THEN {} ELSE {AsUnsignedPrim(a, w)}
UTryIntoSigned(a, w) == IF ULt(FromPrim(Pow2[w - 1] - 1), a) THEN {} ELSE {AsSignedPrim(a, w)}
=============================================================================
