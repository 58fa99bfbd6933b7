-------------------------- MODULE EthnumIntrinsics --------------------------
(* The other native intrinsics of ethnum (intrinsics/native/,                *)
(* intrinsics/signed.rs) word by word: shifts, and the divisions and signed  *)
(* products that rest on them.                                               *)
EXTENDS EthnumWords

-----------------------------------------------------------------------------
\* shl.rs, shr.rs, rot.rs, ctz.rs. A shift reads only the low bits of a
\* count past a word (`& 0x7f`).

Shl3(a, s) ==
  IF s = 0 THEN a
  ELSE IF s < WORD
       THEN FromWords(WOr(WShl(High(a), s), WShr(Low(a), WORD - s)), WShl(Low(a), s))
       ELSE FromWords(WShl(Low(a), s % WORD), 0)

Shr3(a, s) ==
  IF s = 0 THEN a
  ELSE IF s < WORD
       THEN FromWords(WShr(High(a), s), WOr(WShr(Low(a), s), WShl(High(a), WORD - s)))
       ELSE FromWords(0, WShr(High(a), s % WORD))

Sar3LogicalLow(a, s) ==   \* slip: the words of a logical shift
  IF s = 0 THEN a
  ELSE IF s < WORD
       THEN FromWords(WSar(High(a), s), WOr(WShr(Low(a), s), WShl(High(a), WORD - s)))
       ELSE FromWords(WSar(High(a), WORD - 1), WShr(High(a), s % WORD))
Sar3(a, s) ==
  IF s = 0 THEN a
  ELSE IF s < WORD
       THEN FromWords(WSar(High(a), s), WOr(WShr(Low(a), s), WShl(High(a), WORD - s)))
       ELSE FromWords(WSar(High(a), WORD - 1), WSar(High(a), s % WORD))

\* Defined for s <= BITS: `256 - b` traps beyond it where overflow is checked.
Rol3(a, s) == BitOr(Shl3(a, s % BITS), Shr3(a, (BITS - s) % BITS))
Ror3(a, s) == BitOr(Shr3(a, s % BITS), Shl3(a, (BITS - s) % BITS))

Ctlz(a) == IF High(a) = 0 THEN WLeading[Low(a)] + WORD ELSE WLeading[High(a)]
Cttz(a) == IF Low(a) = 0 THEN WTrailing[High(a)] + WORD ELSE WTrailing[Low(a)]

-----------------------------------------------------------------------------
\* divmod.rs: the divisor is shifted until its top bit is set, the dividend
\* with it, and the remainder shifted back.

ShiftedBack(d, s) == [d EXCEPT !.r = WShr(@, s)]
UDivWord(u1, u0, v0) ==
  LET s == WLeading[v0]
  IN ShiftedBack(DivNormalized(IF s > 0 THEN WOr(WShl(u1, s), WShr(u0, WORD - s)) ELSE u1,
                               WShl(u0, s), WShl(v0, s)), s)

FullShl(a, s) == LET hi == Shr3(a, WORD - s) IN <<WShl(Low(a), s), Low(hi), High(hi)>>
FullShr(u, s) ==
  IF s = 0 THEN FromWords(u[2], u[1])
  ELSE FromWords(WOr(WShr(u[2], s), WShl(u[3], WORD - s)),
                 WOr(WShr(u[1], s), WShl(u[2], WORD - s)))

\* D3: the estimate of the one quotient digit. The top word of a shifted
\* dividend is always below High(v); the ELSE is there for completeness.
QHat(u, v) ==
  IF u[3] < High(v)
  THEN CorrectedQHat(UDivWord(u[3], u[2], High(v)), u, v)
  ELSE <<M - 1, 0>>

KnuthShiftedBack(d, s) == [q |-> UNew(d.q), r |-> FullShr(d.u, s), steps |-> d.steps]
KnuthNormalized(u, v) == KnuthSubtract(u, v, QHat(u, v))
DivModKnuth(a, b) ==
  LET s == WLeading[High(b)]
  IN KnuthShiftedBack(KnuthNormalized(FullShl(a, s), Shl3(b, s)), s)

WordQuotient(hi, d) == [q |-> FromWords(hi, d.q), r |-> UNew(d.r), steps |-> d.steps]

\* udivmod4, for b # 0; udiv2, udiv3, urem2 and urem3 take q or r of it.
UDivMod4(a, b) ==
  IF High(a) = 0 /\ High(b) = 0
  THEN [q |-> UNew(Low(a) \div Low(b)), r |-> UNew(Low(a) % Low(b)), steps |-> 0]
  ELSE IF ULt(a, b) THEN [q |-> ZERO, r |-> a, steps |-> 0]
  ELSE IF High(b) # 0 THEN DivModKnuth(a, b)
  ELSE WordQuotient(High(a) \div Low(b), UDivWord(High(a) % Low(b), Low(a), Low(b)))

\* idivmod4, for b # 0; idiv2, idiv3, irem2 and irem3 take q or r of it.
SignMask(a) == Sar3(a, BITS - 1)
NegateIf(a, mask) == Sub3(BitXor(a, mask), mask)
WithSigns(d, sa, sb) ==
  [q |-> NegateIf(d.q, BitXor(sb, sa)), r |-> NegateIf(d.r, sa), steps |-> d.steps]
IDivMod4(a, b) ==
  WithSigns(UDivMod4(NegateIf(a, SignMask(a)), NegateIf(b, SignMask(b))), SignMask(a), SignMask(b))

\* mul.rs: imulc, which divides to find out whether a product fits.
IMulCSymmetric(a, b) ==   \* slip: MIN as a product counts as overflow
  LET absA == NegateIf(a, SignMask(a))
      absB == NegateIf(b, SignMask(b))
  IN <<Mul3(a, b),
       IF a = IMIN THEN b # ZERO /\ b # ONE
       ELSE IF b = IMIN THEN a # ZERO /\ a # ONE
       ELSE ~ILt(absA, 2) /\ ~ILt(absB, 2) /\ ILt(IDivMod4(IMAX, absB).q, absA)>>
IMulC(a, b) ==
  LET sameSign == SignMask(a) = SignMask(b)
      absA == NegateIf(a, SignMask(a))
      absB == NegateIf(b, SignMask(b))
      largest == IDivMod4(IF sameSign THEN IMAX ELSE IMIN,
                          IF sameSign THEN absB ELSE Add3(BitNot(absB), ONE)).q
  IN <<Mul3(a, b),
       IF a = IMIN THEN b # ZERO /\ b # ONE
       ELSE IF b = IMIN THEN a # ZERO /\ a # ONE
       ELSE ~ILt(absA, 2) /\ ~ILt(absB, 2) /\ ILt(largest, absA)>>
=============================================================================
