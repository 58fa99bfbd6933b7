----------------------------- MODULE EthnumText -----------------------------
(* Text to number and back (parse.rs, fmt.rs, macros/parse.rs, macros/fmt.rs *)
(* and the const parsers behind the literal macros). A text is a sequence of *)
(* characters; a letter or figure is its digit value (0..35).                *)
EXTENDS EthnumUint, EthnumInt

CONSTANTS OCT, DEC, HEX,   \* the radices 8, 10 and 16 of the code
          MaxRadix         \* 36 in the code

ASSUME RadixAssumption == /\ {OCT, DEC, HEX} \subseteq 2..MaxRadix
                          /\ MaxRadix < M \div 2

PLUS == 100
MINUS == 101
UNDERSCORE == 102
Prefix == [bin |-> <<0, 11>>, oct |-> <<0, 24>>, hex |-> <<0, 33>>, none |-> <<>>]
RadixOf == [bin |-> 2, oct |-> OCT, hex |-> HEX, none |-> DEC]

Ok(v) == [kind |-> "Ok", val |-> v]
Err(kind) == [kind |-> kind, val |-> 0]

-----------------------------------------------------------------------------
\* The two types behind FromStrRadixHelper.

CheckedMulOf(signed, a, u) == IF signed THEN ICheckedMul(a, FromPrim(u)) ELSE UCheckedMul(a, FromPrim(u))
CheckedAddOf(signed, a, u) == IF signed THEN ICheckedAdd(a, FromPrim(u)) ELSE UCheckedAdd(a, FromPrim(u))
CheckedSubOf(signed, a, u) == IF signed THEN ICheckedSub(a, FromPrim(u)) ELSE UCheckedSub(a, FromPrim(u))

\* So few digits that even base HEX cannot leave the type: no checks.
CanNotOverflowUnsigned(radix, signed, digits) ==   \* slip: the sign bit forgotten
  radix <= HEX /\ HEX ^ Len(digits) <= N
CanNotOverflow(radix, signed, digits) ==
  radix <= HEX /\ HEX ^ (Len(digits) + IF signed THEN 1 ELSE 0) <= N

RECURSIVE UncheckedLoop(_, _, _, _)
UncheckedLoop(positive, radix, digits, acc) ==
  IF digits = <<>> THEN Ok(acc)
  ELSE IF Head(digits) >= radix THEN Err("InvalidDigit")
  ELSE LET shifted == Mul3(acc, FromPrim(radix))
           x == FromPrim(Head(digits))
       IN UncheckedLoop(positive, radix, Tail(digits),
                        IF positive THEN Add3(shifted, x) ELSE Sub3(shifted, x))

RECURSIVE CheckedLoop(_, _, _, _, _)
CheckedLoop(signed, positive, radix, digits, acc) ==
  IF digits = <<>> THEN Ok(acc)
  ELSE IF Head(digits) >= radix THEN Err("InvalidDigit")
  ELSE LET accumulated(next) ==
             IF next = {} THEN Err(IF positive THEN "PosOverflow" ELSE "NegOverflow")
             ELSE CheckedLoop(signed, positive, radix, Tail(digits), CHOOSE v \in next : TRUE)
       IN accumulated(UNION {IF positive THEN CheckedAddOf(signed, shifted, Head(digits))
                             ELSE CheckedSubOf(signed, shifted, Head(digits)) :
                               shifted \in CheckedMulOf(signed, acc, radix)})

FromStrRadix(signed, src, radix, prefix) ==
  LET hasSign == src[1] = PLUS \/ (src[1] = MINUS /\ signed)
      positive == ~(src[1] = MINUS /\ signed)
      unsigned == IF hasSign THEN Tail(src) ELSE src
      digits == SubSeq(unsigned, Len(prefix) + 1, Len(unsigned))
  IN IF src = <<>> THEN Err("Empty")
     ELSE IF src[1] \in {PLUS, MINUS} /\ Len(src) = 1 THEN Err("InvalidDigit")
     ELSE IF ~IsPrefix(prefix, unsigned) \/ digits = <<>> THEN Err("InvalidDigit")
     ELSE IF CanNotOverflow(radix, signed, digits)
          THEN UncheckedLoop(positive, radix, digits, ZERO)
          ELSE CheckedLoop(signed, positive, radix, digits, ZERO)

\* Each prefix in turn; whatever error the first three gave is dropped.
FirstOk(as) ==
  LET ok == SelectSeq(as, LAMBDA result : result.kind = "Ok")
  IN IF ok # <<>> THEN Head(ok) ELSE as[Len(as)]
FromStrPrefixed(signed, src) ==
  LET forms == <<"bin", "oct", "hex", "none">>
  IN FirstOk([i \in 1..4 |-> FromStrRadix(signed, src, RadixOf[forms[i]], Prefix[forms[i]])])

FromStr(signed, src) == FromStrRadix(signed, src, DEC, <<>>)
FromStrHex(signed, src) == FromStrRadix(signed, src, HEX, Prefix.hex)

-----------------------------------------------------------------------------
\* The const parser: {} is a panic. A carry out of the low word counts as
\* overflow of the type here, although the high word could take it.

ConstAdd(a, b) ==
  LET carry == Carry(Low(a), b)
  IN IF Carry(High(a), carry) = 1 THEN {} ELSE {FromWords(WAdd(High(a), carry), WAdd(Low(a), b))}

ConstMul(a, r) ==
  LET ll == (Low(a) % B) * r
      lh == (Low(a) \div B) * r
      hi == High(a) * r
  IN IF hi >= M \/ Carry(ll, WShl(lh, HALF)) = 1 \/ Carry(hi, WShr(lh, HALF)) = 1 THEN {}
     ELSE {FromWords(hi + WShr(lh, HALF), ll + WShl(lh, HALF))}

RECURSIVE ConstLoop(_, _, _)
ConstLoop(radix, digits, acc) ==
  IF digits = <<>> \/ acc = {} THEN acc
  ELSE IF Head(digits) = UNDERSCORE THEN ConstLoop(radix, Tail(digits), acc)
  ELSE IF Head(digits) >= radix THEN {}
  ELSE ConstLoop(radix, Tail(digits),
         UNION {ConstAdd(v, Head(digits)) : v \in UNION {ConstMul(a, radix) : a \in acc}})

ConstFromStrPrefixed(src) ==
  LET prefixes == {p \in {"bin", "oct", "hex"} : IsPrefix(Prefix[p], src)}
      p == IF Len(src) > 2 /\ prefixes # {} THEN CHOOSE q \in prefixes : TRUE ELSE "none"
  IN IF src = <<>> THEN {}
     ELSE ConstLoop(RadixOf[p], SubSeq(src, Len(Prefix[p]) + 1, Len(src)), {ZERO})

UConstFromStrPrefixed(src) ==
  ConstFromStrPrefixed(IF src # <<>> /\ src[1] = PLUS THEN Tail(src) ELSE src)

IConstFromStrPrefixed(src) ==
  LET negate == src # <<>> /\ src[1] = MINUS
      uint == ConstFromStrPrefixed(
                IF src # <<>> /\ src[1] \in {PLUS, MINUS} THEN Tail(src) ELSE src)
      int(v) == IF negate THEN Add3(BitNot(v), ONE) ELSE v
      sign == IF negate THEN 1 ELSE -1
  IN {int(v) : v \in {w \in uint : ISignum128(int(w)) # sign}}

-----------------------------------------------------------------------------
\* Formatting: the digits, most significant first.

RECURSIVE RadixDigits(_, _)
RadixDigits(x, base) ==
  LET prepend(rest, digit) ==
        IF rest = ZERO THEN <<digit>> ELSE RadixDigits(rest, base) \o <<digit>>
  IN prepend(UDiv(x, FromPrim(base)), AsUnsignedPrim(URem(x, FromPrim(base)), WORD))

\* Two digits from the table, leading zero included.
Pair(d) == <<d \div DEC, d % DEC>>
UpToTwo(d) == IF d < DEC THEN <<d>> ELSE Pair(d)
UpToFour(d) == IF d >= DEC ^ 2 THEN UpToTwo(d \div DEC ^ 2) \o Pair(d % DEC ^ 2) ELSE UpToTwo(d)

\* Four digits at a time while there are more than four.
RECURSIVE FmtU256(_)
FmtU256(n) ==
  IF ULt(n, DEC ^ 4) THEN UpToFour(n)
  ELSE LET pairs(four) == Pair(four \div DEC ^ 2) \o Pair(four % DEC ^ 2)
       IN FmtU256(UDiv(n, DEC ^ 4)) \o pairs(URem(n, DEC ^ 4))

Display(signed, x) ==
  LET negative == signed /\ ILt(x, 0)
      digits == FmtU256(IF negative THEN Add3(BitNot(AsU256(x)), ONE) ELSE x)
  IN IF negative THEN <<MINUS>> \o digits ELSE digits

\* `{:#x}` and the like, and with the `-` flag, which prints a sign.
FmtBase(x, p) == Prefix[p] \o RadixDigits(x, RadixOf[p])
FmtBaseMinus(x, p) ==
  IF ILt(x, 0) THEN <<MINUS>> \o FmtBase(IWrappingNeg(x), p) ELSE FmtBase(x, p)
=============================================================================
