--------------------------- MODULE EthnumRoundTrip ---------------------------
(* The machine of Ethnum, of whose registers texts are made and read back.   *)
EXTENDS Ethnum, EthnumText

\* A result of parsing the number v: the value, or the overflow on its side.
Parsed(signed, v) ==
  IF v \in (IF signed THEN IRange ELSE URange) THEN Ok(Encode(v))
  ELSE Err(IF v < 0 THEN "NegOverflow" ELSE "PosOverflow")

\* What the parser makes of each text: <<signed, text, result>>.
ReadAs(readings, radix) ==
  \A t \in readings : FromStrRadix(t[1], t[2], radix, <<>>) = t[3]

\* The digits d of lhs in any radix, and the same digits followed by c.
RadixRoundTrip(radix, c, d, v) ==
  /\ d = <<0>> \/ d[1] # 0
  /\ ReadAs({<<FALSE, d, Ok(lhs)>>,
             <<FALSE, d \o <<c>>, Parsed(FALSE, v)>>,
             <<TRUE, <<PLUS>> \o d \o <<c>>, Parsed(TRUE, v)>>,
             <<TRUE, <<MINUS>> \o d \o <<c>>, Parsed(TRUE, -v)>>,
             <<FALSE, <<MINUS>> \o d \o <<c>>, Err("InvalidDigit")>>,
             <<FALSE, d \o <<radix>>, Err("InvalidDigit")>>}, radix)

\* What the based formats print, without and with a minus sign.
BasedRoundTrip(p, based, minus) ==
  /\ p = "hex" => FromStrHex(FALSE, based) = Ok(lhs)
  /\ \A t \in {<<FALSE, based>>, <<TRUE, minus>>} : FromStrPrefixed(t[1], t[2]) = Ok(lhs)
  /\ UConstFromStrPrefixed(based) = {lhs}
  /\ IConstFromStrPrefixed(minus) = {lhs}

\* What Display prints of each type, and a literal one digit longer.
DisplayRoundTrip(unsigned, signed) ==
  \A t \in {<<FALSE, unsigned>>, <<TRUE, signed>>} : FromStr(t[1], t[2]) = Ok(lhs)
LiteralExact(decimal, v) ==
  /\ UConstFromStrPrefixed(decimal) \subseteq {v} \cap URange
  /\ \A t \in {<<decimal, v>>, <<<<MINUS>> \o decimal, -v>>} :
       IConstFromStrPrefixed(t[1]) \subseteq {Encode(w) : w \in {t[2]} \cap IRange}
PrintedRoundTrip(c, unsigned, signed) ==
  /\ DisplayRoundTrip(unsigned, signed)
  /\ LiteralExact(unsigned \o <<UNDERSCORE, c>>, lhs * DEC + c)
  /\ \A p \in {"bin", "oct", "hex"} : BasedRoundTrip(p, FmtBase(lhs, p), FmtBaseMinus(lhs, p))

\* What is printed is read back as the same number, in every radix, with sign
\* and prefix; a text one digit longer than a printed number gives its value
\* or the overflow error of its side, never a wrapped value, through the
\* unchecked and the checked loop alike; a bad digit is always reported; and
\* the const parser behind the literal macros either panics or returns the
\* number written (parse.rs, fmt.rs).
TextRoundTrip ==
  /\ \A radix \in 2..MaxRadix : rhs < radix =>
       RadixRoundTrip(radix, rhs, RadixDigits(lhs, radix), lhs * radix + rhs)
  /\ rhs < DEC => PrintedRoundTrip(rhs, Display(FALSE, lhs), Display(TRUE, lhs))
=============================================================================
