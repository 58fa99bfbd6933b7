----------------------------- MODULE EthnumProofs -----------------------------
(***************************************************************************)
(* Carries, half-word products and estimated quotient digits, put together *)
(* word by word, give the sums, products, quotients, remainders and orders *)
(* of the integers, for every width; so do the methods built from them,    *)
(* with their overflow flags, and the loops that raise to a power.         *)
(***************************************************************************)
EXTENDS Ethnum, SumTheorems

-----------------------------------------------------------------------------
(* Quotients and remainders *)

LEMMA DivideBy ==
    \A a \in Int, d \in Nat \ {0} :
        /\ a \div d \in Int /\ a % d \in Nat
        /\ a = d * (a \div d) + (a % d) /\ a % d < d
        /\ a \in Nat => a \div d \in Nat
OBVIOUS

LEMMA TimesUp ==
    \A d \in Nat, x, y \in Int : x <= y => d * x <= d * y
OBVIOUS

LEMMA TimesAbove ==
    \A d \in Nat, x, y \in Int : x < y => d * x + d <= d * y
<1> SUFFICES ASSUME NEW d \in Nat, NEW x \in Int, NEW y \in Int, x < y
             PROVE  d * x + d <= d * y
    OBVIOUS
<1>1. d * (x + 1) <= d * y
    BY TimesUp
<1> QED
    BY <1>1

LEMMA DivideUnique ==
    \A a, q, r \in Int, d \in Nat \ {0} :
        a = d * q + r /\ 0 <= r /\ r < d => a \div d = q /\ a % d = r
<1> SUFFICES ASSUME NEW a \in Int, NEW q \in Int, NEW r \in Int, NEW d \in Nat \ {0},
                    a = d * q + r, 0 <= r, r < d
             PROVE  a \div d = q /\ a % d = r
    OBVIOUS
<1>1. PICK x \in Int, y \in Nat : x = a \div d /\ y = a % d /\ a = d * x + y /\ y < d
    BY DivideBy
<1>2. ~(x < q)
    <2> SUFFICES ASSUME x < q PROVE FALSE
        OBVIOUS
    <2>1. d * x + d <= d * q
        BY TimesAbove
    <2>2. d * x \in Int /\ d * q \in Int
        OBVIOUS
    <2> QED
        BY <1>1, <2>1, <2>2
<1>3. ~(q < x)
    <2> SUFFICES ASSUME q < x PROVE FALSE
        OBVIOUS
    <2>1. d * q + d <= d * x
        BY TimesAbove
    <2>2. d * x \in Int /\ d * q \in Int
        OBVIOUS
    <2> QED
        BY <1>1, <2>1, <2>2
<1>4. x = q
    BY <1>2, <1>3
<1> QED
    BY <1>1, <1>4

LEMMA Below ==
    \A a \in Nat, d \in Nat \ {0} : a < d => a \div d = 0 /\ a % d = a
OBVIOUS

-----------------------------------------------------------------------------
(* The estimate of a quotient digit *)

\* Of the dividend un * D + next and the divisor v1 * D + v0: the digit qs, its
\* estimate q from the leading digit of the divisor, when the test that corrects
\* the estimate calls q - k too large, and what an overflow of the remainder says.
Close(D, v1, v0, un, next) ==
    \E q, rhat, qs \in Nat :
        /\ q = un \div v1 /\ rhat = un % v1
        /\ qs = (un * D + next) \div (v1 * D + v0)
        /\ qs < D /\ qs <= q /\ q <= qs + 2
        /\ \A k \in Int : (q - k) * v0 > D * (rhat + k * v1) + next <=> q - k > qs
        /\ \A k \in Int : k > 0 /\ rhat + k * v1 >= D => q - k <= qs

\* Knuth's theorem B, in any base D: it takes that the leading digit of the
\* divisor is at least D / 2.
LEMMA EstimateIsClose ==
    \A D, v1, v0, un, next \in Nat :
        0 < D /\ v0 < D /\ D <= 2 * v1 /\ un < v1 * D + v0 /\ next < D
        => Close(D, v1, v0, un, next)
<1> SUFFICES ASSUME NEW D \in Nat, NEW v1 \in Nat, NEW v0 \in Nat, NEW un \in Nat, NEW next \in Nat,
                    0 < D, v0 < D, D <= 2 * v1, un < v1 * D + v0, next < D
             PROVE  Close(D, v1, v0, un, next)
    OBVIOUS
<1>1. D \in Nat \ {0} /\ v1 \in Nat \ {0}
    OBVIOUS
<1>2. PICK V \in Nat \ {0} : V = v1 * D + v0
    <2>1. v1 * D \in Nat /\ v1 * D + v0 > un
        BY <1>1
    <2> QED
        BY <2>1
<1>3. PICK X \in Nat : X = un * D + next
    <2>1. un * D \in Nat
        OBVIOUS
    <2> QED
        BY <2>1
<1>4. PICK q \in Nat, rhat \in Nat :
        q = un \div v1 /\ rhat = un % v1 /\ un = v1 * q + rhat /\ rhat < v1
    BY <1>1, DivideBy
<1>5. PICK qs \in Nat, r \in Nat : qs = X \div V /\ X = V * qs + r /\ r < V
    BY <1>2, <1>3, DivideBy
<1>6. \A m \in Int : m > qs <=> V * m > X
    <2> SUFFICES ASSUME NEW m \in Int PROVE m > qs <=> V * m > X
        OBVIOUS
    <2>1. CASE m > qs
        <3>1. V * qs + V <= V * m
            BY <2>1, TimesAbove
        <3>2. V * qs \in Int /\ V * m \in Int
            OBVIOUS
        <3> QED
            BY <1>5, <2>1, <3>1, <3>2
    <2>2. CASE m <= qs
        <3>1. V * m <= V * qs
            BY <2>2, TimesUp
        <3>2. V * qs \in Int /\ V * m \in Int
            OBVIOUS
        <3> QED
            BY <1>5, <2>2, <3>1, <3>2
    <2> QED
        BY <2>1, <2>2
<1>7. \A k \in Int : (q - k) * v0 > D * (rhat + k * v1) + next <=> q - k > qs
    <2> SUFFICES ASSUME NEW k \in Int
                 PROVE  (q - k) * v0 > D * (rhat + k * v1) + next <=> q - k > qs
        OBVIOUS
    <2>1. PICK m \in Int : m = q - k
        OBVIOUS
    <2>2. V * m = m * v1 * D + m * v0
        BY <1>2
    <2>3. X = D * (v1 * (m + k) + rhat) + next
        <3>1. q = m + k
            BY <2>1
        <3>2. un = v1 * (m + k) + rhat
            BY <1>4, <3>1
        <3>3. D * un = un * D
            OBVIOUS
        <3> QED
            BY <1>3, <3>2, <3>3
    <2>4. D * (v1 * (m + k) + rhat) = m * v1 * D + D * (rhat + k * v1)
        OBVIOUS
    <2>5. PICK x \in Int, y \in Int, z \in Int : x = m * v1 * D /\ y = m * v0 /\ z = D * (rhat + k * v1)
        OBVIOUS
    <2>6. V * m = x + y /\ X = x + z + next
        BY <2>2, <2>3, <2>4, <2>5
    <2>7. m * v0 > D * (rhat + k * v1) + next <=> V * m > X
        BY <2>5, <2>6
    <2> QED
        BY <1>6, <2>1, <2>7
<1>8. qs < D
    <2>1. D * un + D <= D * V
        BY <1>2, TimesAbove
    <2>2. V * D > X
        <3>1. D * un = un * D /\ D * V = V * D /\ un * D \in Int /\ V * D \in Int
            OBVIOUS
        <3> QED
            BY <1>3, <2>1, <3>1
    <2> QED
        BY <1>6, <2>2
<1>9. qs <= q
    <2>1. un < v1 * (q + 1)
        <3>1. v1 * (q + 1) = v1 * q + v1 /\ v1 * q \in Int
            OBVIOUS
        <3> QED
            BY <1>4, <3>1
    <2>2. D * un + D <= D * (v1 * (q + 1))
        BY <2>1, TimesAbove
    <2>3. V * (q + 1) = D * (v1 * (q + 1)) + v0 * (q + 1)
        BY <1>2
    <2>4. PICK x \in Int, y \in Int, z \in Nat : x = D * (v1 * (q + 1)) /\ y = D * un /\ z = v0 * (q + 1)
        OBVIOUS
    <2>5. X = y + next /\ V * (q + 1) = x + z /\ y + D <= x
        BY <1>3, <2>2, <2>3, <2>4
    <2>6. V * (q + 1) > X
        BY <2>5
    <2>7. q + 1 > qs
        BY <1>6, <2>6
    <2> QED
        BY <2>7
<1>10. q <= D + 1
    <2> SUFFICES ASSUME D + 2 <= q PROVE FALSE
        OBVIOUS
    <2>1. v1 * (D + 2) <= v1 * q
        BY TimesUp
    <2>2. v1 * (D + 2) = v1 * D + 2 * v1 /\ v1 * D \in Int /\ v1 * q \in Int
        OBVIOUS
    <2> QED
        BY <1>4, <2>1, <2>2
\* A multiple of v0 below the base is too small to ask for a correction once
\* the remainder fills a digit.
<1>11. \A m \in Int, t \in Nat : m <= D /\ D <= t => ~(m * v0 > D * t + next)
    <2> SUFFICES ASSUME NEW m \in Int, NEW t \in Nat, m <= D, D <= t
                 PROVE  ~(m * v0 > D * t + next)
        OBVIOUS
    <2>1. v0 * m <= v0 * D
        BY TimesUp
    <2>2. D * v0 <= D * t
        BY TimesUp
    <2>3. v0 * m = m * v0 /\ v0 * D = D * v0 /\ m * v0 \in Int /\ D * v0 \in Int /\ D * t \in Int
        OBVIOUS
    <2> QED
        BY <2>1, <2>2, <2>3
<1>12. \A k \in Int : k > 0 /\ rhat + k * v1 >= D => q - k <= qs
    <2> SUFFICES ASSUME NEW k \in Int, k > 0, rhat + k * v1 >= D PROVE q - k <= qs
        OBVIOUS
    <2>1. PICK t \in Nat : t = rhat + k * v1
        <3>1. k * v1 \in Nat
            OBVIOUS
        <3> QED
            BY <3>1
    <2>2. ~((q - k) * v0 > D * t + next)
        BY <1>10, <1>11, <2>1
    <2> QED
        BY <1>7, <2>1, <2>2
<1>13. q <= qs + 2
    <2>1. PICK k \in Int : k = 2
        OBVIOUS
    <2>2. PICK t \in Nat : t = rhat + k * v1 /\ D <= t
        BY <2>1
    <2>3. q - k <= D
        BY <1>10, <2>1
    <2>4. ~((q - k) * v0 > D * t + next)
        BY <1>11, <2>2, <2>3
    <2>5. q - k <= qs
        BY <1>7, <2>2, <2>4
    <2> QED
        BY <2>1, <2>5
<1>14. qs = (un * D + next) \div (v1 * D + v0)
    BY <1>2, <1>3, <1>5
<1> QED
    BY <1>4, <1>7, <1>8, <1>9, <1>12, <1>13, <1>14 DEF Close

-----------------------------------------------------------------------------
(* Words and their halves *)

LEMMA Bases ==
    /\ B \in Nat \ {0} /\ B >= 2 /\ M \in Nat \ {0} /\ N \in Nat \ {0}
    /\ M = B * B /\ N = M * M /\ 2 * B <= M /\ B <= M
<1>1. B \in Nat \ {0} /\ B >= 2
    BY BaseAssumption
<1>2. B * B \in Nat \ {0} /\ B * 2 <= B * B
    BY <1>1, TimesUp
<1>3. M \in Nat \ {0} /\ M = B * B
    BY <1>2 DEF M
<1>4. M * M \in Nat \ {0}
    BY <1>3
<1> QED
    BY <1>1, <1>2, <1>3, <1>4 DEF N

LEMMA WordHalves ==
    \A w \in Word : /\ w \div B \in Nat /\ w % B \in Nat /\ w \div B < B /\ w % B < B
                    /\ w = (w \div B) * B + (w % B)
<1> SUFFICES ASSUME NEW w \in Word
             PROVE  /\ w \div B \in Nat /\ w % B \in Nat /\ w \div B < B /\ w % B < B
                    /\ w = (w \div B) * B + (w % B)
    OBVIOUS
<1>1. w \in Nat /\ w < B * B
    BY Bases DEF Word
<1>2. PICK h \in Nat, l \in Nat : h = w \div B /\ l = w % B /\ w = B * h + l /\ l < B
    BY <1>1, Bases, DivideBy
<1>3. h < B
    <2> SUFFICES ASSUME B <= h PROVE FALSE
        BY Bases
    <2>1. B * B <= B * h
        BY Bases, TimesUp
    <2> QED
        BY <1>1, <1>2, <2>1, Bases
<1>4. B * h = h * B
    BY Bases
<1> QED
    BY <1>2, <1>3, <1>4

LEMMA PatternWords ==
    \A x \in Pattern : High(x) \in Word /\ Low(x) \in Word /\ x = High(x) * M + Low(x)
<1> SUFFICES ASSUME NEW x \in Pattern
             PROVE  High(x) \in Word /\ Low(x) \in Word /\ x = High(x) * M + Low(x)
    OBVIOUS
<1>1. x \in Nat /\ x < M * M
    BY Bases DEF Pattern
<1>2. PICK h \in Nat, l \in Nat : h = x \div M /\ l = x % M /\ x = M * h + l /\ l < M
    BY <1>1, Bases, DivideBy
<1>3. h < M
    <2> SUFFICES ASSUME M <= h PROVE FALSE
        BY Bases
    <2>1. M * M <= M * h
        BY Bases, TimesUp
    <2> QED
        BY <1>1, <1>2, <2>1, Bases
<1>4. M * h = h * M
    BY Bases
<1>5. h \in Word /\ l \in Word
    BY <1>2, <1>3, Bases DEF Word
<1> QED
    BY <1>2, <1>4, <1>5 DEF High, Low

LEMMA WordsOf ==
    \A h \in Nat, l \in Word :
        /\ High(FromWords(h, l)) = h /\ Low(FromWords(h, l)) = l
        /\ h \in Word => FromWords(h, l) \in Pattern
<1> SUFFICES ASSUME NEW h \in Nat, NEW l \in Word
             PROVE  /\ High(FromWords(h, l)) = h /\ Low(FromWords(h, l)) = l
                    /\ h \in Word => FromWords(h, l) \in Pattern
    OBVIOUS
<1>1. l \in Nat /\ l < M
    BY Bases DEF Word
<1>2. PICK x \in Nat : x = h * M + l /\ x = M * h + l /\ x = FromWords(h, l)
    <2>1. h * M \in Nat /\ h * M = M * h
        BY Bases
    <2> QED
        BY <1>1, <2>1 DEF FromWords
<1>3. x \div M = h /\ x % M = l
    <2>1. x \in Int /\ h \in Int /\ l \in Int /\ M \in Nat \ {0} /\ x = M * h + l /\ 0 <= l /\ l < M
        BY <1>1, <1>2, Bases
    <2> QED
        BY <2>1, DivideUnique
<1>4. h \in Word => x < M * M
    <2> SUFFICES ASSUME h \in Word PROVE x < M * M
        OBVIOUS
    <2>1. h < M
        BY Bases DEF Word
    <2>2. M * h + M <= M * M
        BY <2>1, Bases, TimesAbove
    <2>3. M * h \in Int /\ M * M \in Int
        BY Bases
    <2> QED
        BY <1>1, <1>2, <2>2, <2>3, Bases
<1>5. x \in Nat /\ x < M * M => x \in Pattern
    BY Bases DEF Pattern
<1> QED
    BY <1>2, <1>3, <1>4, <1>5 DEF High, Low

-----------------------------------------------------------------------------
(* Dividing by one word *)

\* The top bit of v is set.
Normal(v) == M <= 2 * v

LEMMA NormalHalf ==
    \A v \in Word : Normal(v) => B <= 2 * (v \div B)
<1> SUFFICES ASSUME NEW v \in Word, Normal(v), 2 * (v \div B) < B PROVE FALSE
    BY WordHalves, Bases
<1>1. PICK v1 \in Nat, v0 \in Nat : v1 = v \div B /\ v = v1 * B + v0 /\ v0 < B
    BY WordHalves
<1>2. 2 * v1 <= B - 2
    BY <1>1, BaseAssumption
<1>3. B * (2 * v1) <= B * (B - 2)
    BY <1>2, Bases, TimesUp
<1>4. B * (2 * v1) = 2 * (v1 * B) /\ B * (B - 2) = B * B - 2 * B /\ v1 * B \in Int /\ B * B \in Int
    BY Bases
<1> QED
    BY <1>1, <1>3, <1>4, Bases DEF Normal

\* A digit, and what remains, are those of the quotient; the loop takes two
\* rounds at most.
LEMMA QuotientDigitIs ==
    \A v \in Word, un, next \in Nat :
        Normal(v) /\ un < v /\ next < B
        => LET d == QuotientDigit(un, next, v)
           IN /\ d[1] = (un * B + next) \div v /\ d[1] \in Nat /\ d[1] < B /\ d[2] \in 0..2
              /\ Remainder(un, next, v, d) = (un * B + next) % v
<1> SUFFICES ASSUME NEW v \in Word, NEW un \in Nat, NEW next \in Nat,
                    Normal(v), un < v, next < B,
                    NEW d, d = QuotientDigit(un, next, v)
             PROVE  /\ d[1] = (un * B + next) \div v /\ d[1] \in Nat /\ d[1] < B /\ d[2] \in 0..2
                    /\ Remainder(un, next, v, d) = (un * B + next) % v
    OBVIOUS
<1>1. PICK v1 \in Nat, v0 \in Nat : v1 = v \div B /\ v0 = v % B /\ v = v1 * B + v0 /\ v0 < B
                                     /\ B <= 2 * v1
    BY WordHalves, NormalHalf
<1>2. Close(B, v1, v0, un, next)
    <2>1. B \in Nat /\ 0 < B /\ un < v1 * B + v0
        BY <1>1, Bases
    <2> QED
        BY <1>1, <2>1, EstimateIsClose
<1>3. PICK q \in Nat, rhat \in Nat, qs \in Nat :
        /\ q = un \div v1 /\ rhat = un % v1
        /\ qs = (un * B + next) \div v
        /\ qs < B /\ qs <= q /\ q <= qs + 2
        /\ \A k \in Int : (q - k) * v0 > B * (rhat + k * v1) + next <=> q - k > qs
        /\ \A k \in Int : k > 0 /\ rhat + k * v1 >= B => q - k <= qs
    BY <1>1, <1>2 DEF Close
<1>4. d = CorrectDigit(q, rhat, v1, v0, next)
    BY <1>1, <1>3 DEF QuotientDigit
<1> DEFINE TooLarge(k) == q - k >= B \/ (q - k) * v0 > B * (rhat + k * v1) + next
           Leaves(k) == ~TooLarge(k) \/ (k > 0 /\ rhat + k * v1 >= B)
           rounds == CHOOSE k \in 0..B : Leaves(k) /\ \A j \in 0..(k - 1) : ~Leaves(j)
<1>5. \A k \in Int : TooLarge(k) <=> q - k > qs
    <2> SUFFICES ASSUME NEW k \in Int PROVE TooLarge(k) <=> q - k > qs
        OBVIOUS
    <2>1. (q - k) * v0 > B * (rhat + k * v1) + next <=> q - k > qs
        BY <1>3
    <2>2. q - k >= B => q - k > qs
        BY <1>3, Bases, SMTT(30)
    <2> QED
        BY <2>1, <2>2
<1>6. \A k \in Int : Leaves(k) <=> q - k <= qs
    <2> SUFFICES ASSUME NEW k \in Int PROVE Leaves(k) <=> q - k <= qs
        OBVIOUS
    <2>1. k > 0 /\ rhat + k * v1 >= B => q - k <= qs
        BY <1>3
    <2>2. TooLarge(k) <=> q - k > qs
        BY <1>5
    <2> HIDE DEF TooLarge
    <2> QED
        BY <2>1, <2>2
<1> HIDE DEF Leaves
<1>14. qs < B /\ qs <= q /\ q <= qs + 2
    BY <1>3
<1>7. PICK n \in 0..2 : n = q - qs
    BY <1>14
<1>8. n \in 0..B /\ Leaves(n) /\ \A j \in 0..(n - 1) : ~Leaves(j)
    BY <1>6, <1>7, Bases
<1>9. \A k \in 0..B : Leaves(k) /\ (\A j \in 0..(k - 1) : ~Leaves(j)) => k = n
    BY <1>6, <1>7, <1>8, Bases
<1>10. rounds = n
    BY <1>8, <1>9
<1>11. d = <<q - n, n>>
    BY <1>4, <1>10 DEF CorrectDigit, Leaves
<1>12. d[1] = qs /\ d[2] = n
    BY <1>7, <1>11
<1>13. Remainder(un, next, v, d) = (un * B + next) % v
    <2>1. PICK X \in Nat : X = un * B + next
        <3>1. un * B \in Nat
            BY Bases
        <3> QED
            BY <3>1
    <2>2. v \in Nat \ {0} /\ v < M
        BY Bases DEF Word
    <2>6. qs = X \div v
        BY <1>3, <2>1
    <2>3. PICK r \in Nat : r = X % v /\ X = v * qs + r /\ r < v
        <3>1. X % v \in Nat /\ X = v * (X \div v) + (X % v) /\ X % v < v
            BY <2>2, DivideBy
        <3>2. X = v * qs + (X % v)
            BY <2>6, <3>1, Zenon
        <3> QED
            BY <3>1, <3>2, Zenon
    <2>4. X - qs * v = r
        <3>1. qs * v = v * qs /\ v * qs \in Int
            BY <2>2
        <3> QED
            BY <2>3, <3>1
    <2>5. r % M = r
        BY <2>2, <2>3, Bases
    <2>7. Remainder(un, next, v, d) = (X - qs * v) % M
        <3>1. Remainder(un, next, v, d) = (un * B + next - d[1] * v) % M
            BY DEF Remainder
        <3>2. d[1] * v = qs * v
            BY <1>12
        <3>3. un * B + next - d[1] * v = X - qs * v
            <4>1. PICK x \in Int, y \in Int : x = un * B /\ y = qs * v
                BY <2>2, Bases
            <4>2. X = x + next /\ d[1] * v = y
                BY <2>1, <3>2, <4>1, Zenon
            <4>3. x + next - y = X - y
                BY <4>2
            <4> QED
                BY <4>1, <4>2, <4>3, Zenon
        <3> QED
            BY <3>1, <3>3, Zenon
    <2> QED
        BY <2>1, <2>3, <2>4, <2>5, <2>7
<1> QED
    BY <1>3, <1>7, <1>12, <1>13, <1>14

\* Two digits make the quotient of two words by a normalized one.
LEMMA DivNormalizedIs ==
    \A v, u1, u0 \in Word :
        Normal(v) /\ u1 < v
        => LET d == DivNormalized(u1, u0, v)
           IN /\ d.q = (u1 * M + u0) \div v /\ d.r = (u1 * M + u0) % v
              /\ d.steps \in 0..2 /\ d.q \in Word
<1> SUFFICES ASSUME NEW v \in Word, NEW u1 \in Word, NEW u0 \in Word, Normal(v), u1 < v,
                    NEW d, d = DivNormalized(u1, u0, v)
             PROVE  /\ d.q = (u1 * M + u0) \div v /\ d.r = (u1 * M + u0) % v
                    /\ d.steps \in 0..2 /\ d.q \in Word
    OBVIOUS
<1>1. u1 \in Nat /\ u0 \in Nat /\ v \in Nat \ {0} /\ v < M
    BY Bases DEF Word
<1>2. PICK n1 \in Nat, n0 \in Nat :
        n1 = u0 \div B /\ n0 = u0 % B /\ n1 < B /\ n0 < B /\ u0 = n1 * B + n0
    BY WordHalves
<1>3. PICK d1 : d1 = QuotientDigit(u1, n1, v)
    OBVIOUS
<1>4. PICK X1 \in Nat : X1 = u1 * B + n1
    <2>1. u1 * B \in Nat
        BY <1>1, Bases
    <2> QED
        BY <2>1
<1>5. /\ d1[1] = X1 \div v /\ d1[1] \in Nat /\ d1[1] < B /\ d1[2] \in 0..2
      /\ Remainder(u1, n1, v, d1) = X1 % v
    BY <1>1, <1>2, <1>3, <1>4, QuotientDigitIs
<1>6. PICK q1 \in Nat, r1 \in Nat : q1 = d1[1] /\ q1 < B /\ r1 = X1 % v /\ r1 < v /\ X1 = v * q1 + r1
    BY <1>1, <1>5, DivideBy
<1>7. PICK d0 : d0 = QuotientDigit(r1, n0, v)
    OBVIOUS
<1>8. PICK X0 \in Nat : X0 = r1 * B + n0
    <2>1. r1 * B \in Nat
        BY Bases
    <2> QED
        BY <2>1
<1>9. /\ d0[1] = X0 \div v /\ d0[1] \in Nat /\ d0[1] < B /\ d0[2] \in 0..2
      /\ Remainder(r1, n0, v, d0) = X0 % v
    BY <1>2, <1>6, <1>7, <1>8, QuotientDigitIs, ZenonT(60)
<1>10. PICK q0 \in Nat, r0 \in Nat : q0 = d0[1] /\ q0 < B /\ r0 = X0 % v /\ r0 < v /\ X0 = v * q0 + r0
    BY <1>1, <1>9, DivideBy
<1>11. d = TwoDigits(r1, n0, v, d1, d0)
    BY <1>2, <1>3, <1>5, <1>6, <1>7 DEF DivNormalized, FirstDigit, SecondDigit
<1>12. /\ d.q = q1 * B + q0 /\ d.r = r0
       /\ d.steps = IF d1[2] > d0[2] THEN d1[2] ELSE d0[2]
    BY <1>6, <1>9, <1>10, <1>11 DEF TwoDigits
<1>13. PICK X \in Nat : X = u1 * M + u0
    <2>1. u1 * M \in Nat
        BY <1>1, Bases
    <2> QED
        BY <1>1, <2>1
<1>14. X = v * (q1 * B + q0) + r0
    <2>1. X = X1 * B + n0
        <3>1. u1 * M = (u1 * B) * B
            BY <1>1, Bases
        <3>2. (u1 * B + n1) * B = (u1 * B) * B + n1 * B
            BY <1>1, Bases
        <3>3. PICK x \in Int, y \in Int : x = (u1 * B) * B /\ y = n1 * B
            BY <1>1, Bases
        <3>4. u0 = y + n0
            BY <1>2, <3>3
        <3>5. X = x + u0
            BY <1>13, <3>1, <3>3, Zenon
        <3>6. X1 * B = x + y
            BY <1>4, <3>2, <3>3, Zenon
        <3> QED
            BY <3>3, <3>4, <3>5, <3>6
    <2>2. X1 * B = (v * q1) * B + r1 * B
        BY <1>1, <1>6, Bases
    <2>3. v * (q1 * B + q0) = (v * q1) * B + v * q0
        BY <1>1, Bases
    <2>4. PICK x \in Int, y \in Int, z \in Int : x = (v * q1) * B /\ y = r1 * B /\ z = v * q0
        BY <1>1, Bases
    <2> QED
        BY <1>8, <1>10, <2>1, <2>2, <2>3, <2>4
<1>15. PICK q \in Nat : q = q1 * B + q0
    <2>1. q1 * B \in Nat
        BY Bases
    <2> QED
        BY <2>1
<1>16. X \div v = q /\ X % v = r0
    <2>2. X \in Int /\ q \in Int /\ r0 \in Int /\ 0 <= r0 /\ r0 < v
        BY <1>10
    <2>3. X = v * q + r0
        BY <1>14, <1>15, Zenon
    <2>1. X \in Int /\ q \in Int /\ r0 \in Int /\ X = v * q + r0 /\ 0 <= r0 /\ r0 < v
        BY <2>2, <2>3, Zenon
    <2> QED
        BY <1>1, <2>1, DivideUnique
<1>17. q < M
    <2>1. B * q1 + B <= B * B
        BY <1>6, Bases, TimesAbove
    <2>2. B * q1 = q1 * B /\ q1 * B \in Int
        BY Bases
    <2> QED
        BY <1>10, <1>15, <2>1, <2>2, Bases
<1>18. d.steps \in 0..2
    BY <1>5, <1>9, <1>12
<1>19. q \in Word
    BY <1>17, Bases DEF Word
<1> QED
    BY <1>12, <1>13, <1>15, <1>16, <1>18, <1>19

\* Multiplying dividend and divisor by one factor keeps the quotient.
LEMMA ScaledDivision ==
    \A a \in Nat, w, p \in Nat \ {0} :
        (a * p) \div (w * p) = a \div w /\ (a * p) % (w * p) = (a % w) * p
<1> SUFFICES ASSUME NEW a \in Nat, NEW w \in Nat \ {0}, NEW p \in Nat \ {0}
             PROVE  (a * p) \div (w * p) = a \div w /\ (a * p) % (w * p) = (a % w) * p
    OBVIOUS
<1>1. PICK q \in Nat, r \in Nat : q = a \div w /\ r = a % w /\ a = w * q + r /\ r < w
    BY DivideBy
<1>2. a * p = (w * p) * q + r * p
    <2>1. (w * q + r) * p = (w * p) * q + r * p
        OBVIOUS
    <2> QED
        BY <1>1, <2>1, Zenon
<1>3. p * r + p <= p * w
    BY <1>1, TimesAbove
<1>4. r * p < w * p
    <2>1. p * r = r * p /\ p * w = w * p /\ r * p \in Int /\ w * p \in Int
        OBVIOUS
    <2> QED
        BY <1>3, <2>1
<1>5. a * p \in Int /\ r * p \in Int /\ 0 <= r * p /\ w * p \in Nat \ {0}
    OBVIOUS
<1>6. PICK A \in Int, V \in Nat \ {0}, R \in Int : A = a * p /\ V = w * p /\ R = r * p
    BY <1>5
<1>7. A = V * q + R /\ 0 <= R /\ R < V
    <2>1. A = V * q + R
        BY <1>2, <1>6, Zenon
    <2> QED
        BY <1>4, <1>5, <1>6, <2>1
<1>8. A \div V = q /\ A % V = R
    <2>1. A \in Int /\ q \in Int /\ R \in Int /\ V \in Nat \ {0}
        OBVIOUS
    <2> QED
        BY <1>7, <2>1, DivideUnique, Zenon
<1> QED
    BY <1>1, <1>6, <1>8, Zenon

LEMMA WordDivision ==
    \A a1, a0, w \in Word, p \in Nat \ {0} :
        a1 < w /\ w * p \in Word /\ Normal(w * p)
        => LET d == DivNormalized(((a1 * p) % M) + (a0 * p) \div M, (a0 * p) % M, w * p)
           IN /\ d.q = (a1 * M + a0) \div w
              /\ d.r \div p = (a1 * M + a0) % w
              /\ d.steps \in 0..2
<1> SUFFICES ASSUME NEW a1 \in Word, NEW a0 \in Word, NEW w \in Word, NEW p \in Nat \ {0},
                    a1 < w, w * p \in Word, Normal(w * p),
                    NEW u1, u1 = ((a1 * p) % M) + (a0 * p) \div M,
                    NEW u0, u0 = (a0 * p) % M,
                    NEW d, d = DivNormalized(u1, u0, w * p)
             PROVE  /\ d.q = (a1 * M + a0) \div w
                    /\ d.r \div p = (a1 * M + a0) % w
                    /\ d.steps \in 0..2
    OBVIOUS
<1>1. /\ a1 \in Nat /\ a0 \in Nat /\ w \in Nat \ {0} /\ a0 < M
      /\ w * p \in Nat \ {0} /\ w * p < M
    BY Bases DEF Word
<1>2. p * a1 + p <= p * w /\ p * a0 + p <= p * M
    BY <1>1, Bases, TimesAbove
<1>3. PICK x \in Nat, y \in Nat, v \in Nat \ {0} :
        x = a1 * p /\ y = a0 * p /\ v = w * p /\ x + p <= v /\ v < M
    <2>1. a1 * p \in Nat /\ a0 * p \in Nat /\ p * a1 = a1 * p /\ p * w = w * p
        BY <1>1
    <2> QED
        BY <1>1, <1>2, <2>1
<1>4. PICK c \in Nat : c = y \div M /\ u0 \in Nat /\ u0 < M /\ y = M * c + u0
    <2>1. u0 = y % M
        BY <1>3
    <2>2. /\ y \div M \in Nat /\ y % M \in Nat
          /\ y = M * (y \div M) + (y % M) /\ y % M < M
        <3>1. y \in Int /\ y \in Nat /\ M \in Nat \ {0}
            BY Bases
        <3> QED
            BY <3>1, DivideBy, Zenon
    <2> QED
        BY <2>1, <2>2, Zenon
<1>5. c < p
    <2> SUFFICES ASSUME p <= c PROVE FALSE
        OBVIOUS
    <2>1. M * p <= M * c
        BY Bases, TimesUp
    <2>2. y + p <= M * p
        <3>1. p * a0 = a0 * p /\ p * M = M * p
            BY <1>1, Bases
        <3> QED
            BY <1>2, <1>3, <3>1
    <2>3. M * p \in Int /\ M * c \in Int
        BY Bases
    <2> QED
        BY <1>4, <2>1, <2>2, <2>3
<1>6. u1 = x + c
    <2>1. x % M = x
        BY <1>3, Bases, Below
    <2> QED
        BY <1>3, <1>4, <2>1
<1>7. u1 \in Word /\ u0 \in Word /\ v \in Word /\ u1 < v /\ Normal(v)
    <2>1. u1 \in Nat /\ u1 < v
        BY <1>3, <1>5, <1>6
    <2> QED
        BY <1>3, <1>4, <2>1, Bases DEF Word
<1>8. PICK a \in Nat : a = a1 * M + a0
    <2>1. a1 * M \in Nat
        BY <1>1, Bases
    <2> QED
        BY <1>1, <2>1
<1>9. u1 * M + u0 = a * p
    <2>1. u1 * M = x * M + c * M
        BY <1>6, Bases
    <2>2. a * p = (a1 * p) * M + a0 * p
        BY <1>1, <1>8, Bases
    <2>3. c * M = M * c
        BY Bases
    <2>4. PICK e \in Int, f \in Int : e = x * M /\ f = M * c
        BY Bases
    <2> QED
        BY <1>3, <1>4, <2>1, <2>2, <2>3, <2>4
<1>10. d.q = (a * p) \div v /\ d.r = (a * p) % v /\ d.steps \in 0..2
    <2>1. d = DivNormalized(u1, u0, v)
        BY <1>3
    <2> QED
        BY <1>7, <1>9, <2>1, DivNormalizedIs
<1>11. d.q = a \div w /\ d.r = (a % w) * p
    BY <1>1, <1>3, <1>10, ScaledDivision, ZenonT(60)
<1>12. d.r \div p = a % w
    <2>4. a % w \in Nat
        BY <1>1, <1>8, DivideBy
    <2>1. PICK r \in Nat : r = a % w
        BY <2>4
    <2>2. r * p \in Int /\ r \in Int /\ 0 \in Int /\ r * p = p * r + 0 /\ 0 < p
        OBVIOUS
    <2>3. (r * p) \div p = r
        BY <2>2, DivideUnique
    <2> QED
        BY <1>11, <2>1, <2>3
<1> QED
    BY <1>8, <1>10, <1>11, <1>12

\* udiv256_by_128_to_128 of divmod.rs, and udivmod4 for a divisor w of one word,
\* are exact, with at most two corrections of each digit: p = 2^s is the shift
\* that sets the top bit of the divisor, and the sum of two shifted words that
\* have no bit in common is the code's `|`.
THEOREM WordDivisionIsExact ==
    \A a \in Pattern, w \in Word, p \in Nat \ {0} :
        w # 0 /\ w * p \in Word /\ Normal(w * p)
        => LET a1 == High(a) % w
               a0 == Low(a)
               d == DivNormalized(((a1 * p) % M) + (a0 * p) \div M, (a0 * p) % M, w * p)
           IN /\ FromWords(High(a) \div w, d.q) = a \div w
              /\ d.r \div p = a % w
              /\ d.steps \in 0..2
<1> SUFFICES ASSUME NEW a \in Pattern, NEW w \in Word, NEW p \in Nat \ {0},
                    w # 0, w * p \in Word, Normal(w * p),
                    NEW a1, a1 = High(a) % w,
                    NEW a0, a0 = Low(a),
                    NEW d, d = DivNormalized(((a1 * p) % M) + (a0 * p) \div M, (a0 * p) % M, w * p)
             PROVE  /\ FromWords(High(a) \div w, d.q) = a \div w
                    /\ d.r \div p = a % w
                    /\ d.steps \in 0..2
    OBVIOUS
<1>1. PICK ah \in Word : ah = High(a) /\ a0 \in Word /\ a = ah * M + a0
    BY PatternWords
<1>2. ah \in Nat /\ ah < M /\ a0 \in Nat /\ w \in Nat \ {0} /\ w < M
    BY <1>1, Bases DEF Word
<1>3. PICK h \in Nat, m \in Nat : h = ah \div w /\ m = ah % w /\ ah = w * h + m /\ m < w
    <2>1. ah \in Int /\ w \in Nat \ {0}
        BY <1>2
    <2>2. ah \div w \in Int /\ ah % w \in Nat /\ ah = w * (ah \div w) + (ah % w) /\ ah % w < w
          /\ (ah \in Nat => ah \div w \in Nat)
        BY <2>1, DivideBy, Zenon
    <2> QED
        BY <1>2, <2>2, Zenon
<1>4. a1 = m /\ a1 \in Word
    <2>1. a1 = m
        BY <1>1, <1>3, Zenon
    <2>2. m < M
        BY <1>2, <1>3, Bases
    <2> QED
        BY <2>1, <2>2, Bases DEF Word
<1>5. PICK X \in Nat : X = a1 * M + a0
    <2>1. a1 * M \in Nat
        BY <1>3, <1>4, Bases
    <2> QED
        BY <1>2, <2>1
<1>6. d.q = X \div w /\ d.r \div p = X % w /\ d.steps \in 0..2
    <2>1. a1 < w
        BY <1>3, <1>4
    <2>2. /\ d.q = (a1 * M + a0) \div w /\ d.r \div p = (a1 * M + a0) % w
          /\ d.steps \in 0..2
        BY <1>1, <1>4, <2>1, WordDivision
    <2> QED
        BY <1>5, <2>2, Zenon
<1>7. PICK q \in Nat, r \in Nat : q = X \div w /\ r = X % w /\ X = w * q + r /\ r < w
    <2>1. X \in Int /\ w \in Nat \ {0}
        BY <1>2
    <2>2. X \div w \in Int /\ X % w \in Nat /\ X = w * (X \div w) + (X % w) /\ X % w < w
          /\ (X \in Nat => X \div w \in Nat)
        BY <2>1, DivideBy, Zenon
    <2> QED
        BY <2>2, Zenon
<1>8. PICK k \in Nat : k = h * M + q
    <2>1. h * M \in Nat
        BY Bases
    <2> QED
        BY <2>1
<1>9. a = w * k + r
    <2>1. (w * h + m) * M + a0 = w * (h * M) + (m * M + a0)
        BY <1>2, Bases
    <2>2. a = w * (h * M) + X
        BY <1>1, <1>3, <1>4, <1>5, <2>1, Zenon
    <2>3. w * (h * M) + (w * q + r) = w * (h * M + q) + r
        BY <1>2, Bases
    <2> QED
        BY <1>7, <1>8, <2>2, <2>3, Zenon
<1>10. a \div w = k /\ a % w = r
    <2>1. a \in Int /\ k \in Int /\ r \in Int /\ w \in Nat \ {0}
        BY <1>2 DEF Pattern
    <2>2. 0 <= r /\ r < w
        BY <1>7
    <2> QED
        BY <1>9, <2>1, <2>2, DivideUnique
<1>11. FromWords(High(a) \div w, d.q) = k
    BY <1>1, <1>3, <1>6, <1>7, <1>8, Zenon DEF FromWords
<1> QED
    BY <1>6, <1>7, <1>10, <1>11, Zenon

-----------------------------------------------------------------------------
(* Sums and differences *)

LEMMA ModPlus ==
    \A x, y \in Int, d \in Nat \ {0} : ((x % d) + y) % d = (x + y) % d
<1> SUFFICES ASSUME NEW x \in Int, NEW y \in Int, NEW d \in Nat \ {0}
             PROVE  ((x % d) + y) % d = (x + y) % d
    OBVIOUS
<1>1. PICK q \in Int, r \in Nat : q = x \div d /\ r = x % d /\ x = d * q + r /\ r < d
    BY DivideBy
<1>2. PICK z \in Int : z = r + y
    OBVIOUS
<1>3. PICK p \in Int, s \in Nat : p = z \div d /\ s = z % d /\ z = d * p + s /\ s < d
    BY DivideBy
<1>4. x + y = d * (q + p) + s
    <2>1. d * (q + p) = d * q + d * p /\ d * q \in Int /\ d * p \in Int
        OBVIOUS
    <2> QED
        BY <1>1, <1>2, <1>3, <2>1
<1>5. PICK m \in Int, w \in Int : m = q + p /\ w = x + y
    OBVIOUS
<1>6. w = d * m + s /\ 0 <= s
    BY <1>4, <1>5
<1>7. w % d = s
    <2>1. w \in Int /\ m \in Int /\ s \in Int /\ d \in Nat \ {0}
        OBVIOUS
    <2>2. w = d * m + s /\ 0 <= s /\ s < d
        BY <1>3, <1>6
    <2> QED
        BY <2>1, <2>2, DivideUnique
<1> QED
    BY <1>1, <1>2, <1>3, <1>5, <1>7

\* A number whose high word is out of range, cut to its width.
LEMMA PairModulo ==
    \A h \in Int, l \in Word :
        /\ (h * M + l) % N = FromWords(h % M, l)
        /\ h * M + l < 0 <=> h < 0
        /\ h * M + l >= N <=> h >= M
<1> SUFFICES ASSUME NEW h \in Int, NEW l \in Word
             PROVE  /\ (h * M + l) % N = FromWords(h % M, l)
                    /\ h * M + l < 0 <=> h < 0
                    /\ h * M + l >= N <=> h >= M
    OBVIOUS
<1>1. l \in Nat /\ l < M
    BY Bases DEF Word
<1>2. PICK q \in Int, r \in Nat : q = h \div M /\ r = h % M /\ h = M * q + r /\ r < M
    BY Bases, DivideBy
<1>3. PICK x \in Int : x = h * M + l
    <2>1. h * M \in Int
        BY Bases
    <2> QED
        BY <1>1, <2>1
<1>4. PICK s \in Nat : s = r * M + l
    <2>1. r * M \in Nat
        BY Bases
    <2> QED
        BY <1>1, <2>1
<1>5. x = N * q + s
    <2>1. h * M = N * q + r * M
        <3>1. (M * q + r) * M = (M * M) * q + r * M
            BY Bases
        <3> QED
            BY <1>2, <3>1, Bases, Zenon
    <2>2. N * q \in Int /\ r * M \in Int
        BY Bases
    <2> QED
        BY <1>1, <1>3, <1>4, <2>1, <2>2
<1>6. s < N
    <2>1. M * r + M <= M * M
        BY <1>2, Bases, TimesAbove
    <2>2. M * r = r * M /\ r * M \in Int
        BY Bases
    <2> QED
        BY <1>1, <1>4, <2>1, <2>2, Bases
<1>7. x % N = s
    <2>1. x \in Int /\ q \in Int /\ s \in Int /\ N \in Nat \ {0} /\ 0 <= s
        BY Bases
    <2> QED
        BY <1>5, <1>6, <2>1, DivideUnique, Zenon
<1>8. x % N = FromWords(r, l)
    BY <1>4, <1>7 DEF FromWords
<1>9. x < 0 <=> h < 0
    <2>1. CASE h < 0
        <3>1. M * h + M <= M * 0
            BY <2>1, Bases, TimesAbove
        <3>2. M * h = h * M /\ M * 0 = 0 /\ h * M \in Int
            BY Bases
        <3> QED
            BY <1>1, <1>3, <2>1, <3>1, <3>2, Bases
    <2>2. CASE h >= 0
        <3>1. h * M >= 0
            BY <2>2, Bases
        <3> QED
            BY <1>1, <1>3, <2>2, <3>1, Bases
    <2> QED
        BY <2>1, <2>2
<1>10. x >= N <=> h >= M
    <2>1. CASE h < M
        <3>1. M * h + M <= M * M
            BY <2>1, Bases, TimesAbove
        <3>2. M * h = h * M /\ h * M \in Int
            BY Bases
        <3> QED
            BY <1>1, <1>3, <2>1, <3>1, <3>2, Bases
    <2>2. CASE h >= M
        <3>1. M * M <= M * h
            BY <2>2, Bases, TimesUp
        <3>2. M * h = h * M /\ h * M \in Int
            BY Bases
        <3> QED
            BY <1>1, <1>3, <2>2, <3>1, <3>2, Bases
    <2> QED
        BY <2>1, <2>2, Bases
<1> QED
    BY <1>2, <1>3, <1>8, <1>9, <1>10

LEMMA WordSums ==
    \A a, b \in Word :
        /\ WAdd(a, b) \in Word /\ WAdd(a, b) = IF a + b >= M THEN a + b - M ELSE a + b
        /\ WSub(a, b) \in Word /\ WSub(a, b) = IF a < b THEN a - b + M ELSE a - b
<1> SUFFICES ASSUME NEW a \in Word, NEW b \in Word
             PROVE  /\ WAdd(a, b) \in Word /\ WAdd(a, b) = IF a + b >= M THEN a + b - M ELSE a + b
                    /\ WSub(a, b) \in Word /\ WSub(a, b) = IF a < b THEN a - b + M ELSE a - b
    OBVIOUS
<1>1. a \in Nat /\ a < M /\ b \in Nat /\ b < M /\ M \in Nat \ {0}
    BY Bases DEF Word
<1>2. \A x, k \in Int : 0 <= x - k * M /\ x - k * M < M => x % M = x - k * M
    <2> SUFFICES ASSUME NEW x \in Int, NEW k \in Int, 0 <= x - k * M, x - k * M < M
                 PROVE  x % M = x - k * M
        OBVIOUS
    <2>1. PICK r \in Int : r = x - k * M /\ 0 <= r /\ r < M
        <3>1. k * M \in Int
            BY <1>1
        <3> QED
            BY <3>1
    <2>2. x = M * k + r
        <3>1. k * M = M * k /\ k * M \in Int
            BY <1>1
        <3> QED
            BY <2>1, <3>1
    <2>3. x \in Int /\ k \in Int /\ r \in Int /\ M \in Nat \ {0}
        BY <1>1
    <2>4. 0 <= r /\ r < M
        BY <2>1
    <2>5. x % M = r
        BY <2>2, <2>3, <2>4, DivideUnique
    <2> QED
        BY <2>1, <2>5
<1>3. WAdd(a, b) = IF a + b >= M THEN a + b - M ELSE a + b
    <2>1. PICK x \in Int : x = a + b /\ 0 <= x /\ x < 2 * M
        BY <1>1
    <2>2. PICK k \in Int : k = IF x >= M THEN 1 ELSE 0
        OBVIOUS
    <2>3. k * M = IF x >= M THEN M ELSE 0
        BY <1>1, <2>2
    <2>4. x % M = x - k * M
        BY <1>1, <1>2, <2>1, <2>3
    <2> QED
        BY <1>1, <2>1, <2>3, <2>4 DEF WAdd
<1>4. WSub(a, b) = IF a < b THEN a - b + M ELSE a - b
    <2>1. PICK x \in Int : x = a - b /\ -M < x /\ x < M
        BY <1>1
    <2>2. PICK k \in Int : k = IF x < 0 THEN -1 ELSE 0
        OBVIOUS
    <2>3. k * M = IF x < 0 THEN -M ELSE 0
        BY <1>1, <2>2
    <2>4. x % M = x - k * M
        BY <1>1, <1>2, <2>1, <2>3
    <2> QED
        BY <1>1, <2>1, <2>3, <2>4 DEF WSub
<1> QED
    BY <1>1, <1>3, <1>4 DEF Word

\* The high words take the carry of the low ones; an addition of U256 overflows
\* at most once.
LEMMA SumOfWords ==
    \A a, b \in Pattern : \A c, hi, h, l :
        /\ c = Carry(Low(a), Low(b)) /\ hi = WAdd(High(a), c)
        /\ h = High(a) + High(b) + c /\ l = WAdd(Low(a), Low(b))
        => /\ a + b = h * M + l /\ h \in Nat /\ l \in Word
           /\ WAdd(hi, High(b)) = h % M
           /\ Carry(High(a), c) = 1 \/ Carry(hi, High(b)) = 1 <=> h >= M
<1> SUFFICES ASSUME NEW a \in Pattern, NEW b \in Pattern,
                    NEW c, c = Carry(Low(a), Low(b)),
                    NEW hi, hi = WAdd(High(a), c),
                    NEW h, h = High(a) + High(b) + c,
                    NEW l, l = WAdd(Low(a), Low(b))
             PROVE  /\ a + b = h * M + l /\ h \in Nat /\ l \in Word
                    /\ WAdd(hi, High(b)) = h % M
                    /\ Carry(High(a), c) = 1 \/ Carry(hi, High(b)) = 1 <=> h >= M
    OBVIOUS
<1>1. PICK ah \in Word, al \in Word : ah = High(a) /\ al = Low(a) /\ a = ah * M + al
    BY PatternWords
<1>2. PICK bh \in Word, bl \in Word : bh = High(b) /\ bl = Low(b) /\ b = bh * M + bl
    BY PatternWords
<1>3. /\ ah \in Nat /\ al \in Nat /\ bh \in Nat /\ bl \in Nat /\ M \in Nat /\ M >= 2
      /\ ah < M /\ al < M /\ bh < M /\ bl < M
    <2>1. M >= 2
        BY Bases
    <2> QED
        BY <2>1, Bases DEF Word
<1>4. c \in {0, 1} /\ (c = 1 <=> al + bl >= M)
    BY <1>1, <1>2 DEF Carry
<1>5. l \in Word /\ l = IF c = 1 THEN al + bl - M ELSE al + bl
    BY <1>1, <1>2, <1>4, WordSums
<1>6. c \in Word
    BY <1>3, <1>4 DEF Word
<1>7. h \in Nat /\ h = ah + bh + c
    BY <1>1, <1>2, <1>3, <1>4
<1>8. hi \in Word /\ hi = IF ah + c >= M THEN ah + c - M ELSE ah + c
    BY <1>1, <1>6, WordSums
<1>9. a + b = h * M + l
    <2>1. h * M = ah * M + bh * M + c * M
        BY <1>3, <1>4, <1>7
    <2>2. c * M = IF c = 1 THEN M ELSE 0
        BY <1>3, <1>4
    <2>3. PICK x \in Int, y \in Int, z \in Int : x = ah * M /\ y = bh * M /\ z = c * M
        BY <1>3, <1>4
    <2>4. l + z = al + bl
        BY <1>3, <1>4, <1>5, <2>2, <2>3
    <2>6. l \in Int
        BY <1>5, Bases DEF Word
    <2>5. a = x + al /\ b = y + bl /\ h * M = x + y + z
        BY <1>1, <1>2, <2>1, <2>3
    <2> QED
        BY <1>3, <2>3, <2>4, <2>5, <2>6
<1>10. WAdd(hi, bh) = h % M
    <2>1. ah + c \in Int /\ bh \in Int /\ M \in Nat \ {0} /\ (ah + c) + bh = h
        BY <1>3, <1>4, <1>7
    <2>2. (((ah + c) % M) + bh) % M = ((ah + c) + bh) % M
        BY <2>1, ModPlus
    <2>3. hi = (ah + c) % M
        BY <1>1 DEF WAdd
    <2> QED
        BY <2>1, <2>2, <2>3 DEF WAdd
<1>11. Carry(ah, c) = 1 \/ Carry(hi, bh) = 1 <=> h >= M
    <2>1. Carry(ah, c) = 1 <=> ah + c >= M
        BY DEF Carry
    <2>2. Carry(hi, bh) = 1 <=> hi + bh >= M
        BY DEF Carry
    <2>3. hi \in Nat /\ hi < M
        BY <1>3, <1>8 DEF Word
    <2> QED
        BY <1>3, <1>4, <1>7, <1>8, <2>1, <2>2, <2>3
<1> QED
    BY <1>1, <1>2, <1>5, <1>7, <1>9, <1>10, <1>11

LEMMA DifferenceOfWords ==
    \A a, b \in Pattern : \A c, hi, h, l :
        /\ c = Borrow(Low(a), Low(b)) /\ hi = WSub(High(a), c)
        /\ h = High(a) - High(b) - c /\ l = WSub(Low(a), Low(b))
        => /\ a - b = h * M + l /\ h \in Int /\ l \in Word
           /\ WSub(hi, High(b)) = h % M
           /\ Borrow(High(a), c) = 1 \/ Borrow(hi, High(b)) = 1 <=> h < 0
<1> SUFFICES ASSUME NEW a \in Pattern, NEW b \in Pattern,
                    NEW c, c = Borrow(Low(a), Low(b)),
                    NEW hi, hi = WSub(High(a), c),
                    NEW h, h = High(a) - High(b) - c,
                    NEW l, l = WSub(Low(a), Low(b))
             PROVE  /\ a - b = h * M + l /\ h \in Int /\ l \in Word
                    /\ WSub(hi, High(b)) = h % M
                    /\ Borrow(High(a), c) = 1 \/ Borrow(hi, High(b)) = 1 <=> h < 0
    OBVIOUS
<1>1. PICK ah \in Word, al \in Word : ah = High(a) /\ al = Low(a) /\ a = ah * M + al
    BY PatternWords
<1>2. PICK bh \in Word, bl \in Word : bh = High(b) /\ bl = Low(b) /\ b = bh * M + bl
    BY PatternWords
<1>3. /\ ah \in Nat /\ al \in Nat /\ bh \in Nat /\ bl \in Nat /\ M \in Nat /\ M >= 2
      /\ ah < M /\ al < M /\ bh < M /\ bl < M
    <2>1. M >= 2
        BY Bases
    <2> QED
        BY <2>1, Bases DEF Word
<1>4. c \in {0, 1} /\ (c = 1 <=> al < bl)
    BY <1>1, <1>2 DEF Borrow
<1>5. l \in Word /\ l = IF c = 1 THEN al - bl + M ELSE al - bl
    BY <1>1, <1>2, <1>4, WordSums
<1>6. c \in Word
    BY <1>3, <1>4 DEF Word
<1>7. h \in Int /\ h = ah - bh - c
    BY <1>1, <1>2, <1>3, <1>4
<1>8. hi \in Word /\ hi = IF ah < c THEN ah - c + M ELSE ah - c
    BY <1>1, <1>6, WordSums
<1>9. a - b = h * M + l
    <2>1. h * M = ah * M - bh * M - c * M
        BY <1>3, <1>4, <1>7
    <2>2. c * M = IF c = 1 THEN M ELSE 0
        BY <1>3, <1>4
    <2>3. PICK x \in Int, y \in Int, z \in Int : x = ah * M /\ y = bh * M /\ z = c * M
        BY <1>3, <1>4
    <2>4. l - z = al - bl
        BY <1>3, <1>4, <1>5, <2>2, <2>3
    <2>6. l \in Int
        BY <1>5, Bases DEF Word
    <2>5. a = x + al /\ b = y + bl /\ h * M = x - y - z
        BY <1>1, <1>2, <2>1, <2>3
    <2> QED
        BY <1>3, <2>3, <2>4, <2>5, <2>6
<1>10. WSub(hi, bh) = h % M
    <2>1. PICK m \in Int : m = -bh
        BY <1>3
    <2>2. ah - c \in Int /\ M \in Nat \ {0} /\ (ah - c) + m = h
        BY <1>3, <1>4, <1>7, <2>1
    <2>3. (((ah - c) % M) + m) % M = ((ah - c) + m) % M
        BY <2>2, ModPlus
    <2>4. hi = (ah - c) % M
        BY <1>1 DEF WSub
    <2>5. hi - bh = hi + m
        BY <1>3, <1>8, <2>1 DEF Word
    <2> QED
        BY <2>2, <2>3, <2>4, <2>5 DEF WSub
<1>11. Borrow(ah, c) = 1 \/ Borrow(hi, bh) = 1 <=> h < 0
    <2>1. Borrow(ah, c) = 1 <=> ah < c
        BY DEF Borrow
    <2>2. Borrow(hi, bh) = 1 <=> hi < bh
        BY DEF Borrow
    <2>3. hi \in Nat /\ hi < M
        BY <1>3, <1>8 DEF Word
    <2> QED
        BY <1>3, <1>4, <1>7, <1>8, <2>1, <2>2, <2>3
<1> QED
    BY <1>1, <1>2, <1>5, <1>7, <1>9, <1>10, <1>11

\* Addition and subtraction of U256, and the wrapping ones of I256, are those of
\* the integers modulo N; the flags of U256 say that the result left its range.
THEOREM SumsAreExact ==
    \A a, b \in Pattern :
        /\ UAddC(a, b) = <<(a + b) % N, a + b >= N>> /\ Add3(a, b) = (a + b) % N
        /\ USubC(a, b) = <<(a - b) % N, a - b < 0>> /\ Sub3(a, b) = (a - b) % N
<1> SUFFICES ASSUME NEW a \in Pattern, NEW b \in Pattern
             PROVE  /\ UAddC(a, b) = <<(a + b) % N, a + b >= N>> /\ Add3(a, b) = (a + b) % N
                    /\ USubC(a, b) = <<(a - b) % N, a - b < 0>> /\ Sub3(a, b) = (a - b) % N
    OBVIOUS
<1>1. UAddC(a, b) = <<(a + b) % N, a + b >= N>> /\ Add3(a, b) = (a + b) % N
    <2> DEFINE c == Carry(Low(a), Low(b))
               hi == WAdd(High(a), c)
    <2>1. PICK h \in Nat, l \in Word :
            /\ a + b = h * M + l /\ l = WAdd(Low(a), Low(b))
            /\ WAdd(hi, High(b)) = h % M
            /\ Carry(High(a), c) = 1 \/ Carry(hi, High(b)) = 1 <=> h >= M
        BY SumOfWords
    <2>2. /\ (h * M + l) % N = FromWords(h % M, l)
          /\ h * M + l >= N <=> h >= M
        BY PairModulo
    <2>3. (a + b) % N = FromWords(h % M, l) /\ (a + b >= N <=> h >= M)
        BY <2>1, <2>2, Zenon
    <2>4. UAddC(a, b) = <<FromWords(h % M, l), Carry(High(a), c) = 1 \/ Carry(hi, High(b)) = 1>>
        BY <2>1, Zenon DEF UAddC
    <2>5. (Carry(High(a), c) = 1 \/ Carry(hi, High(b)) = 1) = (a + b >= N)
        BY <2>1, <2>3
    <2>6. Add3(a, b) = FromWords(h % M, l)
        BY <2>1, Zenon DEF Add3
    <2> QED
        BY <2>3, <2>4, <2>5, <2>6, Zenon
<1>2. USubC(a, b) = <<(a - b) % N, a - b < 0>> /\ Sub3(a, b) = (a - b) % N
    <2> DEFINE c == Borrow(Low(a), Low(b))
               hi == WSub(High(a), c)
    <2>1. PICK h \in Int, l \in Word :
            /\ a - b = h * M + l /\ l = WSub(Low(a), Low(b))
            /\ WSub(hi, High(b)) = h % M
            /\ Borrow(High(a), c) = 1 \/ Borrow(hi, High(b)) = 1 <=> h < 0
        BY DifferenceOfWords
    <2>2. /\ (h * M + l) % N = FromWords(h % M, l)
          /\ h * M + l < 0 <=> h < 0
        BY PairModulo
    <2>3. (a - b) % N = FromWords(h % M, l) /\ (a - b < 0 <=> h < 0)
        BY <2>1, <2>2, Zenon
    <2>4. USubC(a, b) = <<FromWords(h % M, l), Borrow(High(a), c) = 1 \/ Borrow(hi, High(b)) = 1>>
        BY <2>1, Zenon DEF USubC
    <2>5. (Borrow(High(a), c) = 1 \/ Borrow(hi, High(b)) = 1) = (a - b < 0)
        BY <2>1, <2>3
    <2>6. Sub3(a, b) = FromWords(h % M, l)
        BY <2>1, Zenon DEF Sub3
    <2> QED
        BY <2>3, <2>4, <2>5, <2>6, Zenon
<1> QED
    BY <1>1, <1>2

-----------------------------------------------------------------------------
(* Signed integers *)

LEMMA ModShift ==
    \A x \in Int, d \in Nat \ {0} : (x - d) % d = x % d /\ (x + d) % d = x % d
<1> SUFFICES ASSUME NEW x \in Int, NEW d \in Nat \ {0}
             PROVE  (x - d) % d = x % d /\ (x + d) % d = x % d
    OBVIOUS
<1>1. PICK q \in Int, r \in Nat : q = x \div d /\ r = x % d /\ x = d * q + r /\ r < d
    BY DivideBy
<1>2. \A y, p \in Int : y = d * p + r => y % d = r
    <2> SUFFICES ASSUME NEW y \in Int, NEW p \in Int, y = d * p + r PROVE y % d = r
        OBVIOUS
    <2>1. r \in Int /\ 0 <= r /\ r < d
        BY <1>1
    <2> QED
        BY <2>1, DivideUnique
<1>3. d * (q - 1) = d * q - d /\ d * (q + 1) = d * q + d /\ d * q \in Int
    OBVIOUS
<1>4. PICK y \in Int, p \in Int : y = x - d /\ p = q - 1
    OBVIOUS
<1>5. PICK z \in Int, m \in Int : z = x + d /\ m = q + 1
    OBVIOUS
<1>6. y = d * p + r /\ z = d * m + r
    BY <1>1, <1>3, <1>4, <1>5
<1>7. y % d = r /\ z % d = r
    BY <1>2, <1>6
<1> QED
    BY <1>1, <1>4, <1>5, <1>7

LEMMA SignBase == IMIN \in Nat \ {0} /\ N = 2 * IMIN /\ M \div 2 \in Nat /\ M = 2 * (M \div 2) /\ IMIN = (M \div 2) * M
<1>1. PICK b \in Nat : B = 2 * b
    <2>1. B \in Int /\ B \div 2 \in Int
        BY BaseAssumption
    <2>2. B = 2 * (B \div 2) /\ B \div 2 \in Nat
        BY BaseAssumption
    <2> QED
        BY <2>2
<1>2. PICK h \in Nat : h = b * B
    BY Bases
<1>3. M = 2 * h
    <2>1. B * B = (2 * b) * B
        BY <1>1
    <2>2. (2 * b) * B = 2 * (b * B)
        BY Bases
    <2> QED
        BY <1>2, <2>1, <2>2, Bases
<1>4. M \div 2 = h
    BY <1>3
<1>5. PICK n \in Nat : n = h * M
    BY Bases
<1>6. N = 2 * n
    <2>1. M * M = (2 * h) * M
        BY <1>3
    <2>2. (2 * h) * M = 2 * (h * M)
        BY Bases
    <2> QED
        BY <1>5, <2>1, <2>2, Bases
<1>7. IMIN = n
    BY <1>6 DEF IMIN
<1> QED
    BY <1>3, <1>4, <1>5, <1>6, <1>7, Bases

LEMMA SignedValue ==
    \A x \in Pattern :
        /\ AsSigned(x) \in Int /\ -IMIN <= AsSigned(x) /\ AsSigned(x) < IMIN
        /\ Signed(High(x)) \in Int
        /\ AsSigned(x) = Signed(High(x)) * M + Low(x)
<1> SUFFICES ASSUME NEW x \in Pattern
             PROVE  /\ AsSigned(x) \in Int /\ -IMIN <= AsSigned(x) /\ AsSigned(x) < IMIN
                    /\ Signed(High(x)) \in Int
                    /\ AsSigned(x) = Signed(High(x)) * M + Low(x)
    OBVIOUS
<1>1. PICK h \in Word, l \in Word : h = High(x) /\ l = Low(x) /\ x = h * M + l
    BY PatternWords
<1>2. h \in Nat /\ l \in Nat /\ h < M /\ l < M
    BY Bases DEF Word
<1>3. PICK m \in Nat : m = M \div 2 /\ M = 2 * m /\ IMIN = m * M
    BY SignBase
<1>4. x \in Nat /\ x < N
    BY Bases DEF Pattern
<1>5. x >= IMIN <=> h >= m
    <2>1. CASE h < m
        <3>1. M * h + M <= M * m
            BY <1>2, <2>1, Bases, TimesAbove
        <3>2. M * h = h * M /\ M * m = m * M /\ h * M \in Int /\ m * M \in Int
            BY <1>2, Bases
        <3> QED
            BY <1>1, <1>2, <1>3, <2>1, <3>1, <3>2, Bases
    <2>2. CASE h >= m
        <3>1. M * m <= M * h
            BY <1>2, <2>2, Bases, TimesUp
        <3>2. M * h = h * M /\ M * m = m * M /\ h * M \in Int /\ m * M \in Int
            BY <1>2, Bases
        <3> QED
            BY <1>1, <1>2, <1>3, <2>2, <3>1, <3>2, Bases
    <2> QED
        BY <1>2, <2>1, <2>2
<1>6. AsSigned(x) = IF h >= m THEN x - N ELSE x
    BY <1>5 DEF AsSigned
<1>7. Signed(h) = IF h >= m THEN h - M ELSE h
    BY <1>3 DEF Signed
<1>8. Signed(h) * M = IF h >= m THEN h * M - M * M ELSE h * M
    BY <1>2, <1>7, Bases
<1>9. h * M \in Int /\ M * M \in Int
    BY <1>2, Bases
<1>10. AsSigned(x) = Signed(h) * M + l
    BY <1>1, <1>2, <1>6, <1>8, <1>9, Bases
<1>11. AsSigned(x) \in Int /\ -IMIN <= AsSigned(x) /\ AsSigned(x) < IMIN
    BY <1>4, <1>5, <1>6, SignBase
<1>12. Signed(h) \in Int
    BY <1>2, <1>7, Bases
<1> QED
    BY <1>1, <1>10, <1>11, <1>12

\* Numbers compare by their words, signed or not.
LEMMA LexicographicOrder ==
    \A g, h \in Int : \A k, l \in Word :
        g * M + k < h * M + l <=> g < h \/ (g = h /\ k < l)
<1> SUFFICES ASSUME NEW g \in Int, NEW h \in Int, NEW k \in Word, NEW l \in Word
             PROVE  g * M + k < h * M + l <=> g < h \/ (g = h /\ k < l)
    OBVIOUS
<1>1. k \in Nat /\ l \in Nat /\ k < M /\ l < M
    BY Bases DEF Word
<1>2. PICK x \in Int, y \in Int : x = g * M /\ y = h * M
    BY Bases
<1>3. x = M * g /\ y = M * h
    BY <1>2, Bases
<1>4. g < h => x + M <= y
    BY <1>3, Bases, TimesAbove
<1>5. h < g => y + M <= x
    BY <1>3, Bases, TimesAbove
<1>6. g = h => x = y
    BY <1>2
<1>7. x + k < y + l <=> g < h \/ (g = h /\ k < l)
    BY <1>1, <1>4, <1>5, <1>6, Bases
<1> QED
    BY <1>2, <1>7

\* Ord of U256 and of I256 is the order of the numbers.
THEOREM OrdersAreExact ==
    \A a, b \in Pattern :
        /\ ULt(a, b) <=> a < b
        /\ ILt(a, b) <=> AsSigned(a) < AsSigned(b)
<1> SUFFICES ASSUME NEW a \in Pattern, NEW b \in Pattern
             PROVE  /\ ULt(a, b) <=> a < b
                    /\ ILt(a, b) <=> AsSigned(a) < AsSigned(b)
    OBVIOUS
<1>1. /\ High(a) \in Word /\ Low(a) \in Word /\ a = High(a) * M + Low(a)
      /\ High(b) \in Word /\ Low(b) \in Word /\ b = High(b) * M + Low(b)
    BY PatternWords
<1>2. High(a) \in Int /\ High(b) \in Int
    BY <1>1, Bases DEF Word
<1>3. ULt(a, b) <=> a < b
    <2>1. High(a) * M + Low(a) < High(b) * M + Low(b)
          <=> High(a) < High(b) \/ (High(a) = High(b) /\ Low(a) < Low(b))
        BY <1>1, <1>2, LexicographicOrder, Zenon
    <2> QED
        BY <1>1, <2>1, Zenon DEF ULt
<1>4. ILt(a, b) <=> AsSigned(a) < AsSigned(b)
    <2>1. /\ Signed(High(a)) \in Int /\ AsSigned(a) = Signed(High(a)) * M + Low(a)
          /\ Signed(High(b)) \in Int /\ AsSigned(b) = Signed(High(b)) * M + Low(b)
        BY SignedValue
    <2>2. Signed(High(a)) * M + Low(a) < Signed(High(b)) * M + Low(b)
          <=> Signed(High(a)) < Signed(High(b)) \/ (Signed(High(a)) = Signed(High(b)) /\ Low(a) < Low(b))
        BY <1>1, <2>1, LexicographicOrder, Zenon
    <2>3. ILt(a, b)
          <=> \/ Signed(High(a)) < Signed(High(b))
              \/ Signed(High(a)) = Signed(High(b)) /\ Low(a) < Low(b)
        <3>1. High(a) = High(b) <=> Signed(High(a)) = Signed(High(b))
            BY <1>1, Bases DEF Signed, Word
        <3> QED
            BY <3>1 DEF ILt
    <2>4. ILt(a, b) <=> Signed(High(a)) * M + Low(a) < Signed(High(b)) * M + Low(b)
        BY <2>2, <2>3, Zenon
    <2> QED
        BY <2>1, <2>4, Zenon
<1> QED
    BY <1>3, <1>4

LEMMA ModuloN ==
    \A a, b \in Pattern :
        /\ (a + b) % N = IF a + b >= N THEN a + b - N ELSE a + b
        /\ (a - b) % N = IF a < b THEN a - b + N ELSE a - b
<1> SUFFICES ASSUME NEW a \in Pattern, NEW b \in Pattern
             PROVE  /\ (a + b) % N = IF a + b >= N THEN a + b - N ELSE a + b
                    /\ (a - b) % N = IF a < b THEN a - b + N ELSE a - b
    OBVIOUS
<1>1. a \in Nat /\ a < N /\ b \in Nat /\ b < N /\ N \in Nat \ {0}
    BY Bases DEF Pattern
<1>2. PICK s \in Nat, d \in Int : s = a + b /\ d = a - b
    BY <1>1
<1>3. (s - N) % N = s % N /\ (d + N) % N = d % N
    <2>1. s \in Int /\ d \in Int /\ N \in Nat \ {0}
        BY <1>1
    <2> QED
        BY <2>1, ModShift
<1>4. s % N = IF s >= N THEN s - N ELSE s
    <2>1. s >= N => (s - N) % N = s - N
        BY <1>1, <1>2, Below
    <2>2. s < N => s % N = s
        BY <1>1, Below
    <2> QED
        BY <1>1, <1>2, <1>3, <2>1, <2>2
<1>5. d % N = IF d < 0 THEN d + N ELSE d
    <2>1. d < 0 => (d + N) % N = d + N
        BY <1>1, <1>2, Below
    <2>2. d >= 0 => d % N = d
        BY <1>1, <1>2, Below
    <2> QED
        BY <1>1, <1>2, <1>3, <2>1, <2>2
<1> QED
    BY <1>1, <1>2, <1>4, <1>5

LEMMA ZeroPattern == 0 \in Pattern /\ AsSigned(0) = 0
<1>1. 0 \in Pattern
    BY Bases DEF Pattern
<1>2. AsSigned(0) = 0
    BY SignBase DEF AsSigned
<1> QED
    BY <1>1, <1>2

\* Addition and subtraction of I256: the bits of the integer's sum and
\* difference, and a flag that says that it left the range.
THEOREM SignedSumsAreExact ==
    \A a, b \in Pattern :
        /\ IAddC(a, b) = <<Encode(AsSigned(a) + AsSigned(b)),
                           AsSigned(a) + AsSigned(b) \notin (-IMIN)..(IMIN - 1)>>
        /\ ISubC(a, b) = <<Encode(AsSigned(a) - AsSigned(b)),
                           AsSigned(a) - AsSigned(b) \notin (-IMIN)..(IMIN - 1)>>
<1> SUFFICES ASSUME NEW a \in Pattern, NEW b \in Pattern
             PROVE  /\ IAddC(a, b) = <<Encode(AsSigned(a) + AsSigned(b)),
                                       AsSigned(a) + AsSigned(b) \notin (-IMIN)..(IMIN - 1)>>
                    /\ ISubC(a, b) = <<Encode(AsSigned(a) - AsSigned(b)),
                                       AsSigned(a) - AsSigned(b) \notin (-IMIN)..(IMIN - 1)>>
    OBVIOUS
<1>1. a \in Nat /\ a < N /\ b \in Nat /\ b < N /\ N \in Nat \ {0}
    BY Bases DEF Pattern
<1>2. PICK n \in Nat \ {0} : n = IMIN /\ N = 2 * n
    BY SignBase
<1>3. PICK sa \in Int : sa = AsSigned(a) /\ sa = IF a >= n THEN a - N ELSE a
    <2>1. AsSigned(a) = IF a >= n THEN a - N ELSE a
        BY <1>2 DEF AsSigned
    <2>2. AsSigned(a) \in Int
        BY <1>1, <2>1
    <2> QED
        BY <2>1, <2>2
<1>4. PICK sb \in Int : sb = AsSigned(b) /\ sb = IF b >= n THEN b - N ELSE b
    <2>1. AsSigned(b) = IF b >= n THEN b - N ELSE b
        BY <1>2 DEF AsSigned
    <2>2. AsSigned(b) \in Int
        BY <1>1, <2>1
    <2> QED
        BY <2>1, <2>2
<1>5. ILt(b, 0) <=> sb < 0
    BY <1>4, ZeroPattern, OrdersAreExact, ZenonT(60)
<1>6. \A x \in Int : (x - N) % N = x % N /\ (x + N) % N = x % N
    BY <1>1, ModShift
<1>7. /\ IAddC(a, b)[1] = Encode(sa + sb)
      /\ IAddC(a, b)[2] = (sa + sb \notin (-n)..(n - 1))
      /\ IAddC(a, b) = <<IAddC(a, b)[1], IAddC(a, b)[2]>>
    <2>1. PICK s \in Pattern : s = Add3(a, b) /\ s = (a + b) % N
                               /\ s = IF a + b >= N THEN a + b - N ELSE a + b
        <3>1. Add3(a, b) = (a + b) % N
            BY SumsAreExact
        <3>2. (a + b) % N = IF a + b >= N THEN a + b - N ELSE a + b
            BY ModuloN
        <3>3. (a + b) % N \in Pattern
            BY <1>1, <3>2 DEF Pattern
        <3> QED
            BY <3>1, <3>2, <3>3
    <2>2. PICK ss \in Int : ss = AsSigned(s) /\ ss = IF s >= n THEN s - N ELSE s
        BY <1>1, <1>2, <2>1 DEF AsSigned, Pattern
    <2>3. ILt(s, a) <=> ss < sa
        BY <1>3, <2>1, <2>2, OrdersAreExact
    <2>4. (sa + sb) % N = (a + b) % N
        <3>1. PICK x \in Int : x = a + b
            BY <1>1
        <3>2. sa + sb = x \/ sa + sb = x - N \/ sa + sb = (x - N) - N
            BY <1>1, <1>3, <1>4, <3>1
        <3>3. (x - N) % N = x % N
            BY <1>6
        <3>4. ((x - N) - N) % N = (x - N) % N
            <4>1. PICK w \in Int : w = x - N
                BY <1>1
            <4> QED
                BY <1>6, <4>1
        <3> QED
            BY <3>1, <3>2, <3>3, <3>4
    <2>5. (IF sb < 0 THEN ~(ss < sa) ELSE ss < sa) <=> sa + sb \notin (-n)..(n - 1)
        BY <1>1, <1>2, <1>3, <1>4, <2>1, <2>2
    <2>6. IAddC(a, b) = <<s, IF ILt(b, 0) THEN ~ILt(s, a) ELSE ILt(s, a)>>
        BY <2>1 DEF IAddC
    <2>7. (IF ILt(b, 0) THEN ~ILt(s, a) ELSE ILt(s, a)) = (sa + sb \notin (-n)..(n - 1))
        <3>1. (IF ILt(b, 0) THEN ~ILt(s, a) ELSE ILt(s, a)) <=> (IF sb < 0 THEN ~(ss < sa) ELSE ss < sa)
            BY <1>5, <2>3
        <3>2. ILt(s, a) \in BOOLEAN
            BY DEF ILt
        <3> QED
            BY <2>5, <3>1, <3>2
    <2>8. Encode(sa + sb) = s
        BY <2>1, <2>4 DEF Encode
    <2> QED
        BY <2>6, <2>7, <2>8
<1>8. /\ ISubC(a, b)[1] = Encode(sa - sb)
      /\ ISubC(a, b)[2] = (sa - sb \notin (-n)..(n - 1))
      /\ ISubC(a, b) = <<ISubC(a, b)[1], ISubC(a, b)[2]>>
    <2>1. PICK s \in Pattern : s = Sub3(a, b) /\ s = (a - b) % N
                               /\ s = IF a < b THEN a - b + N ELSE a - b
        <3>1. Sub3(a, b) = (a - b) % N
            BY SumsAreExact
        <3>2. (a - b) % N = IF a < b THEN a - b + N ELSE a - b
            BY ModuloN
        <3>3. (a - b) % N \in Pattern
            BY <1>1, <3>2 DEF Pattern
        <3> QED
            BY <3>1, <3>2, <3>3
    <2>2. PICK ss \in Int : ss = AsSigned(s) /\ ss = IF s >= n THEN s - N ELSE s
        BY <1>1, <1>2, <2>1 DEF AsSigned, Pattern
    <2>3. ILt(a, s) <=> sa < ss
        BY <1>3, <2>1, <2>2, OrdersAreExact
    <2>4. (sa - sb) % N = (a - b) % N
        <3>1. PICK x \in Int : x = a - b
            BY <1>1
        <3>2. sa - sb = x \/ sa - sb = x - N \/ sa - sb = x + N
            BY <1>1, <1>3, <1>4, <3>1
        <3>3. (x - N) % N = x % N /\ (x + N) % N = x % N
            BY <1>6
        <3> QED
            BY <3>1, <3>2, <3>3
    <2>5. (IF sb < 0 THEN ~(sa < ss) ELSE sa < ss) <=> sa - sb \notin (-n)..(n - 1)
        BY <1>1, <1>2, <1>3, <1>4, <2>1, <2>2
    <2>6. ISubC(a, b) = <<s, IF ILt(b, 0) THEN ~ILt(a, s) ELSE ILt(a, s)>>
        BY <2>1 DEF ISubC
    <2>7. (IF ILt(b, 0) THEN ~ILt(a, s) ELSE ILt(a, s)) = (sa - sb \notin (-n)..(n - 1))
        <3>1. (IF ILt(b, 0) THEN ~ILt(a, s) ELSE ILt(a, s)) <=> (IF sb < 0 THEN ~(sa < ss) ELSE sa < ss)
            BY <1>5, <2>3
        <3>2. ILt(a, s) \in BOOLEAN
            BY DEF ILt
        <3> QED
            BY <2>5, <3>1, <3>2
    <2>8. Encode(sa - sb) = s
        BY <2>1, <2>4 DEF Encode
    <2> QED
        BY <2>6, <2>7, <2>8
<1> QED
    BY <1>2, <1>3, <1>4, <1>7, <1>8

-----------------------------------------------------------------------------
(* Products *)

LEMMA ProductNat == \A x, y \in Nat : x * y \in Nat
OBVIOUS

LEMMA LimbUpIs == \A w \in Nat : w < B => LimbUp(w) = w * B /\ w * B \in Nat
<1> SUFFICES ASSUME NEW w \in Nat, w < B PROVE LimbUp(w) = w * B /\ w * B \in Nat
    OBVIOUS
<1>1. PICK x \in Nat : x = w * B
    BY Bases
<1>2. x < M
    <2>1. B * w + B <= B * B
        BY Bases, TimesAbove
    <2>2. B * w = x
        BY <1>1, Bases
    <2> QED
        BY <2>1, <2>2, Bases
<1>3. x % M = x
    BY <1>2, Bases, Below
<1> QED
    BY <1>1, <1>3 DEF LimbUp

LEMMA ProductOfWords ==
    \A a, b \in Word : a * b \in Pattern /\ a * b \in Nat
<1> SUFFICES ASSUME NEW a \in Word, NEW b \in Word
             PROVE  a * b \in Pattern /\ a * b \in Nat
    OBVIOUS
<1>1. a \in Nat /\ a < M /\ b \in Nat /\ b < M
    BY Bases DEF Word
<1>2. a * b <= a * M
    BY <1>1, Bases, TimesUp
<1>3. M * a + M <= M * M
    BY <1>1, Bases, TimesAbove
<1>4. a * M = M * a /\ a * b \in Nat /\ a * M \in Nat
    BY <1>1, Bases
<1>5. a * b < N
    BY <1>2, <1>3, <1>4, Bases
<1> QED
    BY <1>4, <1>5, Bases DEF Pattern

\* The half-word products of mul.rs, the middle ones folded in turn, make up the
\* product of two words.
LEMMA UMulDDI3Is ==
    \A a, b \in Word : UMulDDI3(a, b) = a * b
<1> SUFFICES ASSUME NEW a \in Word, NEW b \in Word PROVE UMulDDI3(a, b) = a * b
    OBVIOUS
<1>1. PICK a1 \in Nat, a0 \in Nat : a1 = a \div B /\ a0 = a % B /\ a = a1 * B + a0 /\ a0 < B
    BY WordHalves
<1>2. PICK b1 \in Nat, b0 \in Nat : b1 = b \div B /\ b0 = b % B /\ b = b1 * B + b0 /\ b0 < B
    BY WordHalves
<1>3. PICK p \in Nat, x \in Nat, y \in Nat, z \in Nat :
        p = a0 * b0 /\ x = a1 * b0 /\ y = b1 * a0 /\ z = a1 * b1
    BY ProductNat
<1>4. PICK ph \in Nat, pl \in Nat : ph = p \div B /\ pl = p % B /\ p = B * ph + pl /\ pl < B
    BY Bases, DivideBy
<1>5. PICK t1 \in Nat : t1 = ph + x
    OBVIOUS
<1>6. PICK t1h \in Nat, t1l \in Nat :
        t1h = t1 \div B /\ t1l = t1 % B /\ t1 = B * t1h + t1l /\ t1l < B
    BY Bases, DivideBy
<1>7. PICK u \in Nat : u = t1l * B /\ LimbUp(t1l) = u
    BY <1>6, LimbUpIs
<1>8. PICK l1 \in Nat : l1 = pl + u
    OBVIOUS
<1>9. l1 \div B = t1l /\ l1 % B = pl
    <2>1. l1 \in Int /\ t1l \in Int /\ pl \in Int /\ B \in Nat \ {0}
        BY Bases
    <2>2. l1 = B * t1l + pl /\ 0 <= pl /\ pl < B
        <3>1. u = B * t1l
            BY <1>7, Bases
        <3>2. l1 = u + pl
            BY <1>8
        <3>3. l1 = B * t1l + pl
            BY <3>1, <3>2, Zenon
        <3>4. pl < B
            BY <1>4, Zenon
        <3>5. 0 <= pl
            OBVIOUS
        <3> QED
            BY <3>3, <3>4, <3>5, Zenon
    <2> QED
        BY <2>1, <2>2, DivideUnique
<1>10. PICK t2 \in Nat : t2 = t1l + y
    OBVIOUS
<1>11. PICK t2h \in Nat, t2l \in Nat :
        t2h = t2 \div B /\ t2l = t2 % B /\ t2 = B * t2h + t2l /\ t2l < B
    BY Bases, DivideBy
<1>12. PICK w \in Nat : w = t2l * B /\ LimbUp(t2l) = w
    BY <1>11, LimbUpIs
<1>13. UMulDDI3(a, b) = (t1h + t2h + z) * M + (pl + w)
    <2>1. UMulDDI3(a, b) = FromWords(t1h + t2h + z, pl + w)
        BY <1>1, <1>2, <1>3, <1>4, <1>5, <1>6, <1>7, <1>8, <1>9, <1>10, <1>11, <1>12, Zenon DEF UMulDDI3
    <2> QED
        BY <2>1 DEF FromWords
<1>14. a * b = z * M + x * B + y * B + p
    <2>1. (a1 * B + a0) * (b1 * B + b0) = (a1 * b1) * (B * B) + (a1 * b0) * B + (b1 * a0) * B + a0 * b0
        BY Bases
    <2> QED
        BY <1>1, <1>2, <1>3, <2>1, Bases, Zenon
<1>15. PICK f \in Int, g \in Int, k \in Int, m \in Int, n \in Int :
        f = t1h * M /\ g = t2h * M /\ k = z * M /\ m = B * ph /\ n = u
    BY Bases
<1>16. x * B = f + u - m
    <2>1. x = B * t1h + t1l - ph
        <3>1. B * t1h \in Int
            BY Bases
        <3> QED
            BY <1>5, <1>6, <3>1
    <2>2. (B * t1h + t1l - ph) * B = t1h * (B * B) + t1l * B - B * ph
        BY Bases
    <2> QED
        BY <1>7, <1>15, <2>1, <2>2, Bases, Zenon
<1>17. y * B = g + w - u
    <2>1. y = B * t2h + t2l - t1l
        <3>1. B * t2h \in Int
            BY Bases
        <3> QED
            BY <1>10, <1>11, <3>1
    <2>2. (B * t2h + t2l - t1l) * B = t2h * (B * B) + t2l * B - t1l * B
        BY Bases
    <2> QED
        BY <1>7, <1>12, <1>15, <2>1, <2>2, Bases, Zenon
<1>18. (t1h + t2h + z) * M = f + g + k
    <2>1. (t1h + t2h + z) * M = t1h * M + t2h * M + z * M
        BY Bases
    <2> QED
        BY <1>15, <2>1, Zenon
<1>19. p = m + pl
    BY <1>4, <1>15
<1>20. a * b = k + (f + u - m) + (g + w - u) + p
    BY <1>14, <1>15, <1>16, <1>17, Zenon
<1>21. UMulDDI3(a, b) = f + g + k + (pl + w)
    BY <1>13, <1>18, Zenon
<1>22. k + (f + u - m) + (g + w - u) + p = f + g + k + (pl + w)
    BY <1>19
<1> QED
    BY <1>20, <1>21, <1>22, Zenon

LEMMA ModMultiple ==
    \A x, k \in Int, d \in Nat \ {0} : (x + d * k) % d = x % d
<1> SUFFICES ASSUME NEW x \in Int, NEW k \in Int, NEW d \in Nat \ {0}
             PROVE  (x + d * k) % d = x % d
    OBVIOUS
<1>1. PICK q \in Int, r \in Nat : q = x \div d /\ r = x % d /\ x = d * q + r /\ r < d
    BY DivideBy
<1>2. PICK y \in Int, p \in Int : y = x + d * k /\ p = q + k
    OBVIOUS
<1>3. y = d * p + r
    <2>1. d * (q + k) = d * q + d * k /\ d * q \in Int /\ d * k \in Int
        OBVIOUS
    <2> QED
        BY <1>1, <1>2, <2>1
<1>4. r \in Int /\ 0 <= r /\ r < d
    BY <1>1
<1>5. y % d = r
    BY <1>3, <1>4, DivideUnique
<1> QED
    BY <1>1, <1>2, <1>5

\* The words of a product, before it is cut to the width: the high word h of the
\* sum of the products, and the high words' own product n above it.
LEMMA ProductByWords ==
    \A a, b \in Pattern : \A r, h, l, n :
        /\ r = UMulDDI3(Low(a), Low(b)) /\ l = Low(r)
        /\ h = High(r) + (High(a) * Low(b) + Low(a) * High(b))
        /\ n = High(a) * High(b)
        => /\ a * b = (h * M + l) + N * n
           /\ High(r) \in Word /\ h \in Nat /\ l \in Word /\ n \in Nat
           /\ High(a) * Low(b) \in Nat /\ Low(a) * High(b) \in Nat
<1> SUFFICES ASSUME NEW a \in Pattern, NEW b \in Pattern, NEW r, NEW h, NEW l, NEW n,
                    r = UMulDDI3(Low(a), Low(b)), l = Low(r),
                    h = High(r) + (High(a) * Low(b) + Low(a) * High(b)),
                    n = High(a) * High(b)
             PROVE  /\ a * b = (h * M + l) + N * n
                    /\ High(r) \in Word /\ h \in Nat /\ l \in Word /\ n \in Nat
                    /\ High(a) * Low(b) \in Nat /\ Low(a) * High(b) \in Nat
    OBVIOUS
<1>1. PICK ah \in Word, al \in Word : ah = High(a) /\ al = Low(a) /\ a = ah * M + al
    BY PatternWords
<1>2. PICK bh \in Word, bl \in Word : bh = High(b) /\ bl = Low(b) /\ b = bh * M + bl
    BY PatternWords
<1>3. ah \in Nat /\ al \in Nat /\ bh \in Nat /\ bl \in Nat
    BY Bases DEF Word
<1>4. PICK x \in Nat, y \in Nat, z \in Nat :
        x = ah * bl /\ y = al * bh /\ z = ah * bh
    BY <1>3, ProductNat
<1>5. r = al * bl /\ r \in Pattern
    BY <1>1, <1>2, UMulDDI3Is, ProductOfWords
<1>6. PICK rh \in Word : rh = High(r) /\ l \in Word /\ r = rh * M + l
    BY <1>5, PatternWords
<1>7. rh \in Nat /\ l \in Nat
    BY <1>6, Bases DEF Word
<1>8. n = z
    BY <1>1, <1>2, <1>4, Zenon
<1>9. h = rh + (x + y) /\ h \in Nat
    <2>1. h = rh + (x + y)
        BY <1>1, <1>2, <1>4, <1>6, Zenon
    <2> QED
        BY <1>7, <2>1
<1>10. a * b = z * (M * M) + x * M + y * M + r
    <2>1. (ah * M + al) * (bh * M + bl) = (ah * bh) * (M * M) + (ah * bl) * M + (al * bh) * M + al * bl
        BY <1>3, Bases
    <2> QED
        BY <1>1, <1>2, <1>4, <1>5, <2>1, Zenon
<1>11. h * M + l = x * M + y * M + r
    <2>1. (rh + (x + y)) * M = rh * M + (x * M + y * M)
        BY <1>7, Bases
    <2>2. PICK e \in Int, f \in Int, g \in Int : e = rh * M /\ f = x * M /\ g = y * M
        BY <1>7, Bases
    <2>3. h * M = e + (f + g)
        BY <1>9, <2>1, <2>2, Zenon
    <2>4. r = e + l
        BY <1>6, <2>2, Zenon
    <2>5. (e + (f + g)) + l = f + g + (e + l)
        BY <1>7
    <2> QED
        BY <2>2, <2>3, <2>4, <2>5, Zenon
<1>12. a * b = (h * M + l) + N * n
    <2>1. PICK e \in Int, f \in Int, g \in Int : e = z * (M * M) /\ f = x * M /\ g = y * M
        BY Bases
    <2>2. N * n = e
        <3>1. (M * M) * z = z * (M * M)
            BY Bases
        <3> QED
            BY <1>8, <2>1, <3>1, Bases, Zenon
    <2>3. r \in Int
        BY <1>5, Bases DEF Pattern
    <2>4. a * b = e + f + g + r /\ h * M + l = f + g + r
        BY <1>10, <1>11, <2>1, Zenon
    <2>5. e + f + g + r = (f + g + r) + e
        BY <2>3
    <2> QED
        BY <2>2, <2>4, <2>5, Zenon
<1> QED
    BY <1>1, <1>2, <1>4, <1>6, <1>8, <1>9, <1>12

LEMMA SumModulo ==
    \A x, y, z \in Int, d \in Nat \ {0} :
        (z + (((x % d) + (y % d)) % d)) % d = (z + (x + y)) % d
<1> SUFFICES ASSUME NEW x \in Int, NEW y \in Int, NEW z \in Int, NEW d \in Nat \ {0}
             PROVE  (z + (((x % d) + (y % d)) % d)) % d = (z + (x + y)) % d
    OBVIOUS
<1>1. PICK p \in Int, q \in Int : p = x % d /\ q = y % d
    BY DivideBy
<1>2. (p + q) % d = (x + y) % d
    <2>1. (p + q) % d = (x + q) % d
        BY <1>1, ModPlus
    <2>2. (q + x) % d = (y + x) % d
        BY <1>1, ModPlus
    <2>3. x + q = q + x /\ x + y = y + x
        OBVIOUS
    <2> QED
        BY <2>1, <2>2, <2>3
<1>3. PICK w \in Int : w = x + y
    OBVIOUS
<1>4. ((w % d) + z) % d = (w + z) % d
    BY ModPlus
<1>5. PICK m \in Int : m = w % d
    BY DivideBy
<1>6. m + z = z + m /\ w + z = z + w
    OBVIOUS
<1>7. (z + m) % d = (z + w) % d
    BY <1>4, <1>5, <1>6, Zenon
<1>8. m = ((x % d) + (y % d)) % d
    BY <1>1, <1>2, <1>3, <1>5, Zenon
<1> QED
    BY <1>3, <1>7, <1>8, Zenon

LEMMA SignedProduct ==
    \A a, b \in Pattern : (AsSigned(a) * AsSigned(b)) % N = (a * b) % N
<1> SUFFICES ASSUME NEW a \in Pattern, NEW b \in Pattern
             PROVE  (AsSigned(a) * AsSigned(b)) % N = (a * b) % N
    OBVIOUS
<1>1. a \in Int /\ b \in Int /\ N \in Nat \ {0}
    BY Bases DEF Pattern
<1>2. \A x \in Int : \E i \in {0, 1} : AsSigned(x) = x - N * i
    <2> TAKE x \in Int
    <2>1. N * 1 = N /\ N * 0 = 0 /\ x - 0 = x
        BY <1>1
    <2>2. CASE x >= IMIN
        BY <2>1, <2>2 DEF AsSigned
    <2>3. CASE ~(x >= IMIN)
        BY <2>1, <2>3 DEF AsSigned
    <2> QED
        BY <2>2, <2>3
<1>3. PICK i \in {0, 1}, j \in {0, 1} : AsSigned(a) = a - N * i /\ AsSigned(b) = b - N * j
    BY <1>1, <1>2
<1>4. PICK k \in Int : k = N * i * j - a * j - b * i
    BY <1>1
<1>5. (a - N * i) * (b - N * j) = a * b + N * (N * i * j - a * j - b * i)
    BY <1>1
<1>6. PICK x \in Int : x = a * b
    BY <1>1
<1>7. AsSigned(a) * AsSigned(b) = x + N * k
    BY <1>3, <1>4, <1>5, <1>6, Zenon
<1>8. (x + N * k) % N = x % N
    <2>1. x \in Int /\ k \in Int /\ N \in Nat \ {0}
        BY <1>1
    <2> QED
        BY <2>1, ModMultiple
<1> QED
    BY <1>6, <1>7, <1>8, Zenon

\* Multiplication of U256, and the wrapping one of I256, is that of the integers
\* modulo N, and the five tests for an overflow of U256 miss none and report no
\* product that fits.
THEOREM ProductsAreExact ==
    \A a, b \in Pattern :
        /\ Mul3(a, b) = (a * b) % N
        /\ Mul3(a, b) = Encode(AsSigned(a) * AsSigned(b))
        /\ UMulC(a, b) = <<(a * b) % N, a * b >= N>>
<1> SUFFICES ASSUME NEW a \in Pattern, NEW b \in Pattern
             PROVE  /\ Mul3(a, b) = (a * b) % N
                    /\ Mul3(a, b) = Encode(AsSigned(a) * AsSigned(b))
                    /\ UMulC(a, b) = <<(a * b) % N, a * b >= N>>
    OBVIOUS
<1>1. PICK r, h, l, n :
        /\ r = UMulDDI3(Low(a), Low(b)) /\ l = Low(r)
        /\ h = High(r) + (High(a) * Low(b) + Low(a) * High(b))
        /\ n = High(a) * High(b)
    OBVIOUS
<1>2. /\ a * b = (h * M + l) + N * n
      /\ High(r) \in Word /\ h \in Nat /\ l \in Word /\ n \in Nat
      /\ High(a) * Low(b) \in Nat /\ Low(a) * High(b) \in Nat
    BY <1>1, ProductByWords
<1>3. PICK x \in Nat, y \in Nat, rh \in Word :
        x = High(a) * Low(b) /\ y = Low(a) * High(b) /\ rh = High(r) /\ h = rh + (x + y)
    BY <1>1, <1>2
<1>4. rh \in Nat /\ rh < M /\ l \in Nat
    BY <1>2, Bases DEF Word
<1>5. PICK p \in Nat : p = h * M + l
    <2>1. h * M \in Nat
        BY <1>2, Bases
    <2> QED
        BY <1>4, <2>1
<1>6. p % N = FromWords(h % M, l) /\ (p >= N <=> h >= M)
    BY <1>2, <1>5, PairModulo
<1>7. (a * b) % N = FromWords(h % M, l)
    <2>1. (p + N * n) % N = p % N
        <3>1. p \in Int /\ n \in Int /\ N \in Nat \ {0}
            BY <1>2, Bases
        <3> QED
            BY <3>1, ModMultiple
    <2> QED
        BY <1>2, <1>5, <1>6, <2>1, Zenon
<1>8. WAdd(rh, WAdd(x % M, y % M)) = h % M
    <2>1. (rh + (((x % M) + (y % M)) % M)) % M = (rh + (x + y)) % M
        <3>1. rh \in Int /\ x \in Int /\ y \in Int /\ M \in Nat \ {0}
            BY <1>4, Bases
        <3> QED
            BY <3>1, SumModulo
    <2>2. (rh + (x + y)) % M = h % M
        BY <1>3
    <2>3. WAdd(rh, WAdd(x % M, y % M)) = (rh + (((x % M) + (y % M)) % M)) % M
        BY DEF WAdd
    <2> QED
        BY <2>1, <2>2, <2>3, Zenon
<1>9. Mul3(a, b) = (a * b) % N
    BY <1>1, <1>3, <1>7, <1>8, Zenon DEF Mul3
<1> DEFINE hi == WAdd(x % M, y % M)
           tooLarge == \/ x >= M
                       \/ y >= M
                       \/ Carry(x % M, y % M) = 1
                       \/ Carry(rh, hi) = 1
                       \/ (High(a) # 0 /\ High(b) # 0)
<1>10. UMulC(a, b) = <<(a * b) % N, tooLarge>>
    BY <1>1, <1>3, <1>7, <1>8, Zenon DEF UMulC
<1>11. x >= M \/ y >= M \/ Carry(x % M, y % M) = 1 \/ Carry(rh, hi) = 1 <=> h >= M
    <2>1. CASE x >= M \/ y >= M
        BY <1>3, <1>4, <2>1, Bases
    <2>2. CASE x < M /\ y < M
        <3>1. x % M = x /\ y % M = y
            BY <2>2, Bases, Below
        <3>2. Carry(x, y) = 1 <=> x + y >= M
            BY DEF Carry
        <3>3. x \in Word /\ y \in Word
            BY <2>2, Bases DEF Word
        <3>4. hi = IF x + y >= M THEN x + y - M ELSE x + y
            BY <3>1, <3>3, WordSums
        <3>5. Carry(rh, hi) = 1 <=> rh + hi >= M
            BY DEF Carry
        <3> QED
            BY <1>3, <1>4, <2>2, <3>1, <3>2, <3>4, <3>5, Bases
    <2> QED
        BY <2>1, <2>2, Bases
<1>12. n = 0 <=> ~(High(a) # 0 /\ High(b) # 0)
    <2>1. PICK u \in Nat, v \in Nat : u = High(a) /\ v = High(b)
        BY PatternWords, Bases DEF Word
    <2>2. u * v = 0 <=> u = 0 \/ v = 0
        OBVIOUS
    <2> QED
        BY <1>1, <2>1, <2>2
<1>13. tooLarge <=> a * b >= N
    <2>1. CASE n = 0
        <3>1. a * b = p
            <4>1. N * n = 0
                BY <2>1, Bases
            <4>2. p + 0 = p
                OBVIOUS
            <4> QED
                BY <1>2, <1>5, <4>1, <4>2, Zenon
        <3> QED
            BY <1>6, <1>11, <1>12, <2>1, <3>1
    <2>2. CASE n # 0
        <3>1. N * 1 <= N * n
            BY <1>2, <2>2, Bases, TimesUp
        <3>2. N * n \in Int /\ N * 1 = N
            BY <1>2, Bases
        <3>3. p + N * n >= N
            BY <3>1, <3>2, Bases
        <3>4. a * b >= N
            BY <1>2, <1>5, <3>3, Zenon
        <3> QED
            BY <1>12, <2>2, <3>4
    <2> QED
        BY <2>1, <2>2
<1>14. tooLarge = (a * b >= N)
    <2>1. tooLarge \in BOOLEAN
        OBVIOUS
    <2> HIDE DEF tooLarge
    <2> QED
        BY <1>13, <2>1
<1>15. Mul3(a, b) = Encode(AsSigned(a) * AsSigned(b))
    BY <1>9, SignedProduct, Zenon DEF Encode
<1> QED
    BY <1>9, <1>10, <1>14, <1>15, Zenon

-----------------------------------------------------------------------------
(* Dividing by two words *)

LEMMA LimbUpCuts == \A w \in Nat : LimbUp(w) = (w % B) * B
<1> SUFFICES ASSUME NEW w \in Nat PROVE LimbUp(w) = (w % B) * B
    OBVIOUS
<1>1. PICK h \in Nat, l \in Nat : h = w \div B /\ l = w % B /\ w = B * h + l /\ l < B
    BY Bases, DivideBy
<1>2. LimbUp(l) = l * B /\ l * B \in Nat
    BY <1>1, LimbUpIs
<1>3. w * B = l * B + M * h
    <2>1. (B * h + l) * B = l * B + (B * B) * h
        BY Bases
    <2> QED
        BY <1>1, <2>1, Bases, Zenon
<1>4. (l * B + M * h) % M = (l * B) % M
    <2>1. l * B \in Int /\ h \in Int /\ M \in Nat \ {0}
        BY <1>2, Bases
    <2> QED
        BY <2>1, ModMultiple
<1>5. LimbUp(w) = LimbUp(l)
    BY <1>3, <1>4, Zenon DEF LimbUp
<1> QED
    BY <1>1, <1>2, <1>5

LEMMA FullMulWordIs ==
    \A a, b \in Word :
        LET p == FullMulWord(a, b)
        IN p.hi \in Word /\ p.lo \in Word /\ a * b = p.hi * M + p.lo
<1> SUFFICES ASSUME NEW a \in Word, NEW b \in Word,
                    NEW p, p = FullMulWord(a, b)
             PROVE  p.hi \in Word /\ p.lo \in Word /\ a * b = p.hi * M + p.lo
    OBVIOUS
<1>1. PICK a1 \in Nat, a0 \in Nat : a1 = a \div B /\ a0 = a % B /\ a = a1 * B + a0 /\ a0 < B
    BY WordHalves
<1>2. PICK b1 \in Nat, b0 \in Nat : b1 = b \div B /\ b0 = b % B /\ b = b1 * B + b0 /\ b0 < B
    BY WordHalves
<1>3. PICK t0 \in Nat, x \in Nat, y \in Nat, z \in Nat :
        t0 = a0 * b0 /\ x = a1 * b0 /\ y = a0 * b1 /\ z = a1 * b1
    BY ProductNat
<1>4. PICK h0 \in Nat, l0 \in Nat : h0 = t0 \div B /\ l0 = t0 % B /\ t0 = B * h0 + l0 /\ l0 < B
    BY Bases, DivideBy
<1>5. PICK t1 \in Nat : t1 = x + h0
    OBVIOUS
<1>6. PICK h1 \in Nat, l1 \in Nat : h1 = t1 \div B /\ l1 = t1 % B /\ t1 = B * h1 + l1 /\ l1 < B
    BY Bases, DivideBy
<1>7. PICK t2 \in Nat : t2 = y + l1
    OBVIOUS
<1>8. PICK h2 \in Nat, l2 \in Nat : h2 = t2 \div B /\ l2 = t2 % B /\ t2 = B * h2 + l2 /\ l2 < B
    BY Bases, DivideBy
<1>9. PICK w \in Nat : w = l2 * B /\ LimbUp(t2) = w
    BY <1>8, LimbUpCuts, LimbUpIs
<1>10. p.lo = w + l0 /\ p.hi = z + h1 + h2
    <2>1. p = [lo |-> w + l0, hi |-> z + h1 + h2]
        BY <1>1, <1>2, <1>3, <1>4, <1>5, <1>6, <1>7, <1>8, <1>9, Zenon DEF FullMulWord
    <2> QED
        BY <2>1
<1>11. a * b = z * M + x * B + y * B + t0
    <2>1. (a1 * B + a0) * (b1 * B + b0) = (a1 * b1) * (B * B) + (a1 * b0) * B + (a0 * b1) * B + a0 * b0
        BY Bases
    <2> QED
        BY <1>1, <1>2, <1>3, <2>1, Bases, Zenon
<1>12. PICK f \in Int, g \in Int, k \in Int, m \in Int, n \in Int :
        f = h1 * M /\ g = h2 * M /\ k = z * M /\ m = B * h0 /\ n = l1 * B
    BY Bases
<1>13. x * B = f + n - m
    <2>1. x = B * h1 + l1 - h0
        <3>1. B * h1 \in Int
            BY Bases
        <3> QED
            BY <1>5, <1>6, <3>1
    <2>2. (B * h1 + l1 - h0) * B = h1 * (B * B) + l1 * B - B * h0
        BY Bases
    <2> QED
        BY <1>12, <2>1, <2>2, Bases, Zenon
<1>14. y * B = g + w - n
    <2>1. y = B * h2 + l2 - l1
        <3>1. B * h2 \in Int
            BY Bases
        <3> QED
            BY <1>7, <1>8, <3>1
    <2>2. (B * h2 + l2 - l1) * B = h2 * (B * B) + l2 * B - l1 * B
        BY Bases
    <2> QED
        BY <1>9, <1>12, <2>1, <2>2, Bases, Zenon
<1>15. (z + h1 + h2) * M = k + f + g
    <2>1. (z + h1 + h2) * M = z * M + h1 * M + h2 * M
        BY Bases
    <2> QED
        BY <1>12, <2>1, Zenon
<1>16. t0 = m + l0
    BY <1>4, <1>12
<1>17. a * b = k + (f + n - m) + (g + w - n) + t0
    BY <1>11, <1>12, <1>13, <1>14, Zenon
<1>18. p.hi * M + p.lo = k + f + g + (w + l0)
    BY <1>10, <1>15, Zenon
<1>19. k + (f + n - m) + (g + w - n) + t0 = k + f + g + (w + l0)
    BY <1>16
<1>20. a * b = p.hi * M + p.lo
    BY <1>17, <1>18, <1>19, Zenon
<1>21. p.hi \in Nat /\ p.lo \in Nat
    BY <1>10
<1>22. p.lo < M
    <2>1. B * l2 + B <= B * B
        BY <1>8, Bases, TimesAbove
    <2>2. B * l2 = w
        BY <1>9, Bases
    <2>3. l0 < B
        BY <1>4
    <2> QED
        BY <1>10, <2>1, <2>2, <2>3, Bases
<1>23. p.hi < M
    <2>1. PICK hi \in Nat, lo \in Nat : hi = p.hi /\ lo = p.lo
        BY <1>21
    <2>2. a * b < N /\ a * b \in Nat
        BY ProductOfWords, Bases DEF Pattern
    <2>3. hi * M + lo < N
        BY <1>20, <2>1, <2>2
    <2>4. lo \in Word /\ hi \in Int
        BY <1>22, <2>1, Bases DEF Word
    <2>5. ~(hi >= M)
        <3>1. hi * M + lo >= N <=> hi >= M
            BY <2>4, PairModulo
        <3>2. hi * M \in Int
            BY Bases
        <3> QED
            BY <2>3, <3>1, <3>2, Bases
    <2> QED
        BY <2>1, <2>5, Bases
<1>24. p.hi \in Word /\ p.lo \in Word
    BY <1>21, <1>22, <1>23, Bases DEF Word
<1> QED
    BY <1>20, <1>24

\* The number that three words stand for.
Value(u) == (u[3] * M + u[2]) * M + u[1]

LEMMA FullMulIs ==
    \A a \in Pattern, b \in Word :
        LET p == FullMul(a, b)
        IN p[1] \in Word /\ p[2] \in Word /\ p[3] \in Word /\ Value(p) = a * b
<1> SUFFICES ASSUME NEW a \in Pattern, NEW b \in Word,
                    NEW p, p = FullMul(a, b)
             PROVE  p[1] \in Word /\ p[2] \in Word /\ p[3] \in Word /\ Value(p) = a * b
    OBVIOUS
<1>1. PICK ah \in Word, al \in Word : ah = High(a) /\ al = Low(a) /\ a = ah * M + al
    BY PatternWords
<1>2. ah \in Nat /\ al \in Nat /\ b \in Nat /\ ah < M /\ al < M /\ b < M /\ a \in Nat
    BY Bases DEF Word, Pattern
<1>3. CASE b = 0
    <2>1. p[1] = 0 /\ p[2] = 0 /\ p[3] = 0
        BY <1>3 DEF FullMul
    <2>2. Value(p) = 0
        BY <2>1, Bases DEF Value
    <2>3. a * b = 0
        BY <1>2, <1>3
    <2> QED
        BY <2>1, <2>2, <2>3, Bases DEF Word
<1>4. CASE b # 0
    <2>1. PICK lp : lp = FullMulWord(al, b) /\ lp.hi \in Word /\ lp.lo \in Word /\ al * b = lp.hi * M + lp.lo
        BY FullMulWordIs
    <2>2. PICK hp : hp = FullMulWord(ah, b) /\ hp.hi \in Word /\ hp.lo \in Word /\ ah * b = hp.hi * M + hp.lo
        BY FullMulWordIs
    <2>3. PICK lh \in Nat, ll \in Nat, hh \in Nat, hl \in Nat :
            /\ lh = lp.hi /\ ll = lp.lo /\ hh = hp.hi /\ hl = hp.lo
            /\ lh < M /\ ll < M /\ hh < M /\ hl < M
        BY <2>1, <2>2, Bases DEF Word
    <2>4. PICK c \in {0, 1} : c = Carry(lh, hl) /\ (c = 1 <=> lh + hl >= M)
        BY DEF Carry
    <2>5. PICK m \in Nat : m = WAdd(lh, hl) /\ m \in Word /\ m = IF c = 1 THEN lh + hl - M ELSE lh + hl
        <3>1. lh \in Word /\ hl \in Word
            BY <2>1, <2>2, <2>3
        <3>2. WAdd(lh, hl) \in Word /\ WAdd(lh, hl) = IF c = 1 THEN lh + hl - M ELSE lh + hl
            BY <2>4, <3>1, WordSums
        <3>3. WAdd(lh, hl) \in Nat
            BY <3>2, Bases DEF Word
        <3> QED
            BY <3>2, <3>3, Zenon
    <2>6. p = <<ll, m, hh + c>>
        BY <1>1, <1>4, <2>1, <2>2, <2>3, <2>4, <2>5, Zenon DEF FullMul
    <2>7. p[1] = ll /\ p[2] = m /\ p[3] = hh + c
        BY <2>6
    <2>8. a * b = ((hh + c) * M + m) * M + ll
        <3>1. a * b = (ah * b) * M + al * b
            <4>1. (ah * M + al) * b = (ah * b) * M + al * b
                BY <1>2, Bases
            <4> QED
                BY <1>1, <4>1, Zenon
        <3>2. (hh * M + hl) * M + (lh * M + ll) = (hh * M + (hl + lh)) * M + ll
            BY Bases
        <3>3. hh * M + (hl + lh) = (hh + c) * M + m
            <4>1. PICK e \in Int, f \in Int : e = hh * M /\ f = c * M
                BY Bases
            <4>2. f = IF c = 1 THEN M ELSE 0
                BY <4>1, Bases
            <4>3. hl + lh = f + m
                BY <2>5, <4>2, Bases
            <4>4. (hh + c) * M = e + f
                BY <4>1, Bases
            <4>5. e + (f + m) = (e + f) + m
                OBVIOUS
            <4> QED
                BY <4>1, <4>3, <4>4, <4>5, Zenon
        <3>4. ah * b = hh * M + hl /\ al * b = lh * M + ll
            BY <2>1, <2>2, <2>3, Zenon
        <3> QED
            BY <3>1, <3>2, <3>3, <3>4, Zenon
    <2>9. Value(p) = a * b
        BY <2>7, <2>8, Zenon DEF Value
    \* The product of a pattern and a word has no fourth word.
    <2>10. hh + c < M
        <3> SUFFICES ASSUME hh + c >= M PROVE FALSE
            BY Bases
        <3>1. b * a + b <= b * N
            BY <1>2, Bases, TimesAbove DEF Pattern
        <3>2. N * b + N <= N * M
            BY <1>2, Bases, TimesAbove
        <3>3. a * b < M * N
            <4>1. b * a = a * b /\ b * N = N * b /\ N * M = M * N
                BY <1>2, Bases
            <4>2. a * b \in Int /\ N * b \in Int /\ M * N \in Int
                BY <1>2, Bases
            <4> QED
                BY <1>2, <3>1, <3>2, <4>1, <4>2, Bases
        <3>4. PICK d \in Nat : d = hh + c /\ d >= M
            OBVIOUS
        <3>5. N * M <= N * d
            BY <3>4, Bases, TimesUp
        <3>6. (d * M + m) * M + ll = N * d + (m * M + ll)
            <4>1. (d * M + m) * M + ll = (M * M) * d + (m * M + ll)
                BY Bases
            <4> QED
                BY <4>1, Bases, Zenon
        <3>7. PICK s \in Nat : s = m * M + ll
            BY Bases
        <3>8. a * b = N * d + s
            BY <2>8, <3>4, <3>6, <3>7, Zenon
        <3>9. N * d \in Int /\ M * N = N * M /\ N * M \in Int
            BY Bases
        <3> QED
            BY <3>3, <3>5, <3>8, <3>9
    <2>11. p[3] \in Word /\ p[1] \in Word
        BY <2>3, <2>4, <2>7, <2>10, Bases DEF Word
    <2> QED
        BY <2>5, <2>7, <2>9, <2>11
<1> QED
    BY <1>3, <1>4

LEMMA SubCarryIs ==
    \A a, b \in Word, c \in {0, 1} :
        LET r == SubCarry(a, b, c)
        IN r[1] \in Word /\ r[2] \in {0, 1} /\ a - b - c = r[1] - r[2] * M
<1> SUFFICES ASSUME NEW a \in Word, NEW b \in Word, NEW c \in {0, 1},
                    NEW r, r = SubCarry(a, b, c)
             PROVE  r[1] \in Word /\ r[2] \in {0, 1} /\ a - b - c = r[1] - r[2] * M
    OBVIOUS
<1>1. a \in Nat /\ b \in Nat /\ a < M /\ b < M /\ M \in Nat /\ c \in Word /\ M >= 2
    <2>1. M >= 2
        BY Bases
    <2> QED
        BY <2>1, Bases DEF Word
<1>2. PICK w \in Word : w = WAdd(b, c) /\ w = IF b + c >= M THEN b + c - M ELSE b + c
    BY <1>1, WordSums
<1>3. PICK x \in Word : x = WSub(a, w) /\ x = IF a < w THEN a - w + M ELSE a - w
    BY WordSums
<1>4. Carry(b, c) = 1 <=> b + c >= M
    BY DEF Carry
<1>5. Borrow(a, w) = IF a < w THEN 1 ELSE 0
    BY DEF Borrow
<1>6. r[1] = x /\ r[2] = IF Carry(b, c) = 1 THEN 1 ELSE Borrow(a, w)
    BY <1>2, <1>3 DEF SubCarry
<1>7. PICK n \in {0, 1} : n = r[2] /\ n = IF b + c >= M THEN 1 ELSE IF a < w THEN 1 ELSE 0
    BY <1>4, <1>5, <1>6
<1>8. n * M = IF n = 1 THEN M ELSE 0
    BY <1>1
<1>9. a - b - c = x - n * M
    <2>1. w \in Nat /\ x \in Nat
        BY Bases DEF Word
    <2> QED
        BY <1>1, <1>2, <1>3, <1>7, <1>8, <2>1
<1> QED
    BY <1>6, <1>7, <1>9

\* Words that are at most those they are taken from leave no borrow.
LEMMA SubFullIs ==
    \A u, p : /\ u[1] \in Word /\ u[2] \in Word /\ u[3] \in Word
              /\ p[1] \in Word /\ p[2] \in Word /\ p[3] \in Word
              /\ Value(p) <= Value(u)
              => LET d == SubFull(u, p)
                 IN /\ d.borrow = 0 /\ Value(d.u) = Value(u) - Value(p)
                    /\ d.u[1] \in Word /\ d.u[2] \in Word /\ d.u[3] \in Word
<1> SUFFICES ASSUME NEW u, NEW p,
                    u[1] \in Word, u[2] \in Word, u[3] \in Word,
                    p[1] \in Word, p[2] \in Word, p[3] \in Word,
                    Value(p) <= Value(u),
                    NEW d, d = SubFull(u, p)
             PROVE  /\ d.borrow = 0 /\ Value(d.u) = Value(u) - Value(p)
                    /\ d.u[1] \in Word /\ d.u[2] \in Word /\ d.u[3] \in Word
    OBVIOUS
<1>1. PICK w0 : w0 = SubCarry(u[1], p[1], 0) /\ w0[1] \in Word /\ w0[2] \in {0, 1}
                /\ u[1] - p[1] - 0 = w0[1] - w0[2] * M
    BY SubCarryIs
<1>2. PICK w1 : w1 = SubCarry(u[2], p[2], w0[2]) /\ w1[1] \in Word /\ w1[2] \in {0, 1}
                /\ u[2] - p[2] - w0[2] = w1[1] - w1[2] * M
    BY <1>1, SubCarryIs
<1>3. PICK w2 : w2 = SubCarry(u[3], p[3], w1[2]) /\ w2[1] \in Word /\ w2[2] \in {0, 1}
                /\ u[3] - p[3] - w1[2] = w2[1] - w2[2] * M
    BY <1>2, SubCarryIs
<1>4. d.borrow = w2[2] /\ d.u = <<w0[1], w1[1], w2[1]>>
    BY <1>1, <1>2, <1>3 DEF SubFull
<1>5. PICK u1 \in Nat, u2 \in Nat, u3 \in Nat, p1 \in Nat, p2 \in Nat, p3 \in Nat :
        u1 = u[1] /\ u2 = u[2] /\ u3 = u[3] /\ p1 = p[1] /\ p2 = p[2] /\ p3 = p[3]
    <2>1. Word \subseteq Nat
        BY Bases DEF Word
    <2>2. u[1] \in Nat /\ u[2] \in Nat /\ u[3] \in Nat /\ p[1] \in Nat /\ p[2] \in Nat /\ p[3] \in Nat
        BY <2>1, ZenonT(60)
    <2> QED
        BY <2>2, Zenon
<1>6. PICK r1 \in Word, r2 \in Word, r3 \in Word, b1 \in {0, 1}, b2 \in {0, 1}, b3 \in {0, 1} :
        r1 = w0[1] /\ r2 = w1[1] /\ r3 = w2[1] /\ b1 = w0[2] /\ b2 = w1[2] /\ b3 = w2[2]
    BY <1>1, <1>2, <1>3
<1>7. r1 \in Nat /\ r1 < M /\ r2 \in Nat /\ r2 < M /\ r3 \in Nat /\ r3 < M /\ b1 \in Nat /\ b2 \in Nat /\ b3 \in Nat
    BY Bases DEF Word
<1>8. u1 = p1 + r1 - b1 * M
    <2>1. u1 - p1 - 0 = r1 - b1 * M /\ b1 * M \in Int
        BY <1>1, <1>5, <1>6, <1>7, Bases
    <2> QED
        BY <1>7, <2>1
<1>9. u2 = p2 + b1 + r2 - b2 * M
    <2>1. u2 - p2 - b1 = r2 - b2 * M /\ b2 * M \in Int
        BY <1>2, <1>5, <1>6, <1>7, Bases
    <2> QED
        BY <1>7, <2>1
<1>10. u3 = p3 + b2 + r3 - b3 * M
    <2>1. u3 - p3 - b2 = r3 - b3 * M /\ b3 * M \in Int
        BY <1>3, <1>5, <1>6, <1>7, Bases
    <2> QED
        BY <1>7, <2>1
<1>11. PICK X \in Nat, Y \in Nat, Z \in Nat :
        /\ X = (u3 * M + u2) * M + u1 /\ Y = (p3 * M + p2) * M + p1
        /\ Z = (r3 * M + r2) * M + r1
    <2>1. \A x, y, z \in Nat : (x * M + y) * M + z \in Nat
        BY Bases
    <2> QED
        BY <1>7, <2>1
<1>12. Value(u) = X /\ Value(p) = Y /\ Value(d.u) = Z
    BY <1>4, <1>5, <1>6, <1>11 DEF Value
<1>13. X = Y + Z - b3 * (M * N)
    <2>1. ((p3 + b2 + r3 - b3 * M) * M + (p2 + b1 + r2 - b2 * M)) * M + (p1 + r1 - b1 * M)
          = ((p3 * M + p2) * M + p1) + ((r3 * M + r2) * M + r1) - b3 * (M * (M * M))
        BY <1>7, Bases
    <2> QED
        BY <1>8, <1>9, <1>10, <1>11, <2>1, Bases, Zenon
<1>14. Z < M * N
    <2>1. PICK g \in Nat : g = r3 * M + r2 /\ g < N
        <3>1. FromWords(r3, r2) \in Pattern
            BY <1>7, WordsOf
        <3> QED
            BY <3>1, Bases DEF FromWords, Pattern
    <2>2. M * g + M <= M * N
        BY <2>1, Bases, TimesAbove
    <2>3. g * M = M * g /\ g * M \in Int /\ M * N \in Int
        BY Bases
    <2>4. Z = g * M + r1
        BY <1>11, <2>1, Zenon
    <2> QED
        BY <1>7, <2>2, <2>3, <2>4, Bases
<1>15. b3 = 0
    <2> SUFFICES ASSUME b3 = 1 PROVE FALSE
        OBVIOUS
    <2>1. b3 * (M * N) = M * N /\ M * N \in Int
        BY Bases
    <2>2. Y <= X
        BY <1>12
    <2> QED
        BY <1>13, <1>14, <2>1, <2>2
<1>16. Z = X - Y
    <2>1. b3 * (M * N) = 0
        BY <1>15, Bases
    <2> QED
        BY <1>13, <2>1
<1> QED
    BY <1>4, <1>6, <1>12, <1>15, <1>16

\* The words' test of an estimate m is that of the numbers.
LEMMA WordsCompare ==
    \A m, vl, u0 \in Word, t \in Nat :
        LET p == FullMulWord(m, vl)
        IN p.hi > t \/ (p.hi = t /\ p.lo > u0) <=> m * vl > M * t + u0
<1> SUFFICES ASSUME NEW m \in Word, NEW vl \in Word, NEW u0 \in Word, NEW t \in Nat,
                    NEW p, p = FullMulWord(m, vl)
             PROVE  p.hi > t \/ (p.hi = t /\ p.lo > u0) <=> m * vl > M * t + u0
    OBVIOUS
<1>1. p.hi \in Word /\ p.lo \in Word /\ m * vl = p.hi * M + p.lo
    BY FullMulWordIs
<1>2. PICK hi \in Nat, lo \in Word : hi = p.hi /\ lo = p.lo
    BY <1>1, Bases DEF Word
<1>3. t * M + u0 < hi * M + lo <=> t < hi \/ (t = hi /\ u0 < lo)
    <2>1. t \in Int /\ hi \in Int
        OBVIOUS
    <2> QED
        BY <2>1, LexicographicOrder, Zenon
<1>4. PICK x \in Int, y \in Int : x = t * M + u0 /\ y = hi * M + lo
    <2>1. u0 \in Nat /\ lo \in Nat /\ t * M \in Int /\ hi * M \in Int
        BY Bases DEF Word
    <2> QED
        BY <2>1
<1>5. m * vl = y /\ M * t + u0 = x
    <2>1. M * t = t * M
        BY Bases
    <2> QED
        BY <1>1, <1>2, <1>4, <2>1, Zenon
<1>6. lo \in Int /\ u0 \in Int
    BY Bases DEF Word
<1> QED
    BY <1>2, <1>3, <1>4, <1>5, <1>6

\* The corrected estimate of D3 is the digit, found in two rounds at most.
LEMMA CorrectQHatIs ==
    \A vh, vl, u0 \in Word, q, rhat, qs \in Nat :
        /\ q \in Word /\ qs <= q /\ q <= qs + 2
        /\ \A k \in Int : (q - k) * vl > M * (rhat + k * vh) + u0 <=> q - k > qs
        /\ \A k \in Int : k > 0 /\ rhat + k * vh >= M => q - k <= qs
        => LET c == CorrectQHat(q, rhat, vh, vl, u0)
           IN c[1] = qs /\ c[2] \in 0..2
<1> TAKE vh, vl, u0 \in Word, q, rhat, qs \in Nat
<1> HAVE /\ q \in Word /\ qs <= q /\ q <= qs + 2
         /\ \A k \in Int : (q - k) * vl > M * (rhat + k * vh) + u0 <=> q - k > qs
         /\ \A k \in Int : k > 0 /\ rhat + k * vh >= M => q - k <= qs
<1> DEFINE c == CorrectQHat(q, rhat, vh, vl, u0)
<1> DEFINE TooLarge(k) == LET p == FullMulWord(q - k, vl)
                          IN p.hi > rhat + k * vh \/ (p.hi = rhat + k * vh /\ p.lo > u0)
           Leaves(k) == ~TooLarge(k) \/ (k > 0 /\ rhat + k * vh >= M)
           rounds == CHOOSE k \in 0..M : Leaves(k) /\ \A j \in 0..(k - 1) : ~Leaves(j)
<1>1. PICK n \in 0..2 : n = q - qs
    OBVIOUS
<1>2. q < M /\ vh \in Nat
    BY Bases DEF Word
<1>3. \A k \in 0..n : TooLarge(k) <=> q - k > qs
    <2> SUFFICES ASSUME NEW k \in 0..n PROVE TooLarge(k) <=> q - k > qs
        OBVIOUS
    <2>1. PICK m \in Word : m = q - k
        BY <1>1, <1>2, Bases DEF Word
    <2>2. PICK t \in Nat : t = rhat + k * vh
        <3>1. k * vh \in Nat
            BY <1>2
        <3> QED
            BY <3>1
    <2>3. TooLarge(k) <=> m * vl > M * t + u0
        BY <2>1, <2>2, WordsCompare
    <2>4. (q - k) * vl > M * (rhat + k * vh) + u0 <=> q - k > qs
        OBVIOUS
    <2> HIDE DEF TooLarge
    <2> QED
        BY <2>1, <2>2, <2>3, <2>4
<1>4. \A k \in 0..n : Leaves(k) <=> q - k <= qs
    <2> SUFFICES ASSUME NEW k \in 0..n PROVE Leaves(k) <=> q - k <= qs
        OBVIOUS
    <2>1. TooLarge(k) <=> q - k > qs
        BY <1>3
    <2>2. k > 0 /\ rhat + k * vh >= M => q - k <= qs
        OBVIOUS
    <2> HIDE DEF TooLarge
    <2> QED
        BY <2>1, <2>2
<1> HIDE DEF Leaves
<1>5. n \in 0..M /\ Leaves(n) /\ \A j \in 0..(n - 1) : ~Leaves(j)
    <2>1. n \in 0..M
        BY <1>1, <1>2, Bases
    <2> QED
        BY <1>1, <1>4, <2>1
<1>6. \A k \in 0..M : Leaves(k) /\ (\A j \in 0..(k - 1) : ~Leaves(j)) => k = n
    <2> SUFFICES ASSUME NEW k \in 0..M, Leaves(k), \A j \in 0..(k - 1) : ~Leaves(j) PROVE k = n
        OBVIOUS
    <2>1. ~(k > n)
        BY <1>5
    <2>2. ~(k < n)
        BY <1>5
    <2>3. k \in Int /\ n \in Int
        BY Bases
    <2> QED
        BY <2>1, <2>2, <2>3
<1>7. rounds = n
    BY <1>5, <1>6
<1>8. c = <<q - n, n>>
    BY <1>7 DEF CorrectQHat, Leaves
<1> QED
    BY <1>1, <1>8

\* For a divisor v of two words, with the top bit set, and a dividend u of three
\* words with the leading one below v's, the estimate from v's leading word, as
\* corrected, is the quotient, and D4 leaves the remainder without a borrow.
LEMMA KnuthDigitIs ==
    \A v \in Pattern, u1, u2, u3 \in Word :
        Normal(High(v)) /\ u3 < High(v)
        => LET u == <<u1, u2, u3>>
               digit == CorrectedQHat(DivNormalized(u3, u2, High(v)), u, v)
               result == KnuthSubtract(u, v, digit)
           IN /\ result.q = Value(u) \div v
              /\ Value(result.u) = Value(u) % v
              /\ result.steps \in 0..2
              /\ result.u[1] \in Word /\ result.u[2] \in Word /\ result.u[3] \in Word
              /\ SubFull(u, FullMul(v, digit[1])).borrow = 0
<1> SUFFICES ASSUME NEW v \in Pattern, NEW u1 \in Word, NEW u2 \in Word, NEW u3 \in Word,
                    Normal(High(v)), u3 < High(v),
                    NEW u, u = <<u1, u2, u3>>,
                    NEW d, d = DivNormalized(u3, u2, High(v)),
                    NEW digit, digit = CorrectedQHat(d, u, v),
                    NEW result, result = KnuthSubtract(u, v, digit)
             PROVE  /\ result.q = Value(u) \div v
                    /\ Value(result.u) = Value(u) % v
                    /\ result.steps \in 0..2
                    /\ result.u[1] \in Word /\ result.u[2] \in Word /\ result.u[3] \in Word
                    /\ SubFull(u, FullMul(v, digit[1])).borrow = 0
    OBVIOUS
<1>1. PICK vh \in Word, vl \in Word : vh = High(v) /\ vl = Low(v) /\ v = vh * M + vl
    BY PatternWords
<1>2. /\ u1 \in Nat /\ u2 \in Nat /\ u3 \in Nat /\ vh \in Nat /\ vl \in Nat
      /\ u1 < M /\ u2 < M /\ vl < M /\ u3 < vh
    BY <1>1, Bases DEF Word
<1>3. PICK un \in Nat : un = u3 * M + u2
    <2>1. u3 * M \in Nat
        BY <1>2, Bases
    <2> QED
        BY <1>2, <2>1
<1>4. d.q = un \div vh /\ d.r = un % vh /\ d.q \in Word
    BY <1>1, <1>3, DivNormalizedIs
<1>5. un < vh * M + vl
    <2>1. M * u3 + M <= M * vh
        BY <1>2, Bases, TimesAbove
    <2>2. M * u3 = u3 * M /\ M * vh = vh * M /\ u3 * M \in Int /\ vh * M \in Int
        BY <1>2, Bases
    <2> QED
        BY <1>2, <1>3, <2>1, <2>2, Bases
<1>6. Close(M, vh, vl, un, u1)
    <2>1. M \in Nat /\ 0 < M /\ M <= 2 * vh
        BY <1>1, Bases DEF Normal
    <2> QED
        BY <1>2, <1>5, <2>1, EstimateIsClose
<1>7. PICK q \in Nat, rhat \in Nat, qs \in Nat :
        /\ q = un \div vh /\ rhat = un % vh
        /\ qs = (un * M + u1) \div (vh * M + vl)
        /\ qs < M /\ qs <= q /\ q <= qs + 2
        /\ \A k \in Int : (q - k) * vl > M * (rhat + k * vh) + u1 <=> q - k > qs
        /\ \A k \in Int : k > 0 /\ rhat + k * vh >= M => q - k <= qs
    BY <1>6 DEF Close
<1>8. digit[1] = qs /\ digit[2] \in 0..2
    <2>1. digit = CorrectQHat(q, rhat, vh, vl, u1)
        <3>1. u[1] = u1
            OBVIOUS
        <3> QED
            BY <1>1, <1>4, <1>7, <3>1, Zenon DEF CorrectedQHat
    <2>2. q \in Word
        BY <1>4, <1>7, Zenon
    <2>3. CorrectQHat(q, rhat, vh, vl, u1)[1] = qs /\ CorrectQHat(q, rhat, vh, vl, u1)[2] \in 0..2
        BY <1>7, <2>2, CorrectQHatIs
    <2> QED
        BY <2>1, <2>3, Zenon
<1>9. PICK U \in Nat : U = un * M + u1 /\ U = Value(u)
    <2>1. un * M \in Nat
        BY Bases
    <2>2. u[1] = u1 /\ u[2] = u2 /\ u[3] = u3
        OBVIOUS
    <2>3. Value(u) = un * M + u1
        BY <1>3, <2>2, Zenon DEF Value
    <2> QED
        BY <1>2, <2>1, <2>3
<1>10. v \in Nat \ {0}
    <2>1. vh > 0
        BY <1>2
    <2>2. vh * M > 0
        BY <1>2, <2>1, Bases
    <2>3. vh * M \in Nat
        BY <1>2, Bases
    <2> QED
        BY <1>1, <1>2, <2>2, <2>3
<1>11. qs = U \div v
    BY <1>1, <1>7, <1>9, Zenon
<1>12. PICK r \in Nat : r = U % v /\ U = v * qs + r
    <2>1. U % v \in Nat /\ U = v * (U \div v) + (U % v)
        <3>1. U \in Int /\ v \in Nat \ {0}
            BY <1>10
        <3> QED
            BY <3>1, DivideBy
    <2>2. U = v * qs + (U % v)
        BY <1>11, <2>1, Zenon
    <2> QED
        BY <2>1, <2>2, Zenon
<1>13. PICK p : p = FullMul(v, qs) /\ p[1] \in Word /\ p[2] \in Word /\ p[3] \in Word /\ Value(p) = v * qs
    <2>1. qs \in Word
        BY <1>7, Bases DEF Word
    <2> QED
        BY <2>1, FullMulIs
<1>14. v * qs \in Nat /\ v * qs <= U /\ U - v * qs = r
    <2>1. v * qs \in Nat
        BY <1>10, ProductNat
    <2> QED
        BY <1>12, <2>1
<1>15. /\ SubFull(u, p).borrow = 0 /\ Value(SubFull(u, p).u) = r
       /\ SubFull(u, p).u[1] \in Word /\ SubFull(u, p).u[2] \in Word /\ SubFull(u, p).u[3] \in Word
    <2>1. u[1] \in Word /\ u[2] \in Word /\ u[3] \in Word
        OBVIOUS
    <2>2. Value(p) <= Value(u)
        BY <1>9, <1>13, <1>14
    <2>3. /\ SubFull(u, p).borrow = 0 /\ Value(SubFull(u, p).u) = Value(u) - Value(p)
          /\ SubFull(u, p).u[1] \in Word /\ SubFull(u, p).u[2] \in Word /\ SubFull(u, p).u[3] \in Word
        BY <1>13, <2>1, <2>2, SubFullIs
    <2> QED
        BY <1>9, <1>13, <1>14, <2>3
<1>16. result = KnuthResult(v, digit, SubFull(u, p))
    BY <1>8, <1>13, Zenon DEF KnuthSubtract
<1>17. result.q = qs /\ result.u = SubFull(u, p).u /\ result.steps = digit[2]
    <2>1. ~(SubFull(u, p).borrow = 1)
        BY <1>15
    <2> QED
        BY <1>8, <1>16, <2>1 DEF KnuthResult
<1> QED
    BY <1>8, <1>9, <1>11, <1>12, <1>13, <1>15, <1>17, Zenon

\* The quotient, and the remainder in three words: of u by v, and shifted back.
KnuthDivides(result, a, b, p, u, v) ==
    /\ result.q = a \div b /\ Value(result.u) \div p = a % b
    /\ Value(result.u) = Value(u) % v /\ result.steps \in 0..2
    /\ result.u[1] \in Word /\ result.u[2] \in Word /\ result.u[3] \in Word

\* div_mod_knuth is exact for every dividend and every divisor of two words: with
\* v = b * p the divisor shifted until its top bit is set, and the three words u
\* of the dividend shifted with it, the digit is the quotient, what D4 leaves is
\* the remainder, shifted, the correction takes two rounds at most, and there is
\* never a borrow: D6 has nothing to add back.
THEOREM TwoWordDivisionIsExact ==
    \A a, b, v \in Pattern, p \in Nat \ {0}, u1, u2, u3 \in Word :
        LET u == <<u1, u2, u3>>
            digit == CorrectedQHat(DivNormalized(u3, u2, High(v)), u, v)
            result == KnuthSubtract(u, v, digit)
        IN High(b) # 0 /\ b * p = v /\ Normal(High(v)) /\ Value(u) = a * p
           => /\ KnuthDivides(result, a, b, p, u, v)
              /\ SubFull(u, FullMul(v, digit[1])).borrow = 0
              /\ u3 < High(v)
<1> SUFFICES ASSUME NEW a \in Pattern, NEW b \in Pattern, NEW v \in Pattern, NEW p \in Nat \ {0},
                    NEW u1 \in Word, NEW u2 \in Word, NEW u3 \in Word,
                    NEW u, u = <<u1, u2, u3>>, b * p = v,
                    NEW digit, digit = CorrectedQHat(DivNormalized(u3, u2, High(v)), u, v),
                    NEW result, result = KnuthSubtract(u, v, digit),
                    High(b) # 0, Normal(High(v)), Value(u) = a * p
             PROVE  /\ KnuthDivides(result, a, b, p, u, v)
                    /\ SubFull(u, FullMul(v, digit[1])).borrow = 0
                    /\ u3 < High(v)
    OBVIOUS
<1>1. /\ a \in Nat /\ a < N /\ b \in Nat
      /\ u1 \in Nat /\ u2 \in Nat /\ u3 \in Nat
    BY Bases DEF Pattern, Word
<1>2. PICK bh \in Nat, bl \in Nat : bh = High(b) /\ bh >= 1 /\ b = bh * M + bl
    BY PatternWords, Bases DEF Word
<1>3. b >= M
    <2>1. M * 1 <= M * bh
        BY <1>2, Bases, TimesUp
    <2>2. M * bh = bh * M /\ bh * M \in Int
        BY Bases
    <2> QED
        BY <1>2, <2>1, <2>2, Bases
<1>4. b \in Nat \ {0}
    BY <1>1, <1>3, Bases
<1>5. u3 < p
    <2> SUFFICES ASSUME p <= u3 PROVE FALSE
        BY <1>1
    <2>1. N * p <= N * u3
        BY <1>1, Bases, TimesUp
    <2>2. p * a + p <= p * N
        BY <1>1, Bases, TimesAbove
    <2>3. Value(u) = N * u3 + (u2 * M + u1)
        <3>1. u[1] = u1 /\ u[2] = u2 /\ u[3] = u3
            OBVIOUS
        <3>2. (u3 * M + u2) * M + u1 = (M * M) * u3 + (u2 * M + u1)
            BY <1>1, Bases
        <3> QED
            BY <3>1, <3>2, Bases, Zenon DEF Value
    <2>4. PICK s \in Nat : s = u2 * M + u1
        <3>1. u2 * M \in Nat
            BY <1>1, Bases
        <3> QED
            BY <1>1, <3>1
    <2>5. a * p = N * u3 + s
        BY <2>3, <2>4, Zenon
    <2>6. a * p = p * a /\ N * p = p * N /\ p * a \in Int /\ p * N \in Int /\ N * u3 \in Int
        BY <1>1, Bases
    <2> QED
        BY <2>1, <2>2, <2>4, <2>5, <2>6
<1>6. p <= High(v)
    <2>1. PICK vh \in Nat, vl \in Nat : vh = High(v) /\ v = vh * M + vl /\ vl < M
        BY PatternWords, Bases DEF Word
    <2> SUFFICES ASSUME vh < p PROVE FALSE
        BY <2>1
    <2>2. M * vh + M <= M * p
        BY <2>1, Bases, TimesAbove
    <2>3. p * M <= p * b
        BY <1>1, <1>3, Bases, TimesUp
    <2>4. /\ M * vh = vh * M /\ M * p = p * M /\ p * b = b * p
          /\ vh * M \in Int /\ p * M \in Int /\ b * p \in Int
        BY <1>1, Bases
    <2> QED
        BY <2>1, <2>2, <2>3, <2>4, Bases
<1>7. u3 < High(v)
    <2>1. High(v) \in Int
        BY PatternWords, Bases DEF Word
    <2> QED
        BY <1>1, <1>5, <1>6, <2>1
<1>8. /\ result.q = Value(u) \div v /\ Value(result.u) = Value(u) % v
      /\ result.steps \in 0..2 /\ SubFull(u, FullMul(v, digit[1])).borrow = 0
      /\ result.u[1] \in Word /\ result.u[2] \in Word /\ result.u[3] \in Word
    BY <1>7, KnuthDigitIs
<1>9. (a * p) \div (b * p) = a \div b /\ (a * p) % (b * p) = (a % b) * p
    BY <1>1, <1>4, ScaledDivision
<1>10. result.q = a \div b /\ Value(result.u) = (a % b) * p
    BY <1>8, <1>9, Zenon
<1>11. PICK r \in Nat : r = a % b
    <2>1. a \in Int /\ b \in Nat \ {0}
        BY <1>1, <1>4
    <2> QED
        BY <2>1, DivideBy
<1>12. (r * p) \div p = r
    <2>1. PICK x \in Int : x = r * p
        OBVIOUS
    <2>2. x = p * r + 0 /\ 0 <= 0 /\ 0 < p
        BY <2>1
    <2>3. x \in Int /\ r \in Int /\ 0 \in Int /\ p \in Nat \ {0}
        OBVIOUS
    <2>4. x \div p = r
        BY <2>2, <2>3, DivideUnique
    <2> QED
        BY <2>1, <2>4
<1> QED
    BY <1>7, <1>8, <1>10, <1>11, <1>12, Zenon DEF KnuthDivides

-----------------------------------------------------------------------------
(* Powers of two *)

\* A function by recursion on the numbers up to n.
Iterates(f, n, base, step) == f[0] = base /\ \A i \in 1..n : f[i] = step[f[i - 1]]

LEMMA Iterate ==
    ASSUME NEW n \in Nat, NEW V, NEW base \in V, NEW step \in [V -> V]
    PROVE  \E f \in [0..n -> V] : Iterates(f, n, base, step)
<1> DEFINE Upto(k, f) == f[0] = base /\ \A i \in 1..k : f[i] = step[f[i - 1]]
           G == {k \in Nat : k <= n => \E f \in [0..n -> V] : Upto(k, f)}
<1>1. 0 \in G
    <2> DEFINE f == [i \in 0..n |-> base]
    <2>1. f \in [0..n -> V] /\ Upto(0, f)
        OBVIOUS
    <2> QED
        BY <2>1
<1>2. ASSUME NEW k \in Nat, k \in G PROVE k + 1 \in G
    <2> SUFFICES ASSUME k + 1 <= n PROVE \E f \in [0..n -> V] : Upto(k + 1, f)
        OBVIOUS
    <2>1. PICK f \in [0..n -> V] : Upto(k, f)
        BY <1>2
    <2> DEFINE g == [i \in 0..n |-> IF i = k + 1 THEN step[f[k]] ELSE f[i]]
    <2>2. k \in 0..n
        OBVIOUS
    <2>3. g \in [0..n -> V]
        BY <2>2
    <2>4. ASSUME NEW i \in 1..(k + 1) PROVE g[i] = step[g[i - 1]]
        <3>1. i \in 0..n /\ i - 1 \in 0..n /\ i - 1 # k + 1
            OBVIOUS
        <3>2. g[i - 1] = f[i - 1]
            BY <3>1
        <3>3. CASE i = k + 1
            BY <3>1, <3>2, <3>3
        <3>4. CASE i # k + 1
            BY <2>1, <3>1, <3>2, <3>4
        <3> QED
            BY <3>3, <3>4
    <2>5. g[0] = base
        BY <2>1
    <2>6. Upto(k + 1, g)
        BY <2>4, <2>5
    <2> QED
        BY <2>3, <2>6
<1>3. n \in G
    BY <1>1, <1>2, NatClosure
<1>4. PICK f \in [0..n -> V] : Upto(n, f)
    BY <1>3
<1> QED
    BY <1>4 DEF Iterates

LEMMA Widths ==
    /\ HALF \in Nat \ {0} /\ WORD \in Nat /\ BITS \in Nat
    /\ WORD = HALF + HALF /\ BITS = WORD + WORD /\ WORD >= 2
BY WidthsAssumption DEF WORD, BITS

LEMMA Pow2Is ==
    /\ \A n \in 0..BITS : Pow2[n] \in Nat \ {0}
    /\ Pow2[0] = 1
    /\ \A n \in 1..BITS : Pow2[n] = 2 * Pow2[n - 1]
<1> DEFINE step == [v \in Nat \ {0} |-> 2 * v]
<1>1. step \in [Nat \ {0} -> Nat \ {0}]
    OBVIOUS
<1>2. BITS \in Nat /\ 1 \in Nat \ {0}
    BY Widths
<1>3. PICK f \in [0..BITS -> Nat \ {0}] : Iterates(f, BITS, 1, step)
    <2> HIDE DEF step
    <2> QED
        BY <1>1, <1>2, Iterate, Zenon
<1>4. ASSUME NEW i \in 1..BITS PROVE f[i] = 2 * f[i - 1]
    <2>1. f[i - 1] \in Nat \ {0}
        BY <1>2
    <2> QED
        BY <1>3, <2>1 DEF Iterates
<1>5. f = [n \in 0..BITS |-> IF n = 0 THEN 1 ELSE 2 * f[n - 1]]
    <2>1. ASSUME NEW n \in 0..BITS PROVE f[n] = IF n = 0 THEN 1 ELSE 2 * f[n - 1]
        <3>1. CASE n = 0
            BY <1>3, <3>1 DEF Iterates
        <3>2. CASE n # 0
            <4>1. n \in 1..BITS
                BY <1>2, <3>2
            <4> QED
                BY <1>4, <3>2, <4>1
        <3> QED
            BY <3>1, <3>2
    <2> QED
        BY <2>1
<1>6. \E g : g = [n \in 0..BITS |-> IF n = 0 THEN 1 ELSE 2 * g[n - 1]]
    BY <1>5
<1>7. Pow2 = [n \in 0..BITS |-> IF n = 0 THEN 1 ELSE 2 * Pow2[n - 1]]
    BY <1>6 DEF Pow2
<1>8. Pow2[0] = 1 /\ \A n \in 1..BITS : Pow2[n] = 2 * Pow2[n - 1]
    BY <1>2, <1>7
<1> DEFINE G == {n \in Nat : n <= BITS => Pow2[n] \in Nat \ {0}}
<1>9. 0 \in G
    BY <1>8
<1>10. ASSUME NEW n \in Nat, n \in G PROVE n + 1 \in G
    <2> SUFFICES ASSUME n + 1 <= BITS PROVE Pow2[n + 1] \in Nat \ {0}
        OBVIOUS
    <2>1. n + 1 \in 1..BITS /\ (n + 1) - 1 = n /\ Pow2[n] \in Nat \ {0}
        BY <1>2, <1>10
    <2>2. Pow2[n + 1] = 2 * Pow2[n]
        BY <1>8, <2>1
    <2> QED
        BY <2>1, <2>2
<1>11. Nat \subseteq G
    BY <1>9, <1>10, NatClosure
<1> QED
    BY <1>2, <1>8, <1>11

LEMMA Pow2Sum ==
    \A m, n \in Nat : m + n <= BITS => Pow2[m + n] = Pow2[m] * Pow2[n]
<1> SUFFICES ASSUME NEW m \in Nat PROVE \A n \in Nat : m + n <= BITS => Pow2[m + n] = Pow2[m] * Pow2[n]
    OBVIOUS
<1> DEFINE G == {n \in Nat : m + n <= BITS => Pow2[m + n] = Pow2[m] * Pow2[n]}
<1>1. 0 \in G
    <2> SUFFICES ASSUME m <= BITS PROVE Pow2[m + 0] = Pow2[m] * Pow2[0]
        BY Widths
    <2>1. m \in 0..BITS /\ m + 0 = m
        BY Widths
    <2> QED
        BY <2>1, Pow2Is
<1>2. ASSUME NEW n \in Nat, n \in G PROVE n + 1 \in G
    <2> SUFFICES ASSUME m + (n + 1) <= BITS PROVE Pow2[m + (n + 1)] = Pow2[m] * Pow2[n + 1]
        OBVIOUS
    <2>1. /\ m \in 0..BITS /\ n \in 0..BITS /\ n + 1 \in 1..BITS /\ m + (n + 1) \in 1..BITS
          /\ (m + (n + 1)) - 1 = m + n /\ (n + 1) - 1 = n /\ m + n \in 0..BITS
        BY Widths
    <2>2. Pow2[m + n] = Pow2[m] * Pow2[n]
        BY <1>2, <2>1, Widths
    <2>3. Pow2[m + (n + 1)] = 2 * Pow2[m + n] /\ Pow2[n + 1] = 2 * Pow2[n]
        BY <2>1, Pow2Is
    <2>4. PICK a, b \in Nat : a = Pow2[m] /\ b = Pow2[n]
        BY <2>1, Pow2Is
    <2>5. 2 * (a * b) = a * (2 * b)
        OBVIOUS
    <2> QED
        BY <2>2, <2>3, <2>4, <2>5
<1>3. Nat \subseteq G
    BY <1>1, <1>2, NatClosure
<1> QED
    BY <1>3

LEMMA Pow2Words ==
    /\ B = Pow2[HALF] /\ M = Pow2[WORD] /\ N = Pow2[BITS]
<1>1. B = Pow2[HALF]
    BY WidthsAssumption
<1>2. Pow2[WORD] = Pow2[HALF] * Pow2[HALF]
    <2>1. HALF \in Nat /\ HALF + HALF <= BITS /\ WORD = HALF + HALF
        BY Widths
    <2> QED
        BY <2>1, Pow2Sum
<1>3. Pow2[BITS] = Pow2[WORD] * Pow2[WORD]
    <2>1. WORD \in Nat /\ WORD + WORD <= BITS /\ BITS = WORD + WORD
        BY Widths
    <2> QED
        BY <2>1, Pow2Sum
<1> QED
    BY <1>1, <1>2, <1>3, Bases

\* A shift by s within a word splits it in two.
LEMMA Pow2Split ==
    ASSUME NEW n \in Nat, n <= BITS, NEW s \in 0..n
    PROVE  /\ Pow2[s] \in Nat \ {0} /\ Pow2[n - s] \in Nat \ {0}
           /\ Pow2[n] = Pow2[s] * Pow2[n - s]
<1>1. s \in Nat /\ n - s \in Nat /\ s + (n - s) = n /\ s \in 0..BITS /\ n - s \in 0..BITS
    BY Widths
<1> QED
    BY <1>1, Pow2Is, Pow2Sum

-----------------------------------------------------------------------------
(* Shifts are products and quotients *)

LEMMA CutTwice ==
    \A a \in Int, p, q \in Nat \ {0} : (a \div p) \div q = a \div (p * q)
<1> SUFFICES ASSUME NEW a \in Int, NEW p \in Nat \ {0}, NEW q \in Nat \ {0}
             PROVE  (a \div p) \div q = a \div (p * q)
    OBVIOUS
<1>1. p * q = q * p /\ p * q \in Nat \ {0}
    <2>1. p * q \in Nat
        BY ProductNat
    <2>2. p * q # 0
        BY SMT
    <2> QED
        BY <2>1, <2>2
<1>2. PICK d \in Int, r \in Nat : d = a \div p /\ r = a % p
    BY DivideBy
<1>3. a = p * d + r /\ r < p
    BY <1>2, DivideBy
<1>4. d \div q = a \div (p * q)
    <2>1. PICK e \in Int, t \in Nat : e = d \div q /\ t = d % q
        BY DivideBy
    <2>2. d = q * e + t /\ t < q
        BY <2>1, DivideBy
    <2>3. p * d = p * (q * e) + p * t
        BY <2>2, ProductNat
    <2>4. p * (q * e) = (p * q) * e
        OBVIOUS
    <2>5. p * t + p <= p * q
        BY <2>2, TimesAbove
    <2>6. PICK u \in Nat, v \in Nat, w \in Int : u = p * q /\ v = p * t /\ w = u * e
        BY ProductNat
    <2>7. a = w + (v + r)
        BY <1>3, <2>3, <2>4, <2>6
    <2>8. 0 <= v + r /\ v + r < u
        BY <1>3, <2>5, <2>6
    <2>9. u \in Nat \ {0} /\ v + r \in Int /\ e \in Int /\ a \in Int
        BY <1>1, <2>6
    <2>10. a \div u = e
        BY <2>6, <2>7, <2>8, <2>9, DivideUnique
    <2> QED
        BY <2>1, <2>6, <2>10
<1> QED
    BY <1>2, <1>4

LEMMA CutUp ==
    \A a \in Nat, p, q \in Nat \ {0} :
        /\ (a * p) % (p * q) = (a % q) * p /\ (a * p) \div (p * q) = a \div q
        /\ a < p * q => a \div p < q
        /\ (a \div p) \div q = a \div (p * q)
        /\ a % p < p /\ a \div p \in Nat /\ a % p \in Nat
<1> SUFFICES ASSUME NEW a \in Nat, NEW p \in Nat \ {0}, NEW q \in Nat \ {0}
             PROVE  /\ (a * p) % (p * q) = (a % q) * p /\ (a * p) \div (p * q) = a \div q
                    /\ a < p * q => a \div p < q
                    /\ (a \div p) \div q = a \div (p * q)
                    /\ a % p < p /\ a \div p \in Nat /\ a % p \in Nat
    OBVIOUS
<1>1. p * q = q * p /\ p * q \in Nat \ {0}
    <2>1. p * q \in Nat
        BY ProductNat
    <2>2. p * q # 0
        BY SMT
    <2> QED
        BY <2>1, <2>2
<1>2. (a * p) % (p * q) = (a % q) * p /\ (a * p) \div (p * q) = a \div q
    <2>1. (a * p) \div (q * p) = a \div q /\ (a * p) % (q * p) = (a % q) * p
        BY ScaledDivision
    <2> QED
        BY <1>1, <2>1
<1>3. PICK d \in Nat, r \in Nat : d = a \div p /\ r = a % p
    <2>1. a \in Int /\ a \div p \in Nat /\ a % p \in Nat
        BY DivideBy
    <2> QED
        BY <2>1
<1>4. a = p * d + r /\ r < p
    BY <1>3, DivideBy
<1>5. a < p * q => d < q
    <2> SUFFICES ASSUME a < p * q, q <= d PROVE FALSE
        OBVIOUS
    <2>1. p * q <= p * d
        BY TimesUp
    <2>2. PICK u, v \in Nat : u = p * q /\ v = p * d
        BY ProductNat
    <2> QED
        BY <1>4, <2>1, <2>2
<1>6. (a \div p) \div q = a \div (p * q)
    <2>1. a \in Int
        OBVIOUS
    <2> QED
        BY <2>1, CutTwice, Zenon
<1> QED
    BY <1>2, <1>3, <1>4, <1>5, <1>6

-----------------------------------------------------------------------------
(* The bitwise operators of a word *)

LEMMA Halves ==
    \A a \in Nat : /\ a \div 2 \in Nat /\ a % 2 \in 0..1 /\ a = 2 * (a \div 2) + (a % 2)
                   /\ a # 0 => a \div 2 < a
                   /\ a \in Word => a \div 2 \in Word
BY Bases DEF Word

BitStep(bit, g, a, b) ==
    IF a = 0 /\ b = 0 THEN 0 ELSE bit[(a % 2) + (b % 2)] + 2 * g[a \div 2][b \div 2]

LEMMA TableExists ==
    ASSUME NEW bit
    PROVE  \E g : g = [a \in Word |-> [b \in Word |-> BitStep(bit, g, a, b)]]
<1> DEFINE Upto(n, g) == \A a, b \in Word : a + b <= n => g[a][b] = BitStep(bit, g, a, b)
           Reached == {n \in Nat : \E g : Upto(n, g)}
<1>0. \A a \in Word : a \in Nat
    BY DEF Word
<1>1. 0 \in Reached
    <2> DEFINE z == [a \in Word |-> [b \in Word |-> 0]]
    <2>1. ASSUME NEW a \in Word, NEW b \in Word, a + b <= 0 PROVE z[a][b] = BitStep(bit, z, a, b)
        <3>1. a = 0 /\ b = 0
            BY <1>0, <2>1
        <3> QED
            BY <3>1 DEF BitStep
    <2>2. Upto(0, z)
        BY <2>1
    <2> QED
        BY <2>2
<1>2. ASSUME NEW n \in Nat, n \in Reached PROVE n + 1 \in Reached
    <2>1. PICK g : Upto(n, g)
        BY <1>2
    <2> DEFINE h == [a \in Word |-> [b \in Word |-> BitStep(bit, g, a, b)]]
    <2>2. ASSUME NEW a \in Word, NEW b \in Word, a + b <= n + 1 PROVE h[a][b] = BitStep(bit, h, a, b)
        <3>1. CASE a = 0 /\ b = 0
            BY <3>1 DEF BitStep
        <3>2. CASE ~(a = 0 /\ b = 0)
            <4>1. a \div 2 \in Word /\ b \div 2 \in Word /\ (a \div 2) + (b \div 2) <= n
                BY <1>0, <2>2, <3>2, Halves
            <4>2. g[a \div 2][b \div 2] = BitStep(bit, g, a \div 2, b \div 2)
                BY <2>1, <4>1
            <4>3. h[a \div 2][b \div 2] = g[a \div 2][b \div 2]
                BY <4>1, <4>2
            <4>4. h[a][b] = BitStep(bit, g, a, b)
                OBVIOUS
            <4> HIDE DEF h
            <4> QED
                BY <3>2, <4>3, <4>4 DEF BitStep
        <3> QED
            BY <3>1, <3>2
    <2>3. Upto(n + 1, h)
        BY <2>2
    <2>4. \E k : Upto(n + 1, k)
        BY <2>3
    <2> QED
        BY <2>4
<1>3. M + M \in Reached
    <2>1. Nat \subseteq Reached
        BY <1>1, <1>2, NatClosure
    <2> QED
        BY <2>1, Bases
<1>4. PICK g : Upto(M + M, g)
    BY <1>3
<1>5. \A a, b \in Word : g[a][b] = BitStep(bit, g, a, b)
    BY <1>4, Bases DEF Word
<1> DEFINE h == [a \in Word |-> [b \in Word |-> g[a][b]]]
<1>6. ASSUME NEW a \in Word, NEW b \in Word PROVE h[a][b] = BitStep(bit, h, a, b)
    <2>1. a \div 2 \in Word /\ b \div 2 \in Word
        BY <1>0, Halves
    <2>2. h[a \div 2][b \div 2] = g[a \div 2][b \div 2] /\ h[a][b] = BitStep(bit, g, a, b)
        BY <1>5, <2>1
    <2> HIDE DEF h
    <2> QED
        BY <2>2 DEF BitStep
<1>7. h = [a \in Word |-> [b \in Word |-> BitStep(bit, h, a, b)]]
    <2>1. ASSUME NEW a \in Word PROVE h[a] = [b \in Word |-> BitStep(bit, h, a, b)]
        <3>1. h[a] = [b \in Word |-> h[a][b]]
            OBVIOUS
        <3> HIDE DEF h
        <3>2. [b \in Word |-> h[a][b]] = [b \in Word |-> BitStep(bit, h, a, b)]
            BY <1>6
        <3> QED
            BY <3>1, <3>2
    <2>2. h = [a \in Word |-> h[a]]
        OBVIOUS
    <2> HIDE DEF h
    <2>3. [a \in Word |-> h[a]] = [a \in Word |-> [b \in Word |-> BitStep(bit, h, a, b)]]
        BY <2>1
    <2> QED
        BY <2>2, <2>3
<1> QED
    BY <1>7

LEMMA TableIs ==
    ASSUME NEW bit
    PROVE  \A a, b \in Word :
             BitByBit(bit)[a][b] =
               IF a = 0 /\ b = 0 THEN 0
               ELSE bit[(a % 2) + (b % 2)] + 2 * BitByBit(bit)[a \div 2][b \div 2]
<1> DEFINE h == CHOOSE h : h = [a \in Word |-> [b \in Word |->
                    IF a = 0 /\ b = 0 THEN 0 ELSE bit[(a % 2) + (b % 2)] + 2 * h[a \div 2][b \div 2]]]
<1>1. BitByBit(bit) = h
    BY DEF BitByBit
<1>2. \E g : g = [a \in Word |-> [b \in Word |->
                    IF a = 0 /\ b = 0 THEN 0 ELSE bit[(a % 2) + (b % 2)] + 2 * g[a \div 2][b \div 2]]]
    BY TableExists, SMTT(30) DEF BitStep
<1>3. h = [a \in Word |-> [b \in Word |->
                    IF a = 0 /\ b = 0 THEN 0 ELSE bit[(a % 2) + (b % 2)] + 2 * h[a \div 2][b \div 2]]]
    BY <1>2
<1>4. \A a, b \in Word : h[a][b] = BitStep(bit, h, a, b)
    <2>1. h = [a \in Word |-> [b \in Word |-> BitStep(bit, h, a, b)]]
        BY <1>3, Zenon DEF BitStep
    <2> HIDE DEF h
    <2>2. \A a \in Word : h[a] = [b \in Word |-> BitStep(bit, h, a, b)]
        BY <2>1
    <2> QED
        BY <2>2
<1> HIDE DEF h
<1> QED
    BY <1>1, <1>4 DEF BitStep

\* The table of an operator that makes no bit of two zeros stays within as many
\* bits as its operands.
LEMMA TableWord ==
    ASSUME NEW bit \in [0..2 -> 0..1]
    PROVE  \A a, b \in Word : BitByBit(bit)[a][b] \in Word
<1> DEFINE T == BitByBit(bit)
           Fits(s) == \A a, b \in Word : a < Pow2[s] /\ b < Pow2[s] => T[a][b] \in Nat /\ T[a][b] < Pow2[s]
           G == {s \in Nat : s <= WORD => Fits(s)}
<1>0. \A a \in Word : a \in Nat /\ a < M
    BY Bases DEF Word
<1>1. \A a, b \in Word : T[a][b] = IF a = 0 /\ b = 0 THEN 0
                                   ELSE bit[(a % 2) + (b % 2)] + 2 * T[a \div 2][b \div 2]
    BY TableIs
<1> HIDE DEF T
<1>2. 0 \in G
    <2>1. Fits(0)
        BY <1>0, <1>1, Pow2Is
    <2> QED
        BY <2>1
<1>3. ASSUME NEW s \in Nat, s \in G PROVE s + 1 \in G
    <2> SUFFICES ASSUME s + 1 <= WORD, NEW a \in Word, NEW b \in Word,
                        a < Pow2[s + 1], b < Pow2[s + 1]
                 PROVE  T[a][b] \in Nat /\ T[a][b] < Pow2[s + 1]
        OBVIOUS
    <2>1. s \in 0..BITS /\ s + 1 \in 1..BITS /\ (s + 1) - 1 = s
        BY Widths
    <2>2. Pow2[s + 1] = 2 * Pow2[s] /\ Pow2[s] \in Nat
        BY <2>1, Pow2Is
    <2>3. /\ a \div 2 \in Word /\ b \div 2 \in Word
          /\ a % 2 \in 0..1 /\ b % 2 \in 0..1
          /\ a \div 2 < Pow2[s] /\ b \div 2 < Pow2[s]
        BY <1>0, <2>2, Halves
    <2>4. T[a \div 2][b \div 2] \in Nat /\ T[a \div 2][b \div 2] < Pow2[s]
        BY <1>3, <2>3, Widths
    <2>5. bit[(a % 2) + (b % 2)] \in 0..1
        <3>1. (a % 2) + (b % 2) \in 0..2
            BY <2>3
        <3> QED
            BY <3>1
    <2>6. PICK t, v : t = T[a \div 2][b \div 2] /\ v = bit[(a % 2) + (b % 2)]
        OBVIOUS
    <2>7. T[a][b] = 0 \/ T[a][b] = v + 2 * t
        BY <1>1, <2>6
    <2> QED
        BY <2>2, <2>4, <2>5, <2>6, <2>7
<1>4. WORD \in G
    <2>1. Nat \subseteq G
        BY <1>2, <1>3, NatClosure
    <2> QED
        BY <2>1, Widths
<1>5. Fits(WORD)
    BY <1>4, Widths
<1>6. \A a, b \in Word : T[a][b] \in Word
    BY <1>0, <1>5, Pow2Words, Bases DEF Word
<1> QED
    BY <1>6 DEF T

\* The bits of the tables, two halves at a time.
LEMMA BitTables ==
    ASSUME NEW a \in Word, NEW b \in Word
    PROVE  /\ OrTable[a][b] \in Word /\ AndTable[a][b] \in Word /\ XorTable[a][b] \in Word
           /\ OrTable[0][0] = 0 /\ XorTable[0][0] = 0
           /\ ~(a = 0 /\ b = 0) =>
                /\ OrTable[a][b] = (IF (a % 2) + (b % 2) = 0 THEN 0 ELSE 1) + 2 * OrTable[a \div 2][b \div 2]
                /\ XorTable[a][b] = (((a % 2) + (b % 2)) % 2) + 2 * XorTable[a \div 2][b \div 2]
<1>1. PICK and, or, xor : /\ and = [n \in 0..2 |-> n \div 2]
                          /\ or = [n \in 0..2 |-> IF n = 0 THEN 0 ELSE 1]
                          /\ xor = [n \in 0..2 |-> n % 2]
    OBVIOUS
<1>2. and \in [0..2 -> 0..1] /\ or \in [0..2 -> 0..1] /\ xor \in [0..2 -> 0..1]
    <2>1. \A n \in 0..2 : n \div 2 \in 0..1 /\ n % 2 \in 0..1
        OBVIOUS
    <2> QED
        BY <1>1, <2>1
<1>3. AndTable = BitByBit(and) /\ OrTable = BitByBit(or) /\ XorTable = BitByBit(xor)
    BY <1>1 DEF AndTable, OrTable, XorTable
<1>4. OrTable[a][b] \in Word /\ AndTable[a][b] \in Word /\ XorTable[a][b] \in Word
    BY <1>2, <1>3, TableWord
<1>5. (a % 2) + (b % 2) \in 0..2
    BY Halves DEF Word
<1>6. /\ OrTable[a][b] = IF a = 0 /\ b = 0 THEN 0 ELSE or[(a % 2) + (b % 2)] + 2 * OrTable[a \div 2][b \div 2]
      /\ XorTable[a][b] = IF a = 0 /\ b = 0 THEN 0 ELSE xor[(a % 2) + (b % 2)] + 2 * XorTable[a \div 2][b \div 2]
    BY <1>3, TableIs
<1>7. 0 \in Word
    BY Bases DEF Word
<1>8. OrTable[0][0] = 0 /\ XorTable[0][0] = 0
    BY <1>3, <1>7, TableIs
<1>9. /\ or[(a % 2) + (b % 2)] = (IF (a % 2) + (b % 2) = 0 THEN 0 ELSE 1)
      /\ xor[(a % 2) + (b % 2)] = ((a % 2) + (b % 2)) % 2
    BY <1>1, <1>5
<1> QED
    BY <1>4, <1>6, <1>8, <1>9

\* What holds of 0, and of a number once it holds of its half.
LEMMA HalfClosure ==
    ASSUME NEW G, 0 \in G, \A n \in Nat \ {0} : n \div 2 \in G => n \in G
    PROVE  Nat \subseteq G
<1> DEFINE H == {n \in Nat : \A k \in 0..n : k \in G}
<1>1. 0 \in H
    OBVIOUS
<1>2. ASSUME NEW n \in Nat, n \in H PROVE n + 1 \in H
    <2>1. (n + 1) \div 2 \in 0..n
        OBVIOUS
    <2>2. n + 1 \in G
        BY <1>2, <2>1
    <2> QED
        BY <1>2, <2>2
<1>3. Nat \subseteq H
    BY <1>1, <1>2, NatClosure
<1> QED
    BY <1>3

LEMMA WithZero ==
    \A a \in Word : /\ OrTable[a][0] = a /\ OrTable[0][a] = a
                    /\ XorTable[a][0] = a /\ XorTable[0][a] = a
<1> DEFINE Kept(a) == /\ OrTable[a][0] = a /\ OrTable[0][a] = a
                      /\ XorTable[a][0] = a /\ XorTable[0][a] = a
           G == {a \in Nat : a \in Word => Kept(a)}
<1>1. 0 \in Word /\ \A a \in Word : a \in Nat
    BY Bases DEF Word
<1>2. 0 \in G
    BY <1>1, BitTables
<1>3. ASSUME NEW a \in Nat \ {0}, a \div 2 \in G PROVE a \in G
    <2> SUFFICES ASSUME a \in Word PROVE Kept(a)
        OBVIOUS
    <2>1. a \div 2 \in Word /\ a % 2 \in 0..1 /\ a = 2 * (a \div 2) + (a % 2) /\ a \div 2 \in Nat
        BY <1>1, Halves
    <2>2. Kept(a \div 2)
        BY <1>3, <2>1
    <2>3. /\ OrTable[a][0] = (IF (a % 2) + (0 % 2) = 0 THEN 0 ELSE 1) + 2 * OrTable[a \div 2][0 \div 2]
          /\ XorTable[a][0] = (((a % 2) + (0 % 2)) % 2) + 2 * XorTable[a \div 2][0 \div 2]
          /\ OrTable[0][a] = (IF (0 % 2) + (a % 2) = 0 THEN 0 ELSE 1) + 2 * OrTable[0 \div 2][a \div 2]
          /\ XorTable[0][a] = (((0 % 2) + (a % 2)) % 2) + 2 * XorTable[0 \div 2][a \div 2]
        BY <1>1, BitTables
    <2>4. 0 % 2 = 0 /\ 0 \div 2 = 0
        OBVIOUS
    <2>5. PICK h \in Nat, r \in 0..1 : h = a \div 2 /\ r = a % 2
        BY <2>1
    <2>6. /\ OrTable[a][0] = (IF r = 0 THEN 0 ELSE 1) + 2 * h
          /\ XorTable[a][0] = (r % 2) + 2 * h
          /\ OrTable[0][a] = (IF r = 0 THEN 0 ELSE 1) + 2 * h
          /\ XorTable[0][a] = (r % 2) + 2 * h
        BY <2>2, <2>3, <2>4, <2>5
    <2> QED
        BY <2>1, <2>5, <2>6
<1>4. Nat \subseteq G
    BY <1>2, <1>3, HalfClosure
<1> QED
    BY <1>1, <1>4

\* Against a word of ones, xor complements.
LEMMA WithOnes ==
    \A a \in Word : XorTable[a][M - 1] = M - 1 - a
<1> DEFINE Flips(s) == \A a \in Word : a < Pow2[s] => XorTable[a][Pow2[s] - 1] = Pow2[s] - 1 - a
           G == {s \in Nat : s <= WORD => Flips(s)}
<1>0. 0 \in Word /\ \A a \in Word : a \in Nat /\ a < M
    BY Bases DEF Word
<1>1. 0 \in G
    BY <1>0, BitTables, Pow2Is
<1>2. ASSUME NEW s \in Nat, s \in G PROVE s + 1 \in G
    <2> SUFFICES ASSUME s + 1 <= WORD, NEW a \in Word, a < Pow2[s + 1]
                 PROVE  XorTable[a][Pow2[s + 1] - 1] = Pow2[s + 1] - 1 - a
        OBVIOUS
    <2>1. s \in 0..BITS /\ s + 1 \in 1..BITS /\ (s + 1) - 1 = s
        BY Widths
    <2>2. PICK p \in Nat \ {0} : p = Pow2[s] /\ Pow2[s + 1] = 2 * p
        BY <2>1, Pow2Is
    <2>3. 2 * p <= M
        <3>1. s + 1 \in 0..WORD /\ WORD \in Nat /\ WORD <= BITS
            BY Widths
        <3>2. PICK u \in Nat \ {0}, v \in Nat \ {0} : u = Pow2[s + 1] /\ v = Pow2[WORD - (s + 1)] /\ M = u * v
            BY <3>1, Pow2Split, Pow2Words
        <3>3. u * 1 <= u * v
            BY TimesUp
        <3> QED
            BY <2>2, <3>2, <3>3
    <2>4. a \div 2 \in Word /\ a % 2 \in 0..1 /\ a = 2 * (a \div 2) + (a % 2) /\ a \div 2 < p
        BY <1>0, <2>2, Halves
    <2>5. XorTable[a \div 2][p - 1] = p - 1 - (a \div 2)
        BY <1>2, <2>2, <2>4, Widths
    <2>6. 2 * p - 1 \in Word /\ (2 * p - 1) % 2 = 1 /\ (2 * p - 1) \div 2 = p - 1 /\ 2 * p - 1 # 0
        BY <2>3, Bases DEF Word
    <2>7. XorTable[a][2 * p - 1] = (((a % 2) + ((2 * p - 1) % 2)) % 2) + 2 * XorTable[a \div 2][(2 * p - 1) \div 2]
        BY <2>6, BitTables
    <2>8. XorTable[a][2 * p - 1] = (((a % 2) + 1) % 2) + 2 * (p - 1 - (a \div 2))
        BY <2>5, <2>6, <2>7
    <2> QED
        BY <1>0, <2>2, <2>4, <2>8
<1>3. WORD \in G
    <2>1. Nat \subseteq G
        BY <1>1, <1>2, NatClosure
    <2> QED
        BY <2>1, Widths
<1> QED
    BY <1>0, <1>3, Pow2Words, Widths

\* Or puts together two numbers that share no bit.
LEMMA OrJoins ==
    ASSUME NEW s \in 0..WORD
    PROVE  \A c, b \in Nat : c < Pow2[WORD - s] /\ b < Pow2[s]
             => /\ c * Pow2[s] + b \in Word
                /\ OrTable[c * Pow2[s]][b] = c * Pow2[s] + b
                /\ OrTable[b][c * Pow2[s]] = c * Pow2[s] + b
<1> DEFINE Joins(t) == \A c, b \in Nat : c * Pow2[t] + b \in Word /\ b < Pow2[t]
                          => /\ OrTable[c * Pow2[t]][b] = c * Pow2[t] + b
                             /\ OrTable[b][c * Pow2[t]] = c * Pow2[t] + b
           G == {t \in Nat : t <= WORD => Joins(t)}
<1>0. 0 \in Word /\ \A a \in Int : a \in Word <=> a >= 0 /\ a < M
    BY Bases DEF Word
<1>1. 0 \in G
    <2>1. ASSUME NEW c \in Nat, NEW b \in Nat, c * Pow2[0] + b \in Word, b < Pow2[0]
          PROVE  /\ OrTable[c * Pow2[0]][b] = c * Pow2[0] + b
                 /\ OrTable[b][c * Pow2[0]] = c * Pow2[0] + b
        <3>1. b = 0 /\ c * Pow2[0] = c /\ c + 0 = c
            BY <2>1, Pow2Is
        <3>2. c \in Word
            BY <2>1, <3>1
        <3> QED
            BY <3>1, <3>2, WithZero
    <2> QED
        BY <2>1
<1>2. ASSUME NEW t \in Nat, t \in G PROVE t + 1 \in G
    <2> SUFFICES ASSUME t + 1 <= WORD, NEW c \in Nat, NEW b \in Nat,
                        c * Pow2[t + 1] + b \in Word, b < Pow2[t + 1]
                 PROVE  /\ OrTable[c * Pow2[t + 1]][b] = c * Pow2[t + 1] + b
                        /\ OrTable[b][c * Pow2[t + 1]] = c * Pow2[t + 1] + b
        OBVIOUS
    <2>1. t \in 0..BITS /\ t + 1 \in 1..BITS /\ (t + 1) - 1 = t
        BY Widths
    <2>2. PICK p \in Nat \ {0} : p = Pow2[t] /\ Pow2[t + 1] = 2 * p
        BY <2>1, Pow2Is
    <2>3. PICK x \in Nat : x = c * p
        BY ProductNat
    <2>4. c * Pow2[t + 1] = 2 * x
        BY <2>2, <2>3
    <2>5. b \div 2 \in Nat /\ b % 2 \in 0..1 /\ b = 2 * (b \div 2) + (b % 2) /\ b \div 2 < p
        BY <2>2, Halves
    <2>6. 2 * x \in Word /\ b \in Word /\ x + (b \div 2) \in Word
        <3>1. 2 * x + b \in Word /\ 2 * x + b \in Int
            BY <2>3, <2>4
        <3>2. 2 * x + b < M
            BY <1>0, <3>1
        <3>3. PICK h \in Nat : h = b \div 2 /\ h <= b
            BY <2>5
        <3>4. 2 * x < M /\ b < M /\ x + h < M /\ 2 * x >= 0 /\ x + h >= 0
            BY <3>2, <3>3, <2>3, Bases
        <3> QED
            BY <1>0, <2>3, <3>3, <3>4
    <2>7. OrTable[x][b \div 2] = x + (b \div 2) /\ OrTable[b \div 2][x] = x + (b \div 2)
        <3>1. c * Pow2[t] + (b \div 2) \in Word /\ b \div 2 < Pow2[t]
            BY <2>2, <2>3, <2>5, <2>6
        <3> QED
            BY <1>2, <2>2, <2>3, <2>5, <3>1, Widths
    <2>8. CASE x = 0 /\ b = 0
        BY <2>4, <2>8, <1>0, BitTables
    <2>9. CASE ~(x = 0 /\ b = 0)
        <3>1. ~(2 * x = 0 /\ b = 0) /\ (2 * x) % 2 = 0 /\ (2 * x) \div 2 = x
            BY <2>9
        <3>2. /\ OrTable[2 * x][b] = (IF ((2 * x) % 2) + (b % 2) = 0 THEN 0 ELSE 1) + 2 * OrTable[(2 * x) \div 2][b \div 2]
              /\ OrTable[b][2 * x] = (IF (b % 2) + ((2 * x) % 2) = 0 THEN 0 ELSE 1) + 2 * OrTable[b \div 2][(2 * x) \div 2]
            BY <2>6, <3>1, BitTables
        <3>3. PICK h \in Nat, r \in 0..1 : h = b \div 2 /\ r = b % 2
            BY <2>5
        <3>4. /\ OrTable[2 * x][b] = (IF 0 + r = 0 THEN 0 ELSE 1) + 2 * (x + h)
              /\ OrTable[b][2 * x] = (IF r + 0 = 0 THEN 0 ELSE 1) + 2 * (x + h)
            BY <2>7, <3>1, <3>2, <3>3
        <3> QED
            BY <2>3, <2>4, <2>5, <3>3, <3>4
    <2> QED
        BY <2>8, <2>9
<1>3. Joins(s)
    <2>1. Nat \subseteq G
        BY <1>1, <1>2, NatClosure
    <2> QED
        BY <2>1, Widths
<1> SUFFICES ASSUME NEW c \in Nat, NEW b \in Nat, c < Pow2[WORD - s], b < Pow2[s]
             PROVE  c * Pow2[s] + b \in Word
    BY <1>3
<1>4. PICK p \in Nat \ {0}, q \in Nat \ {0} : p = Pow2[s] /\ q = Pow2[WORD - s] /\ M = p * q
    <2>1. WORD \in Nat /\ WORD <= BITS
        BY Widths
    <2> QED
        BY <2>1, Pow2Split, Pow2Words
<1>5. p * c + p <= p * q
    BY <1>4, TimesAbove
<1>6. PICK x \in Nat : x = c * p /\ x = p * c
    BY ProductNat
<1>7. x + b < M
    BY <1>4, <1>5, <1>6, Bases
<1> QED
    BY <1>0, <1>4, <1>6, <1>7

-----------------------------------------------------------------------------
(* Shifts *)

LEMMA PatternIs ==
    /\ \A x \in Pattern : x \in Nat /\ x < N
    /\ \A x \in Int : 0 <= x /\ x < N => x \in Pattern
    /\ \A w \in Word : w \in Nat /\ w < M /\ w \in Pattern
    /\ \A w \in Int : 0 <= w /\ w < M => w \in Word
    /\ M < N /\ M >= 4
<1>1. 2 * B <= M /\ 2 * M <= M * M
    BY Bases, TimesUp
<1> QED
    BY <1>1, Bases DEF Pattern, Word

LEMMA Divided ==
    \A a \in Nat, d \in Nat \ {0} :
        \E x, r \in Nat : x = a \div d /\ r = a % d /\ a = d * x + r /\ r < d
<1> SUFFICES ASSUME NEW a \in Nat, NEW d \in Nat \ {0}
             PROVE  \E x, r \in Nat : x = a \div d /\ r = a % d /\ a = d * x + r /\ r < d
    OBVIOUS
<1>1. a \div d \in Nat /\ a % d \in Nat /\ a = d * (a \div d) + (a % d) /\ a % d < d
    BY DivideBy
<1> QED
    BY <1>1

LEMMA TimesSum ==
    \A p, q, d, r \in Int : (q * d + r) * p = (p * q) * d + r * p
OBVIOUS

\* A word splits a shift: p = 2^s, and q is what is left of the word.
WordSplit(s, p, q) ==
    /\ p = Pow2[s] /\ q = Pow2[WORD - s] /\ p \in Nat \ {0} /\ q \in Nat \ {0}
    /\ M = p * q /\ M = q * p

LEMMA WordSplitIs ==
    \A s \in 0..WORD : \E p, q \in Nat : WordSplit(s, p, q)
<1> SUFFICES ASSUME NEW s \in 0..WORD 
             PROVE  \E p, q \in Nat : WordSplit(s, p, q)
    OBVIOUS
<1>1. /\ Pow2[s] \in Nat \ {0} /\ Pow2[WORD - s] \in Nat \ {0}
      /\ M = Pow2[s] * Pow2[WORD - s]
    <2>1. WORD \in Nat /\ WORD <= BITS
        BY Widths
    <2> QED
        BY <2>1, Pow2Split, Pow2Words
<1>2. \A x, y \in Nat : x * y = y * x
    OBVIOUS
<1>3. WordSplit(s, Pow2[s], Pow2[WORD - s])
    BY <1>1, <1>2 DEF WordSplit
<1> QED
    BY <1>1, <1>3

LEMMA WordShifts ==
    \A s \in 0..WORD, w \in Word, p, q \in Nat :
        WordSplit(s, p, q)
        => /\ WShl(w, s) = (w % q) * p /\ WShl(w, s) \in Word
           /\ WShr(w, s) = w \div p /\ WShr(w, s) \in Word
           /\ w % q \in Nat /\ w % q < q /\ w \div p \in Nat /\ w \div p < q
<1> SUFFICES ASSUME NEW s \in 0..WORD, NEW w \in Word, NEW p \in Nat, NEW q \in Nat, WordSplit(s, p, q)
             PROVE  /\ WShl(w, s) = (w % q) * p /\ WShl(w, s) \in Word
                    /\ WShr(w, s) = w \div p /\ WShr(w, s) \in Word
                    /\ w % q \in Nat /\ w % q < q /\ w \div p \in Nat /\ w \div p < q
    OBVIOUS
<1>1. p \in Nat \ {0} /\ q \in Nat \ {0} /\ M = p * q /\ p = Pow2[s]
    BY DEF WordSplit
<1>2. w \in Nat /\ w < M
    BY PatternIs
<1>3. PICK wd \in Nat, wr \in Nat : wd = w \div p /\ wr = w % p /\ w = p * wd + wr /\ wr < p
    BY <1>1, <1>2, Divided
<1>4. PICK qr \in Nat : qr = w % q /\ qr < q
    BY <1>1, <1>2, Divided
<1>5. (w * p) % (p * q) = (w % q) * p /\ wd < q
    BY <1>1, <1>2, <1>3, CutUp
<1>6. (w * p) % M = qr * p
    BY <1>1, <1>4, <1>5, Zenon
<1>7. WShl(w, s) = qr * p /\ WShr(w, s) = wd
    BY <1>1, <1>3, <1>6, Zenon DEF WShl, WShr
<1>8. qr * p \in Word
    <2>1. p * qr + p <= p * q
        BY <1>1, <1>4, TimesAbove
    <2>2. PICK x \in Nat : x = qr * p /\ x = p * qr
        BY <1>1, ProductNat
    <2> QED
        BY <1>1, <2>1, <2>2, PatternIs
<1>9. wd \in Word
    <2>1. wd * 1 <= wd * p
        BY <1>1, TimesUp
    <2>2. PICK x \in Nat : x = wd * p /\ x = p * wd
        BY <1>1, ProductNat
    <2>3. wd <= x /\ w = x + wr
        BY <1>3, <2>1, <2>2
    <2>4. 0 <= wd /\ wd < M
        BY <1>2, <1>3, <2>2, <2>3, Bases
    <2> QED
        BY <2>4, PatternIs
<1> QED
    BY <1>3, <1>4, <1>5, <1>7, <1>8, <1>9, Zenon

\* The words of a << s and of a >> s.
LEMMA ShiftedWords ==
    \A s \in 0..WORD, h, l \in Word, p, q \in Nat :
        WordSplit(s, p, q)
        => /\ WOr(WShl(h, s), WShr(l, WORD - s)) = (h % q) * p + (l \div q)
           /\ WOr(WShl(h, s), WShr(l, WORD - s)) \in Word
           /\ WOr(WShr(l, s), WShl(h, WORD - s)) = (h % p) * q + (l \div p)
           /\ WOr(WShr(l, s), WShl(h, WORD - s)) \in Word
<1> SUFFICES ASSUME NEW s \in 0..WORD, NEW h \in Word, NEW l \in Word, NEW p \in Nat, NEW q \in Nat, WordSplit(s, p, q)
    PROVE  /\ WOr(WShl(h, s), WShr(l, WORD - s)) = (h % q) * p + (l \div q)
           /\ WOr(WShl(h, s), WShr(l, WORD - s)) \in Word
           /\ WOr(WShr(l, s), WShl(h, WORD - s)) = (h % p) * q + (l \div p)
           /\ WOr(WShr(l, s), WShl(h, WORD - s)) \in Word
    OBVIOUS
<1>0. PICK t \in 0..WORD : t = WORD - s /\ WORD - t = s
    BY Widths
<1>1. WordSplit(t, q, p)
    BY <1>0 DEF WordSplit
<1>2. /\ WShl(h, s) = (h % q) * p /\ h % q < q /\ h % q \in Nat
      /\ WShr(l, s) = l \div p /\ l \div p < q /\ l \div p \in Nat
    BY WordShifts
<1>3. /\ WShl(h, t) = (h % p) * q /\ h % p < p /\ h % p \in Nat
      /\ WShr(l, t) = l \div q /\ l \div q < p /\ l \div q \in Nat
    BY <1>1, WordShifts, SMTT(30)
<1>4. ASSUME NEW c \in Nat, NEW b \in Nat, c < q, b < p
      PROVE  c * p + b \in Word /\ OrTable[c * p][b] = c * p + b
    <2>1. c < Pow2[WORD - s] /\ b < Pow2[s] /\ p = Pow2[s]
        BY <1>4 DEF WordSplit
    <2>2. c * Pow2[s] + b \in Word /\ OrTable[c * Pow2[s]][b] = c * Pow2[s] + b
        BY <2>1, OrJoins
    <2> QED
        BY <2>1, <2>2
<1>5. ASSUME NEW c \in Nat, NEW b \in Nat, c < p, b < q
      PROVE  c * q + b \in Word /\ OrTable[b][c * q] = c * q + b
    <2>1. c < Pow2[WORD - t] /\ b < Pow2[t] /\ q = Pow2[t]
        BY <1>5, <1>1 DEF WordSplit
    <2>2. c * Pow2[t] + b \in Word /\ OrTable[b][c * Pow2[t]] = c * Pow2[t] + b
        BY <2>1, OrJoins
    <2> QED
        BY <2>1, <2>2
<1>6. /\ OrTable[(h % q) * p][l \div q] = (h % q) * p + (l \div q)
      /\ (h % q) * p + (l \div q) \in Word
    BY <1>2, <1>3, <1>4
<1>7. /\ OrTable[l \div p][(h % p) * q] = (h % p) * q + (l \div p)
      /\ (h % p) * q + (l \div p) \in Word
    BY <1>2, <1>3, <1>5
<1> QED
    BY <1>0, <1>2, <1>3, <1>6, <1>7, Zenon DEF WOr

LEMMA ShlIs ==
    ASSUME NEW a \in Pattern, NEW s \in 0..(BITS - 1)
    PROVE  Shl3(a, s) = (a * Pow2[s]) % N /\ Shl3(a, s) \in Pattern
<1>0. s \in Nat /\ WORD \in Nat /\ BITS = WORD + WORD
    BY Widths
<1>1. PICK h \in Word, l \in Word : h = High(a) /\ l = Low(a) /\ a = h * M + l
    BY PatternWords
<1>2. h \in Nat /\ l \in Nat /\ a \in Nat /\ a < N
    BY PatternIs
<1>3. CASE s = 0
    <2>1. a * Pow2[0] = a /\ a % N = a
        BY <1>2, Pow2Is, Below, Bases
    <2> QED
        BY <1>3, <2>1 DEF Shl3
<1>4. CASE s # 0 /\ s < WORD
    <2>0. s \in 0..WORD
        BY <1>0, <1>4
    <2>1. PICK p \in Nat, q \in Nat : WordSplit(s, p, q)
        BY <2>0, WordSplitIs
    <2>2. p \in Nat \ {0} /\ q \in Nat \ {0} /\ M = p * q /\ p = Pow2[s]
        BY <2>1 DEF WordSplit
    <2>3. PICK hd \in Nat, hr \in Nat : hd = h \div q /\ hr = h % q /\ h = q * hd + hr
        <3>1. h \in Nat /\ q \in Nat \ {0}
            BY <1>2, <2>2
        <3> QED
            BY <3>1, Divided
    <2>13. PICK ld \in Nat, lr \in Nat : ld = l \div q /\ lr = l % q /\ l = q * ld + lr
        <3>1. l \in Nat /\ q \in Nat \ {0}
            BY <1>2, <2>2
        <3> QED
            BY <3>1, Divided
    <2>4. PICK x \in Word : x = WOr(WShl(h, s), WShr(l, WORD - s)) /\ x = hr * p + ld
        <3>1. /\ WOr(WShl(h, s), WShr(l, WORD - s)) = (h % q) * p + (l \div q)
              /\ WOr(WShl(h, s), WShr(l, WORD - s)) \in Word
            BY <2>0, <2>1, ShiftedWords
        <3> QED
            BY <2>3, <2>13, <3>1, Zenon
    <2>5. PICK y \in Word : y = WShl(l, s) /\ y = lr * p
        <3>1. WShl(l, s) = (l % q) * p /\ WShl(l, s) \in Word
            BY <2>0, <2>1, WordShifts
        <3> QED
            BY <2>13, <3>1, Zenon
    <2>6. Shl3(a, s) = FromWords(x, y)
        BY <1>1, <1>4, <2>4, <2>5 DEF Shl3
    <2>7. FromWords(x, y) \in Pattern
        BY <2>4, <2>5, WordsOf, PatternIs
    <2>8. PICK r \in Pattern : r = FromWords(x, y) /\ r = x * M + y
        BY <2>7 DEF FromWords
    <2>9. a * p = N * hd + r
        <3>1. a * p = (h * p) * M + l * p
            BY <1>1, <1>2, <2>2, Bases
        <3>2. (q * hd + hr) * p = (p * q) * hd + hr * p
            BY <2>2, TimesSum
        <3>3. (q * ld + lr) * p = (p * q) * ld + lr * p
            BY <2>2, TimesSum
        <3>4. PICK u \in Nat, v \in Nat : u = hr * p /\ v = lr * p
            BY <2>2, ProductNat
        <3>5. h * p = M * hd + u /\ l * p = M * ld + v
            BY <2>2, <2>3, <2>13, <3>2, <3>3, <3>4, Zenon
        <3>6. (M * hd + u) * M + (M * ld + v) = (M * M) * hd + ((u + ld) * M + v)
            BY <3>4, Bases
        <3>7. r = (u + ld) * M + v
            BY <2>4, <2>5, <2>8, <3>4, Zenon
        <3> QED
            BY <3>1, <3>5, <3>6, <3>7, Bases, Zenon
    <2>10. (a * p) % N = r
        <3>1. PICK t \in Int : t = a * p
            BY <1>2, <2>2
        <3>2. t \in Int /\ hd \in Int /\ r \in Int /\ N \in Nat \ {0} /\ t = N * hd + r /\ 0 <= r /\ r < N
            BY <2>8, <2>9, <3>1, PatternIs, Bases
        <3>3. t % N = r
            BY <3>2, DivideUnique
        <3> QED
            BY <3>1, <3>3
    <2> QED
        BY <2>2, <2>6, <2>8, <2>10, Zenon
<1>5. CASE s >= WORD
    <2>0. PICK t \in 0..WORD : t = s % WORD /\ s = WORD + t /\ t < WORD
        <3>1. s = WORD * 1 + (s - WORD) /\ 0 <= s - WORD /\ s - WORD < WORD /\ WORD \in Nat \ {0}
            BY <1>0, <1>5, Widths
        <3>2. s % WORD = s - WORD
            <4>1. PICK d : d = s - WORD
                OBVIOUS
            <4>2. s \in Int /\ 1 \in Int /\ d \in Int /\ WORD \in Nat \ {0} /\ s = WORD * 1 + d /\ 0 <= d /\ d < WORD
                BY <1>0, <3>1, <4>1
            <4> QED
                BY <4>1, <4>2, DivideUnique, SMTT(30)
        <3> QED
            BY <1>0, <3>1, <3>2
    <2>1. PICK p \in Nat, q \in Nat : WordSplit(t, p, q)
        BY WordSplitIs
    <2>2. p \in Nat \ {0} /\ q \in Nat \ {0} /\ M = p * q /\ p = Pow2[t]
        BY <2>1 DEF WordSplit
    <2>3. Pow2[s] = M * p
        <3>1. WORD \in Nat /\ t \in Nat /\ WORD + t <= BITS
            BY <1>0, <2>0
        <3> QED
            BY <2>0, <2>2, <3>1, Pow2Sum, Pow2Words
    <2>4. PICK ld \in Nat, lr \in Nat : ld = l \div q /\ lr = l % q /\ l = q * ld + lr
        <3>1. l \in Nat /\ q \in Nat \ {0}
            BY <1>2, <2>2
        <3> QED
            BY <3>1, Divided
    <2>5. PICK y \in Word : y = WShl(l, t) /\ y = lr * p
        <3>1. WShl(l, t) = (l % q) * p /\ WShl(l, t) \in Word
            BY <2>1, WordShifts
        <3> QED
            BY <2>4, <3>1, Zenon
    <2>6. Shl3(a, s) = FromWords(y, 0)
        <3>1. s # 0 /\ ~(s < WORD)
            BY <1>0, <1>5, Widths
        <3> QED
            BY <1>1, <2>0, <2>5, <3>1, Zenon DEF Shl3
    <2>7. FromWords(y, 0) \in Pattern
        <3>1. 0 \in Word /\ y \in Nat
            BY PatternIs, Bases DEF Word
        <3> QED
            BY <3>1, WordsOf
    <2>8. PICK r \in Pattern : r = FromWords(y, 0) /\ r = y * M
        <3>1. y * M + 0 = y * M
            BY PatternIs, Bases
        <3> QED
            BY <2>7, <3>1 DEF FromWords
    <2>9. PICK k \in Nat : k = h * p + ld
        <3>1. h * p \in Nat
            BY <1>2, <2>2, ProductNat
        <3> QED
            BY <3>1
    <2>10. a * (M * p) = N * k + r
        <3>1. (h * M + l) * (M * p) = (M * M) * (h * p) + (l * p) * M
            BY <1>2, <2>2, Bases
        <3>2. (q * ld + lr) * p = (p * q) * ld + lr * p
            BY <2>2, TimesSum
        <3>3. l * p = M * ld + y
            BY <2>2, <2>4, <2>5, <3>2, Zenon
        <3>4. (M * M) * (h * p) + (M * ld + y) * M = (M * M) * (h * p + ld) + y * M
            BY <1>2, <2>2, Bases, PatternIs
        <3> QED
            BY <1>1, <2>8, <2>9, <3>1, <3>3, <3>4, Bases, Zenon
    <2>11. (a * (M * p)) % N = r
        <3>1. PICK v \in Int : v = a * (M * p)
            BY <1>2, <2>2, Bases
        <3>2. v \in Int /\ k \in Int /\ r \in Int /\ N \in Nat \ {0} /\ v = N * k + r /\ 0 <= r /\ r < N
            BY <2>8, <2>10, <3>1, PatternIs, Bases
        <3>3. v % N = r
            BY <3>2, DivideUnique
        <3> QED
            BY <3>1, <3>3
    <2> QED
        BY <2>3, <2>6, <2>8, <2>11
<1> QED
    BY <1>0, <1>3, <1>4, <1>5

\* The second word of a shift past the first.
LEMMA PastWord ==
    \A s \in WORD..(BITS - 1) :
        \E t \in 0..WORD : t = s % WORD /\ s = WORD + t /\ t < WORD /\ Pow2[s] = M * Pow2[t] /\ s # 0 /\ ~(s < WORD)
<1> SUFFICES ASSUME NEW s \in WORD..(BITS - 1)
             PROVE  \E t \in 0..WORD : t = s % WORD /\ s = WORD + t /\ t < WORD /\ Pow2[s] = M * Pow2[t] /\ s # 0 /\ ~(s < WORD)
    OBVIOUS
<1>1. s \in Nat /\ WORD \in Nat \ {0} /\ BITS = WORD + WORD
    BY Widths
<1>2. PICK t \in 0..WORD : t = s - WORD /\ s = WORD + t /\ t < WORD /\ s # 0 /\ ~(s < WORD)
    BY <1>1
<1>3. s % WORD = t
    <2>1. s \in Int /\ 1 \in Int /\ t \in Int /\ s = WORD * 1 + t /\ 0 <= t
        BY <1>1, <1>2
    <2> QED
        BY <1>1, <1>2, <2>1, DivideUnique
<1>4. Pow2[s] = M * Pow2[t]
    <2>1. WORD \in Nat /\ t \in Nat /\ WORD + t <= BITS
        BY <1>1, <1>2
    <2> QED
        BY <1>2, <2>1, Pow2Sum, Pow2Words
<1> QED
    BY <1>2, <1>3, <1>4

\* The low word of a shift to the right, whatever the sign of the number g that
\* the high word h stands for.
ShiftedRight(g, h, l, p, q) ==
    /\ (g * M + l) \div p = (g \div p) * M + ((h % p) * q + (l \div p))
    /\ g % p = h % p

LEMMA ShiftRight ==
    \A g \in Int, h, l \in Word, p, q \in Nat \ {0} :
        M = p * q /\ g % M = h => ShiftedRight(g, h, l, p, q)
<1> SUFFICES ASSUME NEW g \in Int, NEW h \in Word, NEW l \in Word, NEW p \in Nat \ {0}, NEW q \in Nat \ {0},
                    M = p * q, g % M = h
             PROVE  ShiftedRight(g, h, l, p, q)
    OBVIOUS
<1>1. l \in Nat /\ h \in Nat
    BY PatternIs
<1>2. PICK ld \in Nat, lr \in Nat : ld = l \div p /\ lr = l % p /\ l = p * ld + lr /\ lr < p
    BY <1>1, Divided
<1>3. PICK gd \in Int, gr \in Nat : gd = g \div p /\ gr = g % p /\ g = p * gd + gr /\ gr < p
    BY DivideBy
<1>4. h % p = gr
    <2>1. PICK k \in Int : g = M * k + h
        BY Bases, DivideBy
    <2>2. h = p * (gd - q * k) + gr
        <3>1. p * (gd - q * k) = p * gd - (p * q) * k
            OBVIOUS
        <3>2. PICK x, y \in Int : x = p * gd /\ y = M * k
            BY Bases
        <3> QED
            BY <1>1, <1>3, <2>1, <3>1, <3>2
    <2>3. PICK d \in Int : d = gd - q * k
        OBVIOUS
    <2>4. PICK x \in Int : x = h /\ x = p * d + gr
        BY <1>1, <1>3, <2>2, <2>3
    <2>5. x = p * d + gr /\ 0 <= gr /\ gr < p /\ gr \in Int
        BY <1>3, <2>4
    <2>6. x % p = gr
        BY <2>5, DivideUnique, Zenon
    <2> QED
        BY <2>4, <2>6
<1>5. g * M + l = p * (gd * M + (gr * q + ld)) + lr
    <2>1. (p * gd + gr) * (p * q) + (p * ld + lr) = p * (gd * (p * q) + (gr * q + ld)) + lr
        OBVIOUS
    <2> QED
        BY <1>2, <1>3, <2>1, Zenon
<1>6. PICK a \in Int, d \in Int : a = g * M + l /\ d = gd * M + (gr * q + ld)
    <2>1. g * M \in Int /\ gd * M \in Int /\ gr * q \in Int
        BY Bases
    <2> QED
        BY <1>1, <2>1
<1>7. a \div p = d
    <2>1. a = p * d + lr /\ lr \in Int /\ 0 <= lr /\ lr < p
        BY <1>2, <1>5, <1>6
    <2> QED
        BY <2>1, DivideUnique
<1> QED
    BY <1>2, <1>3, <1>4, <1>6, <1>7, Zenon DEF ShiftedRight

LEMMA ShrIs ==
    ASSUME NEW a \in Pattern, NEW s \in 0..(BITS - 1)
    PROVE  Shr3(a, s) = a \div Pow2[s] /\ Shr3(a, s) \in Pattern
<1>0. s \in Nat /\ WORD \in Nat /\ BITS = WORD + WORD
    BY Widths
<1>1. PICK h \in Word, l \in Word : h = High(a) /\ l = Low(a) /\ a = h * M + l
    BY PatternWords
<1>2. h \in Nat /\ l \in Nat /\ a \in Nat /\ h < M /\ l < M
    BY PatternIs
<1>3. CASE s = 0
    <2>1. a \div Pow2[0] = a
        BY <1>2, Pow2Is
    <2> QED
        BY <1>3, <2>1 DEF Shr3
<1>4. CASE s # 0 /\ s < WORD
    <2>1. PICK p \in Nat, q \in Nat : WordSplit(s, p, q)
        BY <1>0, <1>4, WordSplitIs
    <2>2. p \in Nat \ {0} /\ q \in Nat \ {0} /\ M = p * q /\ p = Pow2[s]
        BY <2>1 DEF WordSplit
    <2>3. s \in 0..WORD
        BY <1>0, <1>4
    <2>4. PICK x \in Word : x = WOr(WShr(l, s), WShl(h, WORD - s)) /\ x = (h % p) * q + (l \div p)
        BY <2>1, <2>3, ShiftedWords
    <2>5. PICK y \in Word : y = WShr(h, s) /\ y = h \div p
        BY <2>1, <2>3, WordShifts
    <2>6. Shr3(a, s) = FromWords(y, x)
        BY <1>1, <1>4, <2>4, <2>5, Zenon DEF Shr3
    <2>7. FromWords(y, x) \in Pattern
        BY WordsOf, PatternIs
    <2>8. h % M = h
        BY <1>2, Bases, Below
    <2>9. (h * M + l) \div p = (h \div p) * M + ((h % p) * q + (l \div p))
        <3>1. h \in Int
            BY <1>2
        <3>2. ShiftedRight(h, h, l, p, q)
            BY <2>2, <2>8, <3>1, ShiftRight
        <3> QED
            BY <3>2, Zenon DEF ShiftedRight
    <2>10. a \div p = y * M + x
        BY <1>1, <2>4, <2>5, <2>9, Zenon
    <2> QED
        BY <2>2, <2>6, <2>7, <2>10, Zenon DEF FromWords
<1>5. CASE s >= WORD
    <2>1. PICK t \in 0..WORD : t = s % WORD /\ Pow2[s] = M * Pow2[t] /\ s # 0 /\ ~(s < WORD)
        BY <1>0, <1>5, PastWord
    <2>2. PICK p \in Nat, q \in Nat : WordSplit(t, p, q)
        BY WordSplitIs
    <2>3. p \in Nat \ {0} /\ p = Pow2[t]
        BY <2>2 DEF WordSplit
    <2>4. PICK y \in Word : y = WShr(h, t) /\ y = h \div p
        BY <2>2, WordShifts
    <2>5. Shr3(a, s) = FromWords(0, y)
        BY <1>1, <2>1, <2>4, Zenon DEF Shr3
    <2>6. FromWords(0, y) = y
        BY PatternIs, Bases DEF FromWords
    <2>7. (a \div M) \div p = a \div (M * p)
        <3>1. a \in Nat /\ M \in Nat \ {0}
            BY <1>2, Bases
        <3> QED
            BY <2>3, <3>1, CutTwice, SMTT(30)
    <2>8. a \div M = h
        BY <1>1 DEF High
    <2> QED
        BY <2>1, <2>3, <2>4, <2>5, <2>6, <2>7, <2>8, PatternIs, Zenon
<1> QED
    BY <1>0, <1>3, <1>4, <1>5

LEMMA EncodeIs ==
    /\ \A v \in Int : Encode(v) \in Pattern
    /\ \A a \in Pattern : Encode(AsSigned(a)) = a /\ Encode(a) = a
    /\ \A v \in Int : -IMIN <= v /\ v < IMIN => AsSigned(Encode(v)) = v
<1>1. \A v \in Int : v % N \in Pattern
    <2>1. \A v \in Int : v % N \in Nat /\ v % N < N
        BY Bases, DivideBy
    <2> QED
        BY <2>1, PatternIs
<1>2. ASSUME NEW a \in Pattern PROVE a % N = a /\ AsSigned(a) % N = a
    <2>1. PICK x \in Nat : x = a /\ x < N
        BY PatternIs
    <2>2. x % N = x
        BY <2>1, Below, Bases
    <2>3. (x - N) % N = x % N
        <3>1. x \in Int /\ N \in Nat \ {0}
            BY Bases
        <3> QED
            BY <3>1, ModShift, Zenon
    <2> QED
        BY <2>1, <2>2, <2>3 DEF AsSigned
<1>3. ASSUME NEW v \in Int, -IMIN <= v, v < IMIN PROVE AsSigned(v % N) = v
    <2>1. CASE v >= 0
        <3>1. v \in Nat /\ v < N
            BY <1>3, <2>1, SignBase
        <3>2. v % N = v
            BY <3>1, Below, Bases
        <3> QED
            BY <1>3, <3>2, SignBase DEF AsSigned
    <2>2. CASE v < 0
        <3>1. PICK x \in Nat : x = v + N /\ x < N /\ x >= IMIN
            BY <1>3, <2>2, SignBase
        <3>2. x % N = x
            BY <3>1, Below, Bases
        <3>3. (v + N) % N = v % N
            BY ModShift, Bases
        <3>4. v % N = x
            BY <3>1, <3>2, <3>3
        <3> QED
            BY <3>1, <3>4, SignBase DEF AsSigned
    <2> QED
        BY <2>1, <2>2
<1> QED
    BY <1>1, <1>2, <1>3 DEF Encode

\* The number that the high word of a signed pattern stands for.
LEMMA SignedWord ==
    \A h \in Word :
        \E g, m \in Int : /\ g = Signed(h) /\ g % M = h /\ m = M \div 2 /\ M = 2 * m /\ m > 0
                          /\ -m <= g /\ g < m /\ m = Pow2[WORD - 1]
<1> SUFFICES ASSUME NEW h \in Word
             PROVE  \E g, m \in Int : /\ g = Signed(h) /\ g % M = h /\ m = M \div 2 /\ M = 2 * m /\ m > 0
                                      /\ -m <= g /\ g < m /\ m = Pow2[WORD - 1]
    OBVIOUS
<1>1. PICK m \in Int : m = M \div 2 /\ M = 2 * m /\ m > 0
    BY SignBase, Bases
<1>2. PICK x \in Nat : x = h /\ x < M
    BY PatternIs
<1>3. x % M = x /\ (x - M) % M = x % M
    <2>1. x \in Int /\ M \in Nat \ {0}
        BY Bases
    <2>2. x % M = x
        BY <1>2, <2>1, Below
    <2> QED
        BY <2>1, <2>2, ModShift, Zenon
<1>4. PICK g \in Int : g = Signed(h) /\ g = IF x >= m THEN x - M ELSE x
    <2>1. (IF x >= m THEN x - M ELSE x) \in Int
        BY Bases
    <2> QED
        BY <1>1, <1>2, <2>1 DEF Signed
<1>5. g % M = h /\ -m <= g /\ g < m
    BY <1>1, <1>2, <1>3, <1>4
<1>6. M = 2 * Pow2[WORD - 1] /\ Pow2[WORD - 1] \in Nat
    <2>1. WORD \in 1..BITS /\ WORD - 1 \in 0..BITS
        BY Widths
    <2> QED
        BY <2>1, Pow2Is, Pow2Words
<1>7. m = Pow2[WORD - 1]
    BY <1>1, <1>6
<1> QED
    BY <1>1, <1>4, <1>5, <1>7

\* Division of a number between -m and m.
LEMMA SmallQuotient ==
    \A g, m \in Int, p \in Nat \ {0} :
        -m <= g /\ g < m
        => \E y \in Int : y = g \div p /\ -m <= y /\ y < m /\ (y < 0 <=> g < 0)
<1> SUFFICES ASSUME NEW g \in Int, NEW m \in Int, NEW p \in Nat \ {0}, -m <= g, g < m
             PROVE  \E y \in Int : y = g \div p /\ -m <= y /\ y < m /\ (y < 0 <=> g < 0)
    OBVIOUS
<1>1. PICK y \in Int, r \in Nat : y = g \div p /\ g = p * y + r /\ r < p
    BY DivideBy
<1>2. CASE y >= 0
    <2>1. y * 1 <= y * p
        BY <1>2, TimesUp
    <2>2. PICK x \in Int : x = p * y /\ x = y * p
        OBVIOUS
    <2>3. y <= x
        BY <2>1, <2>2
    <2> QED
        BY <1>1, <1>2, <2>2, <2>3
<1>3. CASE y < 0
    <2>1. PICK z \in Nat : z = -y - 1
        BY <1>3
    <2>2. z * 1 <= z * p
        BY <2>1, TimesUp
    <2>3. p * y = -(z * p) - p
        BY <2>1
    <2>4. PICK x \in Int : x = z * p
        OBVIOUS
    <2>5. g = -x - p + r /\ z <= x
        BY <1>1, <2>2, <2>3, <2>4
    <2> QED
        BY <1>1, <1>3, <2>1, <2>5
<1> QED
    BY <1>1, <1>2, <1>3

LEMMA SignQuotient ==
    \A g, m \in Int : 0 < m /\ -m <= g /\ g < m => g \div m = IF g < 0 THEN -1 ELSE 0
<1> SUFFICES ASSUME NEW g \in Int, NEW m \in Int, 0 < m, -m <= g, g < m
             PROVE  g \div m = IF g < 0 THEN -1 ELSE 0
    OBVIOUS
<1>1. CASE g < 0
    <2>1. g = m * (-1) + (g + m) /\ g + m \in Int /\ 0 <= g + m /\ g + m < m /\ m \in Nat \ {0} /\ -1 \in Int
        BY <1>1
    <2>2. g \div m = -1
        BY <2>1, DivideUnique
    <2> QED
        BY <1>1, <2>2
<1>2. CASE g >= 0
    <2>1. g \in Nat /\ m \in Nat \ {0} /\ g < m
        BY <1>2
    <2> QED
        BY <1>2, <2>1, Below
<1> QED
    BY <1>1, <1>2

LEMMA SarIs ==
    ASSUME NEW a \in Pattern, NEW s \in 0..(BITS - 1)
    PROVE  Sar3(a, s) = Encode(AsSigned(a) \div Pow2[s]) /\ Sar3(a, s) \in Pattern
<1>0. s \in Nat /\ WORD \in Nat /\ BITS = WORD + WORD
    BY Widths
<1>1. PICK h \in Word, l \in Word : h = High(a) /\ l = Low(a) /\ a = h * M + l
    BY PatternWords
<1>2. h \in Nat /\ l \in Nat /\ a \in Nat /\ h < M /\ l < M
    BY PatternIs
<1>3. PICK g \in Int, m \in Int : /\ g = Signed(h) /\ g % M = h /\ M = 2 * m /\ m > 0
                                  /\ -m <= g /\ g < m /\ m = Pow2[WORD - 1]
    BY SignedWord
<1>4. PICK v \in Int : v = AsSigned(a) /\ v = g * M + l
    BY <1>1, <1>3, SignedValue
<1>5. CASE s = 0
    <2>1. v \div Pow2[0] = v
        BY <1>4, Pow2Is
    <2>2. Encode(v) = a
        BY <1>4, EncodeIs
    <2> QED
        BY <1>4, <1>5, <2>1, <2>2 DEF Sar3
<1>6. CASE s # 0 /\ s < WORD
    <2>1. PICK p \in Nat, q \in Nat : WordSplit(s, p, q)
        BY <1>0, <1>6, WordSplitIs
    <2>2. p \in Nat \ {0} /\ q \in Nat \ {0} /\ M = p * q /\ p = Pow2[s]
        BY <2>1 DEF WordSplit
    <2>3. s \in 0..WORD
        BY <1>0, <1>6
    <2>4. PICK x \in Word : x = WOr(WShr(l, s), WShl(h, WORD - s)) /\ x = (h % p) * q + (l \div p)
        BY <2>1, <2>3, ShiftedWords
    <2>5. PICK y \in Int : y = g \div p
        BY <2>2, DivideBy
    <2>6. Sar3(a, s) = FromWords(y % M, x)
        BY <1>1, <1>3, <1>6, <2>2, <2>4, <2>5, Zenon DEF Sar3, WSar
    <2>7. v \div p = y * M + x
        <3>1. ShiftedRight(g, h, l, p, q)
            BY <1>3, <2>2, ShiftRight
        <3> QED
            BY <1>4, <2>4, <2>5, <3>1, Zenon DEF ShiftedRight
    <2>8. (y * M + x) % N = FromWords(y % M, x)
        BY PairModulo
    <2>9. Sar3(a, s) = Encode(v \div p)
        BY <2>6, <2>7, <2>8, Zenon DEF Encode
    <2>10. v \div p \in Int
        BY <2>2, DivideBy
    <2> QED
        BY <1>4, <2>2, <2>9, <2>10, EncodeIs, Zenon
<1>7. CASE s >= WORD
    <2>1. PICK t \in 0..WORD : t = s % WORD /\ Pow2[s] = M * Pow2[t] /\ s # 0 /\ ~(s < WORD)
        BY <1>0, <1>7, PastWord
    <2>2. PICK p \in Nat, q \in Nat : WordSplit(t, p, q)
        BY WordSplitIs
    <2>3. p \in Nat \ {0} /\ p = Pow2[t]
        BY <2>2 DEF WordSplit
    <2>4. PICK y \in Int : y = g \div p /\ -m <= y /\ y < m /\ (y < 0 <=> g < 0)
        BY <1>3, <2>3, SmallQuotient
    <2>5. PICK e \in Int : e = g \div m /\ e = y \div M
        <3>1. g \div m = IF g < 0 THEN -1 ELSE 0
            BY <1>3, SignQuotient
        <3>2. y \div M = IF y < 0 THEN -1 ELSE 0
            <4>1. M \in Int /\ 0 < M /\ -M <= y /\ y < M
                BY <1>3, <2>4, Bases
            <4> QED
                BY <4>1, SignQuotient
        <3> QED
            BY <2>4, <3>1, <3>2
    <2>6. Sar3(a, s) = FromWords(e % M, y % M)
        BY <1>1, <1>3, <2>1, <2>3, <2>4, <2>5, Zenon DEF Sar3, WSar
    <2>7. v \div (M * p) = y
        <3>1. v \div M = g
            <4>1. v = M * g + l /\ l \in Int /\ 0 <= l /\ l < M
                <5>1. g * M = M * g
                    BY Bases
                <5> QED
                    BY <1>2, <1>4, <5>1
            <4> QED
                BY <4>1, Bases, DivideUnique, ZenonT(60)
        <3>2. (v \div M) \div p = v \div (M * p)
            <4>1. M \in Nat \ {0}
                BY Bases
            <4> QED
                BY <2>3, <4>1, CutTwice, Zenon
        <3> QED
            BY <2>4, <3>1, <3>2
    <2>8. y % N = FromWords(e % M, y % M)
        <3>1. PICK r \in Word : r = y % M /\ y = M * e + r
            <4>1. y % M \in Nat /\ y % M < M /\ y = M * (y \div M) + (y % M)
                BY Bases, DivideBy
            <4>2. y % M \in Word
                BY <4>1, PatternIs
            <4> QED
                BY <2>5, <4>1, <4>2
        <3>2. (e * M + r) % N = FromWords(e % M, r)
            BY PairModulo
        <3>3. e * M = M * e
            BY Bases
        <3> QED
            BY <3>1, <3>2, <3>3, Zenon
    <2>9. Sar3(a, s) = Encode(v \div Pow2[s])
        BY <2>1, <2>3, <2>6, <2>7, <2>8, Zenon DEF Encode
    <2>10. v \div Pow2[s] \in Int
        BY <2>1, <2>3, <2>7, Zenon
    <2> QED
        BY <1>4, <2>9, <2>10, EncodeIs, Zenon
<1> QED
    BY <1>0, <1>5, <1>6, <1>7

-----------------------------------------------------------------------------
(* Division *)

\* The leading zeros of a word, and the shift that takes them away.
LEMMA LeadingIs ==
    \A w \in Word :
        /\ WLeading[w] \in 0..WORD /\ w < Pow2[WORD - WLeading[w]]
        /\ w # 0 => WLeading[w] < WORD /\ w >= Pow2[WORD - WLeading[w] - 1]
<1> SUFFICES ASSUME NEW w \in Word
             PROVE  /\ WLeading[w] \in 0..WORD /\ w < Pow2[WORD - WLeading[w]]
                    /\ w # 0 => WLeading[w] < WORD /\ w >= Pow2[WORD - WLeading[w] - 1]
    OBVIOUS
<1> DEFINE Leads(z) == w < Pow2[WORD - z] /\ (z = WORD \/ w >= Pow2[WORD - z - 1])
           G == {k \in Nat : k <= WORD /\ w < Pow2[k] => \E z \in 0..WORD : Leads(z)}
<1>0. WORD \in Nat /\ w \in Nat /\ w < Pow2[WORD]
    BY Widths, PatternIs, Pow2Words
<1>1. 0 \in G
    <2>1. WORD \in 0..WORD /\ WORD - WORD = 0
        BY <1>0
    <2> QED
        BY <2>1
<1>2. ASSUME NEW k \in Nat, k \in G PROVE k + 1 \in G
    <2> SUFFICES ASSUME k + 1 <= WORD, w < Pow2[k + 1] PROVE \E z \in 0..WORD : Leads(z)
        OBVIOUS
    <2>1. CASE w < Pow2[k]
        BY <1>0, <1>2, <2>1
    <2>2. CASE ~(w < Pow2[k])
        <3>1. PICK z \in 0..WORD : z = WORD - (k + 1) /\ WORD - z = k + 1 /\ WORD - z - 1 = k
            BY <1>0
        <3>2. Pow2[k] \in Nat
            <4>1. k \in 0..BITS
                BY Widths
            <4> QED
                BY <4>1, Pow2Is
        <3>3. w >= Pow2[k]
            BY <1>0, <2>2, <3>2
        <3> QED
            BY <3>1, <3>3
    <2> QED
        BY <2>1, <2>2
<1>3. Nat \subseteq G
    BY <1>1, <1>2, NatClosure
<1>4. \E z \in 0..WORD : Leads(z)
    BY <1>0, <1>3
<1>5. WLeading[w] \in 0..WORD /\ Leads(WLeading[w])
    BY <1>4 DEF WLeading
<1>6. w # 0 => WLeading[w] # WORD
    <2> SUFFICES ASSUME WLeading[w] = WORD PROVE w = 0
        OBVIOUS
    <2>1. WORD - WLeading[w] = 0
        BY <1>0
    <2> QED
        BY <1>0, <1>5, <2>1, Pow2Is
<1> QED
    BY <1>0, <1>5, <1>6

LEMMA NormalizedIs ==
    \A w \in Word \ {0} :
        \E s \in 0..WORD, p, q \in Nat :
            /\ s = WLeading[w] /\ s < WORD /\ WordSplit(s, p, q)
            /\ w < q /\ w * p \in Word /\ Normal(w * p) /\ WShl(w, s) = w * p
<1> SUFFICES ASSUME NEW w \in Word \ {0}
             PROVE  \E s \in 0..WORD, p, q \in Nat :
                        /\ s = WLeading[w] /\ s < WORD /\ WordSplit(s, p, q)
                        /\ w < q /\ w * p \in Word /\ Normal(w * p) /\ WShl(w, s) = w * p
    OBVIOUS
<1>1. PICK s \in 0..WORD : s = WLeading[w] /\ s < WORD /\ w < Pow2[WORD - s] /\ w >= Pow2[WORD - s - 1]
    BY LeadingIs
<1>2. PICK p \in Nat, q \in Nat : WordSplit(s, p, q)
    BY WordSplitIs
<1>3. p \in Nat \ {0} /\ q \in Nat \ {0} /\ M = p * q /\ q = Pow2[WORD - s]
    BY <1>2 DEF WordSplit
<1>4. PICK k \in Nat : k = Pow2[WORD - s - 1] /\ q = 2 * k
    <2>1. WORD - s \in 1..BITS /\ WORD - s - 1 \in 0..BITS
        BY <1>1, Widths
    <2> QED
        BY <1>3, <2>1, Pow2Is
<1>5. PICK x \in Nat : x = w /\ x < q /\ x >= k
    BY <1>1, <1>3, <1>4, PatternIs
<1>6. x % q = x
    BY <1>3, <1>5, Below
<1>7. WShl(w, s) = w * p /\ w * p \in Word
    <2>1. WShl(w, s) = (w % q) * p /\ WShl(w, s) \in Word
        BY <1>2, WordShifts
    <2> QED
        BY <1>5, <1>6, <2>1, Zenon
<1>8. Normal(x * p)
    <2>1. p * k <= p * x
        BY <1>5, TimesUp
    <2>2. p * (2 * k) = 2 * (p * k)
        OBVIOUS
    <2>3. PICK u \in Nat, v \in Nat : u = p * k /\ v = x * p /\ v = p * x
        BY ProductNat
    <2>4. M = 2 * u /\ u <= v
        BY <1>3, <1>4, <2>1, <2>2, <2>3
    <2> QED
        BY <2>3, <2>4 DEF Normal
<1> QED
    BY <1>1, <1>2, <1>5, <1>7, <1>8

\* udiv256_by_128_to_128: the shift that sets the divisor's top bit changes
\* neither the quotient nor, once it is undone, the remainder.
WordDivided(d, u1, u0, w) ==
    /\ d.q = (u1 * M + u0) \div w /\ d.r = (u1 * M + u0) % w /\ d.steps \in 0..2

LEMMA UDivWordIs ==
    \A u1, u0 \in Word, w \in Word \ {0} : u1 < w => WordDivided(UDivWord(u1, u0, w), u1, u0, w)
<1> SUFFICES ASSUME NEW u1 \in Word, NEW u0 \in Word, NEW w \in Word \ {0}, u1 < w
             PROVE  WordDivided(UDivWord(u1, u0, w), u1, u0, w)
    OBVIOUS
<1>1. PICK s \in 0..WORD, p \in Nat, q \in Nat :
            /\ s = WLeading[w] /\ s < WORD /\ WordSplit(s, p, q)
            /\ w < q /\ w * p \in Word /\ Normal(w * p) /\ WShl(w, s) = w * p
    BY NormalizedIs
<1>2. p \in Nat \ {0} /\ q \in Nat \ {0} /\ M = p * q /\ M = q * p /\ p = Pow2[s]
    BY <1>1 DEF WordSplit
<1>3. PICK x \in Nat, y \in Nat : x = u1 /\ y = u0 /\ x < M /\ y < M
    BY PatternIs
<1>4. (x * p) % M = (x % q) * p /\ (y * p) \div M = y \div q
    <2>1. (x * p) % (q * p) = (x % q) * p
        BY <1>2, ScaledDivision, Zenon
    <2>2. (y * p) \div (q * p) = y \div q
        BY <1>2, ScaledDivision, Zenon
    <2> QED
        BY <1>2, <2>1, <2>2, Zenon
<1>5. ((u1 * p) % M) + (u0 * p) \div M = IF s > 0 THEN WOr(WShl(u1, s), WShr(u0, WORD - s)) ELSE u1
    <2>1. ((u1 * p) % M) + (u0 * p) \div M = (u1 % q) * p + (u0 \div q)
        BY <1>2, <1>3, <1>4, Zenon
    <2>2. CASE s > 0
        <3>1. WOr(WShl(u1, s), WShr(u0, WORD - s)) = (u1 % q) * p + (u0 \div q)
            BY <1>1, ShiftedWords
        <3> QED
            BY <2>1, <2>2, <3>1, Zenon
    <2>3. CASE ~(s > 0)
        <3>1. s = 0
            BY <2>3, Widths
        <3>2. p = 1
            BY <1>2, <3>1, Pow2Is
        <3>3. q = M
            BY <1>2, <3>2
        <3>4. x % q = x /\ y \div q = 0
            BY <1>2, <1>3, <3>3, Below
        <3>5. x * 1 + 0 = x
            OBVIOUS
        <3>6. (u1 % q) * p + (u0 \div q) = u1
            BY <1>3, <3>2, <3>4, <3>5, Zenon
        <3> QED
            BY <2>1, <2>3, <3>6, Zenon
    <2> QED
        BY <2>2, <2>3
<1>6. PICK d : d = DivNormalized(((u1 * p) % M) + (u0 * p) \div M, (u0 * p) % M, w * p)
    OBVIOUS
<1>7. UDivWord(u1, u0, w) = ShiftedBack(d, s)
    <2>1. WShl(u0, s) = (u0 * p) % M
        BY <1>2, Zenon DEF WShl
    <2>2. d = DivNormalized(IF s > 0 THEN WOr(WShl(u1, s), WShr(u0, WORD - s)) ELSE u1,
                            WShl(u0, s), WShl(w, s))
        BY <1>1, <1>5, <1>6, <2>1, Zenon
    <2> QED
        BY <1>1, <2>2, Zenon DEF UDivWord
<1>8. PICK dq, dr, ds : d = [q |-> dq, r |-> dr, steps |-> ds]
    BY <1>6 DEF DivNormalized, FirstDigit, SecondDigit, TwoDigits
<1>9. ShiftedBack(d, s) = [q |-> dq, r |-> WShr(dr, s), steps |-> ds]
    BY <1>8 DEF ShiftedBack
<1>10. /\ d.q = (u1 * M + u0) \div w /\ d.r \div p = (u1 * M + u0) % w
       /\ d.steps \in 0..2
    <2>1. w \in Word /\ p \in Nat \ {0} /\ w * p \in Word /\ Normal(w * p)
        BY <1>1, <1>2, Zenon
    <2>2. LET e == DivNormalized(((u1 * p) % M) + (u0 * p) \div M, (u0 * p) % M, w * p)
          IN /\ e.q = (u1 * M + u0) \div w
             /\ e.r \div p = (u1 * M + u0) % w
             /\ e.steps \in 0..2
        BY <2>1, WordDivision, Zenon
    <2> QED
        BY <1>6, <2>2, Zenon
<1>11. d.q = dq /\ d.r = dr /\ d.steps = ds
    BY <1>8
<1>12. WShr(dr, s) = dr \div p
    BY <1>2, Zenon DEF WShr
<1> QED
    BY <1>7, <1>9, <1>10, <1>11, <1>12 DEF WordDivided

\* The dividend of div_mod_knuth, shifted.
LEMMA FullShlIs ==
    \A a \in Pattern, s \in 0..WORD, p, q \in Nat :
        s < WORD /\ WordSplit(s, p, q)
        => \E u1, u2, u3 \in Word :
               FullShl(a, s) = <<u1, u2, u3>> /\ Value(<<u1, u2, u3>>) = a * p
<1> SUFFICES ASSUME NEW a \in Pattern, NEW s \in 0..WORD, NEW p \in Nat, NEW q \in Nat,
                    s < WORD, WordSplit(s, p, q)
             PROVE  \E u1, u2, u3 \in Word :
                        FullShl(a, s) = <<u1, u2, u3>> /\ Value(<<u1, u2, u3>>) = a * p
    OBVIOUS
<1>1. p \in Nat \ {0} /\ q \in Nat \ {0} /\ M = p * q /\ M = q * p /\ q = Pow2[WORD - s]
    BY DEF WordSplit
<1>2. PICK h \in Word, l \in Word : h = High(a) /\ l = Low(a) /\ a = h * M + l
    BY PatternWords
<1>3. h \in Nat /\ l \in Nat /\ a \in Nat
    BY PatternIs
<1>4. WORD - s \in 0..(BITS - 1)
    BY Widths
<1>5. PICK e \in Pattern : e = Shr3(a, WORD - s) /\ e = a \div q
    BY <1>1, <1>4, ShrIs
<1>6. PICK u1 \in Word, lr \in Nat : u1 = WShl(l, s) /\ u1 = lr * p /\ lr = l % q
    <2>1. WShl(l, s) = (l % q) * p /\ WShl(l, s) \in Word /\ l % q \in Nat
        BY WordShifts
    <2> QED
        BY <2>1
<1>7. PICK u2 \in Word, u3 \in Word : u2 = Low(e) /\ u3 = High(e) /\ e = u3 * M + u2
    BY PatternWords
<1>8. FullShl(a, s) = <<u1, u2, u3>>
    BY <1>2, <1>5, <1>6, <1>7, Zenon DEF FullShl
<1>9. PICK ld \in Nat : l = q * ld + lr /\ lr < q
    <2>1. l \in Nat /\ q \in Nat \ {0}
        BY <1>1, <1>3
    <2>2. PICK x \in Nat, r \in Nat : x = l \div q /\ r = l % q /\ l = q * x + r /\ r < q
        BY <2>1, Divided
    <2> QED
        BY <1>6, <2>2
<1>10. e = h * p + ld
    <2>1. (h * (q * p)) + (q * ld + lr) = q * (h * p + ld) + lr
        BY <1>1, <1>3
    <2>2. a = q * (h * p + ld) + lr
        BY <1>1, <1>2, <1>9, <2>1, Zenon
    <2>3. PICK d \in Int, x \in Int, t \in Nat \ {0} : d = h * p + ld /\ x = a /\ t = q
        BY <1>1, <1>3
    <2>4. x = t * d + lr /\ 0 <= lr /\ lr < t /\ lr \in Int
        BY <1>9, <2>2, <2>3
    <2>5. x \div t = d
        BY <2>4, DivideUnique
    <2> QED
        BY <1>5, <2>3, <2>5, Zenon
<1>11. a * p = e * M + u1
    <2>1. (h * (q * p) + (q * ld + lr)) * p = (h * p + ld) * (q * p) + lr * p
        BY <1>1, <1>3
    <2> QED
        BY <1>1, <1>2, <1>6, <1>9, <1>10, <2>1, Zenon
<1>12. PICK u : u = <<u1, u2, u3>>
    OBVIOUS
<1>14. u[1] = u1 /\ u[2] = u2 /\ u[3] = u3
    BY <1>12
<1>13. Value(u) = a * p
    BY <1>7, <1>11, <1>14, Zenon DEF Value
<1> QED
    BY <1>8, <1>12, <1>13, Zenon

LEMMA FullShrIs ==
    \A u : \A s \in 0..WORD, p, q \in Nat :
        /\ s < WORD /\ WordSplit(s, p, q)
        /\ u[1] \in Word /\ u[2] \in Word /\ u[3] \in Word /\ Value(u) < N
        => FullShr(u, s) = Value(u) \div p
<1> SUFFICES ASSUME NEW s \in 0..WORD, NEW p \in Nat, NEW q \in Nat, NEW u,
                    s < WORD, WordSplit(s, p, q),
                    u[1] \in Word, u[2] \in Word, u[3] \in Word, Value(u) < N
             PROVE  FullShr(u, s) = Value(u) \div p
    OBVIOUS
<1>1. PICK x \in Nat, y \in Nat, z \in Nat : x = u[1] /\ y = u[2] /\ z = u[3]
    BY PatternIs
<1>2. z = 0 /\ Value(u) = FromWords(u[2], u[1])
    <2>1. Value(u) = (z * M + y) * M + x
        BY <1>1, Zenon DEF Value
    <2>2. (z * M + y) * M + x = (M * M) * z + (y * M + x)
        BY Bases
    <2>3. PICK w \in Nat : w = y * M + x
        <3>1. y * M \in Nat
            BY Bases
        <3> QED
            BY <3>1
    <2>4. Value(u) = N * z + w
        BY <2>1, <2>2, <2>3, Bases, Zenon
    <2>5. z = 0
        <3> SUFFICES ASSUME z >= 1 PROVE FALSE
            OBVIOUS
        <3>1. N * 1 <= N * z
            BY Bases, TimesUp
        <3>2. PICK n \in Nat : n = N * z
            BY Bases
        <3> QED
            BY <2>3, <2>4, <3>1, <3>2, Bases
    <2>6. N * z + w = w
        BY <2>3, <2>5, Bases
    <2> QED
        BY <1>1, <2>3, <2>4, <2>5, <2>6, Zenon DEF FromWords
<1>3. PICK a \in Pattern : a = FromWords(u[2], u[1]) /\ High(a) = u[2] /\ Low(a) = u[1]
    BY <1>1, WordsOf
<1>4. FullShr(u, s) = Shr3(a, s)
    <2>1. CASE s = 0
        BY <1>3, <2>1 DEF FullShr, Shr3
    <2>2. CASE s # 0
        <3>1. WShl(0, WORD - s) = 0
            <4>1. WORD - s \in 0..BITS
                BY Widths
            <4>2. PICK v \in Nat : v = Pow2[WORD - s]
                BY <4>1, Pow2Is
            <4>3. 0 * v = 0 /\ 0 % M = 0
                BY Bases, Below
            <4> QED
                BY <4>2, <4>3, Zenon DEF WShl
        <3>2. WShr(u[2], s) \in Word
            BY WordShifts
        <3>3. WOr(WShr(u[2], s), WShl(u[3], WORD - s)) = WShr(u[2], s)
            BY <1>1, <1>2, <3>1, <3>2, WithZero DEF WOr
        <3> QED
            BY <1>3, <2>2, <3>3, Zenon DEF FullShr, Shr3
    <2> QED
        BY <2>1, <2>2
<1>5. Shr3(a, s) = a \div Pow2[s]
    <2>1. s \in 0..(BITS - 1)
        BY Widths
    <2> QED
        BY <2>1, ShrIs
<1> QED
    BY <1>2, <1>3, <1>4, <1>5, Zenon DEF WordSplit

\* What a division of patterns returns.
DividesTo(d, a, b) == d.q = a \div b /\ d.r = a % b /\ d.steps \in 0..2

\* A divisor of two words, shifted until its top bit is set, still is a pattern.
LEMMA ShiftedDivisor ==
    \A b \in Pattern, s \in 0..WORD, p, q \in Nat :
        /\ s < WORD /\ WordSplit(s, p, q) /\ High(b) < q /\ Normal(High(b) * p)
        => Shl3(b, s) = b * p /\ b * p \in Pattern /\ Normal(High(b * p)) /\ High(b * p) \in Word
<1> SUFFICES ASSUME NEW b \in Pattern, NEW s \in 0..WORD, NEW p \in Nat, NEW q \in Nat,
                    s < WORD, WordSplit(s, p, q), High(b) < q, Normal(High(b) * p)
             PROVE  Shl3(b, s) = b * p /\ b * p \in Pattern /\ Normal(High(b * p)) /\ High(b * p) \in Word
    OBVIOUS
<1>1. p \in Nat \ {0} /\ q \in Nat \ {0} /\ M = p * q /\ p = Pow2[s]
    BY DEF WordSplit
<1>2. PICK h \in Nat, l \in Nat : h = High(b) /\ l = Low(b) /\ b = h * M + l /\ h < q /\ l < M
    BY PatternWords, PatternIs
<1>3. b \in Nat /\ b * p \in Nat
    BY <1>1, PatternIs, ProductNat
<1>4. b * p = (h * p) * M + l * p
    BY <1>1, <1>2, Bases
<1>5. PICK hp \in Nat, lp \in Nat : hp = h * p /\ lp = l * p
    BY <1>1, <1>2, ProductNat
<1>6. b * p < N
    <2>1. M * h + M <= M * q
        BY <1>1, <1>2, Bases, TimesAbove
    <2>2. b < M * q
        BY <1>2, <2>1, Bases
    <2>3. p * b + p <= p * (M * q)
        BY <1>1, <1>3, <2>2, Bases, TimesAbove
    <2>4. p * (M * q) = M * (p * q)
        BY <1>1, Bases
    <2>5. p * (M * q) = N
        BY <1>1, <2>4, Bases, Zenon
    <2>6. PICK x \in Nat : x = b * p /\ x = p * b
        BY <1>1, <1>3
    <2> QED
        BY <1>1, <2>3, <2>5, <2>6, Bases
<1>7. PICK x \in Pattern : x = b * p
    BY <1>3, <1>6, PatternIs
<1>8. PICK g \in Nat, k \in Nat : g = High(x) /\ x = g * M + k /\ k < M /\ g \in Word
    BY PatternWords, PatternIs
<1>9. hp <= g
    <2> SUFFICES ASSUME g < hp PROVE FALSE
        OBVIOUS
    <2>1. M * g + M <= M * hp
        BY Bases, TimesAbove
    <2>2. PICK y \in Nat, z \in Nat, m \in Nat : y = M * g /\ y = g * M /\ z = M * hp /\ z = hp * M /\ m = M
        BY Bases
    <2>3. x = z + lp /\ x = y + k
        BY <1>4, <1>5, <1>7, <1>8, <2>2, Zenon
    <2>4. y + m <= z /\ k < m
        BY <1>8, <2>1, <2>2, Zenon
    <2> QED
        BY <2>3, <2>4
<1>10. Normal(g)
    <2>1. M <= 2 * hp
        BY <1>2, <1>5 DEF Normal
    <2> QED
        BY <1>9, <2>1, Bases DEF Normal
<1>11. Shl3(b, s) = x
    <2>1. s \in 0..(BITS - 1)
        BY Widths
    <2>2. Shl3(b, s) = (b * Pow2[s]) % N
        BY <2>1, ShlIs
    <2>3. x \in Nat /\ x < N /\ x % N = x
        BY PatternIs, Bases, Below
    <2> QED
        BY <1>1, <1>7, <2>2, <2>3, Zenon
<1> QED
    BY <1>7, <1>8, <1>10, <1>11

\* The estimate D3 of the digit does not depend on the shift within it.
LEMMA QHatIs ==
    \A v \in Pattern, u1, u2, u3 \in Word : \A u :
        u = <<u1, u2, u3>> /\ Normal(High(v)) /\ u3 < High(v)
        => QHat(u, v) = CorrectedQHat(DivNormalized(u3, u2, High(v)), u, v)
<1> SUFFICES ASSUME NEW v \in Pattern, NEW u1 \in Word, NEW u2 \in Word, NEW u3 \in Word, NEW u,
                    u = <<u1, u2, u3>>, Normal(High(v)), u3 < High(v)
             PROVE  QHat(u, v) = CorrectedQHat(DivNormalized(u3, u2, High(v)), u, v)
    OBVIOUS
<1>1. PICK h \in Word \ {0} : h = High(v)
    BY PatternWords, PatternIs
<1>2. PICK d, e : d = UDivWord(u3, u2, h) /\ e = DivNormalized(u3, u2, h)
    OBVIOUS
<1>3. d.q = (u3 * M + u2) \div h /\ d.r = (u3 * M + u2) % h
    BY <1>1, <1>2, UDivWordIs DEF WordDivided
<1>4. e.q = (u3 * M + u2) \div h /\ e.r = (u3 * M + u2) % h
    BY <1>1, <1>2, DivNormalizedIs
<1>5. CorrectedQHat(d, u, v) = CorrectedQHat(e, u, v)
    BY <1>3, <1>4, Zenon DEF CorrectedQHat
<1>6. u[3] = u3 /\ u[2] = u2
    OBVIOUS
<1> QED
    BY <1>1, <1>2, <1>5, <1>6, Zenon DEF QHat

LEMMA DivModKnuthIs ==
    \A a, b \in Pattern : High(b) # 0 => DividesTo(DivModKnuth(a, b), a, b)
<1> SUFFICES ASSUME NEW a \in Pattern, NEW b \in Pattern, High(b) # 0
             PROVE  DividesTo(DivModKnuth(a, b), a, b)
    OBVIOUS
<1>1. PICK s \in 0..WORD, p \in Nat, q \in Nat :
            /\ s = WLeading[High(b)] /\ s < WORD /\ WordSplit(s, p, q)
            /\ High(b) < q /\ Normal(High(b) * p)
    <2>1. High(b) \in Word \ {0}
        BY PatternWords
    <2> QED
        BY <2>1, NormalizedIs
<1>2. p \in Nat \ {0}
    BY <1>1 DEF WordSplit
<1>3. PICK v \in Pattern : v = b * p /\ v = Shl3(b, s) /\ Normal(High(v)) /\ High(v) \in Word
    BY <1>1, ShiftedDivisor
<1>4. PICK u1 \in Word, u2 \in Word, u3 \in Word :
            FullShl(a, s) = <<u1, u2, u3>> /\ Value(<<u1, u2, u3>>) = a * p
    BY <1>1, FullShlIs
<1>5. PICK u : u = <<u1, u2, u3>>
    OBVIOUS
<1>6. PICK digit : digit = CorrectedQHat(DivNormalized(u3, u2, High(v)), u, v)
    OBVIOUS
<1>7. PICK result : result = KnuthSubtract(u, v, digit)
    OBVIOUS
<1>8. /\ result.q = a \div b /\ Value(result.u) \div p = a % b
      /\ Value(result.u) = Value(u) % v /\ result.steps \in 0..2
      /\ result.u[1] \in Word /\ result.u[2] \in Word /\ result.u[3] \in Word
      /\ u3 < High(v)
    <2> DEFINE U == <<u1, u2, u3>>
               D == CorrectedQHat(DivNormalized(u3, u2, High(v)), U, v)
               R == KnuthSubtract(U, v, D)
    <2>1. b * p = v /\ Normal(High(v)) /\ Value(U) = a * p
        BY <1>3, <1>4
    <2>2. KnuthDivides(R, a, b, p, U, v) /\ u3 < High(v)
        BY <1>2, <2>1, TwoWordDivisionIsExact
    <2>3. /\ R.q = a \div b /\ Value(R.u) \div p = a % b
          /\ Value(R.u) = Value(U) % v /\ R.steps \in 0..2
          /\ R.u[1] \in Word /\ R.u[2] \in Word /\ R.u[3] \in Word
          /\ u3 < High(v)
        BY <2>2, Zenon DEF KnuthDivides
    <2>4. result = R /\ u = U
        BY <1>5, <1>6, <1>7, Zenon
    <2> QED
        BY <2>3, <2>4, Zenon
<1>9. Value(result.u) < N
    <2>1. Value(result.u) = Value(u) % v
        BY <1>8
    <2>2. v \in Nat /\ v < N
        BY PatternIs
    <2>3. v # 0
        <3>1. M <= 2 * High(v)
            BY <1>3 DEF Normal
        <3>2. High(0) = 0
            BY Bases, Below DEF High
        <3> QED
            BY <3>1, <3>2, Bases
    <2>4. PICK x \in Nat : x = Value(u)
        <3>1. a * p \in Nat
            BY <1>2, PatternIs, ProductNat
        <3> QED
            BY <1>4, <1>5, <3>1
    <2>5. x % v \in Nat /\ x % v < v
        BY <2>2, <2>3, DivideBy
    <2> QED
        BY <2>1, <2>2, <2>4, <2>5, Bases
<1>10. DivModKnuth(a, b) = [q |-> UNew(result.q), r |-> FullShr(result.u, s), steps |-> result.steps]
    <2>1. QHat(u, v) = digit
        BY <1>3, <1>5, <1>6, <1>8, QHatIs
    <2>2. KnuthNormalized(u, v) = result
        BY <1>7, <2>1, Zenon DEF KnuthNormalized
    <2>3. DivModKnuth(a, b) = KnuthShiftedBack(KnuthNormalized(FullShl(a, s), Shl3(b, s)), s)
        BY <1>1, Zenon DEF DivModKnuth
    <2>4. DivModKnuth(a, b) = KnuthShiftedBack(result, s)
        BY <1>3, <1>4, <1>5, <2>2, <2>3, Zenon
    <2> QED
        BY <2>4, Zenon DEF KnuthShiftedBack
<1>11. UNew(result.q) = a \div b
    <2>1. a \in Nat /\ b \in Nat \ {0}
        <3>1. High(0) = 0
            BY Bases, Below DEF High
        <3> QED
            BY <3>1, PatternIs
    <2>2. PICK x \in Nat : x = a \div b
        BY <2>1, DivideBy
    <2>3. 0 * M + x = x
        BY Bases
    <2> QED
        BY <1>8, <2>2, <2>3, Zenon DEF UNew, FromWords
<1>12. FullShr(result.u, s) = a % b
    <2>1. FullShr(result.u, s) = Value(result.u) \div p
        BY <1>1, <1>8, <1>9, FullShrIs
    <2> QED
        BY <1>8, <2>1, Zenon
<1> QED
    BY <1>8, <1>10, <1>11, <1>12 DEF DividesTo

LEMMA NewIs == \A x \in Nat : UNew(x) = x
<1> SUFFICES ASSUME NEW x \in Nat PROVE UNew(x) = x
    OBVIOUS
<1>1. 0 * M + x = x
    BY Bases
<1> QED
    BY <1>1, Zenon DEF UNew, FromWords

LEMMA OneWord ==
    \A x \in Pattern : High(x) = 0 => x = Low(x) /\ x \in Word
<1> SUFFICES ASSUME NEW x \in Pattern, High(x) = 0 PROVE x = Low(x) /\ x \in Word
    OBVIOUS
<1>1. x = 0 * M + Low(x) /\ Low(x) \in Word /\ Low(x) \in Nat
    BY PatternWords, PatternIs
<1>2. 0 * M = 0
    BY Bases
<1> QED
    BY <1>1, <1>2

\* A dividend of two words and a divisor of one: the high word first.
LEMMA WordQuotientIs ==
    \A a \in Pattern, w \in Word \ {0} :
        DividesTo(WordQuotient(High(a) \div w, UDivWord(High(a) % w, Low(a), w)), a, w)
<1> SUFFICES ASSUME NEW a \in Pattern, NEW w \in Word \ {0}
             PROVE  DividesTo(WordQuotient(High(a) \div w, UDivWord(High(a) % w, Low(a), w)), a, w)
    OBVIOUS
<1>1. PICK h \in Nat, l \in Nat, x \in Nat, n \in Nat \ {0} :
            h = High(a) /\ l = Low(a) /\ x = a /\ x = h * M + l /\ n = w /\ n < M
    BY PatternWords, PatternIs
<1>2. PICK k \in Nat, r \in Nat : k = h \div n /\ r = h % n /\ h = n * k + r /\ r < n
    BY Divided
<1>3. r \in Word
    <2>1. 0 <= r /\ r < M
        BY <1>1, <1>2, Bases
    <2> QED
        BY <2>1, PatternIs
<1>4. r * M + l \in Nat
    BY Bases
<1>5. PICK q \in Nat, t \in Nat :
            q = (r * M + l) \div n /\ t = (r * M + l) % n /\ r * M + l = n * q + t /\ t < n
    BY <1>4, Divided
<1>6. PICK d : d = UDivWord(r, l, w)
    OBVIOUS
<1>7. d.q = q /\ d.r = t /\ d.steps \in 0..2
    <2>1. l \in Word
        BY <1>1, PatternWords
    <2>2. WordDivided(d, r, l, w)
        BY <1>1, <1>2, <1>3, <1>6, <2>1, UDivWordIs
    <2> QED
        BY <1>1, <1>5, <2>2, Zenon DEF WordDivided
<1>8. x = n * (k * M + q) + t
    <2>1. (n * k + r) * M + l = n * (k * M) + (r * M + l)
        BY Bases
    <2>2. n * (k * M) + (n * q + t) = n * (k * M + q) + t
        BY Bases
    <2> QED
        BY <1>1, <1>2, <1>5, <2>1, <2>2, ZenonT(60)
<1>9. x \div n = k * M + q /\ x % n = t
    <2>1. PICK e \in Int : e = k * M + q
        BY Bases
    <2>2. x = n * e + t
        BY <1>8, <2>1, Zenon
    <2>3. t < n /\ 0 <= t /\ t \in Int /\ x \in Int
        BY <1>5
    <2>4. x \div n = e /\ x % n = t
        BY <2>2, <2>3, DivideUnique
    <2> QED
        BY <2>1, <2>4, Zenon
<1>10. WordQuotient(k, d) = [q |-> FromWords(k, d.q), r |-> UNew(d.r), steps |-> d.steps]
    BY DEF WordQuotient
<1>11. UNew(d.r) = t
    BY <1>7, NewIs
<1>12. PICK e : e = WordQuotient(k, d)
    OBVIOUS
<1>13. e.q = FromWords(k, d.q) /\ e.r = UNew(d.r) /\ e.steps = d.steps
    BY <1>10, <1>12
<1>14. e.q = a \div w /\ e.r = a % w /\ e.steps \in 0..2
    BY <1>1, <1>7, <1>9, <1>11, <1>13, Zenon DEF FromWords
<1>15. e = WordQuotient(High(a) \div w, UDivWord(High(a) % w, Low(a), w))
    BY <1>1, <1>2, <1>6, <1>12, Zenon
<1> QED
    BY <1>14, <1>15, Zenon DEF DividesTo

\* However the words of dividend and divisor fall, udivmod4 returns the
\* quotient and the remainder of the integers, and its loops that correct an
\* estimated digit stop after the two rounds the code promises.
THEOREM UnsignedDivisionIsExact ==
    \A a, b \in Pattern : b # 0 => DividesTo(UDivMod4(a, b), a, b)
<1> SUFFICES ASSUME NEW a \in Pattern, NEW b \in Pattern, b # 0
             PROVE  DividesTo(UDivMod4(a, b), a, b)
    OBVIOUS
<1>0. PICK x \in Nat, y \in Nat \ {0} : x = a /\ y = b
    BY PatternIs
<1>1. CASE High(a) = 0 /\ High(b) = 0
    <2>1. a = Low(a) /\ b = Low(b)
        BY <1>1, OneWord
    <2>2. x \div y \in Nat /\ x % y \in Nat
        BY DivideBy
    <2>3. UDivMod4(a, b) = [q |-> UNew(a \div b), r |-> UNew(a % b), steps |-> 0]
        BY <1>1, <2>1, Zenon DEF UDivMod4
    <2> QED
        BY <1>0, <2>2, <2>3, NewIs DEF DividesTo
<1>2. CASE ~(High(a) = 0 /\ High(b) = 0) /\ ULt(a, b)
    <2>1. x < y
        BY <1>0, <1>2, OrdersAreExact
    <2>2. x \div y = 0 /\ x % y = x
        BY <2>1, Below
    <2>3. UDivMod4(a, b) = [q |-> ZERO, r |-> a, steps |-> 0]
        BY <1>2, Zenon DEF UDivMod4
    <2> QED
        BY <1>0, <2>2, <2>3 DEF DividesTo, ZERO
<1>3. CASE ~(High(a) = 0 /\ High(b) = 0) /\ ~ULt(a, b) /\ High(b) # 0
    <2>1. UDivMod4(a, b) = DivModKnuth(a, b)
        BY <1>3, Zenon DEF UDivMod4
    <2> QED
        BY <1>3, <2>1, DivModKnuthIs
<1>4. CASE ~(High(a) = 0 /\ High(b) = 0) /\ ~ULt(a, b) /\ High(b) = 0
    <2>1. b = Low(b) /\ b \in Word \ {0}
        BY <1>4, OneWord
    <2>2. UDivMod4(a, b) = WordQuotient(High(a) \div b, UDivWord(High(a) % b, Low(a), b))
        BY <1>4, <2>1, Zenon DEF UDivMod4
    <2> QED
        BY <2>1, <2>2, WordQuotientIs
<1> QED
    BY <1>1, <1>2, <1>3, <1>4

-----------------------------------------------------------------------------
(* Signs *)

LEMMA LastPattern == N - 1 \in Pattern /\ High(N - 1) = M - 1 /\ Low(N - 1) = M - 1
<1>1. FromWords(M - 1, M - 1) = N - 1
    <2>1. (M - 1) * M + (M - 1) = M * M - 1
        BY Bases
    <2> QED
        BY <2>1, Bases DEF FromWords
<1>2. M - 1 \in Nat /\ M - 1 \in Word
    BY Bases DEF Word
<1> QED
    BY <1>1, <1>2, WordsOf, Zenon

LEMMA MaskedIs ==
    \A x \in Pattern : BitXor(x, 0) = x /\ BitXor(x, N - 1) = N - 1 - x
<1> SUFFICES ASSUME NEW x \in Pattern
             PROVE  BitXor(x, 0) = x /\ BitXor(x, N - 1) = N - 1 - x
    OBVIOUS
<1>1. PICK h \in Word, l \in Word : h = High(x) /\ l = Low(x) /\ x = h * M + l
    BY PatternWords
<1>2. High(0) = 0 /\ Low(0) = 0
    BY Bases, Below DEF High, Low
<1>3. BitXor(x, 0) = x
    <2>1. WXor(h, 0) = h /\ WXor(l, 0) = l
        BY WithZero DEF WXor
    <2> QED
        BY <1>1, <1>2, <2>1, Zenon DEF BitXor, FromWords
<1>4. BitXor(x, N - 1) = N - 1 - x
    <2>1. WXor(h, M - 1) = M - 1 - h /\ WXor(l, M - 1) = M - 1 - l
        BY WithOnes DEF WXor
    <2>2. BitXor(x, N - 1) = (M - 1 - h) * M + (M - 1 - l)
        BY <1>1, <2>1, LastPattern, Zenon DEF BitXor, FromWords
    <2>3. PICK g \in Nat, k \in Nat : g = h /\ k = l
        BY PatternIs
    <2>4. (M - 1 - g) * M + (M - 1 - k) = M * M - 1 - (g * M + k)
        BY Bases
    <2> QED
        BY <1>1, <2>2, <2>3, <2>4, Bases, Zenon
<1> QED
    BY <1>3, <1>4

LEMMA SignMaskIs ==
    \A a \in Pattern : SignMask(a) = IF AsSigned(a) < 0 THEN N - 1 ELSE 0
<1> SUFFICES ASSUME NEW a \in Pattern
             PROVE  SignMask(a) = IF AsSigned(a) < 0 THEN N - 1 ELSE 0
    OBVIOUS
<1>1. PICK v \in Int : v = AsSigned(a) /\ -IMIN <= v /\ v < IMIN
    BY SignedValue
<1>2. Pow2[BITS - 1] = IMIN
    <2>1. BITS \in 1..BITS /\ BITS - 1 \in 0..BITS
        BY Widths
    <2>2. Pow2[BITS] = 2 * Pow2[BITS - 1] /\ Pow2[BITS - 1] \in Nat
        BY <2>1, Pow2Is
    <2>3. PICK n \in Nat, i \in Nat, k \in Nat : n = N /\ i = IMIN /\ n = 2 * i /\ k = Pow2[BITS - 1] /\ n = 2 * k
        BY <2>2, Pow2Words, SignBase, Bases, Zenon
    <2>4. i = k
        BY <2>3
    <2> QED
        BY <2>3, <2>4, Zenon
<1>3. SignMask(a) = Encode(v \div IMIN)
    <2>1. BITS - 1 \in 0..(BITS - 1)
        BY Widths
    <2>2. Sar3(a, BITS - 1) = Encode(AsSigned(a) \div Pow2[BITS - 1])
        BY <2>1, SarIs
    <2> QED
        BY <1>1, <1>2, <2>2, Zenon DEF SignMask
<1>4. v \div IMIN = IF v < 0 THEN -1 ELSE 0
    <2>1. IMIN \in Int /\ 0 < IMIN
        BY SignBase
    <2> QED
        BY <1>1, <2>1, SignQuotient
<1>5. Encode(-1) = N - 1 /\ Encode(0) = 0
    <2>1. (-1) = N * (-1) + (N - 1) /\ 0 <= N - 1 /\ N - 1 < N /\ N - 1 \in Int /\ -1 \in Int
        BY Bases
    <2>2. (-1) % N = N - 1
        BY <2>1, Bases, DivideUnique
    <2>3. 0 % N = 0
        BY Bases, Below
    <2> QED
        BY <2>2, <2>3 DEF Encode
<1> QED
    BY <1>1, <1>3, <1>4, <1>5

LEMMA NegateIfIs ==
    \A x \in Pattern : NegateIf(x, 0) = x /\ NegateIf(x, N - 1) = Encode(-x)
<1> SUFFICES ASSUME NEW x \in Pattern
             PROVE  NegateIf(x, 0) = x /\ NegateIf(x, N - 1) = Encode(-x)
    OBVIOUS
<1>1. PICK n \in Nat : n = x /\ n < N
    BY PatternIs
<1>2. NegateIf(x, 0) = x
    <2>1. NegateIf(x, 0) = Sub3(x, 0)
        BY MaskedIs, Zenon DEF NegateIf
    <2>2. Sub3(x, 0) = (x - 0) % N
        BY ZeroPattern, SumsAreExact, Zenon
    <2>3. (n - 0) % N = n
        BY <1>1, Bases, Below
    <2> QED
        BY <1>1, <2>1, <2>2, <2>3, Zenon
<1>3. NegateIf(x, N - 1) = Encode(-x)
    <2>1. PICK y \in Pattern : y = N - 1 - x
        <3>1. N - 1 - n \in Int /\ 0 <= N - 1 - n /\ N - 1 - n < N
            BY <1>1, Bases
        <3> QED
            BY <1>1, <3>1, PatternIs
    <2>2. NegateIf(x, N - 1) = Sub3(y, N - 1)
        BY <2>1, MaskedIs, Zenon DEF NegateIf
    <2>3. Sub3(y, N - 1) = (y - (N - 1)) % N
        BY LastPattern, SumsAreExact, Zenon
    <2>4. y - (N - 1) = -x
        BY <1>1, <2>1, Bases
    <2> QED
        BY <2>2, <2>3, <2>4, Zenon DEF Encode
<1> QED
    BY <1>2, <1>3

\* The absolute value of a signed pattern, by its sign mask; that of MIN is
\* the pattern of MIN.
LEMMA MagnitudeIs ==
    \A a \in Pattern : /\ NegateIf(a, SignMask(a)) = AbsOf(AsSigned(a))
                       /\ AbsOf(AsSigned(a)) \in Pattern /\ AbsOf(AsSigned(a)) <= IMIN
                       /\ AbsOf(AsSigned(a)) = 0 <=> a = 0
<1> SUFFICES ASSUME NEW a \in Pattern
             PROVE  /\ NegateIf(a, SignMask(a)) = AbsOf(AsSigned(a))
                    /\ AbsOf(AsSigned(a)) \in Pattern /\ AbsOf(AsSigned(a)) <= IMIN
                    /\ AbsOf(AsSigned(a)) = 0 <=> a = 0
    OBVIOUS
<1>1. PICK n \in Nat, i \in Nat \ {0} : n = a /\ n < N /\ i = IMIN /\ N = 2 * i
    BY PatternIs, SignBase
<1>2. PICK v \in Int : v = AsSigned(a) /\ v = IF n >= i THEN n - N ELSE n
    <2>1. AsSigned(a) = IF n >= i THEN n - N ELSE n
        BY <1>1, Zenon DEF AsSigned
    <2> QED
        BY <2>1, SignedValue
<1>3. PICK m \in Int : m = AbsOf(v) /\ m = IF n >= i THEN N - n ELSE n
    BY <1>1, <1>2, Bases DEF AbsOf
<1>4. m \in Pattern /\ m <= i /\ (m = 0 <=> n = 0)
    <2>1. 0 <= m /\ m < N /\ m <= i /\ (m = 0 <=> n = 0)
        BY <1>1, <1>3, Bases
    <2> QED
        BY <2>1, PatternIs
<1>5. NegateIf(a, SignMask(a)) = m
    <2>1. CASE v < 0
        <3>1. NegateIf(a, SignMask(a)) = Encode(-a)
            BY <1>2, <2>1, SignMaskIs, NegateIfIs
        <3>2. n >= i
            BY <1>1, <1>2, <2>1
        <3>3. -n = N * (-1) + m /\ 0 <= m /\ m < N /\ -n \in Int /\ -1 \in Int
            BY <1>1, <1>3, <3>2, Bases
        <3>4. (-n) % N = m
            BY <3>3, Bases, DivideUnique
        <3> QED
            BY <1>1, <3>1, <3>4, Zenon DEF Encode
    <2>2. CASE ~(v < 0)
        <3>1. NegateIf(a, SignMask(a)) = a
            BY <1>2, <2>2, SignMaskIs, NegateIfIs
        <3>2. m = n
            BY <1>1, <1>2, <1>3, <2>2, Bases
        <3> QED
            BY <1>1, <3>1, <3>2
    <2> QED
        BY <2>1, <2>2
<1> QED
    BY <1>1, <1>2, <1>3, <1>4, <1>5

-----------------------------------------------------------------------------
(* Signed division *)

\* The signs of truncating division: what the divisor's multiple leaves has
\* the sign of the dividend, and is smaller than the divisor.
Truncates(x, y, q, r) ==
    /\ Quot(x, y) = IF (x < 0) = (y < 0) THEN q ELSE -q
    /\ x - Quot(x, y) * y = IF x < 0 THEN -r ELSE r
    /\ q \in Nat /\ r \in Nat /\ r < AbsOf(y) /\ q <= AbsOf(x)
    /\ AbsOf(y) >= 2 /\ AbsOf(x) > 0 => q < AbsOf(x)

LEMMA TruncatesIs ==
    \A x \in Int, y \in Int \ {0} :
        \E q, r \in Nat : /\ q = AbsOf(x) \div AbsOf(y) /\ r = AbsOf(x) % AbsOf(y)
                          /\ Truncates(x, y, q, r)
<1> SUFFICES ASSUME NEW x \in Int, NEW y \in Int \ {0}
             PROVE  \E q, r \in Nat : /\ q = AbsOf(x) \div AbsOf(y) /\ r = AbsOf(x) % AbsOf(y)
                                      /\ Truncates(x, y, q, r)
    OBVIOUS
<1>1. PICK m \in Nat, n \in Nat \ {0} :
            m = AbsOf(x) /\ n = AbsOf(y) /\ m = (IF x < 0 THEN -x ELSE x) /\ n = IF y < 0 THEN -y ELSE y
    BY DEF AbsOf
<1>2. PICK q \in Nat, r \in Nat : q = m \div n /\ r = m % n /\ m = n * q + r /\ r < n
    BY Divided
<1>3. Quot(x, y) = IF (x < 0) = (y < 0) THEN q ELSE -q
    BY <1>1, <1>2, Zenon DEF Quot
<1>4. PICK k \in Int : k = Quot(x, y)
    BY <1>3
<1>5. x - k * y = IF x < 0 THEN -r ELSE r
    <2>1. PICK z \in Nat : z = n * q /\ z = q * n /\ m = z + r
        BY <1>2
    <2>2. q * (-n) = -(n * q) /\ (-q) * n = -(n * q) /\ (-q) * (-n) = n * q
        OBVIOUS
    <2>3. k * y = IF x < 0 THEN -z ELSE z
        <3>1. CASE x < 0 /\ y < 0
            BY <1>1, <1>3, <1>4, <2>1, <2>2, <3>1
        <3>2. CASE x < 0 /\ ~(y < 0)
            BY <1>1, <1>3, <1>4, <2>1, <2>2, <3>2
        <3>3. CASE ~(x < 0) /\ y < 0
            BY <1>1, <1>3, <1>4, <2>1, <2>2, <3>3
        <3>4. CASE ~(x < 0) /\ ~(y < 0)
            BY <1>1, <1>3, <1>4, <2>1, <2>2, <3>4
        <3> QED
            BY <3>1, <3>2, <3>3, <3>4
    <2>4. PICK w \in Int : w = k * y
        OBVIOUS
    <2> QED
        BY <1>1, <2>1, <2>3, <2>4
<1>6. q <= m /\ (n >= 2 /\ m > 0 => q < m)
    <2>1. q * 1 <= q * n
        BY TimesUp
    <2>2. PICK z \in Nat : z = n * q /\ z = q * n /\ m = z + r
        BY <1>2
    <2>3. q <= m
        BY <2>1, <2>2
    <2>4. n >= 2 /\ m > 0 => q < m
        <3> SUFFICES ASSUME n >= 2, m > 0 PROVE q < m
            OBVIOUS
        <3>1. q * 2 <= q * n
            BY TimesUp
        <3> QED
            BY <2>2, <2>3, <3>1
    <2> QED
        BY <2>3, <2>4
<1> QED
    BY <1>1, <1>2, <1>3, <1>4, <1>5, <1>6 DEF Truncates

LEMMA EncodeNat == \A n \in Pattern : Encode(n) = n
BY EncodeIs

\* What idivmod4 returns: the quotient rounded towards zero, and what it leaves.
SignedDivides(d, x, y) ==
    /\ d.q = Encode(Quot(x, y)) /\ d.r = Encode(x - Quot(x, y) * y)
    /\ d.steps \in 0..2

\* Divided without their signs and given them back, I256 patterns have the
\* truncated quotient of the integers they stand for, and what it leaves as
\* remainder, MIN among them; MIN / -1 wraps to MIN.
THEOREM SignedDivisionIsExact ==
    \A a, b \in Pattern : b # 0 => SignedDivides(IDivMod4(a, b), AsSigned(a), AsSigned(b))
<1> SUFFICES ASSUME NEW a \in Pattern, NEW b \in Pattern, b # 0
             PROVE  SignedDivides(IDivMod4(a, b), AsSigned(a), AsSigned(b))
    OBVIOUS
<1>1. PICK x \in Int, y \in Int \ {0}, m \in Pattern, n \in Pattern :
            /\ x = AsSigned(a) /\ y = AsSigned(b)
            /\ m = AbsOf(x) /\ m = NegateIf(a, SignMask(a))
            /\ n = AbsOf(y) /\ n = NegateIf(b, SignMask(b)) /\ n # 0
    <2>1. AsSigned(a) \in Int /\ AsSigned(b) \in Int /\ AbsOf(AsSigned(b)) # 0
        BY SignedValue, MagnitudeIs
    <2>2. AsSigned(b) # 0
        BY <2>1 DEF AbsOf
    <2> QED
        BY <2>1, <2>2, MagnitudeIs
<1>2. PICK q \in Nat, r \in Nat :
            /\ q = AbsOf(x) \div AbsOf(y) /\ r = AbsOf(x) % AbsOf(y)
            /\ Truncates(x, y, q, r)
    BY TruncatesIs
<1>3. PICK d : d = UDivMod4(m, n)
    OBVIOUS
<1>4. d.q = q /\ d.r = r /\ d.steps \in 0..2
    BY <1>1, <1>2, <1>3, UnsignedDivisionIsExact DEF DividesTo
<1>5. q \in Pattern /\ r \in Pattern
    <2>1. m \in Nat /\ n \in Nat /\ m < N /\ n < N
        BY PatternIs
    <2>2. q <= m /\ r < n
        BY <1>1, <1>2 DEF Truncates
    <2> QED
        BY <2>1, <2>2, Bases, PatternIs
<1>6. PICK sa, sb : sa = SignMask(a) /\ sb = SignMask(b)
    OBVIOUS
<1>7. sa = (IF x < 0 THEN N - 1 ELSE 0) /\ sb = IF y < 0 THEN N - 1 ELSE 0
    BY <1>1, <1>6, SignMaskIs
<1>8. BitXor(sb, sa) = IF (x < 0) = (y < 0) THEN 0 ELSE N - 1
    <2>1. /\ BitXor(0, 0) = 0 /\ BitXor(0, N - 1) = N - 1
          /\ BitXor(N - 1, 0) = N - 1 /\ BitXor(N - 1, N - 1) = 0
        <3>1. N - 1 - 0 = N - 1 /\ N - 1 - (N - 1) = 0
            BY Bases
        <3> QED
            BY <3>1, MaskedIs, LastPattern, ZeroPattern
    <2>2. CASE x < 0 /\ y < 0
        BY <1>7, <2>1, <2>2
    <2>3. CASE x < 0 /\ ~(y < 0)
        BY <1>7, <2>1, <2>3
    <2>4. CASE ~(x < 0) /\ y < 0
        BY <1>7, <2>1, <2>4
    <2>5. CASE ~(x < 0) /\ ~(y < 0)
        BY <1>7, <2>1, <2>5
    <2> QED
        BY <2>2, <2>3, <2>4, <2>5
<1>9. NegateIf(q, BitXor(sb, sa)) = Encode(Quot(x, y))
    <2>1. NegateIf(q, BitXor(sb, sa)) = IF (x < 0) = (y < 0) THEN Encode(q) ELSE Encode(-q)
        BY <1>5, <1>8, NegateIfIs, EncodeNat, Zenon
    <2> QED
        BY <1>2, <2>1, Zenon DEF Truncates
<1>10. NegateIf(r, sa) = Encode(x - Quot(x, y) * y)
    <2>1. NegateIf(r, sa) = IF x < 0 THEN Encode(-r) ELSE Encode(r)
        BY <1>5, <1>7, NegateIfIs, EncodeNat, Zenon
    <2> QED
        BY <1>2, <2>1, Zenon DEF Truncates
<1>11. PICK e : e = IDivMod4(a, b)
    OBVIOUS
<1>12. e = [q |-> NegateIf(d.q, BitXor(sb, sa)), r |-> NegateIf(d.r, sa), steps |-> d.steps]
    BY <1>1, <1>3, <1>6, <1>11, Zenon DEF IDivMod4, WithSigns
<1>13. e.q = NegateIf(q, BitXor(sb, sa)) /\ e.r = NegateIf(r, sa) /\ e.steps \in 0..2
    BY <1>4, <1>12
<1> QED
    BY <1>1, <1>9, <1>10, <1>11, <1>13, Zenon DEF SignedDivides

-----------------------------------------------------------------------------
(* Euclidean division *)

LEMMA EncodedSums ==
    \A v \in Int, b \in Pattern : /\ Add3(Encode(v), b) = Encode(v + AsSigned(b))
                                  /\ Sub3(Encode(v), b) = Encode(v - AsSigned(b))
<1> SUFFICES ASSUME NEW v \in Int, NEW b \in Pattern
             PROVE  /\ Add3(Encode(v), b) = Encode(v + AsSigned(b))
                    /\ Sub3(Encode(v), b) = Encode(v - AsSigned(b))
    OBVIOUS
<1>1. PICK n \in Nat, y \in Int : n = b /\ y = AsSigned(b) /\ (y = n \/ y = n - N)
    <2>1. PICK n \in Nat : n = b
        BY PatternIs
    <2>2. AsSigned(b) = IF n >= IMIN THEN n - N ELSE n
        BY <2>1, Zenon DEF AsSigned
    <2> QED
        BY <2>1, <2>2, SignedValue
<1>2. PICK e \in Pattern : e = Encode(v) /\ e = v % N
    BY EncodeIs DEF Encode
<1>3. Add3(e, b) = ((v % N) + n) % N /\ Sub3(e, b) = ((v % N) + (-n)) % N
    <2>1. Add3(e, b) = (e + b) % N /\ Sub3(e, b) = (e - b) % N
        BY SumsAreExact, Zenon
    <2>2. e - b = e + (-n)
        BY <1>1, PatternIs
    <2> QED
        BY <1>1, <1>2, <2>1, <2>2, Zenon
<1>4. /\ ((v % N) + n) % N = (v + n) % N
      /\ ((v % N) + (-n)) % N = (v + (-n)) % N
    <2>1. n \in Int /\ -n \in Int /\ N \in Nat \ {0}
        BY Bases
    <2> QED
        BY <2>1, ModPlus
<1>5. (v + n) % N = (v + y) % N /\ (v + (-n)) % N = (v - y) % N
    <2>1. CASE y = n
        <3>1. v + (-n) = v - n
            OBVIOUS
        <3> QED
            BY <2>1, <3>1, Zenon
    <2>2. CASE y = n - N
        <3>1. PICK f \in Int, g \in Int : f = v + n /\ g = v + (-n)
            OBVIOUS
        <3>2. (f - N) % N = f % N /\ (g + N) % N = g % N
            BY ModShift, Bases
        <3>3. f - N = v + y /\ g + N = v - y
            BY <2>2, <3>1, Bases
        <3> QED
            BY <3>1, <3>2, <3>3, Zenon
    <2> QED
        BY <1>1, <2>1, <2>2
<1> QED
    BY <1>1, <1>2, <1>3, <1>4, <1>5, Zenon DEF Encode

LEMMA SignOfProduct ==
    \A k \in Int, y \in Int \ {0} :
        /\ AbsOf(k * y) = AbsOf(k) * AbsOf(y) /\ AbsOf(k) \in Nat /\ AbsOf(y) \in Nat \ {0}
        /\ k > 0 => ((k * y < 0) = (y < 0))
        /\ k < 0 => ((k * y < 0) = (y > 0))
<1> SUFFICES ASSUME NEW k \in Int, NEW y \in Int \ {0}
             PROVE  /\ AbsOf(k * y) = AbsOf(k) * AbsOf(y) /\ AbsOf(k) \in Nat /\ AbsOf(y) \in Nat \ {0}
                    /\ k > 0 => ((k * y < 0) = (y < 0))
                    /\ k < 0 => ((k * y < 0) = (y > 0))
    OBVIOUS
<1>1. PICK m \in Nat, n \in Nat \ {0} :
            m = AbsOf(k) /\ n = AbsOf(y) /\ m = (IF k < 0 THEN -k ELSE k) /\ n = IF y < 0 THEN -y ELSE y
    BY DEF AbsOf
<1>2. PICK z \in Nat : z = m * n /\ (m > 0 => z > 0)
    <2>1. m > 0 => n * 1 <= n * m
        BY TimesUp
    <2>2. PICK z \in Nat : z = m * n /\ z = n * m
        BY ProductNat
    <2> QED
        BY <2>1, <2>2
<1>3. m * (-n) = -(m * n) /\ (-m) * n = -(m * n) /\ (-m) * (-n) = m * n
    OBVIOUS
<1>4. PICK w \in Int : w = k * y
    OBVIOUS
<1>5. w = IF (k < 0) = (y < 0) THEN z ELSE -z
    <2>1. CASE k < 0 /\ y < 0
        BY <1>1, <1>2, <1>3, <1>4, <2>1
    <2>2. CASE k < 0 /\ ~(y < 0)
        BY <1>1, <1>2, <1>3, <1>4, <2>2
    <2>3. CASE ~(k < 0) /\ y < 0
        BY <1>1, <1>2, <1>3, <1>4, <2>3
    <2>4. CASE ~(k < 0) /\ ~(y < 0)
        BY <1>1, <1>2, <1>3, <1>4, <2>4
    <2> QED
        BY <2>1, <2>2, <2>3, <2>4
<1>6. AbsOf(w) = z
    <2>1. k = 0 => z = 0
        BY <1>1, <1>2
    <2>2. AbsOf(w) = IF w < 0 THEN -w ELSE w
        BY Zenon DEF AbsOf
    <2> QED
        BY <1>5, <2>2
<1>7. (k > 0 => ((w < 0) = (y < 0))) /\ (k < 0 => ((w < 0) = (y > 0)))
    BY <1>1, <1>2, <1>5
<1> QED
    BY <1>1, <1>2, <1>4, <1>6, <1>7, Zenon

LEMMA QuotOfMultiple ==
    \A k \in Int, y \in Int \ {0} : Quot(k * y, y) = k
<1> SUFFICES ASSUME NEW k \in Int, NEW y \in Int \ {0} PROVE Quot(k * y, y) = k
    OBVIOUS
<1>1. PICK m \in Nat, n \in Nat \ {0} : m = AbsOf(k) /\ n = AbsOf(y) /\ m = (IF k < 0 THEN -k ELSE k)
    BY SignOfProduct DEF AbsOf
<1>2. PICK w \in Int : w = k * y /\ AbsOf(w) = m * n
    <2>1. AbsOf(k * y) = AbsOf(k) * AbsOf(y) /\ k * y \in Int
        BY SignOfProduct
    <2> QED
        BY <1>1, <2>1, Zenon
<1>3. AbsOf(w) \div AbsOf(y) = m
    <2>1. PICK z \in Int : z = m * n /\ z = n * m + 0
        OBVIOUS
    <2>2. z \div n = m
        BY <2>1, DivideUnique
    <2> QED
        BY <1>1, <1>2, <2>1, <2>2, Zenon
<1>4. Quot(w, y) = IF (w < 0) = (y < 0) THEN m ELSE -m
    BY <1>3, Zenon DEF Quot
<1>5. (k > 0 => ((w < 0) = (y < 0))) /\ (k < 0 => ((w < 0) = (y > 0)))
    BY <1>2, SignOfProduct, Zenon
<1>6. Quot(w, y) = k
    <2>1. CASE k > 0
        BY <1>1, <1>4, <1>5, <2>1
    <2>2. CASE k < 0
        BY <1>1, <1>4, <1>5, <2>2
    <2>3. CASE ~(k > 0) /\ ~(k < 0)
        <3>1. m = k
            BY <1>1, <2>3
        <3>2. -k = k
            BY <2>3
        <3> QED
            BY <1>4, <3>1, <3>2, Zenon
    <2> QED
        BY <2>1, <2>2, <2>3
<1> QED
    BY <1>2, <1>6, Zenon

\* The Euclidean remainder is not negative: what is left below zero is made up
\* by one more divisor.
LEMMA EuclidIs ==
    \A x \in Int, y \in Int \ {0}, q, r \in Int :
        q = Quot(x, y) /\ r = x - q * y
        => /\ EuclidRem(x, y) = IF r >= 0 THEN r ELSE IF y < 0 THEN r - y ELSE r + y
           /\ EuclidQuot(x, y) = IF r >= 0 THEN q ELSE IF y > 0 THEN q - 1 ELSE q + 1
           /\ EuclidRem(x, y) \in Nat /\ EuclidRem(x, y) < AbsOf(y)
           /\ -AbsOf(y) < r /\ r < AbsOf(y)
<1>0. SUFFICES ASSUME NEW x \in Int, NEW y \in Int \ {0}, NEW q \in Int, NEW r \in Int,
                    q = Quot(x, y), r = x - q * y
             PROVE  /\ EuclidRem(x, y) = IF r >= 0 THEN r ELSE IF y < 0 THEN r - y ELSE r + y
                    /\ EuclidQuot(x, y) = IF r >= 0 THEN q ELSE IF y > 0 THEN q - 1 ELSE q + 1
                    /\ EuclidRem(x, y) \in Nat /\ EuclidRem(x, y) < AbsOf(y)
                    /\ -AbsOf(y) < r /\ r < AbsOf(y)
    OBVIOUS
<1>1. PICK n \in Nat \ {0} : n = AbsOf(y) /\ n = IF y < 0 THEN -y ELSE y
    BY DEF AbsOf
<1>2. -n < r /\ r < n
    <2>1. PICK t \in Nat : Truncates(x, y, AbsOf(x) \div AbsOf(y), t)
        BY TruncatesIs
    <2>2. r = (IF x < 0 THEN -t ELSE t) /\ t < n
        BY <1>0, <1>1, <2>1, Zenon DEF Truncates
    <2> QED
        BY <2>2
<1>3. PICK s \in {-1, 1}, j \in Int : s = (IF y < 0 THEN -1 ELSE 1) /\ j = s * q
    OBVIOUS
<1>4. q * y = n * j
    <2>1. q * y = (-y) * (-1 * q) /\ q * y = y * (1 * q)
        OBVIOUS
    <2> QED
        BY <1>1, <1>3, <2>1
<1>8. PICK w \in Int : w = q * y
    OBVIOUS
<1>9. w = n * j
    BY <1>4, <1>8, Zenon
<1>5. x = w + r
    <2>1. x - w = r
        BY <1>0, <1>8, Zenon
    <2> QED
        BY <2>1
<1>6. CASE r >= 0
    <2>1. x = n * j + r /\ 0 <= r /\ r < n
        BY <1>2, <1>5, <1>6, <1>9
    <2>2. x % n = r
        BY <2>1, DivideUnique
    <2>3. EuclidRem(x, y) = r
        BY <1>1, <2>2, Zenon DEF EuclidRem
    <2>4. x - r = w
        BY <1>5
    <2>5. EuclidQuot(x, y) = Quot(w, y)
        BY <2>3, <2>4, Zenon DEF EuclidQuot
    <2>6. EuclidQuot(x, y) = q
        BY <1>8, <2>5, QuotOfMultiple, Zenon
    <2> QED
        BY <1>1, <1>2, <1>6, <2>3, <2>6
<1>7. CASE r < 0
    <2>1. n * (j - 1) + (r + n) = n * j + r
        OBVIOUS
    <2>2. PICK k \in Int, t \in Nat : k = j - 1 /\ t = r + n /\ t < n
        BY <1>2, <1>7
    <2>0. n * j + r = w + r /\ 0 <= t
        BY <1>2, <1>9, <2>2
    <2>3. x = n * k + t
        BY <1>5, <2>0, <2>1, <2>2, Zenon
    <2>4. x % n = t
        BY <2>0, <2>2, <2>3, DivideUnique
    <2>5. EuclidRem(x, y) = t
        BY <1>1, <2>4, Zenon DEF EuclidRem
    <2>6. PICK e \in Int : e = (IF y > 0 THEN q - 1 ELSE q + 1)
        OBVIOUS
    <2>7. x - t = e * y
        <3>1. (q - 1) * y = q * y - y /\ (q + 1) * y = q * y + y
            OBVIOUS
        <3>2. x - t = w - n
            BY <1>5, <2>2
        <3>3. CASE y > 0
            <4>1. x - t = w - y /\ e = q - 1
                BY <1>1, <2>6, <3>2, <3>3
            <4> QED
                BY <1>8, <3>1, <4>1, Zenon
        <3>4. CASE ~(y > 0)
            <4>1. x - t = w + y /\ e = q + 1
                BY <1>1, <2>6, <3>2, <3>4
            <4> QED
                BY <1>8, <3>1, <4>1, Zenon
        <3> QED
            BY <3>3, <3>4
    <2>8. EuclidQuot(x, y) = e
        <3>1. EuclidQuot(x, y) = Quot(e * y, y)
            BY <2>5, <2>7, Zenon DEF EuclidQuot
        <3> QED
            BY <3>1, QuotOfMultiple, Zenon
    <2>9. t = IF y < 0 THEN r - y ELSE r + y
        BY <1>1, <2>2
    <2> QED
        BY <1>1, <1>2, <1>7, <2>2, <2>5, <2>6, <2>8, <2>9
<1> QED
    BY <1>6, <1>7

LEMMA SmallSigned ==
    /\ 1 \in Pattern /\ AsSigned(1) = 1 /\ IMIN \in Pattern /\ AsSigned(IMIN) = -IMIN
    /\ IMIN >= 8 /\ IMAX = IMIN - 1 /\ IMAX \in Pattern /\ AsSigned(N - 1) = -1
<1>1. PICK i \in Nat : i = IMIN /\ N = 2 * i /\ i >= 8
    <2>1. M >= 4 /\ M * 4 <= M * M
        <3>1. M >= 4
            BY PatternIs
        <3> QED
            BY <3>1, Bases, TimesUp
    <2>2. PICK n \in Nat, i \in Nat : n = N /\ i = IMIN /\ n = 2 * i
        BY SignBase, Bases
    <2>3. PICK m \in Nat : m = M /\ m >= 4 /\ m * 4 <= n
        BY <2>1, <2>2, Bases
    <2>4. i >= 8
        BY <2>2, <2>3
    <2> QED
        BY <2>2, <2>4
<1>2. 1 \in Pattern /\ i \in Pattern /\ IMAX = i - 1 /\ i - 1 \in Pattern
    <2>1. IMAX = i - 1
        BY <1>1 DEF IMAX, IMIN
    <2> QED
        BY <1>1, <2>1, Bases, PatternIs
<1>3. AsSigned(1) = 1 /\ AsSigned(i) = -i /\ AsSigned(N - 1) = -1
    <2>1. \A n : AsSigned(n) = IF n >= i THEN n - N ELSE n
        BY <1>1, Zenon DEF AsSigned
    <2> QED
        BY <1>1, <2>1, Bases
<1> QED
    BY <1>1, <1>2, <1>3

\* div_euclid and rem_euclid: the remainder moved up by the divisor where it is
\* negative, the quotient with it.
THEOREM EuclideanDivisionIsExact ==
    \A a, b \in Pattern :
        b # 0 => /\ IRemEuclid(a, b) = EuclidRem(AsSigned(a), AsSigned(b))
                 /\ IDivEuclid(a, b) = Encode(EuclidQuot(AsSigned(a), AsSigned(b)))
<1> SUFFICES ASSUME NEW a \in Pattern, NEW b \in Pattern, b # 0
             PROVE  /\ IRemEuclid(a, b) = EuclidRem(AsSigned(a), AsSigned(b))
                    /\ IDivEuclid(a, b) = Encode(EuclidQuot(AsSigned(a), AsSigned(b)))
    OBVIOUS
<1>1. PICK x \in Int, y \in Int \ {0}, n \in Nat :
            x = AsSigned(a) /\ y = AsSigned(b) /\ n = AbsOf(y) /\ n <= IMIN
    <2>1. AsSigned(a) \in Int /\ AsSigned(b) \in Int /\ AbsOf(AsSigned(b)) # 0
        BY SignedValue, MagnitudeIs
    <2>2. AsSigned(b) # 0
        BY <2>1 DEF AbsOf
    <2>3. AbsOf(AsSigned(b)) \in Nat /\ AbsOf(AsSigned(b)) <= IMIN
        BY MagnitudeIs, PatternIs
    <2> QED
        BY <2>1, <2>2, <2>3
<1>2. PICK q \in Int, r \in Int : q = Quot(x, y) /\ r = x - q * y
    <2>1. PICK t \in Nat, k \in Nat : Truncates(x, y, t, k)
        BY TruncatesIs
    <2>2. Quot(x, y) \in Int
        BY <2>1 DEF Truncates
    <2>3. PICK q \in Int : q = Quot(x, y)
        BY <2>2
    <2>4. x - q * y \in Int
        OBVIOUS
    <2> QED
        BY <2>3, <2>4
<1>3. PICK er, eq : er = EuclidRem(x, y) /\ eq = EuclidQuot(x, y)
    OBVIOUS
<1>4. /\ er = IF r >= 0 THEN r ELSE IF y < 0 THEN r - y ELSE r + y
      /\ eq = IF r >= 0 THEN q ELSE IF y > 0 THEN q - 1 ELSE q + 1
      /\ er \in Nat /\ er < n /\ -n < r /\ r < n
    <2>1. /\ EuclidRem(x, y) = IF r >= 0 THEN r ELSE IF y < 0 THEN r - y ELSE r + y
          /\ EuclidQuot(x, y) = IF r >= 0 THEN q ELSE IF y > 0 THEN q - 1 ELSE q + 1
          /\ EuclidRem(x, y) \in Nat /\ EuclidRem(x, y) < AbsOf(y)
          /\ -AbsOf(y) < r /\ r < AbsOf(y)
        BY <1>2, EuclidIs
    <2> QED
        BY <1>1, <1>3, <2>1, Zenon
<1>5. IDiv(a, b) = Encode(q) /\ IRem(a, b) = Encode(r)
    BY <1>1, <1>2, SignedDivisionIsExact, Zenon DEF SignedDivides, IDiv, IRem
<1>6. ILt(Encode(r), 0) <=> r < 0
    <2>1. AsSigned(Encode(r)) = r /\ Encode(r) \in Pattern
        <3>1. -IMIN <= r /\ r < IMIN
            BY <1>1, <1>4, SignBase
        <3> QED
            BY <3>1, EncodeIs
    <2> QED
        BY <2>1, OrdersAreExact, ZeroPattern
<1>7. (ILt(b, 0) <=> y < 0) /\ (ILt(0, b) <=> 0 < y)
    BY <1>1, OrdersAreExact, ZeroPattern
<1>8. IRemEuclid(a, b) = Encode(er)
    <2>1. IRemEuclid(a, b) = IRemainderUp(Encode(r), b)
        BY <1>5, Zenon DEF IRemEuclid
    <2>2. IRemainderUp(Encode(r), b) = IF r < 0 THEN IF y < 0 THEN Sub3(Encode(r), b) ELSE Add3(Encode(r), b)
                                       ELSE Encode(r)
        BY <1>6, <1>7, Zenon DEF IRemainderUp
    <2>3. Sub3(Encode(r), b) = Encode(r - y) /\ Add3(Encode(r), b) = Encode(r + y)
        BY <1>1, EncodedSums, Zenon
    <2>4. CASE r < 0 /\ y < 0
        <3>1. er = r - y
            BY <1>4, <2>4
        <3> QED
            BY <2>1, <2>2, <2>3, <2>4, <3>1, Zenon
    <2>5. CASE r < 0 /\ ~(y < 0)
        <3>1. er = r + y
            BY <1>4, <2>5
        <3> QED
            BY <2>1, <2>2, <2>3, <2>5, <3>1, Zenon
    <2>6. CASE ~(r < 0)
        <3>1. er = r
            BY <1>4, <2>6
        <3> QED
            BY <2>1, <2>2, <2>6, <3>1, Zenon
    <2> QED
        BY <2>4, <2>5, <2>6
<1>9. Encode(er) = er
    <2>1. PICK i \in Nat : i = IMIN /\ N = 2 * i
        BY SignBase
    <2>2. er \in Int /\ 0 <= er /\ er < N
        BY <1>1, <1>4, <2>1
    <2> QED
        BY <2>2, PatternIs, EncodeIs
<1>10. IDivEuclid(a, b) = Encode(eq)
    <2>1. IDivEuclid(a, b) = IQuotientDown(Encode(q), Encode(r), b)
        BY <1>5, Zenon DEF IDivEuclid
    <2>2. IQuotientDown(Encode(q), Encode(r), b) =
              IF r < 0 THEN IF 0 < y THEN Sub3(Encode(q), 1) ELSE Add3(Encode(q), 1) ELSE Encode(q)
        BY <1>6, <1>7, Zenon DEF IQuotientDown, ONE
    <2>3. Sub3(Encode(q), 1) = Encode(q - 1) /\ Add3(Encode(q), 1) = Encode(q + 1)
        <3>1. Sub3(Encode(q), 1) = Encode(q - AsSigned(1)) /\ Add3(Encode(q), 1) = Encode(q + AsSigned(1))
            BY SmallSigned, EncodedSums, Zenon
        <3> QED
            BY <3>1, SmallSigned, Zenon
    <2>4. CASE r < 0 /\ 0 < y
        <3>1. eq = q - 1
            BY <1>4, <2>4
        <3> QED
            BY <2>1, <2>2, <2>3, <2>4, <3>1, Zenon
    <2>5. CASE r < 0 /\ ~(0 < y)
        <3>1. eq = q + 1
            BY <1>4, <2>5
        <3> QED
            BY <2>1, <2>2, <2>3, <2>5, <3>1, Zenon
    <2>6. CASE ~(r < 0)
        <3>1. eq = q
            BY <1>4, <2>6
        <3> QED
            BY <2>1, <2>2, <2>6, <3>1, Zenon
    <2> QED
        BY <2>4, <2>5, <2>6
<1> QED
    BY <1>1, <1>3, <1>8, <1>9, <1>10, Zenon

\* MIN / -1 is the one division whose quotient is out of range.
MinByMinusOne(a, b) == a = IMIN /\ AsSigned(b) = -1

LEMMA OverflowIs ==
    \A a, b \in Pattern :
        /\ IDivOverflows(a, b) <=> MinByMinusOne(a, b)
        /\ MinByMinusOne(a, b)
           => /\ Quot(AsSigned(a), AsSigned(b)) = IMIN
              /\ AsSigned(a) - Quot(AsSigned(a), AsSigned(b)) * AsSigned(b) = 0
              /\ EuclidRem(AsSigned(a), AsSigned(b)) = 0
              /\ EuclidQuot(AsSigned(a), AsSigned(b)) = IMIN
        /\ b # 0 /\ ~MinByMinusOne(a, b)
           => /\ -IMIN <= Quot(AsSigned(a), AsSigned(b)) /\ Quot(AsSigned(a), AsSigned(b)) < IMIN
              /\ Quot(AsSigned(a), AsSigned(b)) \in Int
<1> SUFFICES ASSUME NEW a \in Pattern, NEW b \in Pattern
             PROVE  /\ IDivOverflows(a, b) <=> MinByMinusOne(a, b)
                    /\ MinByMinusOne(a, b)
                       => /\ Quot(AsSigned(a), AsSigned(b)) = IMIN
                          /\ AsSigned(a) - Quot(AsSigned(a), AsSigned(b)) * AsSigned(b) = 0
                          /\ EuclidRem(AsSigned(a), AsSigned(b)) = 0
                          /\ EuclidQuot(AsSigned(a), AsSigned(b)) = IMIN
                    /\ b # 0 /\ ~MinByMinusOne(a, b)
                       => /\ -IMIN <= Quot(AsSigned(a), AsSigned(b)) /\ Quot(AsSigned(a), AsSigned(b)) < IMIN
                          /\ Quot(AsSigned(a), AsSigned(b)) \in Int
    OBVIOUS
<1>1. PICK i \in Nat, m \in Nat, n \in Nat, x \in Int, y \in Int :
            /\ i = IMIN /\ N = 2 * i /\ i >= 8 /\ m = a /\ n = b /\ m < N /\ n < N
            /\ x = AsSigned(a) /\ y = AsSigned(b)
    BY SmallSigned, SignBase, PatternIs, SignedValue
<1>2. x = (IF m >= i THEN m - N ELSE m) /\ y = (IF n >= i THEN n - N ELSE n)
    BY <1>1, Zenon DEF AsSigned
<1>3. IDivOverflows(a, b) <=> MinByMinusOne(a, b)
    <2>1. n = N - 1 <=> y = -1
        BY <1>1, <1>2, Bases
    <2> QED
        BY <1>1, <2>1, Zenon DEF IDivOverflows, MinByMinusOne, MINUS1
<1>4. ASSUME MinByMinusOne(a, b)
      PROVE  Quot(x, y) = i /\ x - Quot(x, y) * y = 0 /\ EuclidRem(x, y) = 0 /\ EuclidQuot(x, y) = i
    <2>0. y = -1 /\ m = i
        BY <1>1, <1>4, Zenon DEF MinByMinusOne
    <2>1. y = -1 /\ x = -i
        BY <1>1, <1>2, <2>0
    <2>2. y \in Int \ {0} /\ i * y = x
        BY <2>1
    <2>3. Quot(x, y) = i
        <3>1. Quot(i * y, y) = i
            BY <2>2, QuotOfMultiple
        <3> QED
            BY <2>2, <3>1, Zenon
    <2>4. PICK q \in Int, r \in Int : q = i /\ r = 0 /\ r = x - q * y
        BY <2>1
    <2>5. EuclidRem(x, y) = r /\ EuclidQuot(x, y) = q
        <3>1. r >= 0
            BY <2>4
        <3>2. q = Quot(x, y) /\ r = x - q * y
            BY <2>3, <2>4, Zenon
        <3> QED
            BY <2>2, <3>1, <3>2, EuclidIs
    <2> QED
        BY <2>3, <2>4, <2>5, Zenon
<1>5. ASSUME b # 0, ~MinByMinusOne(a, b)
      PROVE  -i <= Quot(x, y) /\ Quot(x, y) < i /\ Quot(x, y) \in Int
    <2>1. y \in Int \ {0}
        BY <1>1, <1>2, <1>5, Bases
    <2>2. PICK q \in Nat, r \in Nat : Truncates(x, y, q, r)
        BY <2>1, TruncatesIs
    <2>3. PICK u \in Nat, v \in Nat : /\ u = AbsOf(x) /\ v = AbsOf(y)
                                      /\ u = (IF x < 0 THEN -x ELSE x) /\ v = IF y < 0 THEN -y ELSE y
        BY DEF AbsOf
    <2>4. /\ Quot(x, y) = IF (x < 0) = (y < 0) THEN q ELSE -q
          /\ q <= u /\ (v >= 2 /\ u > 0 => q < u)
        BY <2>2, <2>3, Zenon DEF Truncates
    <2>5. -i <= x /\ x < i
        BY <1>1, <1>2
    <2>6. x = -i /\ y = -1 => FALSE
        BY <1>1, <1>2, <1>5, Bases DEF MinByMinusOne
    <2>7. CASE q < i
        BY <2>4, <2>7, <1>1
    <2>8. CASE q >= i
        <3>1. q = i /\ x = -i /\ v = 1
            BY <1>1, <2>1, <2>3, <2>4, <2>5, <2>8
        <3>2. y = 1
            BY <2>1, <2>3, <2>6, <3>1
        <3>3. Quot(x, y) = -q
            BY <1>1, <2>4, <3>1, <3>2
        <3> QED
            BY <1>1, <3>1, <3>3
    <2> QED
        BY <2>7, <2>8
<1> QED
    BY <1>1, <1>3, <1>4, <1>5, Zenon

\* Every division method for one pair of patterns.
LEMMA DivisionAgrees ==
    ASSUME lhs \in Pattern, rhs \in Pattern PROVE DivisionExact
<1>1. CASE rhs = ZERO
    BY <1>1, Zenon DEF DivisionExact, UCheckedDiv, UCheckedRem, UCheckedDivEuclid, UCheckedRemEuclid,
                   ICheckedDiv, ICheckedRem, ICheckedDivEuclid, ICheckedRemEuclid
<1>2. CASE rhs # ZERO
    <2> DEFINE q == lhs \div rhs
               r == lhs % rhs
               iq == Quot(slhs, srhs)
               ir == slhs - iq * srhs
               eq == EuclidQuot(slhs, srhs)
               er == EuclidRem(slhs, srhs)
               some(v) == IF Overflows THEN {} ELSE {Encode(v)}
               agrees(d) == d.q = q /\ d.r = r /\ d.steps <= 2
               \* what the methods' results are, whatever the second operand
               Unsigned ==
                 /\ UOverflowingDiv(lhs, rhs) = <<q, FALSE>> /\ UOverflowingRem(lhs, rhs) = <<r, FALSE>>
                 /\ UOverflowingDivEuclid(lhs, rhs) = <<q, FALSE>> /\ UOverflowingRemEuclid(lhs, rhs) = <<r, FALSE>>
                 /\ {q} = UCheckedDiv(lhs, rhs) \cup UCheckedDivEuclid(lhs, rhs)
                          \cup {UWrappingDiv(lhs, rhs), UWrappingDivEuclid(lhs, rhs), USaturatingDiv(lhs, rhs)}
                 /\ {r} = UCheckedRem(lhs, rhs) \cup UCheckedRemEuclid(lhs, rhs)
                          \cup {UWrappingRem(lhs, rhs), UWrappingRemEuclid(lhs, rhs)}
               Overflowing ==
                 /\ IOverflowingDiv(lhs, rhs) = <<Encode(iq), Overflows>>
                 /\ IOverflowingRem(lhs, rhs) = <<Encode(ir), Overflows>>
                 /\ IOverflowingDivEuclid(lhs, rhs) = <<Encode(eq), Overflows>>
                 /\ IOverflowingRemEuclid(lhs, rhs) = <<er, Overflows>>
               Derived ==
                 /\ ICheckedDiv(lhs, rhs) = some(iq) /\ ICheckedRem(lhs, rhs) = some(ir)
                 /\ ICheckedDivEuclid(lhs, rhs) = some(eq) /\ ICheckedRemEuclid(lhs, rhs) = some(er)
                 /\ IWrappingDiv(lhs, rhs) = Encode(iq) /\ IWrappingDivEuclid(lhs, rhs) = Encode(eq)
                 /\ IWrappingRem(lhs, rhs) = Encode(ir) /\ IWrappingRemEuclid(lhs, rhs) = er
                 /\ ISaturatingDiv(lhs, rhs) = IClamp(iq)
    <2>1. agrees(UDivMod4(lhs, rhs)) /\ UDiv(lhs, rhs) = q /\ URem(lhs, rhs) = r
        <3>1. PICK d : d = UDivMod4(lhs, rhs)
            OBVIOUS
        <3>2. d.q = q /\ d.r = r /\ d.steps \in 0..2
            BY <1>2, <3>1, UnsignedDivisionIsExact DEF DividesTo, ZERO
        <3>3. d.steps <= 2
            BY <3>2
        <3> QED
            BY <3>1, <3>2, <3>3, Zenon DEF UDiv, URem
    <2>2. Unsigned
        <3> HIDE DEF q, r
        <3> QED
            BY <1>2, <2>1 DEF UOverflowingDiv, UOverflowingRem, UOverflowingDivEuclid, UOverflowingRemEuclid,
                              UCheckedDiv, UCheckedDivEuclid, UCheckedRem, UCheckedRemEuclid,
                              UWrappingDiv, UWrappingDivEuclid, UWrappingRem, UWrappingRemEuclid,
                              USaturatingDiv, UDivEuclid, URemEuclid
    <2>3. /\ IDiv(lhs, rhs) = Encode(iq) /\ IRem(lhs, rhs) = Encode(ir)
          /\ IDivEuclid(lhs, rhs) = Encode(eq) /\ IRemEuclid(lhs, rhs) = er
        <3>1. rhs # 0
            BY <1>2 DEF ZERO
        <3> QED
            BY <3>1, SignedDivisionIsExact, EuclideanDivisionIsExact, Zenon
            DEF SignedDivides, IDiv, IRem, slhs, srhs
    <2>4. (IDivOverflows(lhs, rhs) <=> Overflows) /\ (MinByMinusOne(lhs, rhs) <=> Overflows)
        BY OverflowIs, Zenon DEF Overflows, MinByMinusOne, slhs, srhs
    <2>5. Overflows => /\ lhs = IMIN /\ iq = IMIN /\ ir = 0 /\ er = 0 /\ eq = IMIN
                       /\ Encode(iq) = lhs /\ Encode(eq) = lhs /\ Encode(ir) = ZERO
        <3>1. Encode(IMIN) = IMIN /\ Encode(0) = 0
            BY SmallSigned, ZeroPattern, EncodeIs
        <3>2. Overflows => lhs = IMIN /\ iq = IMIN /\ ir = 0 /\ er = 0 /\ eq = IMIN
            BY <2>4, OverflowIs, Zenon DEF Overflows, slhs, srhs
        <3> QED
            BY <3>1, <3>2, Zenon DEF ZERO
    <2>6. Encode(er) = er
        <3>1. rhs # 0
            BY <1>2 DEF ZERO
        <3>2. IRemEuclid(lhs, rhs) = er
            BY <2>3
        <3>3. er \in Nat /\ er < AbsOf(srhs)
            <4>1. slhs \in Int /\ srhs \in Int \ {0} /\ iq \in Int /\ ir \in Int
                <5>1. slhs \in Int /\ srhs \in Int /\ AbsOf(srhs) # 0
                    BY <3>1, SignedValue, MagnitudeIs DEF slhs, srhs
                <5>2. srhs # 0
                    BY <5>1 DEF AbsOf
                <5>3. PICK x \in Int, y \in Int \ {0} : x = slhs /\ y = srhs
                    BY <5>1, <5>2
                <5>4. PICK t \in Nat, k \in Nat : Truncates(x, y, t, k)
                    BY TruncatesIs
                <5>5. Quot(x, y) \in Int /\ x - Quot(x, y) * y \in Int
                    BY <5>4 DEF Truncates
                <5> QED
                    BY <5>3, <5>5, Zenon
            <4> QED
                BY <4>1, EuclidIs
        <3>4. AbsOf(srhs) \in Pattern
            BY MagnitudeIs DEF srhs
        <3>5. er \in Pattern
            <4>1. AbsOf(srhs) \in Nat /\ AbsOf(srhs) < N
                BY <3>4, PatternIs
            <4>2. er \in Int /\ 0 <= er /\ er < N
                BY <3>3, <4>1, Bases
            <4> QED
                BY <4>2, PatternIs
        <3> QED
            BY <3>5, EncodeIs
    <2>7. Overflowing
        <3> HIDE DEF iq, ir, eq, er
        <3>1. CASE Overflows
            <4>1. IDivOverflows(lhs, rhs) /\ Overflows = TRUE
                BY <2>4, <3>1
            <4> QED
                BY <2>5, <3>1, <4>1, Zenon
                DEF IOverflowingDiv, IOverflowingRem, IOverflowingDivEuclid, IOverflowingRemEuclid, ZERO
        <3>2. CASE ~Overflows
            <4>1. ~IDivOverflows(lhs, rhs) /\ Overflows = FALSE
                BY <2>4, <3>2
            <4> QED
                BY <2>3, <4>1, Zenon
                DEF IOverflowingDiv, IOverflowingRem, IOverflowingDivEuclid, IOverflowingRemEuclid
        <3> QED
            BY <3>1, <3>2
    <2>8. ISaturatingDiv(lhs, rhs) = IClamp(iq)
        <3>1. ISaturatingDiv(lhs, rhs) = IF Overflows THEN IMAX ELSE Encode(iq)
            <4>0. PICK n, b : n = Encode(iq) /\ b = Overflows
                OBVIOUS
            <4>1. IOverflowingDiv(lhs, rhs) = <<n, b>> /\ (b <=> Overflows)
                BY <2>7, <4>0, Zenon
            <4>2. PICK p : p = IOverflowingDiv(lhs, rhs)
                OBVIOUS
            <4>3. p[1] = n /\ p[2] = b
                BY <4>1, <4>2
            <4> QED
                BY <4>0, <4>1, <4>2, <4>3, Zenon DEF ISaturatingDiv
        <3>2. PICK i \in Nat : i = IMIN /\ IMAX = i - 1 /\ i >= 8
            BY SmallSigned, SignBase
        <3>3. CASE Overflows
            <4>1. ~(i < -i) /\ i > IMAX
                BY <3>2
            <4> QED
                BY <2>5, <3>1, <3>2, <3>3, <4>1, Zenon DEF IClamp
        <3>4. CASE ~Overflows
            <4>1. PICK v \in Int : v = iq /\ -i <= v /\ v < i
                BY <1>2, <2>4, <3>2, <3>4, OverflowIs DEF slhs, srhs, ZERO
            <4>2. ~(v < -i) /\ ~(v > IMAX)
                BY <3>2, <4>1
            <4> QED
                BY <3>1, <3>2, <3>4, <4>1, <4>2, Zenon DEF IClamp
        <3> QED
            BY <3>3, <3>4
    <2>9. Derived
        <3> HIDE DEF iq, ir, eq, er
        <3>1. /\ ICheckedDiv(lhs, rhs) = some(iq) /\ ICheckedRem(lhs, rhs) = some(ir)
              /\ ICheckedDivEuclid(lhs, rhs) = some(eq) /\ ICheckedRemEuclid(lhs, rhs) = some(er)
            BY <1>2, <2>3, <2>4, <2>6, Zenon
            DEF ICheckedDiv, ICheckedRem, ICheckedDivEuclid, ICheckedRemEuclid
        <3>2. /\ IWrappingDiv(lhs, rhs) = Encode(iq) /\ IWrappingDivEuclid(lhs, rhs) = Encode(eq)
              /\ IWrappingRem(lhs, rhs) = Encode(ir) /\ IWrappingRemEuclid(lhs, rhs) = er
            BY <2>7 DEF IWrappingDiv, IWrappingDivEuclid, IWrappingRem, IWrappingRemEuclid, Wrapped
        <3> QED
            BY <2>8, <3>1, <3>2, Zenon
    <2> QED
        BY <1>2, <2>1, <2>2, <2>7, <2>9, Zenon DEF DivisionExact
<1> QED
    BY <1>1, <1>2

-----------------------------------------------------------------------------
(* The registers hold patterns *)

LEMMA ModuloPattern == \A v \in Int : v % N \in Pattern
BY EncodeIs DEF Encode

\* The sums, differences and products of patterns are patterns.
LEMMA SumsClosed ==
    \A a, b \in Pattern : Add3(a, b) \in Pattern /\ Sub3(a, b) \in Pattern /\ Mul3(a, b) \in Pattern
<1> SUFFICES ASSUME NEW a \in Pattern, NEW b \in Pattern
             PROVE  Add3(a, b) \in Pattern /\ Sub3(a, b) \in Pattern /\ Mul3(a, b) \in Pattern
    OBVIOUS
<1>1. a + b \in Int /\ a - b \in Int /\ a * b \in Int
    <2>1. a \in Nat /\ b \in Nat
        BY PatternIs
    <2> QED
        BY <2>1
<1>2. Add3(a, b) = (a + b) % N /\ Sub3(a, b) = (a - b) % N /\ Mul3(a, b) = (a * b) % N
    BY SumsAreExact, ProductsAreExact, Zenon
<1> QED
    BY <1>1, <1>2, ModuloPattern, Zenon

LEMMA QuotientsClosed ==
    \A a, b \in Pattern : b # 0 => /\ UDiv(a, b) \in Pattern /\ URem(a, b) \in Pattern
                                   /\ IDiv(a, b) \in Pattern /\ IRem(a, b) \in Pattern
<1> SUFFICES ASSUME NEW a \in Pattern, NEW b \in Pattern, b # 0
             PROVE  /\ UDiv(a, b) \in Pattern /\ URem(a, b) \in Pattern
                    /\ IDiv(a, b) \in Pattern /\ IRem(a, b) \in Pattern
    OBVIOUS
<1>1. PICK x \in Nat, y \in Nat \ {0} : x = a /\ y = b /\ x < N /\ y < N
    BY PatternIs
<1>2. PICK q \in Nat, r \in Nat : q = x \div y /\ r = x % y /\ x = y * q + r /\ r < y
    BY Divided
<1>3. q <= x
    <2>1. q * 1 <= q * y
        BY TimesUp
    <2>2. PICK z \in Nat : z = y * q /\ z = q * y
        BY <1>2
    <2> QED
        BY <1>2, <2>1, <2>2
<1>4. q \in Pattern /\ r \in Pattern
    BY <1>1, <1>2, <1>3, Bases, PatternIs
<1>5. UDiv(a, b) = q /\ URem(a, b) = r
    BY <1>1, <1>2, UnsignedDivisionIsExact, Zenon DEF DividesTo, UDiv, URem
<1>6. AsSigned(a) \in Int /\ AsSigned(b) \in Int \ {0}
    <2>1. AsSigned(a) \in Int /\ AsSigned(b) \in Int /\ AbsOf(AsSigned(b)) # 0
        BY SignedValue, MagnitudeIs
    <2> QED
        BY <2>1 DEF AbsOf
<1>7. PICK u \in Int, v \in Int \ {0} : u = AsSigned(a) /\ v = AsSigned(b)
    BY <1>6
<1>8. Quot(u, v) \in Int /\ u - Quot(u, v) * v \in Int
    <2>1. PICK t \in Nat, k \in Nat : Truncates(u, v, t, k)
        BY TruncatesIs
    <2> QED
        BY <2>1 DEF Truncates
<1>9. IDiv(a, b) = Encode(Quot(u, v)) /\ IRem(a, b) = Encode(u - Quot(u, v) * v)
    BY <1>7, SignedDivisionIsExact, Zenon DEF SignedDivides, IDiv, IRem
<1> QED
    BY <1>4, <1>5, <1>8, <1>9, EncodeIs

\* A shift count past the width is cut to a word, and shifts to a pattern too.
LEMMA ShiftsClosed ==
    \A a, s \in Pattern : Shl3(a, s) \in Pattern /\ Shr3(a, s) \in Pattern /\ Sar3(a, s) \in Pattern
<1> SUFFICES ASSUME NEW a \in Pattern, NEW s \in Pattern
             PROVE  Shl3(a, s) \in Pattern /\ Shr3(a, s) \in Pattern /\ Sar3(a, s) \in Pattern
    OBVIOUS
<1>1. PICK n \in Nat : n = s
    BY PatternIs
<1>2. CASE n < WORD
    <2>1. n \in 0..(BITS - 1)
        BY <1>2, Widths
    <2> QED
        BY <1>1, <2>1, ShlIs, ShrIs, SarIs
<1>3. CASE ~(n < WORD)
    <2>1. n # 0
        BY <1>3, Widths
    <2>2. PICK t \in 0..WORD : t = n % WORD
        <3>1. n % WORD \in Nat /\ n % WORD < WORD
            BY Widths, DivideBy
        <3> QED
            BY <3>1, Widths
    <2>3. High(a) \in Word /\ Low(a) \in Word /\ 0 \in Word
        BY PatternWords, Bases DEF Word
    <2>4. PICK p \in Nat, q \in Nat : WordSplit(t, p, q)
        BY WordSplitIs
    <2>5. WShl(Low(a), t) \in Word /\ WShr(High(a), t) \in Word
        BY <2>3, <2>4, WordShifts
    <2>6. WSar(High(a), WORD - 1) \in Word /\ WSar(High(a), t) \in Word
        <3>1. PICK g \in Int : g = Signed(High(a))
            BY SignedValue
        <3>2. \A k \in 0..BITS : (g \div Pow2[k]) % M \in Word
            <4>1. \A d \in Nat \ {0} : (g \div d) % M \in Word
                <5>1. \A v \in Int : v % M \in Nat /\ v % M < M
                    BY Bases, DivideBy
                <5> QED
                    BY <5>1, DivideBy, PatternIs
            <4> QED
                BY <4>1, Pow2Is
        <3>3. WORD - 1 \in 0..BITS /\ t \in 0..BITS
            BY Widths
        <3> QED
            BY <3>1, <3>2, <3>3, Zenon DEF WSar
    <2>7. \A h, l \in Word : FromWords(h, l) \in Pattern
        BY WordsOf, PatternIs
    <2>8. /\ Shl3(a, s) = FromWords(WShl(Low(a), t), 0) /\ Shr3(a, s) = FromWords(0, WShr(High(a), t))
          /\ Sar3(a, s) = FromWords(WSar(High(a), WORD - 1), WSar(High(a), t))
        BY <1>1, <1>3, <2>1, <2>2, Zenon DEF Shl3, Shr3, Sar3
    <2> QED
        BY <2>3, <2>5, <2>6, <2>7, <2>8, Zenon
<1> QED
    BY <1>2, <1>3

LEMMA BitsClosed ==
    \A a, b \in Pattern : /\ BitAnd(a, b) \in Pattern /\ BitOr(a, b) \in Pattern
                          /\ BitXor(a, b) \in Pattern /\ BitNot(a) \in Pattern
<1> SUFFICES ASSUME NEW a \in Pattern, NEW b \in Pattern
             PROVE  /\ BitAnd(a, b) \in Pattern /\ BitOr(a, b) \in Pattern
                    /\ BitXor(a, b) \in Pattern /\ BitNot(a) \in Pattern
    OBVIOUS
<1>1. High(a) \in Word /\ Low(a) \in Word /\ High(b) \in Word /\ Low(b) \in Word
    BY PatternWords
<1>2. \A h, l \in Word : FromWords(h, l) \in Pattern
    BY WordsOf, PatternIs
<1>3. \A v, w \in Word : WAnd(v, w) \in Word /\ WOr(v, w) \in Word /\ WXor(v, w) \in Word
    BY BitTables DEF WAnd, WOr, WXor
<1>4. \A w \in Word : WNot(w) \in Word
    BY Bases DEF WNot, Word
<1> QED
    BY <1>1, <1>2, <1>3, <1>4, Zenon DEF BitAnd, BitOr, BitXor, BitNot

Registers == lhs \in Pattern /\ rhs \in Pattern

\* Whatever the program does with its registers, each holds a bit pattern.
THEOREM RegistersHoldPatterns == Spec => []Registers
<1>1. Init => Registers
    BY ZeroPattern DEF Init, Registers, ZERO
<1>2. Registers /\ [Next]_vars => Registers'
    <2> SUFFICES ASSUME Registers, [Next]_vars PROVE Registers'
        OBVIOUS
    <2>0. lhs \in Pattern /\ rhs \in Pattern
        BY DEF Registers
    <2>1. CASE AddAssign \/ SubAssign \/ MulAssign
        BY <2>0, <2>1, SumsClosed DEF AddAssign, SubAssign, MulAssign, Assign, Registers
    <2>2. CASE DivAssign \/ RemAssign
        BY <2>0, <2>2, QuotientsClosed DEF DivAssign, RemAssign, Assign, Registers, ZERO
    <2>3. CASE ShlAssign \/ ShrAssign
        BY <2>0, <2>3, ShiftsClosed DEF ShlAssign, ShrAssign, Assign, Registers
    <2>4. CASE BitAssign \/ Complement
        BY <2>0, <2>4, BitsClosed DEF BitAssign, Complement, Assign, Registers
    <2>5. CASE Negate
        <3>1. INeg(lhs) \in Pattern
            BY <2>0, SmallSigned, BitsClosed, SumsClosed DEF INeg, ONE
        <3> QED
            BY <2>0, <2>5, <3>1 DEF Negate, Assign, Registers
    <2>6. CASE Swap
        BY <2>0, <2>6 DEF Swap, Registers
    <2>7. CASE UNCHANGED vars
        BY <2>0, <2>7 DEF vars, Registers
    <2> QED
        BY <2>1, <2>2, <2>3, <2>4, <2>5, <2>6, <2>7 DEF Next
<1> QED
    BY <1>1, <1>2, PTL DEF Spec

\* Every dividend and divisor the registers ever hold are divided exactly, by
\* every method.
THEOREM DivisionIsExact == Spec => []DivisionExact
<1>1. Registers => DivisionExact
    BY DivisionAgrees DEF Registers
<1> QED
    BY <1>1, RegistersHoldPatterns, PTL

-----------------------------------------------------------------------------
(* Products of signed numbers *)

LEMMA NegatedIs ==
    \A x \in Pattern : /\ BitNot(x) = N - 1 - x /\ BitNot(x) \in Pattern
                       /\ Add3(BitNot(x), ONE) = Encode(-x)
<1> SUFFICES ASSUME NEW x \in Pattern
             PROVE  /\ BitNot(x) = N - 1 - x /\ BitNot(x) \in Pattern
                    /\ Add3(BitNot(x), ONE) = Encode(-x)
    OBVIOUS
<1>1. PICK h \in Nat, l \in Nat, n \in Nat : h = High(x) /\ l = Low(x) /\ n = x /\ n = h * M + l
    BY PatternWords, PatternIs
<1>2. BitNot(x) = N - 1 - x
    <2>1. BitNot(x) = (M - 1 - h) * M + (M - 1 - l)
        BY <1>1, Zenon DEF BitNot, WNot, FromWords
    <2>2. (M - 1 - h) * M + (M - 1 - l) = M * M - 1 - (h * M + l)
        BY Bases
    <2> QED
        BY <1>1, <2>1, <2>2, Bases, Zenon
<1>3. BitNot(x) \in Pattern
    BY BitsClosed
<1>4. Add3(BitNot(x), ONE) = Encode(-x)
    <2>1. Add3(BitNot(x), 1) = (BitNot(x) + 1) % N
        BY <1>3, SmallSigned, SumsAreExact, Zenon
    <2>2. BitNot(x) + 1 = N - n
        BY <1>1, <1>2, Bases
    <2>3. (-n + N) % N = (-n) % N
        <3>1. PICK k \in Int : k = -n
            BY <1>1
        <3>2. (k + N) % N = k % N
            BY <3>1, ModShift, Bases, Zenon
        <3> QED
            BY <3>1, <3>2
    <2>4. -n + N = N - n
        BY Bases
    <2> QED
        BY <1>1, <2>1, <2>2, <2>3, <2>4, Zenon DEF Encode, ONE
<1> QED
    BY <1>2, <1>3, <1>4

\* The sign and the absolute value of a product.
SignedTimes(x, y, m, n, w) ==
    /\ m = AbsOf(x) /\ n = AbsOf(y) /\ m = (IF x < 0 THEN -x ELSE x) /\ n = (IF y < 0 THEN -y ELSE y)
    /\ w = m * n /\ x * y = IF (x < 0) = (y < 0) THEN w ELSE -w

LEMMA SignedTimesIs ==
    \A x, y \in Int : \E m, n, w \in Nat : SignedTimes(x, y, m, n, w)
<1> SUFFICES ASSUME NEW x \in Int, NEW y \in Int
             PROVE  \E m, n, w \in Nat : SignedTimes(x, y, m, n, w)
    OBVIOUS
<1>1. PICK m \in Nat, n \in Nat :
            m = AbsOf(x) /\ n = AbsOf(y) /\ m = (IF x < 0 THEN -x ELSE x) /\ n = IF y < 0 THEN -y ELSE y
    BY DEF AbsOf
<1>2. PICK w \in Nat : w = m * n
    BY ProductNat
<1>3. m * (-n) = -(m * n) /\ (-m) * n = -(m * n) /\ (-m) * (-n) = m * n
    OBVIOUS
<1>4. PICK z \in Int : z = x * y
    OBVIOUS
<1>5. z = IF (x < 0) = (y < 0) THEN w ELSE -w
    <2>1. CASE x < 0 /\ y < 0
        BY <1>1, <1>2, <1>3, <1>4, <2>1
    <2>2. CASE x < 0 /\ ~(y < 0)
        BY <1>1, <1>2, <1>3, <1>4, <2>2
    <2>3. CASE ~(x < 0) /\ y < 0
        BY <1>1, <1>2, <1>3, <1>4, <2>3
    <2>4. CASE ~(x < 0) /\ ~(y < 0)
        BY <1>1, <1>2, <1>3, <1>4, <2>4
    <2> QED
        BY <2>1, <2>2, <2>3, <2>4
<1> QED
    BY <1>1, <1>2, <1>4, <1>5, Zenon DEF SignedTimes

LEMMA QuotientBelow ==
    \A k, m \in Nat, n \in Nat \ {0} : k \div n \in Nat /\ (k \div n < m <=> k < m * n)
<1> SUFFICES ASSUME NEW k \in Nat, NEW m \in Nat, NEW n \in Nat \ {0}
             PROVE  k \div n \in Nat /\ (k \div n < m <=> k < m * n)
    OBVIOUS
<1>1. PICK q \in Nat, r \in Nat : q = k \div n /\ k = n * q + r /\ r < n
    BY Divided
<1>2. PICK u \in Nat, v \in Nat : u = n * q /\ v = m * n /\ v = n * m
    BY ProductNat
<1>3. k = u + r
    BY <1>1, <1>2, Zenon
<1>4. q < m => u + n <= v
    BY <1>2, TimesAbove
<1>5. m <= q => v <= u
    BY <1>2, TimesUp
<1> QED
    BY <1>1, <1>2, <1>3, <1>4, <1>5

LEMMA LargestIs ==
    \A a, b, p \in Pattern :
        LET u == AbsOf(AsSigned(a))
            v == AbsOf(AsSigned(b))
        IN /\ v >= 2 /\ (AsSigned(a) < 0) = (AsSigned(b) < 0) /\ p < IMIN
           => (ILt(IDivMod4(a, b).q, p) <=> u < p * v)
<1> SUFFICES ASSUME NEW a \in Pattern, NEW b \in Pattern, NEW p \in Pattern,
                    AbsOf(AsSigned(b)) >= 2, (AsSigned(a) < 0) = (AsSigned(b) < 0), p < IMIN
             PROVE  ILt(IDivMod4(a, b).q, p) <=> AbsOf(AsSigned(a)) < p * AbsOf(AsSigned(b))
    OBVIOUS
<1>1. PICK x \in Int, y \in Int, u \in Nat, v \in Nat \ {0}, k \in Nat, i \in Nat :
            /\ x = AsSigned(a) /\ y = AsSigned(b) /\ u = AbsOf(x) /\ v = AbsOf(y) /\ v >= 2
            /\ u <= i /\ i = IMIN /\ i >= 8 /\ k = p /\ k < i
    <2>1. AbsOf(AsSigned(a)) \in Nat /\ AbsOf(AsSigned(b)) \in Nat /\ AbsOf(AsSigned(a)) <= IMIN
        BY MagnitudeIs, PatternIs
    <2>2. AsSigned(a) \in Int /\ AsSigned(b) \in Int
        BY SignedValue
    <2>3. IMIN \in Nat /\ IMIN >= 8
        BY SmallSigned, SignBase
    <2>4. p \in Nat
        BY PatternIs
    <2>5. AbsOf(AsSigned(b)) \in Nat \ {0} /\ AbsOf(AsSigned(b)) >= 2
        BY <2>1
    <2> QED
        BY <2>1, <2>2, <2>3, <2>4, <2>5, Zenon
<1>2. PICK q \in Nat : q = u \div v /\ (q < k <=> u < k * v) /\ q < i
    <2>1. u \div v \in Nat /\ (u \div v < k <=> u < k * v) /\ (u \div v < i <=> u < i * v)
        BY QuotientBelow
    <2>2. u < i * v
        <3>1. i * 2 <= i * v
            BY <1>1, TimesUp
        <3>2. PICK z \in Int : z = i * v
            OBVIOUS
        <3> QED
            BY <1>1, <3>1, <3>2
    <2> QED
        BY <2>1, <2>2
<1>3. b # 0
    <2>1. AbsOf(AsSigned(b)) # 0
        BY <1>1
    <2> QED
        BY <2>1, MagnitudeIs
<1>4. IDivMod4(a, b).q = Encode(q)
    <2>1. IDivMod4(a, b).q = Encode(Quot(x, y))
        BY <1>1, <1>3, SignedDivisionIsExact, Zenon DEF SignedDivides
    <2>2. Quot(x, y) = q
        BY <1>1, <1>2, Zenon DEF Quot
    <2> QED
        BY <2>1, <2>2, Zenon
<1>5. AsSigned(Encode(q)) = q /\ Encode(q) \in Pattern
    <2>1. -IMIN <= q /\ q < IMIN /\ q \in Int
        BY <1>1, <1>2
    <2> QED
        BY <2>1, EncodeIs
<1>6. AsSigned(p) = k
    BY <1>1 DEF AsSigned
<1>7. ILt(Encode(q), p) <=> q < k
    BY <1>5, <1>6, OrdersAreExact
<1> QED
    BY <1>1, <1>2, <1>4, <1>7, Zenon
\* A pattern beside its signed reading and its absolute value.
SignedParts(a, x, m, i) ==
    /\ x = AsSigned(a) /\ m = AbsOf(x) /\ i = IMIN /\ i >= 8
    /\ -i <= x /\ x < i /\ m <= i /\ m = (IF x < 0 THEN -x ELSE x)
    /\ (a = 0 <=> x = 0) /\ (a = 1 <=> x = 1) /\ (a = IMIN <=> x = -i)
    /\ m \in Pattern /\ NegateIf(a, SignMask(a)) = m

LEMMA SignedPartsAre ==
    \A a \in Pattern : \E x \in Int, m, i \in Nat : SignedParts(a, x, m, i)
<1> SUFFICES ASSUME NEW a \in Pattern PROVE \E x \in Int, m, i \in Nat : SignedParts(a, x, m, i)
    OBVIOUS
<1>1. PICK i \in Nat : i = IMIN /\ i >= 8 /\ N = 2 * i
    BY SmallSigned, SignBase
<1>2. PICK n \in Nat : n = a /\ n < 2 * i
    BY <1>1, PatternIs
<1>3. PICK x \in Int : x = AsSigned(a) /\ x = IF n >= i THEN n - 2 * i ELSE n
    <2>1. AsSigned(a) = IF n >= i THEN n - 2 * i ELSE n
        BY <1>1, <1>2, Zenon DEF AsSigned
    <2>2. (IF n >= i THEN n - 2 * i ELSE n) \in Int
        OBVIOUS
    <2> QED
        BY <2>1, <2>2, Zenon
<1>4. PICK m \in Nat : m = AbsOf(x) /\ m = (IF x < 0 THEN -x ELSE x) /\ m <= i
    BY <1>1, <1>2, <1>3 DEF AbsOf
<1>5. m \in Pattern /\ NegateIf(a, SignMask(a)) = m
    BY <1>3, <1>4, MagnitudeIs
<1>6. (n = 0 <=> x = 0) /\ (n = 1 <=> x = 1) /\ (n = i <=> x = -i) /\ -i <= x /\ x < i
    BY <1>1, <1>2, <1>3
<1> QED
    BY <1>1, <1>2, <1>3, <1>4, <1>5, <1>6, Zenon DEF SignedParts

\* A product of numbers up to i in magnitude, one of them -i.
LEMMA ProductOfMin ==
    \A i, m, n, w \in Nat, x, y \in Int :
        SignedTimes(x, y, m, n, w) /\ x = -i /\ i >= 8
        => (x * y \notin (-i)..(i - 1) <=> y # 0 /\ y # 1)
<1> SUFFICES ASSUME NEW i \in Nat, NEW m \in Nat, NEW n \in Nat, NEW w \in Nat, NEW x \in Int, NEW y \in Int,
                    SignedTimes(x, y, m, n, w), x = -i, i >= 8
             PROVE  x * y \notin (-i)..(i - 1) <=> y # 0 /\ y # 1
    OBVIOUS
<1>1. /\ n = (IF y < 0 THEN -y ELSE y) /\ m = (IF x < 0 THEN -x ELSE x) /\ w = m * n
      /\ x * y = IF (x < 0) = (y < 0) THEN w ELSE -w
    BY DEF SignedTimes
<1>2. PICK z \in Int : z = x * y /\ z = IF y < 0 THEN w ELSE -w
    BY <1>1
<1>3. m = i
    BY <1>1
<1>4. w = i * n
    BY <1>1, <1>3
<1>5. (n = 0 => w = 0) /\ (n = 1 => w = i) /\ (n >= 1 => w >= i) /\ (n >= 2 => w >= 2 * i)
    <2>1. i * 0 = 0 /\ i * 1 = i /\ i * 2 = 2 * i
        OBVIOUS
    <2>2. (1 <= n => i * 1 <= i * n) /\ (2 <= n => i * 2 <= i * n)
        BY TimesUp
    <2> QED
        BY <1>4, <2>1, <2>2
<1>6. z \notin (-i)..(i - 1) <=> y # 0 /\ y # 1
    BY <1>1, <1>2, <1>5
<1> QED
    BY <1>2, <1>6, Zenon

LEMMA SignedTimesSwap ==
    \A x, y \in Int, m, n, w \in Nat : SignedTimes(x, y, m, n, w) => SignedTimes(y, x, n, m, w) /\ y * x = x * y
<1> SUFFICES ASSUME NEW x \in Int, NEW y \in Int, NEW m \in Nat, NEW n \in Nat, NEW w \in Nat,
                    SignedTimes(x, y, m, n, w)
             PROVE  SignedTimes(y, x, n, m, w) /\ y * x = x * y
    OBVIOUS
<1>1. y * x = x * y /\ n * m = m * n
    OBVIOUS
<1> QED
    BY <1>1, Zenon DEF SignedTimes
\* When both factors are within the range and their signs taken off, imulc
\* divides the end of the range where the product lies by one of them.
LEMMA ProductFits ==
    \A a, b \in Pattern :
        LET x == AsSigned(a)
            y == AsSigned(b)
            absA == NegateIf(a, SignMask(a))
            absB == NegateIf(b, SignMask(b))
        IN a # IMIN /\ b # IMIN /\ absA >= 2 /\ absB >= 2
           => /\ (x < 0) = (y < 0)
                 => (ILt(IDivMod4(IMAX, absB).q, absA) <=> x * y \notin (-IMIN)..(IMIN - 1))
              /\ (x < 0) # (y < 0)
                 => (ILt(IDivMod4(IMIN, Add3(BitNot(absB), ONE)).q, absA) <=> x * y \notin (-IMIN)..(IMIN - 1))
<1> SUFFICES ASSUME NEW a \in Pattern, NEW b \in Pattern, a # IMIN, b # IMIN,
                    NegateIf(a, SignMask(a)) >= 2, NegateIf(b, SignMask(b)) >= 2
             PROVE  /\ (AsSigned(a) < 0) = (AsSigned(b) < 0)
                       => (ILt(IDivMod4(IMAX, NegateIf(b, SignMask(b))).q, NegateIf(a, SignMask(a)))
                           <=> AsSigned(a) * AsSigned(b) \notin (-IMIN)..(IMIN - 1))
                    /\ (AsSigned(a) < 0) # (AsSigned(b) < 0)
                       => (ILt(IDivMod4(IMIN, Add3(BitNot(NegateIf(b, SignMask(b))), ONE)).q, NegateIf(a, SignMask(a)))
                           <=> AsSigned(a) * AsSigned(b) \notin (-IMIN)..(IMIN - 1))
    OBVIOUS
<1>1. PICK x \in Int, m \in Nat, i \in Nat : SignedParts(a, x, m, i)
    BY SignedPartsAre
<1>2. PICK y \in Int, n \in Nat, k \in Nat : SignedParts(b, y, n, k)
    BY SignedPartsAre
<1>3. /\ x = AsSigned(a) /\ m = AbsOf(x) /\ i = IMIN /\ i >= 8
      /\ m < i /\ m \in Pattern /\ NegateIf(a, SignMask(a)) = m /\ m >= 2 /\ (x < 0 \/ x >= 0)
    BY <1>1 DEF SignedParts
<1>4. /\ y = AsSigned(b) /\ n = AbsOf(y) /\ k = i
      /\ n < i /\ n \in Pattern /\ NegateIf(b, SignMask(b)) = n /\ n >= 2
    BY <1>2, <1>3 DEF SignedParts
<1>5. PICK mm \in Nat, nn \in Nat, w \in Nat : SignedTimes(x, y, mm, nn, w)
    BY SignedTimesIs
<1>6. PICK z \in Int : z = x * y /\ z = (IF (x < 0) = (y < 0) THEN w ELSE -w) /\ w = m * n
    BY <1>3, <1>4, <1>5 DEF SignedTimes
<1>7. AsSigned(m) = m /\ AsSigned(n) = n /\ AbsOf(n) = n
    BY <1>3, <1>4 DEF AsSigned, AbsOf
<1>8. IMAX \in Pattern /\ IMAX = i - 1 /\ AsSigned(IMAX) = i - 1 /\ AbsOf(i - 1) = i - 1
    BY <1>3, SmallSigned DEF AsSigned, AbsOf
<1>9. IMIN \in Pattern /\ AsSigned(IMIN) = -i /\ AbsOf(-i) = i
    BY <1>3, SmallSigned DEF AbsOf
<1>10. ASSUME (x < 0) = (y < 0) PROVE ILt(IDivMod4(IMAX, n).q, m) <=> z \notin (-i)..(i - 1)
    <2>1. ILt(IDivMod4(IMAX, n).q, m) <=> i - 1 < m * n
        <3>1. (AsSigned(IMAX) < 0) = (AsSigned(n) < 0)
            BY <1>3, <1>4, <1>7, <1>8
        <3>2. AbsOf(AsSigned(n)) >= 2 /\ m < IMIN
            BY <1>3, <1>4, <1>7
        <3> QED
            BY <1>3, <1>4, <1>7, <1>8, <3>1, <3>2, LargestIs, ZenonT(60)
    <2>2. z = w
        BY <1>6, <1>10
    <2> QED
        BY <1>3, <1>6, <2>1, <2>2
<1>11. ASSUME (x < 0) # (y < 0)
       PROVE  ILt(IDivMod4(IMIN, Add3(BitNot(n), ONE)).q, m) <=> z \notin (-i)..(i - 1)
    <2> DEFINE c == Add3(BitNot(n), ONE)
    <2>1. c = Encode(-n) /\ c \in Pattern /\ AsSigned(c) = -n
        <3>1. c = Encode(-n)
            BY <1>4, NegatedIs
        <3>2. -n \in Int /\ -IMIN <= -n /\ -n < IMIN
            BY <1>3, <1>4
        <3> QED
            BY <3>1, <3>2, EncodeIs
    <2>2. AbsOf(-n) = n
        BY <1>4 DEF AbsOf
    <2> HIDE DEF c
    <2>3. ILt(IDivMod4(IMIN, c).q, m) <=> i < m * n
        <3>1. (AsSigned(IMIN) < 0) = (AsSigned(c) < 0)
            BY <1>3, <1>4, <1>9, <2>1
        <3>2. AbsOf(AsSigned(c)) >= 2 /\ m < IMIN
            BY <1>3, <1>4, <2>1, <2>2
        <3> QED
            BY <1>3, <1>9, <2>1, <2>2, <3>1, <3>2, LargestIs, Zenon
    <2>4. z = -w
        BY <1>6, <1>11
    <2>5. ILt(IDivMod4(IMIN, c).q, m) <=> z \notin (-i)..(i - 1)
        BY <1>3, <1>6, <2>3, <2>4
    <2> QED
        BY <2>5 DEF c
<1> QED
    BY <1>3, <1>4, <1>6, <1>10, <1>11, Zenon

\* imulc decides by a division whether the product fits, with special cases
\* where an operand is MIN and has no absolute value: its words are the
\* pattern of the integer product, and its flag says exactly when that is no I256.
THEOREM SignedProductsAreExact ==
    \A a, b \in Pattern :
        IMulC(a, b) = <<Encode(AsSigned(a) * AsSigned(b)),
                        AsSigned(a) * AsSigned(b) \notin (-IMIN)..(IMIN - 1)>>
<1> SUFFICES ASSUME NEW a \in Pattern, NEW b \in Pattern
             PROVE  IMulC(a, b) = <<Encode(AsSigned(a) * AsSigned(b)),
                                    AsSigned(a) * AsSigned(b) \notin (-IMIN)..(IMIN - 1)>>
    OBVIOUS
<1> DEFINE absA == NegateIf(a, SignMask(a))
           absB == NegateIf(b, SignMask(b))
           sameSign == SignMask(a) = SignMask(b)
           largest == IDivMod4(IF sameSign THEN IMAX ELSE IMIN,
                               IF sameSign THEN absB ELSE Add3(BitNot(absB), ONE)).q
           flag == IF a = IMIN THEN b # ZERO /\ b # ONE
                   ELSE IF b = IMIN THEN a # ZERO /\ a # ONE
                   ELSE ~ILt(absA, 2) /\ ~ILt(absB, 2) /\ ILt(largest, absA)
<1>1. PICK x \in Int, m \in Nat, i \in Nat : SignedParts(a, x, m, i)
    BY SignedPartsAre
<1>2. PICK y \in Int, n \in Nat, k \in Nat : SignedParts(b, y, n, k)
    BY SignedPartsAre
<1>3. /\ x = AsSigned(a) /\ m = AbsOf(x) /\ i = IMIN /\ i >= 8 /\ (a # i => m < i)
      /\ (a = 0 <=> x = 0) /\ (a = 1 <=> x = 1) /\ (a = i <=> x = -i) /\ m \in Pattern /\ absA = m
    BY <1>1 DEF SignedParts
<1>4. /\ y = AsSigned(b) /\ n = AbsOf(y) /\ k = i /\ (b # i => n < i)
      /\ (b = 0 <=> y = 0) /\ (b = 1 <=> y = 1) /\ (b = i <=> y = -i) /\ n \in Pattern /\ absB = n
    BY <1>2, <1>3 DEF SignedParts
<1>5. PICK mm \in Nat, nn \in Nat, w \in Nat : SignedTimes(x, y, mm, nn, w)
    BY SignedTimesIs
<1>6. flag <=> x * y \notin (-i)..(i - 1)
    <2>1. CASE a = IMIN
        <3>1. x * y \notin (-i)..(i - 1) <=> y # 0 /\ y # 1
            <4>1. x = -i /\ i >= 8
                BY <1>3, <2>1, Zenon
            <4> QED
                BY <1>5, <4>1, ProductOfMin
        <3> QED
            BY <1>4, <2>1, <3>1, Zenon DEF ZERO, ONE
    <2>2. CASE a # IMIN /\ b = IMIN
        <3>1. SignedTimes(y, x, nn, mm, w) /\ y * x = x * y
            BY <1>5, SignedTimesSwap, Zenon
        <3>2. y * x \notin (-i)..(i - 1) <=> x # 0 /\ x # 1
            <4>1. y = -i /\ i >= 8
                BY <1>3, <1>4, <2>2, Zenon
            <4> QED
                BY <3>1, <4>1, ProductOfMin
        <3> QED
            BY <1>3, <2>2, <3>1, <3>2, Zenon DEF ZERO, ONE
    <2>3. CASE a # IMIN /\ b # IMIN
        <3>1. flag <=> ~ILt(absA, 2) /\ ~ILt(absB, 2) /\ ILt(largest, absA)
            BY <2>3, Zenon
        <3>2. (ILt(absA, 2) <=> m < 2) /\ (ILt(absB, 2) <=> n < 2)
            <4>1. 2 \in Pattern /\ AsSigned(2) = 2 /\ AsSigned(m) = m /\ AsSigned(n) = n
                <5>1. m < i /\ n < i
                    BY <1>3, <1>4, <2>3, Zenon
                <5>2. 2 \in Pattern
                    BY PatternIs, Bases
                <5>3. \A p \in Nat : p < i => AsSigned(p) = p
                    BY <1>3 DEF AsSigned
                <5> QED
                    BY <1>3, <5>1, <5>2, <5>3
            <4>2. \A p, q \in Pattern : ILt(p, q) <=> AsSigned(p) < AsSigned(q)
                BY OrdersAreExact, Zenon
            <4>3. absA = m /\ absB = n /\ m \in Pattern /\ n \in Pattern
                BY <1>3, <1>4, Zenon
            <4> HIDE DEF absA, absB
            <4> QED
                BY <4>1, <4>2, <4>3, Zenon
        <3>3. CASE m < 2 \/ n < 2
            <4>1. m < i /\ n < i /\ mm = m /\ nn = n /\ w = m * n
                BY <1>3, <1>4, <1>5, <2>3 DEF SignedTimes
            <4>2. w < i
                <5>1. m = 0 \/ m = 1 \/ n = 0 \/ n = 1
                    BY <3>3
                <5> QED
                    BY <1>3, <4>1, <5>1
            <4>3. PICK z \in Int : z = x * y /\ (z = w \/ z = -w)
                BY <1>5 DEF SignedTimes
            <4>4. z \in (-i)..(i - 1)
                BY <1>3, <4>2, <4>3
            <4> QED
                BY <3>1, <3>2, <3>3, <4>3, <4>4, Zenon
        <3>4. CASE ~(m < 2 \/ n < 2)
            <4>1. absA >= 2 /\ absB >= 2
                BY <1>3, <1>4, <3>4
            <4>2. sameSign <=> (x < 0) = (y < 0)
                <5>1. N - 1 # 0
                    BY Bases, PatternIs
                <5>2. SignMask(a) = (IF x < 0 THEN N - 1 ELSE 0) /\ SignMask(b) = IF y < 0 THEN N - 1 ELSE 0
                    BY <1>3, <1>4, SignMaskIs, Zenon
                <5>3. sameSign <=> (x < 0 <=> y < 0)
                    <6>1. CASE x < 0 /\ y < 0
                        BY <5>2, <6>1, Zenon
                    <6>2. CASE x < 0 /\ ~(y < 0)
                        BY <5>1, <5>2, <6>2, Zenon
                    <6>3. CASE ~(x < 0) /\ y < 0
                        BY <5>1, <5>2, <6>3, Zenon
                    <6>4. CASE ~(x < 0) /\ ~(y < 0)
                        BY <5>2, <6>4, Zenon
                    <6> QED
                        BY <6>1, <6>2, <6>3, <6>4, Zenon
                <5>4. (x < 0 <=> y < 0) <=> (x < 0) = (y < 0)
                    OBVIOUS
                <5> QED
                    BY <5>3, <5>4, Zenon
            <4>3. CASE (x < 0) = (y < 0)
                <5>1. largest = IDivMod4(IMAX, absB).q
                    BY <4>2, <4>3, Zenon
                <5>2. ILt(IDivMod4(IMAX, absB).q, absA) <=> x * y \notin (-i)..(i - 1)
                    BY <1>3, <1>4, <2>3, <4>1, <4>3, ProductFits, Zenon
                <5> QED
                    BY <3>1, <3>2, <3>4, <5>1, <5>2, Zenon
            <4>4. CASE (x < 0) # (y < 0)
                <5>1. largest = IDivMod4(IMIN, Add3(BitNot(absB), ONE)).q
                    BY <4>2, <4>4, Zenon
                <5>2. ILt(IDivMod4(IMIN, Add3(BitNot(absB), ONE)).q, absA) <=> x * y \notin (-i)..(i - 1)
                    BY <1>3, <1>4, <2>3, <4>1, <4>4, ProductFits, Zenon
                <5> QED
                    BY <3>1, <3>2, <3>4, <5>1, <5>2, Zenon
            <4> QED
                BY <4>3, <4>4, Zenon
        <3> QED
            BY <3>3, <3>4
    <2> QED
        BY <2>1, <2>2, <2>3, Zenon
<1>7. IMulC(a, b) = <<Mul3(a, b), flag>>
    BY Zenon DEF IMulC
<1>8. Mul3(a, b) = Encode(x * y)
    BY <1>3, <1>4, ProductsAreExact, Zenon
<1>9. flag \in BOOLEAN
    <2>1. \A p, q \in Pattern : ILt(p, q) \in BOOLEAN
        BY DEF ILt
    <2> QED
        BY Zenon DEF ILt
<1> HIDE DEF flag
<1>10. flag = (x * y \notin (-i)..(i - 1))
    BY <1>6, <1>9, Zenon
<1> QED
    BY <1>3, <1>4, <1>7, <1>8, <1>10, Zenon

-----------------------------------------------------------------------------
(* The forms derived from an overflowing result *)

LEMMA OrElseIs ==
    \A v, d : OrElse({v}, d) = v /\ OrElse({}, d) = d
<1> TAKE v, d
<1>1. {v} # {} /\ \A w : w \in {v} => w = v
    OBVIOUS
<1>2. (CHOOSE w \in {v} : TRUE) = v
    OBVIOUS
<1> QED
    BY <1>1, <1>2, Zenon DEF OrElse

LEMMA CheckedIs ==
    \A r, v, d : \A f \in BOOLEAN :
        r = <<v, f>> => /\ Checked(r) = (IF f THEN {} ELSE {v}) /\ Wrapped(r) = v
                        /\ OrElse(Checked(r), d) = IF f THEN d ELSE v
<1> SUFFICES ASSUME NEW v, NEW d, NEW f \in BOOLEAN
             PROVE  /\ Checked(<<v, f>>) = (IF f THEN {} ELSE {v}) /\ Wrapped(<<v, f>>) = v
                    /\ OrElse(Checked(<<v, f>>), d) = IF f THEN d ELSE v
    OBVIOUS
<1>1. <<v, f>>[1] = v /\ <<v, f>>[2] = f
    OBVIOUS
<1>2. Checked(<<v, f>>) = (IF f THEN {} ELSE {v}) /\ Wrapped(<<v, f>>) = v
    BY <1>1, Zenon DEF Checked, Wrapped
<1>3. CASE f
    BY <1>2, <1>3, OrElseIs, Zenon
<1>4. CASE ~f
    BY <1>2, <1>4, OrElseIs, Zenon
<1> QED
    BY <1>3, <1>4

\* An overflowing result that is exact makes the forms derived from it exact.
LEMMA UnsignedForms ==
    \A v \in Int : \A o, c, w :
        o = <<v % N, v \notin URange>> /\ c = Checked(o) /\ w = v % N => UResult(v, o, c, w)
<1> SUFFICES ASSUME NEW v \in Int, NEW o, NEW c, NEW w,
                    o = <<v % N, v \notin URange>>, c = Checked(o), w = v % N
             PROVE  UResult(v, o, c, w)
    OBVIOUS
<1>1. PICK f \in BOOLEAN : f = (v \notin URange)
    OBVIOUS
<1>2. c = IF f THEN {} ELSE {v % N}
    BY <1>1, CheckedIs, Zenon
<1>3. ~f => v % N = v
    <2> SUFFICES ASSUME ~f PROVE v % N = v
        OBVIOUS
    <2>1. v \in Nat /\ v < N
        <3>1. v \in 0..(N - 1)
            BY <1>1, Zenon DEF URange
        <3>2. PICK n \in Nat : n = N
            BY Bases
        <3> QED
            BY <3>1, <3>2
    <2> QED
        BY <2>1, Below, Bases
<1>4. c = IF v \in URange THEN {v} ELSE {}
    BY <1>1, <1>2, <1>3, Zenon
<1> QED
    BY <1>4, Zenon DEF UResult

LEMMA SignedForms ==
    \A v \in Int : \A o, c, w :
        o = <<Encode(v), v \notin IRange>> /\ c = Checked(o) /\ w = Encode(v) => IResult(v, o, c, w)
<1> SUFFICES ASSUME NEW v \in Int, NEW o, NEW c, NEW w,
                    o = <<Encode(v), v \notin IRange>>, c = Checked(o), w = Encode(v)
             PROVE  IResult(v, o, c, w)
    OBVIOUS
<1>1. PICK f \in BOOLEAN : f = (v \notin IRange)
    OBVIOUS
<1>2. c = IF f THEN {} ELSE {Encode(v)}
    BY <1>1, CheckedIs, Zenon
<1>3. c = IF v \in IRange THEN {Encode(v)} ELSE {}
    BY <1>1, <1>2, Zenon
<1> QED
    BY <1>3, Zenon DEF IResult

\* What is a pattern and what an I256, with the width as a number.
Spans(n, i) ==
    /\ n = N /\ i = IMIN /\ n = 2 * i /\ i >= 8
    /\ URange = 0..(n - 1) /\ IRange = (-i)..(i - 1) /\ UMAX = n - 1 /\ UMIN = 0 /\ IMAX = i - 1

LEMMA SpansAre == \E n, i \in Nat : Spans(n, i)
<1>1. PICK i \in Nat, n \in Nat : i = IMIN /\ n = N /\ n = 2 * i /\ i >= 8 /\ IMAX = i - 1
    BY SmallSigned, SignBase, Bases
<1>2. n \div 2 = i
    BY <1>1
<1>3. IRange = (-i)..(i - 1)
    BY <1>1, <1>2, Zenon DEF IRange
<1> QED
    BY <1>1, <1>3, Zenon DEF Spans, URange, UMAX, UMIN

\* A pattern read in both ways.
Read(a, n, x, w, i) ==
    n = a /\ x = AsSigned(a) /\ n < w /\ -i <= x /\ x < i /\ (x = n \/ x = n - w) /\ (x < 0 <=> x = n - w)

LEMMA ReadIs ==
    \A a \in Pattern, w, i \in Nat : Spans(w, i) => \E n \in Nat, x \in Int : Read(a, n, x, w, i)
<1> SUFFICES ASSUME NEW a \in Pattern, NEW w \in Nat, NEW i \in Nat, Spans(w, i)
             PROVE  \E n \in Nat, x \in Int : Read(a, n, x, w, i)
    OBVIOUS
<1>1. w = N /\ i = IMIN /\ w = 2 * i /\ i >= 8
    BY DEF Spans
<1>2. PICK n \in Nat : n = a /\ n < w
    BY <1>1, PatternIs
<1>3. AsSigned(a) = IF n >= i THEN n - w ELSE n
    BY <1>1, <1>2, Zenon DEF AsSigned
<1>4. PICK x \in Int : x = IF n >= i THEN n - w ELSE n
    OBVIOUS
<1>5. -i <= x /\ x < i /\ (x = n \/ x = n - w) /\ (x < 0 <=> x = n - w)
    BY <1>1, <1>2, <1>4
<1> QED
    BY <1>2, <1>3, <1>4, <1>5, Zenon DEF Read

LEMMA SameModulo ==
    \A v \in Int : (v + N) % N = v % N /\ (v - N) % N = v % N
BY ModShift, Bases, Zenon

LEMMA SameCode ==
    \A u, v \in Int : u = v \/ u = v + N \/ u = v - N => Encode(u) = Encode(v)
BY SameModulo, Zenon DEF Encode

LEMMA Comparable == \A x, y \in Int : (x >= y) \in BOOLEAN /\ (x < y) \in BOOLEAN
OBVIOUS

LEMMA OutOfURange ==
    \A v \in Int : /\ v >= 0 => (v \notin URange) = (v >= N)
                   /\ v < N => (v \notin URange) = (v < 0)
                   /\ v \in URange <=> 0 <= v /\ v < N
<1> SUFFICES ASSUME NEW v \in Int
             PROVE  /\ v >= 0 => (v \notin URange) = (v >= N)
                    /\ v < N => (v \notin URange) = (v < 0)
                    /\ v \in URange <=> 0 <= v /\ v < N
    OBVIOUS
<1>1. PICK n \in Nat : n = N /\ URange = 0..(n - 1)
    BY Bases DEF URange
<1>2. v \in URange <=> 0 <= v /\ v < n
    BY <1>1
<1>3. v >= 0 => (v \notin URange <=> v >= n)
    BY <1>2
<1>4. v < n => (v \notin URange <=> v < 0)
    BY <1>2
<1>5. (v >= 0 => (v \notin URange) = (v >= n)) /\ (v < n => (v \notin URange) = (v < 0))
    BY <1>3, <1>4
<1> QED
    BY <1>1, <1>2, <1>5, Zenon

LEMMA InURange == \A v \in Int : v \in URange => v % N = v /\ UClamp(v) = v
<1> SUFFICES ASSUME NEW v \in Int, v \in URange PROVE v % N = v /\ UClamp(v) = v
    OBVIOUS
<1>1. PICK n \in Nat \ {0} : n = N /\ 0 <= v /\ v < n
    BY Bases, OutOfURange
<1>2. v % n = v
    BY <1>1, Below
<1>3. ~(v < 0) /\ ~(v >= n)
    BY <1>1
<1> QED
    BY <1>1, <1>2, <1>3, Zenon DEF UClamp

LEMMA UnsignedClamp ==
    \A v \in Int : \A o, d :
        o = <<v % N, v \notin URange>> /\ (v \notin URange => d = IF v < 0 THEN 0 ELSE UMAX)
        => OrElse(Checked(o), d) = UClamp(v)
<1> SUFFICES ASSUME NEW v \in Int, NEW o, NEW d, o = <<v % N, v \notin URange>>,
                    v \notin URange => d = IF v < 0 THEN 0 ELSE UMAX
             PROVE  OrElse(Checked(o), d) = UClamp(v)
    OBVIOUS
<1>1. PICK f \in BOOLEAN : f = (v \notin URange)
    OBVIOUS
<1>2. OrElse(Checked(o), d) = IF f THEN d ELSE v % N
    <2>1. PICK c : c = v % N
        OBVIOUS
    <2>2. o = <<c, f>>
        BY <1>1, <2>1, Zenon
    <2>3. OrElse(Checked(o), d) = IF f THEN d ELSE c
        BY <2>2, CheckedIs
    <2> QED
        BY <2>1, <2>3, Zenon
<1>3. CASE v \in URange
    BY <1>1, <1>2, <1>3, InURange, Zenon
<1>4. CASE v \notin URange
    <2>1. v < 0 \/ v >= N
        <3>1. PICK n \in Nat : n = N
            BY Bases
        <3> QED
            BY <1>4, <3>1, OutOfURange
    <2>2. UClamp(v) = IF v < 0 THEN 0 ELSE UMAX
        BY <2>1, Zenon DEF UClamp
    <2> QED
        BY <1>1, <1>2, <1>4, <2>2, Zenon
<1> QED
    BY <1>3, <1>4

\* U256 + I256: the carry of the pattern and the sign of the summand together
\* tell whether the sum leaves the range, and at which end.
LEMMA AddSignedIs ==
    \A a, b \in Pattern :
        LET v == a + AsSigned(b)
        IN /\ UOverflowingAddSigned(a, b) = <<v % N, v \notin URange>>
           /\ UWrappingAddSigned(a, b) = v % N
           /\ USaturatingAddSigned(a, b) = UClamp(v)
<1> SUFFICES ASSUME NEW a \in Pattern, NEW b \in Pattern
             PROVE  /\ UOverflowingAddSigned(a, b) = <<(a + AsSigned(b)) % N, a + AsSigned(b) \notin URange>>
                    /\ UWrappingAddSigned(a, b) = (a + AsSigned(b)) % N
                    /\ USaturatingAddSigned(a, b) = UClamp(a + AsSigned(b))
    OBVIOUS
<1>1. PICK w \in Nat, i \in Nat : Spans(w, i)
    BY SpansAre
<1>2. PICK n \in Nat, x0 \in Int : Read(a, n, x0, w, i)
    BY <1>1, ReadIs
<1>3. PICK s \in Nat, x \in Int : Read(b, s, x, w, i)
    BY <1>1, ReadIs
<1>4. w = N /\ w = 2 * i /\ i >= 8 /\ n = a /\ n < w
    BY <1>1, <1>2 DEF Spans, Read
<1>5. s = b /\ x = AsSigned(b) /\ s < w /\ -i <= x /\ x < i /\ (x = s \/ x = s - w) /\ (x < 0 <=> x = s - w)
    BY <1>3 DEF Read
<1>6. PICK v \in Int, u \in Nat : v = n + x /\ u = n + s
    OBVIOUS
<1>16. PICK f \in BOOLEAN : f = (u >= w)
    <2>1. u \in Int /\ w \in Int
        OBVIOUS
    <2> QED
        BY <2>1, Comparable, Zenon
<1>17. PICK g \in BOOLEAN : g = (x < 0)
    <2>1. 0 \in Int
        OBVIOUS
    <2> QED
        BY <2>1, Comparable, Zenon
<1>7. UAddC(a, b) = <<v % N, f>>
    <2>1. (v = u \/ v = u - w) /\ u \in Int
        <3>1. CASE x = s
            BY <1>6, <3>1
        <3>2. CASE x = s - w
            BY <1>6, <3>2
        <3> QED
            BY <1>5, <3>1, <3>2
    <2>2. v % N = u % N
        BY <1>4, <2>1, SameModulo, Zenon
    <2>3. UAddC(a, b) = <<u % N, u >= w>>
        BY <1>4, <1>5, <1>6, SumsAreExact, Zenon
    <2> QED
        BY <1>16, <2>2, <2>3, Zenon
<1>8. ILt(b, 0) = g
    <2>1. ILt(b, 0) <=> x < 0
        BY <1>5, OrdersAreExact, ZeroPattern, ZenonT(60)
    <2>2. ILt(b, 0) \in BOOLEAN
        BY Zenon DEF ILt
    <2> QED
        BY <1>17, <2>1, <2>2, Zenon
<1>9. /\ v \in URange <=> (f <=> g)
      /\ f /\ ~g => ~(v < 0) /\ v >= w
      /\ g /\ ~f => v < 0
    <2>1. v \in URange <=> 0 <= v /\ v < w
        BY <1>4, OutOfURange
    <2>2. /\ v \in URange <=> (u >= w <=> x < 0)
          /\ u >= w /\ ~(x < 0) => ~(v < 0) /\ v >= w
          /\ x < 0 /\ ~(u >= w) => v < 0
        <3>1. CASE x < 0
            BY <1>4, <1>5, <1>6, <2>1, <3>1
        <3>2. CASE ~(x < 0)
            BY <1>4, <1>5, <1>6, <2>1, <3>2
        <3> QED
            BY <3>1, <3>2
    <2> QED
        BY <1>16, <1>17, <2>2, Zenon
<1>10. AsU256(b) = b
    BY DEF AsU256
<1>11. UOverflowingAdd(a, AsU256(b))[1] = v % N /\ UOverflowingAdd(a, AsU256(b))[2] = f
    <2>1. <<v % N, f>>[1] = v % N /\ <<v % N, f>>[2] = f
        OBVIOUS
    <2> QED
        BY <1>7, <1>10, <2>1, Zenon DEF UOverflowingAdd
<1>12. UOverflowingAddSigned(a, b) = <<v % N, v \notin URange>>
    <2>1. (f # g) = (v \notin URange)
        BY <1>9, Zenon
    <2> QED
        BY <1>8, <1>11, <2>1, Zenon DEF UOverflowingAddSigned
<1>13. UWrappingAddSigned(a, b) = v % N
    <2>1. UAddC(a, b) = <<(a + b) % N, a + b >= N>> /\ Add3(a, b) = (a + b) % N
        BY SumsAreExact, Zenon
    <2>2. Add3(a, b) = v % N
        BY <1>7, <2>1
    <2> QED
        BY <1>10, <2>2, Zenon DEF UWrappingAddSigned, UWrappingAdd
<1>14. USaturatingAddSigned(a, b) = IF f = g THEN v % N ELSE IF f THEN UMAX ELSE 0
    BY <1>8, <1>11, Zenon DEF USaturatingAddSigned, ZERO
<1>15. USaturatingAddSigned(a, b) = UClamp(v)
    <2>1. CASE f = g
        BY <1>9, <1>14, <2>1, InURange, Zenon
    <2>2. CASE f /\ ~g
        BY <1>4, <1>9, <1>14, <2>2, Zenon DEF UClamp
    <2>3. CASE g /\ ~f
        BY <1>9, <1>14, <2>3, Zenon DEF UClamp
    <2> QED
        BY <2>1, <2>2, <2>3
<1> QED
    BY <1>4, <1>5, <1>6, <1>12, <1>13, <1>15, Zenon

LEMMA UnsignedNegation ==
    \A a \in Pattern : UOverflowingNeg(a) = <<(-a) % N, -a \notin URange>> /\ UWrappingNeg(a) = (-a) % N
<1> SUFFICES ASSUME NEW a \in Pattern
             PROVE  UOverflowingNeg(a) = <<(-a) % N, -a \notin URange>> /\ UWrappingNeg(a) = (-a) % N
    OBVIOUS
<1>1. PICK n \in Nat, v \in Int : n = a /\ v = -a
    BY PatternIs
<1>2. (a # ZERO) = (v \notin URange)
    <2>1. v < N
        <3>1. PICK w \in Nat \ {0} : w = N
            BY Bases
        <3> QED
            BY <1>1, <3>1
    <2>2. (v \notin URange) = (v < 0)
        BY <2>1, OutOfURange, Zenon
    <2>3. a # 0 <=> v < 0
        BY <1>1
    <2> QED
        BY <2>2, <2>3, Zenon DEF ZERO
<1>3. UWrappingAdd(BitNot(a), ONE) = v % N
    BY <1>1, NegatedIs, Zenon DEF UWrappingAdd, Encode
<1>4. UOverflowingNeg(a) = <<v % N, v \notin URange>>
    BY <1>2, <1>3, Zenon DEF UOverflowingNeg
<1>5. UWrappingNeg(a) = v % N
    <2>1. PICK f \in BOOLEAN : f = (v \notin URange)
        OBVIOUS
    <2> QED
        BY <1>4, <2>1, CheckedIs, Zenon DEF UWrappingNeg
<1> QED
    BY <1>1, <1>4, <1>5, Zenon

LEMMA UnsignedDistance ==
    \A a, b \in Pattern : UAbsDiff(a, b) = AbsOf(a - b)
<1> SUFFICES ASSUME NEW a \in Pattern, NEW b \in Pattern PROVE UAbsDiff(a, b) = AbsOf(a - b)
    OBVIOUS
<1>1. PICK n \in Nat, s \in Nat, w \in Nat : n = a /\ s = b /\ w = N /\ n < w /\ s < w
    BY PatternIs, Bases
<1>2. ULt(a, b) <=> n < s
    BY <1>1, OrdersAreExact, Zenon
<1>3. n < s => Sub3(b, a) = s - n
    <2>1. Sub3(b, a) = (b - a) % N
        BY SumsAreExact, Zenon
    <2>2. (b - a) % N = IF b < a THEN b - a + N ELSE b - a
        BY ModuloN, Zenon
    <2> QED
        BY <1>1, <2>1, <2>2
<1>4. ~(n < s) => Sub3(a, b) = n - s
    <2>1. Sub3(a, b) = (a - b) % N
        BY SumsAreExact, Zenon
    <2>2. (a - b) % N = IF a < b THEN a - b + N ELSE a - b
        BY ModuloN, Zenon
    <2> QED
        BY <1>1, <2>1, <2>2
<1>5. AbsOf(n - s) = IF n < s THEN s - n ELSE n - s
    BY <1>1 DEF AbsOf
<1>6. CASE n < s
    BY <1>1, <1>2, <1>3, <1>5, <1>6, Zenon DEF UAbsDiff
<1>7. CASE ~(n < s)
    BY <1>1, <1>2, <1>4, <1>5, <1>7, Zenon DEF UAbsDiff
<1> QED
    BY <1>6, <1>7

LEMMA UnsignedSums ==
    \A a, b \in Pattern :
        /\ UOverflowingAdd(a, b) = <<(a + b) % N, a + b \notin URange>> /\ UWrappingAdd(a, b) = (a + b) % N
        /\ UOverflowingSub(a, b) = <<(a - b) % N, a - b \notin URange>> /\ UWrappingSub(a, b) = (a - b) % N
        /\ UOverflowingMul(a, b) = <<(a * b) % N, a * b \notin URange>> /\ UWrappingMul(a, b) = (a * b) % N
        /\ USaturatingAdd(a, b) = UClamp(a + b) /\ USaturatingSub(a, b) = UClamp(a - b)
        /\ USaturatingMul(a, b) = UClamp(a * b)
<1> TAKE a, b \in Pattern
<1>1. PICK n \in Nat, s \in Nat, w \in Nat : n = a /\ s = b /\ w = N /\ n < w /\ s < w
    BY PatternIs, Bases
<1>2. PICK p \in Nat, m \in Nat, d \in Int : p = n * s /\ m = n + s /\ d = n - s
    BY ProductNat
<1>3. d < w
    BY <1>1, <1>2
<1>4. (p \notin URange) = (p >= N) /\ (m \notin URange) = (m >= N) /\ (d \notin URange) = (d < 0)
    <2>1. p >= 0 /\ m >= 0 /\ d < N /\ p \in Int /\ m \in Int
        BY <1>1, <1>3
    <2> QED
        BY <2>1, OutOfURange, Zenon
<1>5. /\ UOverflowingAdd(a, b) = <<m % N, m \notin URange>> /\ UWrappingAdd(a, b) = m % N
      /\ UOverflowingSub(a, b) = <<d % N, d \notin URange>> /\ UWrappingSub(a, b) = d % N
    BY <1>1, <1>2, <1>4, SumsAreExact, Zenon
       DEF UOverflowingAdd, UWrappingAdd, UOverflowingSub, UWrappingSub
<1>6. UOverflowingMul(a, b) = <<p % N, p \notin URange>> /\ UWrappingMul(a, b) = p % N
    BY <1>1, <1>2, <1>4, ProductsAreExact, Zenon DEF UOverflowingMul, UWrappingMul
<1>7. ~(p < 0) /\ ~(m < 0) /\ p \in Int /\ m \in Int
    OBVIOUS
<1>8. d \notin URange => d < 0
    BY <1>4, Zenon
<1>9. USaturatingAdd(a, b) = UClamp(m) /\ USaturatingMul(a, b) = UClamp(p)
    BY <1>5, <1>6, <1>7, UnsignedClamp, Zenon DEF USaturatingAdd, USaturatingMul, UCheckedAdd, UCheckedMul
<1>10. USaturatingSub(a, b) = UClamp(d)
    BY <1>5, <1>8, UnsignedClamp, Zenon DEF USaturatingSub, UCheckedSub, UMIN
<1> QED
    BY <1>1, <1>2, <1>5, <1>6, <1>9, <1>10, Zenon

LEMMA UnsignedExact == Registers => UArithmetic
<1> SUFFICES ASSUME Registers PROVE UArithmetic
    OBVIOUS
<1>1. lhs \in Pattern /\ rhs \in Pattern
    BY DEF Registers
<1>2. PICK v1 \in Int, v2 \in Int, v3 \in Int, v4 \in Int, v5 \in Int :
            v1 = lhs + rhs /\ v2 = lhs + srhs /\ v3 = lhs - rhs /\ v4 = lhs * rhs /\ v5 = -lhs
    <2>1. lhs \in Int /\ rhs \in Int /\ AsSigned(rhs) \in Int
        BY <1>1, PatternIs, SignedValue
    <2> QED
        BY <2>1 DEF srhs
<1>3. UResult(v1, UOverflowingAdd(lhs, rhs), UCheckedAdd(lhs, rhs), UWrappingAdd(lhs, rhs))
    BY <1>1, <1>2, UnsignedSums, UnsignedForms, Zenon DEF UCheckedAdd
<1>4. UResult(v2, UOverflowingAddSigned(lhs, rhs), UCheckedAddSigned(lhs, rhs), UWrappingAddSigned(lhs, rhs))
    BY <1>1, <1>2, AddSignedIs, UnsignedForms, Zenon DEF UCheckedAddSigned, srhs
<1>5. UResult(v3, UOverflowingSub(lhs, rhs), UCheckedSub(lhs, rhs), UWrappingSub(lhs, rhs))
    BY <1>1, <1>2, UnsignedSums, UnsignedForms, Zenon DEF UCheckedSub
<1>6. UResult(v4, UOverflowingMul(lhs, rhs), UCheckedMul(lhs, rhs), UWrappingMul(lhs, rhs))
    BY <1>1, <1>2, UnsignedSums, UnsignedForms, Zenon DEF UCheckedMul
<1>7. UResult(v5, UOverflowingNeg(lhs), UCheckedNeg(lhs), UWrappingNeg(lhs))
    BY <1>1, <1>2, UnsignedNegation, UnsignedForms, Zenon DEF UCheckedNeg
<1>8. /\ USaturatingAdd(lhs, rhs) = UClamp(lhs + rhs) /\ USaturatingAddSigned(lhs, rhs) = UClamp(lhs + srhs)
      /\ USaturatingSub(lhs, rhs) = UClamp(lhs - rhs) /\ USaturatingMul(lhs, rhs) = UClamp(lhs * rhs)
    BY <1>1, AddSignedIs, UnsignedSums, Zenon DEF srhs
<1>9. UAbsDiff(lhs, rhs) = AbsOf(lhs - rhs)
    BY <1>1, UnsignedDistance, Zenon
<1> QED
    BY <1>2, <1>3, <1>4, <1>5, <1>6, <1>7, <1>8, <1>9, Zenon DEF UArithmetic

LEMMA InIRange ==
    \A v, i \in Int : i = IMIN => /\ IRange = (-i)..(i - 1)
                                  /\ v \in IRange <=> -i <= v /\ v < i
<1> SUFFICES ASSUME NEW v \in Int, NEW i \in Int, i = IMIN
             PROVE  IRange = (-i)..(i - 1) /\ (v \in IRange <=> -i <= v /\ v < i)
    OBVIOUS
<1>1. IRange = (-i)..(i - 1)
    BY Zenon DEF IRange, IMIN
<1> QED
    BY <1>1

LEMMA SignedClamp ==
    \A v \in Int : \A o, d :
        o = <<Encode(v), v \notin IRange>> /\ (v \notin IRange => d = IF v < 0 THEN IMIN ELSE IMAX)
        => OrElse(Checked(o), d) = IClamp(v)
<1> SUFFICES ASSUME NEW v \in Int, NEW o, NEW d, o = <<Encode(v), v \notin IRange>>,
                    v \notin IRange => d = IF v < 0 THEN IMIN ELSE IMAX
             PROVE  OrElse(Checked(o), d) = IClamp(v)
    OBVIOUS
<1>1. PICK f \in BOOLEAN : f = (v \notin IRange)
    OBVIOUS
<1>2. PICK c : c = Encode(v)
    OBVIOUS
<1>3. o = <<c, f>>
    BY <1>1, <1>2, Zenon
<1>4. OrElse(Checked(o), d) = IF f THEN d ELSE c
    BY <1>3, CheckedIs
<1>5. PICK i \in Nat : i = IMIN /\ IMAX = i - 1 /\ i >= 8
    BY SmallSigned
<1>6. v \in IRange <=> -i <= v /\ v < i
    BY <1>5, InIRange
<1>7. IClamp(v) = IF v < -i THEN IMIN ELSE IF v > i - 1 THEN IMAX ELSE c
    BY <1>2, <1>5, Zenon DEF IClamp
<1>8. CASE v \in IRange
    <2>1. ~(v < -i) /\ ~(v > i - 1)
        BY <1>6, <1>8
    <2>2. ~f
        BY <1>1, <1>8, Zenon
    <2> QED
        BY <1>4, <1>7, <2>1, <2>2, Zenon
<1>9. CASE v \notin IRange
    <2>1. (v < -i /\ v < 0) \/ (~(v < -i) /\ v > i - 1 /\ ~(v < 0))
        BY <1>5, <1>6, <1>9
    <2>2. f
        BY <1>1, <1>9, Zenon
    <2>3. OrElse(Checked(o), d) = IF v < 0 THEN IMIN ELSE IMAX
        BY <1>4, <1>9, <2>2, Zenon
    <2> QED
        BY <1>7, <2>1, <2>3, Zenon
<1> QED
    BY <1>8, <1>9

LEMMA InsideIRange == \A v \in Int : v \in IRange => IClamp(v) = Encode(v)
<1> SUFFICES ASSUME NEW v \in Int, v \in IRange PROVE IClamp(v) = Encode(v)
    OBVIOUS
<1>1. PICK i \in Nat : i = IMIN /\ IMAX = i - 1 /\ i >= 8
    BY SmallSigned
<1>2. ~(v < -i) /\ ~(v > i - 1)
    BY <1>1, InIRange
<1> QED
    BY <1>1, <1>2, Zenon DEF IClamp

\* Two patterns with their signed readings.
Two(a, b, n, x, s, y, w, i) == Spans(w, i) /\ Read(a, n, x, w, i) /\ Read(b, s, y, w, i)

LEMMA TwoAre ==
    \A a, b \in Pattern :
        \E n, s, w, i \in Nat, x, y \in Int : Two(a, b, n, x, s, y, w, i)
<1> TAKE a, b \in Pattern
<1>1. PICK w \in Nat, i \in Nat : Spans(w, i)
    BY SpansAre
<1>2. PICK n \in Nat, x \in Int : Read(a, n, x, w, i)
    BY <1>1, ReadIs
<1>3. PICK s \in Nat, y \in Int : Read(b, s, y, w, i)
    BY <1>1, ReadIs
<1> QED
    BY <1>1, <1>2, <1>3, Zenon DEF Two

LEMMA SignOf ==
    \A b \in Pattern : /\ ILt(b, 0) = (AsSigned(b) < 0)
                       /\ ILt(0, b) = (0 < AsSigned(b))
                       /\ IIsNegative(b) = (AsSigned(b) < 0)
<1> SUFFICES ASSUME NEW b \in Pattern
             PROVE  /\ ILt(b, 0) = (AsSigned(b) < 0) /\ ILt(0, b) = (0 < AsSigned(b))
                    /\ IIsNegative(b) = (AsSigned(b) < 0)
    OBVIOUS
<1>1. PICK y \in Int : y = AsSigned(b)
    BY SignedValue
<1>2. (ILt(b, 0) <=> y < 0) /\ (ILt(0, b) <=> 0 < y)
    BY <1>1, OrdersAreExact, ZeroPattern, Zenon
<1>3. ILt(b, 0) \in BOOLEAN /\ ILt(0, b) \in BOOLEAN
    BY Zenon DEF ILt
<1>4. (y < 0) \in BOOLEAN /\ (0 < y) \in BOOLEAN
    OBVIOUS
<1>5. IIsNegative(b) = (y < 0)
    <2>1. PICK h \in Int, l \in Word : h = Signed(High(b)) /\ l = Low(b) /\ y = h * M + l
        BY <1>1, SignedValue, PatternWords
    <2>2. y < 0 <=> h < 0
        BY <2>1, PairModulo, Zenon
    <2>3. PICK k \in Int : k = ISignum128(b) /\ (k < 0 <=> h < 0)
        <3>1. ISignum128(b) = IF h < 0 THEN -1 ELSE IF h > 0 \/ l # 0 THEN 1 ELSE 0
            BY <2>1, Zenon DEF ISignum128
        <3> QED
            BY <3>1
    <2>4. (k < 0) \in BOOLEAN /\ (k < 0 <=> y < 0)
        BY <2>2, <2>3
    <2>5. (k < 0) = (y < 0)
        BY <2>4
    <2> QED
        BY <2>3, <2>5, Zenon DEF IIsNegative
<1> QED
    BY <1>1, <1>2, <1>3, <1>4, <1>5, Zenon

LEMMA SignedSums ==
    \A a, b \in Pattern :
        LET v == AsSigned(a) + AsSigned(b)
            u == AsSigned(a) - AsSigned(b)
            t == AsSigned(a) * AsSigned(b)
        IN /\ IOverflowingAdd(a, b) = <<Encode(v), v \notin IRange>> /\ IWrappingAdd(a, b) = Encode(v)
           /\ IOverflowingSub(a, b) = <<Encode(u), u \notin IRange>> /\ IWrappingSub(a, b) = Encode(u)
           /\ IOverflowingMul(a, b) = <<Encode(t), t \notin IRange>> /\ IWrappingMul(a, b) = Encode(t)
<1> TAKE a, b \in Pattern
<1>1. IRange = (-IMIN)..(IMIN - 1)
    BY Zenon DEF IRange, IMIN
<1>2. PICK v, u, t : /\ v = AsSigned(a) + AsSigned(b) /\ u = AsSigned(a) - AsSigned(b)
                     /\ t = AsSigned(a) * AsSigned(b)
    OBVIOUS
<1>3. /\ IAddC(a, b) = <<Encode(v), v \notin IRange>> /\ ISubC(a, b) = <<Encode(u), u \notin IRange>>
      /\ IMulC(a, b) = <<Encode(t), t \notin IRange>>
    BY <1>1, <1>2, SignedSumsAreExact, SignedProductsAreExact, Zenon
<1>4. \A p, q, f, g : <<p, f>> = <<q, g>> => p = q
    OBVIOUS
<1>5. Add3(a, b) = Encode(v)
    BY <1>3, <1>4, Zenon DEF IAddC
<1>6. Sub3(a, b) = Encode(u)
    BY <1>3, <1>4, Zenon DEF ISubC
<1>7. Mul3(a, b) = Encode(t)
    BY <1>2, ProductsAreExact, Zenon
<1> QED
    BY <1>2, <1>3, <1>5, <1>6, <1>7, Zenon
       DEF IOverflowingAdd, IOverflowingSub, IOverflowingMul, IWrappingAdd, IWrappingSub, IWrappingMul

\* I256 + U256 and I256 - U256: the overflow of the signed sum and the top bit
\* of the second operand together tell whether the result leaves the range.
LEMMA MixedSums ==
    \A a, b \in Pattern :
        LET v == AsSigned(a) + b
            u == AsSigned(a) - b
        IN /\ IOverflowingAddUnsigned(a, b) = <<Encode(v), v \notin IRange>>
           /\ IWrappingAddUnsigned(a, b) = Encode(v)
           /\ IOverflowingSubUnsigned(a, b) = <<Encode(u), u \notin IRange>>
           /\ IWrappingSubUnsigned(a, b) = Encode(u)
<1> TAKE a, b \in Pattern
<1>1. PICK n \in Nat, s \in Nat, w \in Nat, i \in Nat, x \in Int, y \in Int : Two(a, b, n, x, s, y, w, i)
    BY TwoAre
<1>2. /\ w = N /\ i = IMIN /\ w = 2 * i /\ i >= 8 /\ x = AsSigned(a) /\ y = AsSigned(b) /\ s = b
      /\ -i <= x /\ x < i /\ -i <= y /\ y < i /\ (y < 0 => s = y + w) /\ (~(y < 0) => s = y) /\ s < w
    BY <1>1 DEF Two, Spans, Read
<1>3. PICK v \in Int, u \in Int, p \in Int, m \in Int : v = x + s /\ u = x - s /\ p = x + y /\ m = x - y
    OBVIOUS
<1>4. Encode(p) = Encode(v) /\ Encode(m) = Encode(u)
    <2>1. (p = v \/ p = v - w) /\ (m = u \/ m = u + w)
        BY <1>2, <1>3
    <2> QED
        BY <1>2, <2>1, SameCode, Zenon
<1>5. /\ p \in IRange <=> -i <= p /\ p < i
      /\ m \in IRange <=> -i <= m /\ m < i
      /\ v \in IRange <=> -i <= v /\ v < i
      /\ u \in IRange <=> -i <= u /\ u < i
    BY <1>2, InIRange
<1>6. /\ y < 0 => (p \in IRange <=> v \notin IRange) /\ (m \in IRange <=> u \notin IRange)
      /\ ~(y < 0) => p = v /\ m = u
    BY <1>2, <1>3, <1>5
<1>7. PICK g \in BOOLEAN : g = (y < 0) /\ g = ILt(b, 0)
    <2>1. (y < 0) \in BOOLEAN
        OBVIOUS
    <2> QED
        BY <1>2, <2>1, SignOf, Zenon
<1>8. ((p \notin IRange) # g) = (v \notin IRange) /\ ((m \notin IRange) # g) = (u \notin IRange)
    BY <1>6, <1>7, Zenon
<1>9. /\ IOverflowingAdd(a, AsI256(b)) = <<Encode(v), p \notin IRange>> /\ IWrappingAdd(a, AsI256(b)) = Encode(v)
      /\ IOverflowingSub(a, AsI256(b)) = <<Encode(u), m \notin IRange>> /\ IWrappingSub(a, AsI256(b)) = Encode(u)
    BY <1>2, <1>3, <1>4, SignedSums, Zenon DEF AsI256
<1>10. /\ IOverflowingAdd(a, AsI256(b))[1] = Encode(v) /\ IOverflowingAdd(a, AsI256(b))[2] = (p \notin IRange)
       /\ IOverflowingSub(a, AsI256(b))[1] = Encode(u) /\ IOverflowingSub(a, AsI256(b))[2] = (m \notin IRange)
    <2>1. \A q, f : <<q, f>>[1] = q /\ <<q, f>>[2] = f
        OBVIOUS
    <2>2. /\ <<Encode(v), p \notin IRange>>[1] = Encode(v) /\ <<Encode(v), p \notin IRange>>[2] = (p \notin IRange)
          /\ <<Encode(u), m \notin IRange>>[1] = Encode(u) /\ <<Encode(u), m \notin IRange>>[2] = (m \notin IRange)
        BY <2>1, Zenon
    <2> QED
        BY <1>9, <2>2, Zenon
<1>11. IOverflowingAddUnsigned(a, b) = <<Encode(v), (p \notin IRange) # g>>
    BY <1>7, <1>10, Zenon DEF IOverflowingAddUnsigned, AsI256
<1>12. IOverflowingSubUnsigned(a, b) = <<Encode(u), (m \notin IRange) # g>>
    BY <1>7, <1>10, Zenon DEF IOverflowingSubUnsigned, AsI256
<1> QED
    BY <1>2, <1>3, <1>8, <1>9, <1>11, <1>12, Zenon DEF IWrappingAddUnsigned, IWrappingSubUnsigned

LEMMA SignedSaturations ==
    \A a, b \in Pattern :
        /\ ISaturatingAdd(a, b) = IClamp(AsSigned(a) + AsSigned(b))
        /\ ISaturatingSub(a, b) = IClamp(AsSigned(a) - AsSigned(b))
        /\ ISaturatingMul(a, b) = IClamp(AsSigned(a) * AsSigned(b))
<1> TAKE a, b \in Pattern
<1>1. PICK n \in Nat, s \in Nat, w \in Nat, i \in Nat, x \in Int, y \in Int : Two(a, b, n, x, s, y, w, i)
    BY TwoAre
<1>2. /\ i = IMIN /\ i >= 8 /\ x = AsSigned(a) /\ y = AsSigned(b)
      /\ -i <= x /\ x < i /\ -i <= y /\ y < i
    BY <1>1 DEF Two, Spans, Read
<1>3. PICK v \in Int, u \in Int : v = x + y /\ u = x - y
    OBVIOUS
<1>4. PICK t \in Int, c \in Nat, d \in Nat, m \in Nat : t = x * y /\ SignedTimes(x, y, c, d, m)
    <2>1. x * y \in Int
        OBVIOUS
    <2> QED
        BY <2>1, SignedTimesIs
<1>5. (x < 0) = (y < 0) => ~(t < 0)
    <2>1. (x < 0) = (y < 0) => t = m
        BY <1>4 DEF SignedTimes
    <2> QED
        BY <2>1
<1>6. (x < 0) # (y < 0) => t <= 0
    <2>1. (x < 0) # (y < 0) => t = -m
        BY <1>4 DEF SignedTimes
    <2> QED
        BY <2>1
<1>7. /\ v \in IRange <=> -i <= v /\ v < i
      /\ u \in IRange <=> -i <= u /\ u < i
      /\ t \in IRange <=> -i <= t /\ t < i
    BY <1>2, InIRange
<1>8. v \notin IRange => (v < 0 <=> ~(0 < y))
    BY <1>2, <1>3, <1>7
<1>9. u \notin IRange => (u < 0 <=> 0 < y)
    BY <1>2, <1>3, <1>7
<1>10. t \notin IRange => (t < 0 <=> (x < 0) # (y < 0))
    <2>1. 0 \in IRange
        BY <1>2, InIRange
    <2>2. CASE (x < 0) = (y < 0)
        BY <1>5, <2>2
    <2>3. CASE (x < 0) # (y < 0)
        BY <1>6, <2>1, <2>3
    <2> QED
        BY <2>2, <2>3
<1>11. ILt(0, b) = (0 < y) /\ ILt(b, 0) = (y < 0) /\ ILt(a, 0) = (x < 0)
    BY <1>2, SignOf, Zenon
<1>12. ISaturatingAdd(a, b) = IClamp(v)
    <2>1. v \notin IRange => (IF ILt(0, b) THEN IMAX ELSE IMIN) = IF v < 0 THEN IMIN ELSE IMAX
        BY <1>8, <1>11, Zenon
    <2>2. IOverflowingAdd(a, b) = <<Encode(v), v \notin IRange>>
        BY <1>2, <1>3, SignedSums, Zenon
    <2> QED
        BY <2>1, <2>2, SignedClamp, Zenon DEF ISaturatingAdd, ICheckedAdd
<1>13. ISaturatingSub(a, b) = IClamp(u)
    <2>1. u \notin IRange => (IF ILt(0, b) THEN IMIN ELSE IMAX) = IF u < 0 THEN IMIN ELSE IMAX
        BY <1>9, <1>11, Zenon
    <2>2. IOverflowingSub(a, b) = <<Encode(u), u \notin IRange>>
        BY <1>2, <1>3, SignedSums, Zenon
    <2> QED
        BY <2>1, <2>2, SignedClamp, Zenon DEF ISaturatingSub, ICheckedSub
<1>14. ISaturatingMul(a, b) = IClamp(t)
    <2>1. t \notin IRange => (IF ILt(a, 0) = ILt(b, 0) THEN IMAX ELSE IMIN) = IF t < 0 THEN IMIN ELSE IMAX
        BY <1>10, <1>11, Zenon
    <2>2. IOverflowingMul(a, b) = <<Encode(t), t \notin IRange>>
        BY <1>2, <1>4, SignedSums, Zenon
    <2> QED
        BY <2>1, <2>2, SignedClamp, Zenon DEF ISaturatingMul, ICheckedMul
<1> QED
    BY <1>2, <1>3, <1>4, <1>12, <1>13, <1>14, Zenon

LEMMA MixedSaturations ==
    \A a, b \in Pattern :
        /\ ISaturatingAddUnsigned(a, b) = IClamp(AsSigned(a) + b)
        /\ ISaturatingSubUnsigned(a, b) = IClamp(AsSigned(a) - b)
<1> TAKE a, b \in Pattern
<1>1. PICK n \in Nat, s \in Nat, w \in Nat, i \in Nat, x \in Int, y \in Int : Two(a, b, n, x, s, y, w, i)
    BY TwoAre
<1>2. i = IMIN /\ i >= 8 /\ x = AsSigned(a) /\ s = b /\ -i <= x /\ x < i
    BY <1>1 DEF Two, Spans, Read
<1>3. PICK v \in Int, u \in Int : v = x + s /\ u = x - s
    OBVIOUS
<1>4. (v \in IRange <=> -i <= v /\ v < i) /\ (u \in IRange <=> -i <= u /\ u < i)
    BY <1>2, InIRange
<1>5. (v \notin IRange => ~(v < 0)) /\ (u \notin IRange => u < 0)
    BY <1>2, <1>3, <1>4
<1>6. /\ v \notin IRange => IMAX = IF v < 0 THEN IMIN ELSE IMAX
      /\ u \notin IRange => IMIN = IF u < 0 THEN IMIN ELSE IMAX
    BY <1>5, Zenon
<1>7. /\ IOverflowingAddUnsigned(a, b) = <<Encode(v), v \notin IRange>>
      /\ IOverflowingSubUnsigned(a, b) = <<Encode(u), u \notin IRange>>
    BY <1>2, <1>3, MixedSums, Zenon
<1>8. ISaturatingAddUnsigned(a, b) = IClamp(v)
    BY <1>6, <1>7, SignedClamp, Zenon DEF ISaturatingAddUnsigned, ICheckedAddUnsigned
<1>9. ISaturatingSubUnsigned(a, b) = IClamp(u)
    BY <1>6, <1>7, SignedClamp, Zenon DEF ISaturatingSubUnsigned, ICheckedSubUnsigned
<1> QED
    BY <1>2, <1>3, <1>8, <1>9, Zenon

\* Negation: of the I256 numbers only MIN has none.
LEMMA SignedNegation ==
    \A a \in Pattern :
        LET v == -AsSigned(a)
        IN /\ IOverflowingNeg(a) = <<Encode(v), v \notin IRange>>
           /\ IWrappingNeg(a) = Encode(v) /\ INeg(a) = Encode(v)
           /\ ISaturatingNeg(a) = IClamp(v)
<1> TAKE a \in Pattern
<1>1. PICK w \in Nat, i \in Nat : Spans(w, i)
    BY SpansAre
<1>2. PICK n \in Nat, x \in Int : Read(a, n, x, w, i)
    BY <1>1, ReadIs
<1>3. /\ w = N /\ i = IMIN /\ w = 2 * i /\ i >= 8 /\ n = a /\ x = AsSigned(a)
      /\ -i <= x /\ x < i /\ (x = n \/ x = n - w) /\ n < w
    BY <1>1, <1>2 DEF Spans, Read
<1>4. PICK v \in Int, m \in Int : v = -x /\ m = -n
    OBVIOUS
<1>5. Encode(m) = Encode(v)
    <2>1. m = v \/ m = v - w
        BY <1>3, <1>4
    <2> QED
        BY <1>3, <2>1, SameCode, Zenon
<1>6. INeg(a) = Encode(v)
    BY <1>3, <1>4, <1>5, NegatedIs, Zenon DEF INeg
<1>7. 0 - x = v
    BY <1>4
<1>8. 0 \in Pattern /\ AsSigned(0) = 0
    BY ZeroPattern
<1>9. IWrappingNeg(a) = Encode(v)
    <2>1. IWrappingSub(0, a) = Encode(0 - x)
        BY <1>3, <1>8, SignedSums, Zenon
    <2> QED
        BY <1>7, <2>1, Zenon DEF IWrappingNeg, ZERO
<1>10. ISaturatingNeg(a) = IClamp(v)
    <2>1. ISaturatingSub(0, a) = IClamp(0 - x)
        BY <1>3, <1>8, SignedSaturations, Zenon
    <2> QED
        BY <1>7, <2>1, Zenon DEF ISaturatingNeg, ZERO
<1>11. v \in IRange <=> -i <= v /\ v < i
    BY <1>3, InIRange
<1>12. CASE a = IMIN
    <2>1. v = i /\ v \notin IRange
        BY <1>3, <1>4, <1>11, <1>12
    <2>2. Encode(v) = IMIN
        BY <1>3, <2>1, SmallSigned, EncodeIs, Zenon
    <2>3. IOverflowingNeg(a) = <<IMIN, TRUE>>
        BY <1>12, Zenon DEF IOverflowingNeg
    <2>4. (v \notin IRange) = TRUE
        BY <2>1, Zenon
    <2> QED
        BY <1>3, <1>4, <1>6, <1>9, <1>10, <2>2, <2>3, <2>4, Zenon
<1>13. CASE a # IMIN
    <2>1. v \in IRange
        BY <1>3, <1>4, <1>11, <1>13
    <2>2. IOverflowingNeg(a) = <<Encode(v), FALSE>>
        BY <1>6, <1>13, Zenon DEF IOverflowingNeg
    <2>3. (v \notin IRange) = FALSE
        BY <2>1, Zenon
    <2> QED
        BY <1>3, <1>4, <1>6, <1>9, <1>10, <2>2, <2>3, Zenon
<1> QED
    BY <1>12, <1>13

LEMMA SignedMagnitude ==
    \A a \in Pattern :
        LET v == AbsOf(AsSigned(a))
        IN /\ IOverflowingAbs(a) = <<Encode(v), v \notin IRange>>
           /\ ICheckedAbs(a) = Checked(IOverflowingAbs(a))
           /\ IWrappingAbs(a) = Encode(v) /\ IAbs(a) = Encode(v) /\ IUnsignedAbs(a) = v
           /\ ISaturatingAbs(a) = IClamp(v)
<1> TAKE a \in Pattern
<1>1. PICK x \in Int, m \in Nat, i \in Nat : SignedParts(a, x, m, i)
    BY SignedPartsAre
<1>2. /\ x = AsSigned(a) /\ m = AbsOf(x) /\ i = IMIN /\ i >= 8
      /\ -i <= x /\ x < i /\ m <= i /\ m = (IF x < 0 THEN -x ELSE x)
      /\ (a = IMIN <=> x = -i) /\ m \in Pattern
    BY <1>1 DEF SignedParts
<1>3. IIsNegative(a) = (x < 0)
    BY <1>2, SignOf, Zenon
<1>4. Encode(m) = m
    BY <1>2, EncodeNat, Zenon
<1>5. (m \in IRange <=> m < i) /\ m \in Int
    BY <1>2, InIRange
<1>6. (a = IMIN) = (m \notin IRange)
    <2>1. a = IMIN <=> m \notin IRange
        BY <1>2, <1>5
    <2> QED
        BY <2>1, Zenon
<1>7. CASE x < 0
    <2>1. m = -x /\ IIsNegative(a)
        BY <1>2, <1>3, <1>7
    <2>2. /\ IOverflowingNeg(a) = <<Encode(m), m \notin IRange>>
          /\ IWrappingNeg(a) = Encode(m) /\ INeg(a) = Encode(m) /\ ISaturatingNeg(a) = IClamp(m)
        BY <1>2, <2>1, SignedNegation, Zenon
    <2>3. IWrappingAbs(a) = Encode(m) /\ IAbs(a) = Encode(m) /\ ISaturatingAbs(a) = IClamp(m)
        BY <2>1, <2>2, Zenon DEF IWrappingAbs, IAbs, ISaturatingAbs
    <2>4. IOverflowingAbs(a) = <<Encode(m), m \notin IRange>>
        BY <1>6, <2>3, Zenon DEF IOverflowingAbs
    <2>5. ICheckedAbs(a) = Checked(IOverflowingAbs(a))
        BY <2>1, <2>2, <2>4, Zenon DEF ICheckedAbs, ICheckedNeg
    <2>6. IUnsignedAbs(a) = m
        BY <1>4, <2>3, Zenon DEF IUnsignedAbs, AsU256
    <2> QED
        BY <1>2, <2>3, <2>4, <2>5, <2>6, Zenon
<1>8. CASE ~(x < 0)
    <2>1. m = x /\ ~IIsNegative(a) /\ m < i
        BY <1>2, <1>3, <1>8
    <2>2. a = Encode(m)
        BY <1>2, <2>1, EncodeIs, Zenon
    <2>3. IClamp(m) = Encode(m) /\ (m \notin IRange) = FALSE
        BY <1>5, <2>1, InsideIRange, Zenon
    <2>4. IWrappingAbs(a) = Encode(m) /\ IAbs(a) = Encode(m) /\ ISaturatingAbs(a) = IClamp(m)
        BY <2>1, <2>2, <2>3, Zenon DEF IWrappingAbs, IAbs, ISaturatingAbs
    <2>5. IOverflowingAbs(a) = <<Encode(m), m \notin IRange>>
        BY <1>6, <2>4, Zenon DEF IOverflowingAbs
    <2>6. ICheckedAbs(a) = Checked(IOverflowingAbs(a))
        <3>1. ICheckedAbs(a) = {Encode(m)}
            BY <2>1, <2>2, Zenon DEF ICheckedAbs
        <3>2. IOverflowingAbs(a) = <<Encode(m), FALSE>>
            BY <2>3, <2>5, Zenon
        <3>3. FALSE \in BOOLEAN
            OBVIOUS
        <3>4. Checked(IOverflowingAbs(a)) = {Encode(m)}
            BY <3>2, <3>3, CheckedIs
        <3> QED
            BY <3>1, <3>4
    <2>7. IUnsignedAbs(a) = m
        BY <1>4, <2>4, Zenon DEF IUnsignedAbs, AsU256
    <2> QED
        BY <1>2, <2>4, <2>5, <2>6, <2>7, Zenon
<1> QED
    BY <1>7, <1>8

LEMMA SignedDistance ==
    \A a, b \in Pattern : IAbsDiff(a, b) = AbsOf(AsSigned(a) - AsSigned(b))
<1> TAKE a, b \in Pattern
<1>1. PICK n \in Nat, s \in Nat, w \in Nat, i \in Nat, x \in Int, y \in Int : Two(a, b, n, x, s, y, w, i)
    BY TwoAre
<1>2. /\ w = N /\ w = 2 * i /\ x = AsSigned(a) /\ y = AsSigned(b)
      /\ -i <= x /\ x < i /\ -i <= y /\ y < i
    BY <1>1 DEF Two, Spans, Read
<1>3. PICK u \in Int, v \in Int : u = x - y /\ v = y - x
    OBVIOUS
<1>4. Sub3(a, b) = u % N /\ Sub3(b, a) = v % N
    BY <1>2, <1>3, SignedSums, Zenon DEF IWrappingSub, Encode
<1>5. ILt(a, b) <=> x < y
    BY <1>2, OrdersAreExact, Zenon
<1>6. CASE x < y
    <2>1. v \in Nat /\ v < w /\ AbsOf(u) = v
        BY <1>2, <1>3, <1>6 DEF AbsOf
    <2>2. v % N = v
        BY <1>2, <2>1, Below, Bases, Zenon
    <2> QED
        BY <1>2, <1>3, <1>4, <1>5, <1>6, <2>1, <2>2, Zenon DEF IAbsDiff, AsU256
<1>7. CASE ~(x < y)
    <2>1. u \in Nat /\ u < w /\ AbsOf(u) = u
        BY <1>2, <1>3, <1>7 DEF AbsOf
    <2>2. u % N = u
        BY <1>2, <2>1, Below, Bases, Zenon
    <2> QED
        BY <1>2, <1>3, <1>4, <1>5, <1>7, <2>1, <2>2, Zenon DEF IAbsDiff, AsU256
<1> QED
    BY <1>6, <1>7

LEMMA SignedExact == Registers => IArithmetic
<1> SUFFICES ASSUME Registers PROVE IArithmetic
    OBVIOUS
<1>1. lhs \in Pattern /\ rhs \in Pattern
    BY DEF Registers
<1>2. PICK v1 \in Int, v2 \in Int, v3 \in Int, v4 \in Int, v5 \in Int, v6 \in Int, v7 \in Int :
            /\ v1 = slhs + srhs /\ v2 = slhs + rhs /\ v3 = slhs - srhs /\ v4 = slhs - rhs
            /\ v5 = slhs * srhs /\ v6 = -slhs /\ v7 = AbsOf(slhs)
    <2>1. PICK x \in Int, y \in Int, s \in Int : x = slhs /\ y = srhs /\ s = rhs
        BY <1>1, PatternIs, SignedValue DEF slhs, srhs
    <2>2. AbsOf(x) \in Int /\ x * y \in Int
        BY DEF AbsOf
    <2> QED
        BY <2>1, <2>2
<1>3. IResult(v1, IOverflowingAdd(lhs, rhs), ICheckedAdd(lhs, rhs), IWrappingAdd(lhs, rhs))
    BY <1>1, <1>2, SignedSums, SignedForms, Zenon DEF ICheckedAdd, slhs, srhs
<1>4. IResult(v2, IOverflowingAddUnsigned(lhs, rhs), ICheckedAddUnsigned(lhs, rhs), IWrappingAddUnsigned(lhs, rhs))
    BY <1>1, <1>2, MixedSums, SignedForms, Zenon DEF ICheckedAddUnsigned, slhs
<1>5. IResult(v3, IOverflowingSub(lhs, rhs), ICheckedSub(lhs, rhs), IWrappingSub(lhs, rhs))
    BY <1>1, <1>2, SignedSums, SignedForms, Zenon DEF ICheckedSub, slhs, srhs
<1>6. IResult(v4, IOverflowingSubUnsigned(lhs, rhs), ICheckedSubUnsigned(lhs, rhs), IWrappingSubUnsigned(lhs, rhs))
    BY <1>1, <1>2, MixedSums, SignedForms, Zenon DEF ICheckedSubUnsigned, slhs
<1>7. IResult(v5, IOverflowingMul(lhs, rhs), ICheckedMul(lhs, rhs), IWrappingMul(lhs, rhs))
    BY <1>1, <1>2, SignedSums, SignedForms, Zenon DEF ICheckedMul, slhs, srhs
<1>8. IResult(v6, IOverflowingNeg(lhs), ICheckedNeg(lhs), IWrappingNeg(lhs))
    BY <1>1, <1>2, SignedNegation, SignedForms, Zenon DEF ICheckedNeg, slhs
<1>9. IResult(v7, IOverflowingAbs(lhs), ICheckedAbs(lhs), IWrappingAbs(lhs))
    BY <1>1, <1>2, SignedMagnitude, SignedForms, Zenon DEF slhs
<1>10. /\ ISaturatingAdd(lhs, rhs) = IClamp(slhs + srhs) /\ ISaturatingAddUnsigned(lhs, rhs) = IClamp(slhs + rhs)
       /\ ISaturatingSub(lhs, rhs) = IClamp(slhs - srhs) /\ ISaturatingSubUnsigned(lhs, rhs) = IClamp(slhs - rhs)
       /\ ISaturatingMul(lhs, rhs) = IClamp(slhs * srhs)
    BY <1>1, SignedSaturations, MixedSaturations, Zenon DEF slhs, srhs
<1>11. /\ ISaturatingNeg(lhs) = IClamp(-slhs) /\ ISaturatingAbs(lhs) = IClamp(AbsOf(slhs))
       /\ IUnsignedAbs(lhs) = AbsOf(slhs) /\ IAbs(lhs) = Encode(AbsOf(slhs))
    BY <1>1, SignedNegation, SignedMagnitude, Zenon DEF slhs
<1>12. IAbsDiff(lhs, rhs) = AbsOf(slhs - srhs)
    BY <1>1, SignedDistance, Zenon DEF slhs, srhs
<1> QED
    BY <1>2, <1>3, <1>4, <1>5, <1>6, <1>7, <1>8, <1>9, <1>10, <1>11, <1>12, Zenon DEF IArithmetic

-----------------------------------------------------------------------------
(* Powers *)

\* f[n] is the n-th power of v.
Powers(f, v, m) == f \in [0..m -> Int] /\ f[0] = 1 /\ \A n \in 1..m : f[n] = f[n - 1] * v

LEMMA PowersExist == \A v \in Int, m \in Nat : \E f : Powers(f, v, m)
<1> TAKE v \in Int, m \in Nat
<1> DEFINE step == [t \in Int |-> t * v]
<1>1. step \in [Int -> Int]
    OBVIOUS
<1>2. \A t \in Int : step[t] = t * v
    OBVIOUS
<1> HIDE DEF step
<1>3. PICK f \in [0..m -> Int] : Iterates(f, m, 1, step)
    <2>1. 1 \in Int
        OBVIOUS
    <2> QED
        BY <1>1, <2>1, Iterate, Zenon
<1>4. ASSUME NEW n \in 1..m PROVE f[n] = f[n - 1] * v
    <2>1. n - 1 \in 0..m
        OBVIOUS
    <2>2. f[n] = step[f[n - 1]] /\ f[n - 1] \in Int
        BY <1>3, <2>1 DEF Iterates
    <2> QED
        BY <1>2, <2>2
<1>5. f[0] = 1
    BY <1>3 DEF Iterates
<1>6. Powers(f, v, m)
    BY <1>4, <1>5 DEF Powers
<1> QED
    BY <1>6

LEMMA PowersStep ==
    \A f, v : \A m, n \in Nat :
        Powers(f, v, m) /\ n + 1 <= m => f[n] \in Int /\ f[n + 1] \in Int /\ f[n + 1] = f[n] * v
<1> SUFFICES ASSUME NEW f, NEW v, NEW m \in Nat, NEW n \in Nat, Powers(f, v, m), n + 1 <= m
             PROVE  f[n] \in Int /\ f[n + 1] \in Int /\ f[n + 1] = f[n] * v
    OBVIOUS
<1>1. n \in 0..m /\ n + 1 \in 1..m /\ n + 1 \in 0..m /\ (n + 1) - 1 = n
    OBVIOUS
<1> QED
    BY <1>1 DEF Powers

LEMMA ModuloProduct ==
    \A a, b \in Int : (a * b) % N = ((a % N) * (b % N)) % N
<1> SUFFICES ASSUME NEW a \in Int, NEW b \in Int PROVE (a * b) % N = ((a % N) * (b % N)) % N
    OBVIOUS
<1>1. PICK w \in Nat \ {0} : w = N
    BY Bases
<1>2. PICK p \in Int, r \in Nat : p = a \div w /\ r = a % w /\ a = w * p + r /\ r < w
    BY DivideBy
<1>3. PICK q \in Int, s \in Nat : q = b \div w /\ s = b % w /\ b = w * q + s /\ s < w
    BY DivideBy
<1>4. PICK k \in Int : k = p * (w * q + s) + r * q
    OBVIOUS
<1>5. (w * p + r) * (w * q + s) = w * (p * (w * q + s) + r * q) + r * s
    OBVIOUS
<1>6. PICK c \in Int, d \in Int : c = a * b /\ d = r * s
    OBVIOUS
<1>7. c = w * k + d
    BY <1>2, <1>3, <1>4, <1>5, <1>6, Zenon
<1>8. PICK j \in Int, t \in Nat : t = d % w /\ d = w * j + t /\ t < w
    BY DivideBy
<1>9. w * k + w * j = w * (k + j)
    OBVIOUS
<1>10. PICK l \in Int : l = k + j
    OBVIOUS
<1>11. c = w * l + t
    <2>1. PICK x \in Int, y \in Int, z \in Int : x = w * k /\ y = w * j /\ z = w * l /\ x + y = z
        BY <1>9, <1>10
    <2>2. c = x + d /\ d = y + t
        BY <1>7, <1>8, <2>1, Zenon
    <2>3. c = z + t
        BY <2>1, <2>2
    <2> QED
        BY <2>1, <2>3, Zenon
<1>12. c % w = t
    <2>1. t \in Int /\ 0 <= t /\ t < w
        BY <1>8
    <2> QED
        BY <1>11, <2>1, DivideUnique, Zenon
<1> QED
    BY <1>1, <1>2, <1>3, <1>6, <1>8, <1>12, Zenon

LEMMA SameProduct ==
    \A a, b, c, d \in Int : a % N = c % N /\ b % N = d % N => (a * b) % N = (c * d) % N
<1> SUFFICES ASSUME NEW a \in Int, NEW b \in Int, NEW c \in Int, NEW d \in Int, a % N = c % N, b % N = d % N
             PROVE  (a * b) % N = (c * d) % N
    OBVIOUS
<1>1. (a * b) % N = ((a % N) * (b % N)) % N
    BY ModuloProduct, Zenon
<1>2. (c * d) % N = ((c % N) * (d % N)) % N
    BY ModuloProduct, Zenon
<1> QED
    BY <1>1, <1>2, Zenon

LEMMA SameFactor == \A a, b, d \in Int : b % N = d % N => (a * b) % N = (a * d) % N
<1> TAKE a \in Int, b \in Int, d \in Int
<1>1. (a * b) % N = ((a % N) * (b % N)) % N
    BY ModuloProduct, Zenon
<1>2. (a * d) % N = ((a % N) * (d % N)) % N
    BY ModuloProduct, Zenon
<1> QED
    BY <1>1, <1>2, Zenon

LEMMA OwnModulo == \A a \in Int : a % N \in Pattern /\ (a % N) % N = a % N
<1> SUFFICES ASSUME NEW a \in Int PROVE a % N \in Pattern /\ (a % N) % N = a % N
    OBVIOUS
<1>1. PICK w \in Nat \ {0} : w = N
    BY Bases
<1>2. PICK r \in Nat : r = a % w /\ r < w
    BY DivideBy
<1>3. r % w = r
    BY <1>2, Below
<1>4. r \in Pattern
    BY <1>1, <1>2, PatternIs
<1> QED
    BY <1>1, <1>2, <1>3, <1>4, Zenon

\* Powers of what is the same modulo N are the same modulo N.
LEMMA SamePowers ==
    \A u, v \in Int, m \in Nat : \A f, h :
        Powers(f, u, m) /\ Powers(h, v, m) /\ u % N = v % N
        => \A n \in 0..m : f[n] % N = h[n] % N
<1> SUFFICES ASSUME NEW u \in Int, NEW v \in Int, NEW m \in Nat, NEW f, NEW h,
                    Powers(f, u, m), Powers(h, v, m), u % N = v % N
             PROVE  \A n \in 0..m : f[n] % N = h[n] % N
    OBVIOUS
<1> DEFINE G == {n \in Nat : n <= m => f[n] % N = h[n] % N}
<1>1. 0 \in G
    <2>1. f[0] = h[0]
        BY DEF Powers
    <2> QED
        BY <2>1
<1>2. ASSUME NEW n \in Nat, n \in G PROVE n + 1 \in G
    <2> SUFFICES ASSUME n + 1 <= m PROVE f[n + 1] % N = h[n + 1] % N
        OBVIOUS
    <2>1. /\ f[n] \in Int /\ f[n + 1] = f[n] * u
          /\ h[n] \in Int /\ h[n + 1] = h[n] * v
        BY PowersStep
    <2>2. f[n] % N = h[n] % N
        BY <1>2
    <2>3. (f[n] * u) % N = (h[n] * v) % N
        <3>1. PICK a \in Int, c \in Int : a = f[n] /\ c = h[n]
            BY <2>1
        <3>2. a % N = c % N /\ u % N = v % N
            BY <2>2, <3>1, Zenon
        <3>3. (a * u) % N = (c * v) % N
            BY <3>2, SameProduct, ZenonT(60)
        <3> QED
            BY <3>1, <3>3, Zenon
    <2> QED
        BY <2>1, <2>3, Zenon
<1>3. Nat \subseteq G
    BY <1>1, <1>2, NatClosure
<1> QED
    BY <1>3

\* The powers of a square are every other power.
LEMMA SquaredPowers ==
    \A v, s \in Int, m, j \in Nat : \A f, h :
        Powers(f, v, m) /\ Powers(h, s, j) /\ s = v * v /\ 2 * j <= m => \A k \in 0..j : h[k] = f[2 * k]
<1> SUFFICES ASSUME NEW v \in Int, NEW s \in Int, NEW m \in Nat, NEW j \in Nat, NEW f, NEW h,
                    Powers(f, v, m), Powers(h, s, j), s = v * v, 2 * j <= m
             PROVE  \A k \in 0..j : h[k] = f[2 * k]
    OBVIOUS
<1> DEFINE G == {k \in Nat : k <= j => h[k] = f[2 * k]}
<1>1. 0 \in G
    <2>1. 2 * 0 = 0 /\ h[0] = f[0]
        BY DEF Powers
    <2> QED
        BY <2>1
<1>2. ASSUME NEW k \in Nat, k \in G PROVE k + 1 \in G
    <2> SUFFICES ASSUME k + 1 <= j PROVE h[k + 1] = f[2 * (k + 1)]
        OBVIOUS
    <2>1. h[k] \in Int /\ h[k + 1] = h[k] * (v * v)
        <3>1. h[k] \in Int /\ h[k + 1] = h[k] * s
            BY PowersStep, Zenon
        <3> QED
            BY <3>1, Zenon
    <2>2. PICK n \in Nat : n = 2 * k /\ n + 1 + 1 = 2 * (k + 1) /\ n + 1 + 1 <= m
        OBVIOUS
    <2>3. f[n] \in Int /\ f[n + 1] = f[n] * v
        BY <2>2, PowersStep
    <2>4. f[n + 1 + 1] = f[n + 1] * v
        <3>1. n + 1 \in Nat
            OBVIOUS
        <3> QED
            BY <2>2, <3>1, PowersStep
    <2>5. h[k] = f[n]
        BY <1>2, <2>2
    <2>6. \A t \in Int : t * (v * v) = (t * v) * v
        OBVIOUS
    <2> QED
        BY <2>1, <2>2, <2>3, <2>4, <2>5, <2>6, Zenon
<1>3. Nat \subseteq G
    BY <1>1, <1>2, NatClosure
<1> QED
    BY <1>3

\* The signs of powers.
LEMMA PowerSigns ==
    \A v \in Int, m \in Nat : \A f :
        Powers(f, v, m) => \A n \in 0..m : /\ f[n] < 0 => v < 0 /\ n % 2 = 1
                                           /\ v < 0 /\ n % 2 = 1 => f[n] < 0
<1> SUFFICES ASSUME NEW v \in Int, NEW m \in Nat, NEW f, Powers(f, v, m)
             PROVE  \A n \in 0..m : /\ f[n] < 0 => v < 0 /\ n % 2 = 1
                                    /\ v < 0 /\ n % 2 = 1 => f[n] < 0
    OBVIOUS
<1> DEFINE Sign(n) == /\ ~(v < 0) => ~(f[n] < 0)
                      /\ v < 0 /\ n % 2 = 0 => f[n] > 0
                      /\ v < 0 /\ n % 2 # 0 => f[n] < 0
           G == {n \in Nat : n <= m => Sign(n)}
<1>1. 0 \in G
    <2>1. f[0] = 1 /\ 0 % 2 = 0
        BY DEF Powers
    <2> QED
        BY <2>1
<1>2. ASSUME NEW n \in Nat, n \in G PROVE n + 1 \in G
    <2> SUFFICES ASSUME n + 1 <= m PROVE Sign(n + 1)
        OBVIOUS
    <2>1. PICK t \in Int, w \in Int : t = f[n] /\ w = f[n + 1] /\ w = t * v
        BY PowersStep
    <2>2. Sign(n)
        BY <1>2
    <2>3. (n + 1) % 2 = 0 <=> n % 2 # 0
        OBVIOUS
    <2>4. /\ t > 0 /\ v < 0 => w < 0
          /\ t < 0 /\ v < 0 => w > 0
          /\ ~(t < 0) /\ ~(v < 0) => ~(w < 0)
        <3>1. PICK c \in Nat, d \in Nat, p \in Nat : SignedTimes(t, v, c, d, p)
            BY SignedTimesIs
        <3>2. /\ c = (IF t < 0 THEN -t ELSE t) /\ d = (IF v < 0 THEN -v ELSE v) /\ p = c * d
              /\ t * v = IF (t < 0) = (v < 0) THEN p ELSE -p
            BY <3>1 DEF SignedTimes
        <3>3. c >= 1 /\ d >= 1 => p >= 1
            <4>1. 1 <= d => c * 1 <= c * d
                BY TimesUp
            <4>2. c * 1 = c
                OBVIOUS
            <4>3. PICK y \in Int : y = c * d
                OBVIOUS
            <4> QED
                BY <3>2, <4>1, <4>2, <4>3
        <3>4. /\ t > 0 /\ v < 0 => w = -p
              /\ t < 0 /\ v < 0 => w = p
              /\ ~(t < 0) /\ ~(v < 0) => w = p
            BY <2>1, <3>2
        <3>5. (t > 0 => c >= 1) /\ (t < 0 => c >= 1) /\ (v < 0 => d >= 1)
            BY <3>2
        <3> QED
            BY <3>3, <3>4, <3>5
    <2>5. CASE v < 0
        BY <2>1, <2>2, <2>3, <2>4, <2>5
    <2>6. CASE ~(v < 0)
        BY <2>1, <2>2, <2>4, <2>6
    <2> QED
        BY <2>5, <2>6
<1>3. Nat \subseteq G
    BY <1>1, <1>2, NatClosure
<1>4. ASSUME NEW n \in 0..m PROVE (f[n] < 0 => v < 0 /\ n % 2 = 1) /\ (v < 0 /\ n % 2 = 1 => f[n] < 0)
    <2>1. Sign(n) /\ f[n] \in Int
        BY <1>3 DEF Powers
    <2>2. n % 2 = 0 \/ n % 2 = 1
        OBVIOUS
    <2> QED
        BY <2>1, <2>2
<1> QED
    BY <1>4

LEMMA AbsIs == \A v \in Int : AbsOf(v) \in Nat /\ (AbsOf(v) = v \/ AbsOf(v) = -v) /\ AbsOf(v) >= v /\ AbsOf(v) >= -v
BY DEF AbsOf

LEMMA AbsTimes ==
    \A a, b \in Int : /\ AbsOf(a * b) = AbsOf(a) * AbsOf(b)
                      /\ AbsOf(a) >= 2 => AbsOf(a * b) >= 2 * AbsOf(b) /\ AbsOf(b * a) >= 2 * AbsOf(b)
<1> SUFFICES ASSUME NEW a \in Int, NEW b \in Int
             PROVE  /\ AbsOf(a * b) = AbsOf(a) * AbsOf(b)
                    /\ AbsOf(a) >= 2 => AbsOf(a * b) >= 2 * AbsOf(b) /\ AbsOf(b * a) >= 2 * AbsOf(b)
    OBVIOUS
<1>1. PICK m \in Nat, n \in Nat, w \in Nat : SignedTimes(a, b, m, n, w)
    BY SignedTimesIs
<1>2. m = AbsOf(a) /\ n = AbsOf(b) /\ w = m * n /\ a * b = IF (a < 0) = (b < 0) THEN w ELSE -w
    BY <1>1 DEF SignedTimes
<1>3. PICK z \in Int : z = a * b /\ z = b * a
    OBVIOUS
<1>4. z = w \/ z = -w
    BY <1>2, <1>3
<1>5. AbsOf(z) = w
    BY <1>4 DEF AbsOf
<1>6. m >= 2 => w >= 2 * n
    <2>1. 2 <= m => n * 2 <= n * m
        BY TimesUp
    <2>2. n * 2 = 2 * n /\ n * m = m * n
        OBVIOUS
    <2>3. PICK y \in Int : y = m * n
        OBVIOUS
    <2> QED
        BY <1>2, <2>1, <2>2, <2>3
<1> QED
    BY <1>2, <1>3, <1>5, <1>6, Zenon

\* In what the numbers of a type are, up to their magnitude.
LEMMA OutOfSpan ==
    \A v \in Int, L \in Nat : /\ v \in (-L)..(L - 1) => AbsOf(v) <= L
                              /\ v \notin (-L)..(L - 1) => AbsOf(v) >= L
                              /\ AbsOf(v) > L => v \notin (-L)..(L - 1)
                              /\ AbsOf(v) < L => v \in (-L)..(L - 1)
BY DEF AbsOf

\* Each further factor of magnitude 2 or more at least doubles a product.
LEMMA PowersGrow ==
    \A v, c \in Int, m, j \in Nat : \A h :
        Powers(h, v, m) /\ AbsOf(v) >= 2 /\ j <= m
        => \A n \in 0..m : /\ n >= j => AbsOf(c * h[n]) >= AbsOf(c * h[j])
                           /\ n > j => AbsOf(c * h[n]) >= 2 * AbsOf(c * h[j])
<1> SUFFICES ASSUME NEW v \in Int, NEW c \in Int, NEW m \in Nat, NEW j \in Nat, NEW h,
                    Powers(h, v, m), AbsOf(v) >= 2, j <= m
             PROVE  \A n \in 0..m : /\ n >= j => AbsOf(c * h[n]) >= AbsOf(c * h[j])
                                    /\ n > j => AbsOf(c * h[n]) >= 2 * AbsOf(c * h[j])
    OBVIOUS
<1>1. j \in 0..m /\ h[j] \in Int
    BY DEF Powers
<1>2. PICK b \in Nat : b = AbsOf(c * h[j])
    <2>1. c * h[j] \in Int
        BY <1>1
    <2> QED
        BY <2>1, AbsIs
<1> DEFINE G == {n \in Nat : n <= m => /\ n >= j => AbsOf(c * h[n]) >= b
                                       /\ n > j => AbsOf(c * h[n]) >= 2 * b}
<1>3. 0 \in G
    <2>1. 0 >= j => 0 = j
        OBVIOUS
    <2>2. 0 >= j => AbsOf(c * h[0]) >= b
        <3> SUFFICES ASSUME 0 >= j PROVE AbsOf(c * h[0]) >= b
            OBVIOUS
        <3>1. AbsOf(c * h[0]) = b
            BY <1>2, <2>1, Zenon
        <3> QED
            BY <3>1
    <2> QED
        BY <2>2
<1>4. ASSUME NEW n \in Nat, n \in G PROVE n + 1 \in G
    <2> SUFFICES ASSUME n + 1 <= m
                 PROVE  /\ n + 1 >= j => AbsOf(c * h[n + 1]) >= b
                        /\ n + 1 > j => AbsOf(c * h[n + 1]) >= 2 * b
        OBVIOUS
    <2>1. PICK s \in Int, t \in Int : s = h[n] /\ t = h[n + 1] /\ t = s * v
        BY PowersStep
    <2>2. PICK x \in Int, y \in Int : x = c * s /\ y = c * t
        OBVIOUS
    <2>3. y = x * v
        <3>1. c * (s * v) = (c * s) * v
            OBVIOUS
        <3> QED
            BY <2>1, <2>2, <3>1, Zenon
    <2>4. AbsOf(y) >= 2 * AbsOf(x) /\ AbsOf(x) \in Nat /\ AbsOf(y) \in Nat
        <3>1. AbsOf(x * v) >= 2 * AbsOf(x)
            BY AbsTimes
        <3> QED
            BY <2>3, <3>1, AbsIs
    <2>5. n >= j => AbsOf(x) >= b
        BY <1>4, <2>1, <2>2
    <2>6. n + 1 > j => AbsOf(y) >= 2 * b
        BY <2>4, <2>5
    <2>7. CASE n + 1 = j
        <3>1. AbsOf(y) = b
            BY <1>2, <2>1, <2>2, <2>7, Zenon
        <3> QED
            BY <2>1, <2>2, <2>6, <3>1
    <2>8. CASE n + 1 # j
        BY <2>1, <2>2, <2>4, <2>6, <2>8
    <2> QED
        BY <2>7, <2>8
<1>5. Nat \subseteq G
    BY <1>3, <1>4, NatClosure
<1> QED
    BY <1>2, <1>5

\* What the loop that raises to a power keeps to: the accumulator c and the
\* base x are both trivial or both at least 2 in magnitude, except that c
\* starts at one.
Tame(x, c) == \/ c = 1
              \/ AbsOf(x) <= 1 /\ AbsOf(c) <= 1
              \/ AbsOf(x) >= 2 /\ AbsOf(c) >= 2

\* When a square or a product of the loop overflows while the exponent is still
\* 2 or more, the power itself is out of range: nothing overflows needlessly.
LEMMA OverflowIsFinal ==
    \A x, c \in Int, l, m, e \in Nat : \A h :
        /\ Powers(h, x, m) /\ 2 <= e /\ e <= m /\ l >= 2 /\ Tame(x, c)
        /\ x \in (-l)..(l - 1)
        /\ x * x \notin (-l)..(l - 1) \/ c * x \notin (-l)..(l - 1)
        => c * h[e] \notin (-l)..(l - 1)
<1> SUFFICES ASSUME NEW x \in Int, NEW c \in Int, NEW l \in Nat, NEW m \in Nat, NEW e \in Nat, NEW h,
                    Powers(h, x, m), 2 <= e, e <= m, l >= 2, Tame(x, c), x \in (-l)..(l - 1),
                    x * x \notin (-l)..(l - 1) \/ c * x \notin (-l)..(l - 1)
             PROVE  c * h[e] \notin (-l)..(l - 1)
    OBVIOUS
<1>1. PICK s \in Int, p \in Int : s = x * x /\ p = c * x
    OBVIOUS
<1>2. PICK a \in Nat, b \in Nat : a = AbsOf(x) /\ b = AbsOf(c)
    BY AbsIs
<1>3. h[1] = x /\ h[2] = s
    <2>1. h[0] = 1
        BY DEF Powers
    <2>2. 0 \in Nat /\ 0 + 1 = 1 /\ 0 + 1 <= m /\ 1 \in Nat /\ 1 + 1 = 2 /\ 1 + 1 <= m
        OBVIOUS
    <2>3. h[1] = h[0] * x
        BY <2>2, PowersStep
    <2>4. h[2] = h[1] * x
        BY <2>2, PowersStep
    <2>5. 1 * x = x
        OBVIOUS
    <2> QED
        BY <1>1, <2>1, <2>3, <2>4, <2>5, Zenon
<1>4. h[e] \in Int
    BY DEF Powers
<1>5. PICK z \in Int : z = c * h[e]
    BY <1>4
<1>6. a >= 2
    <2> SUFFICES ASSUME a <= 1 PROVE FALSE
        BY <1>2
    <2>1. AbsOf(s) = a * a /\ AbsOf(p) = b * a
        BY <1>1, <1>2, AbsTimes, Zenon
    <2>2. a = 0 \/ a = 1
        OBVIOUS
    <2>3. AbsOf(s) < l
        BY <2>1, <2>2
    <2>4. s \in (-l)..(l - 1)
        BY <2>3, OutOfSpan
    <2>5. CASE c = 1
        <3>1. p = x
            BY <1>1, <2>5
        <3> QED
            BY <1>1, <2>4, <3>1
    <2>6. CASE c # 1
        <3>1. b <= 1
            BY <1>2, <2>6 DEF Tame
        <3>2. b = 0 \/ b = 1
            BY <3>1
        <3>3. AbsOf(p) < l
            BY <2>1, <2>2, <3>2
        <3>4. p \in (-l)..(l - 1)
            BY <3>3, OutOfSpan
        <3> QED
            BY <1>1, <2>4, <3>4
    <2> QED
        BY <2>5, <2>6
<1>7. CASE p \notin (-l)..(l - 1)
    <2>1. PICK u \in Nat : u = AbsOf(p) /\ u >= l
        BY <1>7, AbsIs, OutOfSpan
    <2>2. AbsOf(c * h[e]) >= 2 * AbsOf(c * h[1])
        <3>1. e \in 0..m /\ e > 1 /\ 1 <= m
            OBVIOUS
        <3> QED
            BY <1>2, <1>6, <3>1, PowersGrow
    <2>3. AbsOf(z) >= 2 * u
        BY <1>1, <1>3, <1>5, <2>1, <2>2, Zenon
    <2>4. AbsOf(z) > l
        BY <2>1, <2>3, AbsIs
    <2> QED
        BY <1>5, <2>4, OutOfSpan
<1>8. CASE s \notin (-l)..(l - 1)
    <2>1. PICK u \in Nat : u = AbsOf(s) /\ u >= l
        BY <1>8, AbsIs, OutOfSpan
    <2>2. CASE c = 1
        <3>1. 1 * h[e] = h[e] /\ 1 * s = s
            BY <1>4
        <3>2. z = h[e]
            BY <1>5, <2>2, <3>1, Zenon
        <3>3. CASE e = 2
            BY <1>3, <1>5, <1>8, <3>2, <3>3, Zenon
        <3>4. CASE e # 2
            <4>1. e \in 0..m /\ e > 2 /\ 2 <= m /\ 1 \in Int
                BY <3>4
            <4>2. AbsOf(1 * h[e]) >= 2 * AbsOf(1 * h[2])
                BY <1>2, <1>6, <4>1, PowersGrow
            <4>3. AbsOf(z) >= 2 * u
                BY <1>3, <2>1, <3>1, <3>2, <4>2, Zenon
            <4>4. AbsOf(z) > l
                BY <2>1, <4>3, AbsIs
            <4> QED
                BY <1>5, <4>4, OutOfSpan
        <3> QED
            BY <3>3, <3>4
    <2>3. CASE c # 1
        <3>1. b >= 2
            BY <1>2, <1>6, <2>3 DEF Tame
        <3>2. AbsOf(c * s) >= 2 * u
            BY <1>2, <2>1, <3>1, AbsTimes, Zenon
        <3>3. AbsOf(c * h[e]) >= AbsOf(c * h[2])
            <4>1. e \in 0..m /\ e >= 2 /\ 2 <= m
                OBVIOUS
            <4> QED
                BY <1>2, <1>6, <4>1, PowersGrow
        <3>4. PICK k \in Nat, j \in Nat : k = AbsOf(z) /\ j = AbsOf(c * s) /\ k >= j /\ j >= 2 * u
            <4>1. c * s \in Int
                OBVIOUS
            <4>2. AbsOf(z) \in Nat /\ AbsOf(c * s) \in Nat
                BY <4>1, AbsIs
            <4> QED
                BY <1>3, <1>5, <3>2, <3>3, <4>2, Zenon
        <3>5. AbsOf(z) > l
            BY <2>1, <3>4
        <3> QED
            BY <1>5, <3>5, OutOfSpan
    <2> QED
        BY <2>2, <2>3
<1> QED
    BY <1>1, <1>7, <1>8

LEMMA TameKept == \A x, c \in Int : Tame(x, c) => Tame(x * x, c) /\ Tame(x * x, c * x)
<1> SUFFICES ASSUME NEW x \in Int, NEW c \in Int, Tame(x, c) PROVE Tame(x * x, c) /\ Tame(x * x, c * x)
    OBVIOUS
<1>1. PICK s \in Int, p \in Int : s = x * x /\ p = c * x
    OBVIOUS
<1>2. PICK a \in Nat, b \in Nat : a = AbsOf(x) /\ b = AbsOf(c)
    BY AbsIs
<1>3. AbsOf(s) = a * a /\ AbsOf(p) = b * a /\ (a >= 2 => AbsOf(s) >= 2 * a /\ AbsOf(p) >= 2 * b)
    BY <1>1, <1>2, AbsTimes, Zenon
<1>4. CASE a <= 1
    <2>1. a = 0 \/ a = 1
        BY <1>4
    <2>2. AbsOf(s) <= 1
        BY <1>3, <2>1
    <2>3. Tame(s, c)
        BY <1>2, <1>4, <2>2 DEF Tame
    <2>4. CASE c = 1
        <3>1. p = x
            BY <1>1, <2>4
        <3> QED
            BY <1>1, <1>2, <1>4, <2>2, <2>3, <3>1 DEF Tame
    <2>5. CASE c # 1
        <3>1. b <= 1
            BY <1>2, <1>4, <2>5 DEF Tame
        <3>2. b = 0 \/ b = 1
            BY <3>1
        <3>3. AbsOf(p) <= 1
            BY <1>3, <2>1, <3>2
        <3> QED
            BY <1>1, <2>2, <2>3, <3>3 DEF Tame
    <2> QED
        BY <2>4, <2>5
<1>5. CASE ~(a <= 1)
    <2>1. a >= 2 /\ AbsOf(s) \in Nat /\ AbsOf(p) \in Nat
        BY <1>5, AbsIs
    <2>2. AbsOf(s) >= 2
        BY <1>3, <2>1
    <2>3. CASE c = 1
        <3>1. p = x
            BY <1>1, <2>3
        <3> QED
            BY <1>1, <1>2, <2>1, <2>2, <2>3, <3>1 DEF Tame
    <2>4. CASE c # 1
        <3>1. b >= 2
            BY <1>2, <2>1, <2>4 DEF Tame
        <3>2. AbsOf(p) >= 2
            BY <1>3, <2>1, <3>1
        <3> QED
            BY <1>1, <1>2, <2>2, <3>1, <3>2 DEF Tame
    <2> QED
        BY <2>3, <2>4
<1> QED
    BY <1>4, <1>5

\* A turn keeps the product of the accumulator and the power that is left: the
\* base x and accumulator c of exponent e become s and p (or stay c) with k = e \div 2.
TurnOf(x, c, s, p) == s = x * x /\ p = c * x

LEMMA EveryOtherPower ==
    \A x, c, s, p \in Int : TurnOf(x, c, s, p) =>
        \A e, k \in Nat : 2 * k <= e => \A h, q : Powers(h, x, e) /\ Powers(q, s, k) => q[k] = h[2 * k]
<1> TAKE x \in Int, c \in Int, s \in Int, p \in Int
<1> HAVE TurnOf(x, c, s, p)
<1> TAKE e \in Nat, k \in Nat
<1> HAVE 2 * k <= e
<1> TAKE h, q
<1> HAVE Powers(h, x, e) /\ Powers(q, s, k)
<1>1. s = x * x
    BY DEF TurnOf
<1>2. \A j \in 0..k : q[j] = h[2 * j]
    BY <1>1, SquaredPowers
<1>3. k \in 0..k
    OBVIOUS
<1> QED
    BY <1>2, <1>3, Zenon

KeepsValue(c, p, e, k, h, q) ==
    /\ q[k] \in Int /\ h[e] \in Int
    /\ e = 2 * k => c * q[k] = c * h[e]
    /\ e = 2 * k + 1 => p * q[k] = c * h[e]

LEMMA TurnKeepsValue ==
    \A x, c, s, p \in Int : TurnOf(x, c, s, p) =>
        \A e, k \in Nat : \A h, q : Powers(h, x, e) /\ Powers(q, s, k) => KeepsValue(c, p, e, k, h, q)
<1> TAKE x \in Int, c \in Int, s \in Int, p \in Int
<1> HAVE TurnOf(x, c, s, p)
<1> TAKE e \in Nat, k \in Nat
<1> TAKE h, q
<1> HAVE Powers(h, x, e) /\ Powers(q, s, k)
<1>1. q[k] \in Int /\ h[e] \in Int
    BY DEF Powers
<1>2. 2 * k <= e => q[k] = h[2 * k]
    <2>1. \A m, j \in Nat : 2 * j <= m => \A f, g : Powers(f, x, m) /\ Powers(g, s, j) => g[j] = f[2 * j]
        BY EveryOtherPower
    <2> QED
        BY <2>1, Zenon
<1>3. e = 2 * k => c * q[k] = c * h[e]
    <2> SUFFICES ASSUME e = 2 * k PROVE q[k] = h[e]
        BY Zenon
    <2>1. 2 * k <= e
        OBVIOUS
    <2> QED
        BY <1>2, <2>1, Zenon
<1>4. ASSUME e = 2 * k + 1 PROVE p * q[k] = c * h[e]
    <2>1. PICK n \in Nat : n = 2 * k /\ n + 1 = e /\ n + 1 <= e /\ 2 * k <= e
        BY <1>4
    <2>2. h[n] \in Int /\ h[n + 1] = h[n] * x
        BY <2>1, PowersStep, Zenon
    <2>3. PICK t \in Int : t = h[n] /\ t = q[k] /\ h[e] = t * x
        BY <1>2, <2>1, <2>2, Zenon
    <2>4. (c * x) * t = c * (t * x)
        OBVIOUS
    <2>5. p = c * x
        BY DEF TurnOf
    <2> QED
        BY <2>3, <2>4, <2>5, Zenon
<1>5. e = 2 * k + 1 => p * q[k] = c * h[e]
    BY <1>4, Zenon
<1> QED
    BY <1>1, <1>3, <1>5, Zenon DEF KeepsValue

KeepsPattern(c, p, e, k, f, g) ==
    /\ g[k] \in Int
    /\ e = 2 * k => (c * g[k]) % N = (c * f[e]) % N
    /\ e = 2 * k + 1 => ((p % N) * g[k]) % N = (c * f[e]) % N

LEMMA TurnKeepsPattern ==
    \A x, c, s, p \in Int : TurnOf(x, c, s, p) =>
        \A e, k \in Nat : \A f, g : Powers(f, x, e) /\ Powers(g, s % N, k) => KeepsPattern(c, p, e, k, f, g)
<1> TAKE x \in Int, c \in Int, s \in Int, p \in Int
<1>0. HAVE TurnOf(x, c, s, p)
<1> TAKE e \in Nat, k \in Nat
<1> TAKE f, g
<1> HAVE Powers(f, x, e) /\ Powers(g, s % N, k)
<1>1. PICK s1 \in Int, p1 \in Int : s1 = s % N /\ p1 = p % N /\ s1 % N = s % N /\ p1 % N = p % N
    <2>1. s % N \in Pattern /\ (s % N) % N = s % N /\ p % N \in Pattern /\ (p % N) % N = p % N
        BY OwnModulo, Zenon
    <2>2. s % N \in Int /\ p % N \in Int
        BY <2>1, PatternIs
    <2> QED
        BY <2>1, <2>2, Zenon
<1>2. PICK q : Powers(q, s, k)
    BY PowersExist, Zenon
<1>3. g[k] \in Int /\ g[k] % N = q[k] % N
    <2>1. Powers(g, s1, k)
        BY <1>1, Zenon
    <2>2. k \in 0..k
        OBVIOUS
    <2>3. g[k] \in Int
        BY <2>1, <2>2 DEF Powers
    <2>4. s1 % N = s % N
        BY <1>1, Zenon
    <2>5. \A j \in 0..k : g[j] % N = q[j] % N
        BY <1>2, <2>1, <2>4, SamePowers
    <2> QED
        BY <2>2, <2>3, <2>5, Zenon
<1>4. KeepsValue(c, p, e, k, f, q)
    <2>1. \A m, j \in Nat : \A h, r : Powers(h, x, m) /\ Powers(r, s, j) => KeepsValue(c, p, m, j, h, r)
        BY <1>0, TurnKeepsValue, Zenon
    <2> QED
        BY <1>2, <2>1, Zenon
<1>5. PICK u \in Int, v \in Int : u = g[k] /\ v = q[k] /\ u % N = v % N
    BY <1>3, <1>4, Zenon DEF KeepsValue
<1>6. (c * u) % N = (c * v) % N
    <2>1. u % N = v % N
        BY <1>5, Zenon
    <2> QED
        BY <2>1, SameFactor, ZenonT(60)
<1>7. (p1 * u) % N = (p * v) % N
    <2>1. u % N = v % N /\ p1 % N = p % N
        BY <1>1, <1>5, Zenon
    <2>2. (p1 * u) % N = ((p1 % N) * (u % N)) % N
        BY ModuloProduct, Zenon
    <2>3. (p * v) % N = ((p % N) * (v % N)) % N
        BY ModuloProduct, Zenon
    <2> QED
        BY <2>1, <2>2, <2>3, Zenon
<1>8. g[k] \in Int
    BY <1>3, Zenon
<1>9. e = 2 * k => (c * g[k]) % N = (c * f[e]) % N
    BY <1>4, <1>5, <1>6, Zenon DEF KeepsValue
<1>10. e = 2 * k + 1 => ((p % N) * g[k]) % N = (c * f[e]) % N
    BY <1>1, <1>4, <1>5, <1>7, Zenon DEF KeepsValue
<1> QED
    BY <1>8, <1>9, <1>10, Zenon DEF KeepsPattern

-----------------------------------------------------------------------------
(* The loop that raises to a power *)

HalvingStep(turn, last, g, e, s) == IF e \in {0, 1} THEN last[e][s] ELSE g[e \div 2][turn[e][s]]

LEMMA Halved == \A n \in Nat : n \div 2 \in Nat /\ (n >= 1 => n \div 2 < n) /\ (n >= 2 => n \div 2 >= 1)
                               /\ (n % 2 = 0 \/ n % 2 = 1) /\ n = 2 * (n \div 2) + (n % 2)
OBVIOUS

HalvingLoop(g, turn, last, S) == g = [e \in Exponent |-> [s \in S |-> HalvingStep(turn, last, g, e, s)]]

LEMMA HalvingExists ==
    \A S, last, turn : turn \in [Exponent -> [S -> S]] => \E g : HalvingLoop(g, turn, last, S)
<1> SUFFICES ASSUME NEW S, NEW last, NEW turn \in [Exponent -> [S -> S]]
             PROVE  \E g : HalvingLoop(g, turn, last, S)
    OBVIOUS
<1> DEFINE Upto(n, g) == \A e \in Exponent, s \in S : e <= n => g[e][s] = HalvingStep(turn, last, g, e, s)
           Reached == {n \in Nat : \E g : Upto(n, g)}
<1>0. U32_MAX \in Nat /\ \A e \in Exponent : e \in Nat /\ e <= U32_MAX
    BY WidthsAssumption DEF Exponent
<1>1. 0 \in Reached
    <2> DEFINE z == [e \in Exponent |-> [s \in S |-> last[0][s]]]
    <2>1. ASSUME NEW e \in Exponent, NEW s \in S, e <= 0 PROVE z[e][s] = HalvingStep(turn, last, z, e, s)
        <3>1. e = 0
            BY <1>0, <2>1
        <3> QED
            BY <3>1 DEF HalvingStep
    <2>2. Upto(0, z)
        BY <2>1
    <2> QED
        BY <2>2
<1>2. ASSUME NEW n \in Nat, n \in Reached PROVE n + 1 \in Reached
    <2>1. PICK g : Upto(n, g)
        BY <1>2
    <2> DEFINE h == [e \in Exponent |-> [s \in S |-> HalvingStep(turn, last, g, e, s)]]
    <2>2. \A e \in Exponent, s \in S : h[e][s] = HalvingStep(turn, last, g, e, s)
        OBVIOUS
    <2> HIDE DEF h
    <2>3. ASSUME NEW e \in Exponent, NEW s \in S, e <= n + 1 PROVE h[e][s] = HalvingStep(turn, last, h, e, s)
        <3>1. CASE e \in {0, 1}
            BY <2>2, <3>1 DEF HalvingStep
        <3>2. CASE e \notin {0, 1}
            <4>1. e \div 2 \in Exponent /\ e \div 2 <= n /\ turn[e][s] \in S
                <5>1. e \in Nat /\ e <= U32_MAX /\ e >= 1
                    BY <1>0, <3>2
                <5>2. e \div 2 \in Nat /\ e \div 2 < e
                    BY <5>1, Halved
                <5> QED
                    BY <1>0, <2>3, <5>1, <5>2 DEF Exponent
            <4>2. g[e \div 2][turn[e][s]] = HalvingStep(turn, last, g, e \div 2, turn[e][s])
                BY <2>1, <4>1
            <4>3. h[e \div 2][turn[e][s]] = g[e \div 2][turn[e][s]]
                BY <2>2, <4>1, <4>2
            <4> QED
                BY <2>2, <3>2, <4>3 DEF HalvingStep
        <3> QED
            BY <3>1, <3>2
    <2>4. Upto(n + 1, h)
        BY <2>3
    <2> QED
        BY <2>4
<1>3. U32_MAX \in Reached
    <2> HIDE DEF Reached
    <2>1. Nat \subseteq Reached
        BY <1>1, <1>2, NatClosure
    <2> QED
        BY <1>0, <2>1
<1>4. PICK g : Upto(U32_MAX, g)
    BY <1>3
<1>5. \A e \in Exponent, s \in S : g[e][s] = HalvingStep(turn, last, g, e, s)
    BY <1>0, <1>4
<1> DEFINE h == [e \in Exponent |-> [s \in S |-> g[e][s]]]
<1>6. \A e \in Exponent, s \in S : h[e][s] = g[e][s]
    OBVIOUS
<1>7. ASSUME NEW e \in Exponent PROVE h[e] = [s \in S |-> h[e][s]]
    OBVIOUS
<1>8. h = [e \in Exponent |-> h[e]]
    OBVIOUS
<1> HIDE DEF h
<1>9. ASSUME NEW e \in Exponent, NEW s \in S PROVE h[e][s] = HalvingStep(turn, last, h, e, s)
    <2>1. CASE e \in {0, 1}
        BY <1>5, <1>6, <2>1 DEF HalvingStep
    <2>2. CASE e \notin {0, 1}
        <3>1. e \div 2 \in Exponent /\ turn[e][s] \in S
            <4>1. e \in Nat /\ e <= U32_MAX /\ e >= 1
                BY <1>0, <2>2
            <4>2. e \div 2 \in Nat /\ e \div 2 < e
                BY <4>1, Halved
            <4> QED
                BY <1>0, <4>1, <4>2 DEF Exponent
        <3> QED
            BY <1>5, <1>6, <2>2, <3>1 DEF HalvingStep
    <2> QED
        BY <2>1, <2>2
<1>10. ASSUME NEW e \in Exponent PROVE h[e] = [s \in S |-> HalvingStep(turn, last, h, e, s)]
    BY <1>7, <1>9
<1>11. h = [e \in Exponent |-> [s \in S |-> HalvingStep(turn, last, h, e, s)]]
    BY <1>8, <1>10
<1> QED
    BY <1>11 DEF HalvingLoop

\* What a turn does to the numbers: with base x and accumulator c before it,
\* s and p their square and product, y and a what the registers hold after it,
\* low the span of the type; before and after are the overflow flags.
Turned(x, c, s, p, y, a, l, odd, before, after) ==
    /\ after <=> before \/ s \notin (-l)..(l - 1) \/ (odd /\ p \notin (-l)..(l - 1))
    /\ s \in (-l)..(l - 1) => y = s
    /\ odd /\ p \in (-l)..(l - 1) => a = p
    /\ ~odd => a = c
    /\ before \/ Tame(x, c)
    /\ x \in (-l)..(l - 1) /\ l >= 2

WholeTurn(x, c, s, p, y, a, l, odd, before, after) ==
    /\ x \in Int /\ c \in Int /\ s \in Int /\ p \in Int /\ y \in Int /\ a \in Int /\ l \in Nat
    /\ odd \in BOOLEAN /\ before \in BOOLEAN /\ after \in BOOLEAN
    /\ TurnOf(x, c, s, p) /\ Turned(x, c, s, p, y, a, l, odd, before, after)

HalfOf(e, k, odd) == k >= 1 /\ (odd => e = 2 * k + 1) /\ (~odd => e = 2 * k)

FlagKept(c, a, l, e, k, before, after, h, q) ==
    (after \/ a * q[k] \notin (-l)..(l - 1)) <=> (before \/ c * h[e] \notin (-l)..(l - 1))

LEMMA TurnStaysTame ==
    \A x, c, s, p, y, a, l, odd, before, after :
        WholeTurn(x, c, s, p, y, a, l, odd, before, after) => after \/ Tame(y, a)
<1> TAKE x, c, s, p, y, a, l, odd, before, after
<1>0. HAVE WholeTurn(x, c, s, p, y, a, l, odd, before, after)
<1>1. TurnOf(x, c, s, p) /\ Turned(x, c, s, p, y, a, l, odd, before, after)
    BY <1>0, Zenon DEF WholeTurn
<1> x \in Int /\ c \in Int /\ s \in Int /\ p \in Int /\ y \in Int /\ a \in Int /\ l \in Nat
    BY <1>0, Zenon DEF WholeTurn
<1> odd \in BOOLEAN /\ before \in BOOLEAN /\ after \in BOOLEAN
    BY <1>0, Zenon DEF WholeTurn
<1>2. SUFFICES ASSUME ~after PROVE Tame(y, a)
    OBVIOUS
<1>3. y = s /\ (odd => a = p) /\ (~odd => a = c) /\ Tame(x, c)
    BY <1>1, <1>2, Zenon DEF Turned
<1>4. Tame(s, c) /\ Tame(s, p)
    BY <1>1, <1>3, TameKept, Zenon DEF TurnOf
<1> QED
    BY <1>3, <1>4, Zenon

LEMMA TurnKeepsFlag ==
    \A x, c, s, p, y, a, l, odd, before, after :
        WholeTurn(x, c, s, p, y, a, l, odd, before, after)
        => \A e, k \in Nat : HalfOf(e, k, odd) =>
              \A h, q : Powers(h, x, e) /\ Powers(q, y, k) => FlagKept(c, a, l, e, k, before, after, h, q)
<1> TAKE x, c, s, p, y, a, l, odd, before, after
<1>0. HAVE WholeTurn(x, c, s, p, y, a, l, odd, before, after)
<1>1. TurnOf(x, c, s, p) /\ Turned(x, c, s, p, y, a, l, odd, before, after)
    BY <1>0, Zenon DEF WholeTurn
<1> x \in Int /\ c \in Int /\ s \in Int /\ p \in Int /\ y \in Int /\ a \in Int /\ l \in Nat
    BY <1>0, Zenon DEF WholeTurn
<1> odd \in BOOLEAN /\ before \in BOOLEAN /\ after \in BOOLEAN
    BY <1>0, Zenon DEF WholeTurn
<1> TAKE e \in Nat, k \in Nat
<1>2. HAVE HalfOf(e, k, odd)
<1> TAKE h, q
<1>3. HAVE Powers(h, x, e) /\ Powers(q, y, k)
<1>4. CASE before
    BY <1>1, <1>4, Zenon DEF FlagKept, Turned
<1>5. CASE ~before /\ after
    <2>1. 2 <= e /\ e <= e
        BY <1>2 DEF HalfOf
    <2>2. Tame(x, c) /\ x \in (-l)..(l - 1) /\ l >= 2
        BY <1>1, <1>5, Zenon DEF Turned
    <2>3. x * x \notin (-l)..(l - 1) \/ c * x \notin (-l)..(l - 1)
        BY <1>1, <1>5, Zenon DEF Turned, TurnOf
    <2>4. c * h[e] \notin (-l)..(l - 1)
        BY <1>3, <2>1, <2>2, <2>3, OverflowIsFinal, Zenon
    <2> QED
        BY <1>5, <2>4, Zenon DEF FlagKept
<1>6. CASE ~before /\ ~after
    <2>1. y = s /\ (odd => a = p) /\ (~odd => a = c)
        BY <1>1, <1>6, Zenon DEF Turned
    <2>2. KeepsValue(c, p, e, k, h, q)
        <3>1. \A m, j \in Nat : \A r, t : Powers(r, x, m) /\ Powers(t, s, j) => KeepsValue(c, p, m, j, r, t)
            BY <1>1, TurnKeepsValue, Zenon
        <3> QED
            BY <1>3, <2>1, <3>1, Zenon
    <2>3. a * q[k] = c * h[e]
        BY <1>2, <2>1, <2>2, Zenon DEF KeepsValue, HalfOf
    <2> QED
        BY <1>6, <2>3, Zenon DEF FlagKept
<1> QED
    BY <1>4, <1>5, <1>6, Zenon

\* A multiplication of patterns that is right about the numbers val they stand
\* for and tells when the product leaves the span of the type.
Multiplies(mul, val, l) ==
    /\ l \in Nat /\ l >= 2
    /\ \A a \in Pattern : val[a] \in Int /\ val[a] \in (-l)..(l - 1)
    /\ \A a, b \in Pattern : mul[a][b] = <<(a * b) % N, val[a] * val[b] \notin (-l)..(l - 1)>>
    /\ \A a, b \in Pattern : val[a] * val[b] \in (-l)..(l - 1) => val[(a * b) % N] = val[a] * val[b]

TurnBy(mul, odd, s) == PowTurn(odd, s, mul[s.acc][s.base], mul[s.base][s.base])

\* g is the loop that raises to a power from the exponent 1 on.
Raises(g, mul) ==
    \A e \in Exponent, s \in PowState :
        /\ e = 1 => g[e][s] = PowEnd(s, mul[s.acc][s.base])
        /\ e >= 2 => g[e][s] = g[e \div 2][TurnBy(mul, e % 2 = 1, s)]

PowerIs(r, val, l, s, f, h, e) == r = <<(s.acc * f[e]) % N, s.overflown \/ val[s.acc] * h[e] \notin (-l)..(l - 1)>>

\* What a turn leaves in the variables of the loop.
TurnedTo(t, s, val, l, odd) ==
    /\ t \in PowState
    /\ t.base = (s.base * s.base) % N
    /\ t.acc = IF odd THEN (s.acc * s.base) % N ELSE s.acc
    /\ Turned(val[s.base], val[s.acc], val[s.base] * val[s.base], val[s.acc] * val[s.base],
              val[t.base], val[t.acc], l, odd, s.overflown, t.overflown)

LEMMA PowStateIs ==
    /\ \A s \in PowState : s.base \in Pattern /\ s.acc \in Pattern /\ s.overflown \in BOOLEAN
    /\ \A b, a \in Pattern, o \in BOOLEAN : [base |-> b, acc |-> a, overflown |-> o] \in PowState
BY DEF PowState

LEMMA TurnByIs ==
    ASSUME NEW mul, NEW val, NEW l, Multiplies(mul, val, l), NEW s \in PowState, NEW odd \in BOOLEAN,
           s.overflown \/ Tame(val[s.base], val[s.acc])
    PROVE  TurnedTo(TurnBy(mul, odd, s), s, val, l, odd)
<1>1. s.base \in Pattern /\ s.acc \in Pattern /\ s.overflown \in BOOLEAN
    BY PowStateIs
<1>2. PICK x \in Pattern, c \in Pattern, o \in BOOLEAN : x = s.base /\ c = s.acc /\ o = s.overflown
    BY <1>1
<1>3. PICK over \in BOOLEAN : over = (val[x] * val[x] \notin (-l)..(l - 1))
    OBVIOUS
<1>4. PICK out \in BOOLEAN : out = (val[c] * val[x] \notin (-l)..(l - 1))
    OBVIOUS
<1>5. PICK xx \in Pattern, cx \in Pattern : xx = (x * x) % N /\ cx = (c * x) % N
    <2>1. x * x \in Int /\ c * x \in Int
        BY PatternIs
    <2> QED
        BY <2>1, OwnModulo, Zenon
<1>6. mul[x][x] = <<xx, over>> /\ mul[c][x] = <<cx, out>>
    BY <1>3, <1>4, <1>5, Zenon DEF Multiplies
<1>7. mul[x][x][1] = xx /\ mul[x][x][2] = over /\ mul[c][x][1] = cx /\ mul[c][x][2] = out
    BY <1>6
<1>8. PICK after \in BOOLEAN : after = (o \/ over \/ (odd /\ out))
    OBVIOUS
<1>9. PICK a \in Pattern : a = IF odd THEN cx ELSE c
    OBVIOUS
<1>10. TurnBy(mul, odd, s) = [base |-> xx, acc |-> a, overflown |-> after]
    BY <1>2, <1>7, <1>8, <1>9, Zenon DEF TurnBy, PowTurn
<1>11. PICK t : t = TurnBy(mul, odd, s) /\ t \in PowState /\ t.base = xx /\ t.acc = a /\ t.overflown = after
    <2>1. [base |-> xx, acc |-> a, overflown |-> after] \in PowState
        BY PowStateIs
    <2> QED
        BY <1>10, <2>1
<1>12. /\ val[x] * val[x] \in (-l)..(l - 1) => val[xx] = val[x] * val[x]
       /\ val[c] * val[x] \in (-l)..(l - 1) => val[cx] = val[c] * val[x]
       /\ val[x] \in (-l)..(l - 1) /\ l >= 2
    BY <1>5, Zenon DEF Multiplies
<1>13. Turned(val[x], val[c], val[x] * val[x], val[c] * val[x], val[xx], val[a], l, odd, o, after)
    BY <1>2, <1>3, <1>4, <1>8, <1>9, <1>12, Zenon DEF Turned
<1> QED
    BY <1>2, <1>5, <1>9, <1>11, <1>13, Zenon DEF TurnedTo

LEMMA TurnKeepsPower ==
    ASSUME NEW mul, NEW val, NEW l, Multiplies(mul, val, l), NEW s \in PowState, NEW t \in PowState,
           NEW odd \in BOOLEAN, TurnedTo(t, s, val, l, odd), NEW e \in Nat, NEW k \in Nat, HalfOf(e, k, odd),
           NEW f, NEW h, Powers(f, s.base, e), Powers(h, val[s.base], e),
           NEW g, NEW q, Powers(g, t.base, k), Powers(q, val[t.base], k),
           NEW r, PowerIs(r, val, l, t, g, q, k)
    PROVE  PowerIs(r, val, l, s, f, h, e)
<1>1. /\ s.base \in Pattern /\ s.acc \in Pattern /\ s.overflown \in BOOLEAN
      /\ t.base \in Pattern /\ t.acc \in Pattern /\ t.overflown \in BOOLEAN
    BY PowStateIs
<1>2. (t.acc * g[k]) % N = (s.acc * f[e]) % N
    <2>1. PICK x \in Int, c \in Int : x = s.base /\ c = s.acc
        BY <1>1, PatternIs
    <2>2. PICK xx \in Int, p \in Int : xx = x * x /\ p = c * x
        OBVIOUS
    <2>3. TurnOf(x, c, xx, p)
        BY <2>2, Zenon DEF TurnOf
    <2>4. Powers(g, xx % N, k) /\ Powers(f, x, e)
        BY <2>1, <2>2, Zenon DEF TurnedTo
    <2>5. KeepsPattern(c, p, e, k, f, g)
        <3>1. \A m, j \in Nat : \A f1, g1 : Powers(f1, x, m) /\ Powers(g1, xx % N, j) => KeepsPattern(c, p, m, j, f1, g1)
            BY <2>3, TurnKeepsPattern, Zenon
        <3> QED
            BY <2>4, <3>1, Zenon
    <2>6. t.acc = IF odd THEN p % N ELSE c
        BY <2>1, <2>2, Zenon DEF TurnedTo
    <2> QED
        BY <2>1, <2>5, <2>6, Zenon DEF KeepsPattern, HalfOf
<1>3. (t.overflown \/ val[t.acc] * q[k] \notin (-l)..(l - 1)) <=> (s.overflown \/ val[s.acc] * h[e] \notin (-l)..(l - 1))
    <2>1. val[s.base] \in Int /\ val[s.acc] \in Int /\ val[t.base] \in Int /\ val[t.acc] \in Int /\ l \in Nat
        BY <1>1, Zenon DEF Multiplies
    <2>2. PICK x \in Int, c \in Int : x = val[s.base] /\ c = val[s.acc]
        BY <2>1
    <2>3. PICK y \in Int, a \in Int : y = val[t.base] /\ a = val[t.acc]
        BY <2>1
    <2>4. PICK xx \in Int, p \in Int : xx = x * x /\ p = c * x
        OBVIOUS
    <2>5. PICK m \in Nat, before \in BOOLEAN, after \in BOOLEAN : m = l /\ before = s.overflown /\ after = t.overflown
        BY <1>1, <2>1
    <2>6. TurnOf(x, c, xx, p)
        BY <2>4, Zenon DEF TurnOf
    <2>7. Turned(x, c, xx, p, y, a, m, odd, before, after)
        BY <2>2, <2>3, <2>4, <2>5, Zenon DEF TurnedTo
    <2>8. \A n, j \in Nat : HalfOf(n, j, odd) =>
             \A h1, q1 : Powers(h1, x, n) /\ Powers(q1, y, j) => FlagKept(c, a, m, n, j, before, after, h1, q1)
        <3>1. WholeTurn(x, c, xx, p, y, a, m, odd, before, after)
            BY <2>6, <2>7, Zenon DEF WholeTurn
        <3> QED
            BY <3>1, TurnKeepsFlag, Zenon
    <2>9. FlagKept(c, a, m, e, k, before, after, h, q)
        BY <2>2, <2>3, <2>8, Zenon
    <2> QED
        BY <2>2, <2>3, <2>5, <2>9, Zenon DEF FlagKept
<1>4. PICK v \in BOOLEAN : v = (t.overflown \/ val[t.acc] * q[k] \notin (-l)..(l - 1))
    OBVIOUS
<1>5. v = (s.overflown \/ val[s.acc] * h[e] \notin (-l)..(l - 1))
    BY <1>3, <1>4, Zenon
<1>6. r = <<(t.acc * g[k]) % N, v>>
    BY <1>4, Zenon DEF PowerIs
<1> QED
    BY <1>2, <1>5, <1>6, Zenon DEF PowerIs

PowerWithin(g, val, l, n) ==
    \A e \in Exponent, s \in PowState : e >= 1 /\ e <= n /\ (s.overflown \/ Tame(val[s.base], val[s.acc])) =>
        \A f, h : Powers(f, s.base, e) /\ Powers(h, val[s.base], e) => PowerIs(g[e][s], val, l, s, f, h, e)

\* The loop that raises to a power computes acc times the power of the base,
\* modulo N, and overflows exactly when the number leaves the type's span.
LEMMA PowLoopIs ==
    ASSUME NEW mul, NEW val, NEW l, Multiplies(mul, val, l), NEW g, Raises(g, mul)
    PROVE  PowerWithin(g, val, l, U32_MAX)
<1> DEFINE G == {n \in Nat : PowerWithin(g, val, l, n)}
<1>0. U32_MAX \in Nat /\ \A e \in Exponent : e \in Nat /\ e <= U32_MAX
    BY WidthsAssumption DEF Exponent
<1>1. 0 \in G
    <2>1. \A e \in Exponent : ~(e >= 1 /\ e <= 0)
        BY <1>0
    <2> QED
        BY <2>1 DEF PowerWithin
<1>2. ASSUME NEW n \in Nat, n \in G PROVE n + 1 \in G
    <2> SUFFICES ASSUME NEW e \in Exponent, NEW s \in PowState, e >= 1, e <= n + 1,
                        s.overflown \/ Tame(val[s.base], val[s.acc]),
                        NEW f, NEW h, Powers(f, s.base, e), Powers(h, val[s.base], e)
                 PROVE  PowerIs(g[e][s], val, l, s, f, h, e)
        BY DEF PowerWithin
    <2>1. s.base \in Pattern /\ s.acc \in Pattern /\ s.overflown \in BOOLEAN
        BY PowStateIs
    <2>2. CASE e = 1
        <3>1. g[e][s] = PowEnd(s, mul[s.acc][s.base])
            BY <2>2, Zenon DEF Raises
        <3>2. mul[s.acc][s.base] = <<(s.acc * s.base) % N, val[s.acc] * val[s.base] \notin (-l)..(l - 1)>>
            BY <2>1, Zenon DEF Multiplies
        <3>3. PICK b \in BOOLEAN : b = (val[s.acc] * val[s.base] \notin (-l)..(l - 1))
            OBVIOUS
        <3>4. PICK m, p : m = mul[s.acc][s.base] /\ p = (s.acc * s.base) % N /\ m[1] = p /\ m[2] = b
            <4>1. PICK p : p = (s.acc * s.base) % N
                OBVIOUS
            <4>2. mul[s.acc][s.base] = <<p, b>>
                BY <3>2, <3>3, <4>1, Zenon
            <4>3. <<p, b>>[1] = p /\ <<p, b>>[2] = b
                OBVIOUS
            <4> QED
                BY <4>1, <4>2, <4>3, Zenon
        <3>5. \A u \in Int : \A w : Powers(w, u, e) => w[e] = u
            <4> SUFFICES ASSUME NEW u \in Int, NEW w, Powers(w, u, e) PROVE w[e] = u
                OBVIOUS
            <4>1. 0 \in Nat /\ 0 + 1 = 1 /\ 0 + 1 <= e /\ e \in Nat
                BY <2>2
            <4>2. w[1] = w[0] * u
                BY <4>1, PowersStep
            <4>3. w[0] = 1 /\ 1 * u = u
                BY DEF Powers
            <4> QED
                BY <2>2, <4>2, <4>3, Zenon
        <3>6. f[e] = s.base /\ h[e] = val[s.base]
            <4>1. s.base \in Int /\ val[s.base] \in Int
                BY <2>1, PatternIs DEF Multiplies
            <4> QED
                BY <3>5, <4>1, Zenon
        <3> QED
            BY <3>1, <3>3, <3>4, <3>6, Zenon DEF PowEnd, PowerIs
    <2>3. CASE e # 1
        <3>0. PICK k \in Nat : k = e \div 2
            BY <1>0, Halved
        <3>1. PICK odd \in BOOLEAN : odd = (e % 2 = 1) /\ (odd <=> e % 2 = 1)
            OBVIOUS
        <3>2. e >= 2 /\ e \in Nat
            BY <1>0, <2>3
        <3>3. HalfOf(e, k, odd) /\ k >= 1 /\ k < e
            <4>1. k < e /\ k >= 1 /\ (e % 2 = 0 \/ e % 2 = 1) /\ e = 2 * k + (e % 2)
                BY <3>0, <3>2, Halved
            <4> QED
                BY <3>1, <3>2, <4>1 DEF HalfOf
        <3>4. k <= n /\ k \in Exponent
            BY <1>0, <3>2, <3>3 DEF Exponent
        <3>5. PICK t \in PowState : t = TurnBy(mul, odd, s) /\ TurnedTo(t, s, val, l, odd)
            <4>1. TurnedTo(TurnBy(mul, odd, s), s, val, l, odd)
                BY TurnByIs
            <4> QED
                BY <4>1 DEF TurnedTo
        <3>6. g[e][s] = g[k][t]
            BY <3>0, <3>1, <3>2, <3>5, Zenon DEF Raises
        <3>7. t.base \in Pattern /\ t.acc \in Pattern /\ t.overflown \in BOOLEAN
            BY PowStateIs
        <3>8. t.base \in Int /\ val[t.base] \in Int
            BY <3>7, PatternIs DEF Multiplies
        <3>9. PICK r : Powers(r, t.base, k)
            BY <3>8, PowersExist, Zenon
        <3>10. PICK q : Powers(q, val[t.base], k)
            BY <3>8, PowersExist, Zenon
        <3>11. t.overflown \/ Tame(val[t.base], val[t.acc])
            <4>1. val[s.base] \in Int /\ val[s.acc] \in Int /\ val[t.base] \in Int /\ val[t.acc] \in Int /\ l \in Nat
                BY <2>1, <3>7, Zenon DEF Multiplies
            <4>2. PICK x \in Int, c \in Int : x = val[s.base] /\ c = val[s.acc]
                BY <4>1
            <4>3. PICK y \in Int, a \in Int : y = val[t.base] /\ a = val[t.acc]
                BY <4>1
            <4>4. PICK xx \in Int, p \in Int : xx = x * x /\ p = c * x
                OBVIOUS
            <4>5. PICK m \in Nat, before \in BOOLEAN, after \in BOOLEAN : m = l /\ before = s.overflown /\ after = t.overflown
                BY <2>1, <3>7, <4>1
            <4>6. TurnOf(x, c, xx, p)
                BY <4>4, Zenon DEF TurnOf
            <4>7. Turned(x, c, xx, p, y, a, m, odd, before, after)
                BY <3>5, <4>2, <4>3, <4>4, <4>5, Zenon DEF TurnedTo
            <4>8. after \/ Tame(y, a)
                <5>1. WholeTurn(x, c, xx, p, y, a, m, odd, before, after)
                BY <4>6, <4>7, Zenon DEF WholeTurn
            <5> QED
                BY <5>1, TurnStaysTame, Zenon
            <4> QED
                BY <4>3, <4>5, <4>8, Zenon
        <3>12. PowerIs(g[k][t], val, l, t, r, q, k)
            <4>1. PowerWithin(g, val, l, n)
                BY <1>2
            <4> QED
                BY <3>3, <3>4, <3>9, <3>10, <3>11, <4>1, Zenon DEF PowerWithin
        <3>13. PowerIs(g[k][t], val, l, s, f, h, e)
            BY <3>2, <3>3, <3>5, <3>9, <3>10, <3>12, TurnKeepsPower
        <3> QED
            BY <3>6, <3>13, Zenon
    <2> QED
        BY <2>2, <2>3
<1>3. Nat \subseteq G
    <2> HIDE DEF G
    <2> QED
        BY <1>1, <1>2, NatClosure
<1> QED
    BY <1>0, <1>3

LEMMA TurnByInside ==
    \A mul, val, l : Multiplies(mul, val, l) =>
        \A s \in PowState, odd \in BOOLEAN : TurnBy(mul, odd, s) \in PowState
<1> SUFFICES ASSUME NEW mul, NEW val, NEW l, Multiplies(mul, val, l), NEW s \in PowState, NEW odd \in BOOLEAN
             PROVE  TurnBy(mul, odd, s) \in PowState
    OBVIOUS
<1>1. s.base \in Pattern /\ s.acc \in Pattern /\ s.overflown \in BOOLEAN
    BY PowStateIs
<1>2. \A a, b \in Pattern : mul[a][b][1] \in Pattern /\ mul[a][b][2] \in BOOLEAN
    <2> TAKE a, b \in Pattern
    <2>1. PICK p \in Pattern : p = (a * b) % N
        <3>1. a * b \in Int
            BY PatternIs
        <3> QED
            BY <3>1, OwnModulo, Zenon
    <2>2. PICK f \in BOOLEAN : f = (val[a] * val[b] \notin (-l)..(l - 1))
        OBVIOUS
    <2>3. mul[a][b] = <<p, f>>
        BY <2>1, <2>2, Zenon DEF Multiplies
    <2> QED
        BY <2>3
<1>3. PICK x \in Pattern, y \in Pattern, f \in BOOLEAN, g \in BOOLEAN :
            /\ x = mul[s.base][s.base][1] /\ f = mul[s.base][s.base][2]
            /\ y = mul[s.acc][s.base][1] /\ g = mul[s.acc][s.base][2]
    BY <1>1, <1>2, Zenon
<1>4. PICK a \in Pattern, o \in BOOLEAN : a = (IF odd THEN y ELSE s.acc) /\ o = (s.overflown \/ f \/ (odd /\ g))
    BY <1>1
<1>5. TurnBy(mul, odd, s) = [base |-> x, acc |-> a, overflown |-> o]
    BY <1>3, <1>4, Zenon DEF TurnBy, PowTurn
<1> QED
    BY <1>5, PowStateIs

\* One round of the loop, the rest of which is g; zero is what it returns at 0.
Round(g, mul, zero, e, s) ==
    IF e = 0 THEN zero[s]
    ELSE IF e = 1 THEN PowEnd(s, mul[s.acc][s.base])
    ELSE g[e \div 2][TurnBy(mul, e % 2 = 1, s)]

Loop(g, mul, zero) == g = [e \in Exponent |-> [s \in PowState |-> Round(g, mul, zero, e, s)]]

LEMMA LoopExists ==
    \A mul, val, l : Multiplies(mul, val, l) => \A zero : \E g : Loop(g, mul, zero)
<1> SUFFICES ASSUME NEW mul, NEW val, NEW l, Multiplies(mul, val, l), NEW zero
             PROVE  \E g : Loop(g, mul, zero)
    OBVIOUS
<1> DEFINE turn == [e \in Exponent |-> [s \in PowState |-> TurnBy(mul, e % 2 = 1, s)]]
           last == [e \in {0, 1} |-> [s \in PowState |->
                      IF e = 0 THEN zero[s] ELSE PowEnd(s, mul[s.acc][s.base])]]
<1>1. turn \in [Exponent -> [PowState -> PowState]]
    <2>1. \A e \in Exponent, s \in PowState : TurnBy(mul, e % 2 = 1, s) \in PowState
        <3> TAKE e \in Exponent, s \in PowState
        <3>1. PICK odd \in BOOLEAN : odd = (e % 2 = 1)
            OBVIOUS
        <3>2. TurnBy(mul, odd, s) \in PowState
            BY TurnByInside, Zenon
        <3> QED
            BY <3>1, <3>2, Zenon
    <2> QED
        BY <2>1
<1>2. \A e \in Exponent, s \in PowState : turn[e][s] = TurnBy(mul, e % 2 = 1, s)
    BY Zenon
<1>3. \A s \in PowState : last[0][s] = zero[s] /\ last[1][s] = PowEnd(s, mul[s.acc][s.base])
    <2>1. 0 \in {0, 1} /\ 1 \in {0, 1} /\ 1 # 0
        OBVIOUS
    <2> QED
        BY <2>1, Zenon
<1> HIDE DEF turn, last
<1>4. PICK g : g = [e \in Exponent |-> [s \in PowState |-> HalvingStep(turn, last, g, e, s)]]
    <2>1. PICK g : HalvingLoop(g, turn, last, PowState)
        BY <1>1, HalvingExists, Zenon
    <2> QED
        BY <2>1, Zenon DEF HalvingLoop
<1>5. \A e \in Exponent, s \in PowState : HalvingStep(turn, last, g, e, s) = Round(g, mul, zero, e, s)
    <2> TAKE e \in Exponent, s \in PowState
    <2>1. CASE e = 0
        BY <1>3, <2>1 DEF HalvingStep, Round
    <2>2. CASE e = 1
        BY <1>3, <2>2 DEF HalvingStep, Round
    <2>3. CASE e # 0 /\ e # 1
        <3>1. e \notin {0, 1}
            BY <2>3
        <3> QED
            BY <1>2, <2>3, <3>1, Zenon DEF HalvingStep, Round
    <2> QED
        BY <2>1, <2>2, <2>3, Zenon
<1>6. [e \in Exponent |-> [s \in PowState |-> HalvingStep(turn, last, g, e, s)]]
      = [e \in Exponent |-> [s \in PowState |-> Round(g, mul, zero, e, s)]]
    BY <1>5, Zenon
<1> QED
    BY <1>4, <1>6, Zenon DEF Loop

RestsAt(g, zero) == \A s \in PowState : g[0][s] = zero[s]

LEMMA RoundsRaise ==
    \A mul, zero, g : Loop(g, mul, zero) => Raises(g, mul) /\ RestsAt(g, zero)
<1> SUFFICES ASSUME NEW mul, NEW zero, NEW g, Loop(g, mul, zero)
             PROVE  Raises(g, mul) /\ RestsAt(g, zero)
    OBVIOUS
<1>1. ASSUME NEW e \in Exponent, NEW s \in PowState PROVE g[e][s] = Round(g, mul, zero, e, s)
    <2>1. g[e] = [u \in PowState |-> Round(g, mul, zero, e, u)]
        BY Zenon DEF Loop
    <2> QED
        BY <2>1, Zenon
<1>2. ASSUME NEW e \in Exponent, NEW s \in PowState
      PROVE  /\ e = 1 => g[e][s] = PowEnd(s, mul[s.acc][s.base])
             /\ e >= 2 => g[e][s] = g[e \div 2][TurnBy(mul, e % 2 = 1, s)]
    <2>1. (e >= 2 => e # 0 /\ e # 1) /\ (e = 1 => e # 0)
        BY WidthsAssumption DEF Exponent
    <2> QED
        BY <1>1, <2>1, Zenon DEF Round
<1>3. 0 \in Exponent
    BY WidthsAssumption DEF Exponent
<1>4. \A s \in PowState : g[0][s] = zero[s]
    BY <1>1, <1>3, Zenon DEF Round
<1> QED
    BY <1>2, <1>4, Zenon DEF Raises, RestsAt

LEMMA NaturalSpan == \A v \in Nat : v \notin (-N)..(N - 1) <=> v \notin URange
<1> TAKE v \in Nat
<1>1. PICK n \in Nat : n = N /\ URange = 0..(n - 1)
    BY Bases DEF URange
<1>2. v \notin (-n)..(n - 1) <=> v \notin 0..(n - 1)
    OBVIOUS
<1> QED
    BY <1>1, <1>2, Zenon

UTimes == [a \in Pattern |-> [b \in Pattern |-> UOverflowingMul(a, b)]]
UValue == [a \in Pattern |-> a]
ITimes == [a \in Pattern |-> [b \in Pattern |-> IOverflowingMul(a, b)]]
IValue == [a \in Pattern |-> AsSigned(a)]

LEMMA TimesIs ==
    \A a, b \in Pattern : /\ UTimes[a][b] = UOverflowingMul(a, b) /\ UValue[a] = a
                          /\ ITimes[a][b] = IOverflowingMul(a, b) /\ IValue[a] = AsSigned(a)
BY Zenon DEF UTimes, UValue, ITimes, IValue

LEMMA UnsignedMultiplies == Multiplies(UTimes, UValue, N)
<1>1. N \in Nat /\ N >= 2
    <2>1. PICK m \in Nat, n \in Nat : m = M /\ n = N /\ m < n /\ m >= 4
        BY Bases, PatternIs
    <2>2. n >= 2
        BY <2>1
    <2> QED
        BY <2>1, <2>2, Zenon
<1>2. ASSUME NEW a \in Pattern PROVE UValue[a] \in Int /\ UValue[a] \in (-N)..(N - 1)
    <2>1. PICK n \in Nat, w \in Nat : n = a /\ w = N /\ n < w
        BY PatternIs, Bases
    <2>2. n \in (-w)..(w - 1) /\ n \in Int
        BY <2>1
    <2> QED
        BY <2>1, <2>2, TimesIs, Zenon
<1>3. ASSUME NEW a \in Pattern, NEW b \in Pattern
      PROVE  /\ UTimes[a][b] = <<(a * b) % N, UValue[a] * UValue[b] \notin (-N)..(N - 1)>>
             /\ UValue[a] * UValue[b] \in (-N)..(N - 1) => UValue[(a * b) % N] = UValue[a] * UValue[b]
    <2>1. PICK p \in Nat : p = a * b
        BY PatternIs, ProductNat
    <2>2. UOverflowingMul(a, b) = <<p % N, p \notin URange>>
        BY <2>1, UnsignedSums, Zenon
    <2>3. (p \notin URange) = (p \notin (-N)..(N - 1))
        BY NaturalSpan, Zenon
    <2>4. UTimes[a][b] = <<p % N, p \notin (-N)..(N - 1)>>
        BY <2>2, <2>3, TimesIs, Zenon
    <2>5. p \in Int /\ p % N \in Pattern
        BY OwnModulo
    <2>6. p \in (-N)..(N - 1) => UValue[p % N] = p
        <3>1. p \in URange => p % N = p
            BY InURange
        <3> QED
            BY <2>3, <2>5, <3>1, TimesIs, Zenon
    <2> QED
        BY <2>1, <2>4, <2>6, TimesIs, Zenon
<1> QED
    BY <1>1, <1>2, <1>3, Zenon DEF Multiplies

LEMMA SignedMultiplies == Multiplies(ITimes, IValue, IMIN)
<1>0. PICK w \in Nat, i \in Nat : Spans(w, i)
    BY SpansAre
<1>1. w = N /\ i = IMIN /\ w = 2 * i /\ i >= 8 /\ IRange = (-i)..(i - 1)
    BY <1>0, Zenon DEF Spans
<1>2. IMIN \in Nat /\ IMIN >= 2
    <2>1. i >= 2
        BY <1>1
    <2> QED
        BY <1>1, <2>1, Zenon
<1>3. ASSUME NEW a \in Pattern PROVE IValue[a] \in Int /\ IValue[a] \in (-IMIN)..(IMIN - 1)
    <2>1. PICK n \in Nat, x \in Int : Read(a, n, x, w, i)
        BY <1>0, ReadIs
    <2>2. x \in (-i)..(i - 1) /\ x = AsSigned(a)
        BY <2>1 DEF Read
    <2> QED
        BY <1>1, <2>2, TimesIs, Zenon
<1>4. ASSUME NEW a \in Pattern, NEW b \in Pattern
      PROVE  /\ ITimes[a][b] = <<(a * b) % N, IValue[a] * IValue[b] \notin (-IMIN)..(IMIN - 1)>>
             /\ IValue[a] * IValue[b] \in (-IMIN)..(IMIN - 1) => IValue[(a * b) % N] = IValue[a] * IValue[b]
    <2>1. PICK p \in Int, c \in Pattern : p = AsSigned(a) * AsSigned(b) /\ c = (a * b) % N
        <3>1. AsSigned(a) \in Int /\ AsSigned(b) \in Int
            BY SignedValue
        <3>2. a * b \in Int
            BY PatternIs
        <3>3. (a * b) % N \in Pattern
            BY <3>2, OwnModulo, Zenon
        <3>4. AsSigned(a) * AsSigned(b) \in Int
            BY <3>1
        <3> QED
            BY <3>3, <3>4, Zenon
    <2>2. IOverflowingMul(a, b) = <<Encode(p), p \notin (-IMIN)..(IMIN - 1)>>
        BY <2>1, SignedProductsAreExact, Zenon DEF IOverflowingMul
    <2>3. Encode(p) = c
        BY <2>1, ProductsAreExact, Zenon
    <2>4. p \in (-i)..(i - 1) => AsSigned(c) = p
        <3> SUFFICES ASSUME p \in (-i)..(i - 1) PROVE AsSigned(c) = p
            OBVIOUS
        <3>1. PICK n \in Nat, x \in Int : Read(c, n, x, w, i)
            BY <1>0, ReadIs
        <3>2. n = c /\ x = AsSigned(c) /\ n < w /\ -i <= x /\ x < i /\ (x = n \/ x = n - w) /\ (x < 0 <=> x = n - w)
            BY <3>1 DEF Read
        <3>3. n = p % w
            BY <1>1, <2>3, <3>2, Zenon DEF Encode
        <3>4. CASE p >= 0
            <4>1. p % w = p
                <5>1. p \in Nat /\ p < w /\ w \in Nat \ {0}
                    BY <1>1, <3>4
                <5> QED
                    BY <5>1, Below
            <4> QED
                BY <1>1, <3>2, <3>3, <3>4, <4>1
        <3>5. CASE ~(p >= 0)
            <4>1. PICK u \in Nat : u = p + w /\ u < w /\ u >= i
                BY <1>1, <3>5
            <4>2. u % w = p % w
                BY <1>1, <4>1, SameModulo, Zenon
            <4>3. u % w = u
                <5>1. w \in Nat \ {0}
                    BY <1>1
                <5> QED
                    BY <4>1, <5>1, Below
            <4> QED
                BY <1>1, <3>2, <3>3, <4>1, <4>2, <4>3
        <3> QED
            BY <3>4, <3>5
    <2> QED
        BY <1>1, <2>1, <2>2, <2>3, <2>4, TimesIs, Zenon
<1> QED
    BY <1>2, <1>3, <1>4, Zenon DEF Multiplies

\* What the two loops return for the exponent 0.
UZero == [s \in PowState |-> <<s.acc, s.overflown>>]
IZero == [s \in PowState |-> <<ONE, FALSE>>]

\* A round of either loop, as EthnumUint and EthnumInt write it.
URound(g, exp, s) ==
    IF exp = 0 THEN <<s.acc, s.overflown>>
    ELSE IF exp = 1 THEN PowEnd(s, UOverflowingMul(s.acc, s.base))
    ELSE g[exp \div 2][PowTurn(exp % 2 = 1, s, UOverflowingMul(s.acc, s.base), UOverflowingMul(s.base, s.base))]
IRound(g, exp, s) ==
    IF exp = 0 THEN <<ONE, FALSE>>
    ELSE IF exp = 1 THEN PowEnd(s, IOverflowingMul(s.acc, s.base))
    ELSE g[exp \div 2][PowTurn(exp % 2 = 1, s, IOverflowingMul(s.acc, s.base), IOverflowingMul(s.base, s.base))]

LEMMA LoopsRaise ==
    /\ Raises(UPowLoop, UTimes) /\ \A s \in PowState : UPowLoop[0][s] = <<s.acc, s.overflown>>
    /\ Raises(IPowLoop, ITimes) /\ \A s \in PowState : IPowLoop[0][s] = <<ONE, FALSE>>
<1>1. \A s \in PowState : s.base \in Pattern /\ s.acc \in Pattern
    BY PowStateIs
<1>2. \A s \in PowState : UZero[s] = <<s.acc, s.overflown>> /\ IZero[s] = <<ONE, FALSE>>
    BY Zenon DEF UZero, IZero
<1>3. ASSUME NEW g, NEW e \in Exponent, NEW s \in PowState
      PROVE  URound(g, e, s) = Round(g, UTimes, UZero, e, s)
    <2>1. UTimes[s.acc][s.base] = UOverflowingMul(s.acc, s.base) /\ UTimes[s.base][s.base] = UOverflowingMul(s.base, s.base)
        BY <1>1, TimesIs, Zenon
    <2>2. UZero[s] = <<s.acc, s.overflown>>
        BY <1>2, Zenon
    <2> QED
        BY <2>1, <2>2, Zenon DEF Round, URound, TurnBy
<1>4. ASSUME NEW g, NEW e \in Exponent, NEW s \in PowState
      PROVE  IRound(g, e, s) = Round(g, ITimes, IZero, e, s)
    <2>1. ITimes[s.acc][s.base] = IOverflowingMul(s.acc, s.base) /\ ITimes[s.base][s.base] = IOverflowingMul(s.base, s.base)
        BY <1>1, TimesIs, Zenon
    <2>2. IZero[s] = <<ONE, FALSE>>
        BY <1>2, Zenon
    <2> QED
        BY <2>1, <2>2, Zenon DEF Round, IRound, TurnBy
<1>5. Loop(UPowLoop, UTimes, UZero)
    <2>1. PICK g : Loop(g, UTimes, UZero)
        BY UnsignedMultiplies, LoopExists, Zenon
    <2>2. \A h : [e \in Exponent |-> [s \in PowState |-> URound(h, e, s)]]
                 = [e \in Exponent |-> [s \in PowState |-> Round(h, UTimes, UZero, e, s)]]
        BY <1>3, Zenon
    <2>3. \E h : h = [exp \in Exponent |-> [s \in PowState |-> URound(h, exp, s)]]
        <3>1. g = [exp \in Exponent |-> [s \in PowState |-> URound(g, exp, s)]]
            BY <2>1, <2>2, Zenon DEF Loop
        <3> QED
            BY <3>1
    <2>4. UPowLoop = [exp \in Exponent |-> [s \in PowState |-> URound(UPowLoop, exp, s)]]
        BY <2>3, Zenon DEF UPowLoop, URound
    <2> QED
        BY <2>2, <2>4, Zenon DEF Loop
<1>6. Loop(IPowLoop, ITimes, IZero)
    <2>1. PICK g : Loop(g, ITimes, IZero)
        BY SignedMultiplies, LoopExists, Zenon
    <2>2. \A h : [e \in Exponent |-> [s \in PowState |-> IRound(h, e, s)]]
                 = [e \in Exponent |-> [s \in PowState |-> Round(h, ITimes, IZero, e, s)]]
        BY <1>4, Zenon
    <2>3. \E h : h = [exp \in Exponent |-> [s \in PowState |-> IRound(h, exp, s)]]
        <3>1. g = [exp \in Exponent |-> [s \in PowState |-> IRound(g, exp, s)]]
            BY <2>1, <2>2, Zenon DEF Loop
        <3> QED
            BY <3>1
    <2>4. IPowLoop = [exp \in Exponent |-> [s \in PowState |-> IRound(IPowLoop, exp, s)]]
        BY <2>3, Zenon DEF IPowLoop, IRound
    <2> QED
        BY <2>2, <2>4, Zenon DEF Loop
<1>7. Raises(UPowLoop, UTimes) /\ RestsAt(UPowLoop, UZero)
    BY <1>5, RoundsRaise, Zenon
<1>8. Raises(IPowLoop, ITimes) /\ RestsAt(IPowLoop, IZero)
    BY <1>6, RoundsRaise, Zenon
<1> QED
    BY <1>2, <1>7, <1>8 DEF RestsAt

\* Where the loops start.
FirstState(a) == [base |-> a, acc |-> ONE, overflown |-> FALSE]

LEMMA OnePattern ==
    /\ 1 \in Pattern /\ 1 % N = 1 /\ 1 \in URange /\ 1 \in IRange /\ AsSigned(1) = 1
    /\ Encode(1) = 1
<1>1. PICK w \in Nat, i \in Nat : Spans(w, i)
    BY SpansAre
<1>2. w = N /\ w = 2 * i /\ i = IMIN /\ i >= 8 /\ IRange = (-i)..(i - 1) /\ URange = 0..(w - 1)
    BY <1>1, Zenon DEF Spans
<1>3. 1 % w = 1 /\ 1 \in 0..(w - 1) /\ 1 \in (-i)..(i - 1) /\ ~(1 >= i) /\ 1 < w
    <2>1. w \in Nat \ {0} /\ 1 \in Nat /\ 1 < w
        BY <1>2
    <2>2. 1 % w = 1
        BY <2>1, Below
    <2> QED
        BY <1>2, <2>2
<1>4. 1 \in Pattern
    <2>1. 0 <= 1 /\ 1 \in Int
        OBVIOUS
    <2> QED
        BY <1>2, <1>3, <2>1, PatternIs, Zenon
<1> QED
    BY <1>2, <1>3, <1>4, Zenon DEF AsSigned, Encode

LEMMA FirstStateIs ==
    \A a \in Pattern : LET s == FirstState(a) IN s \in PowState /\ s.base = a /\ s.acc = 1 /\ s.overflown = FALSE
<1> TAKE a \in Pattern
<1>1. FirstState(a) = [base |-> a, acc |-> 1, overflown |-> FALSE]
    BY Zenon DEF FirstState, ONE
<1>2. [base |-> a, acc |-> 1, overflown |-> FALSE] \in PowState
    BY OnePattern, PowStateIs
<1> QED
    BY <1>1, <1>2

RaisesWithin(g, val, l) ==
    \A a \in Pattern, e \in Exponent : e >= 1 =>
        \A f, h : Powers(f, a, e) /\ Powers(h, val[a], e) =>
            g[e][FirstState(a)] = <<f[e] % N, h[e] \notin (-l)..(l - 1)>>

LEMMA FirstPower ==
    \A mul, val, l, g : Multiplies(mul, val, l) /\ Raises(g, mul) /\ val[1] = 1 => RaisesWithin(g, val, l)
<1> TAKE mul, val, l, g
<1>1. HAVE Multiplies(mul, val, l) /\ Raises(g, mul) /\ val[1] = 1
<1> SUFFICES ASSUME NEW a \in Pattern, NEW e \in Exponent, e >= 1,
                    NEW f, NEW h, Powers(f, a, e), Powers(h, val[a], e)
             PROVE  g[e][FirstState(a)] = <<f[e] % N, h[e] \notin (-l)..(l - 1)>>
    BY Zenon DEF RaisesWithin
<1>2. e >= 1
    OBVIOUS
<1>3. Powers(f, a, e) /\ Powers(h, val[a], e)
    OBVIOUS
<1>4. PICK s \in PowState : s = FirstState(a) /\ s.base = a /\ s.acc = 1 /\ s.overflown = FALSE
    BY FirstStateIs
<1>5. PowerWithin(g, val, l, U32_MAX)
    BY <1>1, PowLoopIs
<1>6. e <= U32_MAX /\ e \in Nat
    BY WidthsAssumption DEF Exponent
<1>7. Tame(val[s.base], val[s.acc])
    BY <1>1, <1>4, Zenon DEF Tame
<1>8. PowerIs(g[e][s], val, l, s, f, h, e)
    BY <1>2, <1>3, <1>4, <1>5, <1>6, <1>7, Zenon DEF PowerWithin
<1>9. f[e] \in Int /\ h[e] \in Int
    BY <1>3, <1>6 DEF Powers
<1>10. 1 * f[e] = f[e] /\ 1 * h[e] = h[e]
    BY <1>9
<1>11. PICK v \in BOOLEAN : v = (h[e] \notin (-l)..(l - 1))
    OBVIOUS
<1>12. v = (s.overflown \/ val[s.acc] * h[e] \notin (-l)..(l - 1))
    BY <1>1, <1>4, <1>10, <1>11, Zenon
<1>13. g[e][s] = <<f[e] % N, v>>
    BY <1>4, <1>8, <1>10, <1>12, Zenon DEF PowerIs
<1> QED
    BY <1>4, <1>11, <1>13, Zenon

\* Raising to a power: the pattern is the power's, and the flag says whether
\* the power itself is out of range, whatever overflowed on the way.
LEMMA UnsignedPowerIs ==
    \A a \in Pattern, e \in Exponent : \A f :
        Powers(f, a, e) => UOverflowingPow(a, e) = <<f[e] % N, f[e] \notin URange>>
<1> TAKE a \in Pattern, e \in Exponent
<1> TAKE f
<1>1. HAVE Powers(f, a, e)
<1>2. UOverflowingPow(a, e) = UPowLoop[e][FirstState(a)]
    BY Zenon DEF UOverflowingPow, FirstState
<1>3. e \in Nat /\ a \in Nat
    BY WidthsAssumption, PatternIs DEF Exponent
<1>4. CASE e = 0
    <2>1. f[e] = 1
        BY <1>1, <1>4 DEF Powers
    <2>2. UPowLoop[0][FirstState(a)] = <<1, FALSE>>
        <3>1. FirstState(a) \in PowState /\ FirstState(a).acc = 1 /\ FirstState(a).overflown = FALSE
            BY FirstStateIs, Zenon
        <3> QED
            BY <3>1, LoopsRaise
    <2>3. FALSE = (1 \notin URange)
        BY OnePattern
    <2> QED
        BY <1>2, <1>4, <2>1, <2>2, <2>3, OnePattern, Zenon
<1>5. CASE e # 0
    <2>1. e >= 1
        BY <1>3, <1>5
    <2>2. UValue[a] = a /\ UValue[1] = 1
        BY OnePattern, TimesIs, Zenon
    <2>3. Powers(f, UValue[a], e)
        BY <1>1, <2>2, Zenon
    <2>4. RaisesWithin(UPowLoop, UValue, N)
        BY <2>2, UnsignedMultiplies, LoopsRaise, FirstPower, Zenon
    <2>5. UPowLoop[e][FirstState(a)] = <<f[e] % N, f[e] \notin (-N)..(N - 1)>>
        BY <1>1, <2>1, <2>3, <2>4, Zenon DEF RaisesWithin
    <2>6. f[e] \in Nat
        <3>1. e \in 0..e
            BY <1>3
        <3>2. f[e] < 0 => a < 0
            BY <1>1, <1>3, <3>1, PowerSigns
        <3>3. f[e] \in Int
            BY <1>1, <3>1 DEF Powers
        <3> QED
            BY <1>3, <3>2, <3>3
    <2>7. (f[e] \notin (-N)..(N - 1)) = (f[e] \notin URange)
        BY <2>6, NaturalSpan, Zenon
    <2> QED
        BY <1>2, <2>5, <2>7, Zenon
<1> QED
    BY <1>4, <1>5

LEMMA SignedPowerIs ==
    \A a \in Pattern, e \in Exponent : \A f, h :
        Powers(f, a, e) /\ Powers(h, AsSigned(a), e)
        => IOverflowingPow(a, e) = <<f[e] % N, h[e] \notin IRange>>
<1> TAKE a \in Pattern, e \in Exponent
<1> TAKE f, h
<1>1. HAVE Powers(f, a, e) /\ Powers(h, AsSigned(a), e)
<1>2. IOverflowingPow(a, e) = IPowLoop[e][FirstState(a)]
    BY Zenon DEF IOverflowingPow, FirstState
<1>3. e \in Nat
    BY WidthsAssumption DEF Exponent
<1>4. CASE e = 0
    <2>1. f[e] = 1 /\ h[e] = 1
        BY <1>1, <1>4 DEF Powers
    <2>2. IPowLoop[0][FirstState(a)] = <<1, FALSE>>
        <3>1. FirstState(a) \in PowState
            BY FirstStateIs, Zenon
        <3> QED
            BY <3>1, LoopsRaise DEF ONE
    <2>3. FALSE = (1 \notin IRange)
        BY OnePattern
    <2> QED
        BY <1>2, <1>4, <2>1, <2>2, <2>3, OnePattern, Zenon
<1>5. CASE e # 0
    <2>1. e >= 1
        BY <1>3, <1>5
    <2>2. IValue[a] = AsSigned(a) /\ IValue[1] = 1
        BY OnePattern, TimesIs, Zenon
    <2>3. Powers(h, IValue[a], e)
        BY <1>1, <2>2, Zenon
    <2>4. RaisesWithin(IPowLoop, IValue, IMIN)
        BY <2>2, SignedMultiplies, LoopsRaise, FirstPower, Zenon
    <2>5. IPowLoop[e][FirstState(a)] = <<f[e] % N, h[e] \notin (-IMIN)..(IMIN - 1)>>
        BY <1>1, <2>1, <2>3, <2>4, Zenon DEF RaisesWithin
    <2>6. IRange = (-IMIN)..(IMIN - 1)
        BY Zenon DEF IRange, IMIN
    <2> QED
        BY <1>2, <2>5, <2>6, Zenon
<1> QED
    BY <1>4, <1>5

-----------------------------------------------------------------------------
(* The powers the results are measured against *)

\* Powers with a reduction of every product, for which the reduction of the
\* product is all that counts.
Reduces(red) == red \in [Int -> Int] /\ red[1] = 1 /\ \A t, v \in Int : red[red[t] * v] = red[t * v]
ReducedStep(g, red, n, v) == IF n = 0 THEN 1 ELSE red[g[n - 1][v] * v]
Reduced(g, red) == g = [n \in Exponent |-> [v \in Int |-> ReducedStep(g, red, n, v)]]

LEMMA ReducedExists == \A red : Reduces(red) => \E g : Reduced(g, red)
<1> SUFFICES ASSUME NEW red, Reduces(red) PROVE \E g : Reduced(g, red)
    OBVIOUS
<1> DEFINE V == [Int -> Int]
           next(F) == [v \in Int |-> red[F[v] * v]]
           step == [F \in V |-> next(F)]
           base == [v \in Int |-> 1]
<1>1. ASSUME NEW F \in V PROVE next(F) \in V
    <2>1. ASSUME NEW v \in Int PROVE red[F[v] * v] \in Int
        <3>1. F[v] * v \in Int
            <4>1. F[v] \in Int
                OBVIOUS
            <4> QED
                BY <4>1
        <3> QED
            BY <3>1 DEF Reduces
    <2> QED
        BY <2>1
<1>2. step \in [V -> V] /\ base \in V
    <2>1. base \in V
        OBVIOUS
    <2> QED
        BY <1>1, <2>1, Zenon
<1>3. \A F \in V : step[F] = next(F)
    BY Zenon
<1>4. U32_MAX \in Nat
    BY WidthsAssumption
<1>5. \A v \in Int : base[v] = 1
    BY Zenon
<1> HIDE DEF V, step, base, next
<1>6. PICK g \in [0..U32_MAX -> V] : Iterates(g, U32_MAX, base, step)
    BY <1>2, <1>4, Iterate
<1>7. \A n \in Exponent : n = 0 \/ (n \in 1..U32_MAX /\ n - 1 \in 0..U32_MAX)
    BY <1>4 DEF Exponent
<1>8. ASSUME NEW n \in Exponent PROVE g[n] = [v \in Int |-> ReducedStep(g, red, n, v)]
    <2>1. g[n] \in V
        BY DEF Exponent
    <2>2. g[n] = [v \in Int |-> g[n][v]]
        BY <2>1 DEF V
    <2>3. ASSUME NEW v \in Int PROVE g[n][v] = ReducedStep(g, red, n, v)
        <3>1. CASE n = 0
            <4>1. g[0] = base
                BY <1>6, Zenon DEF Iterates
            <4> QED
                BY <1>5, <3>1, <4>1, Zenon DEF ReducedStep
        <3>2. CASE n # 0
            <4>1. n \in 1..U32_MAX /\ n - 1 \in 0..U32_MAX
                BY <1>7, <3>2, Zenon
            <4>2. g[n] = step[g[n - 1]] /\ g[n - 1] \in V
                BY <1>6, <4>1, Zenon DEF Iterates
            <4>3. g[n] = next(g[n - 1])
                BY <1>3, <4>2, Zenon
            <4>4. g[n][v] = red[g[n - 1][v] * v]
                BY <4>3, Zenon DEF next
            <4> QED
                BY <3>2, <4>4, Zenon DEF ReducedStep
        <3> QED
            BY <3>1, <3>2
    <2> QED
        BY <2>2, <2>3, Zenon
<1>9. g = [n \in Exponent |-> g[n]]
    BY DEF Exponent
<1>10. g = [n \in Exponent |-> [v \in Int |-> ReducedStep(g, red, n, v)]]
    BY <1>8, <1>9, Zenon
<1> QED
    BY <1>10, Zenon DEF Reduced

HasPowers(g, red) == \A v \in Int, e \in Exponent : \A f : Powers(f, v, e) => g[e][v] = red[f[e]]

LEMMA ReducedPower == \A red, g : Reduces(red) /\ Reduced(g, red) => HasPowers(g, red)
<1> TAKE red, g
<1> HAVE Reduces(red) /\ Reduced(g, red)
<1> SUFFICES ASSUME NEW v \in Int, NEW m \in Exponent, NEW f, Powers(f, v, m)
             PROVE  g[m][v] = red[f[m]]
    BY Zenon DEF HasPowers
<1>0. U32_MAX \in Nat /\ m \in Nat /\ m <= U32_MAX
    BY WidthsAssumption DEF Exponent
<1>1. ASSUME NEW n \in Exponent PROVE g[n][v] = ReducedStep(g, red, n, v)
    <2>1. g[n] = [u \in Int |-> ReducedStep(g, red, n, u)]
        BY Zenon DEF Reduced
    <2> QED
        BY <2>1, Zenon
<1> DEFINE G == {n \in Nat : n <= m => g[n][v] = red[f[n]]}
<1>2. 0 \in G
    <2>1. f[0] = 1
        BY DEF Powers
    <2>2. g[0][v] = 1
        <3>1. 0 \in Exponent
            BY <1>0 DEF Exponent
        <3> QED
            BY <1>1, <3>1, Zenon DEF ReducedStep
    <2>3. g[0][v] = red[f[0]]
        BY <2>1, <2>2, Zenon DEF Reduces
    <2> QED
        BY <2>3
<1>3. ASSUME NEW n \in Nat, n \in G PROVE n + 1 \in G
    <2> SUFFICES ASSUME n + 1 <= m PROVE g[n + 1][v] = red[f[n + 1]]
        OBVIOUS
    <2>1. n + 1 \in Exponent /\ n + 1 # 0 /\ (n + 1) - 1 = n
        BY <1>0 DEF Exponent
    <2>2. PICK t \in Int : t = f[n] /\ f[n + 1] = t * v
        BY <1>0, PowersStep
    <2>3. g[n][v] = red[t]
        BY <1>0, <1>3, <2>2
    <2>4. g[n + 1][v] = red[g[n][v] * v]
        BY <1>1, <2>1, Zenon DEF ReducedStep
    <2>5. red[red[t] * v] = red[t * v]
        BY Zenon DEF Reduces
    <2> QED
        BY <2>2, <2>3, <2>4, <2>5, Zenon
<1>4. Nat \subseteq G
    <2> HIDE DEF G
    <2> QED
        BY <1>2, <1>3, NatClosure
<1> QED
    BY <1>0, <1>4

\* A number is saturated where its magnitude reaches N.
LEMMA SaturatedIs ==
    \A v \in Int, n \in Nat : n = N =>
        /\ Saturated(v) \in Int
        /\ AbsOf(v) < n => Saturated(v) = v
        /\ ~(AbsOf(v) < n) /\ v < 0 => Saturated(v) = -n
        /\ ~(AbsOf(v) < n) /\ ~(v < 0) => Saturated(v) = n
BY DEF Saturated

LEMMA TimesSign ==
    \A t, v \in Int : /\ v = 0 => t * v = 0
                      /\ t # 0 /\ v # 0 => (t * v < 0 <=> ~(t < 0 <=> v < 0))
                      /\ v # 0 => AbsOf(t * v) >= AbsOf(t)
<1> SUFFICES ASSUME NEW t \in Int, NEW v \in Int
             PROVE  /\ v = 0 => t * v = 0
                    /\ t # 0 /\ v # 0 => (t * v < 0 <=> ~(t < 0 <=> v < 0))
                    /\ v # 0 => AbsOf(t * v) >= AbsOf(t)
    OBVIOUS
<1>1. PICK a \in Nat, b \in Nat, p \in Nat : SignedTimes(t, v, a, b, p)
    BY SignedTimesIs
<1>2. /\ a = (IF t < 0 THEN -t ELSE t) /\ b = (IF v < 0 THEN -v ELSE v) /\ p = a * b
      /\ t * v = IF (t < 0) = (v < 0) THEN p ELSE -p
    BY <1>1 DEF SignedTimes
<1>3. b >= 1 => p >= a
    <2>1. 1 <= b => a * 1 <= a * b
        BY TimesUp
    <2>2. a * 1 = a
        OBVIOUS
    <2>3. PICK y \in Int : y = a * b
        OBVIOUS
    <2> QED
        BY <1>2, <2>1, <2>2, <2>3
<1>4. v = 0 => t * v = 0
    OBVIOUS
<1>5. PICK z \in Int : z = t * v
    OBVIOUS
<1>6. /\ (t < 0 <=> v < 0) => z = p
      /\ ~(t < 0 <=> v < 0) => z = -p
    BY <1>2, <1>5
<1>7. (t # 0 => a >= 1) /\ (v # 0 => b >= 1) /\ a = AbsOf(t)
    BY <1>2 DEF AbsOf
<1>8. t # 0 /\ v # 0 => (z < 0 <=> ~(t < 0 <=> v < 0))
    BY <1>3, <1>6, <1>7
<1>9. v # 0 => AbsOf(z) >= AbsOf(t)
    <2>1. AbsOf(z) = p
        BY <1>6 DEF AbsOf
    <2> QED
        BY <1>3, <1>7, <2>1
<1> QED
    BY <1>4, <1>5, <1>8, <1>9, Zenon

LEMMA SaturatedTimes ==
    \A t, v \in Int : Saturated(Saturated(t) * v) = Saturated(t * v)
<1> SUFFICES ASSUME NEW t \in Int, NEW v \in Int PROVE Saturated(Saturated(t) * v) = Saturated(t * v)
    OBVIOUS
<1>1. PICK n \in Nat : n = N /\ n >= 1
    BY Bases
<1>2. CASE AbsOf(t) < n
    BY <1>1, <1>2, SaturatedIs, Zenon
<1>3. CASE ~(AbsOf(t) < n)
    <2>1. PICK s \in Int : s = Saturated(t) /\ (t < 0 => s = -n) /\ (~(t < 0) => s = n)
        BY <1>1, <1>3, SaturatedIs
    <2>2. (s < 0 <=> t < 0) /\ s # 0 /\ t # 0 /\ AbsOf(s) >= n /\ AbsOf(t) >= n
        BY <1>1, <1>3, <2>1 DEF AbsOf
    <2>3. CASE v = 0
        <3>1. s * v = 0 /\ t * v = 0
            BY <2>3
        <3> QED
            BY <2>1, <3>1, Zenon
    <2>4. CASE v # 0
        <3>1. PICK x \in Int, y \in Int : x = s * v /\ y = t * v
            OBVIOUS
        <3>2. (x < 0 <=> ~(s < 0 <=> v < 0)) /\ AbsOf(x) >= AbsOf(s)
            BY <2>2, <2>4, <3>1, TimesSign, Zenon
        <3>3. (y < 0 <=> ~(t < 0 <=> v < 0)) /\ AbsOf(y) >= AbsOf(t)
            BY <2>2, <2>4, <3>1, TimesSign, Zenon
        <3>4. (x < 0 <=> y < 0) /\ ~(AbsOf(x) < n) /\ ~(AbsOf(y) < n)
            BY <2>2, <3>2, <3>3, AbsIs
        <3>5. Saturated(x) = Saturated(y)
            BY <1>1, <3>4, SaturatedIs
        <3> QED
            BY <2>1, <3>1, <3>5, Zenon
    <2> QED
        BY <2>3, <2>4
<1> QED
    BY <1>2, <1>3

LEMMA SmallOne == Saturated(1) = 1
<1>1. PICK n \in Nat : n = N /\ n >= 2
    <2>1. PICK m \in Nat, w \in Nat : m = M /\ w = N /\ m < w /\ m >= 4
        BY Bases, PatternIs
    <2>2. w >= 2
        BY <2>1
    <2> QED
        BY <2>1, <2>2, Zenon
<1>2. AbsOf(1) < n
    BY <1>1 DEF AbsOf
<1>3. 1 \in Int
    OBVIOUS
<1> QED
    BY <1>1, <1>2, <1>3, SaturatedIs, Zenon

LEMMA ExponentBelow ==
    0 \in Exponent /\ \A n \in Exponent : n \in Nat /\ n \in 0..n /\ (n # 0 => n - 1 \in Exponent)
BY WidthsAssumption DEF Exponent

Whole(h) == \A n \in Exponent, v \in Int : h[n][v] \in Int

LEMMA WholeStep ==
    \A h : /\ \A v \in Int : h[0][v] \in Int
           /\ \A n \in Exponent : n # 0 /\ (\A v \in Int : h[n - 1][v] \in Int) => \A v \in Int : h[n][v] \in Int
           => Whole(h)
<1> SUFFICES ASSUME NEW h, \A v \in Int : h[0][v] \in Int,
                    \A n \in Exponent : n # 0 /\ (\A v \in Int : h[n - 1][v] \in Int) => \A v \in Int : h[n][v] \in Int
             PROVE  Whole(h)
    OBVIOUS
<1> DEFINE Good(n) == \A v \in Int : h[n][v] \in Int
           G == {n \in Nat : n \in Exponent => Good(n)}
<1>1. \A n \in Exponent : n # 0 /\ Good(n - 1) => Good(n)
    BY Zenon
<1>2. 0 \in G
    OBVIOUS
<1> HIDE DEF Good
<1>3. ASSUME NEW n \in Nat, n \in G PROVE n + 1 \in G
    <2> SUFFICES ASSUME n + 1 \in Exponent PROVE Good(n + 1)
        OBVIOUS
    <2>1. (n + 1) - 1 = n /\ n + 1 # 0
        OBVIOUS
    <2>2. n \in Exponent
        BY <2>1, ExponentBelow
    <2>3. Good((n + 1) - 1)
        BY <1>3, <2>1, <2>2
    <2> QED
        BY <1>1, <2>1, <2>3, Zenon
<1>4. Nat \subseteq G
    <2> HIDE DEF G
    <2> QED
        BY <1>2, <1>3, NatClosure
<1>5. \A n \in Exponent : Good(n)
    BY <1>4, ExponentBelow
<1> QED
    BY <1>5, Zenon DEF Good, Whole

LEMMA ModuloTimes == \A t, v \in Int : ((t % N) * v) % N = (t * v) % N
<1> TAKE t, v \in Int
<1>1. PICK s \in Int : s = t % N /\ s % N = t % N
    <2>1. t % N \in Int
        BY OwnModulo, PatternIs
    <2> QED
        BY <2>1, OwnModulo, Zenon
<1>2. (s * v) % N = ((s % N) * (v % N)) % N
    BY ModuloProduct, Zenon
<1>3. (t * v) % N = ((t % N) * (v % N)) % N
    BY ModuloProduct, Zenon
<1> QED
    BY <1>1, <1>2, <1>3, Zenon

LEMMA PowerIsSaturated ==
    \A v \in Int, e \in Exponent : \A f : Powers(f, v, e) => Power[e][v] = Saturated(f[e])
<1> DEFINE red == [t \in Int |-> Saturated(t)]
<1>1. \A t \in Int : red[t] = Saturated(t)
    BY Zenon
<1>2. \A t \in Int : Saturated(t) \in Int
    BY SaturatedIs, Bases
<1>3. red \in [Int -> Int]
    BY <1>2, Zenon
<1> HIDE DEF red
<1>4. \A t, v \in Int : red[red[t] * v] = red[t * v]
    <2> TAKE t, v \in Int
    <2>1. PICK s \in Int : s = Saturated(t)
        BY <1>2
    <2>2. s * v \in Int /\ t * v \in Int
        OBVIOUS
    <2> QED
        BY <1>1, <2>1, <2>2, SaturatedTimes, Zenon
<1>5. Reduces(red)
    <2>1. 1 \in Int
        OBVIOUS
    <2> QED
        BY <1>1, <1>3, <1>4, <2>1, SmallOne, Zenon DEF Reduces
<1>6. PICK g : Reduced(g, red)
    BY <1>5, ReducedExists, Zenon
<1>7. \A h : Whole(h) => \A n \in Exponent, v \in Int :
            (IF n = 0 THEN 1 ELSE Saturated(h[n - 1][v] * v)) = ReducedStep(h, red, n, v)
    <2> TAKE h
    <2>1. HAVE Whole(h)
    <2> TAKE n \in Exponent, v \in Int
    <2>2. CASE n = 0
        BY <2>2, Zenon DEF ReducedStep
    <2>3. CASE n # 0
        <3>1. n - 1 \in Exponent
            BY <2>3, ExponentBelow
        <3>2. PICK t \in Int : t = h[n - 1][v]
            BY <2>1, <3>1, Zenon DEF Whole
        <3>3. PICK p \in Int : p = t * v
            OBVIOUS
        <3> QED
            BY <1>1, <2>3, <3>2, <3>3, Zenon DEF ReducedStep
    <2> QED
        BY <2>2, <2>3
<1>8. Whole(g)
    <2>1. ASSUME NEW n \in Exponent, NEW v \in Int PROVE g[n][v] \in Int
        <3>1. n \in Nat
            BY ExponentBelow
        <3>2. PICK f : Powers(f, v, n)
            BY <3>1, PowersExist, Zenon
        <3>3. f[n] \in Int
            BY <3>1, <3>2 DEF Powers
        <3>4. HasPowers(g, red)
            BY <1>5, <1>6, ReducedPower, Zenon
        <3>5. g[n][v] = red[f[n]]
            BY <3>2, <3>4, Zenon DEF HasPowers
        <3> QED
            BY <1>1, <1>2, <3>3, <3>5, Zenon
    <2> QED
        BY <2>1, Zenon DEF Whole
<1>9. \A n \in Exponent, v \in Int : (IF n = 0 THEN 1 ELSE Saturated(g[n - 1][v] * v)) = ReducedStep(g, red, n, v)
    BY <1>7, <1>8, Zenon
<1>10. g = [n \in Exponent |-> [v \in Int |-> IF n = 0 THEN 1 ELSE Saturated(g[n - 1][v] * v)]]
    <2>1. [n \in Exponent |-> [v \in Int |-> IF n = 0 THEN 1 ELSE Saturated(g[n - 1][v] * v)]]
          = [n \in Exponent |-> [v \in Int |-> ReducedStep(g, red, n, v)]]
        BY <1>9, Zenon
    <2> QED
        BY <1>6, <2>1, Zenon DEF Reduced
<1>11. \E h : h = [n \in Exponent |-> [v \in Int |-> IF n = 0 THEN 1 ELSE Saturated(h[n - 1][v] * v)]]
    BY <1>10
<1>12. Power = [n \in Exponent |-> [v \in Int |-> IF n = 0 THEN 1 ELSE Saturated(Power[n - 1][v] * v)]]
    BY <1>11, Zenon DEF Power
<1>13. ASSUME NEW n \in Exponent, NEW v \in Int PROVE Power[n][v] = IF n = 0 THEN 1 ELSE Saturated(Power[n - 1][v] * v)
    <2>1. Power[n] = [u \in Int |-> IF n = 0 THEN 1 ELSE Saturated(Power[n - 1][u] * u)]
        BY <1>12, Zenon
    <2> QED
        BY <2>1, Zenon
<1>14. Whole(Power)
    <2>1. \A v \in Int : Power[0][v] \in Int
        <3>1. 0 \in Exponent /\ 1 \in Int
            BY ExponentBelow
        <3> QED
            BY <1>13, <3>1, Zenon
    <2>2. \A n \in Exponent : n # 0 /\ (\A v \in Int : Power[n - 1][v] \in Int) => \A v \in Int : Power[n][v] \in Int
        <3> SUFFICES ASSUME NEW n \in Exponent, n # 0, \A v \in Int : Power[n - 1][v] \in Int, NEW v \in Int
                     PROVE  Power[n][v] \in Int
            BY Zenon
        <3>1. PICK t \in Int : t = Power[n - 1][v]
            BY Zenon
        <3>2. PICK p \in Int : p = t * v
            OBVIOUS
        <3> QED
            BY <1>2, <1>13, <3>1, <3>2, Zenon
    <2> QED
        BY <2>1, <2>2, WholeStep, Zenon
<1>15. \A n \in Exponent, v \in Int :
            (IF n = 0 THEN 1 ELSE Saturated(Power[n - 1][v] * v)) = ReducedStep(Power, red, n, v)
    BY <1>7, <1>14, Zenon
<1>16. Reduced(Power, red)
    <2>1. [n \in Exponent |-> [v \in Int |-> IF n = 0 THEN 1 ELSE Saturated(Power[n - 1][v] * v)]]
          = [n \in Exponent |-> [v \in Int |-> ReducedStep(Power, red, n, v)]]
        BY <1>15, Zenon
    <2> QED
        BY <1>12, <2>1, Zenon DEF Reduced
<1>17. \A v \in Int, e \in Exponent : \A f : Powers(f, v, e) => Power[e][v] = red[f[e]]
    <2>1. HasPowers(Power, red)
        BY <1>5, <1>16, ReducedPower, Zenon
    <2> QED
        BY <2>1, Zenon DEF HasPowers
<1>18. \A v \in Int, e \in Exponent : \A f : Powers(f, v, e) => f[e] \in Int
    <2> SUFFICES ASSUME NEW v \in Int, NEW e \in Exponent, NEW f, Powers(f, v, e) PROVE f[e] \in Int
        BY Zenon
    <2>1. e \in 0..e
        BY ExponentBelow
    <2> QED
        BY <2>1 DEF Powers
<1> QED
    BY <1>1, <1>17, <1>18, Zenon

LEMMA PowerModIs ==
    \A v \in Int, e \in Exponent : \A f : Powers(f, v, e) => PowerMod[e][v] = f[e] % N
<1> DEFINE red == [t \in Int |-> t % N]
<1>1. \A t \in Int : red[t] = t % N
    BY Zenon
<1>2. \A t \in Int : t % N \in Int
    BY OwnModulo, PatternIs
<1>3. red \in [Int -> Int]
    BY <1>2, Zenon
<1> HIDE DEF red
<1>4. \A t, v \in Int : red[red[t] * v] = red[t * v]
    <2> TAKE t, v \in Int
    <2>1. PICK s \in Int : s = t % N
        BY <1>2
    <2>2. s * v \in Int /\ t * v \in Int
        OBVIOUS
    <2> QED
        BY <1>1, <2>1, <2>2, ModuloTimes, Zenon
<1>5. Reduces(red)
    <2>1. 1 \in Int
        OBVIOUS
    <2> QED
        BY <1>1, <1>3, <1>4, <2>1, OnePattern, Zenon DEF Reduces
<1>6. PICK g : Reduced(g, red)
    BY <1>5, ReducedExists, Zenon
<1>7. \A h : Whole(h) => \A n \in Exponent, v \in Int :
            (IF n = 0 THEN 1 ELSE (h[n - 1][v] * v) % N) = ReducedStep(h, red, n, v)
    <2> TAKE h
    <2>1. HAVE Whole(h)
    <2> TAKE n \in Exponent, v \in Int
    <2>2. CASE n = 0
        BY <2>2, Zenon DEF ReducedStep
    <2>3. CASE n # 0
        <3>1. n - 1 \in Exponent
            BY <2>3, ExponentBelow
        <3>2. PICK t \in Int : t = h[n - 1][v]
            BY <2>1, <3>1, Zenon DEF Whole
        <3>3. PICK p \in Int : p = t * v
            OBVIOUS
        <3> QED
            BY <1>1, <2>3, <3>2, <3>3, Zenon DEF ReducedStep
    <2> QED
        BY <2>2, <2>3
<1>8. Whole(g)
    <2>1. ASSUME NEW n \in Exponent, NEW v \in Int PROVE g[n][v] \in Int
        <3>1. n \in Nat
            BY ExponentBelow
        <3>2. PICK f : Powers(f, v, n)
            BY <3>1, PowersExist, Zenon
        <3>3. f[n] \in Int
            BY <3>1, <3>2 DEF Powers
        <3>4. HasPowers(g, red)
            BY <1>5, <1>6, ReducedPower, Zenon
        <3>5. g[n][v] = red[f[n]]
            BY <3>2, <3>4, Zenon DEF HasPowers
        <3> QED
            BY <1>1, <1>2, <3>3, <3>5, Zenon
    <2> QED
        BY <2>1, Zenon DEF Whole
<1>9. \A n \in Exponent, v \in Int : (IF n = 0 THEN 1 ELSE (g[n - 1][v] * v) % N) = ReducedStep(g, red, n, v)
    BY <1>7, <1>8, Zenon
<1>10. g = [n \in Exponent |-> [v \in Int |-> IF n = 0 THEN 1 ELSE (g[n - 1][v] * v) % N]]
    <2>1. [n \in Exponent |-> [v \in Int |-> IF n = 0 THEN 1 ELSE (g[n - 1][v] * v) % N]]
          = [n \in Exponent |-> [v \in Int |-> ReducedStep(g, red, n, v)]]
        BY <1>9, Zenon
    <2> QED
        BY <1>6, <2>1, Zenon DEF Reduced
<1>11. \E h : h = [n \in Exponent |-> [v \in Int |-> IF n = 0 THEN 1 ELSE (h[n - 1][v] * v) % N]]
    BY <1>10
<1>12. PowerMod = [n \in Exponent |-> [v \in Int |-> IF n = 0 THEN 1 ELSE (PowerMod[n - 1][v] * v) % N]]
    BY <1>11, Zenon DEF PowerMod
<1>13. ASSUME NEW n \in Exponent, NEW v \in Int PROVE PowerMod[n][v] = IF n = 0 THEN 1 ELSE (PowerMod[n - 1][v] * v) % N
    <2>1. PowerMod[n] = [u \in Int |-> IF n = 0 THEN 1 ELSE (PowerMod[n - 1][u] * u) % N]
        BY <1>12, Zenon
    <2> QED
        BY <2>1, Zenon
<1>14. Whole(PowerMod)
    <2>1. \A v \in Int : PowerMod[0][v] \in Int
        <3>1. 0 \in Exponent /\ 1 \in Int
            BY ExponentBelow
        <3> QED
            BY <1>13, <3>1, Zenon
    <2>2. \A n \in Exponent : n # 0 /\ (\A v \in Int : PowerMod[n - 1][v] \in Int) => \A v \in Int : PowerMod[n][v] \in Int
        <3> SUFFICES ASSUME NEW n \in Exponent, n # 0, \A v \in Int : PowerMod[n - 1][v] \in Int, NEW v \in Int
                     PROVE  PowerMod[n][v] \in Int
            BY Zenon
        <3>1. PICK t \in Int : t = PowerMod[n - 1][v]
            BY Zenon
        <3>2. PICK p \in Int : p = t * v
            OBVIOUS
        <3> QED
            BY <1>2, <1>13, <3>1, <3>2, Zenon
    <2> QED
        BY <2>1, <2>2, WholeStep, Zenon
<1>15. \A n \in Exponent, v \in Int :
            (IF n = 0 THEN 1 ELSE (PowerMod[n - 1][v] * v) % N) = ReducedStep(PowerMod, red, n, v)
    BY <1>7, <1>14, Zenon
<1>16. Reduced(PowerMod, red)
    <2>1. [n \in Exponent |-> [v \in Int |-> IF n = 0 THEN 1 ELSE (PowerMod[n - 1][v] * v) % N]]
          = [n \in Exponent |-> [v \in Int |-> ReducedStep(PowerMod, red, n, v)]]
        BY <1>15, Zenon
    <2> QED
        BY <1>12, <2>1, Zenon DEF Reduced
<1>17. \A v \in Int, e \in Exponent : \A f : Powers(f, v, e) => PowerMod[e][v] = red[f[e]]
    <2>1. HasPowers(PowerMod, red)
        BY <1>5, <1>16, ReducedPower, Zenon
    <2> QED
        BY <2>1, Zenon DEF HasPowers
<1>18. \A v \in Int, e \in Exponent : \A f : Powers(f, v, e) => f[e] \in Int
    <2> SUFFICES ASSUME NEW v \in Int, NEW e \in Exponent, NEW f, Powers(f, v, e) PROVE f[e] \in Int
        BY Zenon
    <2>1. e \in 0..e
        BY ExponentBelow
    <2> QED
        BY <2>1 DEF Powers
<1> QED
    BY <1>1, <1>17, <1>18, Zenon

\* Saturating at N changes nothing that the ranges and the clamps tell apart.
LEMMA SaturatedAlike ==
    \A q \in Int : LET p == Saturated(q)
                   IN /\ p \in Int
                      /\ q \in URange => p = q /\ p \in URange
                      /\ p \in URange => q \in URange
                      /\ q \in IRange => p = q /\ p \in IRange
                      /\ p \in IRange => q \in IRange
                      /\ UClamp(p) = UClamp(q) /\ IClamp(p) = IClamp(q)
<1> TAKE q \in Int
<1>1. PICK w \in Nat, i \in Nat : Spans(w, i)
    BY SpansAre
<1>2. /\ w = N /\ i = IMIN /\ w = 2 * i /\ i >= 8 /\ IMAX = i - 1
      /\ URange = 0..(w - 1) /\ IRange = (-i)..(i - 1)
    BY <1>1, Zenon DEF Spans
<1>3. PICK p \in Int : p = Saturated(q)
    BY <1>2, SaturatedIs
<1>4. /\ AbsOf(q) < w => p = q
      /\ ~(AbsOf(q) < w) /\ q < 0 => p = -w
      /\ ~(AbsOf(q) < w) /\ ~(q < 0) => p = w
    BY <1>2, <1>3, SaturatedIs
<1>5. \/ p = q
      \/ p = -w /\ q <= -w
      \/ p = w /\ q >= w
    BY <1>4 DEF AbsOf
<1>6. CASE p = q
    BY <1>3, <1>6, Zenon
<1>7. CASE p = -w /\ q <= -w
    <2>1. p \notin 0..(w - 1) /\ q \notin 0..(w - 1) /\ p \notin (-i)..(i - 1) /\ q \notin (-i)..(i - 1)
        BY <1>2, <1>7
    <2>2. p < 0 /\ q < 0 /\ p < -i /\ q < -i
        BY <1>2, <1>7
    <2>3. UClamp(p) = UClamp(q) /\ IClamp(p) = IClamp(q)
        BY <1>2, <2>2, Zenon DEF UClamp, IClamp
    <2> QED
        BY <1>2, <1>3, <2>1, <2>3, Zenon
<1>8. CASE p = w /\ q >= w
    <2>1. p \notin 0..(w - 1) /\ q \notin 0..(w - 1) /\ p \notin (-i)..(i - 1) /\ q \notin (-i)..(i - 1)
        BY <1>2, <1>8
    <2>2. /\ ~(p < 0) /\ ~(q < 0) /\ p >= w /\ q >= w
          /\ ~(p < -i) /\ ~(q < -i) /\ p > i - 1 /\ q > i - 1
        BY <1>2, <1>8
    <2>3. UClamp(p) = UClamp(q) /\ IClamp(p) = IClamp(q)
        BY <1>2, <2>2, Zenon DEF UClamp, IClamp
    <2> QED
        BY <1>2, <1>3, <2>1, <2>3, Zenon
<1> QED
    BY <1>5, <1>6, <1>7, <1>8

LEMMA UnsignedPowersExact == Registers => UPowers
<1> SUFFICES ASSUME Registers, rhs \in Exponent
             PROVE  LET p == Power[rhs][lhs]
                    IN /\ UOverflowingPow(lhs, rhs) = <<PowerMod[rhs][lhs], p \notin URange>>
                       /\ UCheckedPow(lhs, rhs) = (IF p \in URange THEN {p} ELSE {})
                       /\ {PowerMod[rhs][lhs]} = {UWrappingPow(lhs, rhs), UPow(lhs, rhs)}
                       /\ USaturatingPow(lhs, rhs) = UClamp(p)
    BY Zenon DEF UPowers
<1>1. PICK a \in Pattern, e \in Exponent : a = lhs /\ e = rhs
    BY DEF Registers
<1>2. a \in Nat /\ e \in Nat /\ e \in 0..e
    BY PatternIs, ExponentBelow
<1>3. PICK f : Powers(f, a, e)
    BY <1>2, PowersExist
<1>4. PICK q \in Nat : q = f[e]
    <2>1. f[e] \in Int
        BY <1>2, <1>3 DEF Powers
    <2>2. f[e] < 0 => a < 0
        BY <1>2, <1>3, PowerSigns
    <2> QED
        BY <1>2, <2>1, <2>2
<1>5. PICK m : m = q % N
    OBVIOUS
<1>6. PICK p \in Int : p = Saturated(q)
    BY SaturatedAlike
<1>7. Power[e][a] = p /\ PowerMod[e][a] = m
    <2>1. a \in Int
        BY <1>2
    <2> QED
        BY <1>3, <1>4, <1>5, <1>6, <2>1, PowerIsSaturated, PowerModIs, Zenon
<1>8. PICK over \in BOOLEAN : over = (q \notin URange)
    OBVIOUS
<1>9. UOverflowingPow(a, e) = <<m, over>>
    BY <1>3, <1>4, <1>5, <1>8, UnsignedPowerIs, Zenon
<1>10. over = (p \notin URange) /\ (~over => p = q /\ m = p) /\ UClamp(p) = UClamp(q)
    <2>1. q \in Int
        OBVIOUS
    <2>2. q \in URange <=> p \in URange
        BY <1>6, <2>1, SaturatedAlike, Zenon
    <2>3. ~over => p = q /\ m = p
        BY <1>5, <1>6, <1>8, <2>1, SaturatedAlike, InURange, Zenon
    <2>4. UClamp(p) = UClamp(q)
        BY <1>6, <2>1, SaturatedAlike, Zenon
    <2> QED
        BY <1>8, <2>2, <2>3, <2>4, Zenon
<1>11. Checked(UOverflowingPow(a, e)) = (IF over THEN {} ELSE {m}) /\ Wrapped(UOverflowingPow(a, e)) = m
    BY <1>9, CheckedIs
<1>12. UCheckedPow(a, e) = (IF p \in URange THEN {p} ELSE {})
    BY <1>10, <1>11, Zenon DEF UCheckedPow
<1>13. {m} = {UWrappingPow(a, e), UPow(a, e)}
    BY <1>11, Zenon DEF UWrappingPow, UPow
<1>14. USaturatingPow(a, e) = UClamp(q)
    <2>1. q \in Int /\ ~(q < 0)
        OBVIOUS
    <2>2. UOverflowingPow(a, e) = <<q % N, q \notin URange>>
        BY <1>5, <1>8, <1>9, Zenon
    <2> QED
        BY <2>1, <2>2, UnsignedClamp, Zenon DEF USaturatingPow, UCheckedPow
<1>15. UOverflowingPow(a, e) = <<m, p \notin URange>>
    BY <1>9, <1>10, Zenon
<1> QED
    BY <1>1, <1>7, <1>10, <1>12, <1>13, <1>14, <1>15, Zenon

LEMMA SignedPowersExact == Registers => IPowers
<1> SUFFICES ASSUME Registers, rhs \in Exponent
             PROVE  LET p == Power[rhs][slhs]
                    IN /\ IOverflowingPow(lhs, rhs) = <<PowerMod[rhs][lhs], p \notin IRange>>
                       /\ ICheckedPow(lhs, rhs) = (IF p \in IRange THEN {Encode(p)} ELSE {})
                       /\ {PowerMod[rhs][lhs]} = {IWrappingPow(lhs, rhs), IPow(lhs, rhs)}
                       /\ ISaturatingPow(lhs, rhs) = IClamp(p)
    BY Zenon DEF IPowers
<1>1. PICK a \in Pattern, e \in Exponent : a = lhs /\ e = rhs
    BY DEF Registers
<1>2. a \in Nat /\ a \in Int /\ e \in Nat /\ e \in 0..e
    BY PatternIs, ExponentBelow
<1>3. PICK x \in Int : x = AsSigned(a) /\ x % N = a % N
    <2>1. PICK w \in Nat, i \in Nat : Spans(w, i)
        BY SpansAre
    <2>2. PICK n \in Nat, x \in Int : Read(a, n, x, w, i)
        BY <2>1, ReadIs
    <2>3. n = a /\ x = AsSigned(a) /\ w = N /\ (x = n \/ x = n - w)
        BY <2>1, <2>2, Zenon DEF Read, Spans
    <2>4. n \in Int
        OBVIOUS
    <2>5. x % N = a % N
        BY <2>3, <2>4, SameModulo, Zenon
    <2> QED
        BY <2>3, <2>5, Zenon
<1>4. slhs = x
    BY <1>1, <1>3, Zenon DEF slhs
<1>5. PICK f : Powers(f, a, e)
    BY <1>2, PowersExist
<1>6. PICK h : Powers(h, x, e)
    BY <1>2, PowersExist
<1>7. PICK q \in Int : q = h[e]
    BY <1>2, <1>6 DEF Powers
<1>8. PICK m : m = f[e] % N /\ m = q % N
    <2>1. \A n \in 0..e : h[n] % N = f[n] % N
        BY <1>2, <1>3, <1>5, <1>6, SamePowers
    <2> QED
        BY <1>2, <1>7, <2>1, Zenon
<1>9. PICK p \in Int : p = Saturated(q)
    BY SaturatedAlike
<1>10. Power[e][x] = p /\ PowerMod[e][a] = m
    <2>1. Power[e][x] = Saturated(h[e])
        BY <1>6, PowerIsSaturated
    <2>2. PowerMod[e][a] = f[e] % N
        BY <1>2, <1>5, PowerModIs
    <2> QED
        BY <1>7, <1>8, <1>9, <2>1, <2>2, Zenon
<1>11. PICK over \in BOOLEAN : over = (q \notin IRange)
    OBVIOUS
<1>12. IOverflowingPow(a, e) = <<m, over>>
    <2>1. Powers(h, AsSigned(a), e)
        BY <1>3, <1>6, Zenon
    <2>2. IOverflowingPow(a, e) = <<f[e] % N, h[e] \notin IRange>>
        BY <1>5, <2>1, SignedPowerIs
    <2> QED
        BY <1>7, <1>8, <1>11, <2>2, Zenon
<1>13. over = (p \notin IRange) /\ (~over => p = q) /\ IClamp(p) = IClamp(q)
    <2>1. q \in IRange <=> p \in IRange
        BY <1>9, SaturatedAlike, Zenon
    <2>2. ~over => p = q
        BY <1>9, <1>11, SaturatedAlike, Zenon
    <2>3. IClamp(p) = IClamp(q)
        BY <1>9, SaturatedAlike, Zenon
    <2> QED
        BY <1>11, <2>1, <2>2, <2>3, Zenon
<1>14. Checked(IOverflowingPow(a, e)) = (IF over THEN {} ELSE {m}) /\ Wrapped(IOverflowingPow(a, e)) = m
    BY <1>12, CheckedIs
<1>15. ICheckedPow(a, e) = (IF p \in IRange THEN {Encode(p)} ELSE {})
    BY <1>8, <1>13, <1>14, Zenon DEF ICheckedPow, Encode
<1>16. {m} = {IWrappingPow(a, e), IPow(a, e)}
    BY <1>14, Zenon DEF IWrappingPow, IPow
<1>17. ISaturatingPow(a, e) = IClamp(q)
    <2>1. IOverflowingPow(a, e) = <<Encode(q), q \notin IRange>>
        BY <1>8, <1>11, <1>12, Zenon DEF Encode
    <2>2. ILt(a, 0) = (x < 0)
        BY <1>3, SignOf, Zenon
    <2>3. (q < 0 => x < 0 /\ e % 2 = 1) /\ (x < 0 /\ e % 2 = 1 => q < 0)
        BY <1>2, <1>6, <1>7, PowerSigns
    <2>4. (IF ILt(a, 0) /\ e % 2 = 1 THEN IMIN ELSE IMAX) = IF q < 0 THEN IMIN ELSE IMAX
        BY <2>2, <2>3, Zenon
    <2> QED
        BY <2>1, <2>4, SignedClamp, Zenon DEF ISaturatingPow, ICheckedPow
<1>18. IOverflowingPow(a, e) = <<m, p \notin IRange>>
    BY <1>12, <1>13, Zenon
<1> QED
    BY <1>1, <1>4, <1>10, <1>13, <1>15, <1>16, <1>17, <1>18, Zenon

\* Every sum, difference, product, negation, magnitude and power of two
\* registers is what integer arithmetic says, in its overflowing, checked,
\* wrapping and saturating forms (uint/api.rs, int/api.rs).
THEOREM ArithmeticIsExact == Spec => []ArithmeticExact
<1>1. Registers => ArithmeticExact
    BY UnsignedExact, SignedExact, UnsignedPowersExact, SignedPowersExact, Zenon DEF ArithmeticExact
<1> QED
    BY <1>1, RegistersHoldPatterns, PTL

===============================================================================
