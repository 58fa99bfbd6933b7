----------------------------- MODULE SumTheorems -----------------------------
(***************************************************************************)
(* What SumOver computes on a finite set: the recursive function is well   *)
(* defined, changing one account changes the total by the difference, one  *)
(* taken away takes its amount, totals add up and respect an order between *)
(* accounts.  Induction is over sets, not predicates: a set of naturals or *)
(* of subsets that the step closes is everything.                          *)
(***************************************************************************)
EXTENDS Sums, FiniteSetTheorems, WellFoundedInduction, TLAPS

\* A set of naturals that has 0 and every successor is Nat.
LEMMA NatClosure ==
    ASSUME NEW G, 0 \in G, \A n \in Nat : n \in G => n + 1 \in G
    PROVE  Nat \subseteq G
<1> DEFINE Bad == {n \in Nat : n \notin G}
<1>1. SUFFICES ASSUME Bad # {} PROVE FALSE
    OBVIOUS
<1>2. PICK m \in Bad : \A k \in Bad : ~(<<k, m>> \in OpToRel(<, Nat))
    BY <1>1, WFMin, NatLessThanWellFounded
<1>3. m # 0 /\ m - 1 \in Nat /\ <<m - 1, m>> \in OpToRel(<, Nat)
    BY DEF OpToRel
<1>4. m - 1 \in G
    BY <1>2, <1>3
<1>5. (m - 1) + 1 \in G
    BY <1>3, <1>4
<1>6. (m - 1) + 1 = m
    OBVIOUS
<1> QED
    BY <1>5, <1>6

\* A set of subsets of S that holds T once it holds every T \ {x} is SUBSET S.
LEMMA SubsetClosure ==
    ASSUME NEW S, IsFiniteSet(S), NEW G,
           \A T \in SUBSET S : (\A x \in T : T \ {x} \in G) => T \in G
    PROVE  SUBSET S \subseteq G
<1> DEFINE Bad == {T \in SUBSET S : T \notin G}
<1>1. SUFFICES ASSUME Bad # {} PROVE FALSE
    OBVIOUS
<1>2. IsWellFoundedOn(StrictSubsetOrdering(S), SUBSET S)
    BY FS_StrictSubsetOrderingWellFounded, FS_FiniteSubsetsOfFinite
<1>3. PICK T \in Bad : \A U \in Bad : ~(<<U, T>> \in StrictSubsetOrdering(S))
    BY <1>1, <1>2, WFMin
<1>4. ASSUME NEW x \in T PROVE T \ {x} \in G
    <2>1. T \ {x} \in SUBSET S /\ <<T \ {x}, T>> \in StrictSubsetOrdering(S)
        BY DEF StrictSubsetOrdering
    <2> QED
        BY <1>3, <2>1
<1> QED
    BY <1>4

\* The body of the recursive definition, with the function made explicit.
SumStep(f, g, T) ==
    IF T = {} THEN 0
    ELSE LET x == CHOOSE x \in T : TRUE IN f[x] + g[T \ {x}]

IsSum(f, g, S) == g = [T \in SUBSET S |-> SumStep(f, g, T)]

LEMMA SumStepInt ==
    ASSUME NEW S, NEW f \in [S -> Int], NEW g \in [SUBSET S -> Int], NEW T \in SUBSET S
    PROVE  SumStep(f, g, T) \in Int
<1>1. CASE T = {}
    BY <1>1 DEF SumStep
<1>2. CASE T # {}
    <2> DEFINE x == CHOOSE x \in T : TRUE
    <2>1. x \in T
        BY <1>2
    <2>2. f[x] \in Int /\ g[T \ {x}] \in Int
        BY <2>1
    <2> QED
        BY <1>2, <2>2 DEF SumStep
<1> QED
    BY <1>1, <1>2

\* By induction on the size up to which a function satisfies the equation.
LEMMA SumExists ==
    ASSUME NEW S, IsFiniteSet(S), NEW f \in [S -> Int]
    PROVE  \E g \in [SUBSET S -> Int] : IsSum(f, g, S)
<1> DEFINE Upto(n, g) == \A T \in SUBSET S : Cardinality(T) <= n => g[T] = SumStep(f, g, T)
           G == {n \in Nat : \E g \in [SUBSET S -> Int] : Upto(n, g)}
<1>1. \A T \in SUBSET S : IsFiniteSet(T) /\ Cardinality(T) \in Nat
    BY FS_Subset, FS_CardinalityType
<1>2. 0 \in G
    <2> DEFINE z == [T \in SUBSET S |-> 0]
    <2>1. z \in [SUBSET S -> Int]
        OBVIOUS
    <2>2. ASSUME NEW T \in SUBSET S, Cardinality(T) <= 0 PROVE z[T] = SumStep(f, z, T)
        <3>1. T = {}
            BY <1>1, <2>2, FS_EmptySet
        <3> QED
            BY <3>1 DEF SumStep
    <2>3. Upto(0, z)
        BY <2>2
    <2> QED
        BY <2>1, <2>3
<1>3. ASSUME NEW n \in Nat, n \in G PROVE n + 1 \in G
    <2>1. PICK g \in [SUBSET S -> Int] : Upto(n, g)
        BY <1>3
    <2> DEFINE h == [T \in SUBSET S |-> SumStep(f, g, T)]
    <2>2. h \in [SUBSET S -> Int]
        BY SumStepInt
    <2>3. ASSUME NEW T \in SUBSET S, Cardinality(T) <= n + 1 PROVE h[T] = SumStep(f, h, T)
        <3>1. CASE T = {}
            BY <3>1 DEF SumStep
        <3>2. CASE T # {}
            <4> DEFINE x == CHOOSE x \in T : TRUE
            <4>1. x \in T /\ T \ {x} \in SUBSET S
                BY <3>2
            <4>2. Cardinality(T \ {x}) = Cardinality(T) - 1
                BY <4>1, <1>1, FS_RemoveElement
            <4>3. Cardinality(T \ {x}) <= n
                BY <4>2, <2>3, <1>1
            <4>4. g[T \ {x}] = SumStep(f, g, T \ {x})
                BY <4>1, <4>3, <2>1
            <4>5. g[T \ {x}] = h[T \ {x}]
                BY <4>1, <4>4
            <4>6. SumStep(f, h, T) = f[x] + h[T \ {x}] /\ SumStep(f, g, T) = f[x] + g[T \ {x}]
                BY <3>2 DEF SumStep
            <4> QED
                BY <4>5, <4>6
        <3> QED
            BY <3>1, <3>2
    <2>4. Upto(n + 1, h)
        BY <2>3
    <2>5. \E k \in [SUBSET S -> Int] : Upto(n + 1, k)
        BY <2>2, <2>4
    <2> QED
        BY <2>5
<1>4. Cardinality(S) \in G
    <2>1. Nat \subseteq G
        BY <1>2, <1>3, NatClosure
    <2> QED
        BY <2>1, FS_CardinalityType
<1>5. PICK g \in [SUBSET S -> Int] : Upto(Cardinality(S), g)
    BY <1>4
<1>6. \A T \in SUBSET S : g[T] = SumStep(f, g, T)
    BY <1>5, FS_Subset
<1> QED
    BY <1>6 DEF IsSum

\* Two functions that satisfy the equation agree.
LEMMA SumUnique ==
    ASSUME NEW S, IsFiniteSet(S), NEW f, NEW g, NEW h, IsSum(f, g, S), IsSum(f, h, S)
    PROVE  \A T \in SUBSET S : g[T] = h[T]
<1> DEFINE G == {T \in SUBSET S : g[T] = h[T]}
<1>1. ASSUME NEW T \in SUBSET S, \A x \in T : T \ {x} \in G PROVE T \in G
    <2>1. g[T] = SumStep(f, g, T) /\ h[T] = SumStep(f, h, T)
        BY DEF IsSum
    <2>2. CASE T = {}
        BY <2>1, <2>2 DEF SumStep
    <2>3. CASE T # {}
        <3> DEFINE x == CHOOSE x \in T : TRUE
        <3>1. g[T \ {x}] = h[T \ {x}]
            BY <1>1, <2>3
        <3>2. SumStep(f, h, T) = f[x] + h[T \ {x}] /\ SumStep(f, g, T) = f[x] + g[T \ {x}]
            BY <2>3 DEF SumStep
        <3> QED
            BY <2>1, <3>1, <3>2
    <2> QED
        BY <2>2, <2>3
<1>2. \A T \in SUBSET S : (\A x \in T : T \ {x} \in G) => T \in G
    BY <1>1
<1>3. SUBSET S \subseteq G
    <2> HIDE DEF G
    <2> QED
        BY <1>2, SubsetClosure
<1> QED
    BY <1>3

\* SumOver is the value at S of a function that satisfies the equation.
LEMMA SumOverIs ==
    ASSUME NEW S, IsFiniteSet(S), NEW f \in [S -> Int]
    PROVE  \E g \in [SUBSET S -> Int] : IsSum(f, g, S) /\ SumOver(f, S) = g[S]
<1>1. PICK g \in [SUBSET S -> Int] : IsSum(f, g, S)
    BY SumExists
<1> DEFINE h == CHOOSE h : h = [T \in SUBSET S |->
                    IF T = {} THEN 0
                    ELSE LET x == CHOOSE x \in T : TRUE IN f[x] + h[T \ {x}]]
<1>2. SumOver(f, S) = h[S]
    BY DEF SumOver
<1>3. IsSum(f, h, S)
    BY <1>1 DEF IsSum, SumStep
<1>4. g[S] = h[S]
    BY <1>1, <1>3, SumUnique
<1> QED
    BY <1>1, <1>2, <1>4

\* The total of integers is an integer.
LEMMA SumInt ==
    ASSUME NEW S, IsFiniteSet(S), NEW f \in [S -> Int]
    PROVE  SumOver(f, S) \in Int
<1>1. PICK g \in [SUBSET S -> Int] : IsSum(f, g, S) /\ SumOver(f, S) = g[S]
    BY SumOverIs
<1> QED
    BY <1>1

\* Changing one account changes the total by the difference.
THEOREM SumUpdate ==
    ASSUME NEW S, IsFiniteSet(S), NEW f, NEW a, NEW e,
           f \in [S -> Int], a \in S, e \in [S -> Int],
           \A x \in S : x # a => e[x] = f[x]
    PROVE  SumOver(e, S) = SumOver(f, S) - f[a] + e[a]
<1> DEFINE v == e[a]
<1>1. v \in Int /\ e[a] = v /\ \A x \in S : x # a => e[x] = f[x]
    OBVIOUS
<1>2. PICK g : g \in [SUBSET S -> Int] /\ IsSum(f, g, S) /\ SumOver(f, S) = g[S]
    BY SumOverIs
<1>3. PICK h : h \in [SUBSET S -> Int] /\ IsSum(e, h, S) /\ SumOver(e, S) = h[S]
    BY SumOverIs
<1> DEFINE G == {T \in SUBSET S : h[T] = g[T] + (IF a \in T THEN v - f[a] ELSE 0)}
<1>4. ASSUME NEW T \in SUBSET S, \A x \in T : T \ {x} \in G PROVE T \in G
    <2>1. g[T] = SumStep(f, g, T) /\ h[T] = SumStep(e, h, T)
        BY <1>2, <1>3 DEF IsSum
    <2>2. CASE T = {}
        BY <2>1, <2>2 DEF SumStep
    <2>3. CASE T # {}
        <3> DEFINE x == CHOOSE x \in T : TRUE
        <3>1. x \in T /\ x \in S /\ T \ {x} \in G /\ T \ {x} \in SUBSET S
            BY <1>4, <2>3
        <3>2. g[T] = f[x] + g[T \ {x}] /\ h[T] = e[x] + h[T \ {x}]
            BY <2>1, <2>3 DEF SumStep
        <3> HIDE DEF x
        <3>3. h[T \ {x}] = g[T \ {x}] + (IF a \in T \ {x} THEN v - f[a] ELSE 0)
            BY <3>1
        <3>4. f[x] \in Int /\ f[a] \in Int /\ g[T] \in Int /\ g[T \ {x}] \in Int /\ h[T \ {x}] \in Int
            BY <1>2, <1>3, <3>1
        <3>5. CASE x = a
            BY <3>1, <3>2, <3>3, <3>4, <3>5, <1>1
        <3>6. CASE x # a
            <4>1. e[x] = f[x] /\ (a \in T <=> a \in T \ {x})
                BY <3>1, <3>6, <1>1
            <4>2. h[T] = g[T] + (IF a \in T THEN v - f[a] ELSE 0)
                BY <3>2, <3>3, <3>4, <4>1
            <4> QED
                BY <4>2
        <3> QED
            BY <3>5, <3>6
    <2> QED
        BY <2>2, <2>3
<1>5. \A T \in SUBSET S : (\A x \in T : T \ {x} \in G) => T \in G
    BY <1>4
<1>6. SUBSET S \subseteq G
    <2> HIDE DEF G
    <2> QED
        BY <1>5, SubsetClosure
<1>7. g[S] \in Int /\ f[a] \in Int
    BY <1>2
<1>8. h[S] = g[S] + (v - f[a])
    BY <1>6
<1>9. h[S] = g[S] - f[a] + v
    BY <1>7, <1>8
<1> QED
    BY <1>2, <1>3, <1>9

\* Accounts that are all zero total zero.
LEMMA SumZero ==
    ASSUME NEW S, IsFiniteSet(S)
    PROVE  SumOver([x \in S |-> 0], S) = 0
<1> DEFINE f == [x \in S |-> 0]
<1>1. PICK g : g \in [SUBSET S -> Int] /\ IsSum(f, g, S) /\ SumOver(f, S) = g[S]
    BY SumOverIs
<1> DEFINE G == {T \in SUBSET S : g[T] = 0}
<1>2. ASSUME NEW T \in SUBSET S, \A x \in T : T \ {x} \in G PROVE T \in G
    <2>1. g[T] = SumStep(f, g, T)
        BY <1>1 DEF IsSum
    <2>2. CASE T = {}
        BY <2>1, <2>2 DEF SumStep
    <2>3. CASE T # {}
        <3> DEFINE x == CHOOSE x \in T : TRUE
        <3>1. x \in S /\ g[T \ {x}] = 0
            BY <1>2, <2>3
        <3>2. g[T] = f[x] + g[T \ {x}]
            BY <2>1, <2>3 DEF SumStep
        <3> QED
            BY <3>1, <3>2
    <2> QED
        BY <2>2, <2>3
<1>3. \A T \in SUBSET S : (\A x \in T : T \ {x} \in G) => T \in G
    BY <1>2
<1>4. SUBSET S \subseteq G
    <2> HIDE DEF G
    <2> QED
        BY <1>3, SubsetClosure
<1> QED
    BY <1>1, <1>4

\* The total of naturals is a natural.
LEMMA SumNat ==
    ASSUME NEW S, IsFiniteSet(S), NEW f, f \in [S -> Nat]
    PROVE  SumOver(f, S) \in Nat
<1>1. PICK g : g \in [SUBSET S -> Int] /\ IsSum(f, g, S) /\ SumOver(f, S) = g[S]
    <2>1. f \in [S -> Int]
        OBVIOUS
    <2> QED
        BY <2>1, SumOverIs
<1> DEFINE G == {T \in SUBSET S : g[T] \in Nat}
<1>2. ASSUME NEW T \in SUBSET S, \A x \in T : T \ {x} \in G PROVE T \in G
    <2>1. g[T] = SumStep(f, g, T)
        BY <1>1 DEF IsSum
    <2>2. CASE T = {}
        BY <2>1, <2>2 DEF SumStep
    <2>3. CASE T # {}
        <3> DEFINE x == CHOOSE x \in T : TRUE
        <3>1. x \in S /\ g[T \ {x}] \in Nat
            BY <1>2, <2>3
        <3>2. g[T] = f[x] + g[T \ {x}]
            BY <2>1, <2>3 DEF SumStep
        <3> QED
            BY <3>1, <3>2
    <2> QED
        BY <2>2, <2>3
<1>3. \A T \in SUBSET S : (\A x \in T : T \ {x} \in G) => T \in G
    BY <1>2
<1>4. SUBSET S \subseteq G
    <2> HIDE DEF G
    <2> QED
        BY <1>3, SubsetClosure
<1> QED
    BY <1>1, <1>4

\* No account of naturals exceeds the total.
THEOREM SumBoundsEach ==
    ASSUME NEW S, IsFiniteSet(S), NEW f, f \in [S -> Nat], NEW a, a \in S
    PROVE  f[a] <= SumOver(f, S)
<1>0. PICK z : z = [f EXCEPT ![a] = 0]
    OBVIOUS
<1>1. /\ f \in [S -> Int] /\ z \in [S -> Int] /\ z \in [S -> Nat] /\ f[a] \in Nat
      /\ z[a] = 0 /\ \A x \in S : x # a => z[x] = f[x]
    BY <1>0
<1>2. SumOver(z, S) = SumOver(f, S) - f[a] + 0
    BY <1>1, SumUpdate
<1>3. SumOver(z, S) \in Nat /\ SumOver(f, S) \in Nat
    BY <1>1, SumNat
<1> QED
    BY <1>1, <1>2, <1>3

\* Scaled termwise bounds add up: shares valued one by one, each rounded down,
\* are worth no more than the whole.
LEMMA SumScaled ==
    ASSUME NEW S, IsFiniteSet(S), NEW e, NEW f, e \in [S -> Int], f \in [S -> Int],
           NEW k \in Int, NEW v \in Int, \A x \in S : k * e[x] <= f[x] * v
    PROVE  k * SumOver(e, S) <= SumOver(f, S) * v
<1>1. PICK g : g \in [SUBSET S -> Int] /\ IsSum(e, g, S) /\ SumOver(e, S) = g[S]
    BY SumOverIs
<1>2. PICK h : h \in [SUBSET S -> Int] /\ IsSum(f, h, S) /\ SumOver(f, S) = h[S]
    BY SumOverIs
<1> DEFINE G == {T \in SUBSET S : k * g[T] <= h[T] * v}
<1>3. ASSUME NEW T \in SUBSET S, \A x \in T : T \ {x} \in G PROVE T \in G
    <2>1. g[T] = SumStep(e, g, T) /\ h[T] = SumStep(f, h, T)
        BY <1>1, <1>2 DEF IsSum
    <2>2. CASE T = {}
        BY <2>1, <2>2 DEF SumStep
    <2>3. CASE T # {}
        <3> DEFINE x == CHOOSE x \in T : TRUE
        <3>1. x \in S /\ T \ {x} \in SUBSET S /\ k * g[T \ {x}] <= h[T \ {x}] * v
            BY <1>3, <2>3
        <3>2. g[T] = e[x] + g[T \ {x}] /\ h[T] = f[x] + h[T \ {x}]
            BY <2>1, <2>3 DEF SumStep
        <3>3. /\ e[x] \in Int /\ f[x] \in Int /\ g[T \ {x}] \in Int /\ h[T \ {x}] \in Int
              /\ k * e[x] <= f[x] * v
            BY <1>1, <1>2, <3>1
        <3> HIDE DEF x
        <3>4. /\ k * (e[x] + g[T \ {x}]) = k * e[x] + k * g[T \ {x}]
              /\ (f[x] + h[T \ {x}]) * v = f[x] * v + h[T \ {x}] * v
            BY <3>3
        <3>5. k * g[T] <= h[T] * v
            BY <3>1, <3>2, <3>3, <3>4
        <3> QED
            BY <3>5
    <2> QED
        BY <2>2, <2>3
<1>4. \A T \in SUBSET S : (\A x \in T : T \ {x} \in G) => T \in G
    BY <1>3
<1>5. SUBSET S \subseteq G
    <2> HIDE DEF G
    <2> QED
        BY <1>4, SubsetClosure
<1> QED
    BY <1>1, <1>2, <1>5

\* Any account may be taken off first, not only the one CHOOSE takes.
SplitsAnywhere(f, g, S) == \A T \in SUBSET S : \A a \in T : g[T] = f[a] + g[T \ {a}]

LEMMA SumSplits ==
    ASSUME NEW S, IsFiniteSet(S), NEW f \in [S -> Int]
    PROVE  \E g \in [SUBSET S -> Int] :
             IsSum(f, g, S) /\ SumOver(f, S) = g[S] /\ SplitsAnywhere(f, g, S)
<1>1. PICK g : g \in [SUBSET S -> Int] /\ IsSum(f, g, S) /\ SumOver(f, S) = g[S]
    BY SumOverIs
<1> DEFINE G == {T \in SUBSET S : \A a \in T : g[T] = f[a] + g[T \ {a}]}
<1>2. ASSUME NEW T \in SUBSET S, \A x \in T : T \ {x} \in G PROVE T \in G
    <2>1. ASSUME NEW a \in T PROVE g[T] = f[a] + g[T \ {a}]
        <3> DEFINE x == CHOOSE x \in T : TRUE
        <3>1. x \in T /\ g[T] = f[x] + g[T \ {x}]
            <4>1. x \in T /\ T # {} /\ g[T] = SumStep(f, g, T)
                BY <1>1, <2>1 DEF IsSum
            <4> QED
                BY <4>1 DEF SumStep
        <3> HIDE DEF x
        <3>2. CASE x = a
            BY <3>1, <3>2
        <3>3. CASE x # a
            <4>1. /\ \A b \in T \ {x} : g[T \ {x}] = f[b] + g[(T \ {x}) \ {b}]
                  /\ \A b \in T \ {a} : g[T \ {a}] = f[b] + g[(T \ {a}) \ {b}]
                BY <1>2, <2>1, <3>1
            <4>2. a \in T \ {x} /\ x \in T \ {a} /\ (T \ {x}) \ {a} = (T \ {a}) \ {x}
                BY <2>1, <3>1, <3>3
            <4>3. PICK r : r = g[(T \ {a}) \ {x}]
                OBVIOUS
            <4>4. g[T \ {x}] = f[a] + r /\ g[T \ {a}] = f[x] + r
                BY <4>1, <4>2, <4>3
            <4>5. f[a] \in Int /\ f[x] \in Int /\ r \in Int
                BY <1>1, <2>1, <3>1, <4>3
            <4> QED
                BY <3>1, <4>4, <4>5
        <3> QED
            BY <3>2, <3>3
    <2> QED
        BY <2>1
<1>3. \A T \in SUBSET S : (\A x \in T : T \ {x} \in G) => T \in G
    BY <1>2
<1>4. SUBSET S \subseteq G
    <2> HIDE DEF G
    <2> QED
        BY <1>3, SubsetClosure
<1>5. SplitsAnywhere(f, g, S)
    BY <1>4 DEF SplitsAnywhere
<1> QED
    BY <1>1, <1>5

\* Taking one account away takes its amount off the total.
LEMMA SumWithout ==
    \A S, P, a, f, w :
        /\ IsFiniteSet(S) /\ f \in [S -> Int] /\ a \in S
        /\ P = S \ {a} /\ w \in [P -> Int] /\ \A x \in P : w[x] = f[x]
        => SumOver(f, S) = SumOver(w, P) + f[a]
<1> SUFFICES ASSUME NEW S, NEW P, NEW a, NEW f, NEW w
             PROVE  (/\ IsFiniteSet(S) /\ f \in [S -> Int] /\ a \in S
                     /\ P = S \ {a} /\ w \in [P -> Int] /\ \A x \in P : w[x] = f[x])
                    => SumOver(f, S) = SumOver(w, P) + f[a]
    OBVIOUS
<1>1. SUFFICES ASSUME IsFiniteSet(S), f \in [S -> Int], a \in S,
                      P = S \ {a}, w \in [P -> Int], \A x \in P : w[x] = f[x]
               PROVE  SumOver(f, S) = SumOver(w, P) + f[a]
    OBVIOUS
<1>2. IsFiniteSet(S) /\ f \in [S -> Int]
    BY <1>1
<1>3. IsFiniteSet(P) /\ w \in [P -> Int]
    BY <1>1, FS_Subset
<1>4. PICK g \in [SUBSET S -> Int] :
        IsSum(f, g, S) /\ SumOver(f, S) = g[S] /\ SplitsAnywhere(f, g, S)
    BY <1>2, SumSplits
<1>5. PICK h \in [SUBSET P -> Int] : IsSum(w, h, P) /\ SumOver(w, P) = h[P]
    BY <1>3, SumOverIs
<1> DEFINE r == [T \in SUBSET P |-> g[T]]
<1>6. IsSum(w, r, P)
    <2>1. ASSUME NEW T \in SUBSET P PROVE g[T] = SumStep(w, r, T)
        <3>1. g[T] = SumStep(f, g, T)
            BY <1>1, <1>4 DEF IsSum
        <3>2. CASE T = {}
            BY <3>1, <3>2 DEF SumStep
        <3>3. CASE T # {}
            <4> DEFINE x == CHOOSE x \in T : TRUE
            <4>1. x \in T /\ T \ {x} \in SUBSET P
                BY <3>3
            <4>2. r[T \ {x}] = g[T \ {x}] /\ w[x] = f[x]
                BY <1>1, <4>1
            <4>3. SumStep(f, g, T) = f[x] + g[T \ {x}] /\ SumStep(w, r, T) = w[x] + r[T \ {x}]
                BY <3>3 DEF SumStep
            <4> QED
                BY <3>1, <4>2, <4>3
        <3> QED
            BY <3>2, <3>3
    <2>2. [T \in SUBSET P |-> g[T]] = [T \in SUBSET P |-> SumStep(w, r, T)]
        BY <2>1
    <2> QED
        BY <2>2 DEF IsSum
<1>7. r \in [SUBSET P -> Int]
    BY <1>1
<1>8. r[P] = g[P]
    OBVIOUS
<1> HIDE DEF r
<1>9. h[P] = r[P]
    BY <1>3, <1>5, <1>6, <1>7, SumUnique
<1>10. g[S] = f[a] + g[P] /\ f[a] \in Int /\ g[P] \in Int
    <2>1. S \in SUBSET S /\ P \in SUBSET S
        BY <1>1
    <2> QED
        BY <1>1, <1>4, <2>1 DEF SplitsAnywhere
<1> QED
    BY <1>4, <1>5, <1>8, <1>9, <1>10

\* The total of termwise sums is the sum of the totals.
LEMMA SumPlus ==
    ASSUME NEW S, IsFiniteSet(S),
           NEW e \in [S -> Int], NEW f \in [S -> Int], NEW d \in [S -> Int]
    PROVE  (\A x \in S : d[x] = e[x] + f[x]) => SumOver(d, S) = SumOver(e, S) + SumOver(f, S)
<1>1. PICK g : g \in [SUBSET S -> Int] /\ IsSum(e, g, S) /\ SumOver(e, S) = g[S]
    BY SumOverIs
<1>2. PICK h : h \in [SUBSET S -> Int] /\ IsSum(f, h, S) /\ SumOver(f, S) = h[S]
    BY SumOverIs
<1>3. PICK k : k \in [SUBSET S -> Int] /\ IsSum(d, k, S) /\ SumOver(d, S) = k[S]
    BY SumOverIs
<1>0. SUFFICES ASSUME \A x \in S : d[x] = e[x] + f[x]
               PROVE  SumOver(d, S) = SumOver(e, S) + SumOver(f, S)
    OBVIOUS
<1> DEFINE G == {T \in SUBSET S : k[T] = g[T] + h[T]}
<1>4. ASSUME NEW T \in SUBSET S, \A x \in T : T \ {x} \in G PROVE T \in G
    <2>1. g[T] = SumStep(e, g, T) /\ h[T] = SumStep(f, h, T) /\ k[T] = SumStep(d, k, T)
        BY <1>1, <1>2, <1>3 DEF IsSum
    <2>2. CASE T = {}
        BY <2>1, <2>2 DEF SumStep
    <2>3. CASE T # {}
        <3> DEFINE x == CHOOSE x \in T : TRUE
        <3>1. x \in S /\ T \ {x} \in SUBSET S /\ k[T \ {x}] = g[T \ {x}] + h[T \ {x}]
            BY <1>4, <2>3
        <3>2. g[T] = e[x] + g[T \ {x}] /\ h[T] = f[x] + h[T \ {x}] /\ k[T] = d[x] + k[T \ {x}]
            BY <2>1, <2>3 DEF SumStep
        <3>3. /\ e[x] \in Int /\ f[x] \in Int /\ g[T \ {x}] \in Int /\ h[T \ {x}] \in Int
              /\ d[x] = e[x] + f[x]
            BY <1>0, <1>1, <1>2, <3>1
        <3> HIDE DEF x
        <3>4. k[T] = g[T] + h[T]
            BY <3>1, <3>2, <3>3
        <3> QED
            BY <3>4
    <2> QED
        BY <2>2, <2>3
<1>5. \A T \in SUBSET S : (\A x \in T : T \ {x} \in G) => T \in G
    BY <1>4
<1>6. SUBSET S \subseteq G
    <2> HIDE DEF G
    <2> QED
        BY <1>5, SubsetClosure
<1> QED
    BY <1>1, <1>2, <1>3, <1>6

\* A row of amounts moved one place on loses its last one.
LEMMA SumShifts ==
    \A m \in Nat : \A f, d \in [0..m -> Int] :
        d[0] = 0 /\ (\A n \in 1..m : d[n] = f[n - 1])
        => SumOver(d, 0..m) = SumOver(f, 0..m) - f[m]
<1>1. \A m \in Nat : \A f \in [0..m+1 -> Int] :
        SumOver(f, 0..m+1) = SumOver([n \in 0..m |-> f[n]], 0..m) + f[m + 1]
    <2> SUFFICES ASSUME NEW m \in Nat, NEW f \in [0..m+1 -> Int]
                 PROVE  SumOver(f, 0..m+1) = SumOver([n \in 0..m |-> f[n]], 0..m) + f[m + 1]
        OBVIOUS
    <2> DEFINE w == [n \in 0..m |-> f[n]]
    <2>1. 0..m = (0..m+1) \ {m + 1} /\ m + 1 \in 0..m+1
        OBVIOUS
    <2>2. w \in [0..m -> Int] /\ \A x \in 0..m : w[x] = f[x]
        OBVIOUS
    <2>3. IsFiniteSet(0..m+1)
        BY FS_Interval
    <2> HIDE DEF w
    <2>4. SumOver(f, 0..m+1) = SumOver(w, 0..m) + f[m + 1]
        BY <2>1, <2>2, <2>3, SumWithout
    <2> QED
        BY <2>4 DEF w
<1>2. \A m \in Nat : \A f \in [0..m -> Int] : SumOver(f, 0..m) \in Int
    BY SumInt, FS_Interval
<1>3. \A f \in [0..0 -> Int] : SumOver(f, 0..0) = f[0]
    <2> SUFFICES ASSUME NEW f \in [0..0 -> Int] PROVE SumOver(f, 0..0) = f[0]
        OBVIOUS
    <2> DEFINE w == [n \in {} |-> 0]
    <2>1. {} = (0..0) \ {0} /\ 0 \in 0..0 /\ w \in [{} -> Int] /\ \A x \in {} : w[x] = f[x]
        OBVIOUS
    <2>2. IsFiniteSet(0..0)
        <3>1. 0..0 = {0}
            OBVIOUS
        <3>2. IsFiniteSet({0})
            BY FS_Singleton
        <3> QED
            BY <3>1, <3>2, Zenon
    <2>3. SumOver(w, {}) = 0
        BY SumZero, FS_EmptySet
    <2> HIDE DEF w
    <2>4. SumOver(f, 0..0) = SumOver(w, {}) + f[0]
        BY <2>1, <2>2, SumWithout
    <2> QED
        BY <2>3, <2>4
<1> DEFINE Shifts(m) == \A f, d \in [0..m -> Int] :
               d[0] = 0 /\ (\A n \in 1..m : d[n] = f[n - 1])
               => SumOver(d, 0..m) = SumOver(f, 0..m) - f[m]
           G == {m \in Nat : Shifts(m)}
<1>4. 0 \in G
    BY <1>3
<1>5. ASSUME NEW m \in Nat, m \in G PROVE m + 1 \in G
    <2>1. ASSUME NEW f \in [0..m+1 -> Int], NEW d \in [0..m+1 -> Int],
                 d[0] = 0, \A n \in 1..m+1 : d[n] = f[n - 1]
          PROVE  SumOver(d, 0..m+1) = SumOver(f, 0..m+1) - f[m + 1]
        <3> DEFINE f0 == [n \in 0..m |-> f[n]]
                   d0 == [n \in 0..m |-> d[n]]
        <3>1. f0 \in [0..m -> Int] /\ d0 \in [0..m -> Int] /\ f0[m] = f[m]
            OBVIOUS
        <3>2. d0[0] = 0 /\ \A n \in 1..m : d0[n] = f0[n - 1]
            BY <2>1
        <3>3. d[m + 1] = f[m] /\ f[m] \in Int /\ f[m + 1] \in Int
            <4>1. m + 1 \in 1..m+1 /\ (m + 1) - 1 = m /\ m \in 0..m+1 /\ m + 1 \in 0..m+1
                OBVIOUS
            <4> QED
                BY <2>1, <4>1
        <3>4. /\ SumOver(f, 0..m+1) = SumOver(f0, 0..m) + f[m + 1]
              /\ SumOver(d, 0..m+1) = SumOver(d0, 0..m) + d[m + 1]
            BY <1>1
        <3> HIDE DEF f0, d0
        <3>5. SumOver(d0, 0..m) = SumOver(f0, 0..m) - f0[m]
            BY <1>5, <3>1, <3>2
        <3>6. SumOver(f0, 0..m) \in Int
            BY <1>2, <3>1
        <3> QED
            BY <3>1, <3>3, <3>4, <3>5, <3>6
    <2>2. Shifts(m + 1)
        BY <2>1
    <2> HIDE DEF Shifts
    <2> QED
        BY <2>2
<1>6. \A m \in Nat : m \in G => m + 1 \in G
    BY <1>5
<1>7. Nat \subseteq G
    <2> HIDE DEF G
    <2> QED
        BY <1>4, <1>6, NatClosure
<1>8. \A m \in Nat : Shifts(m)
    BY <1>7
<1> QED
    BY <1>8
=============================================================================
