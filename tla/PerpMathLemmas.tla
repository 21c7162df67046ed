---------------------------- MODULE PerpMathLemmas ----------------------------
(***************************************************************************)
(* What the arithmetic of PerpMath returns, for the proofs about the curve   *)
(* and the engine, what a sum over slots, users or markets returns, and the   *)
(* first element of a finite set, or all of them, in order.                   *)
(***************************************************************************)
EXTENDS PerpMath, SequencesExt, FiniteSetTheorems, TLAPS

\* Division rounds down: it leaves a remainder smaller than the divisor.
LEMMA DivBounds ==
    ASSUME NEW a \in Int, NEW b \in Nat \ {0}
    PROVE  /\ a \div b \in Int
           /\ (a \div b) * b <= a
           /\ a < (a \div b) * b + b
  OBVIOUS

\* The quotient of unsigned integers is unsigned.
LEMMA DivOfNat ==
    ASSUME NEW a \in Nat, NEW b \in Nat \ {0}
    PROVE  a \div b \in Nat
  OBVIOUS

\* A positive factor cancels from an inequality.
LEMMA Cancel ==
    ASSUME NEW c \in Nat \ {0}, NEW x \in Int, NEW y \in Int, c * x <= c * y
    PROVE  x <= y
  OBVIOUS

\* Division keeps the order of its dividends.
LEMMA DivMonotone ==
    ASSUME NEW x \in Int, NEW y \in Int, NEW b \in Nat \ {0}, x <= y
    PROVE  x \div b <= y \div b
  <1> DEFINE p == x \div b
             q == y \div b
  <1>1. p \in Int /\ q \in Int /\ p * b <= x /\ y < q * b + b
    BY DivBounds
  <1> HIDE DEF p, q
  <1>2. b * p < b * (q + 1)
    BY <1>1
  <1>3. ~(q + 1 <= p)
    <2>1. ASSUME q + 1 <= p PROVE FALSE
      <3>1. b * (p - (q + 1)) \in Nat
        BY <1>1, <2>1
      <3> QED
        BY <1>1, <1>2, <3>1
    <2> QED
      BY <2>1
  <1> QED
    BY <1>1, <1>3 DEF p, q

\* A product divided by one factor is the other; by more, it is no more than that.
LEMMA DivOfProduct ==
    ASSUME NEW a \in Nat, NEW b \in Nat \ {0}
    PROVE  (a * b) \div b = a
  <1> DEFINE q == (a * b) \div b
             x == a * b
  <1>0. x \in Int
    OBVIOUS
  <1>1. q \in Int /\ q * b <= a * b /\ a * b < q * b + b
    <2> HIDE DEF x
    <2>1. x \div b \in Int /\ (x \div b) * b <= x /\ x < (x \div b) * b + b
      BY <1>0, DivBounds
    <2> QED
      BY <2>1 DEF x
  <1> HIDE DEF q, x
  <1>2. b * q <= b * a
    BY <1>1
  <1>3. q <= a
    BY <1>1, <1>2, Cancel
  <1>4. b * a <= b * (q + 1)
    BY <1>1
  <1>5. a <= q + 1
    BY <1>1, <1>4, Cancel
  <1>6. a # q + 1
    <2>1. ASSUME a = q + 1 PROVE FALSE
      <3>1. a * b = q * b + b
        BY <1>1, <2>1
      <3> QED
        BY <1>1, <3>1
    <2> QED
      BY <2>1
  <1> QED
    BY <1>1, <1>3, <1>5, <1>6 DEF q

LEMMA PartOfProduct ==
    ASSUME NEW a \in Nat, NEW b \in Nat \ {0}, NEW n \in 0 .. b
    PROVE  (a * n) \div b \in 0 .. a
  <1> DEFINE x == a * n
             y == a * b
  <1>1. x \in Nat /\ y \in Nat /\ x <= y
    <2>1. a * (b - n) \in Nat /\ x \in Nat /\ y \in Nat
      OBVIOUS
    <2>2. y = x + a * (b - n)
      OBVIOUS
    <2> HIDE DEF x, y
    <2> QED
      BY <2>1, <2>2
  <1>2. y \div b = a
    BY DivOfProduct
  <1> HIDE DEF x, y
  <1>3. x \div b <= y \div b /\ x \div b \in Nat
    BY <1>1, DivMonotone, DivOfNat
  <1> QED
    BY <1>2, <1>3 DEF x

\* A lower margin ratio asks for no more margin.
LEMMA MarginMonotone ==
    ASSUME NEW b \in Int, NEW price \in Nat, NEW r \in Nat, NEW k \in Nat, k <= r
    PROVE  /\ MarginRequirement(PositionNotional(b, price), k) \in Int
           /\ MarginRequirement(PositionNotional(b, price), r) \in Int
           /\ MarginRequirement(PositionNotional(b, price), k)
                <= MarginRequirement(PositionNotional(b, price), r)
  <1> DEFINE x == PositionNotional(b, price)
  <1>1. x \in Nat
    <2>1. Magnitude(b) \in Nat
      BY DEF Magnitude
    <2>2. Magnitude(b) * price \in Nat
      BY <2>1
    <2> QED
      BY <2>2, DivOfNat, PrecisionAssumption DEF PositionNotional
  <1> HIDE DEF x
  <1>2. x * k \in Int /\ x * r \in Int
    BY <1>1
  <1>3. x * k <= x * r
    <2>1. x * (r - k) \in Nat
      BY <1>1
    <2> QED
      BY <1>1, <2>1
  <1> DEFINE y == x * k
             z == x * r
  <1>4. y \in Int /\ z \in Int /\ y <= z
    BY <1>2, <1>3
  <1> HIDE DEF y, z
  <1>5. /\ y \div MARGIN_PRECISION \in Int /\ z \div MARGIN_PRECISION \in Int
        /\ y \div MARGIN_PRECISION <= z \div MARGIN_PRECISION
    BY <1>4, DivBounds, DivMonotone, PrecisionAssumption
  <1> QED
    BY <1>5 DEF MarginRequirement, x, y, z

\* div_ceil returns an unsigned integer that is at least the exact quotient.
LEMMA DivCeilBounds ==
    ASSUME NEW a \in Nat, NEW b \in Nat \ {0}
    PROVE  /\ DivCeil(a, b) \in Nat
           /\ b * DivCeil(a, b) >= a
  <1>1. CASE a = 0
    BY <1>1 DEF DivCeil
  <1>2. CASE a # 0
    <2>1. a - 1 \in Nat
      BY <1>2
    <2>2. /\ (a - 1) \div b \in Nat
          /\ a - 1 < ((a - 1) \div b) * b + b
      BY <2>1, DivBounds, DivOfNat
    <2>3. DivCeil(a, b) = ((a - 1) \div b) + 1
      BY <1>2 DEF DivCeil
    <2>4. b * (((a - 1) \div b) + 1) = ((a - 1) \div b) * b + b
      BY <2>2
    <2> QED
      BY <2>1, <2>2, <2>3, <2>4
  <1> QED
    BY <1>1, <1>2

\* The division helpers return integers, and TruncDiv keeps a sign of plus.
LEMMA TruncDivType ==
    ASSUME NEW a \in Int, NEW b \in Nat \ {0}
    PROVE  /\ TruncDiv(a, b) \in Int
           /\ a \in Nat => TruncDiv(a, b) \in Nat
  BY DEF TruncDiv

LEMMA DivCeilType ==
    ASSUME NEW a \in Int, NEW b \in Nat \ {0}
    PROVE  DivCeil(a, b) \in Int
  BY DEF DivCeil

\* A fee on an integer amount is an integer.
LEMMA FeeType ==
    ASSUME NEW q \in Int, NEW bps \in Nat
    PROVE  FeeAmount(q, bps) \in Int
  <1>1. q * bps \in Int
    OBVIOUS
  <1> QED
    BY <1>1, DivCeilType, PrecisionAssumption DEF FeeAmount

\* Notional, margin requirement and liquidation fee of unsigned inputs are unsigned.
LEMMA LiquidationFeeType ==
    ASSUME NEW b \in Int, NEW price \in Nat, NEW bps \in Nat
    PROVE  LiquidationFee(PositionNotional(b, price), bps) \in Nat
  <1>1. Magnitude(b) * price \in Nat
    BY DEF Magnitude
  <1>2. PositionNotional(b, price) \in Nat
    BY <1>1, DivOfNat, PrecisionAssumption DEF PositionNotional
  <1>3. PositionNotional(b, price) * bps \in Nat
    BY <1>2
  <1> QED
    BY <1>3, DivOfNat, PrecisionAssumption DEF LiquidationFee

\* A swap the guards allow leaves positive base, unsigned quote, and a product of the
\* reserves no smaller than before.
LEMMA NewReserves ==
    ASSUME NEW p, p.base \in Nat, p.quote \in Nat, NEW n \in Nat,
           NEW dir \in {"Add", "Remove"}, SwapAllowed(p, n, dir)
    PROVE  /\ NewBaseReserve(p, n, dir) \in Nat \ {0}
           /\ NewQuoteReserve(p, n, dir) \in Nat
           /\ NewBaseReserve(p, n, dir) * NewQuoteReserve(p, n, dir) >= p.base * p.quote
  <1>1. NewBaseReserve(p, n, dir) \in Nat \ {0}
    BY DEF SwapAllowed, NewBaseReserve
  <1>2. p.base * p.quote \in Nat
    OBVIOUS
  <1> QED
    BY <1>1, <1>2, DivCeilBounds DEF NewQuoteReserve

\* The quote of such a swap is an integer.
LEMMA SwapQuoteType ==
    ASSUME NEW p, p.base \in Nat, p.quote \in Nat, p.peg \in Nat, NEW n \in Nat,
           NEW dir \in {"Add", "Remove"}, SwapAllowed(p, n, dir)
    PROVE  SwapQuote(p, n, dir) \in Int
  <1>1. NewQuoteReserve(p, n, dir) \in Nat
    BY NewReserves
  <1> DEFINE delta == IF dir = "Remove" THEN NewQuoteReserve(p, n, dir) - p.quote
                      ELSE p.quote - NewQuoteReserve(p, n, dir)
  <1>2. delta * p.peg \in Int
    BY <1>1
  <1>3. SwapQuote(p, n, dir) = (delta * p.peg) \div AMM_RESERVE_PRECISION
    BY DEF SwapQuote
  <1> HIDE DEF delta
  <1> QED
    BY <1>2, <1>3, DivBounds, PrecisionAssumption

\* div_ceil rounds up no further than a whole number the quotient does not exceed.
LEMMA DivCeilLeast ==
    ASSUME NEW a \in Nat, NEW b \in Nat \ {0}, NEW q \in Nat, a <= q * b
    PROVE  DivCeil(a, b) <= q
  <1>1. CASE a = 0
    BY <1>1 DEF DivCeil
  <1>2. CASE a # 0
    <2> DEFINE d == (a - 1) \div b
    <2>1. a - 1 \in Nat
      BY <1>2
    <2>2. d \in Nat /\ d * b <= a - 1
      BY <2>1, DivBounds, DivOfNat
    <2>3. DivCeil(a, b) = d + 1
      BY <1>2 DEF DivCeil
    <2> HIDE DEF d
    <2>4. ASSUME q <= d PROVE FALSE
      <3>1. q * b <= d * b
        BY <2>2, <2>4
      <3>2. q * b \in Nat /\ d * b \in Nat
        BY <2>2
      <3> QED
        BY <2>2, <3>1, <3>2
    <2> QED
      BY <2>2, <2>3, <2>4
  <1> QED
    BY <1>1, <1>2

\* The quote of a swap the guards allow is unsigned, in both directions: the quote
\* reserve rises when base leaves the pool and falls when it comes back.
LEMMA SwapQuoteUnsigned ==
    ASSUME NEW p, p.base \in Nat, p.quote \in Nat, p.peg \in Nat, NEW n \in Nat,
           NEW dir \in {"Add", "Remove"}, SwapAllowed(p, n, dir)
    PROVE  SwapQuote(p, n, dir) \in Nat
  <1> DEFINE b == NewBaseReserve(p, n, dir)
             q == NewQuoteReserve(p, n, dir)
             delta == IF dir = "Remove" THEN q - p.quote ELSE p.quote - q
  <1>1. b \in Nat \ {0} /\ q \in Nat /\ b * q >= p.base * p.quote
    BY NewReserves
  <1>2. q = DivCeil(p.base * p.quote, b) /\ p.base * p.quote \in Nat
    BY DEF NewQuoteReserve
  <1>3. b = IF dir = "Add" THEN p.base + n ELSE p.base - n
    BY DEF NewBaseReserve
  <1>4. SwapQuote(p, n, dir) = (delta * p.peg) \div AMM_RESERVE_PRECISION
    BY DEF SwapQuote
  <1> HIDE DEF b, q
  <1>5. delta \in Nat
    <2>1. CASE dir = "Remove"
      <3>1. b <= p.base
        BY <1>3, <2>1
      <3>2. b * p.quote <= p.base * p.quote
        BY <1>1, <3>1
      <3>3. b * p.quote <= b * q
        <4>1. b * p.quote \in Nat /\ b * q \in Nat /\ p.base * p.quote \in Nat
          BY <1>1
        <4> QED
          BY <1>1, <3>2, <4>1
      <3>4. p.quote <= q
        BY <1>1, <3>3, Cancel
      <3> QED
        BY <1>1, <2>1, <3>4
    <2>2. CASE dir = "Add"
      <3>1. p.base <= b
        BY <1>3, <2>2
      <3>2. p.base * p.quote <= p.quote * b
        BY <1>1, <3>1
      <3>3. q <= p.quote
        BY <1>1, <1>2, <3>2, DivCeilLeast
      <3> QED
        BY <1>1, <2>2, <3>3
    <2> QED
      BY <2>1, <2>2
  <1> HIDE DEF delta
  <1>6. delta * p.peg \in Nat
    BY <1>5
  <1> QED
    BY <1>4, <1>6, DivOfNat, PrecisionAssumption

-----------------------------------------------------------------------------
(* Sums.  The induction theorems of the library take what is to be proved as  *)
(* an operator, which the provers cannot instantiate; the inductions below go *)
(* through the set of the numbers it holds for instead: if that set lacked a  *)
(* number it would lack a least one.                                         *)

\* A set of natural numbers that is not empty has a least element.
LEMMA LeastNumber ==
    ASSUME NEW S, S \subseteq Nat, S # {}
    PROVE  \E n \in S : \A k \in S : n <= k
  <1>1. PICK n \in S : \A k \in S : ~(<<k, n>> \in OpToRel(<, Nat))
    BY NatLessThanWellFounded, WFMin
  <1>2. ASSUME NEW k \in S, k < n PROVE FALSE
    <2>1. k \in Nat /\ n \in Nat
      OBVIOUS
    <2>2. <<k, n>> \in OpToRel(<, Nat)
      BY <1>2, <2>1 DEF OpToRel
    <2> QED
      BY <1>1, <2>2
  <1>3. \A k \in S : n \in Nat /\ k \in Nat /\ ~(k < n)
    BY <1>2
  <1> QED
    BY <1>3

\* Induction: a set that holds 0 and with every number its successor is Nat.
LEMMA AllNumbers ==
    ASSUME NEW S, 0 \in S, \A n \in Nat : n \in S => n + 1 \in S
    PROVE  \A n \in Nat : n \in S
  <1> DEFINE Rest == {n \in Nat : n \notin S}
  <1>1. SUFFICES ASSUME Rest # {} PROVE FALSE
    OBVIOUS
  <1>2. PICK n \in Rest : \A k \in Rest : n <= k
    BY <1>1, LeastNumber
  <1>3. n \in Nat \ {0}
    BY <1>2
  <1>4. n - 1 \in Nat /\ ~(n <= n - 1) /\ (n - 1) + 1 = n
    BY <1>3
  <1>5. n - 1 \in S
    BY <1>2, <1>4
  <1> QED
    BY <1>2, <1>4, <1>5

-----------------------------------------------------------------------------
(* A sum is a recursive function on the subsets of what is summed over *)

\* the element a sum over T adds first
First(T) == CHOOSE x \in T : TRUE

\* g gives the sum of f over every set in D
SumsUp(g, f, D) ==
    g = [T \in D |-> IF T = {} THEN 0 ELSE f[First(T)] + g[T \ {First(T)}]]

SumTable(f, S) == CHOOSE g : SumsUp(g, f, SUBSET S)

LEMMA SumUnfolds ==
    ASSUME NEW f, NEW S
    PROVE  SumFunctionOnSet(f, S) = SumTable(f, S)[S]
  BY DEF SumFunctionOnSet, FoldFunctionOnSet, MapThenFoldSet, SumTable, SumsUp, First

LEMMA FirstIn ==
    ASSUME NEW T, T # {}
    PROVE  First(T) \in T
  BY DEF First

\* the subsets of S of at most n elements
UpTo(S, n) == {T \in SUBSET S : Cardinality(T) <= n}

\* Taking out the first element leaves one element less.
LEMMA FirstTaken ==
    ASSUME NEW T, IsFiniteSet(T), T # {}
    PROVE  /\ IsFiniteSet(T \ {First(T)})
           /\ Cardinality(T) \in Nat
           /\ Cardinality(T \ {First(T)}) = Cardinality(T) - 1
  BY FirstIn, FS_RemoveElement, FS_CardinalityType

\* A table of the sums over the subsets of up to n elements extends to n + 1.
LEMMA TableExtends ==
    ASSUME NEW S, IsFiniteSet(S), NEW f, NEW n \in Nat,
           NEW g, SumsUp(g, f, UpTo(S, n))
    PROVE  \E h : SumsUp(h, f, UpTo(S, n + 1))
  <1> DEFINE D == UpTo(S, n)
             E == UpTo(S, n + 1)
             h == [T \in E |-> IF T = {} THEN 0 ELSE f[First(T)] + g[T \ {First(T)}]]
  <1>1. \A T \in E : IsFiniteSet(T) /\ Cardinality(T) \in Nat
    BY FS_Subset, FS_CardinalityType DEF UpTo
  <1>2. \A T \in E : T # {} => T \ {First(T)} \in D
    <2> SUFFICES ASSUME NEW T \in E, T # {} PROVE T \ {First(T)} \in D
      OBVIOUS
    <2>1. Cardinality(T) <= n + 1 /\ T \subseteq S
      BY DEF UpTo
    <2>2. Cardinality(T \ {First(T)}) <= n
      BY <1>1, <2>1, FirstTaken
    <2> QED
      BY <2>1, <2>2 DEF UpTo
  <1>3. D \subseteq E
    <2> SUFFICES ASSUME NEW T \in D PROVE T \in E
      OBVIOUS
    <2>1. T \in SUBSET S /\ Cardinality(T) <= n
      BY DEF UpTo
    <2>2. Cardinality(T) \in Nat
      BY <2>1, FS_Subset, FS_CardinalityType
    <2>3. Cardinality(T) <= n + 1
      BY <2>1, <2>2
    <2> QED
      BY <2>1, <2>3 DEF UpTo
  <1>4. \A T \in D : g[T] = h[T]
    BY <1>3 DEF SumsUp
  <1>5. \A T \in E : T # {} => g[T \ {First(T)}] = h[T \ {First(T)}]
    BY <1>2, <1>4
  <1>6. h = [T \in E |-> IF T = {} THEN 0 ELSE f[First(T)] + h[T \ {First(T)}]]
    BY <1>5
  <1> HIDE DEF h
  <1>7. SumsUp(h, f, E)
    BY <1>6 DEF SumsUp
  <1> QED
    BY <1>7

\* Such a table exists.
LEMMA TableExists ==
    ASSUME NEW S, IsFiniteSet(S), NEW f
    PROVE  SumsUp(SumTable(f, S), f, SUBSET S)
  <1> DEFINE Done == {n \in Nat : \E g : SumsUp(g, f, UpTo(S, n))}
  <1>1. 0 \in Done
    <2> DEFINE g == [T \in UpTo(S, 0) |-> 0]
    <2>1. \A T \in UpTo(S, 0) : T = {}
      <3> SUFFICES ASSUME NEW T \in UpTo(S, 0) PROVE T = {}
        OBVIOUS
      <3>1. IsFiniteSet(T) /\ Cardinality(T) \in Nat /\ Cardinality(T) <= 0
        BY FS_Subset, FS_CardinalityType DEF UpTo
      <3> QED
        BY <3>1, FS_EmptySet
    <2>2. g = [T \in UpTo(S, 0) |-> IF T = {} THEN 0
                                    ELSE f[First(T)] + g[T \ {First(T)}]]
      BY <2>1
    <2> HIDE DEF g
    <2>3. SumsUp(g, f, UpTo(S, 0))
      BY <2>2 DEF SumsUp
    <2> QED
      BY <2>3
  <1>2. \A n \in Nat : n \in Done => n + 1 \in Done
    BY TableExtends
  <1>3. \A n \in Nat : n \in Done
    BY <1>1, <1>2, AllNumbers
  <1>4. Cardinality(S) \in Nat /\ UpTo(S, Cardinality(S)) = SUBSET S
    BY FS_CardinalityType, FS_Subset DEF UpTo
  <1>5. \E g : SumsUp(g, f, SUBSET S)
    BY <1>3, <1>4
  <1> QED
    BY <1>5 DEF SumTable

\* Two tables give the same sum over a set on which the summands are the same.
LEMMA TablesAgree ==
    ASSUME NEW S, NEW R, NEW f, NEW g, NEW F, NEW G,
           SumsUp(F, f, SUBSET S), SumsUp(G, g, SUBSET R),
           NEW T \in SUBSET S, T \in SUBSET R, IsFiniteSet(T),
           \A x \in T : f[x] = g[x]
    PROVE  F[T] = G[T]
  <1> DEFINE Same == {n \in Nat : \A U \in SUBSET T : Cardinality(U) = n => F[U] = G[U]}
  <1>1. \A U \in SUBSET T : IsFiniteSet(U) /\ Cardinality(U) \in Nat
    BY FS_Subset, FS_CardinalityType
  <1>2. \A U \in SUBSET T :
          /\ F[U] = IF U = {} THEN 0 ELSE f[First(U)] + F[U \ {First(U)}]
          /\ G[U] = IF U = {} THEN 0 ELSE g[First(U)] + G[U \ {First(U)}]
    BY DEF SumsUp
  <1>3. 0 \in Same
    BY <1>1, <1>2, FS_EmptySet
  <1>4. ASSUME NEW n \in Nat, n \in Same PROVE n + 1 \in Same
    <2> SUFFICES ASSUME NEW U \in SUBSET T, Cardinality(U) = n + 1 PROVE F[U] = G[U]
      OBVIOUS
    <2>1. U # {}
      BY FS_EmptySet
    <2>2. First(U) \in T /\ U \ {First(U)} \in SUBSET T
      BY <2>1, FirstIn
    <2>3. Cardinality(U \ {First(U)}) = n
      BY <1>1, <2>1, FirstTaken
    <2>4. F[U \ {First(U)}] = G[U \ {First(U)}]
      BY <1>4, <2>2, <2>3
    <2> QED
      BY <1>2, <2>1, <2>2, <2>4
  <1>5. \A n \in Nat : n \in Same
    BY <1>3, <1>4, AllNumbers
  <1> QED
    BY <1>1, <1>5

-----------------------------------------------------------------------------
(* What a sum returns *)

\* A sum over no element is 0.
LEMMA SumEmpty ==
    ASSUME NEW f
    PROVE  SumFunctionOnSet(f, {}) = 0
  BY SumUnfolds, TableExists, FS_EmptySet DEF SumsUp

\* A sum depends on its summands only.
LEMMA SumSame ==
    ASSUME NEW S, IsFiniteSet(S), NEW f, NEW g, \A x \in S : f[x] = g[x]
    PROVE  SumFunctionOnSet(f, S) = SumFunctionOnSet(g, S)
  <1>1. /\ SumsUp(SumTable(f, S), f, SUBSET S)
        /\ SumsUp(SumTable(g, S), g, SUBSET S)
    BY TableExists
  <1> DEFINE F == SumTable(f, S)
             G == SumTable(g, S)
  <1>2. F[S] = G[S]
    <2>1. SumsUp(F, f, SUBSET S) /\ SumsUp(G, g, SUBSET S) /\ S \in SUBSET S
      BY <1>1
    <2> HIDE DEF F, G
    <2> QED
      BY <2>1, TablesAgree
  <1> QED
    BY <1>2, SumUnfolds

LEMMA SumFirst ==
    ASSUME NEW S, IsFiniteSet(S), NEW f, S # {}
    PROVE  SumFunctionOnSet(f, S) = f[First(S)] + SumFunctionOnSet(f, S \ {First(S)})
  <1> DEFINE R == S \ {First(S)}
  <1>1. IsFiniteSet(R) /\ R \subseteq S
    BY FS_RemoveElement
  <1>2. /\ SumsUp(SumTable(f, S), f, SUBSET S)
        /\ SumsUp(SumTable(f, R), f, SUBSET R)
    BY <1>1, TableExists
  <1>3. SumTable(f, S)[S] = f[First(S)] + SumTable(f, S)[R]
    BY <1>2 DEF SumsUp
  <1> HIDE DEF R
  <1> DEFINE F == SumTable(f, S)
             G == SumTable(f, R)
  <1>4. F[R] = G[R]
    <2>1. /\ SumsUp(F, f, SUBSET S) /\ SumsUp(G, f, SUBSET R)
          /\ R \in SUBSET R /\ R \in SUBSET S /\ \A x \in R : f[x] = f[x]
      BY <1>1, <1>2
    <2> HIDE DEF F, G
    <2> QED
      BY <1>1, <2>1, TablesAgree
  <1> QED
    BY <1>3, <1>4, SumUnfolds DEF R

\* A sum of integers is an integer.
LEMMA SumType ==
    ASSUME NEW S, IsFiniteSet(S), NEW f, \A x \in S : f[x] \in Int
    PROVE  SumFunctionOnSet(f, S) \in Int
  <1> DEFINE Typed == {n \in Nat : \A U \in SUBSET S :
                         Cardinality(U) = n => SumFunctionOnSet(f, U) \in Int}
  <1>1. \A U \in SUBSET S : IsFiniteSet(U) /\ Cardinality(U) \in Nat
    BY FS_Subset, FS_CardinalityType
  <1>2. 0 \in Typed
    BY <1>1, FS_EmptySet, SumEmpty
  <1>3. ASSUME NEW n \in Nat, n \in Typed PROVE n + 1 \in Typed
    <2> SUFFICES ASSUME NEW U \in SUBSET S, Cardinality(U) = n + 1
                 PROVE  SumFunctionOnSet(f, U) \in Int
      OBVIOUS
    <2>1. U # {}
      BY FS_EmptySet
    <2>2. Cardinality(U \ {First(U)}) = n /\ U \ {First(U)} \in SUBSET S
      BY <1>1, <2>1, FirstTaken
    <2>3. f[First(U)] \in Int /\ SumFunctionOnSet(f, U \ {First(U)}) \in Int
      BY <1>3, <2>1, <2>2, FirstIn
    <2>4. SumFunctionOnSet(f, U) = f[First(U)] + SumFunctionOnSet(f, U \ {First(U)})
      BY <1>1, <2>1, SumFirst
    <2> QED
      BY <2>3, <2>4
  <1>4. \A n \in Nat : n \in Typed
    BY <1>2, <1>3, AllNumbers
  <1> QED
    BY <1>1, <1>4

\* Any element can be taken out of a sum of integers first.
LEMMA SumTake ==
    ASSUME NEW S, IsFiniteSet(S), NEW f, \A y \in S : f[y] \in Int, NEW x \in S
    PROVE  SumFunctionOnSet(f, S) = f[x] + SumFunctionOnSet(f, S \ {x})
  <1> DEFINE Sum(U) == SumFunctionOnSet(f, U)
             Good == {n \in Nat : \A U \in SUBSET S :
                        Cardinality(U) = n => \A y \in U : Sum(U) = f[y] + Sum(U \ {y})}
  <1>1. \A U \in SUBSET S : /\ IsFiniteSet(U) /\ Cardinality(U) \in Nat
                            /\ Sum(U) \in Int
    BY FS_Subset, FS_CardinalityType, SumType
  <1>2. \A U \in SUBSET S : U # {} => /\ First(U) \in U
                                      /\ Sum(U) = f[First(U)] + Sum(U \ {First(U)})
    BY <1>1, FirstIn, SumFirst
  <1> HIDE DEF Sum
  <1>3. 0 \in Good
    BY <1>1, FS_EmptySet
  <1>4. ASSUME NEW n \in Nat, n \in Good PROVE n + 1 \in Good
    <2> SUFFICES ASSUME NEW U \in SUBSET S, Cardinality(U) = n + 1, NEW y \in U
                 PROVE  Sum(U) = f[y] + Sum(U \ {y})
      OBVIOUS
    <2> DEFINE c == First(U)
    <2>1. c \in U /\ Sum(U) = f[c] + Sum(U \ {c})
      BY <1>2
    <2> HIDE DEF c
    <2>2. CASE y = c
      BY <2>1, <2>2
    <2>3. CASE y # c
      <3>1. y \in U \ {c} /\ c \in U \ {y}
        BY <2>1, <2>3
      <3>2. Cardinality(U \ {c}) = n /\ Cardinality(U \ {y}) = n
        BY <1>1, <2>1, FS_RemoveElement
      <3>3. Sum(U \ {c}) = f[y] + Sum((U \ {c}) \ {y})
        BY <1>4, <3>1, <3>2
      <3>4. Sum(U \ {y}) = f[c] + Sum((U \ {y}) \ {c})
        BY <1>4, <3>1, <3>2
      <3> DEFINE rest == Sum((U \ {y}) \ {c})
      <3>5. (U \ {c}) \ {y} = (U \ {y}) \ {c}
        OBVIOUS
      <3>6. f[c] \in Int /\ f[y] \in Int /\ rest \in Int
        BY <1>1, <2>1
      <3>7. Sum(U \ {c}) = f[y] + rest /\ Sum(U \ {y}) = f[c] + rest
        BY <3>3, <3>4, <3>5
      <3> HIDE DEF rest
      <3>8. Sum(U) = f[c] + (f[y] + rest)
        BY <2>1, <3>7
      <3>9. f[c] + (f[y] + rest) = f[y] + (f[c] + rest)
        BY <3>6
      <3> QED
        BY <3>7, <3>8, <3>9
    <2> QED
      BY <2>2, <2>3
  <1>5. \A n \in Nat : n \in Good
    BY <1>3, <1>4, AllNumbers
  <1>6. Sum(S) = f[x] + Sum(S \ {x})
    BY <1>1, <1>5
  <1> QED
    BY <1>6 DEF Sum

\* A sum of zeros is 0.
LEMMA SumZero ==
    ASSUME NEW S, IsFiniteSet(S), NEW f, \A y \in S : f[y] = 0
    PROVE  SumFunctionOnSet(f, S) = 0
  <1> DEFINE Zero == {n \in Nat : \A U \in SUBSET S :
                        Cardinality(U) = n => SumFunctionOnSet(f, U) = 0}
  <1>1. \A U \in SUBSET S : IsFiniteSet(U) /\ Cardinality(U) \in Nat
    BY FS_Subset, FS_CardinalityType
  <1>2. 0 \in Zero
    BY <1>1, FS_EmptySet, SumEmpty
  <1>3. ASSUME NEW n \in Nat, n \in Zero PROVE n + 1 \in Zero
    <2> SUFFICES ASSUME NEW U \in SUBSET S, Cardinality(U) = n + 1
                 PROVE  SumFunctionOnSet(f, U) = 0
      OBVIOUS
    <2>1. U # {}
      BY FS_EmptySet
    <2>2. Cardinality(U \ {First(U)}) = n /\ U \ {First(U)} \in SUBSET S
      BY <1>1, <2>1, FirstTaken
    <2>3. f[First(U)] = 0 /\ SumFunctionOnSet(f, U \ {First(U)}) = 0
      BY <1>3, <2>1, <2>2, FirstIn
    <2>4. SumFunctionOnSet(f, U) = f[First(U)] + SumFunctionOnSet(f, U \ {First(U)})
      BY <1>1, <2>1, SumFirst
    <2> QED
      BY <2>3, <2>4
  <1>4. \A n \in Nat : n \in Zero
    BY <1>2, <1>3, AllNumbers
  <1> QED
    BY <1>1, <1>4

-----------------------------------------------------------------------------
(* The facts about SumFunction the other proofs cite; f and g map S to integers *)

LEMMA SumOfFunction ==
    ASSUME NEW S, NEW f, DOMAIN f = S
    PROVE  SumFunction(f) = SumFunctionOnSet(f, S)
  BY DEF SumFunction

LEMMA SumIsInt ==
    ASSUME NEW S, IsFiniteSet(S), NEW f \in [S -> Int]
    PROVE  SumFunction(f) \in Int
  BY SumType, SumOfFunction

\* When one summand changes the sum changes by as much.
LEMMA SumChanged ==
    ASSUME NEW S, IsFiniteSet(S), NEW f \in [S -> Int], NEW g \in [S -> Int],
           NEW x \in S, \A y \in S \ {x} : g[y] = f[y]
    PROVE  SumFunction(g) = SumFunction(f) + (g[x] - f[x])
  <1>1. IsFiniteSet(S \ {x})
    BY FS_RemoveElement
  <1>2. SumFunctionOnSet(f, S \ {x}) = SumFunctionOnSet(g, S \ {x})
    BY <1>1, SumSame
  <1>3. /\ SumFunctionOnSet(f, S) = f[x] + SumFunctionOnSet(f, S \ {x})
        /\ SumFunctionOnSet(g, S) = g[x] + SumFunctionOnSet(g, S \ {x})
    BY SumTake
  <1>4. SumFunctionOnSet(f, S \ {x}) \in Int
    BY <1>1, SumType
  <1>5. SumFunction(f) = SumFunctionOnSet(f, S) /\ SumFunction(g) = SumFunctionOnSet(g, S)
    BY SumOfFunction
  <1> QED
    BY <1>2, <1>3, <1>4, <1>5

\* When two of them change, by both.
LEMMA SumChangedTwice ==
    ASSUME NEW S, IsFiniteSet(S), NEW f \in [S -> Int], NEW g \in [S -> Int],
           NEW x \in S, NEW z \in S, x # z, \A y \in S \ {x, z} : g[y] = f[y]
    PROVE  SumFunction(g) = SumFunction(f) + (g[x] - f[x]) + (g[z] - f[z])
  <1> DEFINE h == [y \in S |-> IF y = x THEN g[y] ELSE f[y]]
  <1>1. /\ h \in [S -> Int]
        /\ \A y \in S \ {x} : h[y] = f[y]
        /\ \A y \in S \ {z} : g[y] = h[y]
        /\ h[x] = g[x] /\ h[z] = f[z]
    OBVIOUS
  <1> HIDE DEF h
  <1>2. SumFunction(h) = SumFunction(f) + (h[x] - f[x])
    BY <1>1, SumChanged
  <1>3. SumFunction(g) = SumFunction(h) + (g[z] - h[z])
    BY <1>1, SumChanged
  <1>4. /\ SumFunction(f) \in Int
        /\ f[x] \in Int /\ g[x] \in Int /\ f[z] \in Int /\ g[z] \in Int
    BY SumIsInt
  <1> QED
    BY <1>1, <1>2, <1>3, <1>4

\* A sum of zeros and of one other summand is that summand.
LEMMA SumSingle ==
    ASSUME NEW S, IsFiniteSet(S), NEW f \in [S -> Int], NEW x \in S,
           \A y \in S \ {x} : f[y] = 0
    PROVE  SumFunction(f) = f[x]
  <1>1. SumFunctionOnSet(f, S) = f[x] + SumFunctionOnSet(f, S \ {x})
    BY SumTake
  <1>2. SumFunctionOnSet(f, S \ {x}) = 0
    BY SumZero, FS_RemoveElement
  <1> QED
    BY <1>1, <1>2, SumOfFunction

LEMMA SumOfZeros ==
    ASSUME NEW S, IsFiniteSet(S), NEW f \in [S -> Int], \A y \in S : f[y] = 0
    PROVE  SumFunction(f) = 0
  BY SumZero, SumOfFunction

\* A sum of unsigned integers is unsigned and at least any of them.
LEMMA SumOfNats ==
    ASSUME NEW S, IsFiniteSet(S), NEW f \in [S -> Nat]
    PROVE  /\ SumFunction(f) \in Nat
           /\ \A x \in S : f[x] <= SumFunction(f)
  <1> DEFINE Good == {n \in Nat : \A U \in SUBSET S :
                        Cardinality(U) = n => SumFunctionOnSet(f, U) \in Nat}
  <1>1. \A U \in SUBSET S : IsFiniteSet(U) /\ Cardinality(U) \in Nat
    BY FS_Subset, FS_CardinalityType
  <1>2. 0 \in Good
    BY <1>1, FS_EmptySet, SumEmpty
  <1>3. ASSUME NEW n \in Nat, n \in Good PROVE n + 1 \in Good
    <2> SUFFICES ASSUME NEW U \in SUBSET S, Cardinality(U) = n + 1
                 PROVE  SumFunctionOnSet(f, U) \in Nat
      OBVIOUS
    <2>1. U # {}
      BY FS_EmptySet
    <2>2. Cardinality(U \ {First(U)}) = n /\ U \ {First(U)} \in SUBSET S
      BY <1>1, <2>1, FirstTaken
    <2>3. f[First(U)] \in Nat /\ SumFunctionOnSet(f, U \ {First(U)}) \in Nat
      BY <1>3, <2>1, <2>2, FirstIn
    <2>4. SumFunctionOnSet(f, U) = f[First(U)] + SumFunctionOnSet(f, U \ {First(U)})
      BY <1>1, <2>1, SumFirst
    <2> QED
      BY <2>3, <2>4
  <1>4. \A n \in Nat : n \in Good
    BY <1>2, <1>3, AllNumbers
  <1>5. \A U \in SUBSET S : SumFunctionOnSet(f, U) \in Nat
    BY <1>1, <1>4
  <1> HIDE DEF Good
  <1>6. ASSUME NEW x \in S PROVE f[x] <= SumFunctionOnSet(f, S)
    <2>1. SumFunctionOnSet(f, S) = f[x] + SumFunctionOnSet(f, S \ {x})
      <3>1. \A y \in S : f[y] \in Int
        OBVIOUS
      <3> QED
        BY <3>1, SumTake
    <2>2. SumFunctionOnSet(f, S \ {x}) \in Nat /\ f[x] \in Nat
      BY <1>5
    <2> QED
      BY <2>1, <2>2
  <1> QED
    BY <1>5, <1>6, SumOfFunction

\* A sum of unsigned integers over fewer of them is no more.
LEMMA SumOfFewer ==
    ASSUME NEW S, IsFiniteSet(S), NEW f \in [S -> Nat], NEW P \in SUBSET S,
           NEW g \in [P -> Nat], \A x \in P : g[x] = f[x]
    PROVE  SumFunction(g) <= SumFunction(f)
  <1> DEFINE Sum(U) == SumFunctionOnSet(f, U)
             Good == {n \in Nat : \A U \in SUBSET S :
                        Cardinality(U) = n => Sum(U \cap P) <= Sum(U)}
  <1>1. \A U \in SUBSET S : IsFiniteSet(U) /\ Cardinality(U) \in Nat /\ Sum(U) \in Int
    <2> SUFFICES ASSUME NEW U \in SUBSET S
                 PROVE  IsFiniteSet(U) /\ Cardinality(U) \in Nat /\ Sum(U) \in Int
      OBVIOUS
    <2>1. IsFiniteSet(U) /\ Cardinality(U) \in Nat
      BY FS_Subset, FS_CardinalityType
    <2>2. \A x \in U : f[x] \in Int
      OBVIOUS
    <2> QED
      BY <2>1, <2>2, SumType
  <1>2. 0 \in Good
    <2> SUFFICES ASSUME NEW U \in SUBSET S, Cardinality(U) = 0
                 PROVE  Sum(U \cap P) <= Sum(U)
      OBVIOUS
    <2>1. U = {}
      BY <1>1, FS_EmptySet
    <2>2. Sum({}) \in Int /\ U \cap P = {}
      BY <1>1, <2>1
    <2> HIDE DEF Sum
    <2> QED
      BY <2>1, <2>2
  <1>3. ASSUME NEW n \in Nat, n \in Good PROVE n + 1 \in Good
    <2> SUFFICES ASSUME NEW U \in SUBSET S, Cardinality(U) = n + 1
                 PROVE  Sum(U \cap P) <= Sum(U)
      OBVIOUS
    <2> DEFINE x == First(U)
               V == U \ {x}
    <2>1. U # {}
      BY FS_EmptySet
    <2>2. x \in U /\ V \in SUBSET S /\ Cardinality(V) = n
      BY <1>1, <2>1, FirstIn, FirstTaken
    <2>3. Sum(V \cap P) <= Sum(V)
      BY <1>3, <2>2
    <2>4. Sum(U) = f[x] + Sum(V)
      BY <1>1, <2>1, SumFirst
    <2>5. f[x] \in Nat
      BY <2>2
    <2>6. /\ Sum(V) \in Int /\ Sum(V \cap P) \in Int
          /\ IsFiniteSet(U \cap P)
      BY <1>1, <2>2
    <2> HIDE DEF Sum, x
    <2>7. CASE x \in P
      <3>1. Sum(U \cap P) = f[x] + Sum((U \cap P) \ {x})
        <4>1. x \in U \cap P /\ \A y \in U \cap P : f[y] \in Int
          BY <2>2, <2>7
        <4> QED
          BY <2>6, <4>1, SumTake DEF Sum
      <3>2. (U \cap P) \ {x} = V \cap P
        OBVIOUS
      <3>3. Sum(U \cap P) = f[x] + Sum(V \cap P)
        BY <3>1, <3>2
      <3> QED
        BY <2>3, <2>4, <2>5, <2>6, <3>3
    <2>8. CASE x \notin P
      <3>1. U \cap P = V \cap P
        BY <2>8
      <3> QED
        BY <2>3, <2>4, <2>5, <2>6, <3>1
    <2> QED
      BY <2>7, <2>8
  <1>4. \A n \in Nat : n \in Good
    BY <1>2, <1>3, AllNumbers
  <1>5. Sum(S \cap P) <= Sum(S)
    BY <1>1, <1>4
  <1>6. S \cap P = P /\ IsFiniteSet(P)
    BY <1>1
  <1>7. SumFunctionOnSet(g, P) = SumFunctionOnSet(f, P)
    BY <1>6, SumSame
  <1> QED
    BY <1>5, <1>6, <1>7, SumOfFunction

-----------------------------------------------------------------------------
(* Finite sets in order *)

\* R orders any two elements of S
OrderOn(R, S) ==
    /\ \A x, y \in S : x # y => <<x, y>> \in R \/ <<y, x>> \in R
    /\ \A x, y, z \in S : <<x, y>> \in R /\ <<y, z>> \in R => <<x, z>> \in R

\* A finite set that is not empty has an element before all others.
LEMMA FiniteFirst ==
    ASSUME NEW S, IsFiniteSet(S), S # {}, NEW R, OrderOn(R, S)
    PROVE  \E x \in S : \A y \in S \ {x} : <<x, y>> \in R
  <1> DEFINE HasFirst(U) == \E x \in U : \A y \in U \ {x} : <<x, y>> \in R
             Good == {n \in Nat : \A U \in SUBSET S : Cardinality(U) = n + 1 => HasFirst(U)}
  <1>0. /\ \A x, y \in S : x # y => <<x, y>> \in R \/ <<y, x>> \in R
        /\ \A x, y, z \in S : <<x, y>> \in R /\ <<y, z>> \in R => <<x, z>> \in R
    BY DEF OrderOn
  <1>1. \A U \in SUBSET S : IsFiniteSet(U) /\ Cardinality(U) \in Nat
    BY FS_Subset, FS_CardinalityType
  <1>2. 0 \in Good
    <2> SUFFICES ASSUME NEW U \in SUBSET S, Cardinality(U) = 1 PROVE HasFirst(U)
      OBVIOUS
    <2>1. U # {}
      BY FS_EmptySet
    <2>2. PICK x \in U : TRUE
      BY <2>1
    <2>3. Cardinality(U \ {x}) = 0 /\ IsFiniteSet(U \ {x})
      BY <1>1, FS_RemoveElement
    <2>4. U \ {x} = {}
      BY <2>3, FS_EmptySet
    <2> QED
      BY <2>4
  <1>3. ASSUME NEW n \in Nat, n \in Good PROVE n + 1 \in Good
    <2> SUFFICES ASSUME NEW U \in SUBSET S, Cardinality(U) = n + 2 PROVE HasFirst(U)
      OBVIOUS
    <2>1. U # {}
      BY FS_EmptySet
    <2>2. PICK z \in U : TRUE
      BY <2>1
    <2>3. Cardinality(U \ {z}) = n + 1
      BY <1>1, FS_RemoveElement
    <2>4. PICK x \in U \ {z} : \A y \in (U \ {z}) \ {x} : <<x, y>> \in R
      BY <1>3, <2>3
    <2>5. x \in S /\ z \in S /\ x # z
      BY <2>2, <2>4
    <2>6. CASE <<x, z>> \in R
      <3>1. \A y \in U \ {x} : <<x, y>> \in R
        BY <2>4, <2>6
      <3> QED
        BY <3>1
    <2>7. CASE <<z, x>> \in R
      <3>1. ASSUME NEW y \in U \ {z} PROVE <<z, y>> \in R
        <4>1. CASE y = x
          BY <2>7, <4>1
        <4>2. CASE y # x
          <5>1. <<x, y>> \in R /\ y \in S
            BY <2>4, <4>2
          <5> QED
            BY <1>0, <2>5, <2>7, <5>1
        <4> QED
          BY <4>1, <4>2
      <3> QED
        BY <3>1
    <2> QED
      BY <1>0, <2>5, <2>6, <2>7
  <1>4. \A n \in Nat : n \in Good
    BY <1>2, <1>3, AllNumbers
  <1>5. Cardinality(S) \in Nat \ {0}
    BY <1>1, FS_EmptySet
  <1>6. Cardinality(S) - 1 \in Nat /\ Cardinality(S) = (Cardinality(S) - 1) + 1
    BY <1>5
  <1> HIDE DEF HasFirst
  <1>7. HasFirst(S)
    BY <1>4, <1>6
  <1> QED
    BY <1>7 DEF HasFirst

\* So a finite set of integers has a largest and a smallest.
LEMMA FiniteBounds ==
    ASSUME NEW S, S \subseteq Int, IsFiniteSet(S), S # {}
    PROVE  /\ \E x \in S : \A y \in S : x >= y
           /\ \E x \in S : \A y \in S : x <= y
  <1> DEFINE Up == {p \in Int \X Int : p[1] < p[2]}
             Down == {p \in Int \X Int : p[1] > p[2]}
  <1>1. OrderOn(Up, S)
    BY DEF OrderOn
  <1>2. OrderOn(Down, S)
    BY DEF OrderOn
  <1>3. \A x, y \in S : /\ <<x, y>> \in Up => x <= y
                        /\ <<x, y>> \in Down => x >= y
                        /\ x <= x
    OBVIOUS
  <1> HIDE DEF Up, Down
  <1>4. \E x \in S : \A y \in S \ {x} : <<x, y>> \in Up
    BY <1>1, FiniteFirst
  <1>5. \E x \in S : \A y \in S \ {x} : <<x, y>> \in Down
    BY <1>2, FiniteFirst
  <1>6. \E x \in S : \A y \in S : x <= y
    BY <1>3, <1>4
  <1>7. \E x \in S : \A y \in S : x >= y
    <2>1. PICK x \in S : \A y \in S \ {x} : <<x, y>> \in Down
      BY <1>5
    <2>2. ASSUME NEW y \in S PROVE x >= y
      <3>1. CASE y = x
        BY <3>1
      <3>2. CASE y # x
        BY <1>3, <2>1, <3>2
      <3> QED
        BY <3>1, <3>2
    <2> QED
      BY <2>2
  <1> QED
    BY <1>6, <1>7

\* A finite set can be listed in order.
LEMMA OrderedListing ==
    ASSUME NEW S, IsFiniteSet(S), NEW R, OrderOn(R, S)
    PROVE  \E q \in [1 .. Cardinality(S) -> S] :
              \A i, j \in 1 .. Cardinality(S) :
                  /\ i < j => <<q[i], q[j]>> \in R
                  /\ i # j => q[i] # q[j]
  <1> DEFINE Lists(q, U, n) ==
                \A i, j \in 1 .. n : /\ i < j => <<q[i], q[j]>> \in R
                                     /\ i # j => q[i] # q[j]
             Good == {n \in Nat : \A U \in SUBSET S :
                        Cardinality(U) = n => \E q \in [1 .. n -> U] : Lists(q, U, n)}
  <1>1. \A U \in SUBSET S : IsFiniteSet(U) /\ Cardinality(U) \in Nat
    BY FS_Subset, FS_CardinalityType
  <1>2. 0 \in Good
    <2> SUFFICES ASSUME NEW U \in SUBSET S PROVE \E q \in [1 .. 0 -> U] : Lists(q, U, 0)
      OBVIOUS
    <2>1. 1 .. 0 = {}
      OBVIOUS
    <2>2. [i \in 1 .. 0 |-> i] \in [1 .. 0 -> U]
      BY <2>1
    <2> QED
      BY <2>1, <2>2
  <1>3. ASSUME NEW n \in Nat, n \in Good PROVE n + 1 \in Good
    <2> SUFFICES ASSUME NEW U \in SUBSET S, Cardinality(U) = n + 1
                 PROVE  \E q \in [1 .. n + 1 -> U] : Lists(q, U, n + 1)
      OBVIOUS
    <2>1. U # {} /\ OrderOn(R, U)
      BY FS_EmptySet DEF OrderOn
    <2>2. PICK x \in U : \A y \in U \ {x} : <<x, y>> \in R
      BY <1>1, <2>1, FiniteFirst
    <2> DEFINE V == U \ {x}
    <2>3. Cardinality(V) = n /\ V \in SUBSET S
      <3>1. IsFiniteSet(U) /\ x \in U
        BY <1>1
      <3>2. Cardinality(V) = Cardinality(U) - 1
        BY <3>1, FS_RemoveElement
      <3> QED
        BY <3>2
    <2>4. PICK r \in [1 .. n -> V] : Lists(r, V, n)
      BY <1>3, <2>3
    <2> DEFINE q == [i \in 1 .. n + 1 |-> IF i = 1 THEN x ELSE r[i - 1]]
    <2>5. \A i \in 1 .. n + 1 : i # 1 => i - 1 \in 1 .. n
      OBVIOUS
    <2>6. /\ q \in [1 .. n + 1 -> U]
          /\ 1 \in 1 .. n + 1 /\ q[1] = x
          /\ \A i \in 1 .. n + 1 : i # 1 => q[i] = r[i - 1] /\ r[i - 1] \in V
      BY <2>2, <2>5
    <2> HIDE DEF q
    <2>7. ASSUME NEW i \in 1 .. n + 1, NEW j \in 1 .. n + 1, i < j
          PROVE  <<q[i], q[j]>> \in R /\ q[i] # q[j]
      <3>1. j # 1 /\ j - 1 \in 1 .. n
        BY <2>7, <2>5
      <3>2. q[j] = r[j - 1] /\ r[j - 1] \in V
        BY <2>6, <3>1
      <3>3. CASE i = 1
        BY <2>2, <2>6, <3>2, <3>3
      <3>4. CASE i # 1
        <4>1. i - 1 \in 1 .. n /\ i - 1 < j - 1 /\ q[i] = r[i - 1]
          BY <2>5, <2>6, <2>7, <3>4
        <4> QED
          BY <2>4, <3>1, <3>2, <4>1
      <3> QED
        BY <3>3, <3>4
    <2>8. \A i, j \in 1 .. n + 1 : i # j => i < j \/ j < i
      OBVIOUS
    <2>9. Lists(q, U, n + 1)
      BY <2>7, <2>8
    <2> QED
      BY <2>6, <2>9
  <1>4. \A n \in Nat : n \in Good
    BY <1>2, <1>3, AllNumbers
  <1> QED
    BY <1>1, <1>4

\* A list without repetition of as many elements as a set has holds all of them.
LEMMA ListsAll ==
    ASSUME NEW S, IsFiniteSet(S), NEW q \in [1 .. Cardinality(S) -> S],
           \A i, j \in 1 .. Cardinality(S) : i # j => q[i] # q[j], NEW x \in S
    PROVE  \E i \in 1 .. Cardinality(S) : q[i] = x
  <1>1. Cardinality(S) \in Nat
    BY FS_CardinalityType
  <1>2. IsFiniteSet(1 .. Cardinality(S)) /\ Cardinality(1 .. Cardinality(S)) = Cardinality(S)
    <2> DEFINE n == Cardinality(S)
    <2>1. n \in Nat
      BY <1>1
    <2> HIDE DEF n
    <2>2. IsFiniteSet(1 .. n) /\ Cardinality(1 .. n) = n
      <3>1. /\ IsFiniteSet(1 .. n)
            /\ Cardinality(1 .. n) = IF 1 > n THEN 0 ELSE n - 1 + 1
        BY <2>1, FS_Interval
      <3> QED
        BY <2>1, <3>1
    <2> QED
      BY <2>2 DEF n
  <1>3. q \in Injection(1 .. Cardinality(S), S)
    BY DEF Injection, IsInjective
  <1>4. q \in Surjection(1 .. Cardinality(S), S)
    BY <1>2, <1>3, FS_Injection
  <1> QED
    BY <1>4 DEF Surjection

\* the part of S that c assigns to i, and the sums over the parts
PartOf(S, c, i) == {x \in S : c[x] = i}

PartSums(f, S, c, n) == [i \in 1 .. n |-> SumFunctionOnSet(f, PartOf(S, c, i))]

\* The sums over the parts of S together are the sum over S.
LEMMA SumOfParts ==
    ASSUME NEW S, IsFiniteSet(S), NEW f \in [S -> Int], NEW n \in Nat, NEW c \in [S -> 1 .. n]
    PROVE  SumFunction(PartSums(f, S, c, n)) = SumFunction(f)
  <1> DEFINE Sum(U) == SumFunctionOnSet(f, U)
             Part(U, i) == {x \in U : c[x] = i}
             Parts(U) == [i \in 1 .. n |-> Sum(Part(U, i))]
             Good == {k \in Nat : \A U \in SUBSET S :
                        Cardinality(U) = k => SumFunction(Parts(U)) = Sum(U)}
  <1>0. IsFiniteSet(1 .. n)
    BY FS_Interval
  <1>1. \A U \in SUBSET S : IsFiniteSet(U) /\ Cardinality(U) \in Nat /\ Sum(U) \in Int
    <2> SUFFICES ASSUME NEW U \in SUBSET S
                 PROVE  IsFiniteSet(U) /\ Cardinality(U) \in Nat /\ Sum(U) \in Int
      OBVIOUS
    <2>1. IsFiniteSet(U) /\ Cardinality(U) \in Nat
      BY FS_Subset, FS_CardinalityType
    <2> QED
      BY <2>1, SumType
  <1>2. \A U \in SUBSET S : Parts(U) \in [1 .. n -> Int]
    <2> SUFFICES ASSUME NEW U \in SUBSET S, NEW i \in 1 .. n PROVE Sum(Part(U, i)) \in Int
      OBVIOUS
    <2>1. Part(U, i) \in SUBSET S
      OBVIOUS
    <2> HIDE DEF Part, Sum
    <2> QED
      BY <1>1, <2>1
  <1>3. 0 \in Good
    <2> SUFFICES ASSUME NEW U \in SUBSET S, Cardinality(U) = 0
                 PROVE  SumFunction(Parts(U)) = Sum(U)
      OBVIOUS
    <2>1. U = {}
      BY <1>1, FS_EmptySet
    <2>2. Sum({}) = 0
      BY SumEmpty
    <2>3. \A i \in 1 .. n : Part(U, i) = {}
      BY <2>1
    <2> HIDE DEF Sum, Part
    <2>4. \A i \in 1 .. n : Parts(U)[i] = 0
      BY <2>2, <2>3
    <2>5. Parts(U) \in [1 .. n -> Int]
      BY <1>2
    <2> HIDE DEF Parts
    <2>6. SumFunction(Parts(U)) = 0
      BY <1>0, <2>4, <2>5, SumOfZeros
    <2> QED
      BY <2>1, <2>2, <2>6
  <1>4. ASSUME NEW k \in Nat, k \in Good PROVE k + 1 \in Good
    <2> SUFFICES ASSUME NEW U \in SUBSET S, Cardinality(U) = k + 1
                 PROVE  SumFunction(Parts(U)) = Sum(U)
      OBVIOUS
    <2> DEFINE x == First(U)
               V == U \ {x}
    <2>1. U # {}
      BY FS_EmptySet
    <2>2. x \in U /\ V \in SUBSET S /\ Cardinality(V) = k
      BY <1>1, <2>1, FirstIn, FirstTaken
    <2>3. SumFunction(Parts(V)) = Sum(V)
      BY <1>4, <2>2
    <2>4. Sum(U) = f[x] + Sum(V)
      BY <1>1, <2>1, SumFirst
    <2> HIDE DEF x
    <2>5. /\ x \in S /\ f[x] \in Int /\ c[x] \in 1 .. n
          /\ Part(U, c[x]) \in SUBSET S /\ x \in Part(U, c[x])
          /\ Part(U, c[x]) \ {x} = Part(V, c[x])
          /\ \A i \in (1 .. n) \ {c[x]} : Part(U, i) = Part(V, i)
      BY <2>2
    <2>6. Sum(Part(U, c[x])) = f[x] + Sum(Part(V, c[x]))
      <3> DEFINE P == Part(U, c[x])
      <3>1. IsFiniteSet(P) /\ (\A y \in P : f[y] \in Int) /\ x \in P
        BY <1>1, <2>5
      <3>2. P \ {x} = Part(V, c[x])
        BY <2>5
      <3> HIDE DEF P
      <3>3. Sum(P) = f[x] + Sum(P \ {x})
        BY <3>1, SumTake
      <3> HIDE DEF Sum, V, Part
      <3> QED
        BY <3>2, <3>3 DEF P
    <2> HIDE DEF Sum, Part
    <2>7. /\ \A i \in (1 .. n) \ {c[x]} : Parts(U)[i] = Parts(V)[i]
          /\ Parts(U)[c[x]] = f[x] + Parts(V)[c[x]]
      BY <2>5, <2>6
    <2>8. Parts(U) \in [1 .. n -> Int] /\ Parts(V) \in [1 .. n -> Int]
      BY <1>2, <2>2
    <2> HIDE DEF Parts, V
    <2>9. SumFunction(Parts(U)) = SumFunction(Parts(V)) + (Parts(U)[c[x]] - Parts(V)[c[x]])
      <3> DEFINE F == Parts(U)
                 G == Parts(V)
                 j == c[x]
                 I == 1 .. n
      <3>1. /\ IsFiniteSet(I) /\ F \in [I -> Int] /\ G \in [I -> Int] /\ j \in I
            /\ \A i \in I \ {j} : F[i] = G[i]
        BY <1>0, <2>5, <2>7, <2>8
      <3> HIDE DEF F, G, j, I
      <3>2. SumFunction(F) = SumFunction(G) + (F[j] - G[j])
        BY <3>1, SumChanged
      <3> QED
        BY <3>2 DEF F, G, j
    <2>10. Parts(V)[c[x]] \in Int /\ Sum(V) \in Int
      BY <1>1, <2>2, <2>5, <2>8
    <2> QED
      BY <2>3, <2>4, <2>5, <2>7, <2>9, <2>10
  <1>5. \A k \in Nat : k \in Good
    BY <1>3, <1>4, AllNumbers
  <1>6. SumFunction(Parts(S)) = Sum(S)
    BY <1>1, <1>5
  <1>7. PartSums(f, S, c, n) = Parts(S)
    BY DEF PartSums, PartOf
  <1> HIDE DEF Parts
  <1> QED
    BY <1>6, <1>7, SumOfFunction

\* Summands that are zero can be left out.
LEMMA SumOfPart ==
    ASSUME NEW S, IsFiniteSet(S), NEW f \in [S -> Int], NEW P \in SUBSET S,
           \A x \in S \ P : f[x] = 0
    PROVE  SumFunctionOnSet(f, P) = SumFunction(f)
  <1> DEFINE c == [x \in S |-> IF x \in P THEN 1 ELSE 2]
             I == 1 .. 2
             sums == PartSums(f, S, c, 2)
  <1>1. c \in [S -> 1 .. 2] /\ I = 1 .. 2 /\ 2 \in Nat
    OBVIOUS
  <1>2. PartOf(S, c, 1) = P /\ PartOf(S, c, 2) = S \ P
    BY DEF PartOf
  <1>3. IsFiniteSet(P) /\ IsFiniteSet(S \ P) /\ IsFiniteSet(I)
    BY FS_Subset, FS_Interval
  <1>4. SumFunctionOnSet(f, S \ P) = 0
    BY <1>3, SumZero
  <1>5. SumFunctionOnSet(f, P) \in Int
    <2>1. \A x \in P : f[x] \in Int
      OBVIOUS
    <2> QED
      BY <1>3, <2>1, SumType
  <1> HIDE DEF c
  <1>6. SumFunction(sums) = SumFunction(f)
    BY <1>1, SumOfParts
  <1>7. \A i \in I : i = 1 \/ i = 2
    BY <1>1
  <1>8. /\ sums \in [I -> Int] /\ 1 \in I
        /\ \A i \in I \ {1} : sums[i] = 0
        /\ sums[1] = SumFunctionOnSet(f, P)
    BY <1>1, <1>2, <1>4, <1>5, <1>7 DEF PartSums
  <1> HIDE DEF sums, I
  <1>9. SumFunction(sums) = sums[1]
    BY <1>3, <1>8, SumSingle
  <1> QED
    BY <1>6, <1>8, <1>9

-----------------------------------------------------------------------------
(* Sequences. *)

\* What is left of a sequence when one element is removed.
LEMMA RemoveAtType ==
    ASSUME NEW S, NEW s \in Seq(S), NEW i \in DOMAIN s
    PROVE  RemoveAt(s, i) \in Seq(S) /\ Len(RemoveAt(s, i)) = Len(s) - 1
  <1> DEFINE front == SubSeq(s, 1, i - 1)
             back  == SubSeq(s, i + 1, Len(s))
  <1>1. i \in 1 .. Len(s) /\ Len(s) \in Nat
    OBVIOUS
  <1>2. front \in Seq(S) /\ Len(front) = i - 1
    BY <1>1
  <1>3. back \in Seq(S) /\ Len(back) = Len(s) - i
    BY <1>1
  <1>4. RemoveAt(s, i) = front \o back
    BY DEF RemoveAt
  <1> HIDE DEF front, back
  <1>5. front \o back \in Seq(S)
    BY <1>2, <1>3
  <1>6. Len(front \o back) = Len(front) + Len(back)
    BY <1>2, <1>3
  <1>7. Len(RemoveAt(s, i)) = (i - 1) + (Len(s) - i)
    BY <1>2, <1>3, <1>4, <1>6
  <1> QED
    BY <1>1, <1>4, <1>5, <1>7

=============================================================================
