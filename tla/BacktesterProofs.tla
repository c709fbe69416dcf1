--------------------------- MODULE BacktesterProofs ---------------------------
(******************************************************************************)
(* What TLAPS proves about Backtester for every strategy, market, range, tick *)
(* size, budget, period and threshold.  The code goes through candlesticks,   *)
(* indicators and results in loops, which the model has as FoldLeft: for each *)
(* of them a lemma (...Trace) gives the values it goes through, from which    *)
(* induction up to the length of the sequence shows what it ends with.        *)
(******************************************************************************)
EXTENDS BacktesterResults, WellFoundedInduction, SequenceTheorems, TLAPS

--------------------------------------------------------------------------------
(* Induction and folds. *)

\* Induction, of a set of natural numbers: the library's theorem takes an
\* operator, the well-foundedness of < does not.
LEMMA NatSetInduction ==
    ASSUME NEW T, 0 \in T, \A n \in Nat : n \in T => n + 1 \in T
    PROVE  Nat \subseteq T
<1> DEFINE Below == {ss \in Nat \X Nat : ss[1] < ss[2]}
<1>1. IsWellFoundedOn(Below, Nat)
  BY NatLessThanWellFounded, Zenon DEF OpToRel
<1> SUFFICES ASSUME Nat \ T # {} PROVE FALSE
  OBVIOUS
<1> HIDE DEF Below
<1>2. PICK x \in Nat \ T : \A y \in Nat \ T : ~ (<<y, x>> \in Below)
  BY <1>1, WFMin
<1> USE DEF Below
<1>3. x # 0 /\ x - 1 \in Nat
  OBVIOUS
<1>4. x - 1 \in T
  <2>1. <<x - 1, x>> \in Below
    BY <1>3
  <2>2. x - 1 \in Nat /\ (x - 1 \in Nat \ T => <<x - 1, x>> \notin Below)
    BY <1>2, <1>3
  <2> QED BY <2>1, <2>2
<1> QED
  BY <1>3, <1>4

\* Induction up to n.
LEMMA IntervalInduction ==
    ASSUME NEW n \in Nat, NEW T, 0 \in T, \A k \in 1..n : k - 1 \in T => k \in T
    PROVE  0..n \subseteq T
<1> DEFINE U == {k \in Nat : k <= n => k \in T}
<1>1. 0 \in U
  OBVIOUS
<1>2. \A k \in Nat : k \in U => k + 1 \in U
  <2> SUFFICES ASSUME NEW k \in Nat, k \in U, k + 1 <= n PROVE k + 1 \in T
    OBVIOUS
  <2>1. k + 1 \in 1..n /\ (k + 1) - 1 = k /\ k \in T
    OBVIOUS
  <2> QED BY <2>1
<1>3. Nat \subseteq U
  <2> HIDE DEF U
  <2> QED BY <1>1, <1>2, NatSetInduction
<1> QED
  BY <1>3

\* Max of a set of indices is its largest (FiniteSetsExt's is a CHOOSE).
LEMMA LargestOf ==
    ASSUME NEW n \in Nat, NEW S \in SUBSET (1..n), S # {}
    PROVE  Max(S) \in S /\ \A x \in S : x <= Max(S)
<1> DEFINE T == {k \in Nat : S \cap (1..k) # {} =>
                    \E x \in S \cap (1..k) : \A y \in S \cap (1..k) : x >= y}
<1>1. 0 \in T
  OBVIOUS
<1>2. \A k \in Nat : k \in T => k + 1 \in T
  <2> SUFFICES ASSUME NEW k \in Nat, k \in T PROVE k + 1 \in T
    OBVIOUS
  <2>1. CASE k + 1 \in S
    BY <2>1
  <2>2. CASE k + 1 \notin S
    <3>1. S \cap (1..(k + 1)) = S \cap (1..k)
      BY <2>2
    <3> QED BY <3>1
  <2> QED BY <2>1, <2>2
<1>3. n \in T
  <2> HIDE DEF T
  <2> QED BY <1>1, <1>2, NatSetInduction
<1>4. S \cap (1..n) = S
  OBVIOUS
<1>5. \E x \in S : \A y \in S : x >= y
  BY <1>3, <1>4
<1>6. Max(S) \in S /\ \A y \in S : Max(S) >= y
  BY <1>5 DEF Max
<1> QED
  BY <1>6

\* The indices up to k, and those before it.
LEMMA InitialSegments ==
    ASSUME NEW n \in Nat, NEW k \in 1..n
    PROVE  /\ 1..k \in SUBSET (1..n)
           /\ 1..k # {}
           /\ Max(1..k) = k
           /\ (1..k) \ {Max(1..k)} = 1..(k - 1)
<1>1. 1..k \in SUBSET (1..n)
  OBVIOUS
<1>2. k \in 1..k
  OBVIOUS
<1>3. 1..k # {}
  BY <1>2
<1>4. Max(1..k) \in 1..k /\ \A x \in 1..k : x <= Max(1..k)
  BY <1>1, <1>3, LargestOf
<1>5. Max(1..k) = k
  BY <1>2, <1>4
<1>6. (1..k) \ {k} = 1..(k - 1)
  OBVIOUS
<1>7. (1..k) \ {Max(1..k)} = 1..(k - 1)
  BY <1>5, <1>6, Zenon
<1> QED
  BY <1>1, <1>3, <1>5, <1>7

\* g is defined so from F, the function of each index, and base.
FoldsTo(g, A, base, n, F) ==
    /\ g \in [SUBSET (1..n) -> A]
    /\ g = [s \in SUBSET (1..n) |->
              IF s = {} THEN base ELSE F[Max(s)][g[s \ {Max(s)}]]]

\* A function over sets of indices can be defined by what it is without the
\* largest of them.
LEMMA FoldIsDefined ==
    ASSUME NEW A, NEW base \in A, NEW n \in Nat, NEW F \in [1..n -> [A -> A]]
    PROVE  \E g : FoldsTo(g, A, base, n, F)
<1> DEFINE IsFold(g, k) ==
              \A s \in SUBSET (1..k) :
                  g[s] = IF s = {} THEN base ELSE F[Max(s)][g[s \ {Max(s)}]]
           HasFold(k) == \E g \in [SUBSET (1..k) -> A] : IsFold(g, k)
           T == {k \in Nat : k <= n => HasFold(k)}
<1>1. 0 \in T
  <2> DEFINE g == [s \in SUBSET (1..0) |-> base]
  <2>1. \A s \in SUBSET (1..0) : s = {}
    OBVIOUS
  <2>2. g \in [SUBSET (1..0) -> A] /\ IsFold(g, 0)
    BY <2>1
  <2> QED BY <2>2
<1>2. \A k \in Nat : k \in T => k + 1 \in T
  <2> SUFFICES ASSUME NEW k \in Nat, k \in T, k + 1 <= n
               PROVE  HasFold(k + 1)
    <3> HIDE DEF HasFold
    <3> QED OBVIOUS
  <2>0. HasFold(k)
    <3> HIDE DEF HasFold
    <3> QED OBVIOUS
  <2>1. PICK g \in [SUBSET (1..k) -> A] : IsFold(g, k)
    BY <2>0
  <2> DEFINE h == [s \in SUBSET (1..(k + 1)) |->
                      IF k + 1 \in s THEN F[k + 1][g[s \ {k + 1}]] ELSE g[s]]
  <2>2. \A s \in SUBSET (1..(k + 1)) :
            s \ {k + 1} \in SUBSET (1..k) /\ (k + 1 \notin s => s \in SUBSET (1..k))
    BY SMTT(30)
  <2>3. F[k + 1] \in [A -> A]
    OBVIOUS
  <2>4. h \in [SUBSET (1..(k + 1)) -> A]
    BY <2>2, <2>3
  <2>5. ASSUME NEW s \in SUBSET (1..(k + 1))
        PROVE  h[s] = IF s = {} THEN base ELSE F[Max(s)][h[s \ {Max(s)}]]
    <3>1. CASE k + 1 \in s
      <4>0. k + 1 \in Nat /\ s # {}
        BY <3>1
      <4>1. Max(s) \in s /\ \A x \in s : x <= Max(s)
        BY <4>0, LargestOf
      <4>2. Max(s) = k + 1
        <5>1. Max(s) \in 1..(k + 1) /\ k + 1 <= Max(s)
          BY <4>1, <3>1
        <5> QED BY <5>1
      <4>3. h[s \ {k + 1}] = g[s \ {k + 1}]
        BY <2>2
      <4> QED BY <3>1, <4>2, <4>3
    <3>2. CASE s = {}
      BY <3>2, <2>1
    <3>3. CASE s # {} /\ k + 1 \notin s
      <4>1. s \in SUBSET (1..k)
        BY <3>3
      <4>2. h[s] = F[Max(s)][g[s \ {Max(s)}]]
        BY <3>3, <4>1, <2>1
      <4>3. h[s \ {Max(s)}] = g[s \ {Max(s)}]
        BY <3>3, <4>1
      <4> QED BY <3>3, <4>2, <4>3
    <3> QED BY <3>1, <3>2, <3>3
  <2> QED BY <2>4, <2>5
<1>3. n \in T
  <2> HIDE DEF T
  <2> QED BY <1>1, <1>2, NatSetInduction
<1>4. HasFold(n)
  <2> HIDE DEF HasFold
  <2> QED BY <1>3
<1>5. PICK g \in [SUBSET (1..n) -> A] : IsFold(g, n)
  BY <1>4
<1>6. g = [s \in SUBSET (1..n) |->
              IF s = {} THEN base ELSE F[Max(s)][g[s \ {Max(s)}]]]
  BY <1>5
<1> QED
  BY <1>6 DEF FoldsTo

\* h goes from base by the functions of the indices, one after another.
Traces(h, A, base, n, F) ==
    /\ h \in [0..n -> A]
    /\ h[0] = base
    /\ \A k \in 1..n : h[k] = F[k][h[k - 1]]

\* iter is defined so as far as its values are in A.
Iterates(iter, A, base, n, F) ==
    /\ iter[{}] = base
    /\ \A s \in SUBSET (1..n) : s # {} /\ iter[s \ {Max(s)}] \in A =>
          iter[s] = F[Max(s)][iter[s \ {Max(s)}]]

\* What is defined so has, over a whole interval, a trace from one index to the
\* next.
LEMMA FoldHasTrace ==
    ASSUME NEW A, NEW base \in A, NEW n \in Nat, NEW F \in [1..n -> [A -> A]],
           NEW iter, Iterates(iter, A, base, n, F)
    PROVE  \E h : Traces(h, A, base, n, F) /\ h[n] = iter[1..n]
<1> DEFINE h == [k \in 0..n |-> iter[1..k]]
<1>1. h[0] = base
  <2>1. 1..0 = {}
    OBVIOUS
  <2> QED BY <2>1 DEF Iterates
<1>2. ASSUME NEW k \in 1..n, h[k - 1] \in A
      PROVE  h[k] = F[k][h[k - 1]]
  <2>1. 1..k \in SUBSET (1..n) /\ 1..k # {} /\ Max(1..k) = k
    BY InitialSegments
  <2>2. (1..k) \ {Max(1..k)} = 1..(k - 1)
    BY InitialSegments
  <2>3. h[k - 1] = iter[1..(k - 1)] /\ h[k] = iter[1..k]
    OBVIOUS
  <2>4. iter[1..k] = F[Max(1..k)][iter[(1..k) \ {Max(1..k)}]]
    BY <1>2, <2>1, <2>2, <2>3 DEF Iterates
  <2> QED BY <2>1, <2>2, <2>3, <2>4
<1>3. \A k \in 0..n : h[k] \in A
  <2> DEFINE T == {k \in 0..n : h[k] \in A}
  <2>1. 0 \in T
    BY <1>1
  <2>2. ASSUME NEW k \in 1..n, k - 1 \in T PROVE k \in T
    <3>1. h[k] = F[k][h[k - 1]] /\ h[k - 1] \in A
      BY <1>2, <2>2
    <3> QED BY <3>1
  <2>3. 0..n \subseteq T
    <3> HIDE DEF T
    <3> QED BY <2>1, <2>2, IntervalInduction
  <2> QED BY <2>3
<1>4. h \in [0..n -> A] /\ \A k \in 1..n : h[k] = F[k][h[k - 1]]
  <2>1. h \in [0..n -> A]
    BY <1>3
  <2>2. ASSUME NEW k \in 1..n PROVE h[k] = F[k][h[k - 1]]
    <3>1. k - 1 \in 0..n
      OBVIOUS
    <3> QED BY <1>2, <1>3, <3>1
  <2> QED BY <2>1, <2>2
<1>5. h[n] = iter[1..n]
  OBVIOUS
<1>6. Traces(h, A, base, n, F)
  BY <1>1, <1>4 DEF Traces
<1> HIDE DEF h
<1> QED
  BY <1>5, <1>6

--------------------------------------------------------------------------------
\* A candlestick with volume has prices.
Priced(c) == c.volume > 0 => c.low > 0 /\ c.high > 0 /\ c.open > 0 /\ c.close > 0

\* What a builder of a period may have become.
BuiltFor(start, end) == {c \in Candle : c.start = start /\ c.end = end /\ Priced(c)}

\* A new builder has no prices and no volume.
LEMMA BuilderIsBuilt ==
    ASSUME NEW start \in Nat, NEW end \in Nat
    PROVE  NewCandlestickBuilder(start, end) \in BuiltFor(start, end)
BY DEF NewCandlestickBuilder, BuiltFor, Candle, Priced

\* A trade keeps a builder in shape (candlesticks.go:134-179).
LEMMA ProcessMessageBuilds ==
    ASSUME NEW start \in Nat, NEW end \in Nat, NEW b \in BuiltFor(start, end),
           NEW t \in [time : Nat, price : Nat \ {0}, size : Nat \ {0}]
    PROVE  ProcessMessage(b, t) \in BuiltFor(start, end)
<1>1. b \in Candle /\ t.price \in Nat \ {0} /\ t.size \in Nat
  BY DEF BuiltFor
<1>2. \A x \in Nat : OrFirst(x, t.price) \in Nat \ {0}
  BY <1>1 DEF OrFirst
<1>3. \A x \in Nat \ {0} : /\ Lower(x, t.price) \in Nat \ {0}
                           /\ Higher(x, t.price) \in Nat \ {0}
  BY <1>1 DEF Lower, Higher
<1>4. ASSUME b.start <= t.time /\ t.time <= b.end
      PROVE  ProcessMessage(b, t) \in BuiltFor(start, end)
  <2> DEFINE low == Lower(OrFirst(b.low, t.price), t.price)
             high == Higher(OrFirst(b.high, t.price), t.price)
             open == OrFirst(b.open, t.price)
  <2>1. low \in Nat \ {0} /\ high \in Nat \ {0} /\ open \in Nat \ {0}
    BY <1>1, <1>2, <1>3 DEF Candle
  <2>2. ProcessMessage(b, t) =
            [start |-> start, end |-> end, low |-> low, high |-> high,
             open |-> open, close |-> t.price, volume |-> b.volume + t.size]
    BY <1>4 DEF ProcessMessage, BuiltFor, Candle
  <2> HIDE DEF low, high, open
  <2>3. b.volume + t.size \in Nat /\ t.price \in Nat \ {0}
    BY <1>1 DEF Candle
  <2> QED
    BY <2>1, <2>2, <2>3 DEF BuiltFor, Candle, Priced
<1> QED
  BY <1>4 DEF ProcessMessage

\* So does a shorter candlestick (candlesticks.go:181-222).
LEMMA ProcessCandlestickBuilds ==
    ASSUME NEW start \in Nat, NEW end \in Nat, NEW b \in BuiltFor(start, end),
           NEW c \in Candle, Priced(c), c.volume > 0
    PROVE  ProcessCandlestickModel(b, c) \in BuiltFor(start, end)
<1>1. /\ b \in Candle /\ c.volume \in Nat
      /\ \A p \in {c.low, c.high, c.open, c.close} : p \in Nat \ {0}
  BY DEF BuiltFor, Candle, Priced
<1>2. \A x \in Nat, p \in Nat \ {0} : OrFirst(x, p) \in Nat \ {0}
  BY DEF OrFirst
<1>3. \A x, p \in Nat \ {0} : Lower(x, p) \in Nat \ {0} /\ Higher(x, p) \in Nat \ {0}
  BY DEF Lower, Higher
<1>4. ASSUME b.start <= c.start /\ c.end <= b.end
      PROVE  ProcessCandlestickModel(b, c) \in BuiltFor(start, end)
  <2> DEFINE low == Lower(OrFirst(b.low, c.low), c.low)
             high == Higher(OrFirst(b.high, c.high), c.high)
             open == OrFirst(b.open, c.open)
  <2>1. low \in Nat \ {0} /\ high \in Nat \ {0} /\ open \in Nat \ {0}
    BY <1>1, <1>2, <1>3 DEF Candle
  <2>2. ProcessCandlestickModel(b, c) =
            [start |-> start, end |-> end, low |-> low, high |-> high,
             open |-> open, close |-> c.close, volume |-> b.volume + c.volume]
    BY <1>4 DEF ProcessCandlestickModel, BuiltFor, Candle
  <2> HIDE DEF low, high, open
  <2>3. b.volume + c.volume \in Nat /\ c.close \in Nat \ {0}
    BY <1>1 DEF Candle
  <2> QED
    BY <2>1, <2>2, <2>3 DEF BuiltFor, Candle, Priced
<1> QED
  BY <1>4 DEF ProcessCandlestickModel

\* A trade the importer keeps.
Trade == [price : Nat \ {0}, size : Nat \ {0}]

\* The candlestick of a minute is the builder led over its trades.
LEMMA MinuteTrace ==
    ASSUME NEW m \in Nat, market[m] \in Seq(Trade)
    PROVE  /\ MinuteCandlestick(m) \in BuiltFor(m, m + 1)
           /\ \E h \in [0..Len(market[m]) -> BuiltFor(m, m + 1)] :
                 /\ h[0] = NewCandlestickBuilder(m, m + 1)
                 /\ \A k \in 1..Len(market[m]) :
                       h[k] = ProcessMessage(h[k - 1], TradesOf(m)[k])
                 /\ MinuteCandlestick(m) = h[Len(market[m])]
<1> DEFINE n == Len(market[m])
           A == BuiltFor(m, m + 1)
           base == NewCandlestickBuilder(m, m + 1)
           F == [i \in 1..n |-> [a \in A |-> ProcessMessage(a, TradesOf(m)[i])]]
           IsIter(g) == g = [s \in SUBSET (1..n) |->
              IF s = {} THEN base
              ELSE ProcessMessage(g[s \ {Max(s)}], TradesOf(m)[Max(s)])]
           iter == CHOOSE g : IsIter(g)
<1>1. /\ n \in Nat /\ base \in A
      /\ \A a \in A, i \in 1..n : ProcessMessage(a, TradesOf(m)[i]) \in A
  <2>1. \A i \in 1..n :
            TradesOf(m)[i] \in [time : Nat, price : Nat \ {0}, size : Nat \ {0}]
    <3> SUFFICES ASSUME NEW i \in 1..n
                 PROVE  TradesOf(m)[i] \in
                            [time : Nat, price : Nat \ {0}, size : Nat \ {0}]
      OBVIOUS
    <3>1. market[m][i] \in Trade
      OBVIOUS
    <3> QED BY <3>1 DEF TradesOf, Trade
  <2>2. base \in A
    BY BuilderIsBuilt
  <2>3. n \in Nat
    OBVIOUS
  <2>4. \A a \in A, i \in 1..n : ProcessMessage(a, TradesOf(m)[i]) \in A
    <3>1. m + 1 \in Nat
      OBVIOUS
    <3> QED BY <2>1, <3>1, ProcessMessageBuilds
  <2> QED BY <2>2, <2>3, <2>4
<1>2. F \in [1..n -> [A -> A]]
  BY <1>1
<1>3. PICK g : FoldsTo(g, A, base, n, F)
  <2> HIDE DEF A, base, F, n
  <2> QED BY <1>1, <1>2, FoldIsDefined
<1>4. \A s \in SUBSET (1..n), b \in A : s # {} =>
          F[Max(s)][b] = ProcessMessage(b, TradesOf(m)[Max(s)])
  <2> HIDE DEF A, base, n
  <2> QED BY <1>1, LargestOf
<1>5. IsIter(iter)
  <2>1. IsIter(g)
    <3> HIDE DEF A, base, n, F
    <3> QED BY <1>3, <1>4 DEF FoldsTo
  <2> HIDE DEF IsIter
  <2> QED BY <2>1
<1>6. MinuteCandlestick(m) = iter[1..n]
  <2>1. DOMAIN TradesOf(m) = 1..n
    BY DEF TradesOf
  <2> QED BY <2>1, Zenon DEF MinuteCandlestick, FoldLeft, MapThenFoldSet
<1> HIDE DEF iter
<1>7. Iterates(iter, A, base, n, F)
  <2> HIDE DEF A, base, F, n
  <2> QED BY <1>4, <1>5 DEF Iterates
<1>8. PICK h : Traces(h, A, base, n, F) /\ h[n] = iter[1..n]
  <2> HIDE DEF A, base, F, n
  <2> QED BY <1>1, <1>2, <1>7, FoldHasTrace
<1>9. h \in [0..n -> A] /\ h[0] = base /\ MinuteCandlestick(m) = h[n]
  <2> HIDE DEF A, base, F, n
  <2> QED BY <1>6, <1>8 DEF Traces
<1>10. ASSUME NEW k \in 1..n PROVE h[k] = ProcessMessage(h[k - 1], TradesOf(m)[k])
  <2>1. h[k] = F[k][h[k - 1]] /\ h[k - 1] \in A
    <3> HIDE DEF A, base, F
    <3> QED BY <1>1, <1>8, <1>9 DEF Traces
  <2> HIDE DEF A
  <2> QED BY <2>1
<1>11. MinuteCandlestick(m) \in A
  <2>1. n \in 0..n
    BY <1>1
  <2> HIDE DEF A, n
  <2> QED BY <1>9, <2>1
<1> QED
  BY <1>9, <1>10, <1>11

\* Keeping the candlesticks with volume, one after another.
LEMMA WithVolumeTrace ==
    ASSUME NEW C \in SUBSET Candle, NEW cs \in Seq(C)
    PROVE  /\ WithVolume(cs) \in Seq({c \in C : c.volume > 0})
           /\ \E h \in [0..Len(cs) -> Seq({c \in C : c.volume > 0})] :
                 /\ h[0] = <<>>
                 /\ \A k \in 1..Len(cs) :
                       h[k] = KeepWithVolume(h[k - 1], cs[k])
                 /\ WithVolume(cs) = h[Len(cs)]
<1> DEFINE n == Len(cs)
           A == Seq({c \in C : c.volume > 0})
           base == <<>>
           F == [i \in 1..n |-> [a \in A |-> KeepWithVolume(a, cs[i])]]
           IsIter(g) == g = [s \in SUBSET (1..n) |->
              IF s = {} THEN base
              ELSE KeepWithVolume(g[s \ {Max(s)}], cs[Max(s)])]
           iter == CHOOSE g : IsIter(g)
<1>1. /\ n \in Nat /\ base \in A
      /\ \A a \in A, i \in 1..n : KeepWithVolume(a, cs[i]) \in A
  BY DEF KeepWithVolume
<1>2. F \in [1..n -> [A -> A]]
  BY <1>1
<1>3. PICK g : FoldsTo(g, A, base, n, F)
  <2> HIDE DEF A, base, F, n
  <2> QED BY <1>1, <1>2, FoldIsDefined
<1>4. \A s \in SUBSET (1..n), b \in A : s # {} =>
          F[Max(s)][b] = KeepWithVolume(b, cs[Max(s)])
  <2> HIDE DEF A, base, n
  <2> QED BY <1>1, LargestOf
<1>5. IsIter(iter)
  <2>1. IsIter(g)
    <3> HIDE DEF A, base, n, F
    <3> QED BY <1>3, <1>4 DEF FoldsTo
  <2> HIDE DEF IsIter
  <2> QED BY <2>1
<1>6. WithVolume(cs) = iter[1..n]
  <2>1. DOMAIN cs = 1..n
    OBVIOUS
  <2> QED BY <2>1, Zenon DEF WithVolume, FoldLeft, MapThenFoldSet
<1> HIDE DEF iter
<1>7. Iterates(iter, A, base, n, F)
  <2> HIDE DEF A, base, F, n
  <2> QED BY <1>4, <1>5 DEF Iterates
<1>8. PICK h : Traces(h, A, base, n, F) /\ h[n] = iter[1..n]
  <2> HIDE DEF A, base, F, n
  <2> QED BY <1>1, <1>2, <1>7, FoldHasTrace
<1>9. h \in [0..n -> A] /\ h[0] = base /\ WithVolume(cs) = h[n]
  <2> HIDE DEF A, base, F, n
  <2> QED BY <1>6, <1>8 DEF Traces
<1>10. ASSUME NEW k \in 1..n PROVE h[k] = KeepWithVolume(h[k - 1], cs[k])
  <2>1. h[k] = F[k][h[k - 1]] /\ h[k - 1] \in A
    <3> HIDE DEF A, base, F
    <3> QED BY <1>1, <1>8, <1>9 DEF Traces
  <2> HIDE DEF A
  <2> QED BY <2>1
<1>11. WithVolume(cs) \in A
  <2>1. n \in 0..n
    BY <1>1
  <2> HIDE DEF A, n
  <2> QED BY <1>9, <2>1
<1> QED
  BY <1>9, <1>10, <1>11

--------------------------------------------------------------------------------
\* What the database holds.
Stored == {c \in Candle : Priced(c) /\ c.volume > 0}

\* The rows of the table are candlesticks with volume and prices.
LEMMA MinutesAreStored ==
    ASSUME market \in Markets
    PROVE  StoredCandlesticks \in Seq(Stored)
<1> DEFINE C == {c \in Candle : Priced(c)}
           minutes == [i \in 1..(EndTime - actualStartTime) |->
                          MinuteCandlestick(actualStartTime + i - 1)]
<1>1. actualStartTime \in Nat /\ EndTime - actualStartTime \in Nat
  BY BacktesterAssumption DEF actualStartTime
<1>2. ASSUME NEW m \in actualStartTime..(EndTime - 1)
      PROVE  MinuteCandlestick(m) \in C
  <2>1. m \in Nat /\ market[m] \in Seq(Trade)
    BY <1>1, BacktesterAssumption DEF Trade
  <2>2. MinuteCandlestick(m) \in BuiltFor(m, m + 1)
    BY <2>1, MinuteTrace
  <2> QED BY <2>2 DEF BuiltFor
<1>3. minutes \in Seq(C)
  <2>1. \A i \in 1..(EndTime - actualStartTime) :
            actualStartTime + i - 1 \in actualStartTime..(EndTime - 1)
    BY <1>1, BacktesterAssumption
  <2> HIDE DEF C
  <2> QED BY <1>1, <1>2, <2>1
<1>4. WithVolume(minutes) \in Seq({c \in C : c.volume > 0})
  <2>1. C \in SUBSET Candle
    OBVIOUS
  <2> HIDE DEF C, minutes
  <2> QED BY <1>3, <2>1, WithVolumeTrace
<1>5. {c \in C : c.volume > 0} = Stored
  BY DEF Stored
<1> QED
  BY <1>4, <1>5 DEF StoredCandlesticks

--------------------------------------------------------------------------------
\* The periods' starts are times, a tick size apart or more.
LEMMA BucketsAreTimes ==
    ASSUME NEW cs \in Seq(Stored), cs # <<>>, NEW size \in Nat \ {0}
    PROVE  /\ Len(Buckets(cs, size)) \in Nat
           /\ Buckets(cs, size) \in Seq(Nat)
           /\ \A i, j \in DOMAIN Buckets(cs, size) :
                 i < j => Buckets(cs, size)[i] + size <= Buckets(cs, size)[j]
<1> DEFINE start == CandlestickBucket(Head(cs).start, size)
           end == CandlestickBucket(Last(cs).start, size)
           count == (end - start) \div size + 1
<1>1. Head(cs).start \in Nat /\ Last(cs).start \in Nat
  BY DEF Stored, Candle, Last
<1>2. \A t \in Nat : CandlestickBucket(t, size) \in Nat
  BY DEF CandlestickBucket
<1>3. start \in Nat /\ end \in Nat /\ count \in Int
  <2>1. start \in Nat /\ end \in Nat
    BY <1>1, <1>2
  <2> HIDE DEF start, end
  <2> QED BY <2>1
<1>4. Buckets(cs, size) = [i \in 1..count |-> start + (i - 1) * size]
  BY DEF Buckets
<1> HIDE DEF start, end, count
<1>5. \A i \in 1..count : start + (i - 1) * size \in Nat
  BY <1>3
<1>6. Buckets(cs, size) \in Seq(Nat) /\ DOMAIN Buckets(cs, size) = 1..count
  <2>1. CASE count \in Nat
    <3>1. [i \in 1..count |-> start + (i - 1) * size] \in Seq(Nat)
      BY <1>5, <2>1
    <3> QED BY <1>4, <3>1
  <2>2. CASE count < 0
    <3>1. 1..count = {}
      BY <1>3, <2>2
    <3>2. Buckets(cs, size) = <<>>
      BY <1>4, <3>1
    <3> QED BY <3>1, <3>2
  <2> QED BY <1>3, <2>1, <2>2
<1>7. ASSUME NEW i \in 1..count, NEW j \in 1..count, i < j
      PROVE  start + (i - 1) * size + size <= start + (j - 1) * size
  <2>1. PICK d \in Nat : j = i + 1 + d
    BY <1>3, <1>7
  <2>2. (j - 1) * size = (i - 1) * size + size + d * size
    BY <1>3, <2>1
  <2>3. d * size \in Nat /\ (i - 1) * size \in Nat /\ (j - 1) * size \in Nat
    BY <1>3
  <2> QED BY <1>3, <2>2, <2>3
<1>8. \A i \in 1..count : Buckets(cs, size)[i] = start + (i - 1) * size
  BY <1>4
<1> QED
  BY <1>6, <1>7, <1>8

\* A builder for every period.
BuildersOf(cs, size) ==
    {f \in [Range(Buckets(cs, size)) -> Candle] :
        \A b \in Range(Buckets(cs, size)) : f[b] \in BuiltFor(b, b + size)}

\* The builders of the periods, led over the candlesticks.
LEMMA BuildersTrace ==
    ASSUME NEW cs \in Seq(Stored), cs # <<>>, NEW size \in Nat \ {0}
    PROVE  /\ Builders(cs, size) \in BuildersOf(cs, size)
           /\ \E h \in [0..Len(cs) -> BuildersOf(cs, size)] :
                 /\ h[0] = [b \in Range(Buckets(cs, size)) |->
                              NewCandlestickBuilder(b, b + size)]
                 /\ \A k \in 1..Len(cs) :
                       h[k] = AddCandle(h[k - 1], cs[k], size)
                 /\ Builders(cs, size) = h[Len(cs)]
<1> DEFINE n == Len(cs)
           A == BuildersOf(cs, size)
           base == [b \in Range(Buckets(cs, size)) |->
                       NewCandlestickBuilder(b, b + size)]
           F == [i \in 1..n |-> [a \in A |-> AddCandle(a, cs[i], size)]]
           IsIter(g) == g = [s \in SUBSET (1..n) |->
              IF s = {} THEN base
              ELSE AddCandle(g[s \ {Max(s)}], cs[Max(s)], size)]
           iter == CHOOSE g : IsIter(g)
<1>1. /\ n \in Nat /\ base \in A
      /\ \A a \in A, i \in 1..n : AddCandle(a, cs[i], size) \in A
  <2> DEFINE R == Range(Buckets(cs, size))
  <2>1. \A b \in R : b \in Nat /\ b + size \in Nat
    BY BucketsAreTimes DEF Range
  <2>2. \A b \in R : NewCandlestickBuilder(b, b + size) \in BuiltFor(b, b + size)
    BY <2>1, BuilderIsBuilt
  <2>3. base \in A
    BY <2>2 DEF BuildersOf, BuiltFor
  <2>4. ASSUME NEW a \in A, NEW i \in 1..n PROVE AddCandle(a, cs[i], size) \in A
    <3>1. cs[i] \in Stored
      OBVIOUS
    <3>2. \A b \in R : ProcessCandlestickModel(a[b], cs[i]) \in BuiltFor(b, b + size)
      BY <2>1, <3>1, ProcessCandlestickBuilds DEF BuildersOf, Stored
    <3> QED BY <3>2 DEF AddCandle, BuildersOf, BuiltFor
  <2> QED BY <2>3, <2>4
<1>2. F \in [1..n -> [A -> A]]
  BY <1>1
<1>3. PICK g : FoldsTo(g, A, base, n, F)
  <2> HIDE DEF A, base, F, n
  <2> QED BY <1>1, <1>2, FoldIsDefined
<1>4. \A s \in SUBSET (1..n), b \in A : s # {} =>
          F[Max(s)][b] = AddCandle(b, cs[Max(s)], size)
  <2> HIDE DEF A, base, n
  <2> QED BY <1>1, LargestOf
<1>5. IsIter(iter)
  <2>1. IsIter(g)
    <3> HIDE DEF A, base, n, F
    <3> QED BY <1>3, <1>4 DEF FoldsTo
  <2> HIDE DEF IsIter
  <2> QED BY <2>1
<1>6. Builders(cs, size) = iter[1..n]
  <2>1. DOMAIN cs = 1..n
    OBVIOUS
  <2> QED BY <2>1, Zenon DEF Builders, FoldLeft, MapThenFoldSet
<1> HIDE DEF iter
<1>7. Iterates(iter, A, base, n, F)
  <2> HIDE DEF A, base, F, n
  <2> QED BY <1>4, <1>5 DEF Iterates
<1>8. PICK h : Traces(h, A, base, n, F) /\ h[n] = iter[1..n]
  <2> HIDE DEF A, base, F, n
  <2> QED BY <1>1, <1>2, <1>7, FoldHasTrace
<1>9. h \in [0..n -> A] /\ h[0] = base /\ Builders(cs, size) = h[n]
  <2> HIDE DEF A, base, F, n
  <2> QED BY <1>6, <1>8 DEF Traces
<1>10. ASSUME NEW k \in 1..n PROVE h[k] = AddCandle(h[k - 1], cs[k], size)
  <2>1. h[k] = F[k][h[k - 1]] /\ h[k - 1] \in A
    <3> HIDE DEF A, base, F
    <3> QED BY <1>1, <1>8, <1>9 DEF Traces
  <2> HIDE DEF A
  <2> QED BY <2>1
<1>11. Builders(cs, size) \in A
  <2>1. n \in 0..n
    BY <1>1
  <2> HIDE DEF A, n
  <2> QED BY <1>9, <2>1
<1> QED
  BY <1>9, <1>10, <1>11

\* Candlesticks of the periods of the strategy, in order of time.
Periods(cs) ==
    /\ cs \in Seq({c \in Candle : Priced(c)})
    /\ \A i \in DOMAIN cs : cs[i].end = cs[i].start + TickSize
    /\ \A i, j \in DOMAIN cs : i < j => cs[i].end <= cs[j].start

\* The projection gives the periods in order, none overlapping another
\* (candlesticks.go:45-83).
LEMMA ReprojectedArePeriods ==
    ASSUME NEW cs \in Seq(Stored), cs # <<>>
    PROVE  Periods(ReprojectCandlesticks(cs, TickSize))
<1> DEFINE B == Buckets(cs, TickSize)
           R == ReprojectCandlesticks(cs, TickSize)
<1>1. TickSize \in Nat \ {0}
  BY BacktesterAssumption
<1>2. Builders(cs, TickSize) \in BuildersOf(cs, TickSize)
  BY <1>1, BuildersTrace
<1>3. /\ B \in Seq(Nat)
      /\ \A i, j \in DOMAIN B : i < j => B[i] + TickSize <= B[j]
  BY <1>1, BucketsAreTimes
<1>4. R = [i \in DOMAIN B |-> Builders(cs, TickSize)[B[i]]]
  BY DEF ReprojectCandlesticks
<1> HIDE DEF R
<1>5. ASSUME NEW i \in DOMAIN B PROVE R[i] \in BuiltFor(B[i], B[i] + TickSize)
  <2>1. B[i] \in Range(B)
    BY DEF Range
  <2> QED BY <1>2, <1>4, <2>1 DEF BuildersOf
<1> HIDE DEF B
<1>6. \A i \in DOMAIN B : /\ R[i] \in {c \in Candle : Priced(c)}
                          /\ R[i].start = B[i] /\ R[i].end = B[i] + TickSize
  BY <1>5 DEF BuiltFor
<1>7. R \in Seq({c \in Candle : Priced(c)}) /\ DOMAIN R = DOMAIN B
  <2> DEFINE C == {c \in Candle : Priced(c)}
  <2>1. DOMAIN B = 1..Len(B) /\ Len(B) \in Nat
    BY <1>3
  <2>2. \A i \in 1..Len(B) : Builders(cs, TickSize)[B[i]] \in C
    BY <1>4, <1>6, <2>1
  <2> HIDE DEF C
  <2>3. [i \in 1..Len(B) |-> Builders(cs, TickSize)[B[i]]] \in Seq(C)
    BY <2>1, <2>2
  <2> QED BY <1>4, <2>1, <2>3 DEF C
<1>8. \A i, j \in DOMAIN R : i < j => R[i].end <= R[j].start
  BY <1>3, <1>6, <1>7
<1> QED
  BY <1>6, <1>7, <1>8 DEF Periods, R

--------------------------------------------------------------------------------
\* The indicators' states and values.
Value == {None} \cup (Int \X Int)
EMAState == [last : Value, sum : Int, count : Nat]
RSIState == [iterations : Nat, price : Int, gain : Int, loss : Int, over : Int]
IndState == [short : EMAState, long : EMAState, rsi : RSIState]
SetOfValues == [dema : Value, short : Value, long : Value, rsi : Value]

\* An EMA stays one (ema.go:52-80).
LEMMA AddToEMATyped ==
    ASSUME NEW ema \in EMAState, NEW period \in Nat, NEW price \in Int
    PROVE  AddToEMA(ema, period, price) \in EMAState
<1>1. \A num, den \in Int : Known(num, den) \in Value
  BY DEF Known, Value
<1>2. CASE ema.last # None
  <2>1. ema.last \in Int \X Int
    BY <1>2 DEF EMAState, Value
  <2>2. Moved(ema.last, period, price) \in Value
    BY <1>1, <2>1 DEF Moved
  <2> QED BY <1>2, <2>2 DEF AddToEMA, EMAState
<1>3. CASE ema.last = None /\ ema.count < Before(period)
  <2>1. ema.sum + price \in Int /\ ema.count + 1 \in Nat
    BY DEF EMAState
  <2>2. AddToEMA(ema, period, price) =
            [ema EXCEPT !.sum = ema.sum + price, !.count = ema.count + 1]
    BY <1>3 DEF AddToEMA
  <2> QED BY <2>1, <2>2 DEF EMAState
<1>4. CASE ema.last = None /\ ~ (ema.count < Before(period))
  <2>1. Known(ema.sum + price, period) \in Value
    BY <1>1 DEF EMAState
  <2> QED BY <1>4, <2>1 DEF AddToEMA, EMAState
<1> QED
  BY <1>2, <1>3, <1>4

\* An RSI stays one (rsi.go:35-121).
LEMMA AddToRSITyped ==
    ASSUME NEW rsi \in RSIState, NEW periods \in Nat, NEW price \in Int
    PROVE  AddToRSI(rsi, periods, price) \in RSIState
<1> DEFINE diff == IF rsi.iterations = 0 THEN 0 ELSE price - rsi.price
           smooth == rsi.iterations > periods
           Average(average, x) ==
              IF smooth THEN average * (periods - 1) + x * rsi.over ELSE average + x
<1>1. diff \in Int
  BY DEF RSIState
<1>2. Gain(diff) \in Int /\ Loss(diff) \in Int
  <2> HIDE DEF diff
  <2> QED BY <1>1 DEF Gain, Loss
<1>3. \A average, x \in Int : Average(average, x) \in Int
  BY DEF RSIState
<1>4. Average(rsi.gain, Gain(diff)) \in Int /\ Average(rsi.loss, Loss(diff)) \in Int
  <2>1. rsi.gain \in Int /\ rsi.loss \in Int
    BY DEF RSIState
  <2> HIDE DEF diff, Average
  <2> QED BY <1>2, <1>3, <2>1
<1>5. rsi.over * RSISmoothing \in Int /\ rsi.iterations + 1 \in Nat
  BY IndicatorsAssumption DEF RSIState
<1>6. AddToRSI(rsi, periods, price) =
          [iterations |-> rsi.iterations + 1, price |-> price,
           gain |-> Average(rsi.gain, Gain(diff)),
           loss |-> Average(rsi.loss, Loss(diff)),
           over |-> IF smooth THEN rsi.over * RSISmoothing
                    ELSE IF rsi.iterations = periods THEN periods ELSE 1]
  BY Zenon DEF AddToRSI
<1> HIDE DEF diff, smooth, Average
<1> QED
  BY <1>4, <1>5, <1>6 DEF RSIState

\* The periods of the indicators.
LEMMA PeriodsTyped ==
    /\ ShortPeriod \in Nat /\ LongPeriod \in Nat /\ ShortPeriod < LongPeriod
    /\ \A k \in Kinds : RSIPeriodOf(k) \in Nat \ {0}
BY StrategiesAssumption, IndicatorsAssumption DEF RSIPeriodOf, Kinds

\* A mean price is a number.
LEMMA MeanPriceTyped ==
    ASSUME NEW c \in Candle
    PROVE  MeanPrice(c) \in Nat
BY DEF MeanPrice, Candle

\* A strategy's indicators stay indicators.
LEMMA AddCandlestickTyped ==
    ASSUME NEW k \in Kinds, NEW ind \in IndState, NEW c \in Candle
    PROVE  AddCandlestick(k, ind, c) \in IndState
<1>1. MeanPrice(c) \in Int
  BY MeanPriceTyped
<1>2. /\ AddToEMA(ind.short, ShortPeriod, MeanPrice(c)) \in EMAState
      /\ AddToEMA(ind.long, LongPeriod, MeanPrice(c)) \in EMAState
  BY <1>1, PeriodsTyped, AddToEMATyped DEF IndState
<1>3. AddToRSI(ind.rsi, RSIPeriodOf(k), MeanPrice(c)) \in RSIState
  BY <1>1, PeriodsTyped, AddToRSITyped DEF IndState
<1> QED
  BY <1>2, <1>3 DEF AddCandlestick, IndState

\* What they say is a set of values.
LEMMA IndicatorSetTyped ==
    ASSUME NEW k \in Kinds, NEW ind \in IndState
    PROVE  IndicatorSet(k, ind) \in SetOfValues
<1>1. DEMA(ind.short, ind.long) \in Value
  <2>1. CASE ind.short.last = None \/ ind.long.last = None
    BY <2>1 DEF DEMA, Value
  <2>2. CASE ind.short.last # None /\ ind.long.last # None
    <3>1. ind.short.last \in Int \X Int /\ ind.long.last \in Int \X Int
      BY <2>2 DEF IndState, EMAState, Value
    <3> DEFINE x == ind.short.last[1] * ind.long.last[2]
               y == ind.long.last[1] * ind.short.last[2]
    <3>2. x \in Int /\ y \in Int
      BY <3>1
    <3>3. DEMA(ind.short, ind.long) = <<x - y, 2 * (x + y)>>
      BY <2>2 DEF DEMA
    <3> HIDE DEF x, y
    <3> QED BY <3>2, <3>3 DEF Value
  <2> QED BY <2>1, <2>2
<1>2. RSI(ind.rsi, RSIPeriodOf(k)) \in Value
  BY DEF RSI, IndState, RSIState, Value
<1> QED
  BY <1>1, <1>2 DEF IndicatorSet, SetOfValues, IndState, EMAState

\* What generateIndicatorSets has gathered.
Gathered ==
    {a \in [ind : IndState, sets : Seq(SetOfValues), valid : Seq(Stored)] :
        Len(a.sets) = Len(a.valid)}

\* One round of generateIndicatorSets keeps sets and candlesticks together
\* (backtesting.go:172-198).
LEMMA AddSetGathers ==
    ASSUME kind \in Kinds, NEW a \in Gathered, NEW c \in Candle, Priced(c)
    PROVE  AddSet(a, c) \in Gathered
<1> DEFINE ind == AddCandlestick(kind, a.ind, c)
           set == IndicatorSet(kind, ind)
<1>1. ind \in IndState
  BY AddCandlestickTyped DEF Gathered
<1>2. set \in SetOfValues
  BY <1>1, IndicatorSetTyped
<1>3. AddSet(a, c) =
          IF c.volume = 0 THEN a
          ELSE IF HasValues(kind, set)
          THEN [ind |-> ind, sets |-> Append(a.sets, set), valid |-> Append(a.valid, c)]
          ELSE [a EXCEPT !.ind = ind]
  BY Zenon DEF AddSet
<1> HIDE DEF ind, set
<1>4. CASE c.volume = 0
  BY <1>3, <1>4
<1>5. CASE c.volume # 0 /\ HasValues(kind, set)
  <2>1. c \in Stored
    BY <1>5 DEF Stored, Candle
  <2>2. /\ Append(a.sets, set) \in Seq(SetOfValues)
        /\ Append(a.valid, c) \in Seq(Stored)
        /\ Len(Append(a.sets, set)) = Len(Append(a.valid, c))
    BY <1>2, <2>1 DEF Gathered
  <2> QED BY <1>1, <1>3, <1>5, <2>2 DEF Gathered
<1>6. CASE c.volume # 0 /\ ~HasValues(kind, set)
  BY <1>1, <1>3, <1>6 DEF Gathered
<1> QED
  BY <1>4, <1>5, <1>6

\* The indicator sets, candlestick after candlestick.
LEMMA GeneratedTrace ==
    ASSUME kind \in Kinds, candles \in Seq({c \in Candle : Priced(c)})
    PROVE  /\ GeneratedSets \in Gathered
           /\ \E h \in [0..Len(candles) -> Gathered] :
                 /\ h[0] = [ind |-> NewIndicators, sets |-> <<>>, valid |-> <<>>]
                 /\ \A k \in 1..Len(candles) :
                       h[k] = AddSet(h[k - 1], candles[k])
                 /\ GeneratedSets = h[Len(candles)]
<1> DEFINE n == Len(candles)
           A == Gathered
           base == [ind |-> NewIndicators, sets |-> <<>>, valid |-> <<>>]
           F == [i \in 1..n |-> [a \in A |-> AddSet(a, candles[i])]]
           IsIter(g) == g = [s \in SUBSET (1..n) |->
              IF s = {} THEN base
              ELSE AddSet(g[s \ {Max(s)}], candles[Max(s)])]
           iter == CHOOSE g : IsIter(g)
<1>1. /\ n \in Nat /\ base \in A
      /\ \A a \in A, i \in 1..n : AddSet(a, candles[i]) \in A
  <2>1. NewIndicators \in IndState
    BY DEF NewIndicators, NewEMA, NewRSI, IndState, EMAState, RSIState, Value
  <2>2. n \in Nat /\ base \in A
    BY <2>1 DEF Gathered
  <2>3. ASSUME NEW a \in A, NEW i \in 1..n PROVE AddSet(a, candles[i]) \in A
    <3>1. candles[i] \in Candle /\ Priced(candles[i])
      OBVIOUS
    <3> QED BY <3>1, AddSetGathers
  <2> QED BY <2>2, <2>3
<1>2. F \in [1..n -> [A -> A]]
  BY <1>1
<1>3. PICK g : FoldsTo(g, A, base, n, F)
  <2> HIDE DEF A, base, F, n
  <2> QED BY <1>1, <1>2, FoldIsDefined
<1>4. \A s \in SUBSET (1..n), b \in A : s # {} =>
          F[Max(s)][b] = AddSet(b, candles[Max(s)])
  <2> HIDE DEF A, base, n
  <2> QED BY <1>1, LargestOf
<1>5. IsIter(iter)
  <2>1. IsIter(g)
    <3> HIDE DEF A, base, n, F
    <3> QED BY <1>3, <1>4 DEF FoldsTo
  <2> HIDE DEF IsIter
  <2> QED BY <2>1
<1>6. GeneratedSets = iter[1..n]
  <2>1. DOMAIN candles = 1..n
    OBVIOUS
  <2> QED BY <2>1, Zenon DEF GeneratedSets, FoldLeft, MapThenFoldSet
<1> HIDE DEF iter
<1>7. Iterates(iter, A, base, n, F)
  <2> HIDE DEF A, base, F, n
  <2> QED BY <1>4, <1>5 DEF Iterates
<1>8. PICK h : Traces(h, A, base, n, F) /\ h[n] = iter[1..n]
  <2> HIDE DEF A, base, F, n
  <2> QED BY <1>1, <1>2, <1>7, FoldHasTrace
<1>9. h \in [0..n -> A] /\ h[0] = base /\ GeneratedSets = h[n]
  <2> HIDE DEF A, base, F, n
  <2> QED BY <1>6, <1>8 DEF Traces
<1>10. ASSUME NEW k \in 1..n PROVE h[k] = AddSet(h[k - 1], candles[k])
  <2>1. h[k] = F[k][h[k - 1]] /\ h[k - 1] \in A
    <3> HIDE DEF A, base, F
    <3> QED BY <1>1, <1>8, <1>9 DEF Traces
  <2> HIDE DEF A
  <2> QED BY <2>1
<1>11. GeneratedSets \in A
  <2>1. n \in 0..n
    BY <1>1
  <2> HIDE DEF A, n
  <2> QED BY <1>9, <2>1
<1> QED
  BY <1>9, <1>10, <1>11

--------------------------------------------------------------------------------
(* The replay. *)

\* What the model has now.
Holding == [budget |-> model.Budget, invested |-> model.Invested]

\* A strategy holds one side only.
OneSided ==
    IF model.State = TryingToBuy THEN model.Invested = 0 ELSE model.Budget = 0

\* What the replay is of.
Prepared ==
    /\ market \in Markets
    /\ Periods(candles) /\ validCandles \in Seq(Stored)
    /\ pc \in {"find", "generate", "failed"} => sets = <<>> /\ results = <<>>
    /\ Len(results) <= Len(sets)
    /\ pc \in {"process", "next"} => Len(results) < Len(sets)

\* The current result is the next one, and the model is held after the last.
Replayed ==
    /\ \A i \in DOMAIN results : results[i].candle = validCandles[i]
    /\ pc \in {"process", "next"} =>
          /\ current.candle = validCandles[Len(results) + 1]
          /\ current.budget = model.Budget /\ current.invested = model.Invested
    /\ IF pc = "next" THEN Explains(HeldBefore(Len(results) + 1), current)
       ELSE current.order = NoOrder /\ HeldBefore(Len(results) + 1) = Holding

\* The invariant of the replay.
ReplayInv == TypeOK /\ Prepared /\ OneSided /\ Replayed /\ OrdersExplainHoldings

\* Integer division.
LEMMA Division ==
    ASSUME NEW x \in Nat, NEW y \in Nat \ {0}
    PROVE  x \div y \in Nat /\ y * (x \div y) <= x /\ x < y * (x \div y + 1)
BY SMTT(30)

\* What an order brings, truncated.
LEMMA BuyBrings ==
    ASSUME NEW cost \in Nat, NEW price \in Nat \ {0}
    PROVE  /\ BuyFill(cost, price) \in Nat \X (Nat \ {0})
           /\ Truncate(BuyFill(cost, price)) \in Nat
           /\ 400 * price * Truncate(BuyFill(cost, price)) <= 399 * cost
           /\ 399 * cost < 400 * price * (Truncate(BuyFill(cost, price)) + 1)
<1> DEFINE q == (cost * 399) \div (price * 400)
<1>1. cost * 399 \in Nat /\ price * 400 \in Nat \ {0}
  OBVIOUS
<1>2. /\ q \in Nat /\ (price * 400) * q <= cost * 399
      /\ cost * 399 < (price * 400) * (q + 1)
  <2> DEFINE x == cost * 399
             y == price * 400
  <2>1. x \in Nat /\ y \in Nat \ {0}
    BY <1>1
  <2> HIDE DEF x, y
  <2>2. x \div y \in Nat /\ y * (x \div y) <= x /\ x < y * (x \div y + 1)
    BY ONLY <2>1, Division
  <2> QED BY ONLY <2>2 DEF q, x, y
<1>3. Truncate(BuyFill(cost, price)) = q
  BY DEF Truncate, BuyFill
<1> HIDE DEF q
<1>4. /\ 400 * price * q = (price * 400) * q
      /\ 400 * price * (q + 1) = (price * 400) * (q + 1)
  BY <1>2
<1> QED
  BY <1>1, <1>2, <1>3, <1>4 DEF BuyFill

\* What a sale brings, truncated.
LEMMA SellBrings ==
    ASSUME NEW cost \in Nat, NEW price \in Nat
    PROVE  /\ SellFill(cost, price) \in Nat \X (Nat \ {0})
           /\ Truncate(SellFill(cost, price)) \in Nat
           /\ 400 * Truncate(SellFill(cost, price)) <= 399 * price * cost
           /\ 399 * price * cost < 400 * (Truncate(SellFill(cost, price)) + 1)
<1>1. cost * price \in Nat
  OBVIOUS
<1>2. 399 * price * cost = (cost * price) * 399
  OBVIOUS
<1>3. SellFill(cost, price) = <<(cost * price) * 399, 400>>
  BY DEF SellFill
<1> QED
  BY <1>1, <1>2, <1>3 DEF Truncate

\* The invariant of the replay holds at first,
LEMMA InitReplay == Init => ReplayInv
<1> SUFFICES ASSUME Init PROVE ReplayInv
  OBVIOUS
<1>1. NoResult \in Result /\ NoResult.order = NoOrder
  BY DEF NoResult, NoOrder, Result, Order, Candle, NewCandlestickBuilder
<1>2. TypeOK
  BY <1>1, BacktesterAssumption DEF Init, TypeOK
<1>3. Prepared
  BY DEF Init, Prepared, Periods
<1>4. OneSided /\ OrdersExplainHoldings
  BY DEF Init, OneSided, OrdersExplainHoldings
<1>5. Replayed
  BY <1>1 DEF Init, Replayed, HeldBefore, Holding
<1> QED
  BY <1>2, <1>3, <1>4, <1>5 DEF ReplayInv

\* and is kept by FindCandlesticks,
LEMMA FindKeepsReplay ==
    ASSUME ReplayInv, FindCandlesticks
    PROVE  ReplayInv'
<1> USE DEF ReplayInv
<1>1. Periods(candles')
  <2>1. CASE StoredCandlesticks = <<>>
    BY <2>1 DEF FindCandlesticks, Prepared
  <2>2. CASE StoredCandlesticks # <<>>
    <3>1. StoredCandlesticks \in Seq(Stored)
      BY MinutesAreStored DEF Prepared
    <3>2. candles' = ReprojectCandlesticks(StoredCandlesticks, TickSize)
      BY <2>2 DEF FindCandlesticks
    <3> QED BY <2>2, <3>1, <3>2, ReprojectedArePeriods
  <2> QED BY <2>1, <2>2
<1>2. candles' \in Seq(Candle)
  BY <1>1 DEF Periods
<1>3. pc' \in {"failed", "generate"}
  BY DEF FindCandlesticks
<1>4. TypeOK'
  BY <1>2, <1>3 DEF FindCandlesticks, TypeOK
<1>5. Prepared'
  BY <1>1, <1>3 DEF FindCandlesticks, Prepared
<1>6. OneSided' /\ OrdersExplainHoldings'
  BY DEF FindCandlesticks, OneSided, OrdersExplainHoldings, HeldBefore
<1>7. Replayed'
  BY <1>3 DEF FindCandlesticks, Replayed, HeldBefore, Holding, Prepared
<1> QED
  BY <1>4, <1>5, <1>6, <1>7

\* by GenerateIndicatorSets,
LEMMA GenerateKeepsReplay ==
    ASSUME ReplayInv, GenerateIndicatorSets
    PROVE  ReplayInv'
<1> USE DEF ReplayInv
<1>1. GeneratedSets \in Gathered
  BY GeneratedTrace DEF TypeOK, Prepared, Periods
<1>2. /\ validCandles' \in Seq(Stored)
      /\ Len(sets') = Len(validCandles') /\ Len(sets') \in Nat
  BY <1>1 DEF GenerateIndicatorSets, Gathered
<1>3. validCandles' \in Seq(Candle)
  BY <1>2 DEF Stored
<1>4. TypeOK'
  BY <1>2, <1>3 DEF GenerateIndicatorSets, TypeOK
<1>5. results = <<>> /\ Len(results) = 0
  BY DEF GenerateIndicatorSets, Prepared
<1>6. Prepared'
  BY <1>2, <1>5 DEF GenerateIndicatorSets, Prepared
<1>7. OneSided' /\ OrdersExplainHoldings'
  BY DEF GenerateIndicatorSets, OneSided, OrdersExplainHoldings, HeldBefore
<1>8. Replayed'
  BY <1>5 DEF GenerateIndicatorSets, Replayed, HeldBefore, Holding
<1> QED
  BY <1>4, <1>6, <1>7, <1>8

\* by the beginning of a tick,
LEMMA BeginKeepsReplay ==
    ASSUME ReplayInv, BeginTick
    PROVE  ReplayInv'
<1> USE DEF ReplayInv
<1> DEFINE c == validCandles[Len(results) + 1]
<1>1. /\ pc = "replay" /\ pc' \in {"process", "next"} /\ Len(results) < Len(sets)
      /\ UNCHANGED <<kind, market, candles, sets, validCandles, model, results>>
      /\ trader' = trader + 1 /\ exchange' = exchange + 1
  BY DEF BeginTick
<1>2. c \in Candle
  BY <1>1 DEF TypeOK, Prepared
<1>3. /\ current' \in Result /\ current'.candle = c /\ current'.order = NoOrder
      /\ current'.budget = model.Budget /\ current'.invested = model.Invested
  BY <1>1, <1>2 DEF BeginTick, TypeOK, Result, Replayed
<1>4. TypeOK'
  BY <1>1, <1>3 DEF TypeOK
<1>5. Prepared'
  BY <1>1 DEF Prepared
<1>6. OneSided' /\ OrdersExplainHoldings'
  BY <1>1 DEF OneSided, OrdersExplainHoldings, HeldBefore
<1>7. HeldBefore(Len(results) + 1) = Holding /\ HeldBefore(Len(results) + 1)' = Holding
  BY <1>1 DEF Replayed, HeldBefore
<1>8. Explains(Holding, current')
  BY <1>3 DEF Explains, NoOrder, Holding
<1>9. Replayed'
  BY <1>1, <1>3, <1>7, <1>8 DEF Replayed, Holding
<1> QED
  BY <1>4, <1>5, <1>6, <1>9

\* by a tick without an order,
LEMMA HoldKeepsReplay ==
    ASSUME ReplayInv, Hold
    PROVE  ReplayInv'
<1> USE DEF ReplayInv
<1>1. /\ pc = "process" /\ pc' = "next"
      /\ UNCHANGED <<kind, market, candles, sets, validCandles, trader, exchange,
                     model, current, results>>
  BY DEF Hold
<1>2. TypeOK' /\ Prepared'
  BY <1>1 DEF TypeOK, Prepared
<1>3. OneSided' /\ OrdersExplainHoldings'
  BY <1>1 DEF OneSided, OrdersExplainHoldings, HeldBefore
<1>4. HeldBefore(Len(results) + 1) = Holding /\ HeldBefore(Len(results) + 1)' = Holding
  BY <1>1 DEF Replayed, HeldBefore
<1>5. Explains(Holding, current)
  <2>1. /\ current.order = NoOrder /\ current.budget = model.Budget
        /\ current.invested = model.Invested
    BY <1>1 DEF Replayed
  <2> QED BY <2>1 DEF Explains, NoOrder, Holding
<1>6. Replayed'
  BY <1>1, <1>4, <1>5 DEF Replayed
<1> QED
  BY <1>2, <1>3, <1>6

\* by a purchase,
LEMMA BuyKeepsReplay ==
    ASSUME ReplayInv, Buy
    PROVE  ReplayInv'
<1> USE DEF ReplayInv
<1> DEFINE c == validCandles[exchange]
           fill == BuyFill(model.Budget, c.close)
           order == [side |-> "buy", cost |-> model.Budget, fill |-> fill]
<1>1. /\ pc = "process" /\ pc' = "next" /\ model.State = TryingToBuy
      /\ UNCHANGED <<kind, market, candles, sets, validCandles, trader, exchange,
                     results>>
  BY DEF Buy, Register
<1>2. /\ exchange = Len(results) + 1 /\ Len(results) \in Nat
      /\ exchange \in 1..Len(validCandles)
  BY <1>1 DEF TypeOK, Prepared
<1>3. c.close \in Nat \ {0} /\ current.candle = c
  <2>1. c \in Stored
    BY <1>2 DEF Prepared
  <2>2. c.close \in Nat \ {0}
    BY <2>1 DEF Stored, Priced, Candle
  <2>3. current.candle = c
    BY <1>1, <1>2 DEF Replayed
  <2> QED BY <2>2, <2>3
<1>4. model.Budget \in Nat /\ model.Invested = 0
  BY <1>1 DEF TypeOK, OneSided
<1>5. /\ fill \in Nat \X (Nat \ {0}) /\ Truncate(fill) \in Nat
      /\ 400 * c.close * Truncate(fill) <= 399 * model.Budget
      /\ 399 * model.Budget < 400 * c.close * (Truncate(fill) + 1)
  <2>1. c.close \in Nat \ {0}
    BY <1>3
  <2>2. model.Budget \in Nat
    BY <1>4
  <2> DEFINE price == c.close
             cost == model.Budget
  <2> HIDE DEF c, price, cost
  <2>3. /\ BuyFill(cost, price) \in Nat \X (Nat \ {0})
        /\ Truncate(BuyFill(cost, price)) \in Nat
        /\ 400 * price * Truncate(BuyFill(cost, price)) <= 399 * cost
        /\ 399 * cost < 400 * price * (Truncate(BuyFill(cost, price)) + 1)
    <3>1. price \in Nat \ {0}
      BY <2>1 DEF price
    <3>2. cost \in Nat
      BY <2>2 DEF cost
    <3> QED BY ONLY <3>1, <3>2, BuyBrings
  <2> QED BY ONLY <2>3 DEF fill, price, cost
<1>6. model' = [model EXCEPT !.Invested = Truncate(fill), !.Budget = 0,
                              !.State = TryingToSell]
  BY DEF Buy
<1>7. current' = [current EXCEPT !.order = order, !.budget = model'.Budget,
                                  !.invested = model'.Invested]
  BY DEF Buy, Register
<1> HIDE DEF fill
<1>8. /\ model' \in [State : {TryingToBuy, TryingToSell}, Budget : Nat,
                      Invested : Nat, Deactivated : BOOLEAN]
      /\ model'.Invested = Truncate(fill) /\ model'.Budget = 0
      /\ model'.State = TryingToSell
  <2>1. /\ model \in [State : {TryingToBuy, TryingToSell}, Budget : Nat,
                      Invested : Nat, Deactivated : BOOLEAN]
        /\ Truncate(fill) \in Nat
    BY <1>5 DEF TypeOK
  <2> QED BY ONLY <2>1, <1>6 DEF TryingToSell, TryingToBuy
<1>9. order \in Order
  BY <1>4, <1>5 DEF Order
<1>10. /\ current' \in Result /\ current'.candle = c /\ current'.order = order
       /\ current'.budget = 0 /\ current'.invested = Truncate(fill)
  BY <1>3, <1>7, <1>8, <1>9 DEF TypeOK, Result
<1>11. TypeOK'
  BY <1>1, <1>8, <1>10 DEF TypeOK
<1>12. Prepared'
  BY <1>1 DEF Prepared
<1>13. OneSided' /\ OrdersExplainHoldings'
  BY <1>1, <1>8 DEF OneSided, OrdersExplainHoldings, HeldBefore,
     TryingToBuy, TryingToSell
<1>14. HeldBefore(Len(results) + 1) = Holding /\ HeldBefore(Len(results) + 1)' = Holding
  BY <1>1 DEF Replayed, HeldBefore
<1>15. Explains(Holding, current')
  BY <1>4, <1>5, <1>10 DEF Explains, Holding
<1>16. Replayed'
  BY <1>1, <1>2, <1>8, <1>10, <1>14, <1>15 DEF Replayed
<1> QED
  BY <1>11, <1>12, <1>13, <1>16

\* by a sale,
LEMMA SellKeepsReplay ==
    ASSUME ReplayInv, Sell
    PROVE  ReplayInv'
<1> USE DEF ReplayInv
<1> DEFINE c == validCandles[exchange]
           fill == SellFill(model.Invested, c.close)
           order == [side |-> "sell", cost |-> model.Invested, fill |-> fill]
<1>1. /\ pc = "process" /\ pc' = "next" /\ model.State = TryingToSell
      /\ UNCHANGED <<kind, market, candles, sets, validCandles, trader, exchange,
                     results>>
  BY DEF Sell, Register
<1>2. /\ exchange = Len(results) + 1 /\ Len(results) \in Nat
      /\ exchange \in 1..Len(validCandles)
  BY <1>1 DEF TypeOK, Prepared
<1>3. c.close \in Nat /\ current.candle = c
  <2>1. c \in Stored
    BY <1>2 DEF Prepared
  <2>2. c.close \in Nat
    BY <2>1 DEF Stored, Priced, Candle
  <2>3. current.candle = c
    BY <1>1, <1>2 DEF Replayed
  <2> QED BY <2>2, <2>3
<1>4. model.Invested \in Nat /\ model.Budget = 0 /\ model.Deactivated \in BOOLEAN
  BY <1>1 DEF TypeOK, OneSided, TryingToBuy, TryingToSell
<1>5. /\ fill \in Nat \X (Nat \ {0}) /\ Truncate(fill) \in Nat
      /\ 400 * Truncate(fill) <= 399 * c.close * model.Invested
      /\ 399 * c.close * model.Invested < 400 * (Truncate(fill) + 1)
  <2>1. c.close \in Nat
    BY <1>3
  <2>2. model.Invested \in Nat
    BY <1>4
  <2> DEFINE price == c.close
             cost == model.Invested
  <2> HIDE DEF c, price, cost
  <2>3. /\ SellFill(cost, price) \in Nat \X (Nat \ {0})
        /\ Truncate(SellFill(cost, price)) \in Nat
        /\ 400 * Truncate(SellFill(cost, price)) <= 399 * price * cost
        /\ 399 * price * cost < 400 * (Truncate(SellFill(cost, price)) + 1)
    <3>1. price \in Nat
      BY <2>1 DEF price
    <3>2. cost \in Nat
      BY <2>2 DEF cost
    <3> QED BY ONLY <3>1, <3>2, SellBrings
  <2> QED BY ONLY <2>3 DEF fill, price, cost
<1>6. model' = [State |-> TryingToBuy, Budget |-> Truncate(fill), Invested |-> 0,
                Deactivated |-> model.Deactivated
                                \/ 10 * Truncate(fill) < 7 * InitialBudget]
  BY DEF Sell
<1>7. current' = [current EXCEPT !.order = order, !.budget = model'.Budget,
                                  !.invested = model'.Invested]
  BY DEF Sell, Register
<1> HIDE DEF fill
<1>8. /\ model' \in [State : {TryingToBuy, TryingToSell}, Budget : Nat,
                      Invested : Nat, Deactivated : BOOLEAN]
      /\ model'.Budget = Truncate(fill) /\ model'.Invested = 0
      /\ model'.State = TryingToBuy
  <2>1. (model.Deactivated \/ 10 * Truncate(fill) < 7 * InitialBudget) \in BOOLEAN
    BY Zenon, <1>4
  <2> QED BY <1>5, <1>6, <2>1
<1>9. order \in Order
  BY <1>4, <1>5 DEF Order
<1>10. /\ current' \in Result /\ current'.candle = c /\ current'.order = order
       /\ current'.budget = Truncate(fill) /\ current'.invested = 0
  BY <1>3, <1>7, <1>8, <1>9 DEF TypeOK, Result
<1>11. TypeOK'
  BY <1>1, <1>8, <1>10 DEF TypeOK
<1>12. Prepared'
  BY <1>1 DEF Prepared
<1>13. OneSided' /\ OrdersExplainHoldings'
  BY <1>1, <1>8 DEF OneSided, OrdersExplainHoldings, HeldBefore
<1>14. HeldBefore(Len(results) + 1) = Holding /\ HeldBefore(Len(results) + 1)' = Holding
  BY <1>1 DEF Replayed, HeldBefore
<1>15. Explains(Holding, current')
  BY <1>4, <1>5, <1>10 DEF Explains, Holding
<1>16. Replayed'
  BY <1>1, <1>2, <1>8, <1>10, <1>14, <1>15 DEF Replayed
<1> QED
  BY <1>11, <1>12, <1>13, <1>16

\* by noting the result
LEMMA NextResultKeepsReplay ==
    ASSUME ReplayInv, NextResult
    PROVE  ReplayInv'
<1> USE DEF ReplayInv
<1> DEFINE n == Len(results)
<1>1. /\ pc = "next" /\ pc' = "replay"
      /\ results' = Append(results, current) /\ current' = NoResult
      /\ UNCHANGED <<kind, market, candles, sets, validCandles, trader, exchange,
                     model>>
  BY DEF NextResult
<1>2. /\ n \in Nat /\ results' \in Seq(Result) /\ Len(results') = n + 1
      /\ DOMAIN results = 1..n /\ DOMAIN results' = 1..(n + 1)
      /\ \A i \in 1..n : results'[i] = results[i]
      /\ results'[n + 1] = current
  BY <1>1 DEF TypeOK
<1>3. NoResult \in Result /\ NoResult.order = NoOrder
  BY DEF NoResult, NoOrder, Result, Order, Candle, NewCandlestickBuilder
<1>4. TypeOK'
  BY <1>1, <1>2, <1>3 DEF TypeOK
<1>5. Prepared'
  BY <1>1, <1>2 DEF Prepared, TypeOK
<1>6. OneSided'
  BY <1>1 DEF OneSided
<1>7. \A i \in 1..(n + 1) : HeldBefore(i)' = HeldBefore(i)
  BY <1>2 DEF HeldBefore
<1>8. OrdersExplainHoldings'
  <2>1. ASSUME NEW i \in 1..(n + 1) PROVE Explains(HeldBefore(i)', results'[i])
    <3>1. CASE i = n + 1
      BY <1>1, <1>2, <1>7, <3>1 DEF Replayed
    <3>2. CASE i # n + 1
      BY <1>2, <1>7, <3>2, SMTT(30) DEF OrdersExplainHoldings
    <3> QED BY <3>1, <3>2
  <2> QED BY <1>2, <2>1 DEF OrdersExplainHoldings
<1>9. PICK m \in Nat : m = n
  BY <1>2
<1>10. \A i \in DOMAIN results' : results'[i].candle = validCandles[i]
  BY <1>1, <1>2 DEF Replayed
<1>11. HeldBefore(m + 2)' = Holding
  <2>1. m + 2 # 1 /\ (m + 2) - 1 = m + 1
    BY <1>9
  <2>2. HeldBefore(m + 2)' = [budget |-> current.budget, invested |-> current.invested]
    BY <1>2, <1>9, <2>1 DEF HeldBefore
  <2> QED BY <1>1, <2>2 DEF Holding, Replayed
<1>12. Replayed'
  <2>1. Len(results') + 1 = m + 2 /\ Holding' = Holding
    BY <1>1, <1>2, <1>9 DEF Holding
  <2>2. HeldBefore(Len(results) + 1)' = HeldBefore(m + 2)'
    BY <2>1 DEF HeldBefore
  <2>3. current'.order = NoOrder
    BY <1>1, <1>3
  <2> QED BY <1>1, <1>10, <1>11, <2>1, <2>2, <2>3 DEF Replayed
<1> QED
  BY <1>4, <1>5, <1>6, <1>8, <1>12

\* and by the end.
LEMMA RestKeepsReplay ==
    ASSUME ReplayInv, Finish \/ Returned \/ UNCHANGED vars
    PROVE  ReplayInv'
<1> USE DEF ReplayInv
<1>1. /\ UNCHANGED <<kind, market, candles, sets, validCandles, trader, exchange,
                     model, current, results>>
      /\ pc' = pc \/ (pc = "replay" /\ pc' = "done")
  BY DEF Finish, Returned, vars
<1>2. TypeOK'
  BY <1>1 DEF TypeOK
<1>3. Prepared'
  BY <1>1 DEF Prepared
<1>4. OneSided' /\ OrdersExplainHoldings'
  BY <1>1 DEF OneSided, OrdersExplainHoldings, HeldBefore
<1>5. Replayed'
  BY <1>1 DEF Replayed, HeldBefore, Holding
<1> QED
  BY <1>2, <1>3, <1>4, <1>5

\* The replay's invariant: types, one side held, the trader, the exchange and the
\* results at the same tick, and results that explain one another
\* (backtesting.go:229-251).
THEOREM ReplayIsInvariant == Spec => []ReplayInv
<1>1. ASSUME ReplayInv, [Next]_vars PROVE ReplayInv'
  BY <1>1, FindKeepsReplay, GenerateKeepsReplay, BeginKeepsReplay, HoldKeepsReplay,
     BuyKeepsReplay, SellKeepsReplay, NextResultKeepsReplay, RestKeepsReplay DEF Next
<1> QED
  BY <1>1, InitReplay, PTL DEF Spec

\* Every variable keeps its type, and trader, exchange and results keep step
\* (backtesting.go:228-256).
THEOREM TypeCorrect == Spec => []TypeOK
<1>1. ReplayInv => TypeOK
  BY DEF ReplayInv
<1> QED
  BY <1>1, ReplayIsInvariant, PTL

\* The results explain one another: an order is for all that was held before, at
\* its own candlestick's close and with its fee, and what it brought is held
\* afterwards (backtesting.go:229-251, 462-465).
THEOREM HoldingsExplained == Spec => []OrdersExplainHoldings
<1>1. ReplayInv => OrdersExplainHoldings
  BY DEF ReplayInv
<1> QED
  BY <1>1, ReplayIsInvariant, PTL

--------------------------------------------------------------------------------
(* The decisions. *)

\* No purchase of the first n results is without a sale after it.
Cash(n) ==
    \A j \in 1..n : results[j].order.side = "buy" =>
        \E k \in j..n : results[k].order.side = "sell"

\* The order of the i-th result is the one its indicator set asks for.
Decides(r, i) ==
    r.order.side =
        IF r.candle.end <= startBucket THEN "none"
        ELSE IF Cash(i - 1) THEN IF Buys(kind, sets, i) THEN "buy" ELSE "none"
        ELSE IF Sells(kind, sets, i) THEN "sell" ELSE "none"

\* A sale is filled at its candlestick's close, and the budget is what it brought.
Filled(r) ==
    r.order.side = "sell" =>
        /\ r.order.fill = SellFill(r.order.cost, r.candle.close)
        /\ r.budget = Truncate(r.order.fill)

\* The orders up to the current one leave the model with its budget.
HoldsCash ==
    IF pc = "next" /\ current.order.side # "none" THEN current.order.side = "sell"
    ELSE Cash(Len(results))

\* Every order so far is the one its indicator set asks for, filled at its
\* candlestick's close, and the model's State agrees with the orders.
Decided ==
    /\ \A i \in DOMAIN results : Filled(results[i]) /\ Decides(results[i], i)
    /\ pc = "next" => Filled(current) /\ Decides(current, Len(results) + 1)
    /\ pc = "process" => current.candle.end > startBucket
    /\ HoldsCash <=> model.State = TryingToBuy

\* The invariant of the decisions.
DecisionInv == ReplayInv /\ Decided

\* The decisions' invariant holds at first,
LEMMA InitDecides == Init => DecisionInv
<1> SUFFICES ASSUME Init PROVE Decided
  BY InitReplay DEF DecisionInv
<1> QED
  BY DEF Init, Decided, HoldsCash, Cash

\* Generating the sets leaves no result that could have been decided otherwise.
LEMMA PreparingDecides ==
    ASSUME DecisionInv, FindCandlesticks \/ GenerateIndicatorSets
    PROVE  Decided'
<1>1. /\ UNCHANGED <<model, results>> /\ results = <<>>
      /\ pc \in {"find", "generate"} /\ pc' \in {"failed", "generate", "replay"}
  BY DEF FindCandlesticks, GenerateIndicatorSets, DecisionInv, ReplayInv, Prepared
<1> QED
  BY <1>1 DEF DecisionInv, Decided, HoldsCash, Cash

\* A step that leaves the results, the sets and the model leaves what they say.
LEMMA SameDecisions ==
    ASSUME UNCHANGED <<kind, sets, results>>
    PROVE  /\ \A n : Cash(n)' = Cash(n)
           /\ \A r, i : Decides(r, i)' = Decides(r, i) /\ Filled(r)' = Filled(r)
<1>1. \A n : Cash(n)' = Cash(n)
  BY DEF Cash
<1>2. \A i : /\ Buys(kind, sets, i)' = Buys(kind, sets, i)
           /\ Sells(kind, sets, i)' = Sells(kind, sets, i)
  BY Zenon
<1>3. \A r, i : Decides(r, i)' = Decides(r, i)
  BY <1>1, <1>2, Zenon DEF Decides, startBucket
<1> QED
  BY <1>1, <1>3, Zenon DEF Filled

\* and is kept by the beginning of a tick,
LEMMA BeginDecides ==
    ASSUME DecisionInv, BeginTick
    PROVE  Decided'
<1> USE DEF DecisionInv
<1> DEFINE c == validCandles[Len(results) + 1]
<1>1. /\ pc = "replay" /\ pc' = IF c.end > startBucket THEN "process" ELSE "next"
      /\ UNCHANGED <<kind, sets, validCandles, model, results>>
  BY DEF BeginTick
<1>2. current' = [current EXCEPT !.candle = c, !.budget = model.Budget,
                                 !.invested = model.Invested]
  BY DEF BeginTick
<1>3. current \in Result /\ current.order = NoOrder
  BY <1>1 DEF ReplayInv, TypeOK, Replayed
<1>4. current'.candle = c /\ current'.order.side = "none"
  BY <1>2, <1>3 DEF Result, NoOrder
<1>5. c.end \in Int /\ startBucket \in Int
  <2>1. c \in Candle
    BY <1>1 DEF ReplayInv, TypeOK, Prepared, BeginTick
  <2> QED BY <2>1, BacktesterAssumption DEF Candle, startBucket, CandlestickBucket
<1>6. pc' = "process" => current'.candle.end > startBucket
  BY <1>1, <1>4
<1>7. pc' = "next" => Filled(current') /\ \A i : Decides(current', i)
  BY <1>1, <1>4, <1>5 DEF Filled, Decides
<1>8. HoldsCash' <=> model'.State = TryingToBuy
  BY <1>1, <1>4, SameDecisions DEF Decided, HoldsCash
<1> QED
  BY <1>1, <1>6, <1>7, <1>8, SameDecisions DEF Decided

\* by a tick without an order,
LEMMA HoldDecides ==
    ASSUME DecisionInv, Hold
    PROVE  Decided'
<1> USE DEF DecisionInv
<1>1. /\ pc = "process" /\ pc' = "next"
      /\ UNCHANGED <<kind, sets, model, current, results>>
      /\ IF model.State = TryingToBuy THEN ~Buys(kind, sets, trader)
                                      ELSE ~Sells(kind, sets, trader)
  BY DEF Hold
<1>2. current.order.side = "none" /\ trader = Len(results) + 1 /\ Len(results) \in Nat
  BY <1>1 DEF ReplayInv, TypeOK, Replayed, NoOrder
<1>3. Cash(Len(results)) <=> model.State = TryingToBuy
  BY <1>1 DEF Decided, HoldsCash
<1>4. Filled(current) /\ Decides(current, Len(results) + 1)
  <2>1. (Len(results) + 1) - 1 = Len(results)
    BY <1>2
  <2> QED BY <1>1, <1>2, <1>3, <2>1, Zenon DEF Filled, Decides
<1>5. HoldsCash' <=> model'.State = TryingToBuy
  BY <1>1, <1>2, <1>3, SameDecisions DEF HoldsCash
<1> QED
  BY <1>1, <1>4, <1>5, SameDecisions DEF Decided

\* by an order,
LEMMA OrderDecides ==
    ASSUME DecisionInv, Buy \/ Sell
    PROVE  Decided'
<1> USE DEF DecisionInv
<1> DEFINE n == Len(results)
           c == validCandles[exchange]
<1>1. /\ pc = "process" /\ pc' = "next"
      /\ UNCHANGED <<kind, sets, validCandles, exchange, results>>
  BY DEF Buy, Sell, Register
<1>2. /\ trader = n + 1 /\ exchange = n + 1 /\ n \in Nat /\ (n + 1) - 1 = n
      /\ current \in Result /\ current.candle = c
  BY <1>1 DEF ReplayInv, TypeOK, Replayed
<1>3. /\ Cash(n) <=> model.State = TryingToBuy
      /\ current.candle.end > startBucket
  BY <1>1 DEF Decided, HoldsCash
<1>4. c.end \in Int /\ startBucket \in Int
  BY <1>2, BacktesterAssumption DEF Result, Candle, startBucket, CandlestickBucket
<1>5. ~(c.end <= startBucket)
  BY <1>2, <1>3, <1>4
<1>6. model \in [State : {TryingToBuy, TryingToSell}, Budget : Nat,
                 Invested : Nat, Deactivated : BOOLEAN]
  BY DEF ReplayInv, TypeOK
<1>7. /\ Filled(current') /\ Decides(current', n + 1)
      /\ current'.order.side # "none"
      /\ current'.order.side = "sell" <=> model'.State = TryingToBuy
  <2>1. CASE Buy
    <3> DEFINE fill == BuyFill(model.Budget, c.close)
               order == [side |-> "buy", cost |-> model.Budget, fill |-> fill]
    <3>1. /\ model.State = TryingToBuy /\ Buys(kind, sets, trader)
          /\ model' = [model EXCEPT !.Invested = Truncate(fill), !.Budget = 0,
                                    !.State = TryingToSell]
          /\ current' = [current EXCEPT !.order = order, !.budget = model'.Budget,
                                        !.invested = model'.Invested]
      BY <2>1 DEF Buy, Register
    <3>2. /\ model'.State = TryingToSell /\ current'.candle = c
          /\ current'.order.side = "buy"
      <4> HIDE DEF fill, c
      <4> QED BY <1>2, <1>6, <3>1 DEF Result
    <3>3. Decides(current', n + 1)
      <4> HIDE DEF c
      <4> QED BY <1>2, <1>3, <1>5, <3>1, <3>2, Zenon DEF Decides
    <3> QED BY <3>2, <3>3 DEF Filled, TryingToBuy, TryingToSell
  <2>2. CASE Sell
    <3> DEFINE fill == SellFill(model.Invested, c.close)
               order == [side |-> "sell", cost |-> model.Invested, fill |-> fill]
    <3>1. /\ model.State = TryingToSell /\ Sells(kind, sets, trader)
          /\ model' = [State |-> TryingToBuy, Budget |-> Truncate(fill), Invested |-> 0,
                       Deactivated |-> model.Deactivated
                                       \/ 10 * Truncate(fill) < 7 * InitialBudget]
          /\ current' = [current EXCEPT !.order = order, !.budget = model'.Budget,
                                        !.invested = model'.Invested]
      BY <2>2 DEF Sell, Register
    <3>2. /\ model'.State = TryingToBuy /\ model'.Budget = Truncate(fill)
      <4> HIDE DEF fill, c
      <4> QED BY <3>1
    <3>3. /\ current'.candle = c /\ current'.order = order
          /\ current'.budget = Truncate(fill)
      <4> HIDE DEF fill, c
      <4> QED BY <1>2, <3>1, <3>2 DEF Result
    <3>4. Decides(current', n + 1)
      <4>1. model.State # TryingToBuy
        BY <3>1 DEF TryingToBuy, TryingToSell
      <4>2. current'.order.side = "sell"
        BY <3>3
      <4> HIDE DEF c
      <4> QED BY <1>2, <1>3, <1>5, <3>1, <3>3, <4>1, <4>2, Zenon DEF Decides
    <3>5. Filled(current')
      <4>1. order.fill = SellFill(order.cost, c.close) /\ order.fill = fill
        OBVIOUS
      <4> HIDE DEF c, order, fill
      <4> QED BY <3>3, <4>1 DEF Filled
    <3> QED BY <3>2, <3>3, <3>4, <3>5
  <2> QED BY <2>1, <2>2
<1>8. HoldsCash' <=> model'.State = TryingToBuy
  BY <1>1, <1>7 DEF HoldsCash
<1> QED
  BY <1>1, <1>7, <1>8, SameDecisions DEF Decided

\* by noting the result
LEMMA NextDecides ==
    ASSUME DecisionInv, NextResult
    PROVE  Decided'
<1> USE DEF DecisionInv
<1>1. /\ pc = "next" /\ pc' = "replay" /\ results' = Append(results, current)
      /\ UNCHANGED <<kind, sets, model>>
  BY DEF NextResult
<1>2. PICK n \in Nat : n = Len(results)
  BY DEF ReplayInv, TypeOK
<1>3. /\ Len(results') = n + 1 /\ DOMAIN results = 1..n /\ DOMAIN results' = 1..(n + 1)
      /\ \A i \in 1..n : results'[i] = results[i]
      /\ results'[n + 1] = current /\ (n + 1) - 1 = n
  BY <1>1, <1>2 DEF ReplayInv, TypeOK
<1>4. ASSUME NEW m \in 0..n PROVE Cash(m)' = Cash(m)
  BY <1>3 DEF Cash
<1>5. \A i : /\ Buys(kind, sets, i)' = Buys(kind, sets, i)
           /\ Sells(kind, sets, i)' = Sells(kind, sets, i)
  BY <1>1, Zenon
<1>6. ASSUME NEW i \in 1..(n + 1), NEW r
      PROVE  Decides(r, i)' = Decides(r, i) /\ Filled(r)' = Filled(r)
  <2>1. i - 1 \in 0..n
    BY <1>2
  <2>2. Cash(i - 1)' = Cash(i - 1)
    BY <1>4, <2>1
  <2> QED BY <1>5, <2>2, Zenon DEF Decides, Filled, startBucket
<1>7. ASSUME NEW i \in 1..(n + 1)
      PROVE  Filled(results'[i]) /\ Decides(results'[i], i)
  BY <1>1, <1>2, <1>3 DEF Decided
<1>8. current.order.side \in {"none", "buy", "sell"}
  BY DEF ReplayInv, TypeOK, Result, Order
<1>9. Cash(n + 1)' <=> IF current.order.side # "none" THEN current.order.side = "sell"
                       ELSE Cash(n)
  <2>1. CASE current.order.side = "none"
    BY <1>2, <1>3, <2>1 DEF Cash
  <2>2. CASE current.order.side = "buy"
    <3>1. n + 1 \in 1..(n + 1) /\ (n + 1)..(n + 1) = {n + 1}
      BY <1>2
    <3> QED BY <1>3, <2>2, <3>1 DEF Cash
  <2>3. CASE current.order.side = "sell"
    <3>1. \A j \in 1..(n + 1) : n + 1 \in j..(n + 1)
      BY <1>2
    <3> QED BY <1>3, <2>3, <3>1 DEF Cash
  <2> QED BY <1>8, <2>1, <2>2, <2>3
<1>10. HoldsCash' <=> model'.State = TryingToBuy
  <2>1. HoldsCash' = Cash(n + 1)'
    BY <1>1, <1>2, <1>3 DEF HoldsCash, Cash
  <2>2. HoldsCash = IF current.order.side # "none" THEN current.order.side = "sell"
                    ELSE Cash(n)
    BY <1>1, <1>2 DEF HoldsCash
  <2> QED BY <1>1, <1>9, <2>1, <2>2 DEF Decided
<1>11. (\A i \in DOMAIN results : Filled(results[i]) /\ Decides(results[i], i))'
  <2> SUFFICES ASSUME NEW i \in 1..(n + 1)
               PROVE  (Filled(results[i]) /\ Decides(results[i], i))'
    BY <1>3
  <2>1. Filled(results'[i]) /\ Decides(results'[i], i)
    BY <1>7
  <2> QED BY <1>6, <2>1
<1> QED
  BY <1>1, <1>10, <1>11 DEF Decided

\* and by the end.
LEMMA RestDecides ==
    ASSUME DecisionInv, Finish \/ Returned \/ UNCHANGED vars
    PROVE  Decided'
<1>1. /\ UNCHANGED <<kind, sets, model, current, results>>
      /\ pc' = pc \/ (pc = "replay" /\ pc' = "done")
  BY DEF Finish, Returned, vars
<1>2. HoldsCash' = HoldsCash
  BY <1>1, SameDecisions DEF HoldsCash
<1> QED
  BY <1>1, <1>2, SameDecisions DEF DecisionInv, Decided

\* Every order noted so far is the one the indicator set of its tick asks for, and
\* the strategy's state follows from the orders (strategy.go:164-222).
THEOREM DecisionIsInvariant == Spec => []DecisionInv
<1>1. ASSUME DecisionInv, [Next]_vars PROVE Decided'
  BY <1>1, PreparingDecides, BeginDecides, HoldDecides, OrderDecides, NextDecides,
     RestDecides DEF Next
<1>2. DecisionInv /\ [Next]_vars => ReplayInv'
  BY FindKeepsReplay, GenerateKeepsReplay, BeginKeepsReplay, HoldKeepsReplay,
     BuyKeepsReplay, SellKeepsReplay, NextResultKeepsReplay, RestKeepsReplay
     DEF Next, DecisionInv
<1>3. DecisionInv /\ [Next]_vars => DecisionInv'
  BY <1>1, <1>2 DEF DecisionInv
<1> QED
  BY <1>3, InitDecides, PTL DEF Spec

--------------------------------------------------------------------------------
(* The report. *)

\* The values of the report, which are exact sums of fractions.
Worth == Nat \X Nat
Account == [profit : Nat, loss : Nat, profits : Nat, losses : Nat, budget : Nat,
            final : Nat, day : Nat, perDay : Seq(Worth)]

\* What a result does to the report (backtesting.go:323-357).
LEMMA AddResultTyped ==
    ASSUME NEW a \in Account, NEW r \in Result
    PROVE  /\ AddResult(a, r) \in Account
           /\ LET sold == r.order.side = "sell"
                  diff == r.order.fill[1] - 400 * a.budget
                  b == AddResult(a, r)
              IN  /\ ~sold => /\ b.profit = a.profit /\ b.loss = a.loss
                              /\ b.profits = a.profits /\ b.losses = a.losses
                              /\ b.budget = a.budget /\ b.final = a.final
                  /\ sold => /\ b.profit - b.loss = a.profit - a.loss + diff
                             /\ b.profits + b.losses = a.profits + a.losses + 1
                             /\ b.budget = Truncate(r.order.fill)
                             /\ b.final = Truncate(r.order.fill)
<1> DEFINE sold == r.order.side = "sell"
           diff == r.order.fill[1] - 400 * a.budget
           b == AddResult(a, r)
<1>1. /\ r.order.fill[1] \in Nat /\ r.order.fill[2] \in Nat \ {0}
      /\ r.budget \in Nat /\ r.invested \in Nat
      /\ r.candle.close \in Nat /\ r.candle.start \in Nat
  BY DEF Result, Order, Candle
<1>2. diff \in Int
  BY <1>1, SMTT(30) DEF Account
<1>3. Truncate(r.order.fill) \in Nat
  BY <1>1, Division DEF Truncate
<1>4. PortfolioValue(r) \in Worth
  BY <1>1 DEF PortfolioValue, SellFill, Worth
<1>5. (IF NewDay(a.day, r) THEN Append(a.perDay, PortfolioValue(r)) ELSE a.perDay)
          \in Seq(Worth)
  <2> HIDE DEF Worth
  <2> QED BY <1>4 DEF Account
<1>6. b = [profit |-> a.profit + (IF sold /\ diff >= 0 THEN diff ELSE 0),
           loss |-> a.loss + (IF sold /\ diff < 0 THEN -diff ELSE 0),
           profits |-> a.profits + (IF sold /\ diff >= 0 THEN 1 ELSE 0),
           losses |-> a.losses + (IF sold /\ diff < 0 THEN 1 ELSE 0),
           budget |-> IF sold THEN Truncate(r.order.fill) ELSE a.budget,
           final |-> IF sold THEN Truncate(r.order.fill) ELSE a.final,
           day |-> r.candle.start,
           perDay |-> IF NewDay(a.day, r)
                      THEN Append(a.perDay, PortfolioValue(r)) ELSE a.perDay]
  BY DEF AddResult, BudgetAfter
<1> HIDE DEF b, diff, Worth
<1>7. b \in Account
  BY <1>1, <1>2, <1>3, <1>5, <1>6, SMTT(30) DEF Account
<1>8. /\ ~sold => /\ b.profit = a.profit /\ b.loss = a.loss
                  /\ b.profits = a.profits /\ b.losses = a.losses
                  /\ b.budget = a.budget /\ b.final = a.final
      /\ sold => /\ b.profit - b.loss = a.profit - a.loss + diff
                 /\ b.profits + b.losses = a.profits + a.losses + 1
                 /\ b.budget = Truncate(r.order.fill)
                 /\ b.final = Truncate(r.order.fill)
  <2>1. /\ a.profit \in Nat /\ a.loss \in Nat /\ a.profits \in Nat /\ a.losses \in Nat
    BY DEF Account
  <2>2. /\ b.profit = a.profit + (IF sold /\ diff >= 0 THEN diff ELSE 0)
        /\ b.loss = a.loss + (IF sold /\ diff < 0 THEN -diff ELSE 0)
        /\ b.profits = a.profits + (IF sold /\ diff >= 0 THEN 1 ELSE 0)
        /\ b.losses = a.losses + (IF sold /\ diff < 0 THEN 1 ELSE 0)
        /\ b.budget = IF sold THEN Truncate(r.order.fill) ELSE a.budget
        /\ b.final = IF sold THEN Truncate(r.order.fill) ELSE a.final
    BY <1>6
  <2> HIDE DEF sold
  <2>3. CASE ~sold
    BY <2>1, <2>2, <2>3
  <2>4. CASE sold /\ diff >= 0
    BY <1>2, <2>1, <2>2, <2>4
  <2>5. CASE sold /\ ~(diff >= 0)
    BY <1>2, <2>1, <2>2, <2>5
  <2> QED BY <2>3, <2>4, <2>5
<1> QED
  BY <1>7, <1>8 DEF b, diff

\* The report before the first result.
NothingBooked ==
    [profit |-> 0, loss |-> 0, profits |-> 0, losses |-> 0,
     budget |-> InitialBudget, final |-> 0, perDay |-> <<>>,
     day |-> IF results = <<>> THEN 0 ELSE Head(results).candle.start]

\* The report, result after result.
LEMMA ResultsTrace ==
    ASSUME results \in Seq(Result)
    PROVE  /\ Results \in Account
           /\ \E h \in [0..Len(results) -> Account] :
                 /\ h[0] = NothingBooked
                 /\ \A k \in 1..Len(results) :
                       h[k] = AddResult(h[k - 1], results[k])
                 /\ Results = h[Len(results)]
<1> DEFINE n == Len(results)
           A == Account
           base == NothingBooked
           F == [i \in 1..n |-> [a \in A |-> AddResult(a, results[i])]]
           IsIter(g) == g = [s \in SUBSET (1..n) |->
              IF s = {} THEN base
              ELSE AddResult(g[s \ {Max(s)}], results[Max(s)])]
           iter == CHOOSE g : IsIter(g)
<1>1. /\ n \in Nat /\ base \in A
      /\ \A a \in A, i \in 1..n : AddResult(a, results[i]) \in A
  <2>1. (IF results = <<>> THEN 0 ELSE Head(results).candle.start) \in Nat
    <3>1. ASSUME results # <<>> PROVE Head(results) \in Result
      BY <3>1
    <3> QED BY <3>1 DEF Result, Candle
  <2>2. n \in Nat /\ base \in A
    <3>1. <<>> \in Seq(Worth)
      OBVIOUS
    <3> QED BY <2>1, <3>1, BacktesterAssumption DEF Account, NothingBooked
  <2>3. \A a \in A, i \in 1..n : AddResult(a, results[i]) \in A
    <3>1. \A i \in 1..n : results[i] \in Result
      OBVIOUS
    <3> QED BY <3>1, AddResultTyped
  <2> QED BY <2>2, <2>3
<1>2. F \in [1..n -> [A -> A]]
  BY <1>1
<1>3. PICK g : FoldsTo(g, A, base, n, F)
  <2> HIDE DEF A, base, F, n
  <2> QED BY <1>1, <1>2, FoldIsDefined
<1>4. \A s \in SUBSET (1..n), b \in A : s # {} =>
          F[Max(s)][b] = AddResult(b, results[Max(s)])
  <2> HIDE DEF A, base, n
  <2> QED BY <1>1, LargestOf
<1>5. IsIter(iter)
  <2>1. IsIter(g)
    <3> HIDE DEF A, base, n, F
    <3> QED BY <1>3, <1>4 DEF FoldsTo
  <2> HIDE DEF IsIter
  <2> QED BY <2>1
<1>6. Results = iter[1..n]
  <2>1. DOMAIN results = 1..n
    OBVIOUS
  <2> QED BY <2>1, Zenon DEF Results, NothingBooked, FoldLeft, MapThenFoldSet
<1> HIDE DEF iter
<1>7. Iterates(iter, A, base, n, F)
  <2> HIDE DEF A, base, F, n
  <2> QED BY <1>4, <1>5 DEF Iterates
<1>8. PICK h : Traces(h, A, base, n, F) /\ h[n] = iter[1..n]
  <2> HIDE DEF A, base, F, n
  <2> QED BY <1>1, <1>2, <1>7, FoldHasTrace
<1>9. h \in [0..n -> A] /\ h[0] = base /\ Results = h[n]
  <2> HIDE DEF A, base, F, n
  <2> QED BY <1>6, <1>8 DEF Traces
<1>10. ASSUME NEW k \in 1..n PROVE h[k] = AddResult(h[k - 1], results[k])
  <2>1. h[k] = F[k][h[k - 1]] /\ h[k - 1] \in A
    <3> HIDE DEF A, base, F
    <3> QED BY <1>1, <1>8, <1>9 DEF Traces
  <2> HIDE DEF A
  <2> QED BY <2>1
<1>11. Results \in A
  <2>1. n \in 0..n
    BY <1>1
  <2> HIDE DEF A, n
  <2> QED BY <1>9, <2>1
<1> QED
  BY <1>9, <1>10, <1>11

\* What the report says after the first k results.
BookedAfter(a, k) ==
    LET sales == a.profits + a.losses
        cut == a.profit - a.loss - 400 * (a.budget - InitialBudget)
    IN  /\ 0 <= cut /\ cut <= 399 * sales
        /\ sales > 0 => a.final = a.budget
        /\ Cash(k) => a.budget = HeldBefore(k + 1).budget

\* A result keeps the report right.
LEMMA SaleIsBooked ==
    ASSUME DecisionInv, NEW k \in 1..Len(results), NEW a \in Account,
           BookedAfter(a, k - 1)
    PROVE  BookedAfter(AddResult(a, results[k]), k)
<1> DEFINE r == results[k]
           b == AddResult(a, results[k])
           fill == r.order.fill
<1>1. /\ r \in Result /\ Filled(r) /\ Explains(HeldBefore(k), r)
      /\ Len(results) \in Nat /\ k \in Nat \ {0} /\ k - 1 \in Nat
  BY DEF DecisionInv, ReplayInv, TypeOK, Decided, OrdersExplainHoldings
<1>2. HeldBefore(k + 1).budget = r.budget /\ HeldBefore((k - 1) + 1) = HeldBefore(k)
  <2>1. k + 1 # 1 /\ (k + 1) - 1 = k /\ (k - 1) + 1 = k
    BY <1>1
  <2> QED BY <2>1 DEF HeldBefore
<1>3. r.order.side \in {"none", "buy", "sell"}
  BY <1>1 DEF Result, Order
<1>4. CASE r.order.side # "sell"
  <2>1. /\ b.profit = a.profit /\ b.loss = a.loss
        /\ b.profits = a.profits /\ b.losses = a.losses
        /\ b.budget = a.budget /\ b.final = a.final
    BY <1>1, <1>4, AddResultTyped
  <2>2. ASSUME Cash(k) PROVE b.budget = HeldBefore(k + 1).budget
    <3>1. r.order.side # "buy"
      BY <1>1, <1>4, <2>2 DEF Cash
    <3>2. r.budget = HeldBefore(k).budget
      BY <1>1, <1>3, <1>4, <3>1 DEF Explains
    <3>3. Cash(k - 1)
      <4> SUFFICES ASSUME NEW j \in 1..(k - 1), results[j].order.side = "buy"
                   PROVE  \E i \in j..(k - 1) : results[i].order.side = "sell"
        BY DEF Cash
      <4>1. PICK i \in j..k : results[i].order.side = "sell"
        BY <1>1, <2>2 DEF Cash
      <4>2. i # k
        BY <1>4, <4>1
      <4> QED BY <1>1, <4>1, <4>2
    <3> QED BY <1>2, <2>1, <3>2, <3>3 DEF BookedAfter
  <2>3. BookedAfter(b, k)
    <3> HIDE DEF b
    <3> QED BY <2>1, <2>2 DEF BookedAfter
  <2> QED BY <2>3
<1>5. CASE r.order.side = "sell"
  <2>1. /\ b.profit - b.loss = a.profit - a.loss + (fill[1] - 400 * a.budget)
        /\ b.profits + b.losses = a.profits + a.losses + 1
        /\ b.budget = Truncate(fill) /\ b.final = Truncate(fill) /\ b \in Account
    BY <1>1, <1>5, AddResultTyped
  <2>2. r.budget = Truncate(fill) /\ fill[1] \in Nat /\ fill[2] = 400
    BY <1>1, <1>5 DEF Filled, SellFill, Result, Order
  <2>3. /\ Truncate(fill) \in Nat /\ 400 * Truncate(fill) <= fill[1]
        /\ fill[1] < 400 * (Truncate(fill) + 1)
    BY <2>2 DEF Truncate
  <2>4. /\ a.profit \in Nat /\ a.loss \in Nat /\ a.budget \in Nat
        /\ a.profits \in Nat /\ a.losses \in Nat /\ InitialBudget \in Nat
    BY BacktesterAssumption DEF Account
  <2>5. /\ b.profit \in Nat /\ b.loss \in Nat /\ b.budget \in Nat
        /\ b.profits \in Nat /\ b.losses \in Nat
    BY <2>1 DEF Account
  <2>6. /\ 0 <= a.profit - a.loss - 400 * (a.budget - InitialBudget)
        /\ a.profit - a.loss - 400 * (a.budget - InitialBudget)
               <= 399 * (a.profits + a.losses)
    BY DEF BookedAfter
  <2> DEFINE net == a.profit - a.loss
             net2 == b.profit - b.loss
             sales == a.profits + a.losses
             sales2 == b.profits + b.losses
             budget == a.budget
             budget2 == b.budget
             filled == fill[1]
  <2>7. net \in Int /\ sales \in Int /\ budget \in Int /\ InitialBudget \in Int
    BY <2>4
  <2>8. net2 \in Int /\ sales2 \in Int /\ budget2 \in Int /\ filled \in Int
    BY <2>2, <2>5, SMTT(30)
  <2>9. 400 * budget2 <= filled /\ filled < 400 * (budget2 + 1)
    BY <2>1, <2>3
  <2>10. net2 = net + (filled - 400 * budget) /\ sales2 = sales + 1
    BY <2>1
  <2>11. /\ 0 <= net2 - 400 * (budget2 - InitialBudget)
         /\ net2 - 400 * (budget2 - InitialBudget) <= 399 * sales2
    <3> HIDE DEF net, net2, sales, sales2, budget, budget2, filled
    <3>1. /\ 0 <= net - 400 * (budget - InitialBudget)
          /\ net - 400 * (budget - InitialBudget) <= 399 * sales
      BY <2>6 DEF net, sales, budget
    <3> QED BY <2>7, <2>8, <2>9, <2>10, <3>1
  <2>12. BookedAfter(b, k)
    <3> HIDE DEF b, fill
    <3> QED BY <1>2, <2>1, <2>2, <2>11 DEF BookedAfter
  <2> QED BY <2>12
<1> QED
  BY <1>4, <1>5

\* So the report is right after all results.
LEMMA ReportIsBooked ==
    ASSUME DecisionInv
    PROVE  Results \in Account /\ BookedAfter(Results, Len(results))
<1> DEFINE n == Len(results)
<1>1. results \in Seq(Result) /\ n \in Nat
  BY DEF DecisionInv, ReplayInv, TypeOK
<1>2. PICK h \in [0..n -> Account] :
        /\ h[0] = NothingBooked
        /\ \A k \in 1..n : h[k] = AddResult(h[k - 1], results[k])
        /\ Results = h[n]
  BY <1>1, ResultsTrace
<1> DEFINE T == {k \in 0..n : BookedAfter(h[k], k)}
<1>3. 0 \in T
  <2>1. HeldBefore(0 + 1).budget = InitialBudget
    BY DEF HeldBefore
  <2>2. /\ h[0].profit = 0 /\ h[0].loss = 0 /\ h[0].profits = 0 /\ h[0].losses = 0
        /\ h[0].budget = InitialBudget
    BY <1>2 DEF NothingBooked
  <2>3. BookedAfter(h[0], 0)
    BY <2>1, <2>2, BacktesterAssumption DEF BookedAfter
  <2> QED BY <1>1, <2>3
<1>4. \A k \in 1..n : k - 1 \in T => k \in T
  <2> SUFFICES ASSUME NEW k \in 1..n, BookedAfter(h[k - 1], k - 1)
               PROVE  BookedAfter(h[k], k)
    BY <1>1
  <2>1. h[k - 1] \in Account /\ h[k] = AddResult(h[k - 1], results[k])
    BY <1>1, <1>2
  <2> QED BY <2>1, SaleIsBooked
<1>5. n \in T
  <2>1. 0..n \subseteq T
    <3> HIDE DEF T, n
    <3> QED BY <1>1, <1>3, <1>4, IntervalInduction
  <2> QED BY <1>1, <2>1
<1>6. Results \in Account
  BY <1>1, <1>2
<1> QED
  BY <1>2, <1>5, <1>6

\* Profits less losses are what the budget has grown by, less than a unit off per
\* sale, and FinalBudget is the budget after the last sale, for every market and
\* budget (backtesting.go:338-356).
THEOREM ProfitBooked == Spec => []ProfitIsBooked
<1>1. DecisionInv => ProfitIsBooked
  <2> SUFFICES ASSUME DecisionInv PROVE ProfitIsBooked
    OBVIOUS
  <2> DEFINE end == Results
             sales == end.profits + end.losses
             cut == end.profit - end.loss - 400 * (end.final - InitialBudget)
  <2>1. end \in Account /\ BookedAfter(end, Len(results))
    BY ReportIsBooked
  <2>2. ASSUME sales > 0 PROVE 0 <= cut /\ cut < 400 * sales
    <3> HIDE DEF end
    <3> QED BY <2>1, <2>2, BacktesterAssumption DEF BookedAfter, Account
  <2>3. ASSUME sales > 0, model.State = TryingToBuy, pc = "done"
        PROVE  end.final = model.Budget
    <3>1. Cash(Len(results))
      BY <2>3 DEF DecisionInv, Decided, HoldsCash
    <3>2. end.final = end.budget /\ end.budget = HeldBefore(Len(results) + 1).budget
      BY <2>1, <2>3, <3>1 DEF BookedAfter
    <3>3. HeldBefore(Len(results) + 1) = Holding
      BY <2>3 DEF DecisionInv, ReplayInv, Replayed
    <3> QED BY <3>2, <3>3 DEF Holding
  <2> QED BY <2>2, <2>3, Zenon DEF ProfitIsBooked
<1> QED
  BY <1>1, DecisionIsInvariant, PTL

--------------------------------------------------------------------------------
(* The sets of the replay are those that were gathered. *)

\* generateIndicatorSets, before its loop,
NothingGathered == [ind |-> NewIndicators, sets |-> <<>>, valid |-> <<>>]

\* round by round,
Gathers(h) ==
    /\ h[0] = NothingGathered
    /\ \A k \in 1..Len(candles) : h[k] = AddSet(h[k - 1], candles[k])
    /\ sets = h[Len(candles)].sets /\ validCandles = h[Len(candles)].valid

\* and at its end.
SetsGathered ==
    pc \in {"replay", "process", "next", "done"} =>
        \E h \in [0..Len(candles) -> Gathered] : Gathers(h)

\* The invariant of the backtest.
BacktestInv == DecisionInv /\ SetsGathered

\* generateIndicatorSets returns what it has gathered,
LEMMA GenerateGathers ==
    ASSUME DecisionInv, GenerateIndicatorSets
    PROVE  SetsGathered'
<1>1. /\ kind \in Kinds /\ candles \in Seq({c \in Candle : Priced(c)})
      /\ UNCHANGED <<kind, candles>>
      /\ sets' = GeneratedSets.sets /\ validCandles' = GeneratedSets.valid
  BY DEF GenerateIndicatorSets, DecisionInv, ReplayInv, TypeOK, Prepared, Periods
<1>2. PICK h \in [0..Len(candles) -> Gathered] :
        /\ h[0] = [ind |-> NewIndicators, sets |-> <<>>, valid |-> <<>>]
        /\ \A k \in 1..Len(candles) : h[k] = AddSet(h[k - 1], candles[k])
        /\ GeneratedSets = h[Len(candles)]
  BY <1>1, GeneratedTrace
<1>3. \A a, c : AddSet(a, c)' = AddSet(a, c)
  BY <1>1, Zenon DEF AddSet
<1>4. Gathers(h)'
  BY <1>1, <1>2, <1>3 DEF Gathers, NothingGathered
<1>5. h \in [0..Len(candles') -> Gathered]
  BY <1>1, <1>2
<1> QED
  BY <1>4, <1>5 DEF SetsGathered

\* and nothing touches it afterwards.
LEMMA OthersGather ==
    ASSUME SetsGathered, UNCHANGED <<kind, candles, sets, validCandles>>,
           pc' \in {"replay", "process", "next", "done"} =>
               pc \in {"replay", "process", "next", "done"}
    PROVE  SetsGathered'
<1> SUFFICES ASSUME pc' \in {"replay", "process", "next", "done"}
             PROVE  \E h \in [0..Len(candles') -> Gathered] : Gathers(h)'
  BY DEF SetsGathered
<1>1. PICK h \in [0..Len(candles) -> Gathered] : Gathers(h)
  BY DEF SetsGathered
<1>2. \A a, c : AddSet(a, c)' = AddSet(a, c)
  BY Zenon DEF AddSet
<1>3. Gathers(h)'
  BY <1>1, <1>2 DEF Gathers
<1> QED
  BY <1>1, <1>3

\* The sets and candlesticks of the replay are those gathered from the projected
\* candlesticks (backtesting.go:169-226).
THEOREM BacktestIsInvariant == Spec => []BacktestInv
<1>1. Init => SetsGathered
  BY DEF Init, SetsGathered
<1>2. ASSUME DecisionInv, SetsGathered, [Next]_vars PROVE SetsGathered'
  <2>1. CASE FindCandlesticks
    <3>1. pc' \in {"failed", "generate"}
      BY <2>1 DEF FindCandlesticks
    <3> QED BY <3>1 DEF SetsGathered
  <2>2. CASE GenerateIndicatorSets
    BY <1>2, <2>2, GenerateGathers
  <2>3. CASE \/ BeginTick \/ Hold \/ Buy \/ Sell \/ NextResult
             \/ Finish \/ Returned \/ UNCHANGED vars
    <3>1. /\ UNCHANGED <<kind, candles, sets, validCandles>>
          /\ pc \in {"replay", "process", "next", "done"} \/ pc' = pc
      BY <2>3 DEF BeginTick, Hold, Buy, Sell, Register, NextResult, Finish,
         Returned, vars
    <3> QED BY <1>2, <3>1, OthersGather
  <2> QED BY <1>2, <2>1, <2>2, <2>3 DEF Next
<1> QED
  BY <1>1, <1>2, DecisionIsInvariant, PTL DEF Spec, BacktestInv

\* A bot's indicator sets, seeded candlestick after candlestick.
LEMMA SeededTrace ==
    ASSUME kind \in Kinds, NEW cs \in Seq({c \in Candle : Priced(c)})
    PROVE  /\ Seeded(cs) \in [ind : IndState, history : Seq(SetOfValues)]
           /\ \E h \in [0..Len(cs) -> [ind : IndState, history : Seq(SetOfValues)]] :
                 /\ h[0] = [ind |-> NewIndicators, history |-> <<>>]
                 /\ \A k \in 1..Len(cs) :
                       h[k] = SeedIndicators(h[k - 1], cs[k])
                 /\ Seeded(cs) = h[Len(cs)]
<1> DEFINE n == Len(cs)
           A == [ind : IndState, history : Seq(SetOfValues)]
           base == [ind |-> NewIndicators, history |-> <<>>]
           F == [i \in 1..n |-> [a \in A |-> SeedIndicators(a, cs[i])]]
           IsIter(g) == g = [s \in SUBSET (1..n) |->
              IF s = {} THEN base
              ELSE SeedIndicators(g[s \ {Max(s)}], cs[Max(s)])]
           iter == CHOOSE g : IsIter(g)
<1>1. /\ n \in Nat /\ base \in A
      /\ \A a \in A, i \in 1..n : SeedIndicators(a, cs[i]) \in A
  <2>1. NewIndicators \in IndState
    BY DEF NewIndicators, NewEMA, NewRSI, IndState, EMAState, RSIState, Value
  <2>2. n \in Nat /\ base \in A
    BY <2>1
  <2>3. ASSUME NEW a \in A, NEW i \in 1..n PROVE SeedIndicators(a, cs[i]) \in A
    <3>1. cs[i] \in Candle /\ Priced(cs[i])
      OBVIOUS
    <3>2. AddCandlestick(kind, a.ind, cs[i]) \in IndState
      BY <3>1, AddCandlestickTyped
    <3>3. IndicatorSet(kind, AddCandlestick(kind, a.ind, cs[i])) \in SetOfValues
      BY <3>2, IndicatorSetTyped
    <3> HIDE DEF IndState, SetOfValues
    <3> QED BY <3>2, <3>3 DEF SeedIndicators
  <2> QED BY <2>2, <2>3
<1>2. F \in [1..n -> [A -> A]]
  BY <1>1
<1>3. PICK g : FoldsTo(g, A, base, n, F)
  <2> HIDE DEF A, base, F, n
  <2> QED BY <1>1, <1>2, FoldIsDefined
<1>4. \A s \in SUBSET (1..n), b \in A : s # {} =>
          F[Max(s)][b] = SeedIndicators(b, cs[Max(s)])
  <2> HIDE DEF A, base, n
  <2> QED BY <1>1, LargestOf
<1>5. IsIter(iter)
  <2>1. IsIter(g)
    <3> HIDE DEF A, base, n, F
    <3> QED BY <1>3, <1>4 DEF FoldsTo
  <2> HIDE DEF IsIter
  <2> QED BY <2>1
<1>6. Seeded(cs) = iter[1..n]
  <2>1. DOMAIN cs = 1..n
    OBVIOUS
  <2> QED BY <2>1, Zenon DEF Seeded, FoldLeft, MapThenFoldSet
<1> HIDE DEF iter
<1>7. Iterates(iter, A, base, n, F)
  <2> HIDE DEF A, base, F, n
  <2> QED BY <1>4, <1>5 DEF Iterates
<1>8. PICK h : Traces(h, A, base, n, F) /\ h[n] = iter[1..n]
  <2> HIDE DEF A, base, F, n
  <2> QED BY <1>1, <1>2, <1>7, FoldHasTrace
<1>9. h \in [0..n -> A] /\ h[0] = base /\ Seeded(cs) = h[n]
  <2> HIDE DEF A, base, F, n
  <2> QED BY <1>6, <1>8 DEF Traces
<1>10. ASSUME NEW k \in 1..n PROVE h[k] = SeedIndicators(h[k - 1], cs[k])
  <2>1. h[k] = F[k][h[k - 1]] /\ h[k - 1] \in A
    <3> HIDE DEF A, base, F
    <3> QED BY <1>1, <1>8, <1>9 DEF Traces
  <2> HIDE DEF A
  <2> QED BY <2>1
<1>11. Seeded(cs) \in A
  <2>1. n \in 0..n
    BY <1>1
  <2> HIDE DEF A, n
  <2> QED BY <1>9, <2>1
<1> QED
  BY <1>9, <1>10, <1>11

\* What one candlestick does to what is gathered.
LEMMA AddSetEffect ==
    ASSUME kind \in Kinds, NEW a \in Gathered, NEW c \in Candle, Priced(c)
    PROVE  LET b == AddSet(a, c)
               set == IndicatorSet(kind, b.ind)
           IN  /\ b \in Gathered /\ b.ind = AddCandlestick(kind, a.ind, c)
               /\ IF c.volume # 0 /\ HasValues(kind, set)
                  THEN b.sets = Append(a.sets, set) /\ b.valid = Append(a.valid, c)
                  ELSE b.sets = a.sets /\ b.valid = a.valid
<1> DEFINE ind == AddCandlestick(kind, a.ind, c)
           set == IndicatorSet(kind, ind)
           b == AddSet(a, c)
<1>1. b \in Gathered
  BY AddSetGathers
<1>2. b = IF c.volume = 0 THEN a
          ELSE IF HasValues(kind, set)
          THEN [ind |-> ind, sets |-> Append(a.sets, set), valid |-> Append(a.valid, c)]
          ELSE [a EXCEPT !.ind = ind]
  BY Zenon DEF AddSet
<1>3. c.volume = 0 => ind = a.ind
  BY DEF AddCandlestick
<1>4. b.ind = ind
  <2> HIDE DEF b, ind, set
  <2> QED BY <1>2, <1>3 DEF Gathered
<1>5. IF c.volume # 0 /\ HasValues(kind, set)
      THEN b.sets = Append(a.sets, set) /\ b.valid = Append(a.valid, c)
      ELSE b.sets = a.sets /\ b.valid = a.valid
  <2> HIDE DEF b, ind, set
  <2> QED BY <1>2 DEF Gathered
<1> HIDE DEF b
<1> QED
  BY <1>1, <1>4, <1>5, Zenon DEF b

\* Each set was gathered at its candlestick, when it had all values, right after
\* the set before it.
GatheredAt(h, k, i, n) ==
    /\ h[k].valid[i] = candles[n] /\ h[k].sets[i] = IndicatorSet(kind, h[n].ind)
    /\ HasValues(kind, h[k].sets[i])
    /\ Len(h[n - 1].sets) = i - 1
    /\ i > 1 => h[n - 1].sets[i - 1] = h[k].sets[i - 1]

\* If the indicators have values, the newest set is of these.
Newest(h, k) ==
    HasValues(kind, IndicatorSet(kind, h[k].ind)) =>
        /\ Len(h[k].sets) > 0
        /\ h[k].sets[Len(h[k].sets)] = IndicatorSet(kind, h[k].ind)

\* Without candlesticks no strategy has all values.
LEMMA NothingIsNewest ==
    ASSUME kind \in Kinds
    PROVE  ~HasValues(kind, IndicatorSet(kind, NewIndicators))
<1>1. RSIPeriodOf(kind) \in Nat
  BY StrategiesAssumption, IndicatorsAssumption DEF RSIPeriodOf
<1>2. /\ IndicatorSet(kind, NewIndicators).rsi = None
      /\ IndicatorSet(kind, NewIndicators).short = None
  BY <1>1 DEF IndicatorSet, NewIndicators, NewEMA, NewRSI, RSI
<1>3. "rsi" \in IndicatorsOf(kind) \/ "short" \in IndicatorsOf(kind)
  BY DEF IndicatorsOf, Kinds, EMAIndicators, RSIIndicators, S1Indicators
<1> QED
  BY <1>2, <1>3 DEF HasValues

\* Where each set comes from, and that sets with all values follow one another.
LEMMA SetsAreGathered ==
    ASSUME kind \in Kinds, candles \in Seq({c \in Candle : Priced(c)}),
           NEW h \in [0..Len(candles) -> Gathered], Gathers(h),
           NEW k \in 0..Len(candles)
    PROVE  /\ Newest(h, k)
           /\ \A i \in 1..Len(h[k].sets) : \E n \in 1..k : GatheredAt(h, k, i, n)
<1> DEFINE N == Len(candles)
           Traced(j) == \A i \in 1..Len(h[j].sets) :
                           \E n \in 1..j : GatheredAt(h, j, i, n)
           T == {j \in 0..N : Newest(h, j) /\ Traced(j)}
<1>1. N \in Nat
  OBVIOUS
<1>2. 0 \in T
  <2>1. h[0] = NothingGathered
    BY DEF Gathers
  <2>2. Newest(h, 0)
    BY <2>1, NothingIsNewest DEF Newest, NothingGathered
  <2>3. Traced(0)
    BY <2>1 DEF NothingGathered
  <2> HIDE DEF Traced
  <2> QED BY <1>1, <2>2, <2>3
<1>3. ASSUME NEW j \in 1..N, j - 1 \in T PROVE j \in T
  <2> DEFINE a == h[j - 1]
             b == h[j]
             c == candles[j]
             set == IndicatorSet(kind, b.ind)
  <2>1. /\ a \in Gathered /\ b = AddSet(a, c) /\ c \in Candle /\ Priced(c)
        /\ j \in Nat /\ j - 1 \in Nat
    BY DEF Gathers
  <2>2. Newest(h, j - 1) /\ Traced(j - 1)
    BY <1>3
  <2>3. /\ b \in Gathered /\ b.ind = AddCandlestick(kind, a.ind, c)
        /\ IF c.volume # 0 /\ HasValues(kind, set)
           THEN b.sets = Append(a.sets, set) /\ b.valid = Append(a.valid, c)
           ELSE b.sets = a.sets /\ b.valid = a.valid
    <3> HIDE DEF a, b, c
    <3> QED BY <2>1, AddSetEffect
  <2>4. /\ a.sets \in Seq(SetOfValues) /\ a.valid \in Seq(Stored)
        /\ Len(a.sets) = Len(a.valid) /\ Len(a.sets) \in Nat
    BY <2>1 DEF Gathered
  <2>5. CASE c.volume # 0 /\ HasValues(kind, set)
    <3> DEFINE m == Len(a.sets)
    <3>1. b.sets = Append(a.sets, set) /\ b.valid = Append(a.valid, c)
      BY <2>3, <2>5
    <3>2. /\ Len(b.sets) = m + 1 /\ b.sets[m + 1] = set /\ b.valid[m + 1] = c
          /\ \A i \in 1..m : b.sets[i] = a.sets[i] /\ b.valid[i] = a.valid[i]
      <4> HIDE DEF set, c, b, a
      <4> QED BY <2>4, <3>1
    <3>3. Newest(h, j)
      BY <2>4, <3>2 DEF Newest
    <3>4. ASSUME NEW i \in 1..(m + 1) PROVE \E n \in 1..j : GatheredAt(h, j, i, n)
      <4>1. CASE i = m + 1
        <5>1. i > 1 => i - 1 \in 1..m
          BY <2>4, <4>1
        <5>2. i - 1 = m
          BY <2>4, <4>1
        <5>3. GatheredAt(h, j, i, j)
          BY <2>5, <3>2, <4>1, <5>1, <5>2 DEF GatheredAt
        <5> QED BY <2>1, <5>3
      <4>2. CASE i # m + 1
        <5>1. i \in 1..m /\ (i > 1 => i - 1 \in 1..m)
          BY <2>4, <4>2
        <5>2. PICK n \in 1..(j - 1) : GatheredAt(h, j - 1, i, n)
          BY <2>2, <5>1
        <5>3. GatheredAt(h, j, i, n)
          BY <3>2, <5>1, <5>2 DEF GatheredAt
        <5> QED BY <2>1, <5>2, <5>3
      <4> QED BY <4>1, <4>2
    <3>5. Traced(j)
      BY <3>2, <3>4
    <3> HIDE DEF Traced
    <3> QED BY <3>3, <3>5
  <2>6. CASE c.volume = 0 \/ ~HasValues(kind, set)
    <3>1. b.sets = a.sets /\ b.valid = a.valid
      BY <2>3, <2>6
    <3>2. c.volume = 0 => b.ind = a.ind
      BY <2>3 DEF AddCandlestick
    <3>3. Newest(h, j)
      BY <2>2, <2>6, <3>1, <3>2 DEF Newest
    <3>4. ASSUME NEW i \in 1..Len(b.sets) PROVE \E n \in 1..j : GatheredAt(h, j, i, n)
      <4>1. PICK n \in 1..(j - 1) : GatheredAt(h, j - 1, i, n)
        BY <2>2, <3>1
      <4>2. GatheredAt(h, j, i, n)
        BY <3>1, <4>1 DEF GatheredAt
      <4> QED BY <2>1, <4>1, <4>2
    <3>5. Traced(j)
      BY <3>4
    <3> HIDE DEF Traced
    <3> QED BY <3>3, <3>5
  <2> QED BY <2>5, <2>6
<1>4. 0..N \subseteq T
  <2> HIDE DEF T, N
  <2> QED BY <1>1, <1>2, <1>3, IntervalInduction
<1> QED
  BY <1>4

\* What a bot has been seeded with are the indicators of the backtest.
LEMMA SeededAlike ==
    ASSUME kind \in Kinds, candles \in Seq({c \in Candle : Priced(c)}),
           NEW h \in [0..Len(candles) -> Gathered], Gathers(h),
           NEW n \in 1..Len(candles)
    PROVE  /\ Len(SeededHistory(n)) = n
           /\ \A j \in 1..n : SeededHistory(n)[j] = IndicatorSet(kind, h[j].ind)
<1> DEFINE cs == SubSeq(candles, 1, n)
           A == [ind : IndState, history : Seq(SetOfValues)]
<1>1. /\ cs \in Seq({c \in Candle : Priced(c)}) /\ Len(cs) = n /\ n \in Nat
      /\ \A k \in 1..n : cs[k] = candles[k]
  OBVIOUS
<1> HIDE DEF cs
<1>2. PICK g \in [0..n -> A] :
        /\ g[0] = [ind |-> NewIndicators, history |-> <<>>]
        /\ \A k \in 1..n : g[k] = SeedIndicators(g[k - 1], cs[k])
        /\ Seeded(cs) = g[n]
  BY <1>1, SeededTrace
<1> DEFINE Alike(k) == /\ g[k].ind = h[k].ind /\ Len(g[k].history) = k
                       /\ \A j \in 1..k : g[k].history[j] = IndicatorSet(kind, h[j].ind)
           T == {k \in 0..n : Alike(k)}
<1>3. 0 \in T
  <2>1. g[0].ind = h[0].ind /\ g[0].history = <<>>
    BY <1>2 DEF Gathers, NothingGathered
  <2>2. Alike(0)
    BY <2>1
  <2> HIDE DEF Alike
  <2> QED BY <1>1, <2>2
<1>4. ASSUME NEW k \in 1..n, k - 1 \in T PROVE k \in T
  <2> DEFINE c == candles[k]
             ind == AddCandlestick(kind, g[k - 1].ind, c)
             set == IndicatorSet(kind, ind)
  <2>1. /\ k - 1 \in 0..n /\ k - 1 \in 0..Len(candles) /\ k \in 1..Len(candles)
        /\ k \in Nat /\ (k - 1) + 1 = k
    BY <1>1
  <2>2. h[k - 1] \in Gathered /\ c \in Candle /\ Priced(c) /\ h[k] = AddSet(h[k - 1], c)
    <3>1. c \in Candle /\ Priced(c)
      BY <2>1
    <3>2. h[k - 1] \in Gathered
      BY <2>1
    <3> QED BY <2>1, <3>1, <3>2 DEF Gathers
  <2>3. h[k].ind = AddCandlestick(kind, h[k - 1].ind, c)
    <3> HIDE DEF c
    <3>1. AddSet(h[k - 1], c).ind = AddCandlestick(kind, h[k - 1].ind, c)
      BY <2>2, AddSetEffect
    <3> QED BY <2>2, <3>1
  <2>4. Alike(k - 1)
    BY <1>4
  <2>5. ind = h[k].ind
    BY <2>3, <2>4
  <2>6. g[k] = [ind |-> ind, history |-> Append(g[k - 1].history, set)]
    BY <1>1, <1>2, Zenon DEF SeedIndicators
  <2>7. g[k - 1].history \in Seq(SetOfValues) /\ Len(g[k - 1].history) = k - 1
    BY <1>2, <2>1, <2>4
  <2>8. /\ g[k].ind = ind /\ Len(g[k].history) = k
        /\ g[k].history[k] = set
        /\ \A j \in 1..(k - 1) : g[k].history[j] = g[k - 1].history[j]
    <3> HIDE DEF ind, set
    <3> QED BY <2>1, <2>6, <2>7
  <2>9. ASSUME NEW j \in 1..k PROVE g[k].history[j] = IndicatorSet(kind, h[j].ind)
    <3>1. CASE j = k
      BY <2>5, <2>8, <3>1
    <3>2. CASE j # k
      BY <2>1, <2>4, <2>8, <3>2
    <3> QED BY <3>1, <3>2
  <2>10. Alike(k)
    BY <2>5, <2>8, <2>9
  <2> HIDE DEF Alike
  <2> QED BY <2>1, <2>10
<1>5. n \in T
  <2>1. 0..n \subseteq T
    <3> HIDE DEF T
    <3> QED BY <1>1, <1>3, <1>4, IntervalInduction
  <2> QED BY <1>1, <2>1
<1>6. SeededHistory(n) = g[n].history
  BY <1>2 DEF SeededHistory, cs
<1> QED
  BY <1>5, <1>6

\* What the backtest's sets ask for is what a bot's history asks for.
LEMMA DecisionsAreSeeded ==
    ASSUME BacktestInv, pc = "done", NEW i \in DOMAIN results
    PROVE  LET c == results[i].candle
               n == CHOOSE k \in DOMAIN candles : candles[k] = c
               history == SeededHistory(n)
           IN  ~BuyPanics(kind, history, n) =>
                   /\ Buys(kind, sets, i) <=> Buys(kind, history, n)
                   /\ Sells(kind, sets, i) <=> Sells(kind, history, n)
<1> DEFINE c == results[i].candle
           N == Len(candles)
           choice == CHOOSE k \in DOMAIN candles : candles[k] = c
<1>1. /\ kind \in Kinds /\ Periods(candles)
      /\ candles \in Seq({cc \in Candle : Priced(cc)})
      /\ c = validCandles[i] /\ i \in 1..Len(sets) /\ N \in Nat /\ Len(sets) \in Nat
  BY DEF BacktestInv, DecisionInv, ReplayInv, TypeOK, Prepared, Replayed, Periods
<1>2. PICK h \in [0..N -> Gathered] : Gathers(h)
  BY DEF BacktestInv, SetsGathered
<1>3. sets = h[N].sets /\ validCandles = h[N].valid /\ N \in 0..N
  BY <1>1, <1>2 DEF Gathers
<1>4. PICK n \in 1..N : GatheredAt(h, N, i, n)
  BY <1>1, <1>2, <1>3, SetsAreGathered
<1>5. choice = n
  <2>1. n \in DOMAIN candles /\ candles[n] = c
    BY <1>1, <1>3, <1>4 DEF GatheredAt
  <2>2. \A k \in DOMAIN candles : k # n => candles[k] # c
    <3> SUFFICES ASSUME NEW k \in DOMAIN candles, k # n, candles[k] = c PROVE FALSE
      OBVIOUS
    <3>1. k \in Nat /\ n \in Nat /\ candles[k] \in Candle
      BY <1>1
    <3>2. /\ c.start \in Nat /\ c.end = c.start + TickSize /\ TickSize \in Nat \ {0}
      BY <1>1, <3>1, BacktesterAssumption DEF Periods, Candle
    <3>3. c.end <= c.start
      BY <1>1, <2>1, <3>1 DEF Periods
    <3> QED BY <3>2, <3>3
  <2> HIDE DEF c
  <2> QED BY <2>1, <2>2
<1> DEFINE history == SeededHistory(n)
<1> SUFFICES ASSUME ~BuyPanics(kind, history, n)
             PROVE  /\ Buys(kind, sets, i) <=> Buys(kind, history, n)
                    /\ Sells(kind, sets, i) <=> Sells(kind, history, n)
  <2> HIDE DEF choice
  <2> QED BY <1>5 DEF choice
<1>6. /\ Len(history) = n /\ n \in Nat
      /\ \A j \in 1..n : history[j] = IndicatorSet(kind, h[j].ind)
  BY <1>1, <1>2, SeededAlike
<1>7. history[n] = sets[i]
  BY <1>3, <1>4, <1>6 DEF GatheredAt
<1>8. kind = "s1" => (JustExited(sets, i) <=> JustExited(history, n))
  <2> SUFFICES ASSUME kind = "s1" PROVE JustExited(sets, i) <=> JustExited(history, n)
    OBVIOUS
  <2>1. CASE n > 1
    <3>1. n - 1 \in 1..n /\ n - 1 \in 0..N
      BY <1>1, <1>6, <2>1
    <3>2. /\ HasValues(kind, history[n - 1])
          /\ history[n - 1] = IndicatorSet(kind, h[n - 1].ind)
      BY <1>6, <2>1, <3>1 DEF BuyPanics
    <3>3. /\ Len(h[n - 1].sets) > 0
          /\ h[n - 1].sets[Len(h[n - 1].sets)] = history[n - 1]
      BY <1>1, <1>2, <3>1, <3>2, SetsAreGathered DEF Newest
    <3>4. i > 1 /\ sets[i - 1] = history[n - 1]
      BY <1>1, <1>3, <1>4, <3>3 DEF GatheredAt
    <3> HIDE DEF history
    <3> QED BY <2>1, <3>4 DEF JustExited
  <2>2. CASE ~(n > 1)
    <3>1. n - 1 = 0
      BY <1>6, <2>2
    <3>2. i - 1 = 0
      <4>1. Len(h[n - 1].sets) = i - 1
        BY <1>4 DEF GatheredAt
      <4>2. h[0].sets = <<>>
        BY <1>2 DEF Gathers, NothingGathered
      <4>3. Len(h[0].sets) = 0
        BY <4>2
      <4>4. Len(h[n - 1].sets) = Len(h[0].sets)
        BY <3>1, Zenon
      <4> QED BY <4>1, <4>3, <4>4
    <3>3. ~(i > 1)
      BY <1>1, <3>2
    <3> QED BY <2>2, <3>3 DEF JustExited
  <2> QED BY <2>1, <2>2
<1> HIDE DEF history
<1>9. Buys(kind, sets, i) <=> Buys(kind, history, n)
  <2>1. CASE kind = "ema"
    BY <1>7, <2>1 DEF Buys
  <2>2. CASE kind = "rsi"
    BY <1>7, <2>2 DEF Buys
  <2>3. CASE kind = "s1"
    BY <1>7, <1>8, <2>3 DEF Buys, S1Buys
  <2> QED BY <1>1, <2>1, <2>2, <2>3 DEF Kinds
<1>10. Sells(kind, sets, i) <=> Sells(kind, history, n)
  <2>1. CASE kind = "ema"
    BY <1>7, <2>1 DEF Sells
  <2>2. CASE kind = "rsi"
    BY <1>7, <2>2 DEF Sells
  <2>3. CASE kind = "s1"
    BY <1>7, <2>3 DEF Sells
  <2> QED BY <1>1, <2>1, <2>2, <2>3 DEF Kinds
<1> QED
  BY <1>9, <1>10

\* The backtest buys and sells exactly when a bot's TradingStrategy, seeded with
\* the candlesticks up to the decision and none after it, would, for every
\* strategy, market, period and threshold (backtesting.go:169-200,
\* strategy.go:127-148).
THEOREM DecisionsSeeded == Spec => []DecidesAsSeeded
<1>1. BacktestInv => DecidesAsSeeded
  <2> SUFFICES ASSUME BacktestInv, pc = "done", NEW i \in DOMAIN results
               PROVE  LET c == results[i].candle
                          n == CHOOSE k \in DOMAIN candles : candles[k] = c
                          history == SeededHistory(n)
                      IN  c.end > startBucket /\ ~BuyPanics(kind, history, n) =>
                              results[i].order.side =
                                  IF Cash(i - 1)
                                  THEN IF Buys(kind, history, n) THEN "buy" ELSE "none"
                                  ELSE IF Sells(kind, history, n) THEN "sell"
                                  ELSE "none"
    BY Zenon DEF DecidesAsSeeded, Cash
  <2> DEFINE c == results[i].candle
             n == CHOOSE k \in DOMAIN candles : candles[k] = c
             history == SeededHistory(n)
  <2> SUFFICES ASSUME c.end > startBucket, ~BuyPanics(kind, history, n)
               PROVE  results[i].order.side =
                          IF Cash(i - 1)
                          THEN IF Buys(kind, history, n) THEN "buy" ELSE "none"
                          ELSE IF Sells(kind, history, n) THEN "sell" ELSE "none"
    OBVIOUS
  <2>1. /\ Buys(kind, sets, i) <=> Buys(kind, history, n)
        /\ Sells(kind, sets, i) <=> Sells(kind, history, n)
    BY DecisionsAreSeeded, Zenon
  <2>2. c.end \in Int /\ startBucket \in Int
    <3>1. results[i] \in Result
      BY DEF BacktestInv, DecisionInv, ReplayInv, TypeOK
    <3>2. c.end \in Nat
      BY <3>1 DEF Result, Candle
    <3> QED BY <3>2, BacktesterAssumption DEF startBucket, CandlestickBucket
  <2>3. ~(c.end <= startBucket)
    BY <2>2
  <2>4. Decides(results[i], i)
    BY DEF BacktestInv, DecisionInv, Decided
  <2> HIDE DEF history
  <2> QED BY <2>1, <2>3, <2>4, Zenon DEF Decides
<1> QED
  BY <1>1, BacktestIsInvariant, PTL

--------------------------------------------------------------------------------
(* The warm-up. *)

Positive == Nat \ {0}

\* An EMA after n prices: it has a value once there are as many as its period.
EMAAfter(ema, period, n) ==
    IF n < period THEN ema.last = None /\ ema.count = n /\ ema.sum \in Nat
    ELSE ema.last \in Positive \X Positive

\* Products.
LEMMA PositiveProduct ==
    /\ \A x, y \in Positive : x * y \in Positive
    /\ \A x, y \in Nat : x * y \in Nat
BY DEF Positive

\* One price more (ema.go:52-80): positive prices keep the average from being the
\* 0 that stands for none.
LEMMA AddToEMAAfter ==
    ASSUME NEW ema \in EMAState, NEW period \in Positive, NEW n \in Nat,
           NEW price \in Positive, EMAAfter(ema, period, n)
    PROVE  EMAAfter(AddToEMA(ema, period, price), period, n + 1)
<1>1. \A num \in Positive : \A den : Known(num, den) = <<num, den>>
  BY DEF Known, Positive
<1>2. Before(period) = period - 1
  BY DEF Before, Positive
<1>3. CASE n + 1 < period
  <2>1. /\ ema.last = None /\ ema.count = n /\ ema.sum + price \in Nat
        /\ n < period - 1
    BY <1>3 DEF EMAAfter, Positive
  <2>2. AddToEMA(ema, period, price) =
            [ema EXCEPT !.sum = ema.sum + price, !.count = ema.count + 1]
    BY <1>2, <2>1 DEF AddToEMA
  <2> QED BY <1>3, <2>1, <2>2 DEF EMAAfter, EMAState
<1>4. CASE n + 1 = period
  <2>1. /\ ema.last = None /\ ema.sum + price \in Positive
        /\ ~(ema.count < Before(period))
    BY <1>2, <1>4 DEF EMAAfter, Positive
  <2>2. AddToEMA(ema, period, price).last = <<ema.sum + price, period>>
    BY <1>1, <2>1 DEF AddToEMA
  <2> QED BY <1>4, <2>1, <2>2 DEF EMAAfter, Positive
<1>5. CASE n >= period
  <2> DEFINE num == ema.last[1]
             den == ema.last[2]
             num2 == 2 * price * den + (period - 1) * num
             den2 == (period + 1) * den
  <2>1. /\ ema.last \in Positive \X Positive /\ ema.last # None
        /\ num \in Positive /\ den \in Positive
    BY <1>5 DEF EMAAfter, Positive, None
  <2>2. num2 \in Positive /\ den2 \in Positive
    <3> HIDE DEF num, den
    <3>1. /\ price * den \in Positive /\ (period - 1) * num \in Nat
          /\ (period + 1) * den \in Positive
      BY <2>1, PositiveProduct DEF Positive
    <3>2. 2 * price * den = 2 * (price * den)
      BY <2>1 DEF Positive
    <3> QED BY <3>1, <3>2 DEF Positive
  <2>3. AddToEMA(ema, period, price).last = Known(num2, den2)
    BY <2>1 DEF AddToEMA, Moved, EMAState
  <2>4. AddToEMA(ema, period, price).last \in Positive \X Positive
    <3> HIDE DEF num2, den2
    <3> QED BY <1>1, <2>2, <2>3
  <2>5. ~(n + 1 < period)
    BY <1>5 DEF Positive
  <2> QED BY <2>4, <2>5 DEF EMAAfter
<1> QED
  BY <1>3, <1>4, <1>5 DEF Positive

\* The indicators after n candlesticks with volume.
IndicatorsAfter(ind, n) ==
    /\ EMAAfter(ind.short, ShortPeriod, n) /\ EMAAfter(ind.long, LongPeriod, n)
    /\ ind.rsi.iterations = n

\* One candlestick more, counted if it has volume.
LEMMA AddCandlestickAfter ==
    ASSUME ShortPeriod # 0, kind \in Kinds, NEW ind \in IndState, NEW n \in Nat,
           IndicatorsAfter(ind, n), NEW c \in Candle, Priced(c)
    PROVE  IndicatorsAfter(AddCandlestick(kind, ind, c),
                           IF c.volume > 0 THEN n + 1 ELSE n)
<1>1. CASE c.volume = 0
  <2>1. AddCandlestick(kind, ind, c) = ind /\ ~(c.volume > 0)
    BY <1>1 DEF AddCandlestick
  <2> QED BY <2>1
<1>2. CASE c.volume # 0
  <2>1. c.volume > 0 /\ MeanPrice(c) \in Positive
    BY <1>2 DEF Candle, Priced, MeanPrice, Positive
  <2>2. /\ AddCandlestick(kind, ind, c).short
              = AddToEMA(ind.short, ShortPeriod, MeanPrice(c))
        /\ AddCandlestick(kind, ind, c).long
              = AddToEMA(ind.long, LongPeriod, MeanPrice(c))
        /\ AddCandlestick(kind, ind, c).rsi
              = AddToRSI(ind.rsi, RSIPeriodOf(kind), MeanPrice(c))
    BY <1>2 DEF AddCandlestick
  <2>3. /\ ShortPeriod \in Positive /\ LongPeriod \in Positive
        /\ ind.short \in EMAState /\ ind.long \in EMAState
    BY PeriodsTyped DEF IndState, Positive
  <2>4. /\ EMAAfter(AddToEMA(ind.short, ShortPeriod, MeanPrice(c)), ShortPeriod, n + 1)
        /\ EMAAfter(AddToEMA(ind.long, LongPeriod, MeanPrice(c)), LongPeriod, n + 1)
    BY <2>1, <2>3, AddToEMAAfter DEF IndicatorsAfter
  <2>5. AddToRSI(ind.rsi, RSIPeriodOf(kind), MeanPrice(c)).iterations = n + 1
    BY DEF AddToRSI, IndicatorsAfter
  <2> QED BY <2>1, <2>2, <2>4, <2>5 DEF IndicatorsAfter
<1> QED
  BY <1>1, <1>2

\* There is a warm-up.
LEMMA WarmupIsPositive ==
    ASSUME kind \in Kinds
    PROVE  Warmup \in Positive
BY PeriodsTyped DEF Warmup, Kinds, Positive

\* All values are there from the end of the warm-up on.
LEMMA ValuesAfterWarmup ==
    ASSUME ShortPeriod # 0, kind \in Kinds, NEW ind \in IndState, NEW n \in Nat,
           IndicatorsAfter(ind, n)
    PROVE  HasValues(kind, IndicatorSet(kind, ind)) <=> Warmup <= n
<1> DEFINE set == IndicatorSet(kind, ind)
           periods == RSIPeriodOf(kind)
<1>1. /\ ShortPeriod \in Nat /\ LongPeriod \in Nat /\ ShortPeriod < LongPeriod
      /\ periods \in Nat \ {0}
  BY PeriodsTyped
<1>2. set.short # None <=> ShortPeriod <= n
  <2>1. set.short = ind.short.last
    BY DEF IndicatorSet
  <2> QED BY <1>1, <2>1, SMTT(30) DEF IndicatorsAfter, EMAAfter, Positive, None
<1>3. set.long # None <=> LongPeriod <= n
  <2>1. set.long = ind.long.last
    BY DEF IndicatorSet
  <2>2. EMAAfter(ind.long, LongPeriod, n)
    BY DEF IndicatorsAfter
  <2> HIDE DEF set
  <2>3. CASE n < LongPeriod
    BY <1>1, <2>1, <2>2, <2>3 DEF EMAAfter
  <2>4. CASE ~(n < LongPeriod)
    <3>1. set.long \in Positive \X Positive
      BY <2>1, <2>2, <2>4 DEF EMAAfter
    <3>2. \A x \in Positive \X Positive : x # None
      BY DEF Positive, None
    <3> QED BY <1>1, <2>4, <3>1, <3>2
  <2> QED BY <2>3, <2>4
<1>4. set.dema # None <=> LongPeriod <= n
  <2>1. set.dema # None <=> ind.short.last # None /\ ind.long.last # None
    BY DEF IndicatorSet, DEMA, None
  <2>2. ind.short.last = set.short /\ ind.long.last = set.long
    BY DEF IndicatorSet
  <2> HIDE DEF set
  <2> QED BY <1>1, <1>2, <1>3, <2>1, <2>2
<1>5. set.rsi # None <=> periods + 1 <= n
  <2>1. ind.rsi.iterations = n
    BY DEF IndicatorsAfter
  <2>2. set.rsi = RSI(ind.rsi, periods)
    BY DEF IndicatorSet
  <2> HIDE DEF set, periods
  <2>3. CASE n <= periods
    BY <1>1, <2>1, <2>2, <2>3 DEF RSI
  <2>4. CASE ~(n <= periods)
    BY <1>1, <2>1, <2>2, <2>4 DEF RSI, None
  <2> QED BY <2>3, <2>4
<1> HIDE DEF set, periods
<1>6. CASE kind = "ema"
  <2>1. HasValues(kind, set) <=> set.dema # None /\ set.short # None /\ set.long # None
    BY <1>6 DEF HasValues, IndicatorsOf, EMAIndicators
  <2>2. Warmup = LongPeriod
    BY <1>6 DEF Warmup
  <2> QED BY <1>1, <1>2, <1>3, <1>4, <2>1, <2>2 DEF set
<1>7. CASE kind = "rsi"
  <2>1. HasValues(kind, set) <=> set.rsi # None
    BY <1>7 DEF HasValues, IndicatorsOf, RSIIndicators
  <2>2. Warmup = periods + 1
    BY <1>7 DEF Warmup, periods
  <2> QED BY <1>5, <2>1, <2>2 DEF set
<1>8. CASE kind = "s1"
  <2>1. HasValues(kind, set) <=> /\ set.dema # None /\ set.short # None
                                 /\ set.long # None /\ set.rsi # None
    BY <1>8 DEF HasValues, IndicatorsOf, S1Indicators, EMAIndicators, RSIIndicators
  <2>2. Warmup = IF LongPeriod > periods THEN LongPeriod ELSE periods + 1
    BY <1>8 DEF Warmup, periods
  <2> QED BY <1>1, <1>2, <1>3, <1>4, <1>5, <2>1, <2>2 DEF set
<1> QED
  BY <1>6, <1>7, <1>8 DEF Kinds

\* A suffix grows as its sequence does.
LEMMA SuffixGrows ==
    ASSUME NEW S, NEW s \in Seq(S), NEW e \in S, NEW w \in Positive
    PROVE  LET t == Append(s, e)
           IN  SubSeq(t, w, Len(t)) =
                   IF w <= Len(t) THEN Append(SubSeq(s, w, Len(s)), e)
                   ELSE SubSeq(s, w, Len(s))
<1> DEFINE t == Append(s, e)
           n == Len(s)
<1>1. n \in Nat /\ t \in Seq(S) /\ Len(t) = n + 1
  OBVIOUS
<1>2. \A i \in 1..(n + 1) : t[i] = IF i <= n THEN s[i] ELSE e
  OBVIOUS
<1>3. \A u : \A m \in Int : SubSeq(u, w, m) = [i \in 1..(1 + m - w) |-> u[i + w - 1]]
  BY DEF Positive
<1> HIDE DEF t
<1>4. CASE w <= n + 1
  <2> DEFINE a == SubSeq(s, w, n)
  <2>1. a = [i \in 1..(1 + n - w) |-> s[i + w - 1]]
    BY <1>3
  <2>2. 1 + n - w \in Nat /\ \A i \in 1..(1 + n - w) : i + w - 1 \in 1..n
    BY <1>1, <1>4 DEF Positive
  <2>3. a \in Seq(S) /\ Len(a) = 1 + n - w
    BY <1>1, <2>1, <2>2
  <2> HIDE DEF a
  <2>4. /\ Append(a, e) \in Seq(S) /\ Len(Append(a, e)) = 2 + n - w
        /\ \A i \in 1..(2 + n - w) :
              Append(a, e)[i] = IF i <= 1 + n - w THEN a[i] ELSE e
    BY <1>1, <2>2, <2>3 DEF Positive
  <2>5. Append(a, e) = [i \in 1..(2 + n - w) |-> Append(a, e)[i]]
    <3>1. \A q \in Seq(S) : q = [i \in 1..Len(q) |-> q[i]]
      OBVIOUS
    <3>2. Append(a, e) = [i \in 1..Len(Append(a, e)) |-> Append(a, e)[i]]
      BY <2>4, <3>1
    <3> QED BY <2>4, <3>2
  <2>6. SubSeq(t, w, n + 1) = [i \in 1..(1 + (n + 1) - w) |-> t[i + w - 1]]
    BY <1>3
  <2>7. \A i \in 1..(2 + n - w) : t[i + w - 1] = Append(a, e)[i]
    <3> SUFFICES ASSUME NEW i \in 1..(2 + n - w) PROVE t[i + w - 1] = Append(a, e)[i]
      OBVIOUS
    <3>1. i + w - 1 \in 1..(n + 1) /\ (i + w - 1 <= n <=> i <= 1 + n - w)
      BY <1>1, <2>2 DEF Positive
    <3>2. i <= 1 + n - w => i \in 1..(1 + n - w)
      BY <1>1 DEF Positive
    <3> QED BY <1>2, <2>1, <2>4, <3>1, <3>2
  <2>8. 1 + (n + 1) - w = 2 + n - w
    BY <1>1 DEF Positive
  <2>9. SubSeq(t, w, n + 1) = Append(a, e)
    BY <2>5, <2>6, <2>7, <2>8
  <2> QED BY <1>1, <1>4, <2>9 DEF a, t
<1>5. CASE ~(w <= n + 1)
  <2>1. n + 1 < w /\ n < w /\ n \in Int /\ n + 1 \in Int /\ w \in Int
    BY <1>1, <1>5 DEF Positive
  <2>2. SubSeq(t, w, n + 1) = <<>> /\ SubSeq(s, w, n) = <<>>
    BY <2>1, SubSeqEmpty
  <2> QED BY <1>1, <1>5, <2>2 DEF t
<1> QED
  BY <1>4, <1>5

\* What is gathered begins after the warm-up.
LEMMA SetsAfterWarmup ==
    ASSUME ShortPeriod # 0, kind \in Kinds, candles \in Seq({c \in Candle : Priced(c)}),
           NEW h \in [0..Len(candles) -> Gathered], Gathers(h)
    PROVE  validCandles = SubSeq(WithVolume(candles), Warmup, Len(WithVolume(candles)))
<1> DEFINE C == {c \in Candle : Priced(c)}
           W == {c \in C : c.volume > 0}
           N == Len(candles)
<1>1. PICK v \in [0..N -> Seq(W)] :
        /\ v[0] = <<>>
        /\ \A k \in 1..N : v[k] = KeepWithVolume(v[k - 1], candles[k])
        /\ WithVolume(candles) = v[N]
  <2>1. C \in SUBSET Candle
    OBVIOUS
  <2> HIDE DEF C
  <2> QED BY <2>1, WithVolumeTrace DEF C
<1> DEFINE Suffix(k) == /\ IndicatorsAfter(h[k].ind, Len(v[k]))
                        /\ h[k].valid = SubSeq(v[k], Warmup, Len(v[k]))
           T == {k \in 0..N : Suffix(k)}
<1>2. N \in Nat /\ Warmup \in Positive
  BY WarmupIsPositive
<1>3. 0 \in T
  <2>1. h[0] = NothingGathered /\ Len(v[0]) = 0
    BY <1>1 DEF Gathers
  <2>2. IndicatorsAfter(h[0].ind, 0)
    <3>1. 0 < ShortPeriod /\ 0 < LongPeriod
      BY PeriodsTyped
    <3> QED BY <2>1, <3>1 DEF NothingGathered, NewIndicators, NewEMA, NewRSI,
                              IndicatorsAfter, EMAAfter
  <2>3. SubSeq(v[0], Warmup, 0) = <<>>
    BY <1>2, SubSeqEmpty DEF Positive
  <2>4. Suffix(0)
    <3>1. h[0].ind = NewIndicators /\ h[0].valid = <<>>
      BY <2>1 DEF NothingGathered
    <3> QED BY <2>1, <2>2, <2>3, <3>1, Zenon
  <2> HIDE DEF Suffix
  <2> QED BY <1>2, <2>4
<1>4. ASSUME NEW k \in 1..N, k - 1 \in T PROVE k \in T
  <2> DEFINE a == h[k - 1]
             b == h[k]
             c == candles[k]
             s == v[k - 1]
             t == v[k]
  <2>1. /\ a \in Gathered /\ b = AddSet(a, c) /\ c \in C
        /\ s \in Seq(W) /\ t = KeepWithVolume(s, c) /\ Len(s) \in Nat
    BY <1>1, <1>2 DEF Gathers
  <2>2. IndicatorsAfter(a.ind, Len(s)) /\ a.valid = SubSeq(s, Warmup, Len(s))
    BY <1>4
  <2> HIDE DEF a, b, s, t, c
  <2>3. /\ b \in Gathered /\ b.ind = AddCandlestick(kind, a.ind, c)
        /\ IF c.volume # 0 /\ HasValues(kind, IndicatorSet(kind, b.ind))
           THEN b.sets = Append(a.sets, IndicatorSet(kind, b.ind))
                /\ b.valid = Append(a.valid, c)
           ELSE b.sets = a.sets /\ b.valid = a.valid
    BY <2>1, AddSetEffect
  <2>4. a.ind \in IndState /\ b.ind \in IndState /\ c.volume \in Nat
    BY <2>1, <2>3 DEF Gathered, Candle
  <2>5. IndicatorsAfter(b.ind, IF c.volume > 0 THEN Len(s) + 1 ELSE Len(s))
    BY <2>1, <2>2, <2>3, <2>4, AddCandlestickAfter
  <2>6. CASE c.volume = 0
    <3>1. t = s
      BY <2>1, <2>6 DEF KeepWithVolume
    <3>2. Suffix(k)
      BY <2>2, <2>3, <2>5, <2>6, <3>1 DEF a, b, s, t
    <3> HIDE DEF Suffix
    <3> QED BY <3>2
  <2>7. CASE c.volume # 0
    <3>1. c.volume > 0 /\ c \in W
      BY <2>1, <2>4, <2>7
    <3>2. t = Append(s, c) /\ Len(t) = Len(s) + 1
      <4> HIDE DEF W
      <4> QED BY <2>1, <3>1 DEF KeepWithVolume
    <3>3. HasValues(kind, IndicatorSet(kind, b.ind)) <=> Warmup <= Len(t)
      BY <2>1, <2>4, <2>5, <3>1, <3>2, ValuesAfterWarmup
    <3>4. SubSeq(t, Warmup, Len(t)) =
              IF Warmup <= Len(t) THEN Append(SubSeq(s, Warmup, Len(s)), c)
              ELSE SubSeq(s, Warmup, Len(s))
      <4> HIDE DEF W
      <4> QED BY <1>2, <2>1, <3>1, <3>2, SuffixGrows
    <3>5. b.valid = SubSeq(t, Warmup, Len(t))
      BY <2>2, <2>3, <2>7, <3>3, <3>4
    <3>6. Suffix(k)
      BY <2>5, <3>1, <3>2, <3>5 DEF b, t
    <3> HIDE DEF Suffix
    <3> QED BY <3>6
  <2> QED BY <2>6, <2>7
<1>5. N \in T
  <2>1. 0..N \subseteq T
    <3> HIDE DEF T, N
    <3> QED BY <1>2, <1>3, <1>4, IntervalInduction
  <2> QED BY <1>2, <2>1
<1>6. validCandles = h[N].valid
  BY DEF Gathers
<1> QED
  BY <1>1, <1>5, <1>6

\* The sets begin with the candlestick that completes the slowest indicator, and
\* there is one for every candlestick with volume from then on, whatever the
\* periods but a short one of 0, of which the code takes 1 off in an unsigned
\* integer (ema.go:63-74, rsi.go:51-86 and 130).
THEOREM SetsBegin ==
    ASSUME ShortPeriod # 0
    PROVE  Spec => []SetsBeginAfterWarmup
<1>1. BacktestInv => SetsBeginAfterWarmup
  <2> SUFFICES ASSUME BacktestInv, pc = "replay"
               PROVE  validCandles =
                        SubSeq(WithVolume(candles), Warmup, Len(WithVolume(candles)))
    BY Zenon DEF SetsBeginAfterWarmup, Generated
  <2>1. kind \in Kinds /\ candles \in Seq({c \in Candle : Priced(c)})
    BY DEF BacktestInv, DecisionInv, ReplayInv, TypeOK, Prepared, Periods
  <2>2. PICK h \in [0..Len(candles) -> Gathered] : Gathers(h)
    BY DEF BacktestInv, SetsGathered
  <2> QED BY <2>1, <2>2, SetsAfterWarmup
<1> QED
  BY <1>1, BacktestIsInvariant, PTL

--------------------------------------------------------------------------------
(* Sums, products and powers. *)

\* A sum, term by term.
LEMMA TotalTrace ==
    ASSUME NEW xs \in Seq(Int)
    PROVE  /\ Total(xs) \in Int
           /\ \E h \in [0..Len(xs) -> Int] :
                 /\ h[0] = 0
                 /\ \A k \in 1..Len(xs) :
                       h[k] = h[k - 1] + xs[k]
                 /\ Total(xs) = h[Len(xs)]
<1> DEFINE n == Len(xs)
           A == Int
           base == 0
           F == [i \in 1..n |-> [a \in A |-> a + xs[i]]]
           IsIter(g) == g = [s \in SUBSET (1..n) |->
              IF s = {} THEN base
              ELSE g[s \ {Max(s)}] + xs[Max(s)]]
           iter == CHOOSE g : IsIter(g)
<1>1. n \in Nat /\ base \in A /\ \A a \in A, i \in 1..n : a + xs[i] \in A
  OBVIOUS
<1>2. F \in [1..n -> [A -> A]]
  BY <1>1
<1>3. PICK g : FoldsTo(g, A, base, n, F)
  <2> HIDE DEF A, base, F, n
  <2> QED BY <1>1, <1>2, FoldIsDefined
<1>4. \A s \in SUBSET (1..n), b \in A : s # {} =>
          F[Max(s)][b] = b + xs[Max(s)]
  <2> HIDE DEF A, base, n
  <2> QED BY <1>1, LargestOf
<1>5. IsIter(iter)
  <2>1. IsIter(g)
    <3> HIDE DEF A, base, n, F
    <3> QED BY <1>3, <1>4 DEF FoldsTo
  <2> HIDE DEF IsIter
  <2> QED BY <2>1
<1>6. Total(xs) = iter[1..n]
  <2>1. DOMAIN xs = 1..n
    OBVIOUS
  <2> QED BY <2>1, Zenon DEF Total, FoldLeft, MapThenFoldSet
<1> HIDE DEF iter
<1>7. Iterates(iter, A, base, n, F)
  <2> HIDE DEF A, base, F, n
  <2> QED BY <1>4, <1>5 DEF Iterates
<1>8. PICK h : Traces(h, A, base, n, F) /\ h[n] = iter[1..n]
  <2> HIDE DEF A, base, F, n
  <2> QED BY <1>1, <1>2, <1>7, FoldHasTrace
<1>9. h \in [0..n -> A] /\ h[0] = base /\ Total(xs) = h[n]
  <2> HIDE DEF A, base, F, n
  <2> QED BY <1>6, <1>8 DEF Traces
<1>10. ASSUME NEW k \in 1..n PROVE h[k] = h[k - 1] + xs[k]
  <2>1. h[k] = F[k][h[k - 1]] /\ h[k - 1] \in A
    <3> HIDE DEF A, base, F
    <3> QED BY <1>1, <1>8, <1>9 DEF Traces
  <2> HIDE DEF A
  <2> QED BY <2>1
<1>11. Total(xs) \in A
  <2>1. n \in 0..n
    BY <1>1
  <2> HIDE DEF A, n
  <2> QED BY <1>9, <2>1
<1> QED
  BY <1>9, <1>10, <1>11

\* A product, factor by factor.
LEMMA ProductTrace ==
    ASSUME NEW xs \in Seq(Int)
    PROVE  /\ Product(xs) \in Int
           /\ \E h \in [0..Len(xs) -> Int] :
                 /\ h[0] = 1
                 /\ \A k \in 1..Len(xs) :
                       h[k] = h[k - 1] * xs[k]
                 /\ Product(xs) = h[Len(xs)]
<1> DEFINE n == Len(xs)
           A == Int
           base == 1
           F == [i \in 1..n |-> [a \in A |-> a * xs[i]]]
           IsIter(g) == g = [s \in SUBSET (1..n) |->
              IF s = {} THEN base
              ELSE g[s \ {Max(s)}] * xs[Max(s)]]
           iter == CHOOSE g : IsIter(g)
<1>1. n \in Nat /\ base \in A /\ \A a \in A, i \in 1..n : a * xs[i] \in A
  OBVIOUS
<1>2. F \in [1..n -> [A -> A]]
  BY <1>1
<1>3. PICK g : FoldsTo(g, A, base, n, F)
  <2> HIDE DEF A, base, F, n
  <2> QED BY <1>1, <1>2, FoldIsDefined
<1>4. \A s \in SUBSET (1..n), b \in A : s # {} =>
          F[Max(s)][b] = b * xs[Max(s)]
  <2> HIDE DEF A, base, n
  <2> QED BY <1>1, LargestOf
<1>5. IsIter(iter)
  <2>1. IsIter(g)
    <3> HIDE DEF A, base, n, F
    <3> QED BY <1>3, <1>4 DEF FoldsTo
  <2> HIDE DEF IsIter
  <2> QED BY <2>1
<1>6. Product(xs) = iter[1..n]
  <2>1. DOMAIN xs = 1..n
    OBVIOUS
  <2> QED BY <2>1, Zenon DEF Product, FoldLeft, MapThenFoldSet
<1> HIDE DEF iter
<1>7. Iterates(iter, A, base, n, F)
  <2> HIDE DEF A, base, F, n
  <2> QED BY <1>4, <1>5 DEF Iterates
<1>8. PICK h : Traces(h, A, base, n, F) /\ h[n] = iter[1..n]
  <2> HIDE DEF A, base, F, n
  <2> QED BY <1>1, <1>2, <1>7, FoldHasTrace
<1>9. h \in [0..n -> A] /\ h[0] = base /\ Product(xs) = h[n]
  <2> HIDE DEF A, base, F, n
  <2> QED BY <1>6, <1>8 DEF Traces
<1>10. ASSUME NEW k \in 1..n PROVE h[k] = h[k - 1] * xs[k]
  <2>1. h[k] = F[k][h[k - 1]] /\ h[k - 1] \in A
    <3> HIDE DEF A, base, F
    <3> QED BY <1>1, <1>8, <1>9 DEF Traces
  <2> HIDE DEF A
  <2> QED BY <2>1
<1>11. Product(xs) \in A
  <2>1. n \in 0..n
    BY <1>1
  <2> HIDE DEF A, n
  <2> QED BY <1>9, <2>1
<1> QED
  BY <1>9, <1>10, <1>11

\* g and h begin alike and go on alike.
GoAlike(g, h, n) ==
    g[0] = h[0] /\ \A k \in 1..n : g[k - 1] = h[k - 1] => g[k] = h[k]

\* So they are alike.
LEMMA TracesAgree ==
    ASSUME NEW n \in Nat, NEW g, NEW h, GoAlike(g, h, n)
    PROVE  \A k \in 0..n : g[k] = h[k]
<1> USE DEF GoAlike
<1> DEFINE T == {k \in 0..n : g[k] = h[k]}
<1>1. 0 \in T
  OBVIOUS
<1>2. ASSUME NEW k \in 1..n, k - 1 \in T PROVE k \in T
  BY <1>2
<1>3. 0..n \subseteq T
  <2> HIDE DEF T
  <2> QED BY <1>1, <1>2, IntervalInduction
<1> QED
  BY <1>3

\* A sum with a term more.
LEMMA TotalAppend ==
    ASSUME NEW s \in Seq(Int), NEW x \in Int
    PROVE  Total(s) \in Int /\ Total(Append(s, x)) = Total(s) + x
<1> DEFINE n == Len(s)
           t == Append(s, x)
<1>1. /\ n \in Nat /\ t \in Seq(Int) /\ Len(t) = n + 1 /\ t[n + 1] = x
      /\ \A k \in 1..n : t[k] = s[k]
  OBVIOUS
<1> HIDE DEF t
<1>2. PICK g \in [0..n -> Int] :
        /\ g[0] = 0 /\ \A k \in 1..n : g[k] = g[k - 1] + s[k]
        /\ Total(s) = g[n]
  BY TotalTrace
<1>3. PICK h \in [0..(n + 1) -> Int] :
        /\ h[0] = 0 /\ \A k \in 1..(n + 1) : h[k] = h[k - 1] + t[k]
        /\ Total(t) = h[n + 1]
  BY <1>1, TotalTrace
<1>4. \A k \in 0..n : g[k] = h[k]
  <2>1. \A k \in 1..n : g[k - 1] = h[k - 1] => g[k] = h[k]
    BY <1>1, <1>2, <1>3
  <2>2. g[0] = h[0] /\ n \in Nat
    BY <1>1, <1>2, <1>3
  <2>3. GoAlike(g, h, n)
    BY <2>1, <2>2 DEF GoAlike
  <2> HIDE DEF n
  <2> QED BY <2>2, <2>3, TracesAgree
<1>5. h[n + 1] = h[n] + x
  <2>1. n + 1 \in 1..(n + 1) /\ (n + 1) - 1 = n
    BY <1>1
  <2> HIDE DEF n
  <2> QED BY <1>1, <1>3, <2>1
<1> QED
  BY <1>1, <1>2, <1>3, <1>4, <1>5 DEF t

\* A sum of no terms.
LEMMA TotalOfNothing == Total(<<>>) = 0
<1>1. <<>> \in Seq(Int) /\ Len(<<>>) = 0
  OBVIOUS
<1> QED
  BY <1>1, TotalTrace

\* A sum of multiples.
LEMMA TotalOfMultiples ==
    ASSUME NEW n \in Nat, NEW s \in Seq(Int), NEW t \in Seq(Int), NEW c \in Int,
           Len(s) = n, Len(t) = n, \A k \in 1..n : t[k] = c * s[k]
    PROVE  Total(t) = c * Total(s)
<1>1. PICK g \in [0..n -> Int] :
        /\ g[0] = 0 /\ \A k \in 1..n : g[k] = g[k - 1] + s[k]
        /\ Total(s) = g[n]
  BY TotalTrace
<1>2. PICK h \in [0..n -> Int] :
        /\ h[0] = 0 /\ \A k \in 1..n : h[k] = h[k - 1] + t[k]
        /\ Total(t) = h[n]
  BY TotalTrace
<1> DEFINE f == [k \in 0..n |-> c * g[k]]
<1>3. f[0] = h[0]
  BY <1>1, <1>2
<1>4. ASSUME NEW k \in 1..n, f[k - 1] = h[k - 1] PROVE f[k] = h[k]
  <2> DEFINE a == g[k - 1]
             b == s[k]
  <2>1. a \in Int /\ b \in Int /\ k - 1 \in 0..n /\ k \in 0..n
    BY <1>1
  <2>2. f[k] = c * (a + b) /\ f[k - 1] = c * a
    BY <1>1, <2>1
  <2>3. h[k] = c * a + c * b
    BY <1>2, <1>4, <2>2
  <2>4. c * (a + b) = c * a + c * b
    <3> HIDE DEF a, b
    <3> QED BY <2>1
  <2> QED BY <2>2, <2>3, <2>4
<1>5. \A k \in 0..n : f[k] = h[k]
  <2> HIDE DEF f
  <2>1. \A k \in 1..n : f[k - 1] = h[k - 1] => f[k] = h[k]
    BY <1>4
  <2>2. GoAlike(f, h, n)
    BY <1>3, <2>1 DEF GoAlike
  <2> QED BY <2>2, TracesAgree
<1> QED
  BY <1>1, <1>2, <1>5

\* Powers.
LEMMA PowerNext ==
    ASSUME NEW b \in Int, NEW e \in Nat
    PROVE  /\ Power(b, e) \in Int /\ Power(b, e + 1) = b * Power(b, e)
           /\ Power(b, 0) = 1
<1> DEFINE s(k) == [i \in 1..k |-> b]
<1>1. \A k \in Nat : s(k) \in Seq(Int) /\ Len(s(k)) = k
  OBVIOUS
<1>2. PICK g \in [0..e -> Int] :
        /\ g[0] = 1 /\ \A k \in 1..e : g[k] = g[k - 1] * b
        /\ Power(b, e) = g[e]
  <2>1. \A k \in 1..e : s(e)[k] = b
    OBVIOUS
  <2> HIDE DEF s
  <2>2. /\ Product(s(e)) \in Int
        /\ \E h \in [0..Len(s(e)) -> Int] :
                 /\ h[0] = 1
                 /\ \A k \in 1..Len(s(e)) : h[k] = h[k - 1] * s(e)[k]
                 /\ Product(s(e)) = h[Len(s(e))]
    BY <1>1, ProductTrace
  <2>3. Power(b, e) = Product(s(e))
    BY DEF Power, s
  <2> QED BY <1>1, <2>1, <2>2, <2>3
<1>3. PICK h \in [0..(e + 1) -> Int] :
        /\ h[0] = 1 /\ \A k \in 1..(e + 1) : h[k] = h[k - 1] * b
        /\ Power(b, e + 1) = h[e + 1]
  <2>1. \A k \in 1..(e + 1) : s(e + 1)[k] = b
    OBVIOUS
  <2>0. e + 1 \in Nat
    OBVIOUS
  <2> HIDE DEF s
  <2>2. /\ Product(s(e + 1)) \in Int
        /\ \E h \in [0..Len(s(e + 1)) -> Int] :
                 /\ h[0] = 1
                 /\ \A k \in 1..Len(s(e + 1)) : h[k] = h[k - 1] * s(e + 1)[k]
                 /\ Product(s(e + 1)) = h[Len(s(e + 1))]
    BY <1>1, <2>0, ProductTrace
  <2>3. Power(b, e + 1) = Product(s(e + 1))
    BY DEF Power, s
  <2>4. Len(s(e + 1)) = e + 1
    BY <1>1, <2>0
  <2> QED BY <2>1, <2>2, <2>3, <2>4
<1>4. \A k \in 0..e : g[k] = h[k]
  <2>1. \A k \in 1..e : g[k - 1] = h[k - 1] => g[k] = h[k]
    BY <1>2, <1>3
  <2>2. g[0] = h[0]
    BY <1>2, <1>3
  <2>3. GoAlike(g, h, e)
    BY <2>1, <2>2 DEF GoAlike
  <2> QED BY <2>3, TracesAgree
<1>5. h[e + 1] = h[e] * b /\ g[e] = h[e] /\ g[e] \in Int
  BY <1>2, <1>3, <1>4
<1>6. Power(b, 0) = 1
  <2>1. 0 \in Nat
    OBVIOUS
  <2> HIDE DEF s
  <2>2. Product(s(0)) = 1
    BY <1>1, <2>1, ProductTrace
  <2> QED BY <2>2 DEF Power, s
<1> QED
  BY <1>2, <1>3, <1>5, <1>6

\* A sequence with an element more.
LEMMA IsAppend ==
    ASSUME NEW S, NEW xs \in Seq(S), NEW e \in S, NEW ys \in Seq(S),
           Len(ys) = Len(xs) + 1, ys[Len(xs) + 1] = e,
           \A k \in 1..Len(xs) : ys[k] = xs[k]
    PROVE  ys = Append(xs, e)
<1>1. \A q \in Seq(S) : q = [i \in 1..Len(q) |-> q[i]]
  OBVIOUS
<1>2. /\ Append(xs, e) \in Seq(S) /\ Len(Append(xs, e)) = Len(xs) + 1
      /\ Len(xs) \in Nat
      /\ \A k \in 1..(Len(xs) + 1) :
            Append(xs, e)[k] = IF k <= Len(xs) THEN xs[k] ELSE e
  OBVIOUS
<1>3. \A k \in 1..(Len(xs) + 1) : ys[k] = Append(xs, e)[k]
  BY <1>2
<1>4. /\ ys = [i \in 1..Len(ys) |-> ys[i]]
      /\ Append(xs, e) = [i \in 1..Len(Append(xs, e)) |-> Append(xs, e)[i]]
  BY <1>1, <1>2
<1> QED
  BY <1>2, <1>3, <1>4

--------------------------------------------------------------------------------
(* The EMAs. *)

\* The weights, and how another price changes them.
LEMMA EMAWeightNext ==
    ASSUME NEW p \in Positive, NEW n \in Nat, p <= n, NEW k \in 1..n
    PROVE  /\ EMAWeight(p, n, k) \in Int
           /\ EMAWeight(p, n + 1, k) = (p - 1) * EMAWeight(p, n, k)
<1> DEFINE q == p - 1
<1>1. p \in Nat /\ q \in Int /\ p + 1 \in Int
  BY DEF Positive
<1>2. CASE k <= p
  <2>1. n - p \in Nat /\ (n + 1) - p = (n - p) + 1
    BY <1>1
  <2>2. Power(q, n - p) \in Int /\ Power(q, (n - p) + 1) = q * Power(q, n - p)
    <3> HIDE DEF q
    <3> QED BY <1>1, <2>1, PowerNext
  <2> QED BY <1>2, <2>1, <2>2 DEF EMAWeight
<1>3. CASE ~(k <= p)
  <2> DEFINE a == Power(q, n - k)
             b == Power(p + 1, k - p - 1)
  <2>1. n - k \in Nat /\ (n + 1) - k = (n - k) + 1 /\ k - p - 1 \in Nat
    BY <1>1, <1>3
  <2>2. a \in Int /\ Power(q, (n - k) + 1) = q * a /\ b \in Int
    <3> HIDE DEF q
    <3> QED BY <1>1, <2>1, PowerNext
  <2>3. /\ EMAWeight(p, n, k) = 2 * p * a * b
        /\ EMAWeight(p, n + 1, k) = 2 * p * (q * a) * b
    BY <1>3, <2>1, <2>2 DEF EMAWeight
  <2> HIDE DEF a, b, q
  <2>4. 2 * p * (q * a) * b = q * (2 * p * a * b)
    BY <1>1, <2>2
  <2>5. 2 * p * a * b \in Int
    BY <1>1, <2>2
  <2> QED BY <2>3, <2>4, <2>5 DEF q
<1> QED
  BY <1>2, <1>3

\* The EMA of as many prices as its period is their mean.
LEMMA WeightedEMAFirst ==
    ASSUME NEW p \in Positive, NEW prices \in Seq(Positive), Len(prices) = p
    PROVE  WeightedEMA(p, prices) = <<Total(prices), p>>
<1>1. p \in Nat /\ p - 1 \in Int /\ p + 1 \in Int /\ p - p = 0 /\ 0 \in Nat
  BY DEF Positive
<1>2. Power(p - 1, 0) = 1 /\ Power(p + 1, 0) = 1
  BY <1>1, PowerNext
<1>3. \A k \in 1..p : EMAWeight(p, p, k) * prices[k] = prices[k]
  <2> SUFFICES ASSUME NEW k \in 1..p
               PROVE  EMAWeight(p, p, k) * prices[k] = prices[k]
    OBVIOUS
  <2>1. EMAWeight(p, p, k) = 1
    BY <1>1, <1>2 DEF EMAWeight
  <2>2. prices[k] \in Int
    BY <1>1 DEF Positive
  <2> QED BY <2>1, <2>2
<1>4. [k \in 1..p |-> EMAWeight(p, p, k) * prices[k]] = prices
  <2>1. prices = [k \in 1..p |-> prices[k]]
    OBVIOUS
  <2> QED BY <1>3, <2>1
<1> QED
  BY <1>1, <1>2, <1>4 DEF WeightedEMA

\* Another price moves it.
LEMMA WeightedEMANext ==
    ASSUME NEW p \in Positive, NEW prices \in Seq(Positive), p <= Len(prices),
           NEW x \in Positive
    PROVE  LET num == WeightedEMA(p, prices)[1]
               den == WeightedEMA(p, prices)[2]
           IN  /\ num \in Int /\ den \in Int
               /\ WeightedEMA(p, Append(prices, x)) =
                      <<2 * x * den + (p - 1) * num, (p + 1) * den>>
<1> DEFINE n == Len(prices)
           q == p - 1
           t == Append(prices, x)
           ws == [k \in 1..n |-> EMAWeight(p, n, k) * prices[k]]
           vs == [k \in 1..n |-> q * ws[k]]
           us == [k \in 1..(n + 1) |-> EMAWeight(p, n + 1, k) * t[k]]
           den == p * Power(p + 1, n - p)
           e == 2 * x * den
<1>1. /\ p \in Nat /\ q \in Int /\ p + 1 \in Int /\ n \in Nat /\ x \in Int
      /\ p <= n /\ n - p \in Nat /\ (n + 1) - p = (n - p) + 1
      /\ Len(t) = n + 1 /\ t[n + 1] = x
      /\ \A k \in 1..n : t[k] = prices[k] /\ prices[k] \in Int
  BY DEF Positive
<1> HIDE DEF n, q, t
<1>2. /\ Power(p + 1, n - p) \in Int
      /\ Power(p + 1, (n - p) + 1) = (p + 1) * Power(p + 1, n - p)
      /\ Power(q, 0) = 1
  BY <1>1, PowerNext
<1>3. den \in Int /\ e \in Int
  BY <1>1, <1>2
<1>4. ws \in Seq(Int) /\ Len(ws) = n
  <2>1. ASSUME NEW k \in 1..n PROVE EMAWeight(p, n, k) * prices[k] \in Int
    <3>1. EMAWeight(p, n, k) \in Int /\ prices[k] \in Int
      BY <1>1, EMAWeightNext
    <3> QED BY <3>1
  <2> QED BY <1>1, <2>1
<1>5. vs \in Seq(Int) /\ Len(vs) = n /\ \A k \in 1..n : vs[k] = q * ws[k]
  <2>1. \A k \in 1..n : q * ws[k] \in Int
    <3> HIDE DEF ws
    <3> QED BY <1>1, <1>4
  <2> HIDE DEF ws
  <2> QED BY <1>1, <2>1
<1>6. \A k \in 1..n : EMAWeight(p, n + 1, k) * t[k] = vs[k]
  <2> SUFFICES ASSUME NEW k \in 1..n
               PROVE  EMAWeight(p, n + 1, k) * t[k] = vs[k]
    OBVIOUS
  <2> DEFINE w == EMAWeight(p, n, k)
             y == prices[k]
  <2>1. w \in Int /\ EMAWeight(p, n + 1, k) = q * w /\ y \in Int /\ t[k] = y
    BY <1>1, EMAWeightNext DEF q
  <2>2. vs[k] = q * (w * y)
    OBVIOUS
  <2> HIDE DEF w, y, vs
  <2>3. (q * w) * y = q * (w * y)
    BY <1>1, <2>1
  <2> QED BY <2>1, <2>2, <2>3
<1>7. EMAWeight(p, n + 1, n + 1) * t[n + 1] = e
  <2> DEFINE a == Power(p + 1, n - p)
  <2>1. /\ (n + 1) - (n + 1) = 0 /\ (n + 1) - p - 1 = n - p /\ ~(n + 1 <= p)
    BY <1>1
  <2>2. EMAWeight(p, n + 1, n + 1) = 2 * p * 1 * a
    BY <1>2, <2>1 DEF EMAWeight, q
  <2> HIDE DEF a
  <2>3. (2 * p * 1 * a) * x = 2 * x * (p * a)
    BY <1>1, <1>2 DEF a
  <2> QED BY <1>1, <2>2, <2>3 DEF a
<1>8. us \in Seq(Int) /\ us = Append(vs, e)
  <2> HIDE DEF vs, e
  <2>1. us \in Seq(Int) /\ Len(us) = n + 1
    <3>1. \A k \in 1..(n + 1) : EMAWeight(p, n + 1, k) * t[k] \in Int
      <4> SUFFICES ASSUME NEW k \in 1..(n + 1)
                   PROVE  EMAWeight(p, n + 1, k) * t[k] \in Int
        OBVIOUS
      <4>1. CASE k \in 1..n
        BY <1>5, <1>6, <4>1
      <4>2. CASE k = n + 1
        BY <1>3, <1>7, <4>2
      <4> QED BY <1>1, <4>1, <4>2
    <3> QED BY <1>1, <3>1
  <2>2. us[n + 1] = e /\ \A k \in 1..n : us[k] = vs[k]
    BY <1>1, <1>6, <1>7
  <2> HIDE DEF us
  <2> QED BY <1>3, <1>5, <2>1, <2>2, IsAppend
<1>9. /\ Total(us) = q * Total(ws) + e /\ Total(ws) \in Int
  <2> HIDE DEF us, vs, ws, e
  <2>1. Total(us) = Total(vs) + e /\ Total(vs) \in Int
    BY <1>3, <1>5, <1>8, TotalAppend
  <2>2. Total(vs) = q * Total(ws)
    BY <1>1, <1>4, <1>5, TotalOfMultiples
  <2>3. Total(ws) \in Int
    BY <1>4, TotalTrace
  <2> QED BY <2>1, <2>2, <2>3
<1>10. WeightedEMA(p, prices) = <<Total(ws), den>>
  BY DEF WeightedEMA, n
<1>11. WeightedEMA(p, t) = <<Total(us), p * Power(p + 1, (n - p) + 1)>>
  BY <1>1 DEF WeightedEMA
<1>12. p * Power(p + 1, (n - p) + 1) = (p + 1) * den
  <2> DEFINE a == Power(p + 1, n - p)
  <2>1. a \in Int
    BY <1>2
  <2>2. Power(p + 1, (n - p) + 1) = (p + 1) * a
    BY <1>2
  <2> HIDE DEF a
  <2>3. p * ((p + 1) * a) = (p + 1) * (p * a)
    BY <1>1, <2>1
  <2> QED BY <2>2, <2>3 DEF a
<1> HIDE DEF ws, us, den
<1>13. q * Total(ws) + e = 2 * x * den + q * Total(ws)
  BY <1>1, <1>3, <1>9
<1> QED
  BY <1>3, <1>9, <1>10, <1>11, <1>12, <1>13 DEF t, q

\* An EMA that has been given these prices.
EMAOver(ema, p, prices) ==
    IF Len(prices) < p THEN ema.sum = Total(prices)
    ELSE ema.last = WeightedEMA(p, prices)

\* One price more (ema.go:52-80).
LEMMA AddToEMAOver ==
    ASSUME NEW ema \in EMAState, NEW p \in Positive, NEW prices \in Seq(Positive),
           NEW x \in Positive, EMAAfter(ema, p, Len(prices)), EMAOver(ema, p, prices)
    PROVE  EMAOver(AddToEMA(ema, p, x), p, Append(prices, x))
<1> DEFINE n == Len(prices)
           t == Append(prices, x)
           new == AddToEMA(ema, p, x)
<1>0. \A y \in Positive \X Positive : y # None
  BY DEF None
<1>1. /\ n \in Nat /\ t \in Seq(Positive) /\ Len(t) = n + 1 /\ p \in Nat
      /\ x \in Int /\ prices \in Seq(Int)
  <2>1. n \in Nat /\ t \in Seq(Positive) /\ Len(t) = n + 1
    OBVIOUS
  <2>2. p \in Nat /\ x \in Int /\ prices \in Seq(Int)
    BY DEF Positive
  <2> QED BY <2>1, <2>2
<1>2. Total(t) = Total(prices) + x
  BY <1>1, TotalAppend
<1>3. EMAAfter(new, p, n + 1)
  BY <1>1, AddToEMAAfter
<1>4. Before(p) = p - 1
  BY DEF Before, Positive
<1>5. \A num, den : Known(num, den) # None => Known(num, den) = <<num, den>>
  BY DEF Known
<1> HIDE DEF n, t
<1>6. CASE n + 1 < p
  <2>1. ema.last = None /\ ema.count < Before(p) /\ ema.sum = Total(prices)
    BY <1>1, <1>4, <1>6 DEF EMAAfter, EMAOver, n
  <2>2. new = [ema EXCEPT !.sum = ema.sum + x, !.count = ema.count + 1]
    BY <2>1 DEF AddToEMA
  <2>3. new.sum = ema.sum + x
    BY <2>2 DEF EMAState
  <2> QED BY <1>1, <1>2, <1>6, <2>1, <2>3 DEF EMAOver, t
<1>7. CASE n + 1 = p
  <2>1. ema.last = None /\ ~(ema.count < Before(p)) /\ ema.sum = Total(prices)
    BY <1>1, <1>4, <1>7 DEF EMAAfter, EMAOver, n
  <2>2. new.last = Known(ema.sum + x, p)
    BY <2>1 DEF AddToEMA
  <2>3. new.last # None
    <3>1. new.last \in Positive \X Positive
      BY <1>1, <1>3, <1>7 DEF EMAAfter
    <3> HIDE DEF new
    <3> QED BY <3>1, <1>0
  <2>4. new.last = <<Total(t), p>>
    <3> HIDE DEF new
    <3> QED BY <1>2, <1>5, <2>1, <2>2, <2>3
  <2>5. WeightedEMA(p, t) = <<Total(t), p>>
    BY <1>1, <1>7, WeightedEMAFirst
  <2> QED BY <1>1, <1>7, <2>4, <2>5 DEF EMAOver, t
<1>8. CASE p <= n
  <2> DEFINE num == WeightedEMA(p, prices)[1]
             den == WeightedEMA(p, prices)[2]
  <2>1. /\ ema.last = WeightedEMA(p, prices) /\ ema.last # None
        /\ ema.last[1] = num /\ ema.last[2] = den
    <3>1. ema.last = WeightedEMA(p, prices) /\ ema.last \in Positive \X Positive
      BY <1>1, <1>8 DEF EMAAfter, EMAOver, n
    <3> QED BY <3>1 DEF None
  <2>2. new.last = Known(2 * x * den + (p - 1) * num, (p + 1) * den)
    <3> HIDE DEF num, den
    <3> QED BY <2>1 DEF AddToEMA, Moved, EMAState
  <2>3. new.last # None
    <3>1. new.last \in Positive \X Positive
      BY <1>1, <1>3, <1>8 DEF EMAAfter
    <3> HIDE DEF new
    <3> QED BY <3>1, <1>0
  <2>4. new.last = <<2 * x * den + (p - 1) * num, (p + 1) * den>>
    <3> HIDE DEF new, num, den
    <3> QED BY <1>5, <2>2, <2>3
  <2>5. WeightedEMA(p, t) = <<2 * x * den + (p - 1) * num, (p + 1) * den>>
    BY <1>8, WeightedEMANext DEF n, t
  <2>6. ~(Len(t) < p)
    BY <1>1, <1>8
  <2> HIDE DEF new, num, den
  <2> QED BY <2>4, <2>5, <2>6 DEF EMAOver, new, t
<1> QED
  BY <1>1, <1>6, <1>7, <1>8

--------------------------------------------------------------------------------
(* The RSI. *)

\* Wilder's weights, and how another move changes them.
LEMMA RSIWeightNext ==
    ASSUME NEW p \in Positive, NEW n \in Nat, p <= n, NEW k \in 1..n
    PROVE  /\ RSIWeight(p, n, k) \in Int
           /\ RSIWeight(p, n + 1, k) = (p - 1) * RSIWeight(p, n, k)
<1> DEFINE q == p - 1
<1>1. p \in Nat /\ q \in Int /\ p \in Int
  BY DEF Positive
<1>2. CASE k <= p
  <2>1. n - p \in Nat /\ (n + 1) - p = (n - p) + 1
    BY <1>1
  <2>2. Power(q, n - p) \in Int /\ Power(q, (n - p) + 1) = q * Power(q, n - p)
    <3> HIDE DEF q
    <3> QED BY <1>1, <2>1, PowerNext
  <2> QED BY <1>2, <2>1, <2>2 DEF RSIWeight
<1>3. CASE ~(k <= p)
  <2> DEFINE a == Power(q, n - k)
             b == Power(p, k - p)
  <2>1. n - k \in Nat /\ (n + 1) - k = (n - k) + 1 /\ k - p \in Nat
    BY <1>1, <1>3
  <2>2. a \in Int /\ Power(q, (n - k) + 1) = q * a /\ b \in Int
    <3> HIDE DEF q
    <3> QED BY <1>1, <2>1, PowerNext
  <2>3. RSIWeight(p, n, k) = a * b /\ RSIWeight(p, n + 1, k) = (q * a) * b
    BY <1>3, <2>1, <2>2 DEF RSIWeight
  <2> HIDE DEF a, b, q
  <2>4. (q * a) * b = q * (a * b) /\ a * b \in Int
    BY <1>1, <2>2
  <2> QED BY <2>3, <2>4 DEF q
<1> QED
  BY <1>2, <1>3

\* The first p moves are averaged,
LEMMA WildersFirst ==
    ASSUME NEW p \in Positive, NEW moves \in Seq(Nat), Len(moves) = p
    PROVE  WildersAverage(p, moves) = Total(moves)
<1>1. p \in Nat /\ p - 1 \in Int /\ p - p = 0 /\ 0 \in Nat
  BY DEF Positive
<1>2. Power(p - 1, 0) = 1
  BY <1>1, PowerNext
<1>3. \A k \in 1..p : RSIWeight(p, p, k) * moves[k] = moves[k]
  <2> SUFFICES ASSUME NEW k \in 1..p
               PROVE  RSIWeight(p, p, k) * moves[k] = moves[k]
    OBVIOUS
  <2>1. RSIWeight(p, p, k) = 1
    BY <1>1, <1>2 DEF RSIWeight
  <2>2. moves[k] \in Int
    OBVIOUS
  <2> QED BY <2>1, <2>2
<1>4. [k \in 1..p |-> RSIWeight(p, p, k) * moves[k]] = moves
  <2>1. moves = [k \in 1..p |-> moves[k]]
    OBVIOUS
  <2> QED BY <1>3, <2>1
<1> QED
  BY <1>4 DEF WildersAverage

\* and each later one moves the average.
LEMMA WildersNext ==
    ASSUME NEW p \in Positive, NEW moves \in Seq(Nat), p <= Len(moves), NEW x \in Nat
    PROVE  /\ WildersAverage(p, moves) \in Int
           /\ WildersAverage(p, Append(moves, x)) =
                  WildersAverage(p, moves) * (p - 1) + x * Power(p, Len(moves) - p + 1)
<1> DEFINE n == Len(moves)
           q == p - 1
           t == Append(moves, x)
           ws == [k \in 1..n |-> RSIWeight(p, n, k) * moves[k]]
           vs == [k \in 1..n |-> q * ws[k]]
           us == [k \in 1..(n + 1) |-> RSIWeight(p, n + 1, k) * t[k]]
           over == Power(p, n - p + 1)
           e == x * over
<1>1. /\ p \in Nat /\ q \in Int /\ p \in Int /\ n \in Nat /\ p <= n
      /\ n - p + 1 \in Nat /\ (n + 1) - p = n - p + 1
      /\ Len(t) = n + 1 /\ t[n + 1] = x
      /\ \A k \in 1..n : t[k] = moves[k] /\ moves[k] \in Int
  BY DEF Positive
<1> HIDE DEF n, q, t
<1>2. over \in Int /\ Power(q, 0) = 1
  BY <1>1, PowerNext
<1>3. e \in Int
  <2> HIDE DEF over
  <2> QED BY <1>2
<1>4. ws \in Seq(Int) /\ Len(ws) = n
  <2>1. ASSUME NEW k \in 1..n PROVE RSIWeight(p, n, k) * moves[k] \in Int
    <3>1. RSIWeight(p, n, k) \in Int /\ moves[k] \in Int
      BY <1>1, RSIWeightNext
    <3> QED BY <3>1
  <2> QED BY <1>1, <2>1
<1>5. vs \in Seq(Int) /\ Len(vs) = n /\ \A k \in 1..n : vs[k] = q * ws[k]
  <2>1. \A k \in 1..n : q * ws[k] \in Int
    <3> HIDE DEF ws
    <3> QED BY <1>1, <1>4
  <2> HIDE DEF ws
  <2> QED BY <1>1, <2>1
<1>6. \A k \in 1..n : RSIWeight(p, n + 1, k) * t[k] = vs[k]
  <2> SUFFICES ASSUME NEW k \in 1..n
               PROVE  RSIWeight(p, n + 1, k) * t[k] = vs[k]
    OBVIOUS
  <2> DEFINE w == RSIWeight(p, n, k)
             y == moves[k]
  <2>1. w \in Int /\ RSIWeight(p, n + 1, k) = q * w /\ y \in Int /\ t[k] = y
    BY <1>1, RSIWeightNext DEF q
  <2>2. vs[k] = q * (w * y)
    OBVIOUS
  <2> HIDE DEF w, y, vs
  <2>3. (q * w) * y = q * (w * y)
    BY <1>1, <2>1
  <2> QED BY <2>1, <2>2, <2>3
<1>7. RSIWeight(p, n + 1, n + 1) * t[n + 1] = e
  <2>1. (n + 1) - (n + 1) = 0 /\ ~(n + 1 <= p)
    BY <1>1
  <2>2. RSIWeight(p, n + 1, n + 1) = 1 * over
    BY <1>1, <1>2, <2>1 DEF RSIWeight, q
  <2> HIDE DEF over
  <2>3. (1 * over) * x = x * over
    BY <1>2
  <2> QED BY <1>1, <2>2, <2>3
<1>8. us \in Seq(Int) /\ us = Append(vs, e)
  <2> HIDE DEF vs, e
  <2>1. us \in Seq(Int) /\ Len(us) = n + 1
    <3>1. \A k \in 1..(n + 1) : RSIWeight(p, n + 1, k) * t[k] \in Int
      <4> SUFFICES ASSUME NEW k \in 1..(n + 1)
                   PROVE  RSIWeight(p, n + 1, k) * t[k] \in Int
        OBVIOUS
      <4>1. CASE k \in 1..n
        BY <1>5, <1>6, <4>1
      <4>2. CASE k = n + 1
        BY <1>3, <1>7, <4>2
      <4> QED BY <1>1, <4>1, <4>2
    <3> QED BY <1>1, <3>1
  <2>2. us[n + 1] = e /\ \A k \in 1..n : us[k] = vs[k]
    BY <1>1, <1>6, <1>7
  <2> HIDE DEF us
  <2> QED BY <1>3, <1>5, <2>1, <2>2, IsAppend
<1>9. Total(us) = q * Total(ws) + e /\ Total(ws) \in Int
  <2> HIDE DEF us, vs, ws, e
  <2>1. Total(us) = Total(vs) + e /\ Total(vs) \in Int
    BY <1>3, <1>5, <1>8, TotalAppend
  <2>2. Total(vs) = q * Total(ws)
    BY <1>1, <1>4, <1>5, TotalOfMultiples
  <2>3. Total(ws) \in Int
    BY <1>4, TotalTrace
  <2> QED BY <2>1, <2>2, <2>3
<1>10. WildersAverage(p, moves) = Total(ws) /\ WildersAverage(p, t) = Total(us)
  BY <1>1 DEF WildersAverage, n
<1> HIDE DEF ws, us, e
<1>11. q * Total(ws) + e = Total(ws) * q + e
  BY <1>1, <1>3, <1>9
<1> QED
  BY <1>9, <1>10, <1>11 DEF t, q, n, e

\* The moves of prices: one less than these.
LEMMA MovesAre ==
    ASSUME NEW prices \in Seq(Positive), NEW n \in Nat,
           n = IF prices = <<>> THEN 0 ELSE Len(prices) - 1
    PROVE  /\ Ups(prices) \in Seq(Nat) /\ Len(Ups(prices)) = n
           /\ Downs(prices) \in Seq(Nat) /\ Len(Downs(prices)) = n
           /\ \A k \in 1..n :
                 /\ Ups(prices)[k] = Gain(prices[k + 1] - prices[k])
                 /\ Downs(prices)[k] = Loss(prices[k + 1] - prices[k])
<1>1. 1..(Len(prices) - 1) = 1..n
  OBVIOUS
<1>2. \A k \in 1..n : prices[k] \in Nat /\ prices[k + 1] \in Nat
  BY DEF Positive
<1> DEFINE us == Ups(prices)
           ds == Downs(prices)
<1>3. /\ us = [k \in 1..n |-> IF prices[k] < prices[k + 1]
                             THEN prices[k + 1] - prices[k] ELSE 0]
      /\ ds = [k \in 1..n |-> IF prices[k + 1] < prices[k]
                             THEN prices[k] - prices[k + 1] ELSE 0]
  BY <1>1 DEF Ups, Downs
<1> HIDE DEF us, ds
<1>4. \A k \in 1..n : /\ us[k] = Gain(prices[k + 1] - prices[k]) /\ us[k] \in Nat
                      /\ ds[k] = Loss(prices[k + 1] - prices[k]) /\ ds[k] \in Nat
  <2> SUFFICES ASSUME NEW k \in 1..n
               PROVE  /\ us[k] = Gain(prices[k + 1] - prices[k]) /\ us[k] \in Nat
                      /\ ds[k] = Loss(prices[k + 1] - prices[k]) /\ ds[k] \in Nat
    OBVIOUS
  <2>1. PICK a \in Nat, b \in Nat : a = prices[k] /\ b = prices[k + 1]
    BY <1>2
  <2>2. us[k] = (IF a < b THEN b - a ELSE 0) /\ ds[k] = (IF b < a THEN a - b ELSE 0)
    BY <1>3, <2>1
  <2>3. us[k] \in Nat /\ ds[k] \in Nat /\ us[k] = Gain(b - a) /\ ds[k] = Loss(b - a)
    BY <2>2 DEF Gain, Loss
  <2> QED BY <2>1, <2>3
<1>5. us \in Seq(Nat) /\ Len(us) = n /\ ds \in Seq(Nat) /\ Len(ds) = n
  <2>1. us = [k \in 1..n |-> us[k]] /\ ds = [k \in 1..n |-> ds[k]]
    BY <1>3
  <2>2. us \in [1..n -> Nat] /\ ds \in [1..n -> Nat]
    BY <1>4, <2>1
  <2> HIDE DEF us, ds
  <2>3. us \in Seq(Nat) /\ Len(us) = n
    BY <2>2
  <2>4. ds \in Seq(Nat) /\ Len(ds) = n
    BY <2>2
  <2> QED BY <2>3, <2>4
<1> QED
  BY <1>4, <1>5 DEF us, ds

\* A first price adds no move, a later one its own.
LEMMA MovesNext ==
    ASSUME NEW prices \in Seq(Positive), NEW x \in Positive
    PROVE  /\ prices = <<>> => /\ Ups(prices) = <<>> /\ Downs(prices) = <<>>
                               /\ Ups(Append(prices, x)) = <<>>
                               /\ Downs(Append(prices, x)) = <<>>
           /\ prices # <<>> =>
                 /\ Ups(Append(prices, x)) =
                       Append(Ups(prices), Gain(x - prices[Len(prices)]))
                 /\ Downs(Append(prices, x)) =
                       Append(Downs(prices), Loss(x - prices[Len(prices)]))
<1> DEFINE t == Append(prices, x)
<1>1. PICK m \in Nat : m = Len(prices)
  OBVIOUS
<1>2. /\ t \in Seq(Positive) /\ Len(t) = m + 1 /\ t # <<>> /\ (m + 1) - 1 = m
      /\ t[m + 1] = x /\ \A k \in 1..m : t[k] = prices[k]
      /\ \A k \in 1..m : prices[k] \in Nat
      /\ x \in Nat
  BY <1>1 DEF Positive
<1> HIDE DEF t
<1>3. /\ Ups(t) \in Seq(Nat) /\ Len(Ups(t)) = m
      /\ Downs(t) \in Seq(Nat) /\ Len(Downs(t)) = m
      /\ \A k \in 1..m : Ups(t)[k] = Gain(t[k + 1] - t[k])
      /\ \A k \in 1..m : Downs(t)[k] = Loss(t[k + 1] - t[k])
  <2>1. m = IF t = <<>> THEN 0 ELSE Len(t) - 1
    BY <1>2
  <2> QED BY <1>2, <2>1, MovesAre
<1>4. CASE prices = <<>>
  <2>1. m = 0
    BY <1>1, <1>4
  <2>2. Ups(t) = <<>> /\ Downs(t) = <<>>
    BY <1>3, <2>1
  <2>3. Ups(prices) = <<>> /\ Downs(prices) = <<>>
    <3>1. m = IF prices = <<>> THEN 0 ELSE Len(prices) - 1
      BY <1>4, <2>1
    <3>2. /\ Ups(prices) \in Seq(Nat) /\ Len(Ups(prices)) = m
          /\ Downs(prices) \in Seq(Nat) /\ Len(Downs(prices)) = m
      BY <3>1, MovesAre
    <3> QED BY <2>1, <3>2
  <2>4. Ups(Append(prices, x)) = <<>> /\ Downs(Append(prices, x)) = <<>>
    BY <2>2, Zenon DEF t
  <2> QED BY <1>4, <2>3, <2>4
<1>5. CASE prices # <<>>
  <2>1. PICK n \in Nat : n = m - 1
    BY <1>1, <1>5
  <2>2. /\ Ups(prices) \in Seq(Nat) /\ Len(Ups(prices)) = n
        /\ Downs(prices) \in Seq(Nat) /\ Len(Downs(prices)) = n
        /\ \A k \in 1..n : /\ Ups(prices)[k] = Gain(prices[k + 1] - prices[k])
                           /\ Downs(prices)[k] = Loss(prices[k + 1] - prices[k])
    BY <1>1, <1>5, <2>1, MovesAre
  <2>3. m = n + 1 /\ m \in 1..m
    BY <2>1
  <2>4. \A k \in 1..n : k \in 1..m /\ k + 1 \in 1..m
    BY <2>3
  <2>5. /\ \A k \in 1..n : Ups(t)[k] = Ups(prices)[k]
        /\ \A k \in 1..n : Downs(t)[k] = Downs(prices)[k]
    BY <1>2, <1>3, <2>2, <2>4
  <2>6. PICK move \in Int : move = x - prices[m]
    BY <1>2, <2>3
  <2>7. Ups(t)[m] = Gain(move) /\ Downs(t)[m] = Loss(move)
    BY <1>2, <1>3, <2>3, <2>6
  <2>8. Gain(move) \in Nat /\ Loss(move) \in Nat
    BY DEF Gain, Loss
  <2>9. Ups(t) = Append(Ups(prices), Gain(move))
    BY <1>3, <2>2, <2>3, <2>5, <2>7, <2>8, IsAppend
  <2>10. Downs(t) = Append(Downs(prices), Loss(move))
    BY <1>3, <2>2, <2>3, <2>5, <2>7, <2>8, IsAppend
  <2> QED BY <1>1, <1>5, <2>6, <2>9, <2>10 DEF t
<1> QED
  BY <1>4, <1>5

\* An RSI that has been given these prices.
RSIOver(rsi, p, prices) ==
    LET m == Len(prices)
    IN  /\ rsi.iterations = m
        /\ m > 0 => rsi.price = prices[m]
        /\ IF m <= p THEN /\ rsi.over = 1 /\ rsi.gain = Total(Ups(prices))
                          /\ rsi.loss = Total(Downs(prices))
           ELSE /\ rsi.over = Power(p, m - p)
                /\ rsi.gain = WildersAverage(p, Ups(prices))
                /\ rsi.loss = WildersAverage(p, Downs(prices))

\* One price more (rsi.go:35-121), if its period is the 14 of the code.
LEMMA AddToRSIOver ==
    ASSUME NEW rsi \in RSIState, NEW p \in Positive, p = RSISmoothing,
           NEW prices \in Seq(Positive), NEW x \in Positive, RSIOver(rsi, p, prices)
    PROVE  RSIOver(AddToRSI(rsi, p, x), p, Append(prices, x))
<1> DEFINE m == Len(prices)
           t == Append(prices, x)
           diff == IF rsi.iterations = 0 THEN 0 ELSE x - rsi.price
           new == AddToRSI(rsi, p, x)
           us == Ups(prices)
           ds == Downs(prices)
<1>1. /\ m \in Nat /\ Len(t) = m + 1 /\ t[m + 1] = x /\ p \in Nat \ {0} /\ x \in Nat
      /\ m > 0 => prices[m] \in Nat
  BY DEF Positive
<1>2. /\ rsi.iterations = m /\ (m > 0 => rsi.price = prices[m])
      /\ m <= p => /\ rsi.over = 1 /\ rsi.gain = Total(us) /\ rsi.loss = Total(ds)
      /\ m > p => /\ rsi.over = Power(p, m - p)
                  /\ rsi.gain = WildersAverage(p, us)
                  /\ rsi.loss = WildersAverage(p, ds)
  BY <1>1 DEF RSIOver
<1>3. /\ us \in Seq(Nat) /\ ds \in Seq(Nat)
      /\ m = 0 => us = <<>> /\ ds = <<>> /\ Ups(t) = <<>> /\ Downs(t) = <<>>
      /\ m > 0 => /\ Len(us) = m - 1 /\ Len(ds) = m - 1
                  /\ Ups(t) = Append(us, Gain(x - prices[m]))
                  /\ Downs(t) = Append(ds, Loss(x - prices[m]))
  <2>1. PICK n \in Nat : n = IF prices = <<>> THEN 0 ELSE Len(prices) - 1
    BY <1>1
  <2>2. us \in Seq(Nat) /\ ds \in Seq(Nat) /\ Len(us) = n /\ Len(ds) = n
    BY <2>1, MovesAre
  <2>3. (m = 0 <=> prices = <<>>) /\ (m > 0 => n = m - 1)
    BY <2>1
  <2> HIDE DEF us, ds, t, m
  <2>4. prices = <<>> => us = <<>> /\ ds = <<>> /\ Ups(t) = <<>> /\ Downs(t) = <<>>
    BY MovesNext DEF us, ds, t
  <2>5. prices # <<>> => /\ Ups(t) = Append(us, Gain(x - prices[m]))
                         /\ Downs(t) = Append(ds, Loss(x - prices[m]))
    BY MovesNext DEF us, ds, t, m
  <2> QED BY <1>1, <2>2, <2>3, <2>4, <2>5
<1>4. diff = (IF m = 0 THEN 0 ELSE x - prices[m]) /\ diff \in Int
  BY <1>1, <1>2
<1>5. Gain(diff) \in Nat /\ Loss(diff) \in Nat
  BY <1>4 DEF Gain, Loss
<1>6. /\ new.iterations = m + 1 /\ new.price = x
      /\ m <= p => /\ new.gain = rsi.gain + Gain(diff)
                   /\ new.loss = rsi.loss + Loss(diff)
                   /\ new.over = IF m = p THEN p ELSE 1
      /\ m > p => /\ new.gain = rsi.gain * (p - 1) + Gain(diff) * rsi.over
                  /\ new.loss = rsi.loss * (p - 1) + Loss(diff) * rsi.over
                  /\ new.over = rsi.over * p
  BY <1>1, <1>2 DEF AddToRSI
<1> HIDE DEF new, us, ds, t, diff, m
<1>7. m > 0 => Ups(t) = Append(us, Gain(diff)) /\ Downs(t) = Append(ds, Loss(diff))
  <2>1. SUFFICES ASSUME m > 0
                 PROVE  /\ Ups(t) = Append(us, Gain(diff))
                        /\ Downs(t) = Append(ds, Loss(diff))
    OBVIOUS
  <2>2. diff = x - prices[m]
    BY <1>1, <1>4, <2>1
  <2>3. /\ Ups(t) = Append(us, Gain(x - prices[m]))
        /\ Downs(t) = Append(ds, Loss(x - prices[m]))
    BY <1>3, <2>1
  <2> QED BY <2>2, <2>3, Zenon
<1>8. Total(Ups(t)) = Total(us) + Gain(diff) /\ Total(Downs(t)) = Total(ds) + Loss(diff)
  <2>1. CASE m = 0
    <3>1. Gain(0) = 0 /\ Loss(0) = 0
      BY DEF Gain, Loss
    <3> QED BY <1>3, <1>4, <2>1, <3>1, TotalOfNothing
  <2>2. CASE m > 0
    <3>1. us \in Seq(Int) /\ ds \in Seq(Int) /\ Gain(diff) \in Int /\ Loss(diff) \in Int
      BY <1>3, <1>5
    <3> QED BY <3>1, <1>7, <2>2, TotalAppend
  <2> QED BY <1>1, <2>1, <2>2
<1>9. CASE m < p
  <2>1. m <= p /\ m # p /\ m + 1 <= p
    BY <1>1, <1>9
  <2>2. /\ new.over = 1 /\ new.gain = Total(Ups(t)) /\ new.loss = Total(Downs(t))
    BY <1>2, <1>6, <1>8, <2>1
  <2> QED BY <1>1, <1>6, <2>1, <2>2 DEF RSIOver, new, t
<1>10. CASE m = p
  <2>1. m <= p /\ m > 0 /\ ~(m + 1 <= p) /\ (m + 1) - p = 0 + 1 /\ p \in Int
    BY <1>1, <1>10
  <2>2. /\ new.over = p /\ new.gain = Total(Ups(t)) /\ new.loss = Total(Downs(t))
    BY <1>2, <1>6, <1>8, <1>10, <2>1
  <2>3. /\ Ups(t) \in Seq(Nat) /\ Len(Ups(t)) = p
        /\ Downs(t) \in Seq(Nat) /\ Len(Downs(t)) = p
    <3>1. Ups(t) = Append(us, Gain(diff)) /\ Downs(t) = Append(ds, Loss(diff))
      BY <1>7, <2>1
    <3>2. Len(us) = p - 1 /\ Len(ds) = p - 1
      BY <1>3, <1>10, <2>1
    <3> QED BY <1>1, <1>3, <1>5, <3>1, <3>2
  <2>4. /\ WildersAverage(p, Ups(t)) = Total(Ups(t))
        /\ WildersAverage(p, Downs(t)) = Total(Downs(t))
    BY <2>3, WildersFirst
  <2>5. Power(p, 0 + 1) = p
    <3>1. 0 \in Nat
      OBVIOUS
    <3>2. Power(p, 0 + 1) = p * Power(p, 0) /\ Power(p, 0) = 1
      BY <2>1, <3>1, PowerNext
    <3> QED BY <2>1, <3>2
  <2> QED BY <1>1, <1>6, <2>1, <2>2, <2>4, <2>5 DEF RSIOver, new, t
<1>11. CASE m > p
  <2>1. /\ m > 0 /\ ~(m + 1 <= p) /\ m - p \in Nat /\ (m + 1) - p = (m - p) + 1
        /\ (m - 1) - p + 1 = m - p /\ p <= m - 1 /\ p \in Int
    BY <1>1, <1>11
  <2>2. Ups(t) = Append(us, Gain(diff)) /\ Downs(t) = Append(ds, Loss(diff))
    BY <1>7, <2>1
  <2>3. /\ WildersAverage(p, Ups(t)) =
              WildersAverage(p, us) * (p - 1) + Gain(diff) * Power(p, m - p)
        /\ WildersAverage(p, Downs(t)) =
              WildersAverage(p, ds) * (p - 1) + Loss(diff) * Power(p, m - p)
    <3>1. /\ p <= Len(us) /\ Len(us) - p + 1 = m - p
          /\ p <= Len(ds) /\ Len(ds) - p + 1 = m - p
      BY <1>3, <2>1
    <3>2. /\ WildersAverage(p, Append(us, Gain(diff))) =
                WildersAverage(p, us) * (p - 1) + Gain(diff) * Power(p, Len(us) - p + 1)
          /\ WildersAverage(p, Append(ds, Loss(diff))) =
                WildersAverage(p, ds) * (p - 1) + Loss(diff) * Power(p, Len(ds) - p + 1)
      BY <1>3, <1>5, <3>1, WildersNext
    <3> QED BY <2>2, <3>1, <3>2
  <2>4. new.gain = WildersAverage(p, Ups(t)) /\ new.loss = WildersAverage(p, Downs(t))
    BY <1>2, <1>6, <1>11, <2>3
  <2>5. new.over = Power(p, (m - p) + 1)
    <3> DEFINE over == Power(p, m - p)
    <3>1. Power(p, (m - p) + 1) = p * over /\ over \in Int
      BY <2>1, PowerNext
    <3>2. new.over = over * p
      BY <1>2, <1>6, <1>11
    <3> HIDE DEF over
    <3> QED BY <2>1, <3>1, <3>2
  <2> QED BY <1>1, <1>6, <2>1, <2>4, <2>5 DEF RSIOver, new, t
<1> QED
  BY <1>1, <1>9, <1>10, <1>11

--------------------------------------------------------------------------------
(* The indicators of the replay. *)

\* Mean prices of candlesticks.
MeanPrices(cs) == [k \in DOMAIN cs |-> MeanPrice(cs[k])]

\* One more.
LEMMA MeanPricesNext ==
    ASSUME NEW cs \in Seq(Stored), NEW c \in Stored
    PROVE  /\ MeanPrices(cs) \in Seq(Positive) /\ MeanPrice(c) \in Positive
           /\ Len(MeanPrices(cs)) = Len(cs)
           /\ MeanPrices(Append(cs, c)) = Append(MeanPrices(cs), MeanPrice(c))
<1> DEFINE n == Len(cs)
           t == Append(cs, c)
<1>1. \A d \in Stored : MeanPrice(d) \in Positive
  <2> SUFFICES ASSUME NEW d \in Stored PROVE MeanPrice(d) \in Positive
    OBVIOUS
  <2>1. /\ d.open \in Nat /\ d.high \in Nat /\ d.low \in Nat /\ d.close \in Nat
        /\ d.open > 0
    BY DEF Stored, Candle, Priced
  <2>2. \A a, b, e, f \in Nat : a > 0 => a + b + e + f \in Nat /\ a + b + e + f # 0
    OBVIOUS
  <2>3. MeanPrice(d) \in Nat /\ MeanPrice(d) # 0
    BY <2>1, <2>2, Zenon DEF MeanPrice
  <2> QED BY <2>3 DEF Positive
<1>2. /\ n \in Nat /\ t \in Seq(Stored) /\ Len(t) = n + 1 /\ t[n + 1] = c
      /\ \A k \in 1..n : t[k] = cs[k] /\ cs[k] \in Stored
      /\ DOMAIN cs = 1..n /\ DOMAIN t = 1..(n + 1)
  OBVIOUS
<1> HIDE DEF t, n
<1>3. MeanPrices(cs) = [k \in 1..n |-> MeanPrice(cs[k])]
  BY <1>2 DEF MeanPrices
<1>4. MeanPrices(t) = [k \in 1..(n + 1) |-> MeanPrice(t[k])]
  BY <1>2 DEF MeanPrices
<1>5. \A k \in 1..(n + 1) : t[k] \in Stored
  BY <1>2
<1>6. MeanPrices(cs) \in Seq(Positive) /\ Len(MeanPrices(cs)) = n
  BY <1>1, <1>2, <1>3
<1>7. MeanPrices(t) \in Seq(Positive) /\ Len(MeanPrices(t)) = n + 1
  BY <1>1, <1>2, <1>4, <1>5
<1>8. /\ MeanPrices(t)[n + 1] = MeanPrice(c)
      /\ \A k \in 1..n : MeanPrices(t)[k] = MeanPrices(cs)[k]
  BY <1>2, <1>3, <1>4
<1>9. MeanPrices(t) = Append(MeanPrices(cs), MeanPrice(c))
  BY <1>1, <1>6, <1>7, <1>8, IsAppend
<1> QED
  BY <1>1, <1>6, <1>9 DEF t, n

\* Indicators that have been given these prices.
IndicatorsOver(ind, prices) ==
    /\ ShortPeriod # 0 => /\ EMAAfter(ind.short, ShortPeriod, Len(prices))
                          /\ EMAOver(ind.short, ShortPeriod, prices)
                          /\ EMAAfter(ind.long, LongPeriod, Len(prices))
                          /\ EMAOver(ind.long, LongPeriod, prices)
    /\ RSIPeriodOf(kind) = RSISmoothing =>
          RSIOver(ind.rsi, RSIPeriodOf(kind), prices)

\* None at first,
LEMMA NothingOver ==
    ASSUME kind \in Kinds
    PROVE  IndicatorsOver(NewIndicators, <<>>)
<1>1. <<>> \in Seq(Positive) /\ Len(<<>>) = 0
  OBVIOUS
<1>2. Ups(<<>>) = <<>> /\ Downs(<<>>) = <<>>
  <2>1. 1 \in Positive
    BY DEF Positive
  <2> QED BY <1>1, <2>1, MovesNext
<1>3. ASSUME NEW p \in Positive PROVE EMAAfter(NewEMA, p, 0) /\ EMAOver(NewEMA, p, <<>>)
  <2>1. 0 < p
    BY DEF Positive
  <2> QED BY <1>1, <2>1, TotalOfNothing DEF EMAAfter, EMAOver, NewEMA
<1>4. ASSUME NEW p \in Positive PROVE RSIOver(NewRSI, p, <<>>)
  <2>1. 0 <= p /\ ~(0 > 0)
    BY DEF Positive
  <2> QED BY <1>1, <1>2, <2>1, TotalOfNothing DEF RSIOver, NewRSI
<1>5. /\ ShortPeriod # 0 => ShortPeriod \in Positive /\ LongPeriod \in Positive
      /\ RSIPeriodOf(kind) \in Positive
  BY PeriodsTyped DEF Positive
<1>6. /\ NewIndicators.short = NewEMA /\ NewIndicators.long = NewEMA
      /\ NewIndicators.rsi = NewRSI
  BY DEF NewIndicators
<1> QED
  BY <1>1, <1>3, <1>4, <1>5, <1>6 DEF IndicatorsOver

\* and that of each candlestick with volume.
LEMMA AddCandlestickOver ==
    ASSUME kind \in Kinds, NEW ind \in IndState, NEW cs \in Seq(Stored),
           IndicatorsOver(ind, MeanPrices(cs)), NEW c \in Candle, Priced(c)
    PROVE  /\ KeepWithVolume(cs, c) \in Seq(Stored)
           /\ IndicatorsOver(AddCandlestick(kind, ind, c),
                             MeanPrices(KeepWithVolume(cs, c)))
<1>1. CASE c.volume = 0
  <2>1. AddCandlestick(kind, ind, c) = ind /\ KeepWithVolume(cs, c) = cs
    BY <1>1 DEF AddCandlestick, KeepWithVolume
  <2> QED BY <2>1
<1>2. CASE c.volume # 0
  <2> DEFINE prices == MeanPrices(cs)
             x == MeanPrice(c)
             new == AddCandlestick(kind, ind, c)
  <2>1. c \in Stored /\ c.volume > 0
    BY <1>2 DEF Stored, Candle
  <2>2. KeepWithVolume(cs, c) = Append(cs, c) /\ Append(cs, c) \in Seq(Stored)
    BY <2>1 DEF KeepWithVolume
  <2>3. /\ prices \in Seq(Positive) /\ x \in Positive
        /\ MeanPrices(Append(cs, c)) = Append(prices, x)
    BY <2>1, MeanPricesNext
  <2>4. /\ new.short = AddToEMA(ind.short, ShortPeriod, x)
        /\ new.long = AddToEMA(ind.long, LongPeriod, x)
        /\ new.rsi = AddToRSI(ind.rsi, RSIPeriodOf(kind), x)
    BY <1>2 DEF AddCandlestick
  <2>5. ind.short \in EMAState /\ ind.long \in EMAState /\ ind.rsi \in RSIState
    BY DEF IndState
  <2>6. /\ ShortPeriod # 0 => ShortPeriod \in Positive /\ LongPeriod \in Positive
        /\ RSIPeriodOf(kind) \in Positive
    BY PeriodsTyped DEF Positive
  <2>7. IndicatorsOver(ind, prices)
    OBVIOUS
  <2> HIDE DEF prices, x, new
  <2>8. /\ Len(prices) \in Nat /\ Len(Append(prices, x)) = Len(prices) + 1
    BY <2>3
  <2>9. ASSUME ShortPeriod # 0
        PROVE  /\ EMAAfter(new.short, ShortPeriod, Len(prices) + 1)
               /\ EMAOver(new.short, ShortPeriod, Append(prices, x))
               /\ EMAAfter(new.long, LongPeriod, Len(prices) + 1)
               /\ EMAOver(new.long, LongPeriod, Append(prices, x))
    <3>1. /\ EMAAfter(ind.short, ShortPeriod, Len(prices))
          /\ EMAOver(ind.short, ShortPeriod, prices)
          /\ EMAAfter(ind.long, LongPeriod, Len(prices))
          /\ EMAOver(ind.long, LongPeriod, prices)
      BY <2>7, <2>9 DEF IndicatorsOver
    <3>2. /\ EMAAfter(new.short, ShortPeriod, Len(prices) + 1)
          /\ EMAAfter(new.long, LongPeriod, Len(prices) + 1)
      BY <2>3, <2>4, <2>5, <2>6, <2>8, <2>9, <3>1, AddToEMAAfter
    <3>3. /\ EMAOver(new.short, ShortPeriod, Append(prices, x))
          /\ EMAOver(new.long, LongPeriod, Append(prices, x))
      BY <2>3, <2>4, <2>5, <2>6, <2>9, <3>1, AddToEMAOver
    <3> QED BY <3>2, <3>3
  <2>10. ASSUME RSIPeriodOf(kind) = RSISmoothing
         PROVE  RSIOver(new.rsi, RSIPeriodOf(kind), Append(prices, x))
    <3>1. RSIOver(ind.rsi, RSIPeriodOf(kind), prices)
      BY <2>7, <2>10 DEF IndicatorsOver
    <3> QED BY <2>3, <2>4, <2>5, <2>6, <2>10, <3>1, AddToRSIOver
  <2>11. IndicatorsOver(new, Append(prices, x))
    BY <2>8, <2>9, <2>10 DEF IndicatorsOver
  <2> QED BY <2>2, <2>3, <2>11 DEF prices, x, new
<1> QED
  BY <1>1, <1>2

\* v is how candlesticks with volume are kept, one by one.
Keeps(v, cs) ==
    v[0] = <<>> /\ \A k \in 1..Len(cs) : v[k] = KeepWithVolume(v[k - 1], cs[k])

\* The candlesticks are kept so,
LEMMA KeptTrace ==
    ASSUME NEW cs \in Seq({c \in Candle : Priced(c)})
    PROVE  \E v \in [0..Len(cs) -> Seq(Stored)] :
              Keeps(v, cs) /\ WithVolume(cs) = v[Len(cs)]
<1> DEFINE C == {c \in Candle : Priced(c)}
<1>1. C \in SUBSET Candle /\ {c \in C : c.volume > 0} = Stored
  BY DEF Stored
<1> HIDE DEF C
<1> QED
  BY <1>1, WithVolumeTrace DEF C, Keeps

\* also up to any of them.
LEMMA KeptUpTo ==
    ASSUME NEW cs \in Seq({c \in Candle : Priced(c)}), NEW n \in 1..Len(cs),
           NEW v \in [0..Len(cs) -> Seq(Stored)], Keeps(v, cs)
    PROVE  WithVolume(SubSeq(cs, 1, n)) = v[n]
<1> DEFINE s == SubSeq(cs, 1, n)
<1>1. /\ s \in Seq({c \in Candle : Priced(c)}) /\ Len(s) = n /\ n \in Nat
      /\ \A k \in 1..n : s[k] = cs[k]
      /\ 1..n \subseteq 1..Len(cs)
  OBVIOUS
<1> HIDE DEF s
<1>2. PICK w \in [0..n -> Seq(Stored)] : Keeps(w, s) /\ WithVolume(s) = w[n]
  BY <1>1, KeptTrace
<1>3. GoAlike(w, v, n)
  BY <1>1, <1>2 DEF GoAlike, Keeps
<1>4. w[n] = v[n]
  BY <1>1, <1>3, TracesAgree
<1> QED
  BY <1>2, <1>4 DEF s

\* What is gathered are the indicators of the prices so far.
LEMMA GatheredOver ==
    ASSUME kind \in Kinds, candles \in Seq({c \in Candle : Priced(c)}),
           NEW h \in [0..Len(candles) -> Gathered], Gathers(h),
           NEW v \in [0..Len(candles) -> Seq(Stored)], Keeps(v, candles),
           NEW n \in 0..Len(candles)
    PROVE  IndicatorsOver(h[n].ind, MeanPrices(v[n]))
<1> DEFINE N == Len(candles)
           T == {k \in 0..N : IndicatorsOver(h[k].ind, MeanPrices(v[k]))}
<1>1. N \in Nat
  OBVIOUS
<1>2. 0 \in T
  <2>1. h[0].ind = NewIndicators /\ v[0] = <<>>
    BY DEF Gathers, NothingGathered, Keeps
  <2>2. MeanPrices(<<>>) = <<>>
    BY DEF MeanPrices
  <2> QED BY <1>1, <2>1, <2>2, NothingOver
<1>3. ASSUME NEW k \in 1..N, k - 1 \in T PROVE k \in T
  <2>1. /\ h[k - 1] \in Gathered /\ h[k] = AddSet(h[k - 1], candles[k])
        /\ candles[k] \in Candle /\ Priced(candles[k])
        /\ v[k - 1] \in Seq(Stored) /\ v[k] = KeepWithVolume(v[k - 1], candles[k])
    BY DEF Gathers, Keeps
  <2>2. h[k].ind = AddCandlestick(kind, h[k - 1].ind, candles[k])
    <3> DEFINE a == h[k - 1]
               b == h[k]
               c == candles[k]
    <3>1. a \in Gathered /\ b = AddSet(a, c) /\ c \in Candle /\ Priced(c)
      BY <2>1
    <3> HIDE DEF a, b, c
    <3>2. b.ind = AddCandlestick(kind, a.ind, c)
      BY <3>1, AddSetEffect
    <3> QED BY <3>2 DEF a, b, c
  <2>3. h[k - 1].ind \in IndState /\ IndicatorsOver(h[k - 1].ind, MeanPrices(v[k - 1]))
    BY <1>3, <2>1 DEF Gathered
  <2>4. IndicatorsOver(h[k].ind, MeanPrices(v[k]))
    BY <2>1, <2>2, <2>3, AddCandlestickOver
  <2> QED BY <2>4
<1>4. 0..N \subseteq T
  <2> HIDE DEF T, N
  <2> QED BY <1>1, <1>2, <1>3, IntervalInduction
<1> QED
  BY <1>4

\* Periods do not share a candlestick.
LEMMA PeriodsDiffer ==
    ASSUME NEW cs, Periods(cs), NEW n \in DOMAIN cs
    PROVE  (CHOOSE k \in DOMAIN cs : cs[k] = cs[n]) = n
<1>1. \A k \in DOMAIN cs : k # n => cs[k] # cs[n]
  <2> SUFFICES ASSUME NEW k \in DOMAIN cs, k # n, cs[k] = cs[n] PROVE FALSE
    OBVIOUS
  <2>1. k \in Nat /\ n \in Nat /\ cs[n] \in Candle
    BY DEF Periods
  <2>2. /\ cs[n].start \in Nat /\ cs[n].end = cs[n].start + TickSize
        /\ TickSize \in Nat \ {0}
    BY <2>1, BacktesterAssumption DEF Periods, Candle
  <2>3. cs[n].end <= cs[n].start
    BY <2>1 DEF Periods
  <2> QED BY <2>2, <2>3
<1> QED
  BY <1>1

\* A set of the replay is that of the prices up to its candlestick.
LEMMA SetsOver ==
    ASSUME BacktestInv, pc = "replay", NEW i \in DOMAIN sets
    PROVE  \E ind \in IndState :
              /\ sets[i] = IndicatorSet(kind, ind) /\ HasValues(kind, sets[i])
              /\ IndicatorsOver(ind, PricesUpTo(i))
              /\ Len(PricesUpTo(i)) \in Nat
<1> DEFINE N == Len(candles)
           choice == CHOOSE k \in DOMAIN candles : candles[k] = validCandles[i]
<1>1. /\ kind \in Kinds /\ Periods(candles) /\ N \in Nat
      /\ candles \in Seq({c \in Candle : Priced(c)})
  BY DEF BacktestInv, DecisionInv, ReplayInv, TypeOK, Prepared, Periods
<1>2. PICK h \in [0..N -> Gathered] : Gathers(h)
  BY DEF BacktestInv, SetsGathered
<1>3. sets = h[N].sets /\ validCandles = h[N].valid /\ N \in 0..N /\ h[N] \in Gathered
  BY <1>1, <1>2 DEF Gathers
<1>4. i \in 1..Len(h[N].sets)
  BY <1>3 DEF Gathered
<1>5. PICK n \in 1..N : GatheredAt(h, N, i, n)
  BY <1>1, <1>2, <1>3, <1>4, SetsAreGathered
<1>6. n \in DOMAIN candles /\ n \in 0..N /\ validCandles[i] = candles[n]
  BY <1>1, <1>3, <1>5 DEF GatheredAt
<1>7. choice = n
  BY <1>1, <1>6, PeriodsDiffer
<1>8. PICK v \in [0..N -> Seq(Stored)] : Keeps(v, candles)
  BY <1>1, KeptTrace
<1>9. WithVolume(SubSeq(candles, 1, n)) = v[n]
  BY <1>1, <1>8, KeptUpTo
<1>10. PricesUpTo(i) = MeanPrices(v[n])
  <2> HIDE DEF choice
  <2>1. PricesUpTo(i) =
          LET counted == WithVolume(SubSeq(candles, 1, choice))
          IN  [k \in DOMAIN counted |-> MeanPrice(counted[k])]
    BY Zenon DEF PricesUpTo, choice
  <2> QED BY <1>7, <1>9, <2>1 DEF MeanPrices
<1>11. IndicatorsOver(h[n].ind, MeanPrices(v[n]))
  BY <1>1, <1>2, <1>6, <1>8, GatheredOver
<1>12. Len(MeanPrices(v[n])) \in Nat
  <2>1. v[n] \in Seq(Stored)
    BY <1>6
  <2>2. MeanPrices(v[n]) = [k \in 1..Len(v[n]) |-> MeanPrice(v[n][k])]
    BY <2>1 DEF MeanPrices
  <2> QED BY <2>1, <2>2
<1>13. h[n].ind \in IndState
  BY <1>6 DEF Gathered
<1>14. sets[i] = IndicatorSet(kind, h[n].ind) /\ HasValues(kind, sets[i])
  BY <1>3, <1>5 DEF GatheredAt
<1> QED
  BY <1>10, <1>11, <1>12, <1>13, <1>14

\* A pair of numbers is itself.
LEMMA SameAsItself ==
    ASSUME NEW x \in Int \X Int
    PROVE  SameNumber(x, x)
<1>1. x[1] * x[2] \in Int
  OBVIOUS
<1> QED
  BY <1>1 DEF SameNumber, AtMost

\* The EMAs of every set are the weighted means of the prices so far, whatever
\* the periods (but a short one of 0) and prices (ema.go:52-80).
THEOREM AveragesWeighted ==
    ASSUME ShortPeriod # 0
    PROVE  Spec => []EMAIsWeightedMean
<1>1. BacktestInv => EMAIsWeightedMean
  <2> SUFFICES ASSUME BacktestInv, pc = "replay", kind # "rsi", NEW i \in DOMAIN sets
               PROVE  /\ SameNumber(sets[i].short,
                                    WeightedEMA(ShortPeriod, PricesUpTo(i)))
                      /\ SameNumber(sets[i].long,
                                    WeightedEMA(LongPeriod, PricesUpTo(i)))
    BY Zenon DEF EMAIsWeightedMean, Generated
  <2>1. PICK ind \in IndState :
          /\ sets[i] = IndicatorSet(kind, ind) /\ HasValues(kind, sets[i])
          /\ IndicatorsOver(ind, PricesUpTo(i)) /\ Len(PricesUpTo(i)) \in Nat
    BY SetsOver
  <2> DEFINE prices == PricesUpTo(i)
             set == sets[i]
  <2> HIDE DEF prices, set
  <2>2. /\ EMAAfter(ind.short, ShortPeriod, Len(prices))
        /\ EMAOver(ind.short, ShortPeriod, prices)
        /\ EMAAfter(ind.long, LongPeriod, Len(prices))
        /\ EMAOver(ind.long, LongPeriod, prices)
    BY <2>1 DEF IndicatorsOver, prices
  <2>3. set.short = ind.short.last /\ set.long = ind.long.last
    BY <2>1 DEF IndicatorSet, set
  <2>4. kind \in Kinds
    BY DEF BacktestInv, DecisionInv, ReplayInv, TypeOK
  <2>5. set.short # None /\ set.long # None
    <3>1. "short" \in IndicatorsOf(kind) /\ "long" \in IndicatorsOf(kind)
      BY <2>4 DEF IndicatorsOf, Kinds, EMAIndicators, S1Indicators
    <3>2. HasValues(kind, set)
      BY <2>1 DEF set
    <3> QED BY <3>1, <3>2 DEF HasValues
  <2>6. ~(Len(prices) < ShortPeriod) /\ ~(Len(prices) < LongPeriod)
    BY <2>2, <2>3, <2>5 DEF EMAAfter
  <2>7. /\ ind.short.last = WeightedEMA(ShortPeriod, prices)
        /\ ind.long.last = WeightedEMA(LongPeriod, prices)
    BY <2>2, <2>6 DEF EMAOver
  <2>8. ind.short.last \in Int \X Int /\ ind.long.last \in Int \X Int
    <3>1. /\ ind.short.last \in Positive \X Positive
          /\ ind.long.last \in Positive \X Positive
      BY <2>2, <2>6 DEF EMAAfter
    <3> QED BY <3>1 DEF Positive
  <2>9. /\ SameNumber(set.short, WeightedEMA(ShortPeriod, prices))
        /\ SameNumber(set.long, WeightedEMA(LongPeriod, prices))
    BY <2>3, <2>7, <2>8, SameAsItself
  <2> QED BY <2>9 DEF prices, set
<1> QED
  BY <1>1, BacktestIsInvariant, PTL

\* The RSI of every set is Wilder's index of the prices so far, for every strategy
\* whose period is the 14 that the code divides by, whatever that is
\* (rsi.go:35-121).
THEOREM IndexIsWilders == Spec => []RSIIsWilders
<1>1. BacktestInv => RSIIsWilders
  <2> SUFFICES ASSUME BacktestInv, pc = "replay", RSIPeriodOf(kind) = RSISmoothing,
                      kind # "ema", NEW i \in DOMAIN sets
               PROVE  SameNumber(sets[i].rsi,
                                 WildersRSI(RSIPeriodOf(kind), PricesUpTo(i)))
    BY Zenon DEF RSIIsWilders, Generated
  <2>1. PICK ind \in IndState :
          /\ sets[i] = IndicatorSet(kind, ind) /\ HasValues(kind, sets[i])
          /\ IndicatorsOver(ind, PricesUpTo(i)) /\ Len(PricesUpTo(i)) \in Nat
    BY SetsOver
  <2> DEFINE prices == PricesUpTo(i)
             set == sets[i]
             p == RSIPeriodOf(kind)
             rsi == ind.rsi
  <2>2. kind \in Kinds
    BY DEF BacktestInv, DecisionInv, ReplayInv, TypeOK
  <2>3. RSIOver(rsi, p, prices)
    BY <2>1 DEF IndicatorsOver
  <2>4. set.rsi = RSI(rsi, p)
    BY <2>1 DEF IndicatorSet
  <2>5. set.rsi # None
    <3>1. "rsi" \in IndicatorsOf(kind)
      BY <2>2 DEF IndicatorsOf, Kinds, RSIIndicators, S1Indicators
    <3> QED BY <2>1, <3>1 DEF HasValues
  <2>6. rsi.gain \in Int /\ rsi.loss \in Int /\ Len(prices) \in Nat /\ p \in Nat
    BY <2>1, <2>2, PeriodsTyped DEF IndState, RSIState
  <2> HIDE DEF prices, set, p, rsi
  <2>7. ~(Len(prices) <= p) /\ rsi.iterations = Len(prices)
    BY <2>3, <2>4, <2>5 DEF RSI, RSIOver
  <2>8. /\ rsi.gain = WildersAverage(p, Ups(prices))
        /\ rsi.loss = WildersAverage(p, Downs(prices))
    BY <2>3, <2>7 DEF RSIOver
  <2>9. set.rsi = IF rsi.gain + rsi.loss = 0 THEN <<50, 1>>
                  ELSE <<100 * rsi.gain, rsi.gain + rsi.loss>>
    BY <2>4, <2>7 DEF RSI
  <2>10. set.rsi = WildersRSI(p, prices)
    BY <2>8, <2>9, Zenon DEF WildersRSI
  <2>11. set.rsi \in Int \X Int
    BY <2>6, <2>9
  <2>12. SameNumber(set.rsi, WildersRSI(p, prices))
    BY <2>10, <2>11, SameAsItself
  <2> QED BY <2>12 DEF prices, set, p
<1> QED
  BY <1>1, BacktestIsInvariant, PTL

--------------------------------------------------------------------------------
(* The projection. *)

\* A beginning of a sequence, one longer.
LEMMA PrefixGrows ==
    ASSUME NEW S, NEW s \in Seq(S), NEW k \in 1..Len(s)
    PROVE  /\ SubSeq(s, 1, k - 1) \in Seq(S) /\ Len(SubSeq(s, 1, k - 1)) = k - 1
           /\ SubSeq(s, 1, k) = Append(SubSeq(s, 1, k - 1), s[k])
<1> DEFINE a == SubSeq(s, 1, k - 1)
           b == SubSeq(s, 1, k)
<1>1. /\ k \in Nat /\ k - 1 \in Nat /\ (k - 1) + 1 = k /\ s[k] \in S
      /\ \A j \in 1..(k - 1) : j \in 1..k
  OBVIOUS
<1>2. a \in Seq(S) /\ Len(a) = k - 1 /\ \A j \in 1..(k - 1) : a[j] = s[j]
  OBVIOUS
<1>3. b \in Seq(S) /\ Len(b) = k /\ \A j \in 1..k : b[j] = s[j]
  OBVIOUS
<1> HIDE DEF a, b
<1>4. /\ Len(b) = Len(a) + 1 /\ b[Len(a) + 1] = s[k]
      /\ \A j \in 1..Len(a) : b[j] = a[j]
  BY <1>1, <1>2, <1>3
<1>5. b = Append(a, s[k])
  BY <1>1, <1>2, <1>3, <1>4, IsAppend
<1> QED
  BY <1>2, <1>5 DEF a, b

\* The whole of a sequence, and nothing of it.
LEMMA WholeAndNothing ==
    ASSUME NEW S, NEW s \in Seq(S)
    PROVE  SubSeq(s, 1, Len(s)) = s /\ SubSeq(s, 1, 0) = <<>>
OBVIOUS

\* The sum of two sequences.
LEMMA TotalOfBoth ==
    ASSUME NEW s \in Seq(Int), NEW t \in Seq(Int)
    PROVE  Total(s \o t) = Total(s) + Total(t)
<1> DEFINE n == Len(t)
           u(k) == SubSeq(t, 1, k)
           T == {k \in 0..n : /\ s \o u(k) \in Seq(Int) /\ u(k) \in Seq(Int)
                              /\ Total(s \o u(k)) = Total(s) + Total(u(k))}
<1>1. n \in Nat /\ Total(s) \in Int
  BY TotalTrace
<1>2. u(0) = <<>> /\ u(n) = t
  BY WholeAndNothing
<1>3. 0 \in T
  <2>1. s \o <<>> = s /\ <<>> \in Seq(Int)
    OBVIOUS
  <2> HIDE DEF u, n
  <2>2. s \o u(0) = s /\ u(0) \in Seq(Int)
    BY <1>2, <2>1
  <2>3. Total(u(0)) = 0
    BY <1>2, TotalOfNothing
  <2>4. Total(s \o u(0)) = Total(s) + Total(u(0))
    <3>1. Total(s \o u(0)) = Total(s)
      BY <2>2, Zenon
    <3>2. Total(s) = Total(s) + 0
      BY <1>1
    <3> QED BY <2>3, <3>1, <3>2, Zenon
  <2> QED BY <1>1, <2>2, <2>4
<1>4. ASSUME NEW k \in 1..n, k - 1 \in T PROVE k \in T
  <2>1. u(k) = Append(u(k - 1), t[k]) /\ t[k] \in Int /\ u(k - 1) \in Seq(Int)
    BY PrefixGrows
  <2>2. Total(s \o u(k - 1)) = Total(s) + Total(u(k - 1)) /\ s \o u(k - 1) \in Seq(Int)
    BY <1>4
  <2> HIDE DEF u, n
  <2>3. s \o u(k) = Append(s \o u(k - 1), t[k])
    <3> DEFINE a == u(k - 1)
               e == t[k]
    <3>1. a \in Seq(Int) /\ e \in Int /\ u(k) = Append(a, e)
      BY <2>1
    <3> HIDE DEF a, e
    <3>2. Append(a, e) = a \o <<e>> /\ Append(s \o a, e) = (s \o a) \o <<e>>
      BY <3>1, AppendIsConcat, ConcatProperties
    <3>3. s \o (a \o <<e>>) = (s \o a) \o <<e>>
      BY <3>1, ConcatAssociative
    <3> QED BY <3>1, <3>2, <3>3 DEF a, e
  <2>4. /\ Total(u(k)) = Total(u(k - 1)) + t[k] /\ Total(u(k - 1)) \in Int
        /\ Total(s \o u(k)) = Total(s \o u(k - 1)) + t[k]
    BY <2>1, <2>2, <2>3, TotalAppend
  <2>5. s \o u(k) \in Seq(Int) /\ u(k) \in Seq(Int)
    BY <2>1, <2>2, <2>3
  <2>6. k \in 0..n
    BY <1>1
  <2>7. Total(s \o u(k)) = Total(s) + Total(u(k))
    <3> DEFINE a == Total(u(k - 1))
               b == Total(s)
    <3>1. a \in Int /\ b \in Int /\ t[k] \in Int
      BY <1>1, <2>1, <2>4
    <3>2. Total(s \o u(k)) = (b + a) + t[k] /\ Total(u(k)) = a + t[k]
      BY <2>2, <2>4
    <3> HIDE DEF a, b
    <3>3. Total(s \o u(k)) = b + Total(u(k))
      BY <3>1, <3>2
    <3> QED BY <3>3 DEF b
  <2> QED BY <2>5, <2>6, <2>7
<1>5. n \in T
  <2>1. 0..n \subseteq T
    <3> HIDE DEF T, n
    <3> QED BY <1>1, <1>3, <1>4, IntervalInduction
  <2> QED BY <1>1, <2>1
<1> QED
  BY <1>2, <1>5

\* A sum of positive terms.
LEMMA PositiveTotal ==
    ASSUME NEW s \in Seq(Positive), s # <<>>
    PROVE  Total(s) \in Positive
<1> DEFINE n == Len(s)
<1>1. n \in Nat /\ n > 0 /\ s \in Seq(Int) /\ \A k \in 1..n : s[k] \in Nat /\ s[k] > 0
  BY DEF Positive
<1>2. PICK h \in [0..n -> Int] :
        /\ h[0] = 0 /\ \A k \in 1..n : h[k] = h[k - 1] + s[k]
        /\ Total(s) = h[n]
  BY <1>1, TotalTrace
<1> DEFINE T == {k \in 0..n : h[k] >= k}
<1>3. 0 \in T
  BY <1>1, <1>2
<1>4. ASSUME NEW k \in 1..n, k - 1 \in T PROVE k \in T
  <2>1. h[k] = h[k - 1] + s[k] /\ h[k - 1] >= k - 1
    BY <1>2, <1>4
  <2>2. s[k] > 0 /\ s[k] \in Nat /\ k \in 0..n /\ k - 1 \in 0..n
    BY <1>1
  <2>3. h[k - 1] \in Int
    BY <1>2, <2>2
  <2> QED BY <2>1, <2>2, <2>3
<1>5. n \in T
  <2>1. 0..n \subseteq T
    <3> HIDE DEF T, n
    <3> QED BY <1>1, <1>3, <1>4, IntervalInduction
  <2> QED BY <1>1, <2>1
<1> QED
  BY <1>1, <1>2, <1>5 DEF Positive

\* Sizes and prices of trades.
Sizes(ts) == [i \in DOMAIN ts |-> ts[i].size]
Prices(ts) == {ts[i].price : i \in DOMAIN ts}

\* Those of more trades.
LEMMA TradesJoin ==
    ASSUME NEW ts \in Seq(Trade), NEW us \in Seq(Trade)
    PROVE  /\ ts \o us \in Seq(Trade)
           /\ Prices(ts) \subseteq Positive
           /\ Prices(ts \o us) = Prices(ts) \cup Prices(us)
           /\ Sizes(ts) \in Seq(Positive) /\ (ts # <<>> => Sizes(ts) # <<>>)
           /\ Total(Sizes(ts \o us)) = Total(Sizes(ts)) + Total(Sizes(us))
           /\ Total(Sizes(ts)) \in Nat
<1> DEFINE n == Len(ts)
           m == Len(us)
           both == ts \o us
<1>1. /\ n \in Nat /\ m \in Nat /\ DOMAIN ts = 1..n /\ DOMAIN us = 1..m
      /\ \A i \in 1..n : ts[i] \in Trade
      /\ \A i \in 1..m : us[i] \in Trade
  OBVIOUS
<1>2. /\ both \in Seq(Trade) /\ Len(both) = n + m /\ DOMAIN both = 1..(n + m)
      /\ \A i \in 1..n : both[i] = ts[i]
      /\ \A i \in 1..m : both[n + i] = us[i]
  OBVIOUS
<1>3. \A t \in Trade : t.price \in Positive /\ t.size \in Positive
  BY DEF Trade, Positive
<1> HIDE DEF n, m, both
<1>4. \A i \in 1..(n + m) : i \in 1..n \/ \E j \in 1..m : i = n + j
  <2> SUFFICES ASSUME NEW i \in 1..(n + m), ~(i \in 1..n)
               PROVE  \E j \in 1..m : i = n + j
    OBVIOUS
  <2>1. i - n \in 1..m /\ i = n + (i - n)
    BY <1>1
  <2> QED BY <2>1
<1>5. \A i \in 1..n : i \in 1..(n + m)
  BY <1>1
<1>6. \A i \in 1..m : n + i \in 1..(n + m)
  BY <1>1
<1>7. Prices(both) = Prices(ts) \cup Prices(us)
  <2>1. ASSUME NEW p \in Prices(both) PROVE p \in Prices(ts) \cup Prices(us)
    <3>1. PICK i \in 1..(n + m) : p = both[i].price
      BY <1>2 DEF Prices
    <3>2. CASE i \in 1..n
      BY <1>1, <1>2, <3>1, <3>2 DEF Prices
    <3>3. CASE \E j \in 1..m : i = n + j
      <4>1. PICK j \in 1..m : i = n + j
        BY <3>3
      <4>2. p = us[j].price
        BY <1>2, <3>1, <4>1
      <4> QED BY <1>1, <4>2 DEF Prices
    <3> QED BY <1>4, <3>2, <3>3
  <2>2. ASSUME NEW p \in Prices(ts) PROVE p \in Prices(both)
    <3>1. PICK i \in 1..n : p = ts[i].price
      BY <1>1 DEF Prices
    <3>2. i \in DOMAIN both /\ p = both[i].price
      BY <1>2, <1>5, <3>1
    <3> QED BY <3>2 DEF Prices
  <2>3. ASSUME NEW p \in Prices(us) PROVE p \in Prices(both)
    <3>1. PICK i \in 1..m : p = us[i].price
      BY <1>1 DEF Prices
    <3>2. n + i \in DOMAIN both /\ p = both[n + i].price
      BY <1>2, <1>6, <3>1
    <3> QED BY <3>2 DEF Prices
  <2> QED BY <2>1, <2>2, <2>3
<1>8. Prices(ts) \subseteq Positive
  BY <1>1, <1>3 DEF Prices
<1>9. /\ Sizes(ts) \in Seq(Positive) /\ Len(Sizes(ts)) = n
      /\ \A i \in 1..n : Sizes(ts)[i] = ts[i].size
  BY <1>1, <1>3 DEF Sizes
<1>10. /\ Sizes(us) \in Seq(Positive) /\ Len(Sizes(us)) = m
       /\ \A i \in 1..m : Sizes(us)[i] = us[i].size
  BY <1>1, <1>3 DEF Sizes
<1>11. Sizes(both) = Sizes(ts) \o Sizes(us)
  <2> DEFINE a == Sizes(ts)
             b == Sizes(us)
             xs == a \o b
  <2>1. /\ a \in Seq(Positive) /\ b \in Seq(Positive) /\ Len(a) = n /\ Len(b) = m
    BY <1>9, <1>10
  <2> HIDE DEF a, b
  <2>2. xs \in Seq(Positive) /\ Len(xs) = n + m
    BY <2>1, ConcatProperties
  <2>3. /\ \A i \in 1..n : xs[i] = a[i]
        /\ \A i \in 1..m : xs[n + i] = b[i]
    BY <1>1, <2>1
  <2> HIDE DEF xs
  <2>4. xs = [i \in 1..(n + m) |-> xs[i]]
    BY <2>2
  <2>5. Sizes(both) = [i \in 1..(n + m) |-> both[i].size]
    BY <1>2 DEF Sizes
  <2>6. ASSUME NEW i \in 1..(n + m) PROVE both[i].size = xs[i]
    <3>1. CASE i \in 1..n
      BY <1>2, <1>9, <2>3, <3>1 DEF a
    <3>2. CASE \E j \in 1..m : i = n + j
      BY <1>2, <1>10, <2>3, <3>2 DEF b
    <3> QED BY <1>4, <3>1, <3>2
  <2> QED BY <2>4, <2>5, <2>6 DEF xs, a, b
<1>12. Sizes(ts) \in Seq(Int) /\ Sizes(us) \in Seq(Int)
  BY <1>9, <1>10 DEF Positive
<1>13. Total(Sizes(both)) = Total(Sizes(ts)) + Total(Sizes(us))
  BY <1>11, <1>12, TotalOfBoth
<1>14. ts # <<>> => Sizes(ts) # <<>>
  BY <1>1, <1>9 DEF n
<1>15. Total(Sizes(ts)) \in Nat
  <2>1. CASE ts = <<>>
    <3>1. n = 0
      BY <2>1 DEF n
    <3>2. Sizes(ts) = <<>>
      BY <1>9, <3>1
    <3> QED BY <3>2, TotalOfNothing
  <2>2. CASE ts # <<>>
    BY <1>9, <1>14, <2>2, PositiveTotal DEF Positive
  <2> QED BY <2>1, <2>2
<1> QED
  BY <1>2, <1>7, <1>8, <1>9, <1>13, <1>14, <1>15 DEF both

\* r is b after a trade or candlestick like c (candlesticks.go:134-222).
Joins(r, b, c) ==
    /\ r.low = Lower(OrFirst(b.low, c.low), c.low)
    /\ r.high = Higher(OrFirst(b.high, c.high), c.high)
    /\ r.open = OrFirst(b.open, c.open) /\ r.close = c.close
    /\ r.volume = b.volume + c.volume

\* What sums up some trades is led on to sum up more.
LEMMA JoinSumsUp ==
    ASSUME NEW ts \in Seq(Trade), NEW us \in Seq(Trade), us # <<>>,
           NEW b \in Candle, SumsUp(b, ts), NEW c \in Candle, SumsUp(c, us),
           NEW r \in Candle, Joins(r, b, c)
    PROVE  SumsUp(r, ts \o us)
<1> DEFINE n == Len(ts)
           m == Len(us)
           both == ts \o us
<1>1. /\ both \in Seq(Trade) /\ Prices(both) = Prices(ts) \cup Prices(us)
      /\ Prices(ts) \subseteq Positive /\ Prices(us) \subseteq Positive
      /\ Total(Sizes(both)) = Total(Sizes(ts)) + Total(Sizes(us))
  BY TradesJoin
<1>2. /\ n \in Nat /\ m \in Nat /\ m > 0 /\ Len(both) = n + m /\ both # <<>>
      /\ both[n + m] = us[m] /\ (n > 0 => both[1] = ts[1])
      /\ (n = 0 => both = us) /\ (ts = <<>> <=> n = 0)
  OBVIOUS
<1> HIDE DEF n, m, both
<1>3. /\ c.open = us[1].price /\ c.close = us[m].price
      /\ c.low \in Prices(us) /\ c.high \in Prices(us)
      /\ \A p \in Prices(us) : c.low <= p /\ p <= c.high
      /\ c.volume = Total(Sizes(us))
  BY DEF SumsUp, Prices, Sizes, m
<1>4. /\ r.low = Lower(OrFirst(b.low, c.low), c.low)
      /\ r.high = Higher(OrFirst(b.high, c.high), c.high)
      /\ r.open = OrFirst(b.open, c.open) /\ r.close = c.close
      /\ r.volume = b.volume + c.volume
  BY DEF Joins
<1>5. c.low \in Nat /\ c.high \in Nat /\ c.volume \in Nat
  BY DEF Candle
<1>6. SUFFICES /\ r.open = both[1].price /\ r.close = both[n + m].price
               /\ r.low \in Prices(both) /\ r.high \in Prices(both)
               /\ \A p \in Prices(both) : r.low <= p /\ p <= r.high
               /\ r.volume = Total(Sizes(both))
  BY <1>2 DEF SumsUp, Prices, Sizes, both
<1>7. CASE n = 0
  <2>1. both = us /\ n + m = m
    BY <1>2, <1>7
  <2>2. b = NewCandlestickBuilder(b.start, b.end)
    BY <1>2, <1>7 DEF SumsUp
  <2>3. b.low = 0 /\ b.high = 0 /\ b.open = 0 /\ b.volume = 0
    BY <2>2 DEF NewCandlestickBuilder
  <2>4. r.low = c.low /\ r.high = c.high /\ r.open = c.open /\ r.volume = c.volume
    BY <1>4, <1>5, <2>3 DEF OrFirst, Lower, Higher
  <2> QED BY <1>3, <1>4, <2>1, <2>4
<1>8. CASE n > 0
  <2>1. /\ b.open = ts[1].price
        /\ b.low \in Prices(ts) /\ b.high \in Prices(ts)
        /\ \A p \in Prices(ts) : b.low <= p /\ p <= b.high
        /\ b.volume = Total(Sizes(ts))
    BY <1>2, <1>8 DEF SumsUp, Prices, Sizes
  <2>2. b.open \in Prices(ts)
    <3>1. 1 \in DOMAIN ts
      BY <1>8 DEF n
    <3> QED BY <2>1, <3>1 DEF Prices
  <2>3. b.low \in Positive /\ b.high \in Positive /\ b.open \in Positive
    BY <1>1, <2>1, <2>2
  <2>4. /\ OrFirst(b.low, c.low) = b.low /\ OrFirst(b.high, c.high) = b.high
        /\ OrFirst(b.open, c.open) = b.open
    BY <2>3 DEF OrFirst, Positive
  <2>5. r.low = (IF c.low < b.low THEN c.low ELSE b.low)
    BY <1>4, <2>4 DEF Lower
  <2>6. r.high = (IF c.high > b.high THEN c.high ELSE b.high)
    BY <1>4, <2>4 DEF Higher
  <2>7. r.open = both[1].price /\ r.close = both[n + m].price
    BY <1>2, <1>3, <1>4, <1>8, <2>1, <2>4
  <2>8. r.low \in Prices(both) /\ r.high \in Prices(both)
    BY <1>1, <1>3, <2>1, <2>5, <2>6
  <2>9. b.low \in Nat /\ b.high \in Nat
    BY <2>3 DEF Positive
  <2>10. /\ r.low <= b.low /\ r.low <= c.low /\ b.high <= r.high /\ c.high <= r.high
         /\ r.low \in Nat /\ r.high \in Nat
    BY <1>5, <2>5, <2>6, <2>9
  <2>11. ASSUME NEW p \in Prices(both) PROVE r.low <= p /\ p <= r.high
    <3>1. p \in Nat
      BY <1>1 DEF Positive
    <3>2. CASE p \in Prices(ts)
      BY <2>1, <2>9, <2>10, <3>1, <3>2
    <3>3. CASE p \in Prices(us)
      BY <1>3, <1>5, <2>10, <3>1, <3>3
    <3> QED BY <1>1, <3>2, <3>3
  <2>12. r.volume = Total(Sizes(both))
    BY <1>1, <1>3, <1>4, <2>1
  <2> QED BY <2>7, <2>8, <2>11, <2>12
<1> QED
  BY <1>2, <1>7, <1>8

\* The candlestick of a minute sums up its trades,
LEMMA MinuteSumsUp ==
    ASSUME NEW m \in Nat, market[m] \in Seq(Trade)
    PROVE  SumsUp(MinuteCandlestick(m), market[m])
<1> DEFINE n == Len(market[m])
           ts(k) == SubSeq(market[m], 1, k)
<1>1. PICK h \in [0..n -> BuiltFor(m, m + 1)] :
        /\ h[0] = NewCandlestickBuilder(m, m + 1)
        /\ \A k \in 1..n : h[k] = ProcessMessage(h[k - 1], TradesOf(m)[k])
        /\ MinuteCandlestick(m) = h[n]
  BY MinuteTrace
<1>2. n \in Nat /\ ts(0) = <<>> /\ ts(n) = market[m]
  BY WholeAndNothing
<1> DEFINE T == {k \in 0..n : SumsUp(h[k], ts(k))}
<1>3. 0 \in T
  <2>1. h[0] = NewCandlestickBuilder(h[0].start, h[0].end)
    BY <1>1 DEF NewCandlestickBuilder
  <2>2. SumsUp(h[0], <<>>)
    BY <2>1 DEF SumsUp
  <2> HIDE DEF ts
  <2> QED BY <1>2, <2>2
<1>4. ASSUME NEW k \in 1..n, k - 1 \in T PROVE k \in T
  <2> DEFINE t == market[m][k]
             b == h[k - 1]
             r == h[k]
             c == [start |-> m, end |-> m + 1, low |-> t.price, high |-> t.price,
                   open |-> t.price, close |-> t.price, volume |-> t.size]
  <2>1. /\ t \in Trade /\ ts(k - 1) \in Seq(Trade) /\ ts(k) = Append(ts(k - 1), t)
    BY PrefixGrows
  <2>2. b \in BuiltFor(m, m + 1) /\ r \in BuiltFor(m, m + 1) /\ SumsUp(b, ts(k - 1))
    BY <1>1, <1>2, <1>4
  <2>3. t.price \in Positive /\ t.size \in Positive
    BY <2>1 DEF Trade, Positive
  <2>4. TradesOf(m)[k] = [time |-> m, price |-> t.price, size |-> t.size]
    BY DEF TradesOf
  <2>5. r = ProcessMessage(b, [time |-> m, price |-> t.price, size |-> t.size])
    BY <1>1, <2>4
  <2> HIDE DEF t, b, r, ts
  <2>6. b.start <= m /\ m <= b.end
    BY <2>2 DEF BuiltFor
  <2>7. r = [b EXCEPT !.volume = b.volume + t.size,
                      !.low = Lower(OrFirst(b.low, t.price), t.price),
                      !.high = Higher(OrFirst(b.high, t.price), t.price),
                      !.open = OrFirst(b.open, t.price),
                      !.close = t.price]
    BY <2>5, <2>6 DEF ProcessMessage
  <2>8. Joins(r, b, c)
    BY <2>2, <2>7 DEF Joins, BuiltFor, Candle
  <2>9. c \in Candle
    BY <2>3 DEF Candle, Positive
  <2>10. SumsUp(c, <<t>>)
    <3>1. /\ <<t>> # <<>> /\ Len(<<t>>) = 1 /\ DOMAIN <<t>> = {1} /\ <<t>>[1] = t
      OBVIOUS
    <3>2. [i \in DOMAIN <<t>> |-> <<t>>[i].size] = Append(<<>>, t.size)
      OBVIOUS
    <3>3. Total(Append(<<>>, t.size)) = t.size
      <4>1. <<>> \in Seq(Int) /\ t.size \in Int
        BY <2>3 DEF Positive
      <4>2. Total(Append(<<>>, t.size)) = Total(<<>>) + t.size
        BY <4>1, TotalAppend
      <4> QED BY <4>1, <4>2, TotalOfNothing
    <3>4. {<<t>>[i].price : i \in DOMAIN <<t>>} = {t.price}
      BY <3>1
    <3>5. t.price <= t.price
      BY <2>3 DEF Positive
    <3> QED BY <3>1, <3>2, <3>3, <3>4, <3>5 DEF SumsUp
  <2>11. <<t>> \in Seq(Trade) /\ <<t>> # <<>> /\ ts(k - 1) \o <<t>> = ts(k)
    BY <2>1
  <2>12. b \in Candle /\ r \in Candle
    BY <2>2 DEF BuiltFor
  <2>13. SumsUp(r, ts(k))
    BY <2>1, <2>2, <2>8, <2>9, <2>10, <2>11, <2>12, JoinSumsUp
  <2> QED BY <1>2, <2>13 DEF r
<1>5. n \in T
  <2>1. 0..n \subseteq T
    <3> HIDE DEF T, n
    <3> QED BY <1>2, <1>3, <1>4, IntervalInduction
  <2> QED BY <1>2, <2>1
<1> QED
  BY <1>1, <1>2, <1>5

\* and has volume if there are any.
LEMMA TradedHasVolume ==
    ASSUME NEW c, NEW ts \in Seq(Trade), SumsUp(c, ts)
    PROVE  c.volume = 0 <=> ts = <<>>
<1>1. CASE ts = <<>>
  BY <1>1 DEF SumsUp, NewCandlestickBuilder
<1>2. CASE ts # <<>>
  <2>1. c.volume = Total(Sizes(ts))
    BY <1>2 DEF SumsUp, Sizes
  <2>2. Sizes(ts) \in Seq(Positive) /\ Sizes(ts) # <<>>
    BY <1>2, TradesJoin
  <2>3. Total(Sizes(ts)) \in Positive
    BY <2>2, PositiveTotal
  <2> QED BY <1>2, <2>1, <2>3 DEF Positive
<1> QED
  BY <1>1, <1>2

\* The minutes of the range and their trades.
LEMMA MinutesOfRange ==
    ASSUME market \in Markets
    PROVE  /\ EndTime - actualStartTime \in Nat /\ actualStartTime \in Nat
           /\ \A i \in 1..(EndTime - actualStartTime) :
                 /\ MinutesInOrder[i] = actualStartTime + i - 1
                 /\ MinutesInOrder[i] \in Minutes /\ MinutesInOrder[i] \in Nat
                 /\ market[MinutesInOrder[i]] \in Seq(Trade)
           /\ \A m \in Minutes :
                 \E i \in 1..(EndTime - actualStartTime) : m = MinutesInOrder[i]
<1>1. actualStartTime \in Nat /\ EndTime \in Nat /\ EndTime - actualStartTime \in Nat
  BY BacktesterAssumption DEF actualStartTime
<1>2. \A m \in Minutes : m \in Nat /\ market[m] \in Seq(Trade)
  BY <1>1, BacktesterAssumption DEF Trade, Minutes
<1>3. \A i \in 1..(EndTime - actualStartTime) :
        /\ MinutesInOrder[i] = actualStartTime + i - 1
        /\ MinutesInOrder[i] \in Minutes
  BY <1>1 DEF MinutesInOrder, Minutes
<1>4. ASSUME NEW m \in Minutes
      PROVE  \E i \in 1..(EndTime - actualStartTime) : m = MinutesInOrder[i]
  <2>1. /\ m - actualStartTime + 1 \in 1..(EndTime - actualStartTime)
        /\ m = actualStartTime + (m - actualStartTime + 1) - 1
    BY <1>1 DEF Minutes
  <2> QED BY <1>3, <2>1
<1> QED
  BY <1>1, <1>2, <1>3, <1>4

\* The trades of a period, minute by minute.
LEMMA TradesTrace ==
    ASSUME market \in Markets, NEW start, NEW end
    PROVE  /\ TradesFrom(start, end) \in Seq(Trade)
           /\ \E h \in [0..(EndTime - actualStartTime) -> Seq(Trade)] :
                 /\ h[0] = <<>>
                 /\ \A k \in 1..(EndTime - actualStartTime) :
                       h[k] = AddTrades(h[k - 1], MinutesInOrder[k], start, end)
                 /\ TradesFrom(start, end) = h[EndTime - actualStartTime]
<1> DEFINE n == EndTime - actualStartTime
           A == Seq(Trade)
           base == <<>>
           F == [i \in 1..n |->
                    [a \in A |-> AddTrades(a, MinutesInOrder[i], start, end)]]
           IsIter(g) == g = [s \in SUBSET (1..n) |->
              IF s = {} THEN base
              ELSE AddTrades(g[s \ {Max(s)}], MinutesInOrder[Max(s)], start, end)]
           iter == CHOOSE g : IsIter(g)
<1>1. /\ n \in Nat /\ base \in A
      /\ \A a \in A, i \in 1..n : AddTrades(a, MinutesInOrder[i], start, end) \in A
  <2>1. n \in Nat
    BY BacktesterAssumption DEF actualStartTime
  <2>2. \A i \in 1..n : market[MinutesInOrder[i]] \in Seq(Trade)
    BY MinutesOfRange
  <2> QED BY <2>1, <2>2 DEF AddTrades
<1>2. F \in [1..n -> [A -> A]]
  BY <1>1
<1>3. PICK g : FoldsTo(g, A, base, n, F)
  <2> HIDE DEF A, base, F, n
  <2> QED BY <1>1, <1>2, FoldIsDefined
<1>4. \A s \in SUBSET (1..n), b \in A : s # {} =>
          F[Max(s)][b] = AddTrades(b, MinutesInOrder[Max(s)], start, end)
  <2> HIDE DEF A, base, n
  <2> QED BY <1>1, LargestOf
<1>5. IsIter(iter)
  <2>1. IsIter(g)
    <3> HIDE DEF A, base, n, F
    <3> QED BY <1>3, <1>4 DEF FoldsTo
  <2> HIDE DEF IsIter
  <2> QED BY <2>1
<1>6. TradesFrom(start, end) = iter[1..n]
  <2>1. DOMAIN MinutesInOrder = 1..n
    BY DEF MinutesInOrder
  <2> QED BY <2>1, Zenon DEF TradesFrom, FoldLeft, MapThenFoldSet
<1> HIDE DEF iter
<1>7. Iterates(iter, A, base, n, F)
  <2> HIDE DEF A, base, F, n
  <2> QED BY <1>4, <1>5 DEF Iterates
<1>8. PICK h : Traces(h, A, base, n, F) /\ h[n] = iter[1..n]
  <2> HIDE DEF A, base, F, n
  <2> QED BY <1>1, <1>2, <1>7, FoldHasTrace
<1>9. h \in [0..n -> A] /\ h[0] = base /\ TradesFrom(start, end) = h[n]
  <2> HIDE DEF A, base, F, n
  <2> QED BY <1>6, <1>8 DEF Traces
<1>10. ASSUME NEW k \in 1..n
       PROVE  h[k] = AddTrades(h[k - 1], MinutesInOrder[k], start, end)
  <2>1. h[k] = F[k][h[k - 1]] /\ h[k - 1] \in A
    <3> HIDE DEF A, base, F
    <3> QED BY <1>1, <1>8, <1>9 DEF Traces
  <2> HIDE DEF A
  <2> QED BY <2>1
<1>11. TradesFrom(start, end) \in A
  <2>1. n \in 0..n
    BY <1>1
  <2> HIDE DEF A, n
  <2> QED BY <1>9, <2>1
<1> QED
  BY <1>9, <1>10, <1>11

\* The candlesticks of the minutes, also of those without trades.
ByMinute == [i \in 1..(EndTime - actualStartTime) |->
                MinuteCandlestick(actualStartTime + i - 1)]

\* They sum the minutes up.
LEMMA MinutesSumUp ==
    ASSUME market \in Markets
    PROVE  /\ ByMinute \in Seq({c \in Candle : Priced(c)})
           /\ Len(ByMinute) = EndTime - actualStartTime
           /\ \A i \in 1..(EndTime - actualStartTime) :
                 LET m == MinutesInOrder[i]
                 IN  /\ ByMinute[i] \in Candle /\ Priced(ByMinute[i])
                     /\ ByMinute[i].start = m /\ ByMinute[i].end = m + 1
                     /\ SumsUp(ByMinute[i], market[m])
                     /\ ByMinute[i].volume = 0 <=> market[m] = <<>>
<1> DEFINE M == EndTime - actualStartTime
           C == {c \in Candle : Priced(c)}
<1>1. M \in Nat /\ actualStartTime \in Nat
  BY MinutesOfRange
<1>2. ASSUME NEW i \in 1..M
      PROVE  LET m == MinutesInOrder[i]
             IN  /\ ByMinute[i] \in Candle /\ Priced(ByMinute[i])
                 /\ ByMinute[i].start = m /\ ByMinute[i].end = m + 1
                 /\ SumsUp(ByMinute[i], market[m])
                 /\ ByMinute[i].volume = 0 <=> market[m] = <<>>
  <2> DEFINE m == MinutesInOrder[i]
             c == ByMinute[i]
  <2>1. /\ m \in Nat /\ market[m] \in Seq(Trade) /\ m = actualStartTime + i - 1
    BY MinutesOfRange
  <2>2. c = MinuteCandlestick(m)
    BY <2>1 DEF ByMinute
  <2> HIDE DEF m, c
  <2>3. c \in BuiltFor(m, m + 1)
    BY <2>1, <2>2, MinuteTrace
  <2>4. SumsUp(c, market[m])
    BY <2>1, <2>2, MinuteSumsUp
  <2>5. c.volume = 0 <=> market[m] = <<>>
    BY <2>1, <2>4, TradedHasVolume
  <2>6. c \in Candle /\ Priced(c) /\ c.start = m /\ c.end = m + 1
    BY <2>3 DEF BuiltFor
  <2> QED BY <2>4, <2>5, <2>6, Zenon DEF m, c
<1>3. ByMinute = [i \in 1..M |-> ByMinute[i]]
  BY DEF ByMinute
<1>4. \A i \in 1..M : ByMinute[i] \in C
  BY <1>2
<1>5. ByMinute \in Seq(C) /\ Len(ByMinute) = M
  <2> HIDE DEF M, C
  <2>1. ByMinute \in [1..M -> C]
    BY <1>3, <1>4
  <2> QED BY <1>1, <2>1
<1> QED
  BY <1>2, <1>5

\* What has been kept remains at its place.
LEMMA KeptRemains ==
    ASSUME NEW cs \in Seq({c \in Candle : Priced(c)}),
           NEW v \in [0..Len(cs) -> Seq(Stored)], Keeps(v, cs),
           NEW n \in 0..Len(cs), NEW k \in 0..n
    PROVE  /\ Len(v[k]) \in Nat /\ Len(v[n]) \in Nat /\ Len(v[k]) <= Len(v[n])
           /\ \A j \in 1..Len(v[k]) : v[n][j] = v[k][j]
<1> DEFINE N == Len(cs)
           Begins(i) == /\ Len(v[k]) <= Len(v[i])
                        /\ \A j \in 1..Len(v[k]) : v[i][j] = v[k][j]
           T == {i \in 0..N : k <= i => Begins(i)}
<1>1. /\ N \in Nat /\ k \in Nat
      /\ \A i \in 0..N : v[i] \in Seq(Stored) /\ Len(v[i]) \in Nat
  OBVIOUS
<1>2. Begins(k)
  BY <1>1
<1>3. 0 \in T
  <2>1. k <= 0 => k = 0
    BY <1>1
  <2> HIDE DEF Begins
  <2> QED BY <1>1, <1>2, <2>1
<1>4. ASSUME NEW i \in 1..N, i - 1 \in T PROVE i \in T
  <2>1. CASE k = i
    <3> HIDE DEF Begins
    <3> QED BY <1>1, <1>2, <2>1
  <2>2. CASE k <= i - 1
    <3> DEFINE a == v[i - 1]
               b == v[i]
    <3>1. a \in Seq(Stored) /\ b = KeepWithVolume(a, cs[i]) /\ i \in 0..N
      BY <1>1 DEF Keeps
    <3>2. Begins(i - 1)
      BY <1>4, <2>2
    <3>3. Len(v[k]) <= Len(a) /\ \A j \in 1..Len(v[k]) : a[j] = v[k][j]
      BY <3>2
    <3>4. Len(v[k]) \in Nat
      BY <1>1
    <3>5. b \in Seq(Stored)
      BY <3>1
    <3> HIDE DEF a, b
    <3>6. Len(a) <= Len(b) /\ \A j \in 1..Len(a) : b[j] = a[j]
      <4>1. CASE cs[i].volume > 0
        BY <3>1, <4>1 DEF KeepWithVolume
      <4>2. CASE ~(cs[i].volume > 0)
        BY <3>1, <4>2 DEF KeepWithVolume
      <4> QED BY <4>1, <4>2
    <3>7. Len(v[k]) <= Len(b) /\ \A j \in 1..Len(v[k]) : b[j] = v[k][j]
      BY <3>1, <3>3, <3>4, <3>5, <3>6
    <3> QED BY <3>1, <3>7 DEF b
  <2>3. CASE ~(k <= i)
    BY <1>1, <2>3
  <2> QED BY <1>1, <2>1, <2>2, <2>3
<1>5. n \in T
  <2>1. 0..N \subseteq T
    <3> HIDE DEF T, N
    <3> QED BY <1>1, <1>3, <1>4, IntervalInduction
  <2> QED BY <2>1
<1>6. Begins(n)
  <2> HIDE DEF Begins
  <2> QED BY <1>1, <1>5
<1> QED
  BY <1>1, <1>6

\* The minutes are kept in order.
LEMMA KeptInOrder ==
    ASSUME market \in Markets,
           NEW v \in [0..Len(ByMinute) -> Seq(Stored)], Keeps(v, ByMinute),
           NEW n \in 0..Len(ByMinute)
    PROVE  /\ \A i \in 1..Len(v[n]) :
                 v[n][i].start \in Nat /\ v[n][i].start < actualStartTime + n
           /\ \A i, j \in 1..Len(v[n]) : i <= j => v[n][i].start <= v[n][j].start
<1> DEFINE N == Len(ByMinute)
           Earlier(k) == \A i \in 1..Len(v[k]) :
                 v[k][i].start \in Nat /\ v[k][i].start < actualStartTime + k
           Ordered(k) == \A i, j \in 1..Len(v[k]) :
                 i <= j => v[k][i].start <= v[k][j].start
           T == {k \in 0..N : Earlier(k) /\ Ordered(k)}
<1>1. N \in Nat /\ N = EndTime - actualStartTime /\ actualStartTime \in Nat
  BY MinutesSumUp, MinutesOfRange
<1>2. 0 \in T
  <2>1. v[0] = <<>>
    BY DEF Keeps
  <2>2. Earlier(0) /\ Ordered(0)
    BY <2>1
  <2> HIDE DEF Earlier, Ordered
  <2> QED BY <1>1, <2>2
<1>3. ASSUME NEW k \in 1..N, k - 1 \in T PROVE k \in T
  <2> DEFINE a == v[k - 1]
             b == v[k]
             c == ByMinute[k]
             s == actualStartTime
  <2>1. /\ a \in Seq(Stored) /\ b = KeepWithVolume(a, c) /\ k \in 0..N /\ k \in Nat
        /\ Len(a) \in Nat
    BY <1>1 DEF Keeps
  <2>2. /\ \A i \in 1..Len(a) : a[i].start \in Nat /\ a[i].start < s + (k - 1)
        /\ \A i, j \in 1..Len(a) : i <= j => a[i].start <= a[j].start
    BY <1>3
  <2>3. c.start = s + k - 1 /\ s \in Nat
    <3>1. c.start = MinutesInOrder[k]
      BY <1>1, MinutesSumUp
    <3>2. MinutesInOrder[k] = s + k - 1
      BY <1>1, MinutesOfRange
    <3> QED BY <1>1, <3>1, <3>2
  <2>4. SUFFICES /\ \A i \in 1..Len(b) : b[i].start \in Nat /\ b[i].start < s + k
                 /\ \A i, j \in 1..Len(b) : i <= j => b[i].start <= b[j].start
    BY <2>1
  <2> HIDE DEF a, b, c, s
  <2>5. CASE c.volume > 0
    <3> DEFINE m == Len(a)
    <3>1. b = Append(a, c) /\ m \in Nat
      BY <2>1, <2>5 DEF KeepWithVolume
    <3>2. /\ Len(b) = m + 1 /\ b[m + 1] = c
          /\ \A i \in 1..m : b[i] = a[i]
      BY <2>1, <3>1
    <3> HIDE DEF m
    <3>3. \A i \in 1..(m + 1) : i \in 1..m \/ i = m + 1
      BY <3>1
    <3>4. ASSUME NEW i \in 1..(m + 1)
          PROVE  /\ b[i].start \in Nat /\ b[i].start < s + k
                 /\ b[i].start <= c.start
      <4>1. CASE i \in 1..m
        BY <2>1, <2>2, <2>3, <3>2, <4>1 DEF m
      <4>2. CASE i = m + 1
        BY <2>1, <2>3, <3>2, <4>2
      <4> QED BY <3>3, <4>1, <4>2
    <3>5. ASSUME NEW i \in 1..(m + 1), NEW j \in 1..(m + 1), i <= j
          PROVE  b[i].start <= b[j].start
      <4>1. CASE j = m + 1
        BY <3>2, <3>4, <4>1
      <4>2. CASE j \in 1..m
        <5>1. i \in 1..m
          BY <3>1, <3>5, <4>2
        <5> QED BY <2>2, <3>2, <3>5, <4>2, <5>1 DEF m
      <4> QED BY <3>3, <4>1, <4>2
    <3> QED BY <3>2, <3>4, <3>5
  <2>6. CASE ~(c.volume > 0)
    <3>1. b = a
      BY <2>1, <2>6 DEF KeepWithVolume
    <3> QED BY <2>1, <2>2, <2>3, <3>1
  <2> QED BY <2>5, <2>6
<1>4. n \in T
  <2>1. 0..N \subseteq T
    <3> HIDE DEF T, N
    <3> QED BY <1>1, <1>2, <1>3, IntervalInduction
  <2> QED BY <2>1
<1> QED
  BY <1>4

\* The minutes with trades are stored, and in order.
LEMMA StoredInOrder ==
    ASSUME market \in Markets
    PROVE  /\ \A i, j \in DOMAIN StoredCandlesticks :
                 i <= j => StoredCandlesticks[i].start <= StoredCandlesticks[j].start
           /\ \A m \in Minutes : market[m] # <<>> =>
                 \E j \in DOMAIN StoredCandlesticks : StoredCandlesticks[j].start = m
<1> DEFINE N == Len(ByMinute)
           cs == StoredCandlesticks
<1>1. /\ N \in Nat /\ N \in 0..N /\ N = EndTime - actualStartTime
      /\ ByMinute \in Seq({c \in Candle : Priced(c)})
  BY MinutesSumUp, MinutesOfRange
<1>2. PICK v \in [0..N -> Seq(Stored)] :
        Keeps(v, ByMinute) /\ WithVolume(ByMinute) = v[N]
  BY <1>1, KeptTrace
<1>3. cs = v[N]
  BY <1>2 DEF StoredCandlesticks, ByMinute
<1> HIDE DEF cs
<1>4. \A i, j \in 1..Len(v[N]) : i <= j => v[N][i].start <= v[N][j].start
  BY <1>1, <1>2, KeptInOrder
<1>5. v[N] \in Seq(Stored)
  BY <1>1
<1>6. ASSUME NEW m \in Minutes, market[m] # <<>>
      PROVE  \E j \in 1..Len(v[N]) : v[N][j].start = m
  <2>1. PICK k \in 1..N : m = MinutesInOrder[k]
    BY <1>1, MinutesOfRange
  <2> DEFINE c == ByMinute[k]
             a == v[k - 1]
  <2>2. c.start = m /\ c \in Candle /\ (c.volume = 0 <=> market[m] = <<>>)
    BY <1>1, <2>1, MinutesSumUp
  <2>3. c.volume > 0
    BY <1>6, <2>2 DEF Candle
  <2>4. /\ a \in Seq(Stored) /\ v[k] = KeepWithVolume(a, c)
        /\ k \in 0..N /\ k - 1 \in 0..N
    <3>1. k \in 0..N /\ k - 1 \in 0..N
      BY <1>1
    <3>2. v[k] = KeepWithVolume(v[k - 1], ByMinute[k])
      BY <1>2 DEF Keeps
    <3>3. v[k - 1] \in Seq(Stored)
      BY <1>2, <3>1
    <3> QED BY <3>1, <3>2, <3>3
  <2> HIDE DEF a, c
  <2>5. v[k] = Append(a, c)
    BY <2>3, <2>4 DEF KeepWithVolume
  <2>6. Len(v[k]) \in 1..Len(v[k]) /\ v[k][Len(v[k])] = c
    BY <2>4, <2>5
  <2>7. k \in 0..N /\ N \in 0..N /\ k \in 0..N
    BY <1>1
  <2>8. /\ Len(v[k]) \in Nat /\ Len(v[N]) \in Nat /\ Len(v[k]) <= Len(v[N])
        /\ \A j \in 1..Len(v[k]) : v[N][j] = v[k][j]
    BY <1>1, <1>2, <2>7, KeptRemains
  <2>9. Len(v[k]) \in 1..Len(v[N]) /\ v[N][Len(v[k])].start = m
    BY <2>2, <2>6, <2>8
  <2> QED BY <2>9
<1> QED
  BY <1>3, <1>4, <1>5, <1>6 DEF cs

\* Division by a tick size.
LEMMA WholeTicks ==
    ASSUME NEW size \in Nat \ {0}, NEW q \in Nat, NEW t \in Nat
    PROVE  /\ t \div size \in Nat /\ (q * size) \div size = q
           /\ CandlestickBucket(t, size) = (t \div size) * size
           /\ CandlestickBucket(t, size) <= t /\ t < CandlestickBucket(t, size) + size
           /\ q * size <= t /\ t < q * size + size =>
                 CandlestickBucket(t, size) = q * size
           /\ \A u \in Nat : t <= u => t \div size <= u \div size
<1> DEFINE d == t \div size
           e == (q * size) \div size
<1>1. d \in Nat /\ size * d <= t /\ t < size * (d + 1)
  BY Division
<1>2. q * size \in Nat
  OBVIOUS
<1>3. e \in Nat /\ size * e <= q * size /\ q * size < size * (e + 1)
  <2> DEFINE x == q * size
  <2>1. x \in Nat
    BY <1>2
  <2> HIDE DEF x
  <2>2. x \div size \in Nat /\ size * (x \div size) <= x /\ x < size * (x \div size + 1)
    BY <2>1, Division
  <2> QED BY <2>2 DEF x
<1> HIDE DEF d, e
<1>4. \A x, y \in Nat : size * x < size * (y + 1) => x <= y
  <2> SUFFICES ASSUME NEW x \in Nat, NEW y \in Nat, size * x < size * (y + 1), y < x
               PROVE  FALSE
    OBVIOUS
  <2>1. PICK z \in Nat : x = y + 1 + z
    <3>1. x - y - 1 \in Nat /\ x = y + 1 + (x - y - 1)
      OBVIOUS
    <3> QED BY <3>1
  <2>2. size * x = size * (y + 1) + size * z /\ size * z \in Nat
    BY <2>1
  <2>3. size * (y + 1) \in Nat
    OBVIOUS
  <2> QED BY <2>2, <2>3
<1>5. size * e < size * (q + 1) /\ size * q < size * (e + 1)
  <2>1. q * size = size * q /\ size * (q + 1) = size * q + size
    OBVIOUS
  <2> QED BY <1>2, <1>3, <2>1
<1>6. e = q
  BY <1>3, <1>4, <1>5
<1>7. d * size <= t /\ t < d * size + size
  <2>1. size * d = d * size /\ size * (d + 1) = d * size + size
    BY <1>1
  <2> QED BY <1>1, <2>1
<1>8. ASSUME q * size <= t /\ t < q * size + size PROVE d = q
  <2>1. /\ size * q = q * size /\ size * (q + 1) = q * size + size
        /\ size * d \in Nat /\ size * q \in Nat /\ size * (d + 1) \in Nat
    BY <1>1
  <2>2. size * d < size * (q + 1) /\ size * q < size * (d + 1)
    BY <1>1, <1>8, <2>1
  <2> QED BY <1>1, <1>4, <2>2
<1>9. ASSUME NEW u \in Nat, t <= u PROVE d <= u \div size
  <2> DEFINE f == u \div size
  <2>1. f \in Nat /\ u < size * (f + 1)
    BY Division
  <2> HIDE DEF f
  <2>2. size * (f + 1) \in Nat /\ size * d \in Nat
    BY <1>1, <2>1
  <2>3. size * d < size * (f + 1)
    BY <1>1, <1>9, <2>1, <2>2
  <2> QED BY <1>1, <1>4, <2>1, <2>3 DEF f
<1> QED
  BY <1>1, <1>6, <1>7, <1>8, <1>9 DEF CandlestickBucket, d, e

\* The periods are whole ticks one after another, from that of the first
\* candlestick to that of the last.
LEMMA BucketsAre ==
    ASSUME NEW cs \in Seq(Stored), cs # <<>>, NEW size \in Nat \ {0},
           Head(cs).start <= Last(cs).start
    PROVE  /\ \A b \in Range(Buckets(cs, size)) :
                 \E q \in Nat : b = q * size
           /\ \A i \in 1..(Len(Buckets(cs, size)) - 1) :
                 Buckets(cs, size)[i + 1] = Buckets(cs, size)[i] + size
           /\ \A t \in Nat : Head(cs).start <= t /\ t <= Last(cs).start =>
                 CandlestickBucket(t, size) \in Range(Buckets(cs, size))
<1> DEFINE first == Head(cs).start \div size
           last == Last(cs).start \div size
           B == Buckets(cs, size)
<1>1. Head(cs).start \in Nat /\ Last(cs).start \in Nat
  BY DEF Stored, Candle, Last
<1>2. first \in Nat /\ last \in Nat /\ first <= last
  BY <1>1, WholeTicks
<1>3. /\ CandlestickBucket(Head(cs).start, size) = first * size
      /\ CandlestickBucket(Last(cs).start, size) = last * size
  BY DEF CandlestickBucket
<1>4. \A t \in Nat : Head(cs).start <= t /\ t <= Last(cs).start =>
          /\ t \div size \in Nat /\ first <= t \div size /\ t \div size <= last
          /\ CandlestickBucket(t, size) = (t \div size) * size
  BY <1>1, WholeTicks
<1> HIDE DEF first, last
<1>5. (last * size - first * size) \div size = last - first
  <2>1. last - first \in Nat /\ last * size - first * size = (last - first) * size
    BY <1>2
  <2>2. ((last - first) * size) \div size = last - first
    BY <2>1, WholeTicks
  <2> QED BY <2>1, <2>2
<1>6. B = [i \in 1..(last - first + 1) |-> first * size + (i - 1) * size]
  BY <1>3, <1>5 DEF Buckets
<1>7. last - first + 1 \in Nat /\ Len(B) = last - first + 1
      /\ DOMAIN B = 1..(last - first + 1)
  <2>1. last - first + 1 \in Nat
    BY <1>2
  <2> QED BY <1>6, <2>1
<1>8. \A i \in 1..(last - first + 1) : B[i] = first * size + (i - 1) * size
  BY <1>6
<1> HIDE DEF B
<1>9. ASSUME NEW b \in Range(B) PROVE \E q \in Nat : b = q * size
  <2>1. PICK i \in 1..(last - first + 1) : b = first * size + (i - 1) * size
    BY <1>7, <1>8 DEF Range
  <2>2. first + (i - 1) \in Nat /\ (first + (i - 1)) * size = b
    BY <1>2, <2>1
  <2> QED BY <2>2
<1>10. ASSUME NEW i \in 1..(Len(B) - 1) PROVE B[i + 1] = B[i] + size
  <2>1. i \in 1..(last - first + 1) /\ i + 1 \in 1..(last - first + 1) /\ i \in Nat
    BY <1>7
  <2>2. B[i + 1] = first * size + ((i + 1) - 1) * size
    BY <1>8, <2>1
  <2>3. B[i] = first * size + (i - 1) * size
    BY <1>8, <2>1
  <2>4. first * size \in Nat /\ ((i + 1) - 1) * size = (i - 1) * size + size
        /\ (i - 1) * size \in Int
    BY <1>2, <2>1
  <2> QED BY <2>2, <2>3, <2>4
<1>11. ASSUME NEW t \in Nat, Head(cs).start <= t, t <= Last(cs).start
       PROVE  CandlestickBucket(t, size) \in Range(B)
  <2> DEFINE d == t \div size
  <2>1. d \in Nat /\ first <= d /\ d <= last /\ CandlestickBucket(t, size) = d * size
    BY <1>4, <1>11
  <2> HIDE DEF d
  <2>2. d - first + 1 \in 1..(last - first + 1)
    BY <1>2, <2>1
  <2>3. B[d - first + 1] = first * size + ((d - first + 1) - 1) * size
    BY <1>8, <2>2
  <2>4. first * size + ((d - first + 1) - 1) * size = d * size
    BY <1>2, <2>1
  <2> QED BY <1>7, <2>1, <2>2, <2>3, <2>4 DEF Range
<1> QED
  BY <1>9, <1>10, <1>11 DEF B

\* The builder of a period joins a candlestick of the period.
LEMMA ProcessJoins ==
    ASSUME NEW start \in Nat, NEW end \in Nat, NEW b \in BuiltFor(start, end),
           NEW c \in Stored, start <= c.start, c.end <= end
    PROVE  /\ ProcessCandlestickModel(b, c) \in BuiltFor(start, end)
           /\ Joins(ProcessCandlestickModel(b, c), b, c)
<1>1. b \in Candle /\ b.start = start /\ b.end = end
  BY DEF BuiltFor
<1>2. Joins(ProcessCandlestickModel(b, c), b, c)
  BY <1>1 DEF ProcessCandlestickModel, Joins, Candle
<1>3. ProcessCandlestickModel(b, c) \in BuiltFor(start, end)
  BY ProcessCandlestickBuilds DEF Stored
<1> QED
  BY <1>2, <1>3

\* The builder of a period comes to sum up its trades.
LEMMA BuildersSumUp ==
    ASSUME market \in Markets, StoredCandlesticks # <<>>,
           NEW b \in Range(Buckets(StoredCandlesticks, TickSize))
    PROVE  SumsUp(Builders(StoredCandlesticks, TickSize)[b],
                  TradesFrom(b, b + TickSize))
<1> DEFINE N == Len(ByMinute)
           cs == StoredCandlesticks
           size == TickSize
<1>1. /\ N \in Nat /\ N \in 0..N /\ N = EndTime - actualStartTime
      /\ ByMinute \in Seq({c \in Candle : Priced(c)}) /\ size \in Nat \ {0}
  BY MinutesSumUp, MinutesOfRange, BacktesterAssumption
<1>2. PICK v \in [0..N -> Seq(Stored)] :
        Keeps(v, ByMinute) /\ WithVolume(ByMinute) = v[N]
  BY <1>1, KeptTrace
<1>3. cs = v[N] /\ cs \in Seq(Stored) /\ cs # <<>>
  BY <1>1, <1>2, MinutesAreStored DEF StoredCandlesticks, ByMinute
<1>4. PICK g \in [0..Len(cs) -> BuildersOf(cs, size)] :
        /\ g[0] = [p \in Range(Buckets(cs, size)) |->
                      NewCandlestickBuilder(p, p + size)]
        /\ \A k \in 1..Len(cs) : g[k] = AddCandle(g[k - 1], cs[k], size)
        /\ Builders(cs, size) = g[Len(cs)]
  BY <1>1, <1>3, BuildersTrace
<1>5. PICK tau \in [0..N -> Seq(Trade)] :
        /\ tau[0] = <<>>
        /\ \A k \in 1..N :
              tau[k] = AddTrades(tau[k - 1], MinutesInOrder[k], b, b + size)
        /\ TradesFrom(b, b + size) = tau[N]
  <2>1. \E h \in [0..(EndTime - actualStartTime) -> Seq(Trade)] :
          /\ h[0] = <<>>
          /\ \A k \in 1..(EndTime - actualStartTime) :
                h[k] = AddTrades(h[k - 1], MinutesInOrder[k], b, b + size)
          /\ TradesFrom(b, b + size) = h[EndTime - actualStartTime]
    <3> HIDE DEF size
    <3> QED BY TradesTrace
  <2> HIDE DEF N, size
  <2> QED BY <1>1, <2>1, Zenon
<1>6. b \in Nat /\ b \in Range(Buckets(cs, size)) /\ \E q \in Nat : b = q * size
  <2>1. Head(cs) = cs[1] /\ Last(cs) = cs[Len(cs)] /\ 1 \in DOMAIN cs
        /\ Len(cs) \in DOMAIN cs /\ 1 <= Len(cs)
    BY <1>3 DEF Last
  <2>2. Head(cs).start <= Last(cs).start
    BY <2>1, StoredInOrder
  <2>3. b \in Range(Buckets(cs, size))
    OBVIOUS
  <2> HIDE DEF cs, size
  <2>4. PICK q \in Nat : b = q * size
    BY <1>1, <1>3, <2>2, <2>3, BucketsAre
  <2>5. q * size \in Nat
    BY <1>1
  <2> QED BY <2>3, <2>4, <2>5
<1> DEFINE T == {k \in 0..N : SumsUp(g[Len(v[k])][b], tau[k])}
<1>7. 0 \in T
  <2>1. v[0] = <<>> /\ Len(v[0]) = 0
    BY <1>2 DEF Keeps
  <2>2. g[0][b] = NewCandlestickBuilder(b, b + size)
    BY <1>4, <1>6
  <2>3. SumsUp(g[0][b], <<>>)
    BY <2>2 DEF SumsUp, NewCandlestickBuilder
  <2> HIDE DEF N, cs, size
  <2> QED BY <1>1, <1>5, <2>1, <2>3
<1> HIDE DEF cs, size
<1>8. ASSUME NEW k \in 1..N, k - 1 \in T PROVE k \in T
  <2> DEFINE m == MinutesInOrder[k]
             c == ByMinute[k]
             j == Len(v[k - 1])
             us == market[m]
             ts == tau[k - 1]
  <2>1. k \in 0..N /\ k - 1 \in 0..N /\ k \in 1..(EndTime - actualStartTime)
    BY <1>1
  <2>2. /\ m \in Nat /\ us \in Seq(Trade)
        /\ c \in Candle /\ Priced(c) /\ c.start = m /\ c.end = m + 1
        /\ SumsUp(c, us) /\ (c.volume = 0 <=> us = <<>>)
    BY <2>1, MinutesSumUp, MinutesOfRange
  <2>3. tau[k] = AddTrades(ts, m, b, b + size) /\ ts \in Seq(Trade)
    BY <1>5, <2>1
  <2>4. v[k] = KeepWithVolume(v[k - 1], c) /\ v[k - 1] \in Seq(Stored) /\ j \in Nat
    BY <1>2, <2>1 DEF Keeps
  <2>5. SumsUp(g[j][b], ts)
    BY <1>8
  <2> HIDE DEF m, c, us, ts, N
  <2> SUFFICES SumsUp(g[Len(v[k])][b], tau[k])
    BY <2>1
  <2>6. CASE us = <<>>
    <3>1. v[k] = v[k - 1]
      BY <2>2, <2>4, <2>6 DEF KeepWithVolume
    <3>2. tau[k] = ts
      BY <2>3, <2>6 DEF AddTrades, us
    <3> QED BY <2>5, <3>1, <3>2
  <2>7. CASE us # <<>>
    <3>1. c.volume > 0 /\ c \in Stored
      BY <2>2, <2>7 DEF Candle, Stored
    <3>2. v[k] = Append(v[k - 1], c)
      BY <2>4, <3>1 DEF KeepWithVolume
    <3>3. Len(v[k]) = j + 1 /\ v[k][j + 1] = c /\ j + 1 \in 1..Len(v[k])
      BY <2>4, <3>2
    <3>4. /\ Len(v[k]) \in Nat /\ Len(v[N]) \in Nat /\ Len(v[k]) <= Len(v[N])
          /\ \A i \in 1..Len(v[k]) : v[N][i] = v[k][i]
      BY <1>1, <1>2, <2>1, KeptRemains DEF N
    <3> HIDE DEF j
    <3>5. j + 1 \in 1..Len(cs) /\ cs[j + 1] = c
      <4>1. v[N][j + 1] = c
        BY <3>3, <3>4
      <4>2. j + 1 \in 1..Len(v[N])
        BY <2>4, <3>3, <3>4
      <4> QED BY <1>3, <4>1, <4>2 DEF N
    <3>6. g[j + 1] = AddCandle(g[j], c, size) /\ g[j] \in BuildersOf(cs, size)
      <4>1. (j + 1) - 1 = j /\ j \in 0..Len(cs)
        BY <2>4, <3>5 DEF j
      <4> QED BY <1>4, <3>5, <4>1
    <3>7. /\ g[j][b] \in BuiltFor(b, b + size)
          /\ DOMAIN g[j] = Range(Buckets(cs, size))
      BY <1>6, <3>6 DEF BuildersOf
    <3>8. CASE b <= m /\ m < b + size
      <4>1. CandlestickBucket(m, size) = b
        BY <1>1, <1>6, <2>2, <3>8, WholeTicks
      <4>2. g[j + 1][b] = ProcessCandlestickModel(g[j][b], c)
        BY <1>6, <2>2, <3>6, <3>7, <4>1 DEF AddCandle
      <4>3. tau[k] = ts \o us
        BY <2>3, <3>8 DEF AddTrades, us
      <4>4. b + size \in Nat /\ b <= c.start /\ c.end <= b + size
        BY <1>1, <1>6, <2>2, <3>8
      <4>5. /\ g[j + 1][b] \in BuiltFor(b, b + size)
            /\ Joins(g[j + 1][b], g[j][b], c)
        BY <1>6, <3>1, <3>7, <4>2, <4>4, ProcessJoins
      <4>6. g[j + 1][b] \in Candle /\ g[j][b] \in Candle
        BY <3>7, <4>5 DEF BuiltFor
      <4>7. SumsUp(g[j + 1][b], ts \o us)
        BY <2>2, <2>3, <2>5, <2>7, <4>5, <4>6, JoinSumsUp DEF j
      <4> QED BY <3>3, <4>3, <4>7
    <3>9. CASE ~(b <= m /\ m < b + size)
      <4>1. CandlestickBucket(m, size) # b
        BY <1>1, <2>2, <3>9, WholeTicks
      <4>2. g[j + 1][b] = g[j][b]
        BY <1>6, <2>2, <3>6, <3>7, <4>1 DEF AddCandle
      <4>3. tau[k] = ts
        BY <2>3, <3>9 DEF AddTrades
      <4> QED BY <2>5, <3>3, <4>2, <4>3 DEF j
    <3> QED BY <3>8, <3>9
  <2> QED BY <2>6, <2>7
<1>9. N \in T
  <2>1. 0..N \subseteq T
    <3> HIDE DEF T, N
    <3> QED BY <1>1, <1>7, <1>8, IntervalInduction
  <2> QED BY <1>1, <2>1
<1> QED
  BY <1>3, <1>4, <1>5, <1>9 DEF cs, size

\* The candlesticks cs keep the market (ProjectionKeepsMarket's parts).
KeepMarket(cs) ==
    /\ \A i \in DOMAIN cs : SumsUp(cs[i], TradesFrom(cs[i].start, cs[i].end))
    /\ \A i \in 1..(Len(cs) - 1) : cs[i].end = cs[i + 1].start
    /\ \A m \in Minutes : market[m] # <<>> =>
          \E i \in DOMAIN cs : cs[i].start <= m /\ m < cs[i].end

\* Those that the stored ones are projected to do.
LEMMA ProjectedKeepMarket ==
    ASSUME market \in Markets, StoredCandlesticks # <<>>
    PROVE  KeepMarket(ReprojectCandlesticks(StoredCandlesticks, TickSize))
<1> DEFINE cs == StoredCandlesticks
           size == TickSize
           B == Buckets(cs, size)
           R == ReprojectCandlesticks(cs, size)
<1>1. cs \in Seq(Stored) /\ cs # <<>> /\ size \in Nat \ {0}
  BY MinutesAreStored, BacktesterAssumption
<1>2. /\ Head(cs) = cs[1] /\ Last(cs) = cs[Len(cs)] /\ Len(cs) \in Nat
      /\ \A j \in DOMAIN cs : /\ cs[j].start \in Nat /\ 1 <= j /\ j <= Len(cs)
                              /\ 1 \in DOMAIN cs /\ Len(cs) \in DOMAIN cs
  <2> HIDE DEF cs
  <2>1. \A c \in Stored : c.start \in Nat
    BY DEF Stored, Candle
  <2> QED BY <1>1, <2>1 DEF Last
<1>3. \A j \in DOMAIN cs :
        Head(cs).start <= cs[j].start /\ cs[j].start <= Last(cs).start
  BY <1>2, StoredInOrder
<1>4. \A m \in Minutes : market[m] # <<>> => \E j \in DOMAIN cs : cs[j].start = m
  BY StoredInOrder
<1>5. \A b \in Range(B) : SumsUp(Builders(cs, size)[b], TradesFrom(b, b + size))
  BY BuildersSumUp
<1> HIDE DEF cs, size
<1>6. /\ Builders(cs, size) \in BuildersOf(cs, size)
      /\ B \in Seq(Nat) /\ Len(B) \in Nat /\ DOMAIN B = 1..Len(B)
  BY <1>1, BuildersTrace, BucketsAreTimes
<1>7. /\ \A i \in 1..(Len(B) - 1) : B[i + 1] = B[i] + size
      /\ \A t \in Nat : Head(cs).start <= t /\ t <= Last(cs).start =>
            CandlestickBucket(t, size) \in Range(B)
  <2>1. Head(cs).start <= Last(cs).start
    <3>1. 1 \in DOMAIN cs
      BY <1>1
    <3>2. Head(cs).start <= cs[1].start /\ cs[1].start <= Last(cs).start
      BY <1>3, <3>1
    <3> QED BY <1>2, <3>1, <3>2
  <2> QED BY <1>1, <2>1, BucketsAre
<1>8. R = [i \in DOMAIN B |-> Builders(cs, size)[B[i]]]
  BY DEF ReprojectCandlesticks
<1> HIDE DEF B, R
<1>9. ASSUME NEW i \in DOMAIN B
      PROVE  /\ B[i] \in Nat /\ R[i].start = B[i] /\ R[i].end = B[i] + size
             /\ SumsUp(R[i], TradesFrom(B[i], B[i] + size))
  <2>1. B[i] \in Range(B) /\ B[i] \in Nat /\ R[i] = Builders(cs, size)[B[i]]
    BY <1>6, <1>8 DEF Range
  <2>2. R[i] \in BuiltFor(B[i], B[i] + size)
    BY <1>6, <2>1 DEF BuildersOf, B
  <2> QED BY <1>5, <2>1, <2>2 DEF BuiltFor
<1>10. DOMAIN R = DOMAIN B /\ Len(R) = Len(B)
  <2>1. DOMAIN R = 1..Len(B)
    BY <1>6, <1>8
  <2> QED BY <1>6, <1>8, <2>1
<1>11. \A i \in DOMAIN R : SumsUp(R[i], TradesFrom(R[i].start, R[i].end))
  BY <1>9, <1>10
<1>12. ASSUME NEW i \in 1..(Len(R) - 1) PROVE R[i].end = R[i + 1].start
  <2>1. i \in DOMAIN B /\ i + 1 \in DOMAIN B /\ i \in 1..(Len(B) - 1)
    BY <1>6, <1>10
  <2> QED BY <1>7, <1>9, <2>1
<1>13. ASSUME NEW m \in Minutes, market[m] # <<>>
       PROVE  \E i \in DOMAIN R : R[i].start <= m /\ m < R[i].end
  <2>1. PICK j \in DOMAIN cs : cs[j].start = m
    BY <1>4, <1>13
  <2>2. m \in Nat /\ Head(cs).start <= m /\ m <= Last(cs).start
    BY <1>2, <1>3, <2>1
  <2>3. PICK i \in DOMAIN B : B[i] = CandlestickBucket(m, size)
    BY <1>7, <2>2 DEF Range
  <2>4. CandlestickBucket(m, size) <= m /\ m < CandlestickBucket(m, size) + size
    BY <1>1, <2>2, WholeTicks
  <2>5. R[i].start <= m /\ m < R[i].end
    BY <1>9, <2>3, <2>4
  <2> QED BY <1>10, <2>3, <2>5
<1>14. KeepMarket(R)
  BY <1>11, <1>12, <1>13 DEF KeepMarket
<1> QED
  BY <1>14 DEF R, cs, size

\* What has been found is the projection of what is stored.
CandlesFound ==
    pc = "generate" =>
        /\ StoredCandlesticks # <<>>
        /\ candles = ReprojectCandlesticks(StoredCandlesticks, TickSize)

\* A projected candlestick says what the trades of its period say, with none left
\* out or counted twice, and the periods follow one another without a gap and take
\* in every minute with trades (candlesticks.go:48-83, 134-222).
THEOREM MarketKept == Spec => []ProjectionKeepsMarket
<1>1. Init => CandlesFound
  BY DEF Init, CandlesFound
<1>2. ASSUME CandlesFound, [Next]_vars PROVE CandlesFound'
  <2> SUFFICES ASSUME pc' = "generate" PROVE CandlesFound'
    BY DEF CandlesFound
  <2>1. UNCHANGED market
    BY <1>2 DEF Next, vars, FindCandlesticks, GenerateIndicatorSets, BeginTick, Hold,
       Buy, Sell, Register, NextResult, Finish, Returned
  <2>2. StoredCandlesticks' = StoredCandlesticks
    <3>1. \A m : TradesOf(m)' = TradesOf(m)
      BY <2>1, Zenon DEF TradesOf
    <3>2. \A m : MinuteCandlestick(m)' = MinuteCandlestick(m)
      BY <3>1, Zenon DEF MinuteCandlestick
    <3> QED BY <3>2, Zenon DEF StoredCandlesticks
  <2>3. CASE FindCandlesticks
    BY <2>2, <2>3 DEF FindCandlesticks, CandlesFound
  <2>4. CASE \/ GenerateIndicatorSets \/ BeginTick \/ Hold \/ Buy \/ Sell
             \/ NextResult \/ Finish
    BY <2>4 DEF GenerateIndicatorSets, BeginTick, Hold, Buy, Sell, Register,
       NextResult, Finish
  <2>5. CASE Returned \/ UNCHANGED vars
    BY <1>2, <2>2, <2>5 DEF Returned, vars, CandlesFound
  <2> QED BY <1>2, <2>3, <2>4, <2>5 DEF Next
<1>3. ReplayInv /\ CandlesFound => ProjectionKeepsMarket
  <2> SUFFICES ASSUME ReplayInv, CandlesFound, pc = "generate"
               PROVE  KeepMarket(candles)
    BY Zenon DEF ProjectionKeepsMarket, KeepMarket
  <2>1. market \in Markets
    BY DEF ReplayInv, Prepared
  <2> QED BY <2>1, ProjectedKeepMarket DEF CandlesFound
<1> QED
  BY <1>1, <1>2, <1>3, ReplayIsInvariant, PTL DEF Spec
================================================================================
