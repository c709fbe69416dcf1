-------------------------------- MODULE Genomes --------------------------------
(******************************************************************************)
(* The genetic operators of the trading strategies: Rand, Mutate and          *)
(* Crossover of ema_crossover_strategy.go, rsi_strategy.go and s1_strategy.go *)
(* as the sets of what they may make of their random numbers.  A genome maps  *)
(* its genes to whole numbers; the thresholds of the EMA, which may take any  *)
(* value, are left out, and a cast that rounding made one less is allowed.    *)
(******************************************************************************)
EXTENDS Integers

CONSTANTS
    Periods,     \* the 100 of Mutate: EMA periods stay below it
    RandPeriods, \* the 50 of Rand
    MaxRSI,      \* the 100 an RSI threshold stops at
    MaxPeriod    \* bound: RSI periods, which have none

ASSUME GenomesAssumption ==
    /\ Periods \in Nat \ {0} /\ RandPeriods \in Nat \ {0}
    /\ MaxRSI \in Nat \ {0} /\ MaxPeriod \in Nat
    /\ 2 * RandPeriods <= Periods /\ RandPeriods <= MaxPeriod + 1

EMAGenes == {"short", "long"}
ThresholdGenes == {"entrance", "exit"}
RSIGenes == {"period"} \cup ThresholdGenes
S1Genes == EMAGenes \cup ThresholdGenes

HasEMAs(g) == EMAGenes \subseteq DOMAIN g

\* The functions on genes that take each to one of its values.
Combinations(genes, Values(_)) ==
    {g \in [genes -> UNION {Values(gene) : gene \in genes}] :
        \A gene \in genes : g[gene] \in Values(gene)}

\* What the operators are meant to keep to: a short period that is not longer than
\* the long one, and that below the limit; percentages.
Value(gene) == CASE gene \in ThresholdGenes -> 0..MaxRSI
                 [] gene = "period" -> 0..MaxPeriod
                 [] OTHER -> 0..Periods - 1

InRange(g) ==
    /\ \A gene \in DOMAIN g : g[gene] \in Value(gene)
    /\ HasEMAs(g) => g["short"] <= g["long"]

Meant == {g \in UNION {Combinations(genes, Value) :
                             genes \in {EMAGenes, RSIGenes, S1Genes}} : InRange(g)}

\* The long period is twice the short one, the RSI's lower threshold half of the
\* upper.
Rand ==
    {g \in Meant :
        IF HasEMAs(g)
        THEN g["short"] < RandPeriods /\ g["long"] = 2 * g["short"]
        ELSE g["period"] < RandPeriods /\ g["entrance"] = g["exit"] \div 2}

\* A gene moves by a multiple of itself, in either direction.
Moved(gene, x) ==
    IF x = 0 THEN {0} ELSE -1..(IF gene = "period" THEN MaxPeriod
                                ELSE Periods + MaxRSI)

\* A period of the EMA wraps, or stays if it would not be positive; a threshold
\* stops at the limit and, if it would be negative, at 0 or where it was.
Mutated(g, gene, y) ==
    IF gene \in EMAGenes THEN IF y > 0 THEN y % Periods ELSE g[gene]
    ELSE IF y < 0 THEN IF HasEMAs(g) THEN g[gene] ELSE 0
    ELSE IF gene \in ThresholdGenes /\ y > MaxRSI THEN MaxRSI
    ELSE y

\* (altered: without the last statement of Mutate)
OrderedAnyhow(g) == g

\* The long period follows the short one.
OrderedLong(g) ==
    IF HasEMAs(g) /\ g["long"] < g["short"]
    THEN [g EXCEPT !["long"] = g["short"]] ELSE g

Mutate(g) ==
    LET Values(gene) == {Mutated(g, gene, y) : y \in Moved(gene, g[gene])}
    IN  {OrderedLong(m) : m \in Combinations(DOMAIN g, Values)}

\* The short period follows the long one.
OrderedShort(g) ==
    IF HasEMAs(g) /\ g["long"] < g["short"]
    THEN [g EXCEPT !["short"] = g["long"]] ELSE g

\* CrossUniformFloat64, then the cast of a period.
Between(gene, x, y) ==
    LET low == IF x < y THEN x ELSE y
        high == IF x < y THEN y ELSE x
    IN  (IF gene \in ThresholdGenes \/ low = 0 THEN low ELSE low - 1)..high

\* S1 crosses its own entrance threshold with itself.
Mate(g, mate) ==
    IF DOMAIN g = S1Genes THEN [mate EXCEPT !["entrance"] = g["entrance"]] ELSE mate

Crossover(g, mate) ==
    LET Values(gene) == Between(gene, g[gene], Mate(g, mate)[gene])
    IN  {OrderedShort(c) : c \in Combinations(DOMAIN g, Values)}

\* A genome and what any mate may make of it.
Bred == UNION {{<<pair[1], child>> : child \in Crossover(pair[1], pair[2])} :
                  pair \in {p \in Meant \X Meant : DOMAIN p[1] = DOMAIN p[2]}}

================================================================================
