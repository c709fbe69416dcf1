---------------------------- MODULE OptimizerProofs ----------------------------
(******************************************************************************)
(* The optimizer scores all later individuals on the same candlesticks, for   *)
(* every size of a population, number of generations, changes of the range    *)
(* and failures, and whatever a backtest scores.                              *)
(******************************************************************************)
EXTENDS Optimizer, TLAPS

\* The types the argument needs.
CacheTypes ==
    /\ cache \in Answers \cup {Missing}
    /\ table \in 0..MaxChanges
    /\ caller \in [Callers -> [at : {"idle", "lock", "query", "write", "returned",
                                     "dead"},
                               answer : Answers \cup {Missing}]]
    /\ population \in [Callers -> [left : Int,
                                   scores : SUBSET (Scores \cup {0, NaN})]]
    /\ generation \in Nat
    /\ phase \in {"evaluate", "breed", "mutate"}

\* A population uses the cache only while it has individuals to evaluate, and a
\* race on the map ends all of them before they are through.
Busy ==
    /\ \A p \in Callers : caller[p].at # "idle" => phase = "evaluate"
    /\ \A p \in Callers :
          caller[p].at \notin {"idle", "dead"} => population[p].left > 0
    /\ (\E p \in Callers : caller[p].at = "dead") =>
          /\ \A p \in Callers : caller[p].at = "dead"
          /\ \E p \in Callers : population[p].left > 0

\* An answer that is returned is that of a query, and who has one although there
\* is no entry yet was given it by a writer that has still to finish.
Answered ==
    /\ \A p \in Callers : caller[p].at \in {"write", "returned"} =>
          caller[p].answer \in Answers
    /\ generation = 0 /\ phase = "evaluate" /\ cache = Missing =>
          \/ \A p \in Callers :
                caller[p].at # "returned" /\ population[p].left = PopSize
          \/ \E d \in Callers : caller[d].at \in {"write", "dead"}

\* After the first generation there is an entry, and nobody writes any more.
Settled ==
    /\ generation = 0 => used = {}
    /\ generation > 0 \/ phase # "evaluate" =>
          /\ cache # Missing
          /\ \A p \in Callers :
                /\ caller[p].at \in {"idle", "returned"}
                /\ caller[p].at = "returned" => caller[p].answer = cache
          /\ used \subseteq {cache}

IInv == CacheTypes /\ Busy /\ Answered /\ Settled

--------------------------------------------------------------------------------
LEMMA AnswersTyped == Missing \notin Answers /\ Failed \in Answers
                      /\ \A t \in 0..MaxChanges : t \in Answers
BY CacheAssumption DEF Missing, Failed, Answers

LEMMA InitIInv == Init => IInv
BY OptimizerAssumption, CacheAssumption DEF Init, CacheInit, Fresh, IInv, CacheTypes,
   Busy, Answered, Settled

\* Where a caller goes, the others stay.
LEMMA GoElsewhere ==
    ASSUME CacheTypes, NEW c \in Callers, NEW a, NEW x, Go(c, a, x)
    PROVE  /\ caller'[c] = [at |-> a, answer |-> x]
           /\ \A d \in Callers \ {c} : caller'[d] = caller[d]
BY DEF CacheTypes, Go

LEMMA LookupKeeps ==
    ASSUME IInv, NEW p \in Callers, phase = "evaluate", population[p].left > 0,
           Lookup(p), UNCHANGED <<ga, genome>>
    PROVE  IInv'
<1> USE DEF IInv
<1>1. PICK found \in {cache} \cup {caller[d].answer : d \in Writing(p)} :
          IF found = Missing THEN Go(p, "lock", Missing)
                             ELSE Go(p, "returned", found)
  BY DEF Lookup
<1>2. found \in Answers \cup {Missing}
  BY <1>1 DEF CacheTypes, Writing
<1>3. found # cache => \E d \in Callers \ {p} : caller[d].at = "write"
  BY <1>1 DEF Writing
<1>4. CASE found = Missing
  <2>1. Go(p, "lock", Missing)
    BY <1>1, <1>4
  <2>2. /\ caller'[p] = [at |-> "lock", answer |-> Missing]
        /\ \A d \in Callers \ {p} : caller'[d] = caller[d]
    BY <2>1, GoElsewhere
  <2>3. cache = Missing \/ \E d \in Callers \ {p} : caller[d].at = "write"
    BY <1>3, <1>4
  <2>4. CacheTypes'
    BY <2>1 DEF Lookup, CacheTypes, Go, ga
  <2>5. Busy'
    BY <2>2 DEF Lookup, Busy, ga
  <2>6. Answered' /\ Settled'
    BY <2>2, <2>3 DEF Lookup, Answered, Settled, ga
  <2> QED
    BY <2>4, <2>5, <2>6
<1>5. CASE found # Missing
  <2>1. Go(p, "returned", found)
    BY <1>1, <1>5
  <2>2. /\ caller'[p] = [at |-> "returned", answer |-> found]
        /\ \A d \in Callers \ {p} : caller'[d] = caller[d]
    BY <2>1, GoElsewhere
  <2>4. CacheTypes'
    BY <2>1, <1>2 DEF Lookup, CacheTypes, Go, ga
  <2>5. Busy'
    BY <2>2 DEF Lookup, Busy, ga
  <2>6. Answered' /\ Settled'
    BY <2>2, <1>2, <1>3, <1>5 DEF Lookup, Answered, Settled, ga
  <2> QED
    BY <2>4, <2>5, <2>6
<1> QED
  BY <1>4, <1>5

LEMMA MapRaceKeeps ==
    ASSUME IInv, NEW p \in Callers, phase = "evaluate", population[p].left > 0,
           MapRace(p), UNCHANGED <<ga, genome>>
    PROVE  IInv'
<1> USE DEF IInv
<1>1. \A d \in Callers : caller'[d].at = "dead"
  BY DEF MapRace, CacheTypes
<1>2. PICK d \in Callers : caller[d].at = "write"
  BY DEF MapRace, Writing
<1>3. generation = 0
  BY <1>2 DEF Settled, CacheTypes
<1>4. CacheTypes'
  BY DEF MapRace, CacheTypes, ga
<1>5. Busy' /\ Answered' /\ Settled'
  BY <1>1, <1>2, <1>3 DEF MapRace, Busy, Answered, Settled, ga
<1> QED
  BY <1>4, <1>5

\* Waiting for the lock, then having it.
LEMMA LockKeeps ==
    ASSUME IInv, NEW p \in Callers, phase = "evaluate", population[p].left > 0,
           Lock(p), UNCHANGED <<ga, genome>>
    PROVE  IInv'
<1> USE DEF IInv
<1>1. /\ caller'[p] = [at |-> "query", answer |-> Missing]
      /\ \A d \in Callers \ {p} : caller'[d] = caller[d]
  BY GoElsewhere DEF Lock
<1>2. CacheTypes'
  BY DEF Lock, CacheTypes, Go, ga
<1>3. Busy' /\ Answered' /\ Settled'
  BY <1>1 DEF Lock, Busy, Answered, Settled, ga
<1> QED
  BY <1>2, <1>3

LEMMA QueryKeeps ==
    ASSUME IInv, NEW p \in Callers, phase = "evaluate", population[p].left > 0,
           Query(p), UNCHANGED <<ga, genome>>
    PROVE  IInv'
<1> USE DEF IInv
<1>1. PICK answer \in {table, Failed} : Go(p, "write", answer)
  BY DEF Query
<1>2. answer \in Answers
  BY <1>1, AnswersTyped DEF CacheTypes
<1>3. /\ caller'[p] = [at |-> "write", answer |-> answer]
      /\ \A d \in Callers \ {p} : caller'[d] = caller[d]
  BY <1>1, GoElsewhere
<1>4. CacheTypes'
  BY <1>1, <1>2 DEF Query, CacheTypes, Go, ga
<1>5. Busy' /\ Answered' /\ Settled'
  BY <1>2, <1>3 DEF Query, Busy, Answered, Settled, ga
<1> QED
  BY <1>4, <1>5

LEMMA WriteKeeps ==
    ASSUME IInv, NEW p \in Callers, phase = "evaluate", population[p].left > 0,
           Write(p), UNCHANGED <<ga, genome>>
    PROVE  IInv'
<1> USE DEF IInv
<1>1. caller[p].answer \in Answers /\ cache' = caller[p].answer
  BY DEF Write, Answered, Cached
<1>2. /\ caller'[p] = [at |-> "returned", answer |-> caller[p].answer]
      /\ \A d \in Callers \ {p} : caller'[d] = caller[d]
  BY GoElsewhere DEF Write
<1>3. CacheTypes'
  BY <1>1 DEF Write, CacheTypes, Go, ga
<1>4. Busy' /\ Answered' /\ Settled'
  BY <1>1, <1>2, AnswersTyped DEF Write, Busy, Answered, Settled, ga
<1> QED
  BY <1>3, <1>4

LEMMA EvaluateKeeps ==
    ASSUME IInv, NEW p \in Callers, Evaluate(p) PROVE IInv'
<1> USE DEF IInv
<1>1. PICK score \in ScoresOf(caller[p].answer) :
          population' = [population EXCEPT ![p] =
              [left |-> @.left - 1, scores |-> @.scores \cup {score}]]
  BY DEF Evaluate
<1>2. score \in Scores \cup {0, NaN}
  BY <1>1 DEF ScoresOf
<1>3. /\ population'[p].left = population[p].left - 1
      /\ \A d \in Callers \ {p} : population'[d] = population[d]
      /\ population' \in [Callers -> [left : Int,
                                     scores : SUBSET (Scores \cup {0, NaN})]]
  BY <1>1, <1>2 DEF CacheTypes
<1>4. /\ caller'[p] = [at |-> "idle", answer |-> Missing]
      /\ \A d \in Callers \ {p} : caller'[d] = caller[d]
  BY GoElsewhere DEF Evaluate
<1>5. CacheTypes'
  BY <1>3 DEF Evaluate, CacheTypes, Go
<1>6. phase = "evaluate" /\ ~\E d \in Callers : caller[d].at = "dead"
  BY DEF Evaluate, Busy
<1>7. Busy'
  BY <1>3, <1>4, <1>6 DEF Evaluate, Busy
<1>8. Answered'
  BY <1>3, <1>4 DEF Evaluate, Answered
<1>9. Settled'
  BY <1>4 DEF Evaluate, Settled, CacheTypes
<1> QED
  BY <1>5, <1>7, <1>8, <1>9

\* When all are through, all are idle and there is an entry.
LEMMA FindBestKeeps == IInv /\ FindBest => IInv'
<1> SUFFICES ASSUME IInv, FindBest PROVE IInv'
  OBVIOUS
<1> USE DEF IInv
<1>1. \A p \in Callers : caller[p].at = "idle"
  BY DEF FindBest, Busy, CacheTypes
<1>2. cache # Missing
  <2>1. \E p \in Callers : population[p].left # PopSize
    BY OptimizerAssumption DEF FindBest
  <2> QED
    BY <1>1, <2>1 DEF FindBest, Answered, Settled, CacheTypes
<1>3. CacheTypes'
  BY DEF FindBest, CacheTypes, cacheVars
<1>4. Busy' /\ Answered' /\ Settled'
  BY <1>1, <1>2 DEF FindBest, Busy, Answered, Settled, cacheVars, CacheTypes
<1> QED
  BY <1>3, <1>4

LEMMA BreedKeeps == IInv /\ Breed => IInv'
<1> SUFFICES ASSUME IInv, Breed PROVE IInv'
  OBVIOUS
<1>1. phase = "breed" /\ phase' = "mutate" /\ generation' = generation + 1
      /\ UNCHANGED <<cacheVars, population, used>>
  BY DEF Breed
<1> QED
  BY <1>1 DEF IInv, CacheTypes, Busy, Answered, Settled, cacheVars

LEMMA MutateKeeps == IInv /\ MutateOrNot => IInv'
<1> SUFFICES ASSUME IInv, MutateOrNot PROVE IInv'
  OBVIOUS
<1>1. phase = "mutate" /\ phase' = "evaluate" /\ population' = Fresh
      /\ UNCHANGED <<cacheVars, generation, used>>
  BY DEF MutateOrNot
<1>2. Fresh \in [Callers -> [left : Int, scores : SUBSET (Scores \cup {0, NaN})]]
  BY OptimizerAssumption DEF Fresh
<1>3. \A p \in Callers : Fresh[p].left = PopSize
  BY DEF Fresh
<1>4. CacheTypes'
  BY <1>1, <1>2 DEF IInv, CacheTypes, cacheVars
<1>5. Busy' /\ Answered' /\ Settled'
  BY <1>1, <1>3 DEF IInv, CacheTypes, Busy, Answered, Settled, cacheVars
<1> QED
  BY <1>4, <1>5 DEF IInv

LEMMA ImportKeeps == IInv /\ ImportCandlesticks => IInv'
BY CacheAssumption DEF IInv, CacheTypes, Busy, Answered, Settled, ImportCandlesticks, Change, ga

LEMMA NextIInv == IInv /\ [Next]_vars => IInv'
<1> SUFFICES ASSUME IInv, [Next]_vars PROVE IInv'
  OBVIOUS
<1>1. ASSUME NEW p \in Callers, FindCandlesticks(p) PROVE IInv'
  BY <1>1, LookupKeeps, MapRaceKeeps, LockKeeps, QueryKeeps, WriteKeeps
     DEF FindCandlesticks, CacheStep
<1>2. CASE UNCHANGED vars
  BY <1>2 DEF IInv, CacheTypes, Busy, Answered, Settled, vars, ga, cacheVars
<1> QED
  BY <1>1, <1>2, EvaluateKeeps, FindBestKeeps, BreedKeeps, MutateKeeps, ImportKeeps
     DEF Next, Ended

--------------------------------------------------------------------------------
\* From the first generation that is bred on, every individual is scored on the
\* same candlesticks (cacheing_backend.go:30-43, optimization.go:88-92).
THEOREM AllScoredAlike == Spec => []ScoresComparable
<1>1. IInv => ScoresComparable
  <2> SUFFICES ASSUME IInv, used # {} PROVE \E answer \in Answers : used = {answer}
    BY DEF ScoresComparable
  <2>1. generation > 0
    BY DEF IInv, Settled, CacheTypes
  <2> QED
    BY <2>1 DEF IInv, Settled, CacheTypes
<1>2. QED
  BY InitIInv, NextIInv, <1>1, PTL DEF Spec

--------------------------------------------------------------------------------
(* The best individual. *)

ScoreTypes == drawn \subseteq Int /\ (phase = "mutate" => generation > 0)

\* As long as no score is NaN: a score that best does not beat is one of the
\* generation's that is still to be looked at.
BestSoFar ==
    NaN \notin drawn =>
        /\ \A p \in Callers : population[p].scores \subseteq drawn
        /\ phase = "evaluate" => \A x \in drawn :
              \/ generation > 0 /\ best <= x
              \/ \E p \in Callers : x \in population[p].scores
        /\ phase # "evaluate" => \A x \in drawn : best <= x
        /\ generation > 0 \/ phase # "evaluate" => best \in drawn

BestInv == ScoreTypes /\ BestSoFar

LEMMA BestInit == Init => BestInv
BY OptimizerAssumption DEF Init, Fresh, BestInv, ScoreTypes, BestSoFar

LEMMA EvaluateKeepsBest ==
    ASSUME IInv, BestInv, NEW p \in Callers, Evaluate(p) PROVE BestInv'
<1> USE DEF BestInv, ScoreTypes, BestSoFar
<1>1. PICK score \in ScoresOf(caller[p].answer) :
          /\ population' = [population EXCEPT ![p] =
                [left |-> @.left - 1, scores |-> @.scores \cup {score}]]
          /\ drawn' = drawn \cup {score}
  BY DEF Evaluate
<1>2. score \in Int
  BY <1>1, OptimizerAssumption DEF ScoresOf
<1>3. /\ population'[p].scores = population[p].scores \cup {score}
      /\ \A q \in Callers \ {p} : population'[q] = population[q]
  BY <1>1 DEF IInv, CacheTypes
<1>4. UNCHANGED <<phase, generation, best>>
  BY DEF Evaluate
<1>5. ScoreTypes'
  BY <1>1, <1>2, <1>4
<1>6. ASSUME NaN \notin drawn', NEW x \in drawn', phase = "evaluate"
      PROVE  \/ generation > 0 /\ best <= x
             \/ \E q \in Callers : x \in population'[q].scores
  <2>1. CASE x = score
    BY <1>3, <2>1
  <2>2. CASE x \in drawn
    <3>1. \/ generation > 0 /\ best <= x
          \/ \E q \in Callers : x \in population[q].scores
      BY <1>1, <1>6, <2>2
    <3>2. \A q \in Callers : population[q].scores \subseteq population'[q].scores
      BY <1>3
    <3> QED
      BY <3>1, <3>2
  <2> QED
    BY <1>1, <1>6, <2>1, <2>2
<1>7. phase = "evaluate"
  BY DEF Evaluate, IInv, Busy
<1>8. NaN \notin drawn' => \A q \in Callers : population'[q].scores \subseteq drawn'
  BY <1>1, <1>3
<1> QED
  BY <1>1, <1>4, <1>5, <1>6, <1>7, <1>8

\* The head of a sorted population is its least, without NaNs.
LEMMA HeadIsLeast ==
    ASSUME NEW scores, scores \subseteq Int, NaN \notin scores, NEW x \in Heads(scores)
    PROVE  x \in scores /\ \A y \in scores : x <= y
BY DEF Heads, Less

LEMMA BetterOfTwo ==
    ASSUME NEW x \in Int, NEW y \in Int, x # NaN, y # NaN
    PROVE  /\ BetterOf(x, y) \in {x, y}
           /\ BetterOf(x, y) <= x /\ BetterOf(x, y) <= y
BY DEF BetterOf, Less

LEMMA FindBestKeepsBest == ASSUME IInv, BestInv, FindBest PROVE BestInv'
<1> USE DEF BestInv
<1>1. PICK first \in Heads(population[1].scores),
           second \in Heads(population[2].scores) :
         best' = BetterOf(IF generation = 0 THEN first ELSE best,
                          BetterOf(first, second))
  BY DEF FindBest
<1>2. /\ phase = "evaluate" /\ phase' = "breed"
      /\ UNCHANGED <<population, generation, drawn>>
  BY DEF FindBest
<1>3. ScoreTypes'
  BY <1>2 DEF ScoreTypes
<1>4. ASSUME NaN \notin drawn
      PROVE  best' \in drawn /\ \A x \in drawn : best' <= x
  <2> DEFINE start == IF generation = 0 THEN first ELSE best
             inner == BetterOf(first, second)
  <2>1. /\ population[1].scores \subseteq drawn /\ population[2].scores \subseteq drawn
        /\ generation \in Nat
    BY <1>4, OptimizerAssumption DEF BestSoFar, IInv, CacheTypes
  <2>2. /\ first \in drawn /\ \A y \in population[1].scores : first <= y
        /\ second \in drawn /\ \A y \in population[2].scores : second <= y
    BY <1>4, <2>1, HeadIsLeast DEF ScoreTypes
  <2>3. start \in drawn
    BY <1>2, <1>4, <2>1, <2>2 DEF BestSoFar
  <2>4. drawn \subseteq Int /\ \A x \in drawn : x # NaN
    BY <1>4 DEF ScoreTypes
  <2>5. inner \in drawn /\ inner <= first /\ inner <= second
    BY <2>2, <2>4, BetterOfTwo
  <2> HIDE DEF start, inner
  <2>6. best' \in drawn /\ best' <= start /\ best' <= inner
    <3>1. best' = BetterOf(start, inner)
      BY <1>1 DEF start, inner
    <3> QED
      BY <2>3, <2>4, <2>5, <3>1, BetterOfTwo
  <2>7. ASSUME NEW x \in drawn PROVE best' <= x
    <3>1. CASE generation > 0 /\ best <= x
      <4>1. start = best
        BY <2>1, <3>1 DEF start
      <4> QED
        BY <2>3, <2>4, <2>6, <3>1, <4>1
    <3>2. CASE x \in population[1].scores
      BY <2>2, <2>4, <2>5, <2>6, <3>2
    <3>3. CASE x \in population[2].scores
      BY <2>2, <2>4, <2>5, <2>6, <3>3
    <3> QED
      BY <1>2, <1>4, <3>1, <3>2, <3>3, OptimizerAssumption DEF BestSoFar
  <2> QED
    BY <2>6, <2>7
<1> QED
  BY <1>2, <1>3, <1>4 DEF BestSoFar

LEMMA BestNext == IInv /\ BestInv /\ [Next]_vars => BestInv'
<1> SUFFICES ASSUME IInv, BestInv, [Next]_vars PROVE BestInv'
  OBVIOUS
<1>1. CASE UNCHANGED <<population, phase, generation, best, drawn>>
  BY <1>1 DEF BestInv, ScoreTypes, BestSoFar
<1>2. CASE \E p \in Callers : Evaluate(p)
  BY <1>2, EvaluateKeepsBest
<1>3. CASE FindBest
  BY <1>3, FindBestKeepsBest
<1>4. CASE Breed
  BY <1>4 DEF Breed, BestInv, ScoreTypes, BestSoFar, IInv, CacheTypes
<1>5. CASE MutateOrNot
  <2>1. \A p \in Callers : population'[p].scores = {}
    BY <1>5 DEF MutateOrNot, Fresh
  <2> QED
    BY <1>5, <2>1 DEF MutateOrNot, BestInv, ScoreTypes, BestSoFar
<1> QED
  BY <1>1, <1>2, <1>3, <1>4, <1>5
  DEF Next, FindCandlesticks, ImportCandlesticks, Ended, ga, vars

\* As long as no backtest scored NaN, the best individual is the best of all
\* generations and both populations (optimization.go:104-109).
THEOREM BestOfAll == Spec => []BestIsBest
<1>1. BestInv => BestIsBest
  BY DEF BestInv, BestSoFar, BestIsBest
<1> QED
  BY <1>1, InitIInv, NextIInv, BestInit, BestNext, PTL DEF Spec

--------------------------------------------------------------------------------
(* The genetic operators. *)

AllGenes == {EMAGenes, RSIGenes, S1Genes}

\* The genomes that are meant, gene by gene.
LEMMA MeantByGene ==
    ASSUME NEW g \in Meant
    PROVE  /\ DOMAIN g \in AllGenes
           /\ g = [gene \in DOMAIN g |-> g[gene]]
           /\ \A gene \in DOMAIN g : g[gene] \in Value(gene)
           /\ InRange(g)
<1>1. PICK genes \in AllGenes : g \in Combinations(genes, Value)
  BY DEF Meant, AllGenes
<1> QED
  BY <1>1 DEF Combinations, Meant

LEMMA ByGeneMeant ==
    ASSUME NEW genes \in AllGenes, NEW g, g = [gene \in genes |-> g[gene]],
           \A gene \in genes : g[gene] \in Value(gene),
           HasEMAs(g) => g["short"] <= g["long"]
    PROVE  g \in Meant
<1>1. DOMAIN g = genes
  OBVIOUS
<1>2. g \in [genes -> UNION {Value(gene) : gene \in genes}]
  OBVIOUS
<1>3. g \in Combinations(genes, Value)
  BY <1>2 DEF Combinations
<1> QED
  BY <1>1, <1>3 DEF Meant, AllGenes, InRange

LEMMA PeriodValues ==
    /\ Value("short") = 0..(Periods - 1)
    /\ Value("long") = 0..(Periods - 1)
<1>1. "short" \notin ThresholdGenes /\ "long" \notin ThresholdGenes
  BY DEF ThresholdGenes
<1> QED
  BY <1>1 DEF Value

LEMMA ComparedPeriods ==
    ASSUME NEW short \in Value("short"), NEW long \in Value("long")
    PROVE  /\ short \in Value("long") /\ long \in Value("short")
           /\ short <= short /\ long <= long
           /\ ~(long < short) => short <= long
<1>1. short \in 0..(Periods - 1) /\ long \in 0..(Periods - 1)
  BY PeriodValues
<1>2. short \in Int /\ long \in Int
  BY <1>1, GenomesAssumption
<1> QED
  BY <1>1, <1>2, PeriodValues

LEMMA MovedOfWhole ==
    ASSUME NEW gene, NEW x, NEW y \in Moved(gene, x)
    PROVE  y \in Int /\ (gene = "period" => y <= MaxPeriod)
BY GenomesAssumption DEF Moved

\* Mutation keeps each gene within its values (ema_crossover_strategy.go:121-135,
\* rsi_strategy.go:93-125, s1_strategy.go:149-189).
LEMMA MutatedInValue ==
    ASSUME NEW g \in Meant, NEW gene \in DOMAIN g, NEW y \in Moved(gene, g[gene])
    PROVE  Mutated(g, gene, y) \in Value(gene)
<1>1. g[gene] \in Value(gene)
  BY MeantByGene
<1>2. y \in Int /\ (gene = "period" => y <= MaxPeriod)
  BY MovedOfWhole
<1>3. gene \in EMAGenes \cup ThresholdGenes \cup {"period"}
  BY MeantByGene DEF AllGenes, RSIGenes, S1Genes
<1>4. CASE gene \in EMAGenes
  <2>1. Value(gene) = 0..(Periods - 1)
    BY <1>4 DEF Value, EMAGenes, ThresholdGenes
  <2>2. y % Periods \in 0..(Periods - 1)
    BY <1>2, GenomesAssumption
  <2> QED
    BY <1>1, <1>4, <2>1, <2>2 DEF Mutated
<1>5. CASE gene = "period"
  BY <1>1, <1>2, <1>5, GenomesAssumption DEF Mutated, Value, EMAGenes, ThresholdGenes
<1>6. CASE gene \in ThresholdGenes
  BY <1>1, <1>2, <1>6, GenomesAssumption DEF Mutated, Value, EMAGenes, ThresholdGenes
<1> QED
  BY <1>3, <1>4, <1>5, <1>6

\* Its last statement puts the periods in order.
LEMMA MutateKeepsMeant ==
    ASSUME NEW g \in Meant, NEW h \in Mutate(g)
    PROVE  h \in Meant
<1> DEFINE Values(gene) == {Mutated(g, gene, y) : y \in Moved(gene, g[gene])}
<1>1. PICK m \in Combinations(DOMAIN g, Values) : h = OrderedLong(m)
  BY DEF Mutate
<1>2. /\ m = [gene \in DOMAIN g |-> m[gene]]
      /\ \A gene \in DOMAIN g : m[gene] \in Values(gene)
  BY <1>1 DEF Combinations
<1>3. DOMAIN g \in AllGenes
  BY MeantByGene
<1>4. \A gene \in DOMAIN g : m[gene] \in Value(gene)
  BY <1>2, MutatedInValue
<1>5. CASE HasEMAs(m) /\ m["long"] < m["short"]
  <2>1. h = [m EXCEPT !["long"] = m["short"]]
    BY <1>1, <1>5 DEF OrderedLong
  <2>2. {"short", "long"} \subseteq DOMAIN g
    BY <1>2, <1>5 DEF HasEMAs, EMAGenes
  <2>3. m["short"] \in Value("long") /\ m["short"] <= m["short"]
    BY <1>4, <2>2, ComparedPeriods
  <2>4. /\ h = [gene \in DOMAIN g |-> h[gene]]
        /\ h["short"] = m["short"] /\ h["long"] = m["short"]
        /\ \A gene \in DOMAIN g \ {"long"} : h[gene] = m[gene]
    BY <1>2, <2>1, <2>2
  <2>5. \A gene \in DOMAIN g : h[gene] \in Value(gene)
    BY <1>4, <2>3, <2>4
  <2> QED
    BY <1>3, <2>3, <2>4, <2>5, ByGeneMeant
<1>6. CASE ~(HasEMAs(m) /\ m["long"] < m["short"])
  <2>1. h = m
    BY <1>1, <1>6 DEF OrderedLong
  <2>2. HasEMAs(m) => m["short"] <= m["long"]
    BY <1>2, <1>4, <1>6, ComparedPeriods DEF HasEMAs, EMAGenes
  <2> QED
    BY <1>2, <1>3, <1>4, <2>1, <2>2, ByGeneMeant
<1> QED
  BY <1>5, <1>6

\* Crossover keeps each gene between those of the parents, or one below a period
\* that is not 0 (ema_crossover_strategy.go:137-154, rsi_strategy.go:127-138,
\* s1_strategy.go:191-212).
LEMMA BetweenInValue ==
    ASSUME NEW genes \in AllGenes, NEW gene \in genes,
           NEW x \in Value(gene), NEW y \in Value(gene),
           NEW z \in Between(gene, x, y)
    PROVE  z \in Value(gene)
<1>1. PICK n \in Nat : Value(gene) = 0..n
  <2>1. CASE gene \in ThresholdGenes
    BY <2>1, GenomesAssumption DEF Value
  <2>2. CASE gene = "period"
    BY <2>2, GenomesAssumption DEF Value, ThresholdGenes
  <2>3. CASE gene \in EMAGenes
    <3>1. Value(gene) = 0..(Periods - 1)
      BY <2>3, PeriodValues DEF EMAGenes
    <3>2. Periods - 1 \in Nat
      BY GenomesAssumption
    <3> QED
      BY <3>1, <3>2
  <2> QED
    BY <2>1, <2>2, <2>3 DEF AllGenes, RSIGenes, S1Genes
<1> DEFINE low == IF x < y THEN x ELSE y
           high == IF x < y THEN y ELSE x
<1>2. low \in 0..n /\ high \in 0..n
  BY <1>1
<1>3. z \in low..high \/ (low # 0 /\ z \in (low - 1)..high)
  BY DEF Between
<1> HIDE DEF low, high
<1>4. z \in 0..n
  BY <1>2, <1>3
<1> QED
  BY <1>1, <1>4

LEMMA MateInValue ==
    ASSUME NEW g \in Meant, NEW mate \in Meant, DOMAIN g = DOMAIN mate,
           NEW gene \in DOMAIN g
    PROVE  Mate(g, mate)[gene] \in Value(gene)
<1>1. g[gene] \in Value(gene) /\ mate[gene] \in Value(gene)
  BY MeantByGene
<1>2. Mate(g, mate)[gene] \in {g[gene], mate[gene]}
  <2>1. mate = [each \in DOMAIN g |-> mate[each]]
    BY MeantByGene
  <2> QED
    BY <2>1 DEF Mate
<1> QED
  BY <1>1, <1>2

\* Its last statement puts the periods in order.
LEMMA CrossoverKeepsMeant ==
    ASSUME NEW g \in Meant, NEW mate \in Meant, DOMAIN g = DOMAIN mate,
           NEW h \in Crossover(g, mate)
    PROVE  h \in Meant
<1> DEFINE Values(gene) == Between(gene, g[gene], Mate(g, mate)[gene])
<1>1. PICK c \in Combinations(DOMAIN g, Values) : h = OrderedShort(c)
  BY DEF Crossover
<1>2. /\ c = [gene \in DOMAIN g |-> c[gene]]
      /\ \A gene \in DOMAIN g : c[gene] \in Values(gene)
  BY <1>1 DEF Combinations
<1>3. DOMAIN g \in AllGenes /\ \A gene \in DOMAIN g : g[gene] \in Value(gene)
  BY MeantByGene
<1>4. \A gene \in DOMAIN g : c[gene] \in Value(gene)
  BY <1>2, <1>3, MateInValue, BetweenInValue
<1>5. CASE HasEMAs(c) /\ c["long"] < c["short"]
  <2>1. h = [c EXCEPT !["short"] = c["long"]]
    BY <1>1, <1>5 DEF OrderedShort
  <2>2. {"short", "long"} \subseteq DOMAIN g
    BY <1>2, <1>5 DEF HasEMAs, EMAGenes
  <2>3. c["long"] \in Value("short") /\ c["long"] <= c["long"]
    BY <1>4, <2>2, ComparedPeriods
  <2>4. /\ h = [gene \in DOMAIN g |-> h[gene]]
        /\ h["short"] = c["long"] /\ h["long"] = c["long"]
        /\ \A gene \in DOMAIN g \ {"short"} : h[gene] = c[gene]
    BY <1>2, <2>1, <2>2
  <2>5. \A gene \in DOMAIN g : h[gene] \in Value(gene)
    BY <1>4, <2>3, <2>4
  <2> QED
    BY <1>3, <2>3, <2>4, <2>5, ByGeneMeant
<1>6. CASE ~(HasEMAs(c) /\ c["long"] < c["short"])
  <2>1. h = c
    BY <1>1, <1>6 DEF OrderedShort
  <2>2. HasEMAs(c) => c["short"] <= c["long"]
    BY <1>2, <1>4, <1>6, ComparedPeriods DEF HasEMAs, EMAGenes
  <2> QED
    BY <1>2, <1>3, <1>4, <2>1, <2>2, ByGeneMeant
<1> QED
  BY <1>5, <1>6

Descends == genome = Unfollowed \/ genome \in Meant

LEMMA NextDescends == Descends /\ [Next]_vars => Descends'
<1> SUFFICES ASSUME Descends, [Next]_vars PROVE Descends'
  OBVIOUS
<1>1. CASE genome' = genome
  BY <1>1 DEF Descends
<1>2. CASE Breed
  <2>1. CASE genome' = genome
    BY <2>1 DEF Descends
  <2>2. CASE \E pair \in {p \in Bred : p[1] = genome} : genome' = pair[2]
    <3>1. PICK parents \in {p \in Meant \X Meant : DOMAIN p[1] = DOMAIN p[2]} :
               genome' \in Crossover(parents[1], parents[2])
      BY <2>2 DEF Bred
    <3>2. /\ parents[1] \in Meant /\ parents[2] \in Meant
          /\ DOMAIN parents[1] = DOMAIN parents[2]
      OBVIOUS
    <3>3. genome' \in Meant
      BY <3>1, <3>2, CrossoverKeepsMeant
    <3> QED
      BY <3>3 DEF Descends
  <2> QED
    BY <1>2, <2>1, <2>2 DEF Breed
<1>3. CASE MutateOrNot
  <2>1. CASE genome # Unfollowed /\ genome' \in Mutate(genome)
    BY <2>1, MutateKeepsMeant DEF Descends
  <2> QED
    BY <1>1, <1>3, <2>1 DEF MutateOrNot
<1> QED
  BY <1>1, <1>2, <1>3
     DEF Next, Ended, vars, FindCandlesticks, Evaluate, FindBest, ImportCandlesticks

--------------------------------------------------------------------------------
\* Every genome of every line of descent has periods below their limit, the short
\* not above the long, and thresholds that are percentages
\* (ema_crossover_strategy.go:115-154, rsi_strategy.go:81-138,
\* s1_strategy.go:124-212).
THEOREM DescentInRange == Spec => []GenomesInRange
<1>1. Init => Descends
  BY DEF Init, Rand, Descends
<1>2. Descends => GenomesInRange
  BY DEF Descends, GenomesInRange, Meant
<1> QED
  BY <1>1, <1>2, NextDescends, PTL DEF Spec

================================================================================
