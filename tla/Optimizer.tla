------------------------------- MODULE Optimizer -------------------------------
(******************************************************************************)
(* The command `optimize-strategy` (cli.go, optimization.go): a genetic       *)
(* search, run by gago, over the parameters of a strategy.  Each population   *)
(* is a goroutine that makes its individuals, evaluates them one after the    *)
(* other by a backtest over the cached candlesticks, and sorts them; when all *)
(* have, the best of them all is kept and the next generation is bred.        *)
(*                                                                            *)
(* What a backtest scores is not modelled: a free choice, NaN included, for a *)
(* strategy that never trades has a Sharpe ratio of 0 / 0.  Nothing else      *)
(* depends on the genomes, and they on no score, so a behaviour follows       *)
(* either the scores or one line of descent, crossed with any other genome.   *)
(******************************************************************************)
EXTENDS CacheingBackend, Genomes

CONSTANTS
    PopSize,     \* individuals of a population
    Generations, \* the flag --generations
    Scores,      \* fitnesses a backtest may have: its Sharpe ratio, negated
    NaN          \* stands for the float that is not a number

ASSUME OptimizerAssumption ==
    /\ Callers = {1, 2} /\ PopSize \in Nat \ {0} /\ Generations \in Nat
    /\ Scores \subseteq Int /\ NaN \in Int \ (Scores \cup {0})

VARIABLES
    population,  \* each population's individuals: how many are left to evaluate,
                 \* the scores of the others
    phase,       \* what the command's goroutine does
    generation,  \* GA.Generations
    best,        \* GA.Best.Fitness
    genome,      \* an individual of the generation, in a line of descent;
                 \* Unfollowed in a behaviour of scores
    drawn,       \* history: all scores so far
    used         \* history: the cache's answers scored with since Initialize

ga == <<population, phase, generation, best, drawn, used>>
vars == <<cacheVars, ga, genome>>

Unfollowed == <<>>

Fresh == [p \in Callers |-> [left |-> PopSize, scores |-> {}]]

TypeOK ==
    /\ CacheTypeOK
    /\ population \in [Callers -> [left : 0..PopSize,
                                   scores : SUBSET (Scores \cup {0, NaN})]]
    /\ phase \in {"evaluate", "breed", "mutate"}
    /\ generation \in 0..Generations
    /\ best \in Scores \cup {0, NaN}
    /\ genome \in Meant \cup {Unfollowed}
    /\ drawn \subseteq Scores \cup {0, NaN}
    /\ used \subseteq Answers

Init ==
    /\ CacheInit
    /\ population = Fresh
    /\ phase = "evaluate"
    /\ generation = 0
    /\ best = NaN
    /\ genome \in Rand \cup {Unfollowed}
    /\ drawn = {}
    /\ used = {}

\* FindCandlesticks, called by NewBacktester.
FindCandlesticks(p) ==
    /\ phase = "evaluate"
    /\ population[p].left > 0
    /\ CacheStep(p)
    /\ UNCHANGED <<ga, genome>>

\* Evaluate's result: an error is a 0, and so is a backtest that ended with
\* nothing.
ScoresOf(answer) ==
    IF answer = Failed \/ genome # Unfollowed THEN {0} ELSE Scores \cup {0, NaN}

\* An individual is evaluated when its candlesticks are there.
Evaluate(p) ==
    /\ caller[p].at = "returned"
    /\ \E score \in ScoresOf(caller[p].answer) :
          /\ population' = [population EXCEPT ![p] =
                [left |-> @.left - 1, scores |-> @.scores \cup {score}]]
          /\ drawn' = drawn \cup {score}
    /\ used' = IF generation > 0 THEN used \cup {caller[p].answer} ELSE used
    /\ Go(p, "idle", Missing)
    /\ UNCHANGED <<table, cache, failures, phase, generation, best, genome>>

Less(x, y) == x # NaN /\ y # NaN /\ x < y

\* The individual a sorted population begins with: the least, but a NaN compares
\* with nothing, and leaves anything before it where it is.
Heads(scores) ==
    {x \in scores : NaN \in scores \/ \A y \in scores : ~Less(y, x)}

\* (altered: the greater)
WorseOf(x, y) == IF Less(x, y) THEN y ELSE x

\* The second, if it is less than the first.
BetterOf(x, y) == IF Less(y, x) THEN y ELSE x

\* findBest over the two populations of gago.Generational; at first Best is the
\* head of the first one, whatever its score.
FindBest ==
    /\ phase = "evaluate"
    /\ \A p \in Callers : population[p].left = 0
    /\ \E first \in Heads(population[1].scores),
          second \in Heads(population[2].scores) :
          best' = BetterOf(IF generation = 0 THEN first ELSE best,
                           BetterOf(first, second))
    /\ phase' = "breed"
    /\ UNCHANGED <<cacheVars, population, generation, drawn, used, genome>>

\* Enhance makes a generation of offspring: each of two parents, from the
\* individuals the operators lead to, and mutated or not.
Breed ==
    /\ phase = "breed"
    /\ generation < Generations
    /\ \/ genome = Unfollowed /\ genome' = genome
       \/ \E pair \in {p \in Bred : p[1] = genome} : genome' = pair[2]
    /\ generation' = generation + 1
    /\ phase' = "mutate"
    /\ UNCHANGED <<cacheVars, population, best, drawn, used>>

MutateOrNot ==
    /\ phase = "mutate"
    /\ \/ genome' = genome
       \/ genome # Unfollowed /\ genome' \in Mutate(genome)
    /\ population' = Fresh
    /\ phase' = "evaluate"
    /\ UNCHANGED <<cacheVars, generation, best, drawn, used>>

ImportCandlesticks == Change /\ UNCHANGED <<ga, genome>>

\* The command is done, or its process died.
Ended ==
    /\ \/ phase = "breed" /\ generation = Generations
       \/ \A p \in Callers : caller[p].at = "dead"
    /\ UNCHANGED vars

Next ==
    \/ \E p \in Callers : FindCandlesticks(p) \/ Evaluate(p)
    \/ FindBest \/ Breed \/ MutateOrNot
    \/ ImportCandlesticks
    \/ Ended

Spec == Init /\ [][Next]_vars

--------------------------------------------------------------------------------
\* Once Initialize is over, all individuals are scored on the same candlesticks,
\* however the importer goes on and whatever failed: the second of two queries
\* that raced replaced the entry before, and an error stays cached like an answer.
\* Fitnesses can be compared, within a generation and with the best so far
\* (cacheing_backend.go:30-43, optimization.go:88-92).
ScoresComparable == used = {} \/ \E answer \in Answers : used = {answer}

\* The best individual is the best of all generations, as long as no backtest
\* scored NaN.  One that did may hide a better one in its population's order, or,
\* as the first Best, stay for ever (optimization.go:104-109, backtesting.go:291-307).
BestIsBest ==
    phase = "breed" /\ NaN \notin drawn =>
        best \in drawn /\ \A score \in drawn : best <= score

\* Whatever is crossed and mutated, and however often, a strategy's short period
\* is not longer than its long one, below the operators' limit, and its RSI
\* thresholds are percentages (ema_crossover_strategy.go:95-176,
\* rsi_strategy.go:73-150, s1_strategy.go:119-232).
GenomesInRange == genome # Unfollowed => InRange(genome)

================================================================================
