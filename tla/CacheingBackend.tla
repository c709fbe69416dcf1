---------------------------- MODULE CacheingBackend ----------------------------
(******************************************************************************)
(* CacheingBackend (cacheing_backend.go): FindCandlesticks answered from a    *)
(* map, which is looked up without the lock and written under it.  All its    *)
(* callers, the goroutines of the optimizer, ask for the same key here, as    *)
(* all backtests of an optimization do: one range of one product.             *)
(*                                                                            *)
(* The candlesticks table moves on meanwhile, for the importer fills it: an   *)
(* answer is named by how often the range had changed, Failed is an error.    *)
(******************************************************************************)
EXTENDS Integers

CONSTANTS
    Callers,      \* the goroutines that use the cache
    MaxChanges,   \* bound: how often the range changes
    MaxFailures   \* bound: queries that fail

ASSUME CacheAssumption == MaxChanges \in Nat /\ MaxFailures \in Nat

Missing == -2
Failed == -1
Answers == Failed..MaxChanges

VARIABLES
    table,     \* how often the range has changed
    cache,     \* the entry of the map
    caller,    \* where each caller is in FindCandlesticks, and its answer
    failures   \* queries that failed so far

cacheVars == <<table, cache, caller, failures>>

CacheTypeOK ==
    /\ table \in 0..MaxChanges
    /\ cache \in Answers \cup {Missing}
    /\ caller \in [Callers -> [at : {"idle", "lock", "query", "write", "returned",
                                     "dead"},
                               answer : Answers \cup {Missing}]]
    /\ failures \in 0..MaxFailures

CacheInit ==
    /\ table = 0
    /\ cache = Missing
    /\ caller = [c \in Callers |-> [at |-> "idle", answer |-> Missing]]
    /\ failures = 0

Change ==
    /\ table < MaxChanges
    /\ table' = table + 1
    /\ UNCHANGED <<cache, caller, failures>>

Go(c, at, answer) ==
    caller' = [caller EXCEPT ![c] = [at |-> at, answer |-> answer]]

Writing(c) == {d \in Callers \ {c} : caller[d].at = "write"}

\* The lookup finds the entry there is, or the one being written.
Lookup(c) ==
    /\ caller[c].at = "idle"
    /\ \E found \in {cache} \cup {caller[d].answer : d \in Writing(c)} :
          IF found = Missing THEN Go(c, "lock", Missing)
                             ELSE Go(c, "returned", found)
    /\ UNCHANGED <<table, cache, failures>>

\* Or Go's runtime notices the write and ends the process.
MapRace(c) ==
    /\ caller[c].at = "idle"
    /\ Writing(c) # {}
    /\ caller' = [d \in Callers |-> [caller[d] EXCEPT !.at = "dead"]]
    /\ UNCHANGED <<table, cache, failures>>

\* The entry is not looked for again under the lock.
Lock(c) ==
    /\ caller[c].at = "lock"
    /\ \A d \in Callers : caller[d].at \notin {"query", "write"}
    /\ Go(c, "query", Missing)
    /\ UNCHANGED <<table, cache, failures>>

Query(c) ==
    /\ caller[c].at = "query"
    /\ \/ /\ Go(c, "write", table)
          /\ UNCHANGED failures
       \/ /\ failures < MaxFailures
          /\ failures' = failures + 1
          /\ Go(c, "write", Failed)
    /\ UNCHANGED <<table, cache>>

\* (altered: an error is not cached)
CachedUnlessFailed(answer) == IF answer = Failed THEN cache ELSE answer

Cached(answer) == answer

\* The write, and the deferred Unlock.
Write(c) ==
    /\ caller[c].at = "write"
    /\ cache' = Cached(caller[c].answer)
    /\ Go(c, "returned", caller[c].answer)
    /\ UNCHANGED <<table, failures>>

CacheStep(c) == Lookup(c) \/ MapRace(c) \/ Lock(c) \/ Query(c) \/ Write(c)

================================================================================
