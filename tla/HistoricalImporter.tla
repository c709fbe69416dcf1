--------------------------- MODULE HistoricalImporter ---------------------------
(******************************************************************************)
(* The command `import` (historical_importer.go): Import hands batches of     *)
(* minutes over an unbuffered channel to its workers, each of which fetches   *)
(* its batch from GDAX and upserts the candlesticks of the answer one by one. *)
(* Any error makes the worker fetch the batch again, importerMaxRetries times *)
(* in all, then it is dropped.                                                *)
(*                                                                            *)
(* The realtime importer may fill the same table meanwhile.  A candlestick    *)
(* fetched while its minute was in progress is "partial", any other "final":  *)
(* that is all that is left of prices.  A minute is named by its start; GDAX  *)
(* has a candlestick for each that has begun.                                 *)
(******************************************************************************)
EXTENDS Integers, FiniteSets

CONSTANTS
    Workers,     \* the goroutines of Import: HistoricalImporter.concurrency
    BatchSize,   \* importerBatchSize
    MaxRetries,  \* importerMaxRetries
    First, Last, \* Import's range: its arguments start and end
    MaxMinute    \* bound: last minute of the modelled market

ASSUME HistoricalAssumption ==
    /\ Workers # {}
    /\ BatchSize \in Nat \ {0}
    /\ MaxRetries \in Nat \ {0}
    /\ First \in Nat /\ Last \in Nat /\ First <= Last
    /\ MaxMinute \in Nat /\ Last <= MaxMinute

Minutes == First..MaxMinute

VARIABLES
    now,       \* the minute in progress
    producer,  \* Import's own goroutine: where it is, the batch it has next
    worker,    \* each worker: where it is, its batch, the errors it met on it,
               \* the candlesticks left to upsert and when they were fetched
    stored,    \* candlesticks table
    began,     \* history: the minute in which Import was called
    dropped    \* history: the batches that were given up

vars == <<now, producer, worker, stored, began, dropped>>

Candlestick == {"none", "partial", "final"}

TypeOK ==
    /\ now \in First..MaxMinute + 1
    /\ producer \in [at : {"send", "wait", "done"}, next : Nat]
    /\ worker \in [Workers -> [at : {"receive", "fetch", "upsert", "exited"},
                               batch : Nat, retries : 0..MaxRetries - 1,
                               left : SUBSET Minutes, fetched : Nat]]
    /\ stored \in [Minutes -> Candlestick]
    /\ began \in First..MaxMinute + 1
    /\ dropped \subseteq First..Last

(* Import may be called before, in or after the last minute of its range; the *)
(* default end is the time of the call.                                       *)
Init ==
    /\ now \in Last..MaxMinute
    /\ began = now
    /\ producer = [at |-> "send", next |-> First]
    /\ worker = [w \in Workers |->
                    [at |-> "receive", batch |-> 0, retries |-> 0,
                     left |-> {}, fetched |-> 0]]
    /\ stored = [m \in Minutes |-> "none"]
    /\ dropped = {}

--------------------------------------------------------------------------------
(* Import                                                                     *)

(* (altered: the loop stops before the end, not after it) *)
HasBatchBeforeLast(i) == i < Last

(* The loop's condition: i.Before(end) || i.Equal(end). *)
HasBatch(i) == i <= Last

(* c <- msg meets a worker's range over c. *)
HandOver(w) ==
    /\ producer.at = "send" /\ HasBatch(producer.next)
    /\ worker[w].at = "receive"
    /\ worker' = [worker EXCEPT ![w].at = "fetch",
                                ![w].batch = producer.next,
                                ![w].retries = 0]
    /\ producer' = [producer EXCEPT !.next = @ + BatchSize]
    /\ UNCHANGED <<now, stored, began, dropped>>

(* close(c) *)
Close ==
    /\ producer.at = "send" /\ ~HasBatch(producer.next)
    /\ producer' = [producer EXCEPT !.at = "wait"]
    /\ UNCHANGED <<now, worker, stored, began, dropped>>

(* A worker's range over the closed channel ends; it calls wg.Done. *)
Exit(w) ==
    /\ producer.at = "wait"
    /\ worker[w].at = "receive"
    /\ worker' = [worker EXCEPT ![w].at = "exited"]
    /\ UNCHANGED <<now, producer, stored, began, dropped>>

(* (altered: no wait for the workers, only for the channel to be drained) *)
AllHandedOver == ~HasBatch(producer.next)

(* What wg.Wait waits for. *)
AllExited == \A w \in Workers : worker[w].at = "exited"

Return ==
    /\ producer.at = "wait" /\ AllExited
    /\ producer' = [producer EXCEPT !.at = "done"]
    /\ UNCHANGED <<now, worker, stored, began, dropped>>

--------------------------------------------------------------------------------
(* A worker                                                                   *)

(* GetHistoricRates for start..end of a batch: GDAX may or may not count the  *)
(* end in, and has nothing yet for minutes that have not begun.               *)
Rates(batch, upTo) == {m \in Minutes : batch <= m /\ m <= upTo /\ m <= now}

(* processBatch gets its candlesticks. *)
Fetch(w) ==
    /\ worker[w].at = "fetch"
    /\ \E upTo \in {worker[w].batch + BatchSize - 1, worker[w].batch + BatchSize} :
         worker' = [worker EXCEPT ![w].at = "upsert",
                                  ![w].left = Rates(worker[w].batch, upTo),
                                  ![w].fetched = now]
    /\ UNCHANGED <<now, producer, stored, began, dropped>>

AsFetched(w, m) == IF m < worker[w].fetched THEN "final" ELSE "partial"

(* UpsertCandlestick replaces the candlestick of the same minute. *)
Upsert(w) ==
    /\ worker[w].at = "upsert"
    /\ \E m \in worker[w].left :
         /\ stored' = [stored EXCEPT ![m] = AsFetched(w, m)]
         /\ worker' = [worker EXCEPT ![w].left = @ \ {m}]
    /\ UNCHANGED <<now, producer, began, dropped>>

(* processBatch returns nil: the worker goes back to the channel. *)
EndBatch(w) ==
    /\ worker[w].at = "upsert" /\ worker[w].left = {}
    /\ worker' = [worker EXCEPT ![w].at = "receive"]
    /\ UNCHANGED <<now, producer, stored, began, dropped>>

(* (altered: the worker goes back to the channel after the first error) *)
FailAndForget(w) ==
    /\ worker' = [worker EXCEPT ![w].at = "receive", ![w].left = {}]
    /\ UNCHANGED dropped

(* (altered: retries is not counted) *)
FailUncounted(w) ==
    /\ worker' = [worker EXCEPT ![w].at = "fetch", ![w].left = {}]
    /\ UNCHANGED dropped

(* (altered: one attempt too many) *)
FailLate(w) ==
    \/ /\ worker[w].retries + 1 <= MaxRetries
       /\ worker' = [worker EXCEPT ![w].at = "fetch", ![w].retries = @ + 1,
                                   ![w].left = {}]
       /\ UNCHANGED dropped
    \/ /\ worker[w].retries = MaxRetries
       /\ worker' = [worker EXCEPT ![w].at = "receive", ![w].left = {}]
       /\ dropped' = dropped \cup {worker[w].batch}

(* An error of a batch: it is fetched again after a pause, unless the error   *)
(* was its last.  The pauses are time in which `now` may move.                *)
Fail(w) ==
    \/ /\ worker[w].retries + 1 < MaxRetries
       /\ worker' = [worker EXCEPT ![w].at = "fetch", ![w].retries = @ + 1,
                                   ![w].left = {}]
       /\ UNCHANGED dropped
    \/ /\ worker[w].retries + 1 = MaxRetries
       /\ worker' = [worker EXCEPT ![w].at = "receive", ![w].left = {}]
       /\ dropped' = dropped \cup {worker[w].batch}

FetchFails(w) ==
    /\ worker[w].at = "fetch"
    /\ Fail(w)
    /\ UNCHANGED <<now, producer, stored, began>>

(* A failed upsert may have been written. *)
UpsertFails(w) ==
    /\ worker[w].at = "upsert"
    /\ \E m \in worker[w].left :
         \/ stored' = [stored EXCEPT ![m] = AsFetched(w, m)]
         \/ UNCHANGED stored
    /\ Fail(w)
    /\ UNCHANGED <<now, producer, began>>

--------------------------------------------------------------------------------
(* The rest of the system                                                     *)

Tick ==
    /\ now <= MaxMinute
    /\ now' = now + 1
    /\ UNCHANGED <<producer, worker, stored, began, dropped>>

(* RealtimeImporter.Flush stores a minute that is over. *)
RealtimeUpsert(m) ==
    /\ began <= m /\ m < now
    /\ stored' = [stored EXCEPT ![m] = "final"]
    /\ UNCHANGED <<now, producer, worker, began, dropped>>

(* Import has returned and the process ends. *)
Returned == producer.at = "done" /\ now > MaxMinute /\ UNCHANGED vars

WorkerStep(w) ==
    HandOver(w) \/ Exit(w) \/ Fetch(w) \/ Upsert(w) \/ EndBatch(w)
        \/ FetchFails(w) \/ UpsertFails(w)

Next ==
    \/ \E w \in Workers : WorkerStep(w)
    \/ Close
    \/ Return
    \/ Tick
    \/ \E m \in Minutes : RealtimeUpsert(m)
    \/ Returned

Spec == Init /\ [][Next]_vars

(* Goroutines are scheduled and calls return, well or badly. *)
FairSpec ==
    /\ Spec
    /\ \A w \in Workers : WF_vars(WorkerStep(w))
    /\ WF_vars(Close \/ Return)

--------------------------------------------------------------------------------
(* Properties                                                                 *)

(* The batch whose first minute is the last before or at m. *)
BatchOf(m) == First + ((m - First) \div BatchSize) * BatchSize

(* When Import returns, each minute of its range that was over when it began  *)
(* has its final candlestick, unless its batch met importerMaxRetries errors. *)
(* Import's caller sees no error either way (historical_importer.go:81-107).  *)
ImportComplete ==
    producer.at = "done" =>
        \A m \in First..Last :
            \/ stored[m] = "final"
            \/ m >= began
            \/ BatchOf(m) \in dropped

(* No batch is lost between the channel and the workers' retries: at all      *)
(* times, a minute that was over when Import began and whose batch was handed *)
(* over is stored, still being worked on, or dropped after all retries        *)
(* (historical_importer.go:53-71).                                            *)
Holds(w, m) ==
    /\ worker[w].batch = BatchOf(m)
    /\ worker[w].at = "fetch" \/ (worker[w].at = "upsert" /\ m \in worker[w].left)

NoBatchLost ==
    \A m \in First..Last :
        m < began /\ BatchOf(m) < producer.next =>
            \/ stored[m] = "final"
            \/ BatchOf(m) \in dropped
            \/ \E w \in Workers : Holds(w, m)

(* However batches, retries and the realtime importer interleave, the only    *)
(* way a final candlestick becomes a partial one is an answer fetched in that *)
(* very minute and upserted after it (historical_importer.go:37-47).  Minutes *)
(* that were over when Import began are never damaged, and nothing is any     *)
(* more once Import has returned (historical_importer.go:106).                *)
OnlyFreshMinutesDamaged ==
    [][\A m \in Minutes :
          stored[m] = "final" /\ stored'[m] # "final" =>
              /\ producer.at # "done"
              /\ m >= began /\ m < now
              /\ \E w \in Workers : worker[w].at = "upsert"
                                     /\ worker[w].fetched = m]_vars

(* Import returns, whatever fails and however often: no retry loop runs for   *)
(* ever and no worker waits for a channel nobody closes                       *)
(* (historical_importer.go:57-71, 102-106).                                   *)
ImportReturns == <>(producer.at = "done")
================================================================================
