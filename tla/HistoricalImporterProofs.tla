------------------------ MODULE HistoricalImporterProofs ------------------------
(******************************************************************************)
(* What Import promises of its range, for every number of workers, size of a  *)
(* batch, number of attempts, range and market.                               *)
(******************************************************************************)
EXTENDS HistoricalImporter, TLAPS

\* A worker's answer was fetched after Import was called and holds nothing that
\* had not begun; a final candlestick's minute is over.
Timely ==
    /\ began <= now
    /\ \A w \in Workers : worker[w].at = "upsert" =>
          /\ began <= worker[w].fetched /\ worker[w].fetched <= now
          /\ \A m \in worker[w].left : m <= worker[w].fetched
    /\ \A m \in Minutes : stored[m] = "final" => m < now

\* The next batch, and those that are worked on, are a whole number of batches
\* from the start; none is handed over after the last, or worked on at the end.
Batches ==
    /\ \E k \in Nat : producer.next = First + k * BatchSize
    /\ \A w \in Workers :
          worker[w].at \in {"fetch", "upsert"} => worker[w].batch \in First..Last
    /\ producer.at # "send" => ~HasBatch(producer.next)
    /\ producer.at = "done" => AllExited

IInv == TypeOK /\ Timely /\ Batches /\ NoBatchLost

--------------------------------------------------------------------------------
(* Batches. *)

LEMMA Division ==
    ASSUME NEW a \in Nat, NEW b \in Nat \ {0}
    PROVE  /\ a \div b \in Nat
           /\ (a \div b) * b <= a
           /\ a < (a \div b) * b + b
OBVIOUS

LEMMA SameMultiple ==
    ASSUME NEW j \in Nat, NEW k \in Nat, NEW b \in Nat \ {0},
           k * b <= j * b, j * b < k * b + b
    PROVE  j = k
<1>1. CASE j < k
  <2>1. (k - j) \in Nat \ {0} /\ (k - j) * b = k * b - j * b
    BY <1>1
  <2> QED
    BY <2>1
<1>2. CASE k < j
  <2>1. (j - k - 1) \in Nat /\ (j - k - 1) * b = j * b - k * b - b
    BY <1>2
  <2> QED
    BY <2>1
<1> QED
  BY <1>1, <1>2

\* A minute lies in its batch.
LEMMA InBatch ==
    ASSUME NEW m \in First..Last
    PROVE  /\ BatchOf(m) \in First..m
           /\ m <= BatchOf(m) + BatchSize - 1
<1>1. m - First \in Nat /\ BatchSize \in Nat \ {0} /\ First \in Nat /\ m \in Nat
  BY HistoricalAssumption
<1>2. LET k == (m - First) \div BatchSize
      IN  k \in Nat /\ k * BatchSize <= m - First /\ m - First < k * BatchSize + BatchSize
  BY <1>1, Division
<1> DEFINE b == ((m - First) \div BatchSize) * BatchSize
<1>3. b \in Nat /\ b <= m - First /\ m - First < b + BatchSize
  BY <1>1, <1>2
<1>4. BatchOf(m) = First + b
  BY DEF BatchOf
<1> HIDE DEF b
<1> QED
  BY <1>1, <1>3, <1>4

\* The batch that is next is that of all minutes which are not in a later one, or
\* one that was handed over.
LEMMA NextBatch ==
    ASSUME NEW m \in First..Last, NEW next,
           \E k \in Nat : next = First + k * BatchSize,
           next <= BatchOf(m), BatchOf(m) < next + BatchSize
    PROVE  BatchOf(m) = next
<1>1. PICK k \in Nat : next = First + k * BatchSize
  OBVIOUS
<1> DEFINE j == (m - First) \div BatchSize
<1>2. j \in Nat /\ BatchOf(m) = First + j * BatchSize
  BY Division, HistoricalAssumption DEF BatchOf
<1> HIDE DEF j
<1>3. k * BatchSize <= j * BatchSize /\ j * BatchSize < k * BatchSize + BatchSize
  BY <1>1, <1>2, HistoricalAssumption
<1>4. j = k
  BY <1>3, <1>2, SameMultiple, HistoricalAssumption
<1> QED
  BY <1>1, <1>2, <1>4

--------------------------------------------------------------------------------
(* The invariant. *)

LEMMA InitIInv == Init => IInv
<1> SUFFICES ASSUME Init PROVE IInv
  OBVIOUS
<1> USE HistoricalAssumption
<1>1. TypeOK
  BY DEF Init, TypeOK, Candlestick, Minutes
<1>2. Timely
  BY DEF Init, Timely, Minutes
<1>3. Batches
  <2>1. First = First + 0 * BatchSize
    OBVIOUS
  <2> QED
    BY <2>1 DEF Init, Batches
<1>4. NoBatchLost
  BY InBatch DEF Init, NoBatchLost
<1> QED
  BY <1>1, <1>2, <1>3, <1>4 DEF IInv

\* A step of one worker leaves the others.
Others(w) ==
    /\ worker' = [v \in Workers |-> worker'[v]]
    /\ \A v \in Workers \ {w} : worker'[v] = worker[v]

Task == [at : {"receive", "fetch", "upsert", "exited"}, batch : Nat,
         retries : 0..MaxRetries - 1, left : SUBSET Minutes, fetched : Nat]

LEMMA TasksTyped ==
    ASSUME TypeOK, NEW w \in Workers, Others(w), worker'[w] \in Task
    PROVE  worker' \in [Workers -> Task]
BY DEF TypeOK, Others, Task

LEMMA TaskOf == ASSUME TypeOK, NEW w \in Workers PROVE worker[w] \in Task
BY DEF TypeOK, Task

LEMMA HandOverKeeps == ASSUME IInv, NEW w \in Workers, HandOver(w) PROVE IInv'
<1> USE HistoricalAssumption DEF IInv
<1>1. /\ worker'[w] = [worker[w] EXCEPT !.at = "fetch", !.batch = producer.next,
                                        !.retries = 0]
      /\ Others(w)
      /\ producer' = [producer EXCEPT !.next = @ + BatchSize]
      /\ producer.at = "send" /\ producer.next <= Last
      /\ worker[w].at = "receive"
      /\ UNCHANGED <<now, stored, began, dropped>>
  BY DEF HandOver, HasBatch, TypeOK, Others
<1>2. producer.next \in First..Last
  <2>1. PICK k \in Nat : producer.next = First + k * BatchSize
    BY DEF Batches
  <2>2. k * BatchSize \in Nat
    BY <2>1
  <2> QED
    BY <1>1, <2>1, <2>2
<1>3. TypeOK'
  <2>1. worker'[w] \in Task
    <3>1. worker'[w] = [at |-> "fetch", batch |-> producer.next, retries |-> 0,
                        left |-> worker[w].left, fetched |-> worker[w].fetched]
      BY <1>1, TaskOf DEF Task
    <3>2. producer.next \in Nat /\ 0 \in 0..MaxRetries - 1
      BY <1>2
    <3>3. worker[w].left \in SUBSET Minutes /\ worker[w].fetched \in Nat
      BY TaskOf DEF Task
    <3> QED
      BY <3>1, <3>2, <3>3 DEF Task
  <2>2. producer' \in [at : {"send", "wait", "done"}, next : Nat]
    BY <1>1 DEF TypeOK
  <2> QED
    BY <1>1, <2>1, <2>2, TasksTyped DEF TypeOK, Task
<1>4. Timely'
  BY <1>1 DEF Timely, TypeOK, Others
<1>5. Batches'
  <2>1. \E k \in Nat : producer'.next = First + k * BatchSize
    <3>1. PICK k \in Nat : producer.next = First + k * BatchSize
      BY DEF Batches
    <3>2. producer'.next = First + (k + 1) * BatchSize
      BY <1>1, <3>1 DEF TypeOK
    <3> QED
      BY <3>2
  <2>2. \A v \in Workers :
           worker'[v].at \in {"fetch", "upsert"} => worker'[v].batch \in First..Last
    BY <1>1, <1>2 DEF Batches, Others, TypeOK
  <2>3. producer'.at = "send"
    BY <1>1 DEF TypeOK
  <2> QED
    BY <2>1, <2>2, <2>3 DEF Batches
<1>6. NoBatchLost'
  <2> SUFFICES ASSUME NEW m \in First..Last, m < began,
                      BatchOf(m) < producer'.next
               PROVE  \/ stored[m] = "final"
                      \/ BatchOf(m) \in dropped
                      \/ \E v \in Workers : Holds(v, m)'
    BY <1>1 DEF NoBatchLost
  <2>1. CASE BatchOf(m) < producer.next
    <3>1. CASE \E v \in Workers : Holds(v, m)
      <4>1. PICK v \in Workers : Holds(v, m)
        BY <3>1
      <4>2. v # w
        BY <1>1, <4>1 DEF Holds
      <4> QED
        BY <1>1, <4>1, <4>2 DEF Holds, Others
    <3> QED
      BY <2>1, <3>1 DEF NoBatchLost
  <2>2. CASE ~(BatchOf(m) < producer.next)
    <3>1. BatchOf(m) \in Int /\ producer.next \in Int
      BY <1>2, InBatch
    <3>2. producer.next <= BatchOf(m) /\ BatchOf(m) < producer.next + BatchSize
      BY <1>1, <2>2, <3>1 DEF TypeOK
    <3>3. BatchOf(m) = producer.next
      BY <3>2, NextBatch DEF Batches
    <3> QED
      BY <1>1, <3>3 DEF Holds, TypeOK
  <2> QED
    BY <2>1, <2>2
<1> QED
  BY <1>3, <1>4, <1>5, <1>6

\* The worker still holds the minutes of its batch that were over at the call.
LEMMA FetchKeeps == ASSUME IInv, NEW w \in Workers, Fetch(w) PROVE IInv'
<1> USE HistoricalAssumption DEF IInv
<1>1. PICK upTo \in {worker[w].batch + BatchSize - 1, worker[w].batch + BatchSize} :
         /\ worker' = [worker EXCEPT ![w].at = "upsert",
                                     ![w].left = Rates(worker[w].batch, upTo),
                                     ![w].fetched = now]
  BY DEF Fetch
<1>2. /\ worker'[w] = [worker[w] EXCEPT !.at = "upsert", !.fetched = now,
                                        !.left = Rates(worker[w].batch, upTo)]
      /\ Others(w)
      /\ worker[w].at = "fetch"
      /\ UNCHANGED <<now, producer, stored, began, dropped>>
  BY <1>1 DEF Fetch, TypeOK, Others
<1>3. TypeOK'
  <2>1. worker'[w] \in Task
    <3>1. worker'[w] = [at |-> "upsert", batch |-> worker[w].batch,
                        retries |-> worker[w].retries,
                        left |-> Rates(worker[w].batch, upTo), fetched |-> now]
      BY <1>2, TaskOf DEF Task
    <3>2. now \in Nat /\ Rates(worker[w].batch, upTo) \in SUBSET Minutes
      BY DEF TypeOK, Rates
    <3>3. worker[w].batch \in Nat /\ worker[w].retries \in 0..MaxRetries - 1
      BY TaskOf DEF Task
    <3> QED
      BY <3>1, <3>2, <3>3 DEF Task
  <2> QED
    BY <1>2, <2>1, TasksTyped DEF TypeOK, Task
<1>4. Timely'
  <2>1. worker'[w].fetched = now /\ worker'[w].left = Rates(worker[w].batch, upTo)
    BY <1>2, TaskOf DEF Task
  <2>2. /\ began <= worker'[w].fetched /\ worker'[w].fetched <= now
        /\ \A m \in worker'[w].left : m <= worker'[w].fetched
    BY <2>1 DEF Timely, TypeOK, Rates
  <2> QED
    BY <1>2, <2>2 DEF Timely, Others
<1>5. Batches'
  BY <1>2 DEF Batches, Others, TypeOK, AllExited
<1>6. NoBatchLost'
  <2> SUFFICES ASSUME NEW m \in First..Last, m < began, BatchOf(m) < producer.next
               PROVE  \/ stored[m] = "final"
                      \/ BatchOf(m) \in dropped
                      \/ \E v \in Workers : Holds(v, m)'
    BY <1>2 DEF NoBatchLost
  <2>1. ASSUME NEW v \in Workers, Holds(v, m) PROVE Holds(v, m)'
    <3>1. CASE v # w
      BY <1>2, <2>1, <3>1 DEF Holds, Others
    <3>2. CASE v = w
      <4>1. worker[w].batch = BatchOf(m)
        BY <2>1, <3>2 DEF Holds
      <4>2. m \in Rates(worker[w].batch, upTo)
        <5>1. /\ m \in Int /\ now \in Int /\ began \in Int /\ BatchOf(m) \in Int
              /\ BatchSize \in Nat
          BY InBatch DEF TypeOK
        <5>2. m \in Minutes
          BY DEF Minutes
        <5>3. m <= now
          BY <5>1 DEF Timely
        <5>4. BatchOf(m) <= m /\ m <= upTo
          BY <4>1, <5>1, InBatch
        <5> QED
          BY <4>1, <5>2, <5>3, <5>4 DEF Rates
      <4> QED
        BY <1>2, <3>2, <4>1, <4>2 DEF Holds, TypeOK
    <3> QED
      BY <3>1, <3>2
  <2> QED
    BY <2>1 DEF NoBatchLost
<1> QED
  BY <1>3, <1>4, <1>5, <1>6

\* What may become of the table in a step: what was over at the call stays final,
\* and nothing is final before it is over.
TableKept ==
    /\ stored' \in [Minutes -> Candlestick]
    /\ \A m \in Minutes : stored'[m] = "final" => m < now
    /\ \A m \in Minutes : stored[m] = "final" /\ m < began => stored'[m] = "final"

LEMMA UpsertKeepsTable ==
    ASSUME IInv, NEW w \in Workers, worker[w].at = "upsert",
           NEW m \in worker[w].left, stored' = [stored EXCEPT ![m] = AsFetched(w, m)]
    PROVE  /\ TableKept
           /\ m \in Minutes
           /\ m < began => stored'[m] = "final"
<1>1. /\ m \in Minutes /\ m \in Int /\ now \in Int /\ began \in Int
      /\ worker[w].fetched \in Int
  BY HistoricalAssumption, TaskOf DEF IInv, TypeOK, Task, Minutes
<1>2. began <= worker[w].fetched /\ worker[w].fetched <= now
  BY DEF IInv, Timely
<1>3. stored'[m] = AsFetched(w, m) /\ \A q \in Minutes \ {m} : stored'[q] = stored[q]
  BY <1>1 DEF IInv, TypeOK
<1>4. AsFetched(w, m) \in {"partial", "final"}
      /\ (AsFetched(w, m) = "final" => m < worker[w].fetched)
      /\ (m < worker[w].fetched => AsFetched(w, m) = "final")
  BY DEF AsFetched
<1>5. stored' \in [Minutes -> Candlestick]
  BY <1>1, <1>4 DEF IInv, TypeOK, Candlestick
<1>6. AsFetched(w, m) = "final" => m < now
  BY <1>1, <1>2, <1>4
<1>7. m < began => stored'[m] = "final"
  BY <1>1, <1>2, <1>3, <1>4
<1>8. \A q \in Minutes : stored'[q] = "final" => q < now
  BY <1>3, <1>6 DEF IInv, Timely
<1>9. \A q \in Minutes : stored[q] = "final" /\ q < began => stored'[q] = "final"
  BY <1>3, <1>7
<1> QED
  BY <1>1, <1>5, <1>7, <1>8, <1>9 DEF TableKept

\* A worker that goes on with its batch, or gives it up.
LEMMA StepKeeps ==
    ASSUME IInv, NEW w \in Workers, Others(w), worker'[w] \in Task,
           worker[w].at # "exited",
           UNCHANGED <<now, producer, began>>, TableKept,
           dropped' \in {dropped, dropped \cup {worker[w].batch}},
           dropped' # dropped => worker[w].at \in {"fetch", "upsert"},
           worker'[w].at \in {"fetch", "upsert"} =>
              worker[w].at \in {"fetch", "upsert"} /\ worker'[w].batch = worker[w].batch,
           worker'[w].at = "upsert" =>
              /\ worker[w].at = "upsert" /\ worker'[w].fetched = worker[w].fetched
              /\ worker'[w].left \subseteq worker[w].left,
           \A m \in First..Last :
              m < began /\ Holds(w, m) => \/ Holds(w, m)'
                                          \/ stored'[m] = "final"
                                          \/ BatchOf(m) \in dropped'
    PROVE  IInv'
<1> USE HistoricalAssumption DEF IInv
<1>1. dropped' \subseteq First..Last
  BY DEF TypeOK, Batches
<1>2. TypeOK'
  BY <1>1, TasksTyped DEF TypeOK, Task, TableKept
<1>3. Timely'
  <2>1. ASSUME NEW v \in Workers, worker'[v].at = "upsert"
        PROVE  /\ began <= worker'[v].fetched /\ worker'[v].fetched <= now
               /\ \A m \in worker'[v].left : m <= worker'[v].fetched
    BY <2>1 DEF Timely, Others
  <2>2. \A m \in Minutes : stored'[m] = "final" => m < now
    BY DEF TableKept
  <2> QED
    BY <2>1, <2>2 DEF Timely
<1>4. Batches'
  <2>1. \A v \in Workers :
           worker'[v].at \in {"fetch", "upsert"} => worker'[v].batch \in First..Last
    BY DEF Batches, Others
  <2>2. producer.at # "done"
    BY DEF Batches, AllExited
  <2> QED
    BY <2>1, <2>2 DEF Batches
<1>5. NoBatchLost'
  <2> SUFFICES ASSUME NEW m \in First..Last, m < began, BatchOf(m) < producer.next
               PROVE  \/ stored'[m] = "final"
                      \/ BatchOf(m) \in dropped'
                      \/ \E v \in Workers : Holds(v, m)'
    BY DEF NoBatchLost
  <2>1. CASE stored[m] = "final"
    <3>1. m \in Minutes
      BY DEF Minutes
    <3> QED
      BY <2>1, <3>1 DEF TableKept
  <2>2. CASE BatchOf(m) \in dropped
    BY <2>2
  <2>3. ASSUME NEW v \in Workers, Holds(v, m)
        PROVE  \/ stored'[m] = "final"
               \/ BatchOf(m) \in dropped'
               \/ \E u \in Workers : Holds(u, m)'
    <3>1. CASE v = w
      BY <2>3, <3>1
    <3>2. CASE v # w
      BY <2>3, <3>2 DEF Others, Holds
    <3> QED
      BY <3>1, <3>2
  <2> QED
    BY <2>1, <2>2, <2>3 DEF NoBatchLost
<1> QED
  BY <1>2, <1>3, <1>4, <1>5

LEMMA UpsertKeeps == ASSUME IInv, NEW w \in Workers, Upsert(w) PROVE IInv'
<1>1. PICK m \in worker[w].left :
         /\ stored' = [stored EXCEPT ![m] = AsFetched(w, m)]
         /\ worker' = [worker EXCEPT ![w].left = @ \ {m}]
  BY DEF Upsert
<1>2. /\ worker[w].at = "upsert" /\ worker[w] \in Task
      /\ UNCHANGED <<now, producer, began, dropped>>
  BY TaskOf DEF Upsert, IInv
<1>3. /\ Others(w)
      /\ worker'[w] = [worker[w] EXCEPT !.left = @ \ {m}]
  BY <1>1 DEF IInv, TypeOK, Others
<1>4. /\ worker'[w].at = "upsert" /\ worker'[w].batch = worker[w].batch
      /\ worker'[w].fetched = worker[w].fetched
      /\ worker'[w].left = worker[w].left \ {m}
      /\ worker'[w] \in Task
  BY <1>2, <1>3 DEF Task
<1>5. TableKept /\ (m < began => stored'[m] = "final")
  BY <1>1, <1>2, UpsertKeepsTable
<1>6. \A q \in First..Last : q < began /\ Holds(w, q) => \/ Holds(w, q)'
                                                        \/ stored'[q] = "final"
  BY <1>2, <1>4, <1>5 DEF Holds
<1> QED
  BY <1>2, <1>3, <1>4, <1>5, <1>6, StepKeeps

\* Where a failure leaves the worker and its batch, whatever it did to the table.
LEMMA FailKeeps ==
    ASSUME IInv, NEW w \in Workers, worker[w].at \in {"fetch", "upsert"}, Fail(w),
           UNCHANGED <<now, producer, began>>, TableKept
    PROVE  IInv'
<1>1. worker[w] \in Task
  BY TaskOf DEF IInv
<1>2. CASE /\ worker[w].retries + 1 < MaxRetries
           /\ worker' = [worker EXCEPT ![w].at = "fetch", ![w].retries = @ + 1,
                                       ![w].left = {}]
           /\ UNCHANGED dropped
  <2>1. /\ Others(w)
        /\ worker'[w] = [worker[w] EXCEPT !.at = "fetch", !.retries = @ + 1,
                                          !.left = {}]
    BY <1>2 DEF IInv, TypeOK, Others
  <2>2. worker'[w] = [at |-> "fetch", batch |-> worker[w].batch,
                      retries |-> worker[w].retries + 1, left |-> {},
                      fetched |-> worker[w].fetched]
    BY <1>1, <2>1 DEF Task
  <2>3. worker[w].retries + 1 \in 0..MaxRetries - 1
    BY <1>1, <1>2, HistoricalAssumption DEF Task
  <2>4. worker'[w] \in Task
    BY <1>1, <2>2, <2>3 DEF Task
  <2>5. \A m \in First..Last : Holds(w, m) => Holds(w, m)'
    BY <2>2 DEF Holds
  <2> QED
    <3>1. worker'[w].at = "fetch" /\ worker'[w].batch = worker[w].batch
      BY <2>2
    <3>2. dropped' = dropped /\ worker[w].at # "exited"
      BY <1>2
    <3> QED
      BY <2>1, <2>4, <2>5, <3>1, <3>2, StepKeeps
<1>3. CASE /\ worker[w].retries + 1 = MaxRetries
           /\ worker' = [worker EXCEPT ![w].at = "receive", ![w].left = {}]
           /\ dropped' = dropped \cup {worker[w].batch}
  <2>1. /\ Others(w)
        /\ worker'[w] = [worker[w] EXCEPT !.at = "receive", !.left = {}]
    BY <1>3 DEF IInv, TypeOK, Others
  <2>2. worker'[w] = [at |-> "receive", batch |-> worker[w].batch,
                      retries |-> worker[w].retries, left |-> {},
                      fetched |-> worker[w].fetched]
    BY <1>1, <2>1 DEF Task
  <2>3. worker'[w] \in Task
    BY <1>1, <2>2 DEF Task
  <2>4. \A m \in First..Last : Holds(w, m) => BatchOf(m) \in dropped'
    BY <1>3 DEF Holds
  <2> QED
    <3>1. worker'[w].at = "receive"
      BY <2>2
    <3>2. dropped' = dropped \cup {worker[w].batch} /\ worker[w].at # "exited"
      BY <1>3
    <3> QED
      BY <2>1, <2>3, <2>4, <3>1, <3>2, StepKeeps
<1> QED
  BY <1>2, <1>3 DEF Fail

LEMMA FailuresKeep ==
    ASSUME IInv, NEW w \in Workers, FetchFails(w) \/ UpsertFails(w)
    PROVE  IInv'
<1>1. CASE FetchFails(w)
  <2>1. TableKept
    BY <1>1 DEF FetchFails, TableKept, IInv, TypeOK, Timely
  <2> QED
    BY <1>1, <2>1, FailKeeps DEF FetchFails
<1>2. CASE UpsertFails(w)
  <2>1. TableKept
    <3>1. CASE UNCHANGED stored
      BY <3>1 DEF TableKept, IInv, TypeOK, Timely
    <3>2. CASE \E m \in worker[w].left :
                  stored' = [stored EXCEPT ![m] = AsFetched(w, m)]
      BY <1>2, <3>2, UpsertKeepsTable DEF UpsertFails
    <3> QED
      BY <1>2, <3>1, <3>2 DEF UpsertFails
  <2> QED
    BY <1>2, <2>1, FailKeeps DEF UpsertFails
<1> QED
  BY <1>1, <1>2

\* A worker between two batches.
LEMMA LeaveKeeps ==
    ASSUME IInv, NEW w \in Workers, EndBatch(w) \/ Exit(w)
    PROVE  IInv'
<1>1. worker[w] \in Task
  BY TaskOf DEF IInv
<1>2. PICK at \in {"receive", "exited"} :
         worker' = [worker EXCEPT ![w].at = at]
  BY DEF EndBatch, Exit
<1>3. /\ Others(w)
      /\ worker'[w] = [worker[w] EXCEPT !.at = at]
      /\ worker[w].at \in {"receive", "upsert"}
      /\ worker[w].at = "upsert" => worker[w].left = {}
      /\ UNCHANGED <<now, producer, stored, began, dropped>>
  BY <1>2 DEF EndBatch, Exit, IInv, TypeOK, Others
<1>4. worker'[w].at = at /\ worker'[w] \in Task
  BY <1>1, <1>3 DEF Task
<1>5. TableKept
  BY <1>3 DEF TableKept, IInv, TypeOK, Timely
<1>6. \A m \in First..Last : ~Holds(w, m)
  BY <1>3 DEF Holds
<1> QED
  BY <1>3, <1>4, <1>5, <1>6, StepKeeps

\* The rest of the system leaves the workers and their batches alone.
LEMMA ElsewhereKeeps ==
    ASSUME IInv, Close \/ Return \/ Tick \/ (\E m \in Minutes : RealtimeUpsert(m))
    PROVE  IInv'
<1> USE HistoricalAssumption DEF IInv
<1>1. /\ (now' \in {now, now + 1} /\ now <= MaxMinute) \/ now' = now
      /\ UNCHANGED <<worker, began, dropped>>
      /\ producer' = producer \/ (Close /\ stored' = stored) \/ (Return /\ stored' = stored)
  BY DEF Close, Return, Tick, RealtimeUpsert
<1>2. /\ stored' \in [Minutes -> Candlestick]
      /\ \A m \in Minutes : stored[m] = "final" => stored'[m] = "final"
      /\ \A m \in Minutes : stored'[m] = "final" => m < now'
  <2>1. CASE UNCHANGED stored
    <3>1. \A m \in Minutes : m \in Int /\ (stored[m] = "final" => m < now)
      BY DEF Minutes, Timely
    <3>2. now \in Int /\ now' \in Int /\ now <= now'
      BY <1>1 DEF TypeOK
    <3> QED
      BY <2>1, <3>1, <3>2 DEF TypeOK
  <2>2. CASE \E m \in Minutes : RealtimeUpsert(m)
    BY <2>2 DEF RealtimeUpsert, TypeOK, Timely, Candlestick
  <2> QED
    BY <2>1, <2>2 DEF Close, Return, Tick
<1>3. producer' \in [at : {"send", "wait", "done"}, next : Nat]
      /\ producer'.next = producer.next
  BY <1>1 DEF Close, Return, TypeOK
<1>4. TypeOK'
  BY <1>1, <1>2, <1>3 DEF TypeOK
<1>5. Timely'
  <2>1. now \in Int /\ now' \in Int /\ now <= now' /\ began \in Int
    BY <1>1 DEF TypeOK
  <2>2. \A w \in Workers : worker[w].fetched \in Int
    BY TaskOf DEF Task
  <2> QED
    BY <1>1, <1>2, <2>1, <2>2 DEF Timely
<1>6. Batches'
  <2>1. CASE producer' = producer
    BY <1>1, <2>1 DEF Batches, AllExited
  <2>2. CASE Close
    <3>1. producer'.at = "wait" /\ ~HasBatch(producer.next)
      BY <2>2 DEF Close, TypeOK
    <3> QED
      BY <1>1, <1>3, <3>1 DEF Batches, HasBatch
  <2>3. CASE Return
    BY <1>1, <1>3, <2>3 DEF Return, Batches, AllExited, HasBatch
  <2> QED
    BY <1>1, <2>1, <2>2, <2>3
<1>7. NoBatchLost'
  BY <1>1, <1>2, <1>3 DEF NoBatchLost, Holds, Minutes
<1> QED
  BY <1>4, <1>5, <1>6, <1>7

LEMMA NextIInv == IInv /\ [Next]_vars => IInv'
<1> SUFFICES ASSUME IInv, [Next]_vars PROVE IInv'
  OBVIOUS
<1>1. ASSUME NEW w \in Workers, WorkerStep(w) PROVE IInv'
  BY <1>1, HandOverKeeps, LeaveKeeps, FetchKeeps, UpsertKeeps, FailuresKeep
     DEF WorkerStep
<1>2. CASE UNCHANGED vars
  BY <1>2 DEF IInv, TypeOK, Timely, Batches, NoBatchLost, Holds, AllExited, HasBatch,
              vars
<1> QED
  BY <1>1, <1>2, ElsewhereKeeps DEF Next, Returned

--------------------------------------------------------------------------------
\* The channel, the workers and the table keep their types; no retry is one too
\* many (historical_importer.go:57-71).
THEOREM TypeCorrect == Spec => []TypeOK
<1>1. IInv => TypeOK
  BY DEF IInv
<1> QED
  BY InitIInv, NextIInv, <1>1, PTL DEF Spec

\* What Import returns from is stored, but for batches that met
\* importerMaxRetries errors (historical_importer.go:53-107).
THEOREM RangeImported == Spec => []ImportComplete
<1>1. IInv => ImportComplete
  <2> SUFFICES ASSUME IInv, producer.at = "done", NEW m \in First..Last
               PROVE  \/ stored[m] = "final"
                      \/ m >= began
                      \/ BatchOf(m) \in dropped
    BY DEF ImportComplete
  <2>1. BatchOf(m) < producer.next
    <3>1. ~(producer.next <= Last) /\ producer.next \in Int
      BY DEF IInv, Batches, HasBatch, TypeOK
    <3>2. BatchOf(m) <= m /\ BatchOf(m) \in Int
      BY InBatch, HistoricalAssumption
    <3> QED
      BY <3>1, <3>2, HistoricalAssumption
  <2>2. \A w \in Workers : ~Holds(w, m)
    BY DEF IInv, Batches, AllExited, Holds
  <2>3. m \in Int /\ began \in Int
    BY HistoricalAssumption DEF IInv, TypeOK
  <2> QED
    BY <2>1, <2>2, <2>3 DEF IInv, NoBatchLost
<1> QED
  BY InitIInv, NextIInv, <1>1, PTL DEF Spec

\* The only way a final candlestick is lost is an answer fetched in that very
\* minute, while Import goes on (historical_importer.go:37-47, 106).
THEOREM OnlyFreshDamaged == Spec => OnlyFreshMinutesDamaged
<1> DEFINE Damaged(m) == stored[m] = "final" /\ stored'[m] # "final"
           Fresh(m) == /\ producer.at # "done"
                       /\ m >= began /\ m < now
                       /\ \E w \in Workers : worker[w].at = "upsert"
                                              /\ worker[w].fetched = m
<1>1. IInv /\ [Next]_vars => [\A m \in Minutes : Damaged(m) => Fresh(m)]_vars
  <2> SUFFICES ASSUME IInv, Next, NEW m \in Minutes, Damaged(m)
               PROVE  Fresh(m)
    OBVIOUS
  <2>1. \/ \E w \in Workers : Upsert(w) \/ UpsertFails(w)
        \/ \E q \in Minutes : RealtimeUpsert(q)
    BY DEF Next, WorkerStep, HandOver, Exit, Fetch, EndBatch, FetchFails, Close, Return,
           Tick, Returned, vars
  <2>2. ~ \E q \in Minutes : RealtimeUpsert(q)
    BY DEF RealtimeUpsert, IInv, TypeOK
  <2>3. PICK w \in Workers, q \in UNION {worker[v].left : v \in Workers} :
           /\ worker[w].at = "upsert" /\ q \in worker[w].left
           /\ stored' = [stored EXCEPT ![q] = AsFetched(w, q)]
    BY <2>1, <2>2 DEF Upsert, UpsertFails
  <2>4. q = m /\ AsFetched(w, m) # "final"
    BY <2>3 DEF IInv, TypeOK
  <2>5. m \in Int /\ worker[w].fetched \in Int /\ now \in Int /\ began \in Int
    BY HistoricalAssumption, TaskOf DEF Minutes, IInv, TypeOK, Task
  <2>6. worker[w].fetched = m
    BY <2>3, <2>4, <2>5 DEF AsFetched, IInv, Timely
  <2>7. m >= began /\ m < now
    BY <2>3, <2>5, <2>6 DEF IInv, Timely
  <2>8. producer.at # "done"
    BY <2>3 DEF IInv, Batches, AllExited
  <2> QED
    BY <2>3, <2>6, <2>7, <2>8
<1> QED
  BY InitIInv, NextIInv, <1>1, PTL DEF Spec, OnlyFreshMinutesDamaged

================================================================================
