---------------------------- MODULE RealtimeImporter ----------------------------
(******************************************************************************)
(* One RealtimeImporter of `realtime-import` for an exchange that emits trade *)
(* messages (realtime_importer.go): the reader goroutine puts each message in *)
(* the CandlestickBuilder of its minute, the ticker goroutine flushes every   *)
(* minute but the newest to the candlesticks table.                           *)
(*                                                                            *)
(* The two share the map of builders.  Its writes are made under the mutex,   *)
(* but some of its reads are not: a read that meets a write may make the Go   *)
(* runtime end the process, which is where MapRace comes from.  A builder is  *)
(* the set of trades it has counted; only the reader creates builders and     *)
(* only the flusher removes them, so a minute names at most one builder.      *)
(******************************************************************************)
EXTENDS Naturals, FiniteSets

CONSTANTS
    Trades,       \* the trades of the modelled market ("match" messages)
    NoTrade,      \* the payload of every other type of message
    MaxMinute,    \* bound: last minute of the modelled market
    Skew,         \* how many minutes late a message may arrive
    MaxCrashes,   \* bound: deaths of the process
    MaxFailures   \* bound: failed upserts

ASSUME ImporterAssumption ==
    /\ NoTrade \notin Trades
    /\ MaxMinute \in Nat
    /\ Skew \in Nat
    /\ MaxCrashes \in Nat
    /\ MaxFailures \in Nat

Minutes == 1..MaxMinute

VARIABLES
    now,       \* newest minute a message has been sent in
    reader,    \* the reader goroutine: where it is and the message it has
    flusher,   \* the ticker goroutine: where it is, the minutes left to flush,
               \* the one being flushed and the candlestick built for it
    open,      \* RealtimeImporter.candles: minutes with a builder
    counted,   \* the trades each builder has counted
    writing,   \* which goroutine is writing the map, under the mutex
    stored,    \* candlesticks table: the trades in each minute's candlestick
    minuteOf,  \* history: the minute of each trade received, 0 before that
    late,      \* history: trades that came after a message of a later minute
    dropped,   \* history: trades that were in memory when the process died
    crashes, failures

vars == <<now, reader, flusher, open, counted, writing, stored, minuteOf, late,
          dropped, crashes, failures>>

Nobody == "nobody"
Message == [minute : Minutes \cup {0}, trade : Trades \cup {NoTrade}]

TypeOK ==
    /\ now \in Minutes \cup {0}
    /\ reader \in [at : {"dial", "idle", "insert", "inserting", "lookup",
                         "process"}, msg : Message]
    /\ flusher \in [at : {"wait", "list", "build", "upsert", "delete",
                          "deleting"},
                    left : SUBSET Minutes, minute : Minutes \cup {0},
                    candle : SUBSET Trades]
    /\ open \subseteq Minutes
    /\ counted \in [Minutes -> SUBSET Trades]
    /\ writing \in {Nobody, "reader", "flusher"}
    /\ stored \in [Minutes -> SUBSET Trades]
    /\ minuteOf \in [Trades -> Minutes \cup {0}]
    /\ late \subseteq Trades
    /\ dropped \subseteq Trades
    /\ crashes \in 0..MaxCrashes
    /\ failures \in 0..MaxFailures

NoMessage == [minute |-> 0, trade |-> NoTrade]
Reader(at) == reader' = [reader EXCEPT !.at = at]
Waiting == [at |-> "wait", left |-> {}, minute |-> 0, candle |-> {}]

Init ==
    /\ now = 0
    /\ reader = [at |-> "dial", msg |-> NoMessage]
    /\ flusher = Waiting
    /\ open = {}
    /\ counted = [m \in Minutes |-> {}]
    /\ writing = Nobody
    /\ stored = [m \in Minutes |-> {}]
    /\ minuteOf = [t \in Trades |-> 0]
    /\ late = {}
    /\ dropped = {}
    /\ crashes = 0
    /\ failures = 0

--------------------------------------------------------------------------------
(* The reader: StartProcessingMessages and ProcessExchangeMessage. *)

ReaderOnly == UNCHANGED <<flusher, stored, dropped, crashes, failures>>

\* GetMessageChan connects and subscribes; until it does, the loop sleeps.
Dial ==
    /\ reader.at = "dial"
    /\ Reader("idle")
    /\ ReaderOnly
    /\ UNCHANGED <<now, open, counted, writing, minuteOf, late>>

\* Reading the websocket fails: the channel is closed.
Disconnect ==
    /\ reader.at = "idle"
    /\ Reader("dial")
    /\ ReaderOnly
    /\ UNCHANGED <<now, open, counted, writing, minuteOf, late>>

\* A message of minute m arrives, in the order of the exchange's clock but for
\* Skew minutes.
Receive(m, t) ==
    /\ reader.at = "idle"
    /\ m + Skew >= now
    /\ now' = IF m > now THEN m ELSE now
    /\ reader' = [at |-> "insert", msg |-> [minute |-> m, trade |-> t]]
    /\ ReaderOnly
    /\ UNCHANGED <<open, counted, writing>>

\* A trade is late when its minute is not the newest one known any more.
ReceiveTrade(m, t) ==
    /\ minuteOf[t] = 0
    /\ Receive(m, t)
    /\ minuteOf' = [minuteOf EXCEPT ![t] = m]
    /\ late' = IF m < now THEN late \cup {t} ELSE late

ReceiveOther(m) ==
    /\ Receive(m, NoTrade)
    /\ UNCHANGED <<minuteOf, late>>

\* With the mutex: nothing to insert...
HasBuilder ==
    /\ reader.at = "insert"
    /\ writing = Nobody
    /\ reader.msg.minute \in open
    /\ Reader("lookup")
    /\ ReaderOnly
    /\ UNCHANGED <<now, open, counted, writing, minuteOf, late>>

\* ...or a new builder, which takes two steps, so that a read can meet it.
BeginInsert ==
    /\ reader.at = "insert"
    /\ writing = Nobody
    /\ reader.msg.minute \notin open
    /\ writing' = "reader"
    /\ Reader("inserting")
    /\ ReaderOnly
    /\ UNCHANGED <<now, open, counted, minuteOf, late>>

EndInsert ==
    /\ reader.at = "inserting"
    /\ open' = open \cup {reader.msg.minute}
    /\ counted' = [counted EXCEPT ![reader.msg.minute] = {}]
    /\ writing' = Nobody
    /\ Reader("lookup")
    /\ ReaderOnly
    /\ UNCHANGED <<now, minuteOf, late>>

\* The builder is looked up again, after the mutex was released.
Lookup ==
    /\ reader.at = "lookup"
    /\ reader.msg.minute \in open
    /\ Reader("process")
    /\ ReaderOnly
    /\ UNCHANGED <<now, open, counted, writing, minuteOf, late>>

\* (altered: the type of the message is not checked)
CountingEverything(m, t) ==
    IF m \in open THEN [counted EXCEPT ![m] = @ \cup {t}] ELSE counted

\* CandlestickBuilder.ProcessMessage counts "match" messages only.  If the
\* flusher has removed the builder meanwhile, nobody will see what it counts.
Counting(m, t) ==
    IF m \in open /\ t # NoTrade
    THEN [counted EXCEPT ![m] = @ \cup {t}]
    ELSE counted

ProcessMessage ==
    /\ reader.at = "process"
    /\ counted' = Counting(reader.msg.minute, reader.msg.trade)
    /\ reader' = [at |-> "idle", msg |-> NoMessage]
    /\ ReaderOnly
    /\ UNCHANGED <<now, open, writing, minuteOf, late>>

--------------------------------------------------------------------------------
(* The flusher: Flush. *)

FlusherOnly ==
    UNCHANGED <<now, reader, minuteOf, late, dropped, crashes>>

Tick ==
    /\ flusher.at = "wait"
    /\ flusher' = [flusher EXCEPT !.at = "list"]
    /\ FlusherOnly
    /\ UNCHANGED <<open, counted, writing, stored, failures>>

\* (altered: the newest is not spared)
AllBuckets(keys) == keys

\* All minutes but the newest.
ToFlush(keys) == {m \in keys : \E n \in keys : m < n}

\* The keys are read without the mutex.
ListBuckets ==
    /\ flusher.at = "list"
    /\ flusher' = IF ToFlush(open) = {} THEN Waiting
                  ELSE [flusher EXCEPT !.at = "build", !.left = ToFlush(open)]
    /\ FlusherOnly
    /\ UNCHANGED <<open, counted, writing, stored, failures>>

\* (altered: the keys are not sorted)
AnyBucket(minutes) == CHOOSE m \in minutes : \A n \in minutes : m >= n

Earliest(minutes) == CHOOSE m \in minutes : \A n \in minutes : m <= n

\* The oldest of the minutes left; its builder is read without the mutex.
Build ==
    LET m == Earliest(flusher.left) IN
    /\ flusher.at = "build"
    /\ flusher' = [at |-> IF counted[m] = {} THEN "delete" ELSE "upsert",
                   left |-> flusher.left \ {m},
                   minute |-> m,
                   candle |-> counted[m]]
    /\ FlusherOnly
    /\ UNCHANGED <<open, counted, writing, stored, failures>>

NextBucket == IF flusher.left = {} THEN Waiting
              ELSE [flusher EXCEPT !.at = "build", !.minute = 0, !.candle = {}]

\* The candlestick of the minute is inserted, or replaced.
Store == stored' = [stored EXCEPT ![flusher.minute] = flusher.candle]

Upsert ==
    /\ flusher.at = "upsert"
    /\ Store
    /\ flusher' = [flusher EXCEPT !.at = "delete"]
    /\ FlusherOnly
    /\ UNCHANGED <<open, counted, writing, failures>>

\* (altered: the error is logged and the builder removed all the same)
UpsertFailsAndGoesOn ==
    /\ flusher.at = "upsert"
    /\ failures < MaxFailures
    /\ failures' = failures + 1
    /\ Store \/ UNCHANGED stored
    /\ flusher' = [flusher EXCEPT !.at = "delete"]
    /\ FlusherOnly
    /\ UNCHANGED <<open, counted, writing>>

\* The builder stays for the next Flush; the row may have been written.
UpsertFails ==
    /\ flusher.at = "upsert"
    /\ failures < MaxFailures
    /\ failures' = failures + 1
    /\ Store \/ UNCHANGED stored
    /\ flusher' = NextBucket
    /\ FlusherOnly
    /\ UNCHANGED <<open, counted, writing>>

BeginDelete ==
    /\ flusher.at = "delete"
    /\ writing = Nobody
    /\ writing' = "flusher"
    /\ flusher' = [flusher EXCEPT !.at = "deleting"]
    /\ FlusherOnly
    /\ UNCHANGED <<open, counted, stored, failures>>

EndDelete ==
    /\ flusher.at = "deleting"
    /\ open' = open \ {flusher.minute}
    /\ counted' = [counted EXCEPT ![flusher.minute] = {}]
    /\ writing' = Nobody
    /\ flusher' = NextBucket
    /\ FlusherOnly
    /\ UNCHANGED <<stored, failures>>

--------------------------------------------------------------------------------
(* The end of the process; the Deployment starts it again. *)

InMemory ==
    (UNION {counted[m] : m \in open}) \cup ({reader.msg.trade} \ {NoTrade})

\* The memory of the process is gone, what it wrote is not.
Die ==
    /\ crashes < MaxCrashes
    /\ crashes' = crashes + 1
    /\ dropped' = dropped \cup InMemory
    /\ reader' = [at |-> "dial", msg |-> NoMessage]
    /\ flusher' = Waiting
    /\ open' = {}
    /\ counted' = [m \in Minutes |-> {}]
    /\ writing' = Nobody
    /\ UNCHANGED <<now, stored, minuteOf, late, failures>>

Crash == Die

\* A read of the map without the mutex meets a write: "concurrent map read and
\* map write" ends the process, if the runtime notices.
RacingReads ==
    \/ writing = "reader" /\ flusher.at \in {"list", "build"}
    \/ writing = "flusher" /\ reader.at = "lookup"

MapRace == RacingReads /\ Die

\* The builder is gone when it is looked up again: ProcessMessage is called on a
\* nil builder.
NilBuilder == reader.at = "lookup" /\ reader.msg.minute \notin open

NilBuilderPanics == NilBuilder /\ Die

--------------------------------------------------------------------------------

ReaderStep ==
    \/ Dial \/ HasBuilder \/ BeginInsert \/ EndInsert \/ Lookup \/ ProcessMessage

FlusherStep ==
    \/ Tick \/ ListBuckets \/ Build \/ Upsert \/ BeginDelete \/ EndDelete

Next ==
    \/ ReaderStep \/ FlusherStep
    \/ \E m \in Minutes : ReceiveOther(m) \/ \E t \in Trades : ReceiveTrade(m, t)
    \/ Disconnect \/ UpsertFails
    \/ Crash \/ MapRace \/ NilBuilderPanics

Spec == Init /\ [][Next]_vars

\* Both goroutines are scheduled, the ticker ticks, and nobody keeps the mutex.
FairSpec == Spec /\ WF_vars(FlusherStep) /\ WF_vars(ReaderStep)

--------------------------------------------------------------------------------
(* Properties. *)

\* The minutes whose trades all came before any message of a later minute.
OnTimeMinutes == {m \in Minutes : \A t \in late : minuteOf[t] # m}

\* No trade goes missing: one that was received is in the candlestick of its
\* minute, still in memory, or was there when the process died; but for minutes
\* that got a late trade.  Failed and repeated upserts and the flusher's unlocked
\* reads lose nothing (realtime_importer.go:97-157, backend.go:43-49).
TradesAccountedFor ==
    \A t \in Trades :
        minuteOf[t] \in OnTimeMinutes =>
            \/ t \in stored[minuteOf[t]]
            \/ t \in InMemory
            \/ t \in dropped

\* A candlestick that is stored is final: the bot never trades on one that later
\* changes, and a retried upsert writes the same again; but for minutes that got
\* a late trade (realtime_importer.go:128-156).
StoredIsFinal ==
    [][\A m \in OnTimeMinutes' :
          stored[m] # {} => stored'[m] = stored[m]]_vars

\* The builder the reader just made sure of is there when it looks it up again,
\* though it released the mutex in between, unless the message is late
\* (realtime_importer.go:101-116): the flusher leaves the newest minute alone.
BuilderNeverNil == NilBuilder => reader.msg.minute < now

\* What a builder has counted is in the stored candlestick when the builder is
\* removed, whatever failed or was retried before; a builder that other messages
\* opened, late ones too, is removed without touching the candlestick of its
\* minute (realtime_importer.go:142-155).
NothingRemovedUnstored ==
    [][\A m \in OnTimeMinutes' :
          m \in open \ open' /\ crashes' = crashes =>
              counted[m] \subseteq stored[m]]_vars

\* Once a later minute has begun, a trade reaches the candlesticks table, however
\* many of a finite number of upserts fail, unless the process dies.
TradesGetStored ==
    \A t \in Trades : \A m \in Minutes :
        (t \in counted[m] /\ m \in open /\ \E n \in open : n > m)
            ~> (t \in stored[m] \/ t \in dropped \/ late # {})

\* Without failed upserts and late trades candlesticks are stored in the order of
\* their minutes, so the most recent one the bot finds has all its predecessors
\* (realtime_importer.go:126-135, backend.go:59-65).
StoredInOrder ==
    [][failures' = 0 /\ late = {} =>
          \A m \in Minutes :
             stored[m] = {} /\ stored'[m] # {} =>
                 \A n \in Minutes : n > m => stored[n] = {}]_vars

================================================================================
