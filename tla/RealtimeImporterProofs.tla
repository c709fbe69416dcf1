------------------------- MODULE RealtimeImporterProofs -------------------------
(******************************************************************************)
(* What the realtime importer does with trades, for every market, lateness,   *)
(* and number of crashes and failed upserts.                                  *)
(******************************************************************************)
EXTENDS RealtimeImporter, WellFoundedInduction, TLAPS

\* Nothing is of a later minute than the newest message, and what is flushed is of
\* an earlier one; only the flusher removes builders, and only those it flushes.
Clock ==
    /\ \A m \in open : m <= now
    /\ \A m \in Minutes : stored[m] # {} => m < now
    /\ flusher.left \subseteq open /\ \A m \in flusher.left : m < now
    /\ flusher.at = "build" => flusher.left # {}
    /\ flusher.at \in {"upsert", "delete", "deleting"} =>
          /\ flusher.minute \in open /\ flusher.minute < now
          /\ flusher.minute \notin flusher.left

\* The reader's message: its minute is known, it is late if it is of an earlier
\* one, and until then its builder is there.
Reading ==
    /\ reader.at \in {"dial", "idle"} => reader.msg = NoMessage
    /\ reader.at \notin {"dial", "idle"} => reader.msg.minute \in Minutes
    /\ reader.msg.minute <= now
    /\ reader.at = "inserting" => reader.msg.minute \notin open
    /\ reader.at \in {"lookup", "process"} /\ reader.msg.minute = now =>
          reader.msg.minute \in open
    /\ reader.msg.trade # NoTrade =>
          /\ minuteOf[reader.msg.trade] = reader.msg.minute
          /\ reader.msg.minute < now => reader.msg.trade \in late

\* A builder counts the trades of its minute.
Counted ==
    /\ \A m \in Minutes : \A t \in counted[m] : minuteOf[t] = m
    /\ \A m \in Minutes \ open : counted[m] = {}
    /\ \A t \in late : minuteOf[t] # 0

\* What a minute's builder, the candlestick built from it and the stored one have
\* to do with each other, if no trade of it was late.
Agree(m) ==
    /\ counted[m] # {} /\ stored[m] # {} => stored[m] = counted[m]
    /\ flusher.minute = m /\ flusher.at = "upsert" =>
          flusher.candle = counted[m] /\ counted[m] # {}
    /\ flusher.minute = m /\ flusher.at \in {"delete", "deleting"} =>
          counted[m] \subseteq stored[m]

OnTimeAgree == \A m \in OnTimeMinutes : Agree(m)

IInv == TypeOK /\ Clock /\ Reading /\ Counted /\ OnTimeAgree /\ TradesAccountedFor

--------------------------------------------------------------------------------
\* Among the minutes to flush there is an earliest.
LEMMA LeastNatural ==
    ASSUME NEW S, S \subseteq Nat, S # {}
    PROVE  \E x \in S : \A y \in S : x <= y
<1> DEFINE Less == OpToRel(<, Nat)
<1>1. Less = {pair \in Nat \X Nat : pair[1] < pair[2]}
  BY DEF OpToRel
<1>2. IsWellFoundedOn(Less, Nat)
  BY NatLessThanWellFounded
<1> HIDE DEF Less
<1>3. PICK x \in S : \A y \in S : ~(<<y, x>> \in Less)
  BY <1>2, WFMin
<1>4. ASSUME NEW y \in S PROVE x <= y
  <2>1. x \in Nat /\ y \in Nat
    OBVIOUS
  <2>2. ~(y < x)
    BY <1>1, <1>3, <2>1
  <2> QED
    BY <2>1, <2>2
<1> QED
  BY <1>4

LEMMA EarliestIsLeast ==
    ASSUME NEW minutes \in SUBSET Minutes, minutes # {}
    PROVE  Earliest(minutes) \in minutes /\ \A n \in minutes : Earliest(minutes) <= n
<1>1. \E m \in minutes : \A n \in minutes : m <= n
  <2>1. minutes \subseteq Nat
    BY DEF Minutes
  <2> QED
    BY <2>1, LeastNatural
<1> QED
  BY <1>1 DEF Earliest

LEMMA EarliestOf ==
    ASSUME NEW minutes \in SUBSET Minutes, minutes # {}
    PROVE  Earliest(minutes) \in minutes
BY EarliestIsLeast

--------------------------------------------------------------------------------
(* The types. *)

Readers == [at : {"dial", "idle", "insert", "inserting", "lookup", "process"},
            msg : Message]
Flushers == [at : {"wait", "list", "build", "upsert", "delete", "deleting"},
             left : SUBSET Minutes, minute : Minutes \cup {0}, candle : SUBSET Trades]

LEMMA Typed ==
    ASSUME TypeOK
    PROVE  /\ reader \in Readers /\ flusher \in Flushers
           /\ reader.msg \in Message /\ reader.msg.minute \in Nat /\ now \in Nat
           /\ reader.msg.trade # NoTrade => reader.msg.trade \in Trades
           /\ flusher.left \subseteq Minutes
           /\ \A m \in Minutes : m \in Nat /\ m # 0
BY ImporterAssumption DEF TypeOK, Readers, Flushers, Message, Minutes

LEMMA NoMessageTyped == NoMessage \in Message /\ NoMessage.minute = 0
                        /\ NoMessage.trade = NoTrade
BY DEF NoMessage, Message

LEMMA InitIInv == Init => IInv
<1> SUFFICES ASSUME Init PROVE IInv
  OBVIOUS
<1> USE ImporterAssumption DEF Init
<1>1. TypeOK
  BY NoMessageTyped DEF TypeOK, Waiting, Nobody
<1>2. Clock /\ Counted
  BY DEF Clock, Counted, Waiting
<1>3. Reading
  BY NoMessageTyped DEF Reading
<1>4. OnTimeAgree
  BY DEF OnTimeAgree, OnTimeMinutes, Agree, Waiting
<1>5. TradesAccountedFor
  BY DEF TradesAccountedFor, OnTimeMinutes, Minutes
<1> QED
  BY <1>1, <1>2, <1>3, <1>4, <1>5 DEF IInv

--------------------------------------------------------------------------------
(* The reader. *)

\* Steps that only move the reader.
LEMMA MovesKeep ==
    ASSUME IInv, Dial \/ Disconnect \/ HasBuilder \/ BeginInsert \/ Lookup
    PROVE  IInv'
<1> USE DEF IInv
<1>1. PICK at \in {"dial", "idle", "inserting", "lookup", "process"} :
         Reader(at)
  BY DEF Dial, Disconnect, HasBuilder, BeginInsert, Lookup
<1>2. /\ reader'.at = at /\ reader'.msg = reader.msg /\ reader' \in Readers
      /\ UNCHANGED <<now, flusher, open, counted, stored, minuteOf, late, dropped,
                     crashes, failures>>
      /\ writing' \in {Nobody, "reader", "flusher"}
  <2>1. reader' = [at |-> at, msg |-> reader.msg]
    BY <1>1, Typed DEF Reader, Readers
  <2> QED
    BY <2>1, Typed DEF Readers, Dial, Disconnect, HasBuilder, BeginInsert, Lookup,
       ReaderOnly, TypeOK
<1>3. TypeOK'
  BY <1>2 DEF TypeOK, Readers
<1>4. Clock' /\ Counted' /\ OnTimeAgree'
  BY <1>2 DEF Clock, Counted, OnTimeAgree, OnTimeMinutes, Agree
<1>5. /\ at \in {"dial", "idle"} <=> reader.at \in {"dial", "idle"}
      /\ at = "inserting" => reader.msg.minute \notin open
      /\ at \in {"lookup", "process"} => reader.msg.minute \in open
  <2>1. CASE Dial \/ Disconnect
    <3>1. reader'.at \in {"dial", "idle"} /\ reader.at \in {"dial", "idle"}
      BY <2>1, Typed DEF Dial, Disconnect, Reader, Readers
    <3> QED
      BY <1>2, <3>1
  <2>2. CASE HasBuilder \/ Lookup
    <3>1. reader'.at \in {"lookup", "process"} /\ reader.at \notin {"dial", "idle"}
          /\ reader.msg.minute \in open
      BY <2>2, Typed DEF HasBuilder, Lookup, Reader, Readers
    <3> QED
      BY <1>2, <3>1
  <2>3. CASE BeginInsert
    <3>1. reader'.at = "inserting" /\ reader.at = "insert"
          /\ reader.msg.minute \notin open
      BY <2>3, Typed DEF BeginInsert, Reader, Readers
    <3> QED
      BY <1>2, <3>1
  <2> QED
    BY <2>1, <2>2, <2>3
<1>6. Reading'
  BY <1>2, <1>5 DEF Reading
<1>7. TradesAccountedFor'
  BY <1>2 DEF TradesAccountedFor, OnTimeMinutes, InMemory
<1> QED
  BY <1>3, <1>4, <1>6, <1>7

\* A message is newer than all that is flushed, or its trade is late.
LEMMA ReceiveKeeps ==
    ASSUME IInv, NEW m \in Minutes, NEW t \in Trades \cup {NoTrade},
           \/ t \in Trades /\ ReceiveTrade(m, t)
           \/ t = NoTrade /\ ReceiveOther(m)
    PROVE  IInv'
<1> USE DEF IInv
<1>1. /\ reader.at = "idle" /\ reader.msg = NoMessage
      /\ reader' = [at |-> "insert", msg |-> [minute |-> m, trade |-> t]]
      /\ now' = IF m > now THEN m ELSE now
      /\ UNCHANGED <<flusher, open, counted, writing, stored, dropped, crashes, failures>>
  BY DEF ReceiveTrade, ReceiveOther, Receive, ReaderOnly, Reading
<1>2. /\ now \in Nat /\ now' \in Nat /\ m \in Nat /\ now <= now' /\ m <= now'
      /\ now' \in Minutes \cup {0}
      /\ m < now' => m < now
  BY <1>1, Typed DEF TypeOK
<1>3. CASE t = NoTrade /\ UNCHANGED <<minuteOf, late>>
  <2>1. TypeOK'
    BY <1>1, <1>2, <1>3 DEF TypeOK, Message
  <2>2. Clock'
    BY <1>1, <1>2, Typed DEF Clock, Minutes, TypeOK
  <2>3. Reading'
    BY <1>1, <1>2, <1>3 DEF Reading
  <2>4. Counted' /\ OnTimeAgree'
    BY <1>1, <1>3 DEF Counted, OnTimeAgree, OnTimeMinutes, Agree
  <2>5. TradesAccountedFor'
    BY <1>1, <1>3, NoMessageTyped DEF TradesAccountedFor, OnTimeMinutes, InMemory
  <2> QED
    BY <2>1, <2>2, <2>3, <2>4, <2>5
<1>4. CASE /\ t \in Trades /\ minuteOf[t] = 0
           /\ minuteOf' = [minuteOf EXCEPT ![t] = m]
           /\ late' = IF m < now THEN late \cup {t} ELSE late
  <2>1. TypeOK'
    BY <1>1, <1>2, <1>4 DEF TypeOK, Message
  <2>2. Clock'
    BY <1>1, <1>2, Typed DEF Clock, Minutes, TypeOK
  <2>3. t # NoTrade /\ minuteOf'[t] = m /\ \A u \in Trades \ {t} : minuteOf'[u] = minuteOf[u]
    BY <1>4, ImporterAssumption DEF TypeOK
  <2>4. Reading'
    BY <1>1, <1>2, <1>4, <2>3 DEF Reading
  <2>5. late \subseteq Trades /\ t \notin late /\ m # 0
    BY <1>4, Typed DEF Counted, TypeOK
  <2>6. OnTimeMinutes' \subseteq OnTimeMinutes
    BY <1>4, <2>3, <2>5 DEF OnTimeMinutes
  <2>7. Counted'
    <3>1. \A n \in Minutes : t \notin counted[n] /\ counted[n] \subseteq Trades
      BY <1>4, Typed DEF Counted, TypeOK
    <3> QED
      <4>1. \A n \in Minutes : \A u \in counted[n] : minuteOf'[u] = n
        BY <2>3, <3>1 DEF Counted
      <4>2. \A u \in late' : minuteOf'[u] # 0
        BY <1>4, <2>3, <2>5 DEF Counted
      <4> QED
        BY <1>1, <4>1, <4>2 DEF Counted
  <2>8. OnTimeAgree'
    BY <1>1, <2>6 DEF OnTimeAgree, Agree
  <2>9. TradesAccountedFor'
    <3> SUFFICES ASSUME NEW u \in Trades, minuteOf'[u] \in OnTimeMinutes'
                 PROVE  \/ u \in stored[minuteOf'[u]]
                        \/ u \in InMemory'
                        \/ u \in dropped
      BY <1>1 DEF TradesAccountedFor
    <3>1. CASE u = t
      <4>1. reader'.msg.trade = t
        BY <1>1
      <4>2. u \in {reader'.msg.trade} \ {NoTrade}
        BY <2>3, <3>1, <4>1
      <4> QED
        BY <4>2 DEF InMemory
    <3>2. CASE u # t
      <4>1. minuteOf'[u] = minuteOf[u] /\ minuteOf[u] \in OnTimeMinutes
        BY <2>3, <2>6, <3>2
      <4>2. InMemory \subseteq InMemory'
        BY <1>1, NoMessageTyped DEF InMemory
      <4> QED
        BY <4>1, <4>2 DEF TradesAccountedFor
    <3> QED
      BY <3>1, <3>2
  <2> QED
    BY <2>1, <2>2, <2>4, <2>7, <2>8, <2>9
<1> QED
  BY <1>3, <1>4, ImporterAssumption DEF ReceiveTrade, ReceiveOther

\* A new builder takes the place of none.
LEMMA EndInsertKeeps == ASSUME IInv, EndInsert PROVE IInv'
<1> USE DEF IInv
<1> DEFINE m == reader.msg.minute
<1>1. /\ reader' = [at |-> "lookup", msg |-> reader.msg]
      /\ m \in Minutes /\ m \notin open /\ m <= now
      /\ open' = open \cup {m}
      /\ counted' = [counted EXCEPT ![m] = {}]
      /\ writing' = Nobody
      /\ UNCHANGED <<now, flusher, stored, minuteOf, late, dropped, crashes, failures>>
  BY Typed DEF EndInsert, Reader, Readers, ReaderOnly, Reading
<1>2. counted[m] = {}
  BY <1>1 DEF Counted
<1>3. counted' = counted
  BY <1>1, <1>2 DEF TypeOK
<1> HIDE DEF m
<1>4. TypeOK'
  <2>1. reader' \in Readers
    BY <1>1, Typed DEF Readers
  <2> QED
    BY <1>1, <1>3, <2>1 DEF TypeOK, Readers
<1>5. Clock' /\ Counted' /\ OnTimeAgree'
  BY <1>1, <1>3 DEF Clock, Counted, OnTimeAgree, OnTimeMinutes, Agree
<1>6. Reading'
  BY <1>1 DEF Reading, m
<1>7. TradesAccountedFor'
  <2>1. InMemory \subseteq InMemory'
    BY <1>1, <1>3 DEF InMemory
  <2> QED
    BY <1>1, <2>1 DEF TradesAccountedFor, OnTimeMinutes
<1> QED
  BY <1>4, <1>5, <1>6, <1>7

\* A trade that is counted is late, or there is no candlestick of its minute yet
\* and none is being built.
LEMMA ProcessKeeps == ASSUME IInv, ProcessMessage PROVE IInv'
<1> USE DEF IInv
<1> DEFINE m == reader.msg.minute
           t == reader.msg.trade
<1>1. /\ reader.at = "process" /\ reader' = [at |-> "idle", msg |-> NoMessage]
      /\ m \in Minutes /\ m <= now /\ m \in Nat /\ now \in Nat
      /\ m = now => m \in open
      /\ t # NoTrade => /\ t \in Trades /\ minuteOf[t] = m
                        /\ m < now => t \in late
      /\ counted' = Counting(m, t)
      /\ UNCHANGED <<now, flusher, open, writing, stored, minuteOf, late, dropped,
                     crashes, failures>>
  BY Typed DEF ProcessMessage, Reading, ReaderOnly
<1> HIDE DEF m, t
<1>2. CASE ~(m \in open /\ t # NoTrade)
  <2>1. counted' = counted
    BY <1>1, <1>2 DEF Counting
  <2>2. TypeOK' /\ Clock' /\ Reading' /\ Counted' /\ OnTimeAgree'
    <3>1. TypeOK'
      BY <1>1, <2>1, NoMessageTyped DEF TypeOK
    <3>2. Clock' /\ Counted' /\ OnTimeAgree'
      BY <1>1, <2>1 DEF Clock, Counted, OnTimeAgree, OnTimeMinutes, Agree
    <3>3. Reading'
      BY <1>1, NoMessageTyped DEF Reading
    <3> QED
      BY <3>1, <3>2, <3>3
  <2>3. TradesAccountedFor'
    <3> SUFFICES ASSUME NEW u \in Trades, minuteOf[u] \in OnTimeMinutes
                 PROVE  \/ u \in stored[minuteOf[u]]
                        \/ u \in InMemory'
                        \/ u \in dropped
      BY <1>1 DEF TradesAccountedFor, OnTimeMinutes
    <3>1. u # t
      <4> SUFFICES ASSUME u = t PROVE FALSE
        OBVIOUS
      <4>1. t # NoTrade
        BY ImporterAssumption
      <4>2. t \in late /\ minuteOf[t] = m
        BY <1>1, <1>2, <4>1
      <4> QED
        BY <4>2 DEF OnTimeMinutes
    <3>2. u \in InMemory => u \in InMemory'
      BY <1>1, <2>1, <3>1 DEF InMemory, t
    <3> QED
      BY <3>2 DEF TradesAccountedFor
  <2> QED
    BY <2>2, <2>3
<1>3. CASE m \in open /\ t # NoTrade
  <2>1. /\ counted' = [counted EXCEPT ![m] = @ \cup {t}]
        /\ counted'[m] = counted[m] \cup {t}
        /\ \A n \in Minutes \ {m} : counted'[n] = counted[n]
        /\ counted' \in [Minutes -> SUBSET Trades]
    BY <1>1, <1>3 DEF Counting, TypeOK
  <2>2. TypeOK'
    BY <1>1, <2>1, NoMessageTyped DEF TypeOK
  <2>3. Clock'
    BY <1>1 DEF Clock
  <2>4. Reading'
    BY <1>1, NoMessageTyped DEF Reading
  <2>5. Counted'
    BY <1>1, <1>3, <2>1 DEF Counted
  <2>6. OnTimeAgree'
    <3> SUFFICES ASSUME NEW n \in OnTimeMinutes PROVE Agree(n)'
      BY <1>1 DEF OnTimeAgree, OnTimeMinutes
    <3>1. CASE n # m
      BY <1>1, <2>1, <3>1 DEF OnTimeAgree, Agree, OnTimeMinutes
    <3>2. CASE n = m
      <4>1. ~(m < now)
        BY <1>1, <1>3, <3>2 DEF OnTimeMinutes
      <4>2. stored[m] = {}
        BY <1>1, <4>1 DEF Clock
      <4>3. flusher.minute = m => flusher.at \notin {"upsert", "delete", "deleting"}
        BY <4>1 DEF Clock
      <4> QED
        BY <1>1, <3>2, <4>2, <4>3 DEF Agree
    <3> QED
      BY <3>1, <3>2
  <2>7. TradesAccountedFor'
    <3>1. InMemory \subseteq InMemory'
      <4>1. \A n \in open : n \in Minutes /\ counted[n] \subseteq counted'[n]
        BY <2>1 DEF TypeOK
      <4>2. t \in counted'[m]
        BY <2>1
      <4> QED
        BY <1>1, <1>3, <4>1, <4>2 DEF InMemory, t
    <3> QED
      BY <1>1, <3>1 DEF TradesAccountedFor, OnTimeMinutes
  <2> QED
    BY <2>2, <2>3, <2>4, <2>5, <2>6, <2>7
<1> QED
  BY <1>2, <1>3

--------------------------------------------------------------------------------
(* The flusher. *)

\* What a flush has to see to while it leaves the builders alone.
LEMMA FlushKeeps ==
    ASSUME IInv, UNCHANGED <<now, reader, minuteOf, late, dropped, crashes, open, counted>>,
           flusher' \in Flushers, writing' \in {Nobody, "reader", "flusher"},
           failures' \in 0..MaxFailures, stored' \in [Minutes -> SUBSET Trades],
           Clock', \A m \in OnTimeMinutes : Agree(m)' /\ stored[m] \subseteq stored'[m]
    PROVE  IInv'
<1> USE DEF IInv
<1>1. TypeOK'
  BY DEF TypeOK, Flushers
<1>2. Reading' /\ Counted'
  BY DEF Reading, Counted
<1>3. OnTimeAgree'
  BY DEF OnTimeAgree, OnTimeMinutes
<1>4. TradesAccountedFor'
  BY DEF TradesAccountedFor, OnTimeMinutes, InMemory
<1> QED
  BY <1>1, <1>2, <1>3, <1>4

\* After a minute comes the next one that is left, or the ticker.
LEMMA NextBucketOf ==
    ASSUME IInv
    PROVE  /\ NextBucket \in Flushers /\ NextBucket.left \subseteq flusher.left
           /\ NextBucket.at \in {"wait", "build"}
           /\ NextBucket.at = "build" => NextBucket.left # {}
<1>1. Waiting \in Flushers
  BY DEF Waiting, Flushers
<1>2. CASE flusher.left = {}
  BY <1>1, <1>2 DEF NextBucket, Waiting
<1>3. CASE flusher.left # {}
  <2>1. NextBucket = [at |-> "build", left |-> flusher.left, minute |-> 0, candle |-> {}]
    BY <1>3, Typed DEF NextBucket, Flushers, IInv
  <2> QED
    BY <1>3, <2>1, Typed DEF Flushers, IInv
<1> QED
  BY <1>2, <1>3

LEMMA ListKeeps == ASSUME IInv, Tick \/ ListBuckets PROVE IInv'
<1>1. UNCHANGED <<now, reader, minuteOf, late, dropped, crashes, open, counted, writing,
                  stored, failures>>
  BY DEF Tick, ListBuckets, FlusherOnly
<1>2. /\ flusher' \in Flushers
      /\ flusher'.at \in {"wait", "list", "build"}
      /\ flusher'.at = "build" => flusher'.left # {}
      /\ flusher'.left \subseteq flusher.left \cup ToFlush(open)
  <2>1. CASE Tick
    <3>1. flusher' = [at |-> "list", left |-> flusher.left, minute |-> flusher.minute,
                      candle |-> flusher.candle]
      BY <2>1, Typed DEF Tick, Flushers, IInv
    <3> QED
      BY <3>1, Typed DEF Flushers, IInv
  <2>2. CASE ListBuckets /\ ToFlush(open) = {}
    BY <2>2 DEF ListBuckets, Waiting, Flushers
  <2>3. CASE ListBuckets /\ ToFlush(open) # {}
    <3>1. flusher' = [at |-> "build", left |-> ToFlush(open), minute |-> flusher.minute,
                      candle |-> flusher.candle]
      BY <2>3, Typed DEF ListBuckets, Flushers, IInv
    <3>2. ToFlush(open) \in SUBSET Minutes
      BY DEF ToFlush, IInv, TypeOK
    <3> QED
      BY <2>3, <3>1, <3>2, Typed DEF Flushers, IInv
  <2> QED
    BY <2>1, <2>2, <2>3
<1>3. ToFlush(open) \subseteq open /\ \A m \in ToFlush(open) : m < now
  <2> SUFFICES ASSUME NEW m \in ToFlush(open) PROVE m \in open /\ m < now
    OBVIOUS
  <2>1. PICK n \in open : m < n
    BY DEF ToFlush
  <2>2. m \in open /\ m \in Nat /\ n \in Nat /\ now \in Nat /\ n <= now
    BY Typed DEF ToFlush, IInv, TypeOK, Clock
  <2> QED
    BY <2>1, <2>2
<1>4. Clock'
  BY <1>1, <1>2, <1>3 DEF IInv, Clock
<1>5. \A m \in OnTimeMinutes : Agree(m)'
  BY <1>1, <1>2 DEF IInv, OnTimeAgree, Agree
<1> QED
  BY <1>1, <1>2, <1>4, <1>5, FlushKeeps DEF IInv, TypeOK

LEMMA BuildKeeps == ASSUME IInv, Build PROVE IInv'
<1> DEFINE m == Earliest(flusher.left)
<1>1. /\ flusher.at = "build"
      /\ flusher' = [at |-> IF counted[m] = {} THEN "delete" ELSE "upsert",
                     left |-> flusher.left \ {m}, minute |-> m, candle |-> counted[m]]
      /\ UNCHANGED <<now, reader, minuteOf, late, dropped, crashes, open, counted, writing,
                     stored, failures>>
  BY DEF Build, FlusherOnly
<1>2. m \in flusher.left /\ m \in open /\ m < now /\ m \in Minutes
  BY <1>1, Typed, EarliestOf DEF IInv, Clock
<1> HIDE DEF m
<1>3. flusher' \in Flushers
  BY <1>1, <1>2, Typed DEF Flushers, IInv, TypeOK
<1>4. Clock'
  BY <1>1, <1>2 DEF IInv, Clock
<1>5. \A n \in OnTimeMinutes : Agree(n)'
  BY <1>1 DEF IInv, OnTimeAgree, Agree
<1> QED
  BY <1>1, <1>3, <1>4, <1>5, FlushKeeps DEF IInv, TypeOK

LEMMA BeginDeleteKeeps == ASSUME IInv, BeginDelete PROVE IInv'
<1>1. /\ flusher.at = "delete"
      /\ flusher' = [at |-> "deleting", left |-> flusher.left, minute |-> flusher.minute,
                     candle |-> flusher.candle]
      /\ writing' = "flusher"
      /\ UNCHANGED <<now, reader, minuteOf, late, dropped, crashes, open, counted,
                     stored, failures>>
  BY Typed DEF BeginDelete, FlusherOnly, Flushers, IInv
<1>2. flusher' \in Flushers
  BY <1>1, Typed DEF Flushers, IInv
<1>3. Clock'
  BY <1>1 DEF IInv, Clock
<1>4. \A n \in OnTimeMinutes : Agree(n)'
  BY <1>1 DEF IInv, OnTimeAgree, Agree
<1> QED
  BY <1>1, <1>2, <1>3, <1>4, FlushKeeps DEF IInv, TypeOK

\* The candlestick is what the builder still holds, and all that was stored before.
LEMMA StoreOf ==
    ASSUME IInv, flusher.at = "upsert", Store \/ UNCHANGED stored
    PROVE  /\ stored' \in [Minutes -> SUBSET Trades]
           /\ \A m \in Minutes : m # flusher.minute => stored'[m] = stored[m]
           /\ \A m \in Minutes : stored'[m] # {} => m < now
           /\ \A m \in OnTimeMinutes :
                 /\ stored[m] \subseteq stored'[m]
                 /\ stored[m] # {} => stored'[m] = stored[m]
                 /\ counted[m] # {} /\ stored'[m] # {} => stored'[m] = counted[m]
                 /\ Store /\ flusher.minute = m => stored'[m] = counted[m]
<1>1. /\ flusher.minute \in Minutes /\ flusher.minute < now
      /\ flusher.candle \in SUBSET Trades /\ stored \in [Minutes -> SUBSET Trades]
      /\ \A m \in Minutes : stored[m] # {} => m < now
  BY Typed DEF IInv, Clock, TypeOK, Flushers
<1>2. \A m \in OnTimeMinutes :
         /\ m \in Minutes
         /\ counted[m] # {} /\ stored[m] # {} => stored[m] = counted[m]
         /\ flusher.minute = m => flusher.candle = counted[m] /\ counted[m] # {}
  BY DEF IInv, OnTimeAgree, Agree, OnTimeMinutes
<1>3. CASE UNCHANGED stored /\ ~Store
  BY <1>1, <1>2, <1>3
<1>4. CASE Store
  <2>1. stored' = [stored EXCEPT ![flusher.minute] = flusher.candle]
    BY <1>4 DEF Store
  <2> QED
    BY <1>1, <1>2, <2>1
<1> QED
  BY <1>3, <1>4

LEMMA UpsertKeeps == ASSUME IInv, Upsert \/ UpsertFails PROVE IInv'
<1>1. /\ flusher.at = "upsert" /\ (Store \/ UNCHANGED stored)
      /\ UNCHANGED <<now, reader, minuteOf, late, dropped, crashes, open, counted, writing>>
  BY DEF Upsert, UpsertFails, FlusherOnly
<1>2. failures' \in 0..MaxFailures
  BY ImporterAssumption DEF Upsert, UpsertFails, IInv, TypeOK
<1>3. CASE Upsert
  <2>1. Store /\ flusher' = [at |-> "delete", left |-> flusher.left,
                             minute |-> flusher.minute, candle |-> flusher.candle]
    BY <1>3, Typed DEF Upsert, Flushers, IInv
  <2>2. flusher' \in Flushers
    BY <2>1, Typed DEF Flushers, IInv
  <2>3. Clock'
    BY <1>1, <2>1, StoreOf DEF IInv, Clock
  <2>4. \A m \in OnTimeMinutes : Agree(m)' /\ stored[m] \subseteq stored'[m]
    BY <1>1, <2>1, StoreOf DEF Agree
  <2> QED
    BY <1>1, <1>2, <2>2, <2>3, <2>4, StoreOf, FlushKeeps DEF IInv, TypeOK
<1>4. CASE UpsertFails
  <2>1. flusher' = NextBucket
    BY <1>4 DEF UpsertFails
  <2>2. /\ flusher' \in Flushers /\ flusher'.left \subseteq flusher.left
        /\ flusher'.at \in {"wait", "build"}
        /\ flusher'.at = "build" => flusher'.left # {}
    BY <2>1, NextBucketOf
  <2>3. Clock'
    BY <1>1, <2>2, StoreOf DEF IInv, Clock
  <2>4. \A m \in OnTimeMinutes : Agree(m)' /\ stored[m] \subseteq stored'[m]
    BY <1>1, <2>2, StoreOf DEF Agree
  <2> QED
    BY <1>1, <1>2, <2>2, <2>3, <2>4, StoreOf, FlushKeeps DEF IInv, TypeOK
<1> QED
  BY <1>3, <1>4

\* Only what is stored is removed.
LEMMA EndDeleteKeeps == ASSUME IInv, EndDelete PROVE IInv'
<1> USE DEF IInv
<1> DEFINE f == flusher.minute
<1>1. /\ flusher.at = "deleting" /\ flusher' = NextBucket
      /\ open' = open \ {f} /\ counted' = [counted EXCEPT ![f] = {}]
      /\ writing' = Nobody
      /\ UNCHANGED <<now, reader, minuteOf, late, dropped, crashes, stored, failures>>
  BY DEF EndDelete, FlusherOnly
<1>2. f \in open /\ f < now /\ f \in Minutes /\ f \notin flusher.left
  BY <1>1 DEF Clock, TypeOK
<1>3. /\ flusher' \in Flushers /\ flusher'.left \subseteq flusher.left
      /\ flusher'.at \in {"wait", "build"}
      /\ flusher'.at = "build" => flusher'.left # {}
  BY <1>1, NextBucketOf
<1> HIDE DEF f
<1>4. /\ counted' \in [Minutes -> SUBSET Trades] /\ counted'[f] = {}
      /\ \A m \in Minutes \ {f} : counted'[m] = counted[m]
  BY <1>1, <1>2 DEF TypeOK
<1>5. TypeOK'
  BY <1>1, <1>3, <1>4 DEF TypeOK, Flushers
<1>6. Clock'
  BY <1>1, <1>2, <1>3 DEF Clock
<1>7. Reading'
  <2>1. f # now
    BY <1>2, Typed
  <2> QED
    BY <1>1, <2>1 DEF Reading
<1>8. Counted'
  BY <1>1, <1>4 DEF Counted
<1>9. OnTimeAgree'
  <2> SUFFICES ASSUME NEW m \in OnTimeMinutes PROVE Agree(m)'
    BY <1>1 DEF OnTimeAgree, OnTimeMinutes
  <2>1. m \in Minutes /\ Agree(m)
    BY DEF OnTimeAgree, OnTimeMinutes
  <2> QED
    BY <1>1, <1>3, <1>4, <2>1 DEF Agree
<1>10. TradesAccountedFor'
  <2> SUFFICES ASSUME NEW t \in Trades, minuteOf[t] \in OnTimeMinutes
               PROVE  \/ t \in stored[minuteOf[t]]
                      \/ t \in InMemory'
                      \/ t \in dropped
    BY <1>1 DEF TradesAccountedFor, OnTimeMinutes
  <2>1. CASE \E m \in open : t \in counted[m]
    <3>1. PICK m \in open : t \in counted[m]
      BY <2>1
    <3>2. m \in Minutes /\ minuteOf[t] = m
      BY <3>1 DEF Counted, TypeOK
    <3>3. CASE m = f
      <4>1. counted[f] \subseteq stored[f]
        BY <1>1, <3>2, <3>3 DEF OnTimeAgree, Agree, f
      <4> QED
        BY <3>1, <3>2, <3>3, <4>1
    <3>4. CASE m # f
      <4>1. m \in open' /\ t \in counted'[m]
        BY <1>1, <1>4, <3>1, <3>2, <3>4
      <4> QED
        BY <4>1 DEF InMemory
    <3> QED
      BY <3>3, <3>4
  <2>2. CASE t \in {reader.msg.trade} \ {NoTrade}
    BY <1>1, <2>2 DEF InMemory
  <2> QED
    BY <2>1, <2>2 DEF TradesAccountedFor, InMemory
<1> QED
  BY <1>5, <1>6, <1>7, <1>8, <1>9, <1>10

--------------------------------------------------------------------------------
(* The end of the process. *)

\* What was in memory is dropped; nothing is being read or flushed.
LEMMA DieKeeps == ASSUME IInv, Die PROVE IInv'
<1> USE DEF IInv
<1>1. /\ crashes < MaxCrashes /\ crashes' = crashes + 1
      /\ dropped' = dropped \cup InMemory
      /\ reader' = [at |-> "dial", msg |-> NoMessage] /\ flusher' = Waiting
      /\ open' = {} /\ counted' = [m \in Minutes |-> {}] /\ writing' = Nobody
      /\ UNCHANGED <<now, stored, minuteOf, late, failures>>
  BY DEF Die
<1>2. InMemory \subseteq Trades
  BY Typed DEF InMemory, TypeOK
<1>3. TypeOK'
  <2>1. flusher' \in Flushers
    BY <1>1 DEF Waiting, Flushers
  <2>2. crashes' \in 0..MaxCrashes
    BY <1>1, ImporterAssumption DEF TypeOK
  <2> QED
    BY <1>1, <1>2, <2>1, <2>2, NoMessageTyped DEF TypeOK, Flushers
<1>4. Clock' /\ Counted' /\ OnTimeAgree'
  BY <1>1 DEF Waiting, Clock, Counted, OnTimeAgree, OnTimeMinutes, Agree
<1>5. Reading'
  BY <1>1, NoMessageTyped, Typed DEF Reading
<1>6. TradesAccountedFor'
  BY <1>1 DEF TradesAccountedFor, OnTimeMinutes
<1> QED
  BY <1>3, <1>4, <1>5, <1>6

LEMMA NextIInv == IInv /\ [Next]_vars => IInv'
<1> SUFFICES ASSUME IInv, [Next]_vars PROVE IInv'
  OBVIOUS
<1>1. CASE Dial \/ Disconnect \/ HasBuilder \/ BeginInsert \/ Lookup
  BY <1>1, MovesKeep
<1>2. CASE EndInsert
  BY <1>2, EndInsertKeeps
<1>3. CASE ProcessMessage
  BY <1>3, ProcessKeeps
<1>4. CASE \E m \in Minutes : ReceiveOther(m) \/ \E t \in Trades : ReceiveTrade(m, t)
  BY <1>4, ReceiveKeeps
<1>5. CASE Tick \/ ListBuckets
  BY <1>5, ListKeeps
<1>6. CASE Build
  BY <1>6, BuildKeeps
<1>7. CASE Upsert \/ UpsertFails
  BY <1>7, UpsertKeeps
<1>8. CASE BeginDelete
  BY <1>8, BeginDeleteKeeps
<1>9. CASE EndDelete
  BY <1>9, EndDeleteKeeps
<1>10. CASE Crash \/ MapRace \/ NilBuilderPanics
  BY <1>10, DieKeeps DEF Crash, MapRace, NilBuilderPanics
<1>11. CASE UNCHANGED vars
  BY <1>11 DEF vars, IInv, TypeOK, Clock, Reading, Counted, OnTimeAgree, OnTimeMinutes,
     Agree, TradesAccountedFor, InMemory
<1> QED
  BY <1>1, <1>2, <1>3, <1>4, <1>5, <1>6, <1>7, <1>8, <1>9, <1>10, <1>11
     DEF Next, ReaderStep, FlusherStep

LEMMA Inductive == Spec => []IInv
BY InitIInv, NextIInv, PTL DEF Spec

--------------------------------------------------------------------------------
(* The theorems. *)

\* Every variable keeps its type (realtime_importer.go:21-33).
THEOREM TypeCorrect == Spec => []TypeOK
<1>1. IInv => TypeOK
  BY DEF IInv
<1> QED
  BY <1>1, Inductive, PTL

\* Of a minute without late trades every trade that was received is in its
\* candlestick, in memory, or was when the process died: the flusher's unlocked
\* reads and its failed upserts lose none (realtime_importer.go:97-157).
THEOREM NoTradeLost == Spec => []TradesAccountedFor
<1>1. IInv => TradesAccountedFor
  BY DEF IInv
<1> QED
  BY <1>1, Inductive, PTL

\* The second lookup of the builder, after the mutex was released, fails for late
\* messages only (realtime_importer.go:101-116).
THEOREM BuilderIsThere == Spec => []BuilderNeverNil
<1>1. IInv => BuilderNeverNil
  <2> SUFFICES ASSUME IInv, NilBuilder PROVE reader.msg.minute < now
    BY DEF BuilderNeverNil
  <2>1. reader.msg.minute <= now /\ reader.msg.minute # now
    BY DEF IInv, NilBuilder, Reading
  <2> QED
    BY <2>1, Typed DEF IInv
<1> QED
  BY <1>1, Inductive, PTL

\* Late trades only ever take minutes out.
LEMMA OnTimeShrinks ==
    ASSUME IInv, [Next]_vars
    PROVE  OnTimeMinutes' \subseteq OnTimeMinutes
<1>1. CASE UNCHANGED <<minuteOf, late>>
  BY <1>1 DEF OnTimeMinutes
<1>2. ASSUME NEW m \in Minutes, NEW t \in Trades, ReceiveTrade(m, t)
      PROVE  OnTimeMinutes' \subseteq OnTimeMinutes
  <2>1. t \notin late /\ late \subseteq Trades
    BY <1>2 DEF ReceiveTrade, IInv, Counted, TypeOK
  <2>2. late \subseteq late' /\ \A u \in late : minuteOf'[u] = minuteOf[u]
    BY <1>2, <2>1 DEF ReceiveTrade, IInv, TypeOK
  <2> QED
    BY <2>2 DEF OnTimeMinutes
<1> QED
  BY <1>1, <1>2 DEF Next, ReaderStep, FlusherStep, Dial, Disconnect, HasBuilder, BeginInsert,
     EndInsert, Lookup, ProcessMessage, ReceiveOther, Tick, ListBuckets, Build, Upsert,
     UpsertFails, BeginDelete, EndDelete, FlusherOnly, Crash, MapRace, NilBuilderPanics,
     Die, vars

\* A stored candlestick of a minute without late trades is never changed again, not
\* by a retried upsert either (realtime_importer.go:128-156).
THEOREM StoredOnce == Spec => StoredIsFinal
<1>1. ASSUME IInv, [Next]_vars
      PROVE  \A m \in OnTimeMinutes' : stored[m] # {} => stored'[m] = stored[m]
  <2> SUFFICES ASSUME NEW m \in OnTimeMinutes', stored[m] # {}
               PROVE  stored'[m] = stored[m]
    OBVIOUS
  <2>1. m \in OnTimeMinutes
    BY <1>1, OnTimeShrinks
  <2>2. CASE UNCHANGED stored
    BY <2>2
  <2>3. CASE Upsert \/ UpsertFails
    BY <1>1, <2>1, <2>3, StoreOf DEF Upsert, UpsertFails
  <2> QED
    BY <1>1, <2>2, <2>3 DEF Next, ReaderStep, FlusherStep, Dial, Disconnect, HasBuilder,
       BeginInsert, EndInsert, Lookup, ProcessMessage, Receive, ReceiveTrade, ReceiveOther,
       ReaderOnly, Tick, ListBuckets, Build, BeginDelete, EndDelete, Crash, MapRace,
       NilBuilderPanics, Die, vars
<1> QED
  BY <1>1, Inductive, PTL DEF Spec, StoredIsFinal

\* A builder is removed only when the candlestick of its minute holds all that it
\* has counted, or when the process dies (realtime_importer.go:142-155).
THEOREM RemovedIsStored == Spec => NothingRemovedUnstored
<1>1. ASSUME IInv, [Next]_vars
      PROVE  \A m \in OnTimeMinutes' :
                m \in open \ open' /\ crashes' = crashes => counted[m] \subseteq stored[m]
  <2> SUFFICES ASSUME NEW m \in OnTimeMinutes', m \in open, m \notin open',
                      crashes' = crashes
               PROVE  counted[m] \subseteq stored[m]
    OBVIOUS
  <2>1. m \in OnTimeMinutes
    BY <1>1, OnTimeShrinks
  <2>2. CASE EndDelete
    BY <1>1, <2>1, <2>2 DEF EndDelete, IInv, OnTimeAgree, Agree
  <2>3. CASE Die
    <3>1. crashes \in Nat /\ crashes' = crashes + 1
      BY <1>1, <2>3, ImporterAssumption DEF Die, IInv, TypeOK
    <3> QED
      BY <3>1
  <2>4. CASE open \subseteq open'
    BY <2>4
  <2> QED
    BY <1>1, <2>2, <2>3, <2>4 DEF Next, ReaderStep, FlusherStep, Dial, Disconnect, HasBuilder,
       BeginInsert, EndInsert, Lookup, ProcessMessage, Receive, ReceiveTrade, ReceiveOther,
       Tick, ListBuckets, Build, Upsert, UpsertFails, BeginDelete, Crash, MapRace,
       NilBuilderPanics, vars
<1> QED
  BY <1>1, Inductive, PTL DEF Spec, NothingRemovedUnstored

--------------------------------------------------------------------------------
(* The order of the candlesticks. *)

\* Without failed upserts and late trades, what was counted for a minute before one
\* that is stored, being stored or to be flushed is stored, or flushed first.
Sorted ==
    failures = 0 /\ late = {} =>
        \A m \in Minutes : \A n \in Minutes : m < n /\ counted[m] # {} =>
            /\ stored[n] # {} => stored[m] # {}
            /\ flusher.at = "upsert" /\ flusher.minute = n => stored[m] # {}
            /\ n \in flusher.left =>
                  \/ stored[m] # {}
                  \/ m \in flusher.left
                  \/ flusher.at = "upsert" /\ flusher.minute = m

LEMMA SortedInit == Init => Sorted
BY DEF Init, Sorted

\* Steps that count no trade more, store nothing and flush no more than before.
LEMMA SortedStays ==
    ASSUME IInv, Sorted, failures' >= failures, late \subseteq late', UNCHANGED stored,
           \A m \in Minutes : counted'[m] \subseteq counted[m],
           \/ UNCHANGED flusher
           \/ flusher.at # "upsert" /\ flusher'.at # "upsert" /\
              flusher'.left \in {flusher.left, {}}
    PROVE  Sorted'
<1> SUFFICES ASSUME failures' = 0, late' = {},
                    NEW m \in Minutes, NEW n \in Minutes, m < n, counted'[m] # {}
             PROVE  /\ stored[n] # {} => stored[m] # {}
                    /\ flusher'.at = "upsert" /\ flusher'.minute = n => stored[m] # {}
                    /\ n \in flusher'.left =>
                          \/ stored[m] # {}
                          \/ m \in flusher'.left
                          \/ flusher'.at = "upsert" /\ flusher'.minute = m
  BY DEF Sorted
<1>1. failures = 0 /\ late = {} /\ counted[m] # {}
  BY ImporterAssumption DEF IInv, TypeOK
<1> QED
  BY <1>1 DEF Sorted

LEMMA ProcessSorts == ASSUME IInv, Sorted, ProcessMessage PROVE Sorted'
<1> DEFINE r == reader.msg.minute
           t == reader.msg.trade
<1>1. /\ reader.at = "process" /\ UNCHANGED <<flusher, stored, failures, late>>
      /\ counted' = Counting(r, t) /\ r <= now /\ r \in Minutes
  BY DEF ProcessMessage, ReaderOnly, IInv, Reading
<1>2. CASE counted' = counted
  BY <1>1, <1>2 DEF Sorted
<1>3. CASE t # NoTrade /\ counted' = [counted EXCEPT ![r] = @ \cup {t}]
  <2>1. late = {} => r = now
    BY <1>1, <1>3, Typed DEF IInv, Reading
  <2>2. /\ \A n \in Minutes : stored[n] # {} => n < now
        /\ \A n \in flusher.left : n < now
        /\ flusher.at = "upsert" => flusher.minute < now
    BY DEF IInv, Clock
  <2>3. \A m \in Minutes : m # r => counted'[m] = counted[m]
    BY <1>3 DEF IInv, TypeOK
  <2>4. ASSUME failures = 0, late = {}, NEW m \in Minutes, NEW n \in Minutes, m < n,
               counted'[m] # {}
        PROVE  /\ stored[n] # {} => stored[m] # {}
               /\ flusher.at = "upsert" /\ flusher.minute = n => stored[m] # {}
               /\ n \in flusher.left =>
                     \/ stored[m] # {}
                     \/ m \in flusher.left
                     \/ flusher.at = "upsert" /\ flusher.minute = m
    <3>1. CASE m = r
      <4>1. ~(n < now)
        BY <2>1, <2>4, <3>1, Typed DEF IInv
      <4> QED
        BY <2>2, <4>1
    <3>2. CASE m # r
      BY <2>3, <2>4, <3>2 DEF Sorted
    <3> QED
      BY <3>1, <3>2
  <2> QED
    BY <1>1, <2>4 DEF Sorted
<1> QED
  BY <1>1, <1>2, <1>3 DEF Counting

LEMMA ListSorts == ASSUME IInv, Sorted, ListBuckets PROVE Sorted'
<1>1. /\ flusher.at = "list"
      /\ UNCHANGED <<counted, stored, failures, late>>
      /\ flusher' = IF ToFlush(open) = {} THEN Waiting
                    ELSE [flusher EXCEPT !.at = "build", !.left = ToFlush(open)]
  BY DEF ListBuckets, FlusherOnly
<1>2. flusher'.at # "upsert" /\ flusher'.left \subseteq ToFlush(open)
      /\ (flusher'.left # {} => flusher'.left = ToFlush(open))
  BY <1>1, Typed DEF Waiting, Flushers, IInv
<1>3. ASSUME NEW m \in Minutes, NEW n \in ToFlush(open), m < n, counted[m] # {}
      PROVE  m \in ToFlush(open)
  BY <1>3 DEF ToFlush, IInv, Counted
<1> QED
  BY <1>1, <1>2, <1>3 DEF Sorted

LEMMA BuildSorts == ASSUME IInv, Sorted, Build PROVE Sorted'
<1> DEFINE f == Earliest(flusher.left)
<1>1. /\ flusher.at = "build" /\ UNCHANGED <<counted, stored, failures, late>>
      /\ flusher'.at = IF counted[f] = {} THEN "delete" ELSE "upsert"
      /\ flusher'.left = flusher.left \ {f} /\ flusher'.minute = f
  BY DEF Build, FlusherOnly
<1>2. f \in flusher.left /\ \A n \in flusher.left : f <= n
  BY <1>1, EarliestIsLeast DEF IInv, TypeOK, Clock
<1>3. f \in Minutes /\ \A m \in Minutes : m \in Nat
  BY <1>2, Typed DEF IInv
<1> HIDE DEF f
<1>4. ASSUME NEW m \in Minutes, m < f PROVE m \notin flusher.left
  BY <1>2, <1>3, <1>4
<1> QED
  BY <1>1, <1>2, <1>3, <1>4 DEF Sorted

LEMMA UpsertSorts == ASSUME IInv, Sorted, Upsert PROVE Sorted'
<1> DEFINE f == flusher.minute
<1>1. /\ flusher.at = "upsert" /\ UNCHANGED <<counted, failures, late>>
      /\ stored' = [stored EXCEPT ![f] = flusher.candle]
      /\ flusher'.at = "delete" /\ flusher'.left = flusher.left
  BY Typed DEF Upsert, FlusherOnly, Store, Flushers, IInv
<1>2. f \in Minutes
  BY <1>1 DEF IInv, TypeOK, Clock
<1>3. late = {} => flusher.candle # {}
  BY <1>1, <1>2 DEF IInv, OnTimeAgree, OnTimeMinutes, Agree
<1>4. stored'[f] = flusher.candle /\ \A m \in Minutes : m # f => stored'[m] = stored[m]
  BY <1>1, <1>2 DEF IInv, TypeOK
<1> HIDE DEF f
<1>5. f = flusher.minute
  BY DEF f
<1> QED
  BY <1>1, <1>2, <1>3, <1>4, <1>5 DEF Sorted

LEMMA SortedNext == IInv /\ Sorted /\ [Next]_vars => Sorted'
<1> SUFFICES ASSUME IInv, Sorted, [Next]_vars PROVE Sorted'
  OBVIOUS
<1>1. failures \in Nat
  BY ImporterAssumption DEF IInv, TypeOK
<1>2. CASE UNCHANGED <<failures, stored, counted, flusher>> /\ late \subseteq late'
  BY <1>1, <1>2, SortedStays
<1>3. CASE UpsertFails
  <2>1. failures' # 0
    BY <1>1, <1>3 DEF UpsertFails
  <2> QED
    BY <2>1 DEF Sorted
<1>4. CASE EndInsert
  <2>1. \A m \in Minutes : counted'[m] \subseteq counted[m]
    BY <1>4 DEF EndInsert, IInv, TypeOK
  <2> QED
    BY <1>1, <1>4, <2>1, SortedStays DEF EndInsert, ReaderOnly
<1>5. CASE EndDelete
  <2>1. \A m \in Minutes : counted'[m] \subseteq counted[m]
    BY <1>5 DEF EndDelete, IInv, TypeOK
  <2>2. NextBucket.left \in {flusher.left, {}} /\ NextBucket.at # "upsert"
    BY Typed DEF NextBucket, Waiting, Flushers, IInv
  <2> QED
    BY <1>1, <1>5, <2>1, <2>2, SortedStays DEF EndDelete, FlusherOnly
<1>6. CASE Tick \/ BeginDelete
  <2>1. flusher.at # "upsert" /\ flusher'.at # "upsert" /\ flusher'.left = flusher.left
    BY <1>6, Typed DEF Tick, BeginDelete, Flushers, IInv
  <2> QED
    BY <1>1, <1>6, <2>1, SortedStays DEF Tick, BeginDelete, FlusherOnly
<1>7. CASE Die
  BY <1>7 DEF Die, Sorted
<1>8. CASE ListBuckets \/ Build \/ Upsert \/ ProcessMessage
  BY <1>8, ListSorts, BuildSorts, UpsertSorts, ProcessSorts
<1>9. CASE ReaderStep \/ Disconnect
           \/ \E m \in Minutes : ReceiveOther(m) \/ \E t \in Trades : ReceiveTrade(m, t)
  BY <1>2, <1>4, <1>8, <1>9
  DEF ReaderStep, Dial, Disconnect, HasBuilder, BeginInsert, Lookup, ReceiveOther,
      ReceiveTrade, Receive, ReaderOnly
<1> QED
  BY <1>2, <1>3, <1>5, <1>6, <1>7, <1>8, <1>9
  DEF Next, FlusherStep, Crash, MapRace, NilBuilderPanics, vars

\* What StoredInOrder says of a step.
StoresInOrder ==
    failures' = 0 /\ late = {} =>
        \A m \in Minutes :
            stored[m] = {} /\ stored'[m] # {} =>
                \A n \in Minutes : n > m => stored[n] = {}

\* As long as no upsert failed and no trade was late, candlesticks are stored in
\* the order of their minutes (realtime_importer.go:126-135, backend.go:59-65).
THEOREM InOrder == Spec => StoredInOrder
<1>1. ASSUME IInv, Sorted, [Next]_vars PROVE StoresInOrder
  <2>1. CASE UNCHANGED stored
    BY <2>1 DEF StoresInOrder
  <2>2. CASE UpsertFails
    BY <1>1, <2>2, ImporterAssumption DEF UpsertFails, StoresInOrder, IInv, TypeOK
  <2>3. CASE Upsert
    <3>1. /\ flusher.at = "upsert" /\ failures' = failures
          /\ \A m \in Minutes : m # flusher.minute => stored'[m] = stored[m]
      BY <1>1, <2>3, StoreOf DEF Upsert
    <3>2. late = {} /\ flusher.minute \in Minutes => counted[flusher.minute] # {}
      BY <1>1, <3>1 DEF IInv, OnTimeAgree, OnTimeMinutes, Agree
    <3>3. \A m \in Minutes : \A n \in Minutes : n > m <=> m < n
      BY <1>1, Typed DEF IInv
    <3> QED
      BY <1>1, <3>1, <3>2, <3>3 DEF StoresInOrder, Sorted
  <2> QED
    BY <1>1, <2>1, <2>2, <2>3 DEF Next, ReaderStep, FlusherStep, Dial, Disconnect, HasBuilder,
       BeginInsert, EndInsert, Lookup, ProcessMessage, Receive, ReceiveTrade, ReceiveOther,
       ReaderOnly, Tick, ListBuckets, Build, BeginDelete, EndDelete, Crash, MapRace,
       NilBuilderPanics, Die, vars
<1> QED
  BY <1>1, Inductive, SortedInit, SortedNext, PTL DEF Spec, StoredInOrder, StoresInOrder

================================================================================
