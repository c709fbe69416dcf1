--------------------------- MODULE KrakenStreamProofs ---------------------------
(******************************************************************************)
(* What a Kraken stream stores, for every size of a page, length of the       *)
(* market, and number of crashes and failures.                                *)
(******************************************************************************)
EXTENDS KrakenStream, TLAPS

\* The types, and where the page is empty.
Types ==
    /\ now \in Minutes
    /\ stream \in [at : {"dial", "poll", "emit"}, lastID : 0..MaxMinute,
                   page : Seq(Candle), next : 0..MaxMinute]
    /\ stream.at # "emit" => stream.page = <<>>
    /\ importer \in Candle \cup {NoCandle}
    /\ table \in [Minutes -> {"none", "partial", "final"}]
    /\ from \in 0..MaxMinute

Rest == Len(stream.page)

\* The last minute that was handed over, or that a restarted stream leaves out.
Handed == CASE stream.at = "emit" -> stream.next - Rest
            [] stream.at = "poll" -> stream.lastID
            [] OTHER -> now - 1

\* A page is what is left of the minutes up to next, each of them whole.
Contiguous ==
    stream.at = "emit" =>
        /\ stream.next < now
        /\ Rest <= stream.next
        /\ \A i \in 1..Rest :
              stream.page[i] = [minute |-> stream.next - Rest + i, kind |-> "final"]

\* Nothing is stored, or about to be, that was not handed over, and what is about
\* to be is the newest.
Ordered ==
    /\ Handed \in 0..now - 1
    /\ stream.at = "dial" => importer = NoCandle
    /\ importer # NoCandle => importer.kind = "final" /\ importer.minute <= Handed
    /\ \A m \in Minutes : table[m] # "none" =>
          m <= Handed /\ (importer # NoCandle => m < importer.minute)

IInv == Types /\ Contiguous /\ Ordered /\ OnlyWholeCandlesticks /\ PagesJoin

--------------------------------------------------------------------------------
(* An answer of Kraken. *)

\* It holds the minutes from Oldest on, and the last of them is in progress.
LEMMA Answer ==
    ASSUME Types, NEW since \in 0..now - 1, Len(OHLC(since)) > 1
    PROVE  /\ Oldest(since) \in (since + 1)..(now - 1)
           /\ ToEmit(OHLC(since)) \in Seq(Candle)
           /\ Len(ToEmit(OHLC(since))) = now - Oldest(since)
           /\ \A i \in 1..(now - Oldest(since)) :
                 ToEmit(OHLC(since))[i] =
                    [minute |-> Oldest(since) + i - 1, kind |-> "final"]
<1> USE KrakenAssumption
<1>1. now \in Nat /\ now >= 1 /\ now <= MaxMinute /\ PageSize \in Nat /\ PageSize >= 1
      /\ MaxMinute \in Nat
  BY DEF Types, Minutes
<1>2. Oldest(since) \in (since + 1)..now
  BY <1>1 DEF Oldest
<1> DEFINE o == Oldest(since)
           n == now - o + 1
           seq == [i \in 1..n |-> CandleOf(o + i - 1)]
<1>3. OHLC(since) = seq
  BY DEF OHLC
<1>4. n \in Nat /\ o \in Nat /\ o >= 1
  BY <1>1, <1>2
<1> HIDE DEF n, o
<1>5. seq \in Seq(Candle) /\ Len(seq) = n
  <2>1. \A i \in 1..n : CandleOf(o + i - 1) \in Candle
    BY <1>1, <1>4 DEF n, CandleOf, Candle, Minutes
  <2> QED
    BY <1>4, <2>1
<1>6. n > 1
  BY <1>3, <1>5
<1>7. ToEmit(OHLC(since)) = SubSeq(seq, 1, n - 1)
  BY <1>3, <1>5 DEF ToEmit
<1> HIDE DEF seq
<1>8. /\ SubSeq(seq, 1, n - 1) \in Seq(Candle)
      /\ Len(SubSeq(seq, 1, n - 1)) = n - 1
      /\ \A i \in 1..(n - 1) : SubSeq(seq, 1, n - 1)[i] = seq[i]
  BY <1>4, <1>5, <1>6
<1>9. \A i \in 1..(n - 1) : seq[i] = [minute |-> o + i - 1, kind |-> "final"]
  BY <1>1, <1>4 DEF seq, CandleOf, n
<1>10. n - 1 = now - o
  BY <1>1, <1>4 DEF n
<1>11. o \in (since + 1)..(now - 1)
  BY <1>1, <1>2, <1>6, <1>10, <1>4 DEF o
<1> QED
  BY <1>7, <1>8, <1>9, <1>10, <1>11 DEF o

--------------------------------------------------------------------------------
(* The invariant. *)

LEMMA InitIInv == Init => IInv
<1> SUFFICES ASSUME Init PROVE IInv
  OBVIOUS
<1> USE KrakenAssumption DEF Init, Started, NoCandle
<1>1. Types
  BY DEF Types, Minutes
<1>2. Contiguous /\ Ordered /\ OnlyWholeCandlesticks /\ PagesJoin
  BY DEF Contiguous, Ordered, Handed, OnlyWholeCandlesticks, PagesJoin
<1> QED
  BY <1>1, <1>2 DEF IInv

\* The clock's and the importer's types, as integers.
LEMMA Whole ==
    ASSUME IInv
    PROVE  /\ now \in Nat /\ now >= 1 /\ now <= MaxMinute /\ MaxMinute \in Nat
           /\ stream.lastID \in Nat /\ stream.next \in Nat /\ from \in Nat
           /\ Rest \in Nat /\ Handed \in Nat /\ Handed < now
           /\ \A m \in Minutes : m \in Nat /\ m >= 1 /\ m <= MaxMinute
           /\ importer # NoCandle => importer.minute \in Minutes /\ importer.kind = "final"
BY KrakenAssumption DEF IInv, Types, Minutes, Rest, Ordered, Candle

LEMMA DialKeeps == ASSUME IInv, Dial PROVE IInv'
<1> USE KrakenAssumption, Whole DEF IInv
<1>1. /\ stream' = [at |-> "poll", lastID |-> now - 1, page |-> <<>>,
                    next |-> stream.next]
      /\ stream.at = "dial" /\ from' = now - 1
      /\ UNCHANGED <<now, importer, table, lost, cut>>
  BY DEF Dial, Types
<1>2. Types'
  BY <1>1 DEF Types
<1>3. Contiguous' /\ OnlyWholeCandlesticks'
  BY <1>1 DEF Contiguous, OnlyWholeCandlesticks
<1>4. Handed' = Handed /\ Handed' = now - 1
  BY <1>1 DEF Handed
<1>5. Ordered'
  BY <1>1, <1>4 DEF Ordered
<1>6. PagesJoin'
  BY <1>1 DEF PagesJoin
<1> QED
  BY <1>2, <1>3, <1>5, <1>6

LEMMA PollKeeps == ASSUME IInv, Poll PROVE IInv'
<1> USE KrakenAssumption, Whole DEF IInv
<1> DEFINE o == Oldest(stream.lastID)
           page == ToEmit(OHLC(stream.lastID))
<1>1. /\ stream' = [at |-> "emit", lastID |-> stream.lastID, page |-> page,
                    next |-> now - 1]
      /\ stream.at = "poll"
      /\ cut' = cut \cup (stream.lastID + 1)..(o - 1)
      /\ UNCHANGED <<now, importer, table, from, lost>>
  BY DEF Poll, Types
<1>2. stream.lastID = Handed
  BY <1>1 DEF Handed
<1>3. /\ o \in (stream.lastID + 1)..(now - 1)
      /\ page \in Seq(Candle)
      /\ Len(page) = now - o
      /\ \A i \in 1..(now - o) : page[i] = [minute |-> o + i - 1, kind |-> "final"]
  BY <1>2, Answer DEF Poll
<1> HIDE DEF o, page
<1>4. Types'
  BY <1>1, <1>3 DEF Types
<1>5. Rest' = now - o /\ Handed' = o - 1
  BY <1>1, <1>3 DEF Rest, Handed
<1>6. Contiguous'
  <2>1. ASSUME NEW i \in 1..Rest'
        PROVE  stream'.page[i] = [minute |-> stream'.next - Rest' + i, kind |-> "final"]
    <3>1. stream'.next - Rest' + i = o + i - 1
      BY <1>1, <1>3, <1>5
    <3> QED
      BY <1>1, <1>3, <1>5, <3>1
  <2> QED
    BY <1>1, <1>3, <1>5, <2>1 DEF Contiguous
<1>7. Ordered'
  <2>1. Handed' \in 0..now - 1 /\ Handed <= Handed'
    BY <1>2, <1>3, <1>5
  <2> QED
    BY <1>1, <2>1 DEF Ordered
<1>8. OnlyWholeCandlesticks'
  BY <1>1 DEF OnlyWholeCandlesticks
<1>9. PagesJoin'
  <2> SUFFICES ASSUME NEW m \in Minutes, from < m, m <= now - 1
               PROVE  \/ table[m] = "final"
                      \/ m \in lost \cup cut'
                      \/ InPage(m)'
                      \/ importer.minute = m
    BY <1>1, <1>2 DEF PagesJoin
  <2>1. CASE m <= stream.lastID
    BY <1>1, <2>1 DEF PagesJoin, InPage, Types
  <2>2. CASE stream.lastID < m /\ m < o
    <3>1. m \in (stream.lastID + 1)..(o - 1)
      BY <1>3, <2>2
    <3> QED
      BY <1>1, <3>1
  <2>3. CASE o <= m
    <3>1. m - o + 1 \in 1..(now - o)
      BY <1>3, <2>3
    <3>2. page[m - o + 1].minute = m
      BY <1>3, <3>1
    <3> QED
      BY <1>1, <1>3, <3>1, <3>2 DEF InPage
  <2> QED
    BY <1>3, <2>1, <2>2, <2>3
<1> QED
  BY <1>4, <1>6, <1>7, <1>8, <1>9

\* The head of the page is the newest candlestick so far.
LEMMA EmitKeeps == ASSUME IInv, Emit PROVE IInv'
<1> USE KrakenAssumption, Whole DEF IInv
<1>1. /\ stream' = [stream EXCEPT !.page = Tail(@)]
      /\ stream.at = "emit" /\ stream.page # <<>> /\ stream.page \in Seq(Candle)
      /\ importer = NoCandle /\ importer' = Head(stream.page)
      /\ UNCHANGED <<now, table, from, lost, cut>>
  BY DEF Emit, Types
<1>2. /\ stream'.at = "emit" /\ stream'.next = stream.next
      /\ stream'.lastID = stream.lastID /\ stream'.page = Tail(stream.page)
  BY <1>1 DEF Types
<1>3. /\ Rest >= 1 /\ Rest' = Rest - 1
      /\ Tail(stream.page) \in Seq(Candle)
      /\ Head(stream.page) = stream.page[1] /\ Head(stream.page) \in Candle
      /\ \A i \in 1..Rest - 1 : Tail(stream.page)[i] = stream.page[i + 1]
  BY <1>1, <1>2 DEF Rest
<1>4. Rest \in Int /\ Rest' \in Int /\ stream.next \in Int /\ now \in Int
  BY <1>3, Whole
<1>5. importer'.minute = stream.next - Rest + 1 /\ importer'.kind = "final"
  <2>1. 1 \in 1..Rest
    BY <1>3, <1>4
  <2>2. stream.page[1] = [minute |-> stream.next - Rest + 1, kind |-> "final"]
    BY <1>1, <2>1 DEF Contiguous
  <2> QED
    BY <1>1, <1>3, <2>2
<1>6. Types'
  <2>1. stream' \in [at : {"dial", "poll", "emit"}, lastID : 0..MaxMinute,
                     page : Seq(Candle), next : 0..MaxMinute]
    BY <1>1, <1>3 DEF Types
  <2> QED
    BY <1>1, <1>2, <1>3, <2>1 DEF Types
<1>7. Contiguous'
  <2>1. ASSUME NEW i \in 1..Rest'
        PROVE  stream'.page[i] = [minute |-> stream'.next - Rest' + i, kind |-> "final"]
    <3>1. i + 1 \in 1..Rest /\ stream'.next - Rest' + i = stream.next - Rest + (i + 1)
      <4>1. i \in 1..(Rest - 1) /\ Rest' = Rest - 1 /\ stream'.next = stream.next
        BY <1>2, <1>3
      <4>2. i \in Int
        OBVIOUS
      <4> QED
        BY <4>1, <4>2, <1>4
    <3>2. stream'.page[i] = stream.page[i + 1]
      BY <1>2, <1>3, <1>4
    <3> QED
      BY <1>1, <3>1, <3>2 DEF Contiguous
  <2>2. Rest' <= stream'.next
    BY <1>1, <1>2, <1>3, <1>4 DEF Contiguous
  <2> QED
    BY <1>1, <1>2, <2>1, <2>2 DEF Contiguous
<1>8. Handed = stream.next - Rest /\ Handed' = stream.next - Rest'
  BY <1>1, <1>2 DEF Handed
<1>9. Ordered'
  <2>1. Handed' = Handed + 1 /\ importer'.minute = Handed'
    BY <1>3, <1>5, <1>8, <1>4
  <2>2. Handed' \in 0..now - 1
    <3>1. stream.next < now /\ Rest <= stream.next
      BY <1>1 DEF Contiguous
    <3> QED
      BY <1>3, <1>8, <1>4, <3>1
  <2>3. \A m \in Minutes : table[m] # "none" => m <= Handed' /\ m < importer'.minute
    <3>1. \A m \in Minutes : m \in Int /\ (table[m] # "none" => m <= Handed)
      BY DEF Ordered, Minutes
    <3> QED
      BY <1>8, <1>4, <2>1, <3>1
  <2>4. importer'.minute <= Handed'
    BY <2>1, <2>2
  <2> QED
    BY <1>1, <1>2, <1>5, <2>2, <2>3, <2>4 DEF Ordered
<1>10. OnlyWholeCandlesticks'
  BY <1>1 DEF OnlyWholeCandlesticks
<1>11. PagesJoin'
  <2> SUFFICES ASSUME NEW m \in Minutes, from < m,
                      m <= stream.lastID \/ m <= stream.next
               PROVE  \/ table[m] = "final"
                      \/ m \in lost \cup cut
                      \/ InPage(m)'
                      \/ importer'.minute = m
    BY <1>1, <1>2 DEF PagesJoin
  <2>1. importer.minute # m
    BY <1>1 DEF NoCandle
  <2>2. CASE InPage(m)
    <3>1. PICK i \in 1..Rest : stream.page[i].minute = m
      <4>1. DOMAIN stream.page = 1..Rest
        BY <1>1 DEF Rest
      <4> QED
        BY <2>2, <4>1 DEF InPage
    <3>2. CASE i = 1
      BY <1>1, <1>3, <3>1, <3>2
    <3>3. CASE i # 1
      <4>1. i - 1 \in 1..Rest - 1 /\ Tail(stream.page)[i - 1] = stream.page[i]
        <5>1. i - 1 \in 1..Rest - 1 /\ i = (i - 1) + 1
          BY <1>4, <3>3
        <5> QED
          BY <1>3, <5>1
      <4>2. i - 1 \in DOMAIN stream'.page
        <5>1. DOMAIN stream'.page = 1..Rest'
          BY <1>2, <1>3 DEF Rest
        <5> QED
          BY <1>3, <4>1, <5>1
      <4> QED
        BY <1>2, <3>1, <4>1, <4>2 DEF InPage
    <3> QED
      BY <3>2, <3>3
  <2> QED
    BY <1>1, <2>1, <2>2 DEF PagesJoin
<1> QED
  BY <1>6, <1>7, <1>9, <1>10, <1>11

LEMMA EndOfPageKeeps == ASSUME IInv, EndOfPage PROVE IInv'
<1> USE KrakenAssumption, Whole DEF IInv
<1>1. /\ stream' = [at |-> "poll", lastID |-> stream.next, page |-> <<>>,
                    next |-> stream.next]
      /\ stream.at = "emit" /\ stream.page = <<>>
      /\ UNCHANGED <<now, importer, table, from, lost, cut>>
  BY DEF EndOfPage, LastID, Types
<1>2. Types'
  BY <1>1 DEF Types
<1>3. Contiguous' /\ OnlyWholeCandlesticks'
  BY <1>1 DEF Contiguous, OnlyWholeCandlesticks
<1>4. Handed' = Handed
  BY <1>1 DEF Handed, Rest
<1>5. Ordered'
  BY <1>1, <1>4 DEF Ordered
<1>6. PagesJoin'
  BY <1>1 DEF PagesJoin, InPage
<1> QED
  BY <1>2, <1>3, <1>5, <1>6

\* The importer's candlestick goes to the table, or is noted as lost.
LEMMA ImportingKeeps == ASSUME IInv, Importing PROVE IInv'
<1> USE KrakenAssumption DEF IInv
<1>1. /\ importer # NoCandle /\ importer' = NoCandle
      /\ importer.minute \in Minutes /\ importer.kind = "final"
      /\ importer.minute <= Handed
      /\ UNCHANGED <<now, stream, from, cut>>
  BY Whole DEF Importing, Upsert, UpsertFails, Ordered
<1>2. \/ table' = [table EXCEPT ![importer.minute] = "final"]
         /\ lost' = lost
      \/ /\ table' = table \/ table' = [table EXCEPT ![importer.minute] = "final"]
         /\ lost' = lost \cup {importer.minute}
  BY <1>1 DEF Importing, Upsert, UpsertFails
<1>3. Types'
  BY <1>1, <1>2 DEF Types
<1>4. Contiguous'
  BY <1>1 DEF Contiguous, Rest
<1>5. Handed' = Handed
  BY <1>1 DEF Handed, Rest
<1>6. Ordered'
  BY <1>1, <1>2, <1>5 DEF Ordered, Types
<1>7. OnlyWholeCandlesticks'
  BY <1>1, <1>2 DEF OnlyWholeCandlesticks, Types
<1>8. PagesJoin'
  <2>1. \A m \in Minutes : importer.minute = m => table'[m] = "final" \/ m \in lost'
    BY <1>2 DEF Types
  <2>2. \A m \in Minutes : table[m] = "final" => table'[m] = "final"
    BY <1>2 DEF Types
  <2>3. lost \subseteq lost'
    BY <1>2
  <2> QED
    BY <1>1, <2>1, <2>2, <2>3 DEF PagesJoin, InPage
<1> QED
  BY <1>3, <1>4, <1>6, <1>7, <1>8

\* Time passes, a call fails, or the process starts anew.
LEMMA ElsewhereKeeps ==
    ASSUME IInv, Tick \/ PollFails \/ PollNothingNew \/ Crash PROVE IInv'
<1> USE KrakenAssumption DEF IInv
<1>1. CASE Tick
  <2>1. /\ now < MaxMinute /\ now' = now + 1
        /\ UNCHANGED <<stream, importer, table, from, lost, cut>>
    BY <1>1 DEF Tick
  <2>2. Types'
    BY <2>1, Whole DEF Types, Minutes
  <2>3. Contiguous'
    BY <2>1, Whole DEF Contiguous, Rest
  <2>4. Ordered'
    <3>1. Handed' \in 0..now'-1 /\ Handed <= Handed'
      <4>1. CASE stream.at = "dial"
        BY <2>1, <4>1, Whole DEF Handed
      <4>2. CASE stream.at # "dial"
        <5>1. Handed' = Handed
          BY <2>1, <4>2 DEF Handed, Rest, Types
        <5> QED
          BY <2>1, <5>1, Whole
      <4> QED
        BY <4>1, <4>2
    <3>2. \A m \in Minutes : m <= Handed => m <= Handed'
      BY <3>1, <2>1, Whole
    <3>3. importer # NoCandle => importer.minute \in Minutes
      BY Whole
    <3> QED
      BY <2>1, <3>1, <3>2, <3>3 DEF Ordered
  <2> QED
    BY <2>1, <2>2, <2>3, <2>4 DEF OnlyWholeCandlesticks, PagesJoin, InPage
<1>2. CASE PollFails \/ PollNothingNew
  BY <1>2 DEF PollFails, PollNothingNew, vars, Types, Contiguous, Ordered, Handed, Rest,
              OnlyWholeCandlesticks, PagesJoin, InPage
<1>3. CASE Crash
  <2>1. /\ stream' = Started /\ importer' = NoCandle
        /\ UNCHANGED <<now, table, from>>
    BY <1>3 DEF Crash
  <2>2. Types'
    BY <2>1 DEF Types, Started
  <2>3. Contiguous' /\ OnlyWholeCandlesticks' /\ PagesJoin'
    BY <2>1 DEF Contiguous, OnlyWholeCandlesticks, PagesJoin, Started
  <2>4. Ordered'
    <3>1. Handed' = now - 1
      BY <2>1 DEF Handed, Started
    <3>2. \A m \in Minutes : m <= Handed => m <= now - 1
      BY Whole
    <3> QED
      BY <2>1, <3>1, <3>2, Whole DEF Ordered
  <2> QED
    BY <2>2, <2>3, <2>4
<1> QED
  BY <1>1, <1>2, <1>3

LEMMA NextIInv == IInv /\ [Next]_vars => IInv'
<1>1. IInv /\ UNCHANGED vars => IInv'
  BY DEF vars, IInv, Types, Contiguous, Ordered, Handed, Rest, OnlyWholeCandlesticks,
         PagesJoin, InPage
<1> QED
  BY <1>1, DialKeeps, PollKeeps, EmitKeeps, EndOfPageKeeps, ImportingKeeps,
     ElsewhereKeeps DEF Next, Streaming

--------------------------------------------------------------------------------
\* Every candlestick after the first call's is in the table or on its way, or its
\* loss was noted (kraken.go:64-117).
THEOREM AllPagesJoin == Spec => []PagesJoin
<1>1. IInv => PagesJoin
  BY DEF IInv
<1> QED
  BY InitIInv, NextIInv, <1>1, PTL DEF Spec

\* No candlestick is stored before it is complete (kraken.go:85-92).
THEOREM OnlyWholeStored == Spec => []OnlyWholeCandlesticks
<1>1. IInv => OnlyWholeCandlesticks
  BY DEF IInv
<1> QED
  BY InitIInv, NextIInv, <1>1, PTL DEF Spec

\* No candlestick is stored twice, or after a newer one, over failures and
\* crashes (kraken.go:92-117).
THEOREM InOrder == Spec => StoredOnceInOrder
<1> DEFINE Newest(m) == /\ table[m] = "none"
                        /\ \A n \in Minutes : table[n] # "none" => n < m
<1>1. IInv /\ [Next]_vars =>
         [\A m \in Minutes : importer.minute = m /\ importer' # importer => Newest(m)]_vars
  <2> SUFFICES ASSUME IInv, NEW m \in Minutes, importer.minute = m
               PROVE  Newest(m)
    OBVIOUS
  <2>1. importer # NoCandle
    BY DEF NoCandle, Minutes
  <2>2. \A n \in Minutes : table[n] # "none" => n < m
    BY <2>1 DEF IInv, Ordered
  <2>3. ~(m < m)
    BY Whole
  <2> QED
    BY <2>2, <2>3
<1> QED
  BY InitIInv, NextIInv, <1>1, PTL DEF Spec, StoredOnceInOrder

================================================================================
