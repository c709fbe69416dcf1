------------------------------ MODULE KrakenStream ------------------------------
(******************************************************************************)
(* One RealtimeImporter for an exchange that emits whole candlesticks: the    *)
(* goroutine of KrakenExchange.StreamCandlesticks (kraken.go) polls Kraken's  *)
(* OHLC call from lastID on and hands the candlesticks over an unbuffered     *)
(* channel to StartProcessingCandlesticks (realtime_importer.go), which       *)
(* upserts them.                                                              *)
(*                                                                            *)
(* Kraken keeps one candlestick per minute, named by its start; the last of   *)
(* an answer is that of the minute in progress and response.Last names the    *)
(* one before it.  An answer holds no more than the newest PageSize.          *)
(* A candlestick is "final" or, if it was still in progress, "partial".       *)
(******************************************************************************)
EXTENDS Integers, Sequences, FiniteSets

CONSTANTS
    PageSize,     \* the most candlesticks in one answer of Kraken
    MaxMinute,    \* bound: last minute of the modelled market
    MaxCrashes,   \* bound: deaths of the process
    MaxFailures   \* bound: failed calls

ASSUME KrakenAssumption ==
    /\ PageSize \in Nat \ {0}
    /\ MaxMinute \in Nat \ {0}
    /\ MaxCrashes \in Nat
    /\ MaxFailures \in Nat

Minutes == 1..MaxMinute

VARIABLES
    now,      \* the minute in progress at Kraken
    stream,   \* the goroutine of StreamCandlesticks: where it is, lastID, the
              \* part of response.OHLC not handed over yet and response.Last
    importer, \* StartProcessingCandlesticks: the candlestick it upserts, if any
    table,    \* candlesticks table
    from,     \* history: response.Last of the process's first OHLC call
    lost,     \* history: candlesticks whose upsert failed or that died in memory
    cut,      \* history: candlesticks older than the page of an answer
    crashes, failures

vars == <<now, stream, importer, table, from, lost, cut, crashes, failures>>

NoCandle == [minute |-> 0, kind |-> "none"]
Candle == [minute : Minutes, kind : {"partial", "final"}]
CandleOf(m) == [minute |-> m, kind |-> IF m < now THEN "final" ELSE "partial"]

TypeOK ==
    /\ now \in Minutes
    /\ stream \in [at : {"dial", "poll", "emit"}, lastID : 0..MaxMinute,
                   page : Seq(Candle), next : 0..MaxMinute]
    /\ Len(stream.page) < PageSize
    /\ importer \in Candle \cup {NoCandle}
    /\ table \in [Minutes -> {"none", "partial", "final"}]
    /\ from \in 0..MaxMinute
    /\ lost \subseteq Minutes /\ cut \subseteq Minutes
    /\ crashes \in 0..MaxCrashes /\ failures \in 0..MaxFailures

Started == [at |-> "dial", lastID |-> 0, page |-> <<>>, next |-> 0]

Init ==
    /\ now = 1
    /\ stream = Started
    /\ importer = NoCandle
    /\ table = [m \in Minutes |-> "none"]
    /\ from = 0
    /\ lost = {} /\ cut = {}
    /\ crashes = 0 /\ failures = 0

--------------------------------------------------------------------------------
(* StreamCandlesticks                                                         *)

(* The candlesticks of an answer to OHLC(pair, since), oldest first: those    *)
(* after since, up to the one in progress, at most PageSize of them.          *)
Oldest(since) == IF now - since > PageSize THEN now - PageSize + 1 ELSE since + 1
OHLC(since) ==
    [i \in 1..(now - Oldest(since) + 1) |-> CandleOf(Oldest(since) + i - 1)]

(* The first OHLC call only serves to find out where to begin. *)
Dial ==
    /\ stream.at = "dial"
    /\ stream' = [stream EXCEPT !.at = "poll", !.lastID = now - 1]
    /\ from' = now - 1
    /\ UNCHANGED <<now, importer, table, lost, cut, crashes, failures>>

(* (altered: the one in progress is handed over too) *)
WithCurrent(page) == page

(* for i := 0; i < len(response.OHLC)-1; i++ *)
ToEmit(page) == SubSeq(page, 1, Len(page) - 1)

(* An OHLC call. *)
Poll ==
    /\ stream.at = "poll"
    /\ Len(OHLC(stream.lastID)) > 1
    /\ stream' = [stream EXCEPT !.at = "emit",
                                !.page = ToEmit(OHLC(stream.lastID)),
                                !.next = now - 1]
    /\ cut' = cut \cup (stream.lastID + 1)..(Oldest(stream.lastID) - 1)
    /\ UNCHANGED <<now, importer, table, from, lost, crashes, failures>>

(* An answer with the candlestick in progress alone is left to the next call. *)
PollNothingNew ==
    /\ stream.at = "poll"
    /\ Len(OHLC(stream.lastID)) <= 1
    /\ UNCHANGED vars

(* c <- model: the importer takes it when it has done with the one before. *)
Emit ==
    /\ stream.at = "emit" /\ stream.page # <<>>
    /\ importer = NoCandle
    /\ importer' = Head(stream.page)
    /\ stream' = [stream EXCEPT !.page = Tail(@)]
    /\ UNCHANGED <<now, table, from, lost, cut, crashes, failures>>

(* (altered: lastID moves to the candlestick in progress) *)
LastIDFromNow == now

(* (altered: lastID stays) *)
LastIDUnmoved == stream.lastID

(* lastID = response.Last *)
LastID == stream.next

EndOfPage ==
    /\ stream.at = "emit" /\ stream.page = <<>>
    /\ stream' = [stream EXCEPT !.at = "poll", !.lastID = LastID]
    /\ UNCHANGED <<now, importer, table, from, lost, cut, crashes, failures>>

(* A failed OHLC call is made again after a pause; the dial's by the importer. *)
PollFails ==
    /\ failures < MaxFailures
    /\ stream.at \in {"dial", "poll"}
    /\ failures' = failures + 1
    /\ UNCHANGED <<now, stream, importer, table, from, lost, cut, crashes>>

--------------------------------------------------------------------------------
(* StartProcessingCandlesticks                                                *)

Upsert ==
    /\ importer # NoCandle
    /\ table' = [table EXCEPT ![importer.minute] = importer.kind]
    /\ importer' = NoCandle
    /\ UNCHANGED <<now, stream, from, lost, cut, crashes, failures>>

(* The error is logged and the candlestick forgotten; it may have been        *)
(* written.                                                                   *)
UpsertFails ==
    /\ importer # NoCandle
    /\ failures < MaxFailures
    /\ \/ table' = [table EXCEPT ![importer.minute] = importer.kind]
       \/ UNCHANGED table
    /\ lost' = lost \cup {importer.minute}
    /\ importer' = NoCandle
    /\ failures' = failures + 1
    /\ UNCHANGED <<now, stream, from, cut, crashes>>

--------------------------------------------------------------------------------
(* The rest of the system                                                     *)

Tick ==
    /\ now < MaxMinute
    /\ now' = now + 1
    /\ UNCHANGED <<stream, importer, table, from, lost, cut, crashes, failures>>

(* The process dies and is started again: what it did not store is gone.      *)
Crash ==
    /\ crashes < MaxCrashes
    /\ stream.at # "dial"
    /\ crashes' = crashes + 1
    /\ lost' = lost \cup {stream.page[i].minute : i \in DOMAIN stream.page}
                    \cup ({importer.minute} \ {0})
    /\ stream' = Started
    /\ importer' = NoCandle
    /\ UNCHANGED <<now, table, from, cut, failures>>

Streaming == Dial \/ Poll \/ PollNothingNew \/ Emit \/ EndOfPage
Importing == Upsert \/ UpsertFails

Next == Streaming \/ PollFails \/ Importing \/ Tick \/ Crash

Spec == Init /\ [][Next]_vars

(* Both goroutines loop and their calls return; calls fail finitely often.    *)
FairSpec == Spec /\ WF_vars(Streaming) /\ WF_vars(Importing)

--------------------------------------------------------------------------------
(* Properties                                                                 *)

InPage(m) == \E i \in DOMAIN stream.page : stream.page[i].minute = m

(* The pages join: every candlestick between the process's first call and     *)
(* lastID, or the end of the page it hands over, is in the table, on its way  *)
(* there, lost to a failed upsert or a crash, or was older than a whole page  *)
(* (kraken.go:64-117).                                                        *)
PagesJoin ==
    \A m \in Minutes :
        /\ stream.at # "dial" /\ from < m
        /\ m <= stream.lastID \/ (stream.at = "emit" /\ m <= stream.next)
        => \/ table[m] = "final"
           \/ m \in lost \cup cut
           \/ InPage(m)
           \/ importer.minute = m

(* No candlestick is stored before it is complete (kraken.go:85-92), whatever *)
(* time passes between its answer and its upsert.                             *)
OnlyWholeCandlesticks == \A m \in Minutes : table[m] # "partial"

(* Candlesticks are stored once and in order, over failures and crashes too:  *)
(* the bot takes the newest for the end of the history (kraken.go:92-117).    *)
StoredOnceInOrder ==
    [][\A m \in Minutes :
          importer.minute = m /\ importer' # importer =>
              /\ table[m] = "none"
              /\ \A n \in Minutes : table[n] # "none" => n < m]_vars

(* The stream catches up: a minute that is over is eventually passed, whatever *)
(* calls fail, if the process does not die for ever (kraken.go:72-119).       *)
StreamCatchesUp == \A m \in Minutes : now > m ~> stream.lastID >= m
================================================================================
