---------------------------- MODULE MigrationsProofs ----------------------------
(******************************************************************************)
(* What migrate and rollback do to the schema and the candlesticks, for all   *)
(* candlesticks and every number of faults and rollbacks.                     *)
(******************************************************************************)
EXTENDS Migrations, TLAPS

\* The types; a dirty version is that of a migration.
Types ==
    /\ TypeOK
    /\ dirty => version \in 1..Count
    /\ mark.dirty => mark.version \in {NilVersion} \cup 1..Count
    /\ at = "insert" => mark.version # NilVersion

\* The schema but for the primary key, which migrations 2 and 3 do not mind, is
\* that of a version.
Level(i) == schema \ {"pkey"} = Stage(i)

Shape ==
    /\ Level(0) \/ Level(1) \/ Level(2) \/ Level(3)
    /\ "pkey" \in schema => "candlesticks" \in schema

\* What there may be when version v is marked clean: its schema, or that of the
\* next one.  Migration 2 was applied, but not marked, to an empty table only.
Fits(v) ==
    /\ v = 1 => Level(1) \/ (Level(2) /\ rows = {})
    /\ v = 2 => Level(2) \/ Level(3)
    /\ v = 3 => Level(3)
    /\ v = 4 => Level(3) /\ "pkey" \in schema

\* A version that is dirty can be forced back by migrate.
Marked ==
    /\ ~dirty => Fits(version)
    /\ dirty /\ (at = "idle" \/ ~RollingBack) => Fits(version - 1)

\* What is about to be marked, and why.
ToRun ==
    /\ mark.dirty
    /\ text.up => /\ mark.error = "idle"
                  /\ mark.version = text.of
                  /\ Fits(text.of - 1)
    /\ ~text.up => /\ mark.error = "force"
                   /\ mark.version = IF text.of = 1 THEN NilVersion ELSE text.of - 1
                   /\ Fits(text.of)

ToFinish ==
    /\ at # "run"
    /\ ~mark.dirty
    /\ mark.then = "idle" <=> mark.error = "force"
    /\ Fits(mark.version)

Pending ==
    /\ at \in {"truncate", "insert", "run"} =>
          IF mark.then = "run" THEN ToRun ELSE ToFinish
    /\ at = "run" => version = mark.version /\ (version # NilVersion => dirty)
    /\ at = "up" => mark.then = "up" /\ mark.error = "idle"

IInv == Types /\ (~botched => Shape /\ Marked /\ Pending)

--------------------------------------------------------------------------------
(* The schema. *)

LEMMA Stages ==
    /\ Stage(0) = {}
    /\ Stage(1) = {"candlesticks"}
    /\ Stage(2) = {"candlesticks", "start_time_idx"}
    /\ Stage(3) = {"candlesticks", "trading_strategies", "market_orders",
                   "start_time_product_idx", "created_at", "updated_at"}
    /\ Stage(4) = {"candlesticks", "pkey", "trading_strategies", "market_orders",
                   "start_time_product_idx", "created_at", "updated_at"}
    /\ Stage(5) = Stage(4)
BY DEF Stage, Version3

\* Levels by what tells them apart.
LEMMA Levels ==
    /\ Level(0) => "candlesticks" \notin schema /\ schema \subseteq {"pkey"}
    /\ Level(1) => /\ "candlesticks" \in schema /\ "start_time_idx" \notin schema
                   /\ "start_time_product_idx" \notin schema
    /\ Level(2) => /\ "candlesticks" \in schema /\ "start_time_idx" \in schema
                   /\ "start_time_product_idx" \notin schema
    /\ Level(3) => /\ "candlesticks" \in schema /\ "start_time_idx" \notin schema
                   /\ "start_time_product_idx" \in schema
                   /\ Stage(3) \subseteq schema
BY Stages DEF Level

\* An upward text makes the schema of its version of that of the one before.
LEMMA UpApplies ==
    ASSUME Types, Shape, NEW v \in 1..Count, Fits(v - 1), Applies(Up[v]), Apply(Up[v])
    PROVE  /\ schema' \subseteq Objects /\ rows' \in SUBSET Row
           /\ Shape' /\ Fits(v)' /\ Fits(v - 1)'
           /\ rows \subseteq rows' \/ Unindexed
<1> USE DEF Count
<1>1. /\ schema \subseteq Objects /\ rows \in SUBSET Row
      /\ Up[v].truncates => rows' = {}
      /\ ~Up[v].truncates => rows' = rows \/ rows' = {}
      /\ "candlesticks" \in schema \cup Up[v].creates
  BY DEF Types, TypeOK, Applies, Apply, Up
<1>2. CASE v = 1
  <2>1. Up[v].creates = {"candlesticks"} /\ Up[v].drops = {} /\ ~Up[v].truncates
    BY <1>2 DEF Up
  <2>2. "candlesticks" \notin schema
    BY <2>1 DEF Applies
  <2>3. schema = {}
    BY <2>2, Levels DEF Shape
  <2>4. schema' = {"candlesticks"}
    BY <2>1, <2>3 DEF Apply, Left
  <2>5. Level(1)' /\ "pkey" \notin schema'
    BY <2>4, Stages DEF Level
  <2> QED
    BY <1>1, <1>2, <2>3, <2>4, <2>5 DEF Shape, Fits, Objects, Unindexed
<1>3. CASE v = 2
  <2>1. Up[v].creates = {"start_time_idx"} /\ Up[v].drops = {} /\ Up[v].truncates
    BY <1>3 DEF Up
  <2>2. "start_time_idx" \notin schema
    BY <2>1 DEF Applies
  <2>3. Level(1)
    BY <1>3, <2>2, Levels DEF Fits
  <2>4. schema' = schema \cup {"start_time_idx"} /\ "candlesticks" \in schema
    BY <2>1, <2>3, Levels DEF Apply, Left
  <2>5. Level(2)'
    BY <2>3, <2>4, Stages DEF Level
  <2>6. Unindexed
    BY <2>3, Levels DEF Unindexed
  <2> QED
    BY <1>1, <1>3, <2>1, <2>4, <2>5, <2>6 DEF Shape, Fits, Objects, OnCandlesticks
<1>4. CASE v = 3
  <2>1. Up[v].creates = Version3 /\ Up[v].drops = {"start_time_idx"} /\ ~Up[v].truncates
    BY <1>4 DEF Up
  <2>2. "start_time_idx" \in schema
    BY <2>1 DEF Applies
  <2>3. Level(2)
    BY <1>4, <2>2, Levels DEF Fits
  <2>4. /\ schema' = (schema \ {"start_time_idx"}) \cup Version3
        /\ "candlesticks" \in Left(Up[v]) /\ "candlesticks" \in schema'
    BY <2>1, <2>3, Levels DEF Apply, Left
  <2>5. Level(3)'
    BY <2>3, <2>4, Stages DEF Level, Version3
  <2>6. rows' = rows
    BY <2>1, <2>4 DEF Apply
  <2> QED
    BY <1>1, <1>4, <2>4, <2>5, <2>6 DEF Shape, Fits, Objects, OnCandlesticks, Version3
<1>5. CASE v = 4
  <2>1. Up[v].creates = {"pkey"} /\ Up[v].drops = {} /\ ~Up[v].truncates
    BY <1>5 DEF Up
  <2>2. Level(3)
    BY <1>5 DEF Fits
  <2>3. /\ schema' = schema \cup {"pkey"}
        /\ "candlesticks" \in Left(Up[v]) /\ "candlesticks" \in schema'
    BY <2>1, <2>2, Levels DEF Apply, Left
  <2>4. Level(3)'
    BY <2>2, <2>3 DEF Level
  <2>5. rows' = rows
    BY <2>1, <2>3 DEF Apply
  <2> QED
    BY <1>1, <1>5, <2>3, <2>4, <2>5 DEF Shape, Fits, Objects, OnCandlesticks
<1> QED
  BY <1>2, <1>3, <1>4, <1>5

\* A downward text makes the schema of the version before of that of its own.
LEMMA DownApplies ==
    ASSUME Types, Shape, NEW v \in 1..Count, Fits(v), Applies(Down[v]), Apply(Down[v])
    PROVE  /\ schema' \subseteq Objects /\ rows' \in SUBSET Row
           /\ Shape' /\ Fits(v - 1)'
           /\ rows \subseteq rows' \/ Unindexed
<1> USE DEF Count
<1>1. /\ schema \subseteq Objects /\ rows \in SUBSET Row
      /\ ~Down[v].truncates
      /\ Down[v].drops \subseteq schema
      /\ rows' = rows \/ rows' = {}
  <2>1. ~Down[v].truncates
    BY DEF Down
  <2> QED
    BY <2>1 DEF Types, TypeOK, Applies, Apply
<1>2. CASE v = 1
  <2>1. Down[v].creates = {} /\ Down[v].drops = {"candlesticks"}
    BY <1>2 DEF Down
  <2>2. Level(1) \/ (Level(2) /\ rows = {})
    BY <1>2 DEF Fits
  <2>3. schema \subseteq {"candlesticks", "start_time_idx", "pkey"}
    BY <2>2, Stages DEF Level
  <2>4. schema' = {} /\ rows' = {}
    <3>1. Left(Down[v]) = {}
      BY <2>1, <2>3 DEF Left, OnCandlesticks
    <3> QED
      BY <2>1, <3>1 DEF Apply
  <2>5. Level(0)'
    BY <2>4, Stages DEF Level
  <2>6. rows = {} \/ Unindexed
    BY <2>2, Levels DEF Unindexed
  <2> QED
    BY <1>2, <2>4, <2>5, <2>6 DEF Shape, Fits
<1>3. CASE v = 2
  <2>1. Down[v].creates = {} /\ Down[v].drops = {"start_time_idx"}
    BY <1>3 DEF Down
  <2>2. Level(2)
    BY <1>1, <1>3, <2>1, Levels DEF Fits
  <2>3. schema' = schema \ {"start_time_idx"} /\ "candlesticks" \in Left(Down[v])
        /\ "candlesticks" \in schema'
    BY <2>1, <2>2, Levels DEF Apply, Left
  <2>4. Level(1)'
    BY <2>2, <2>3, Stages DEF Level
  <2>5. rows' = rows
    BY <1>1, <2>3 DEF Apply
  <2> QED
    BY <1>1, <1>3, <2>3, <2>4, <2>5 DEF Shape, Fits
<1>4. CASE v = 3
  <2>1. Down[v].creates = {"start_time_idx"} /\ Down[v].drops = Version3
    BY <1>4 DEF Down
  <2>2. Level(3)
    BY <1>4 DEF Fits
  <2>3. /\ schema' = (schema \ Version3) \cup {"start_time_idx"}
        /\ "candlesticks" \in Left(Down[v]) /\ "candlesticks" \in schema'
    BY <2>1, <2>2, Levels DEF Apply, Left, Version3
  <2>4. Level(2)'
    BY <2>2, <2>3, Stages DEF Level, Version3
  <2>5. rows' = rows
    BY <1>1, <2>3 DEF Apply
  <2>6. schema' \subseteq Objects
    BY <1>1, <2>3 DEF Objects, OnCandlesticks
  <2>7. Shape' /\ Fits(v - 1)'
    BY <1>4, <2>3, <2>4 DEF Shape, Fits
  <2> QED
    BY <1>1, <2>5, <2>6, <2>7
<1>5. CASE v = 4
  <2>1. Down[v].creates = {} /\ Down[v].drops = {"pkey"}
    BY <1>5 DEF Down
  <2>2. Level(3)
    BY <1>5 DEF Fits
  <2>3. schema' = schema \ {"pkey"} /\ "candlesticks" \in Left(Down[v])
        /\ "candlesticks" \in schema'
    BY <2>1, <2>2, Levels DEF Apply, Left
  <2>4. Level(3)'
    BY <2>2, <2>3 DEF Level
  <2>5. rows' = rows
    BY <1>1, <2>3 DEF Apply
  <2> QED
    BY <1>1, <1>5, <2>3, <2>4, <2>5 DEF Shape, Fits
<1> QED
  BY <1>2, <1>3, <1>4, <1>5

\* Whatever text it is, and whatever it is applied to, there is nothing else then.
LEMMA TextTypes ==
    ASSUME Types, Apply(Text)
    PROVE  schema' \subseteq Objects /\ rows' \subseteq Row
<1>1. /\ schema \subseteq Objects /\ rows \subseteq Row
      /\ text.of \in 1..4 /\ text.up \in BOOLEAN
  BY DEF Types, TypeOK, Count
<1>2. Text.creates \subseteq Objects
  BY <1>1 DEF Text, Up, Down, Objects, OnCandlesticks, Version3
<1>3. Left(Text) \subseteq schema
  BY DEF Left
<1> QED
  BY <1>1, <1>2, <1>3 DEF Apply

LEMMA Versions ==
    /\ \A v \in 1..Count : NextVersion(v) = IF v < Count THEN v + 1 ELSE ErrNotExist
    /\ \A v \in 1..Count : PrevVersion(v) = v - 1
<1> USE MigrationsAssumption DEF Count, ErrNotExist, Exists
<1>1. \A n \in 0..Count + 1 : n % UintSize = n
  OBVIOUS
<1>2. ASSUME NEW v \in 1..Count
      PROVE  /\ (v + 1) % UintSize = v + 1
             /\ (v - 1) % UintSize = v - 1
  BY <1>1
<1> QED
  BY <1>2 DEF NextVersion, PrevVersion

--------------------------------------------------------------------------------
(* The steps. *)

Marks == [version : NilVersion..Count, dirty : BOOLEAN,
          then : {"up", "run", "idle"}, error : {"idle", "force"}]

\* What fits still does while the schema and the rows stay.
LEMMA FitsSame ==
    ASSUME UNCHANGED <<schema, rows>>
    PROVE  /\ Shape => Shape'
           /\ \A v \in Int : Fits(v) => Fits(v)'
<1>1. Level(0)' = Level(0) /\ Level(1)' = Level(1) /\ Level(2)' = Level(2)
      /\ Level(3)' = Level(3)
  BY DEF Level
<1> QED
  BY <1>1 DEF Shape, Fits

\* Nothing is asked of a database without a version.
LEMMA FitsNone == \A v \in Int : v < 1 => Fits(v) /\ Fits(v)'
BY DEF Fits

LEMMA InitIInv == Init => IInv
<1> SUFFICES ASSUME Init PROVE IInv
  OBVIOUS
<1> USE MigrationsAssumption DEF Init, Count, NilVersion, NoMark
<1>1. Types
  <2>1. mark \in Marks /\ mark.dirty = FALSE /\ text \in [of : 1..Count, up : BOOLEAN]
    BY DEF Marks
  <2>2. schema \subseteq Objects /\ rows \subseteq Row
    OBVIOUS
  <2>3. faults \in 0..MaxFaults /\ rollbacks \in 0..MaxRollbacks /\ version \in NilVersion..Count
    OBVIOUS
  <2>4. dirty \in BOOLEAN /\ botched \in BOOLEAN
    OBVIOUS
  <2>5. at \in {"idle", "up", "truncate", "insert", "run"} /\ current \in 0..Count
    OBVIOUS
  <2>6. TypeOK
    BY <2>1, <2>2, <2>3, <2>4, <2>5 DEF TypeOK, Marks
  <2>7. ~dirty /\ ~mark.dirty /\ at # "insert"
    BY <2>1
  <2> QED
    BY <2>6, <2>7 DEF Types
<1>2. Level(0) /\ Shape
  BY Stages DEF Level, Shape
<1>3. Marked /\ Pending
  BY FitsNone DEF Marked, Pending
<1> QED
  BY <1>1, <1>2, <1>3 DEF IInv

\* Only tables of version 3 and later take candlesticks.
LEMMA ImportKeeps ==
    ASSUME IInv, NEW r \in Row, ImportCandlestick(r)
    PROVE  IInv' /\ rows \subseteq rows'
<1>1. /\ "start_time_product_idx" \in schema /\ rows' = rows \cup {r}
      /\ UNCHANGED <<schema, version, dirty, at, command, faults, rollbacks, botched>>
  BY DEF ImportCandlestick
<1>2. UNCHANGED <<mark, text, current>>
  BY <1>1 DEF command
<1>3. Types'
  BY <1>1, <1>2 DEF IInv, Types, TypeOK
<1>4. ~botched => Shape' /\ ~Level(1) /\ ~Level(2)
  BY <1>1, Levels DEF IInv, Shape, Level
<1>5. ASSUME ~botched, NEW v \in Int, Fits(v) PROVE Fits(v)'
  BY <1>1, <1>4, <1>5 DEF Fits, Level
<1>6. version \in Int /\ version - 1 \in Int /\ mark.version \in Int /\ text.of \in Int
      /\ text.of - 1 \in Int
  BY DEF IInv, Types, TypeOK, Count, NilVersion
<1>7. ~botched => Marked' /\ Pending'
  BY <1>1, <1>2, <1>5, <1>6 DEF IInv, Marked, Pending, ToRun, ToFinish, RollingBack
<1> QED
  BY <1>1, <1>3, <1>4, <1>7 DEF IInv

\* A command that fails either ends, or forces a version and is a botched rollback.
LEMMA Failing ==
    ASSUME IInv, FailedText, at \in {"truncate", "insert", "run"}
    PROVE  /\ at' \in {"truncate", "idle"} /\ mark' \in Marks
           /\ mark'.dirty => mark'.version \in {NilVersion} \cup 1..Count
           /\ botched' \in BOOLEAN
           /\ ~botched' => /\ ~botched /\ at' = "idle" /\ mark' = mark
                           /\ mark.error = "idle" /\ ~RollingBack
<1>1. /\ mark \in Marks /\ current \in 0..Count /\ botched \in BOOLEAN
      /\ mark.dirty => mark.version \in {NilVersion} \cup 1..Count
  BY DEF IInv, Types, TypeOK, Marks
<1>2. CASE mark.error = "force" /\ ForceVersion(current, "idle") /\ botched' = TRUE
  <2>1. /\ at' = "truncate"
        /\ mark' = [version |-> current, dirty |-> FALSE, then |-> "idle", error |-> "idle"]
    BY <1>2 DEF ForceVersion, SetVersion
  <2>2. current \in NilVersion..Count
    BY <1>1 DEF Count, NilVersion
  <2>3. mark' \in Marks /\ mark'.dirty = FALSE
    BY <2>1, <2>2 DEF Marks
  <2> QED
    BY <1>2, <2>1, <2>3
<1>3. CASE mark.error # "force" /\ Exit /\ UNCHANGED botched
  <2>1. mark.error = "idle" /\ at' = "idle" /\ mark' = mark
    BY <1>1, <1>3 DEF Exit, Marks
  <2>2. ~botched => mark.then # "idle"
    BY <1>1, <2>1 DEF IInv, Pending, ToRun, ToFinish
  <2> QED
    BY <1>1, <1>3, <2>1, <2>2 DEF RollingBack
<1>4. CASE mark.error = "force" /\ Exit /\ botched' = TRUE
  BY <1>1, <1>4 DEF Exit
<1> QED
  BY <1>2, <1>3, <1>4 DEF FailedText, Error

LEMMA Typed ==
    ASSUME IInv
    PROVE  /\ mark \in Marks /\ mark.version \in Int /\ version \in Int
           /\ text \in [of : 1..Count, up : BOOLEAN] /\ text.of \in 1..Count
           /\ text.up \in BOOLEAN /\ text.of \in Int /\ text.of - 1 \in Int
           /\ version - 1 \in Int
BY DEF IInv, Types, TypeOK, Marks, Count, NilVersion

\* SetVersion's first statement leaves no version to be wrong about.
LEMMA TruncateKeeps == ASSUME IInv, Truncate PROVE IInv' /\ rows' = rows
<1>1. /\ at = "truncate" /\ version' = NilVersion /\ dirty' = FALSE
      /\ at' = IF mark.version = NilVersion THEN mark.then ELSE "insert"
      /\ UNCHANGED <<schema, rows, mark, text, current, faults, rollbacks, botched>>
  BY DEF Truncate, command
<1>2. Types'
  <2>1. version' \in NilVersion..Count /\ at' \in {"up", "run", "idle", "insert"}
    BY <1>1, Typed DEF Marks, Count, NilVersion
  <2>2. at' = "insert" => mark.version # NilVersion
    BY <1>1, Typed DEF Marks
  <2> QED
    BY <1>1, <2>1, <2>2 DEF IInv, Types, TypeOK
<1>3. ASSUME ~botched PROVE Shape' /\ Marked' /\ Pending'
  <2>1. Shape /\ Pending
    BY <1>3 DEF IInv
  <2>2. Marked'
    BY <1>1, FitsNone DEF Marked, NilVersion
  <2>3. Pending'
    <3>1. CASE mark.then = "run"
      BY <1>1, <2>1, <3>1, FitsSame, Typed DEF Pending, ToRun
    <3>2. CASE mark.then # "run"
      <4>1. mark.then \in {"up", "idle"} /\ (mark.then = "up" => mark.error = "idle")
        BY <1>1, <2>1, <3>2, Typed DEF Marks, Pending, ToFinish
      <4> QED
        BY <1>1, <2>1, <3>2, <4>1, FitsSame, Typed DEF Pending, ToFinish
    <3> QED
      BY <3>1, <3>2
  <2> QED
    BY <1>1, <2>1, <2>2, <2>3, FitsSame
<1> QED
  BY <1>1, <1>2, <1>3 DEF IInv

\* The second one marks what fits.
LEMMA InsertKeeps == ASSUME IInv, Insert PROVE IInv' /\ rows' = rows
<1>1. /\ at = "insert" /\ version' = mark.version /\ dirty' = mark.dirty
      /\ at' = mark.then
      /\ UNCHANGED <<schema, rows, mark, text, current, faults, rollbacks, botched>>
  BY DEF Insert, command
<1>2. Types'
  BY <1>1, Typed DEF IInv, Types, TypeOK, Marks, Count, NilVersion
<1>3. ASSUME ~botched PROVE Shape' /\ Marked' /\ Pending'
  <2>1. Shape /\ Pending
    BY <1>3 DEF IInv
  <2>2. CASE mark.then = "run"
    <3>1. ToRun
      BY <1>1, <2>1, <2>2 DEF Pending
    <3>2. ToRun'
      BY <1>1, <3>1, FitsSame, Typed DEF ToRun
    <3>3. ~RollingBack => text.up
      BY <2>2, <3>1, Typed DEF RollingBack, ToRun
    <3>4. Marked'
      BY <1>1, <2>2, <3>1, <3>3, FitsSame, Typed DEF ToRun, Marked, RollingBack
    <3>5. mark.dirty
      BY <3>1 DEF ToRun
    <3> QED
      BY <1>1, <2>1, <2>2, <3>2, <3>4, <3>5, FitsSame DEF Pending
  <2>3. CASE mark.then # "run"
    <3>1. ToFinish /\ mark.then \in {"up", "idle"}
      BY <1>1, <2>1, <2>3, Typed DEF Marks, Pending
    <3>2. mark.then = "up" => mark.error = "idle"
      BY <3>1, Typed DEF ToFinish, Marks
    <3> QED
      BY <1>1, <2>1, <3>1, <3>2, FitsSame, Typed DEF ToFinish, Marked, Pending
  <2> QED
    BY <2>2, <2>3
<1> QED
  BY <1>1, <1>2, <1>3 DEF IInv

\* Either may have been executed when it fails.
LEMMA SetVersionFailsKeeps == ASSUME IInv, SetVersionFails PROVE IInv' /\ rows' = rows
<1>1. /\ at \in {"truncate", "insert"}
      /\ \/ UNCHANGED <<version, dirty>>
         \/ version' = NilVersion /\ dirty' = FALSE
         \/ at = "insert" /\ version' = mark.version /\ dirty' = mark.dirty
      /\ FailedText
      /\ UNCHANGED <<schema, rows, text, current, rollbacks>>
  BY DEF SetVersionFails, FailedText
<1>2. faults' \in 0..MaxFaults
  BY MigrationsAssumption DEF SetVersionFails, Fault, IInv, Types, TypeOK
<1>3. Types'
  <2>1. /\ version' \in NilVersion..Count /\ dirty' \in BOOLEAN
        /\ dirty' => version' \in 1..Count
    <3>1. /\ version \in NilVersion..Count /\ dirty \in BOOLEAN /\ mark.dirty \in BOOLEAN
          /\ mark.version \in NilVersion..Count
          /\ dirty => version \in 1..Count
          /\ mark.dirty => mark.version \in {NilVersion} \cup 1..Count
          /\ at = "insert" => mark.version # NilVersion
      BY Typed DEF IInv, Types, TypeOK, Marks
    <3>2. CASE UNCHANGED <<version, dirty>>
      BY <3>1, <3>2
    <3>3. CASE version' = NilVersion /\ dirty' = FALSE
      <4>1. dirty' \in BOOLEAN /\ ~dirty'
        BY <3>3
      <4>2. version' \in NilVersion..Count
        BY <3>3 DEF Count, NilVersion
      <4> QED
        BY <4>1, <4>2
    <3>4. CASE at = "insert" /\ version' = mark.version /\ dirty' = mark.dirty
      <4>1. dirty' \in BOOLEAN /\ (dirty' => mark.dirty)
        BY <3>1, <3>4
      <4>2. version' \in NilVersion..Count /\ (mark.dirty => version' \in 1..Count)
        BY <3>1, <3>4
      <4> QED
        BY <4>1, <4>2
    <3> QED
      BY <1>1, <3>2, <3>3, <3>4
  <2>2. /\ at' \in {"truncate", "idle"} /\ mark' \in Marks /\ botched' \in BOOLEAN
        /\ mark'.dirty => mark'.version \in {NilVersion} \cup 1..Count
    BY <1>1, Failing
  <2> QED
    BY <1>1, <1>2, <2>1, <2>2 DEF IInv, Types, TypeOK, Marks
<1>4. ASSUME ~botched' PROVE Shape' /\ Marked' /\ Pending'
  <2>1. /\ ~botched /\ at' = "idle" /\ mark' = mark /\ mark.error = "idle" /\ ~RollingBack
        /\ Shape /\ Marked /\ Pending
    BY <1>1, <1>4, Failing DEF IInv
  <2>2. Marked'
    <3>1. CASE UNCHANGED <<version, dirty>>
      BY <1>1, <2>1, <3>1, FitsSame, Typed DEF Marked
    <3>2. CASE version' = NilVersion /\ dirty' = FALSE
      BY <3>2, FitsNone DEF Marked, NilVersion
    <3>3. CASE at = "insert" /\ version' = mark.version /\ dirty' = mark.dirty
      <4>1. CASE mark.then = "run"
        <5>1. ToRun /\ text.up
          BY <2>1, <3>3, <4>1, Typed DEF Pending, ToRun
        <5> QED
          BY <1>1, <3>3, <5>1, FitsSame, Typed DEF ToRun, Marked
      <4>2. CASE mark.then # "run"
        BY <1>1, <2>1, <3>3, <4>2, FitsSame, Typed DEF Pending, ToFinish, Marked
      <4> QED
        BY <4>1, <4>2
    <3> QED
      BY <1>1, <3>1, <3>2, <3>3
  <2> QED
    BY <1>1, <2>1, <2>2, FitsSame DEF Pending
<1> QED
  BY <1>1, <1>3, <1>4 DEF IInv

\* What a text makes fits the version it is then marked with.
LEMMA RunKeeps ==
    ASSUME IInv, Run
    PROVE  IInv' /\ (~botched => rows \subseteq rows' \/ Unindexed)
<1>1. /\ at = "run" /\ Applies(Text) /\ Apply(Text) /\ at' = "truncate"
      /\ mark' = [version |-> mark.version, dirty |-> FALSE,
                  then |-> IF text.up THEN "up" ELSE "idle", error |-> mark.error]
      /\ UNCHANGED <<version, dirty, text, current, faults, rollbacks, botched>>
  BY DEF Run, CleanMark, SetVersion
<1>2. Types'
  BY <1>1, TextTypes, Typed DEF IInv, Types, TypeOK, Marks
<1>3. ASSUME ~botched
      PROVE  Shape' /\ Marked' /\ Pending' /\ (rows \subseteq rows' \/ Unindexed)
  <2>1. Types /\ Shape /\ ToRun
    BY <1>1, <1>3 DEF IInv, Pending, ToFinish
  <2>2. CASE text.up
    <3>1. Text = Up[text.of]
      BY <2>2 DEF Text
    <3>2. /\ Shape' /\ Fits(text.of)' /\ Fits(text.of - 1)'
          /\ rows \subseteq rows' \/ Unindexed
      BY <1>1, <2>1, <2>2, <3>1, UpApplies, Typed DEF ToRun
    <3>3. version = text.of /\ dirty /\ text.of # NilVersion
      BY <1>1, <1>3, <2>1, <2>2, Typed DEF IInv, Pending, ToRun, NilVersion, Count
    <3>4. Marked'
      BY <1>1, <3>2, <3>3, Typed DEF Marked
    <3>5. ToFinish'
      BY <1>1, <2>1, <2>2, <3>2 DEF ToRun, ToFinish
    <3> QED
      BY <1>1, <2>2, <3>2, <3>4, <3>5 DEF Pending
  <2>3. CASE ~text.up
    <3>1. Text = Down[text.of]
      BY <2>3 DEF Text
    <3>2. Shape' /\ Fits(text.of - 1)' /\ (rows \subseteq rows' \/ Unindexed)
      BY <1>1, <2>1, <2>3, <3>1, DownApplies, Typed DEF ToRun
    <3>3. RollingBack' /\ (~dirty => version = NilVersion)
      BY <1>1, <1>3, <2>1, <2>3 DEF IInv, Pending, ToRun, RollingBack
    <3>4. Marked'
      BY <1>1, <3>3, FitsNone DEF Marked, NilVersion
    <3>5. ToFinish'
      <4>1. Fits(mark.version)'
        BY <1>1, <2>1, <2>3, <3>2, FitsNone, Typed DEF ToRun, NilVersion
      <4> QED
        BY <1>1, <2>1, <2>3, <4>1 DEF ToRun, ToFinish
    <3> QED
      BY <1>1, <2>3, <3>2, <3>4, <3>5 DEF Pending
  <2> QED
    BY <2>2, <2>3
<1> QED
  BY <1>1, <1>2, <1>3 DEF IInv

\* A text that fails, or breaks off before or after its COMMIT.
LEMMA RunFailsKeeps ==
    ASSUME IInv, RunFails \/ RunBreaks
    PROVE  IInv' /\ (~botched => rows \subseteq rows' \/ Unindexed)
<1>1. /\ at = "run" /\ FailedText
      /\ \/ UNCHANGED <<schema, rows>>
         \/ Applies(Text) /\ Apply(Text)
      /\ UNCHANGED <<version, dirty, text, current, rollbacks>>
  BY DEF RunFails, RunBreaks, database
<1>2. faults' \in 0..MaxFaults
  BY MigrationsAssumption DEF RunFails, RunBreaks, Fault, IInv, Types, TypeOK
<1>3. Types'
  <2>1. /\ at' \in {"truncate", "idle"} /\ mark' \in Marks /\ botched' \in BOOLEAN
        /\ mark'.dirty => mark'.version \in {NilVersion} \cup 1..Count
    BY <1>1, Failing
  <2>2. schema' \subseteq Objects /\ rows' \subseteq Row
    BY <1>1, TextTypes DEF IInv, Types, TypeOK
  <2> QED
    BY <1>1, <1>2, <2>1, <2>2 DEF IInv, Types, TypeOK, Marks
<1>4. ASSUME ~botched, Applies(Text), Apply(Text)
      PROVE  /\ rows \subseteq rows' \/ Unindexed
             /\ text.up => Shape' /\ Fits(text.of - 1)'
  <2>1. Types /\ Shape /\ ToRun
    BY <1>1, <1>4 DEF IInv, Pending, ToFinish
  <2>2. CASE text.up
    <3>1. Text = Up[text.of]
      BY <2>2 DEF Text
    <3> QED
      BY <1>1, <1>4, <2>1, <2>2, <3>1, UpApplies, Typed DEF ToRun
  <2>3. CASE ~text.up
    <3>1. Text = Down[text.of]
      BY <2>3 DEF Text
    <3> QED
      BY <1>4, <2>1, <2>3, <3>1, DownApplies, Typed DEF ToRun
  <2> QED
    BY <2>2, <2>3
<1>5. ASSUME ~botched' PROVE Shape' /\ Marked' /\ Pending'
  <2>1. /\ ~botched /\ at' = "idle" /\ mark' = mark /\ mark.error = "idle" /\ ~RollingBack
        /\ Types /\ Shape /\ Marked /\ Pending
    BY <1>1, <1>5, Failing DEF IInv
  <2>2. ToRun /\ text.up
    BY <1>1, <2>1 DEF Pending, ToRun, ToFinish
  <2>3. version = text.of /\ dirty
    BY <1>1, <2>1, <2>2, Typed DEF Pending, ToRun, NilVersion, Count
  <2>4. Shape' /\ Fits(text.of - 1)'
    <3>1. CASE UNCHANGED <<schema, rows>>
      BY <1>1, <2>1, <2>2, <3>1, FitsSame, Typed DEF ToRun
    <3>2. CASE Applies(Text) /\ Apply(Text)
      BY <1>4, <2>1, <2>2, <3>2
    <3> QED
      BY <1>1, <3>1, <3>2
  <2>5. Marked'
    BY <1>1, <2>3, <2>4, Typed DEF Marked
  <2> QED
    BY <1>1, <2>1, <2>4, <2>5 DEF Pending
<1> QED
  BY <1>1, <1>3, <1>4, <1>5 DEF IInv

--------------------------------------------------------------------------------
(* The commands. *)

\* A dirty version of a migration is forced to the one before, which fits.
LEMMA MigrateKeeps == ASSUME IInv, Migrate PROVE IInv' /\ rows' = rows
<1>1. /\ at = "idle"
      /\ UNCHANGED <<schema, rows, version, dirty, text, current, faults, rollbacks, botched>>
  BY DEF Migrate, database
<1>2. CASE dirty
  <2>1. /\ version - 1 # 0 /\ at' = "truncate"
        /\ mark' = [version |-> version - 1, dirty |-> FALSE, then |-> "up",
                    error |-> "idle"]
    BY <1>2 DEF Migrate, ForceVersion, SetVersion, Forced
  <2>2. version - 1 \in NilVersion..Count
    BY <1>2 DEF IInv, Types, Count, NilVersion
  <2>3. mark' \in Marks /\ ~mark'.dirty
    BY <2>1, <2>2 DEF Marks
  <2>4. Types'
    BY <1>1, <2>1, <2>3 DEF IInv, Types, TypeOK, Marks
  <2>5. ASSUME ~botched PROVE Shape' /\ Marked' /\ Pending'
    <3>1. Shape /\ Marked /\ Fits(version - 1)
      BY <1>1, <1>2, <2>5 DEF IInv, Marked
    <3>2. Shape' /\ Fits(version - 1)'
      BY <1>1, <3>1, FitsSame, Typed
    <3>3. Marked'
      BY <1>1, <1>2, <3>2 DEF Marked
    <3>4. ToFinish'
      BY <1>1, <2>1, <3>2 DEF ToFinish
    <3> QED
      BY <2>1, <3>2, <3>3, <3>4 DEF Pending
  <2> QED
    BY <1>1, <2>4, <2>5 DEF IInv
<1>3. CASE ~dirty
  <2>1. at' = "up" /\ mark' = NoMark
    BY <1>3 DEF Migrate
  <2>2. NoMark \in Marks /\ ~NoMark.dirty /\ NoMark.then = "up" /\ NoMark.error = "idle"
    <3>1. NilVersion \in NilVersion..Count
      BY DEF NilVersion, Count
    <3> QED
      BY <3>1 DEF NoMark, Marks
  <2>3. Types'
    BY <1>1, <2>1, <2>2 DEF IInv, Types, TypeOK, Marks
  <2>4. ASSUME ~botched PROVE Shape' /\ Marked' /\ Pending'
    BY <1>1, <1>3, <2>1, <2>2, <2>4, FitsSame, Typed DEF IInv, Marked, Pending
  <2> QED
    BY <1>1, <2>3, <2>4 DEF IInv
<1> QED
  BY <1>2, <1>3

\* A migration is begun from the version before, or without one.
LEMMA NextUpKeeps == ASSUME IInv, NextUp PROVE IInv' /\ rows' = rows
<1> DEFINE first == IF version = NilVersion THEN FirstVersion ELSE NextVersion(version)
<1>1. /\ at = "up" /\ ~NothingUp
      /\ at' = "truncate"
      /\ mark' = [version |-> first, dirty |-> TRUE, then |-> "run", error |-> "idle"]
      /\ text' = [of |-> first, up |-> TRUE]
      /\ UNCHANGED <<schema, rows, version, dirty, current, faults, rollbacks, botched>>
  BY DEF NextUp, Begin, SetVersion, database
<1>2. /\ first \in 1..Count /\ ~dirty
      /\ first = 1 \/ version = first - 1
  <2>1. CASE version = NilVersion
    BY <1>1, <2>1 DEF NothingUp, FirstVersion, Count
  <2>2. CASE version # NilVersion
    <3>1. version \in 1..Count /\ NextVersion(version) # ErrNotExist
      BY <1>1, <2>2, Typed DEF NothingUp, Exists, Count
    <3>2. version < Count /\ NextVersion(version) = version + 1
      BY <3>1, Versions
    <3> QED
      BY <1>1, <2>2, <3>1, <3>2 DEF NothingUp, Count
  <2> QED
    BY <2>1, <2>2
<1> HIDE DEF first
<1>3. PICK v \in 1..Count :
         /\ v = 1 \/ version = v - 1
         /\ mark' = [version |-> v, dirty |-> TRUE, then |-> "run", error |-> "idle"]
         /\ text' = [of |-> v, up |-> TRUE]
  BY <1>1, <1>2
<1>4. Types'
  <2>1. mark' \in Marks /\ mark'.version \in 1..Count /\ text' \in [of : 1..Count, up : BOOLEAN]
    BY <1>3 DEF Marks, Count, NilVersion
  <2> QED
    BY <1>1, <2>1 DEF IInv, Types, TypeOK, Marks
<1>5. ASSUME ~botched PROVE Shape' /\ Marked' /\ Pending'
  <2>1. Shape /\ Fits(version)
    BY <1>2, <1>5 DEF IInv, Marked
  <2>2. Fits(v - 1)
    <3>1. CASE v = 1
      BY <3>1 DEF Fits
    <3>2. CASE version = v - 1
      BY <2>1, <3>2
    <3> QED
      BY <1>3, <3>1, <3>2
  <2>3. Shape' /\ Fits(version)' /\ Fits(v - 1)'
    BY <1>1, <2>1, <2>2, FitsSame, Typed DEF Count
  <2>4. Marked'
    BY <1>1, <1>2, <2>3 DEF Marked
  <2>5. ToRun'
    BY <1>3, <2>3 DEF ToRun
  <2> QED
    BY <1>1, <1>3, <2>3, <2>4, <2>5 DEF Pending
<1> QED
  BY <1>1, <1>4, <1>5 DEF IInv

\* Nothing is left to do.
LEMMA EndsKeep == ASSUME IInv, UpEnds PROVE IInv' /\ rows' = rows
<1>1. /\ at = "up" /\ at' = "idle"
      /\ UNCHANGED <<schema, rows, version, dirty, mark, text, current, faults, rollbacks,
                     botched>>
  BY DEF UpEnds, database, command
<1>2. Types'
  BY <1>1 DEF IInv, Types, TypeOK
<1>3. ASSUME ~botched PROVE Shape' /\ Marked' /\ Pending'
  <2>1. Shape /\ Marked /\ ~RollingBack
    BY <1>1, <1>3 DEF IInv, Pending, RollingBack
  <2> QED
    BY <1>1, <2>1, FitsSame, Typed DEF Marked, Pending
<1> QED
  BY <1>1, <1>2, <1>3 DEF IInv

\* A rollback begins at a clean version, which fits.
LEMMA RollbackOneKeeps == ASSUME IInv, RollbackOne PROVE IInv' /\ rows' = rows
<1> DEFINE target == IF version = 1 THEN NilVersion ELSE version - 1
<1>1. /\ at = "idle" /\ ~dirty /\ version \in 1..Count
      /\ current' = version /\ rollbacks' \in 0..MaxRollbacks
      /\ UNCHANGED <<schema, rows, version, dirty, faults, botched>>
  BY MigrationsAssumption, Typed
     DEF RollbackOne, Rollback, Exists, IInv, Types, TypeOK, database, Count
<1>2. /\ at' = "truncate"
      /\ mark' = [version |-> target, dirty |-> TRUE, then |-> "run", error |-> "force"]
      /\ text' = [of |-> version, up |-> FALSE]
  <2>1. PrevVersion(version) = ErrNotExist <=> version = 1
    BY <1>1, Versions DEF ErrNotExist, Count
  <2> QED
    BY <1>1, <2>1, Versions DEF RollbackOne, Begin, SetVersion, FirstVersion
<1>3. target \in {NilVersion} \cup 1..Count
  BY <1>1 DEF Count
<1> HIDE DEF target
<1>4. Types'
  <2>1. /\ mark' \in Marks /\ mark'.version \in {NilVersion} \cup 1..Count
        /\ text' \in [of : 1..Count, up : BOOLEAN]
    BY <1>1, <1>2, <1>3 DEF Marks, Count, NilVersion
  <2>2. current' \in 0..Count
    BY <1>1 DEF Count
  <2> QED
    BY <1>1, <1>2, <2>1, <2>2 DEF IInv, Types, TypeOK, Marks
<1>5. ASSUME ~botched PROVE Shape' /\ Marked' /\ Pending'
  <2>1. Shape' /\ Fits(version)'
    BY <1>1, <1>5, FitsSame, Typed DEF IInv, Marked
  <2>2. Marked'
    BY <1>1, <2>1 DEF Marked
  <2>3. ToRun'
    BY <1>1, <1>2, <2>1 DEF ToRun, target
  <2> QED
    BY <1>2, <2>1, <2>2, <2>3 DEF Pending
<1> QED
  BY <1>1, <1>4, <1>5 DEF IInv

\* One that is refused, or killed, is botched.
LEMMA RefusedKeeps == ASSUME IInv, RollbackRefused PROVE IInv' /\ rows' = rows
<1>1. /\ botched' = TRUE /\ at' = "truncate"
      /\ mark' = [version |-> current', dirty |-> FALSE, then |-> "idle", error |-> "idle"]
      /\ rollbacks' \in 0..MaxRollbacks
      /\ UNCHANGED <<schema, rows, version, dirty, text, faults>>
  BY MigrationsAssumption
     DEF RollbackRefused, Rollback, ForceVersion, SetVersion, IInv, Types, TypeOK, database
<1>2. current' \in 0..Count
  BY DEF RollbackRefused, Rollback, IInv, Types, TypeOK, Count, NilVersion
<1>3. mark' \in Marks /\ ~mark'.dirty
  <2>1. current' \in NilVersion..Count
    BY <1>2 DEF NilVersion, Count
  <2> QED
    BY <1>1, <2>1 DEF Marks
<1>4. Types'
  BY <1>1, <1>2, <1>3 DEF IInv, Types, TypeOK, Marks
<1> QED
  BY <1>1, <1>4 DEF IInv

LEMMA CrashKeeps == ASSUME IInv, Crash PROVE IInv' /\ rows' = rows
<1>1. /\ at' = "idle" /\ at # "idle" /\ botched' = (botched \/ RollingBack)
      /\ UNCHANGED <<schema, rows, version, dirty, mark, text, current, rollbacks>>
  BY DEF Crash, database, command
<1>2. faults' \in 0..MaxFaults
  BY MigrationsAssumption DEF Crash, Fault, IInv, Types, TypeOK
<1>3. Types'
  <2>1. botched' \in BOOLEAN
    BY <1>1
  <2> QED
    BY <1>1, <1>2, <2>1 DEF IInv, Types, TypeOK
<1>4. ASSUME ~botched' PROVE Shape' /\ Marked' /\ Pending'
  <2>1. Shape /\ Marked /\ ~RollingBack
    BY <1>1, <1>4 DEF IInv
  <2> QED
    BY <1>1, <2>1, FitsSame, Typed DEF Marked, Pending
<1> QED
  BY <1>1, <1>3, <1>4 DEF IInv

LEMMA NextIInv ==
    ASSUME IInv, [Next]_vars
    PROVE  IInv' /\ (~botched => rows \subseteq rows' \/ Unindexed)
<1>1. CASE \E r \in Row : ImportCandlestick(r)
  BY <1>1, ImportKeeps
<1>2. CASE Migrate \/ NextUp \/ UpEnds \/ Truncate \/ Insert
  BY <1>2, MigrateKeeps, NextUpKeeps, EndsKeep, TruncateKeeps, InsertKeeps
<1>3. CASE Run
  BY <1>3, RunKeeps DEF Run
<1>4. CASE RunFails \/ RunBreaks
  BY <1>4, RunFailsKeeps
<1>5. CASE RollbackOne \/ RollbackRefused \/ SetVersionFails \/ Crash
  BY <1>5, RollbackOneKeeps, RefusedKeeps, SetVersionFailsKeeps, CrashKeeps
<1>6. CASE UNCHANGED vars
  <2>1. UNCHANGED <<schema, rows, version, dirty, at, mark, text, current, faults,
                    rollbacks, botched>>
    BY <1>6 DEF vars, database, command
  <2> QED
    BY <2>1 DEF IInv, Types, TypeOK, Shape, Level, Fits, Marked, RollingBack, Pending,
       ToRun, ToFinish
<1> QED
  BY <1>1, <1>2, <1>3, <1>4, <1>5, <1>6 DEF Next, MigrateStep, MigratePanics

--------------------------------------------------------------------------------
(* The theorems. *)

\* Every variable keeps its type (cli.go:604-694, migrations.go:16-214).
THEOREM TypeCorrect == Spec => []TypeOK
<1>1. IInv => TypeOK
  BY DEF IInv, Types
<1> QED
  BY InitIInv, NextIInv, <1>1, PTL DEF Spec

\* A clean version promises no more than there is, whatever fails or dies in
\* migrate and however often, as long as every rollback ends well
\* (cli.go:626-645).
THEOREM NeverAhead == Spec => []VersionNeverAhead
<1>1. IInv => VersionNeverAhead
  <2> SUFFICES ASSUME IInv, ~botched, ~dirty, version >= 1
               PROVE  Stage(version) \subseteq schema \/ Stage(version + 1) \subseteq schema
    BY DEF VersionNeverAhead
  <2>1. version \in 1..Count /\ Fits(version)
    BY DEF IInv, Types, TypeOK, Marked, Count, NilVersion
  <2>2. CASE version = 1
    BY <2>1, <2>2, Levels, Stages DEF Fits
  <2>3. CASE version = 2
    BY <2>1, <2>3, Levels, Stages DEF Fits
  <2>4. CASE version = 3
    BY <2>1, <2>4, Levels DEF Fits
  <2>5. CASE version = 4
    BY <2>1, <2>5, Levels, Stages DEF Fits
  <2> QED
    BY <2>1, <2>2, <2>3, <2>4, <2>5 DEF Count
<1> QED
  BY InitIInv, NextIInv, <1>1, PTL DEF Spec

\* No retried, interrupted or repeated migrate, and no rollback that ends well but
\* that of migration 1, takes a candlestick (migrations.go:35-44, cli.go:626-645).
THEOREM RowsKept == Spec => RowsSurvive
<1>1. IInv /\ [Next]_vars => (~botched => rows \subseteq rows' \/ Unindexed)
  BY NextIInv
<1> QED
  BY InitIInv, NextIInv, <1>1, PTL DEF Spec, RowsSurvive

================================================================================
