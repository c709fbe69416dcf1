------------------------------- MODULE Migrations -------------------------------
(******************************************************************************)
(* The commands `migrate` and `rollback` (cli.go) over the migrations that    *)
(* are part of the program (migrations.go): the schema and the candlesticks   *)
(* on one side, the row of schema_migrations that says how far the schema is  *)
(* on the other, and the steps of a command between which it may fail or die. *)
(*                                                                            *)
(* A migration's text is one transaction.  SetVersion of the migrate library  *)
(* is not: it truncates schema_migrations and inserts the row on connections  *)
(* of the pool that are not its transaction's, so each of the two commits by  *)
(* itself.  The advisory lock keeps commands apart; the importer goes on      *)
(* while they run, as it does beside the hook of the Helm chart.              *)
(******************************************************************************)
EXTENDS Integers, FiniteSets

CONSTANTS
    Times,        \* start times of candlesticks
    Products,     \* products of candlesticks
    UintSize,     \* bound: Go's uint counts modulo 2^64
    FaultKinds,   \* which of "crash", "write" and "run" may happen
    MaxFaults,    \* bound: faults in one behaviour
    MaxRollbacks  \* bound: rollbacks in one behaviour

\* The number of migrations; 0 and NilVersion are no migration.
Count == 4
NilVersion == -1

ASSUME MigrationsAssumption ==
    /\ UintSize \in Nat /\ UintSize > Count + 1
    /\ FaultKinds \subseteq {"crash", "write", "run"}
    /\ MaxFaults \in Nat
    /\ MaxRollbacks \in Nat

VARIABLES
    schema,     \* the objects there are, but for schema_migrations
    rows,       \* candlesticks table
    version,    \* schema_migrations: its version, NilVersion if it has no row
    dirty,      \* schema_migrations: its dirty flag
    at,         \* the call the command is about to make, "idle" without one
    mark,       \* SetVersion's arguments, what follows it, and what its error
    text,       \* the migration being applied and its direction
    current,    \* rollback's currentVersion
    faults,     \* faults so far
    rollbacks,  \* rollbacks so far
    botched     \* history: some rollback ended with an error or a crash

database == <<schema, rows, version, dirty>>
command == <<mark, text, current>>
vars == <<database, at, command, faults, rollbacks, botched>>

--------------------------------------------------------------------------------
(* The migrations: what each text creates and drops. *)

OnCandlesticks == {"start_time_idx", "start_time_product_idx", "created_at",
                   "updated_at", "pkey"}
Objects == {"candlesticks", "trading_strategies", "market_orders"}
               \cup OnCandlesticks

Version3 == {"trading_strategies", "market_orders", "start_time_product_idx",
             "created_at", "updated_at"}

Up == <<[creates |-> {"candlesticks"}, drops |-> {}, truncates |-> FALSE],
        [creates |-> {"start_time_idx"}, drops |-> {}, truncates |-> TRUE],
        [creates |-> Version3, drops |-> {"start_time_idx"}, truncates |-> FALSE],
        [creates |-> {"pkey"}, drops |-> {}, truncates |-> FALSE]>>

Down == <<[creates |-> {}, drops |-> {"candlesticks"}, truncates |-> FALSE],
          [creates |-> {}, drops |-> {"start_time_idx"}, truncates |-> FALSE],
          [creates |-> {"start_time_idx"}, drops |-> Version3, truncates |-> FALSE],
          [creates |-> {}, drops |-> {"pkey"}, truncates |-> FALSE]>>

\* The text being applied.
Text == IF text.up THEN Up[text.of] ELSE Down[text.of]

\* Each text but the first works on the table; a unique index on start_time
\* needs one product only at every time.
Applies(t) ==
    /\ t.creates \cap schema = {}
    /\ t.drops \subseteq schema
    /\ "candlesticks" \in schema \cup t.creates
    /\ "start_time_idx" \in t.creates =>
          t.truncates \/ \A r, q \in rows : r.time = q.time => r = q

\* Dropping a table drops what is on it.
Left(t) ==
    LET kept == schema \ t.drops IN
    IF "candlesticks" \in kept THEN kept ELSE kept \ OnCandlesticks

Apply(t) ==
    /\ schema' = Left(t) \cup t.creates
    /\ rows' = IF t.truncates \/ "candlesticks" \notin Left(t) THEN {} ELSE rows

\* CodeMigrations' source.Driver.
Exists(v) == ~(v >= Count + 1 \/ v < 1)
ErrNotExist == 0
FirstVersion == 1
PrevVersion(v) == LET p == (v - 1) % UintSize IN IF Exists(p) THEN p ELSE ErrNotExist
\* (altered: a migration short)
NextVersionShort(v) ==
    LET n == (v + 1) % UintSize IN IF Exists(n + 1) THEN n ELSE ErrNotExist
NextVersion(v) == LET n == (v + 1) % UintSize IN IF Exists(n) THEN n ELSE ErrNotExist

--------------------------------------------------------------------------------
Row == [time : Times, product : Products]

TypeOK ==
    /\ schema \subseteq Objects
    /\ rows \subseteq Row
    /\ version \in NilVersion..Count
    /\ dirty \in BOOLEAN
    /\ at \in {"idle", "up", "truncate", "insert", "run"}
    /\ mark \in [version : NilVersion..Count, dirty : BOOLEAN,
                 then : {"up", "run", "idle"}, error : {"idle", "force"}]
    /\ text \in [of : 1..Count, up : BOOLEAN]
    /\ current \in 0..Count
    /\ faults \in 0..MaxFaults
    /\ rollbacks \in 0..MaxRollbacks
    /\ botched \in BOOLEAN

NoMark == [version |-> NilVersion, dirty |-> FALSE, then |-> "up",
           error |-> "idle"]

\* A new database, as the driver of the migrate library leaves it.
Init ==
    /\ schema = {}
    /\ rows = {}
    /\ version = NilVersion
    /\ dirty = FALSE
    /\ at = "idle"
    /\ mark = NoMark
    /\ text = [of |-> 1, up |-> TRUE]
    /\ current = 0
    /\ faults = 0
    /\ rollbacks = 0
    /\ botched = FALSE

Fault(kind) ==
    /\ kind \in FaultKinds
    /\ faults < MaxFaults
    /\ faults' = faults + 1

\* UpsertCandlestick needs the columns it writes and the index its ON CONFLICT
\* clause names.
ImportCandlestick(r) ==
    /\ {"candlesticks", "start_time_product_idx", "created_at", "updated_at"}
           \subseteq schema
    /\ rows' = rows \cup {r}
    /\ r \notin rows
    /\ UNCHANGED <<schema, version, dirty, at, command, faults, rollbacks,
                   botched>>

--------------------------------------------------------------------------------
(* The migrate library: SetVersion, Run, Force and the loop of runMigrations. *)

SetVersion(v, d, then, error) ==
    /\ at' = "truncate"
    /\ mark' = [version |-> v, dirty |-> d, then |-> then, error |-> error]

\* A library call of the command returns an error: migrate exits, rollback
\* forces the version it read at first.
Exit == at' = "idle" /\ UNCHANGED mark
ForceVersion(v, then) == SetVersion(v, FALSE, then, "idle")

Error ==
    IF mark.error = "force"
    THEN ForceVersion(current, "idle") /\ botched' = TRUE
    ELSE Exit /\ UNCHANGED botched

\* SetVersion's TRUNCATE.
Truncate ==
    /\ at = "truncate"
    /\ version' = NilVersion
    /\ dirty' = FALSE
    /\ at' = IF mark.version = NilVersion THEN mark.then ELSE "insert"
    /\ UNCHANGED <<schema, rows, command, faults, rollbacks, botched>>

\* SetVersion's INSERT.
Insert ==
    /\ at = "insert"
    /\ version' = mark.version
    /\ dirty' = mark.dirty
    /\ at' = mark.then
    /\ UNCHANGED <<schema, rows, command, faults, rollbacks, botched>>

\* SetVersion returns an error, of a statement that was executed or was not.
SetVersionFails ==
    /\ Fault("write")
    /\ \/ at = "truncate" /\ UNCHANGED <<version, dirty>>
       \/ at = "truncate" /\ version' = NilVersion /\ dirty' = FALSE
       \/ at = "insert" /\ UNCHANGED <<version, dirty>>
       \/ at = "insert" /\ version' = mark.version /\ dirty' = mark.dirty
    /\ Error
    /\ UNCHANGED <<schema, rows, text, current, rollbacks>>

\* Apply a migration: mark its target dirty, run its text, mark it clean.
Begin(v, up, target, error) ==
    /\ SetVersion(target, TRUE, "run", error)
    /\ text' = [of |-> v, up |-> up]

CleanMark ==
    SetVersion(mark.version, FALSE, IF text.up THEN "up" ELSE "idle", mark.error)

Run ==
    /\ at = "run"
    /\ Applies(Text)
    /\ Apply(Text)
    /\ CleanMark
    /\ UNCHANGED <<version, dirty, text, current, faults, rollbacks, botched>>

\* The text fails and its transaction is rolled back, but the connection it ran
\* on stays in that transaction: Force works only if it gets another one.
FailedText ==
    \/ Error
    \/ mark.error = "force" /\ Exit /\ botched' = TRUE

RunFails ==
    /\ at = "run"
    /\ ~Applies(Text)
    /\ FailedText
    /\ UNCHANGED <<database, text, current, faults, rollbacks>>

\* Run fails for a reason of the database or the network: with its text rolled
\* back, or with the answer to its COMMIT lost.
RunBreaks ==
    /\ at = "run"
    /\ Applies(Text)
    /\ Fault("run")
    /\ \/ UNCHANGED <<schema, rows>>
       \/ Apply(Text)
    /\ FailedText
    /\ UNCHANGED <<version, dirty, text, current, rollbacks>>

--------------------------------------------------------------------------------
(* The command migrate. *)

\* (altered: forces the version that is dirty)
ForcedItself == version

\* (altered: forces the one before the one before)
ForcedTwoBack == version - 2

Forced == version - 1

\* A dirty version is forced back to the one before; the first has none, which
\* is a panic.
Migrate ==
    /\ at = "idle"
    /\ IF dirty
       THEN /\ version - 1 # 0
            /\ ForceVersion(Forced, "up")
       ELSE at' = "up" /\ mark' = NoMark
    /\ UNCHANGED <<database, text, current, faults, rollbacks, botched>>

MigratePanics ==
    /\ at = "idle"
    /\ dirty /\ version - 1 = 0
    /\ UNCHANGED vars

\* ErrDirty, a version that does not exist (0), or the newest.
NothingUp ==
    \/ dirty
    \/ version # NilVersion /\ ~Exists(version)
    \/ version # NilVersion /\ NextVersion(version) = ErrNotExist

\* Up: readUp's next migration, from the version that was marked last.
NextUp ==
    /\ at = "up"
    /\ ~NothingUp
    /\ LET v == IF version = NilVersion THEN FirstVersion ELSE NextVersion(version)
       IN Begin(v, TRUE, v, "idle")
    /\ UNCHANGED <<database, current, faults, rollbacks, botched>>

UpEnds ==
    /\ at = "up"
    /\ NothingUp
    /\ at' = "idle"
    /\ UNCHANGED <<database, command, faults, rollbacks, botched>>

--------------------------------------------------------------------------------
(* The command rollback. *)

RollingBack == mark.error = "force" \/ mark.then = "idle"

Rollback ==
    /\ at = "idle"
    /\ rollbacks < MaxRollbacks
    /\ rollbacks' = rollbacks + 1
    /\ current' = IF version = NilVersion THEN 0 ELSE version

\* Steps(-1): readDown's one migration.
RollbackOne ==
    /\ Rollback
    /\ ~dirty
    /\ version # NilVersion /\ Exists(version)
    /\ IF PrevVersion(version) = ErrNotExist
       THEN Begin(FirstVersion, FALSE, NilVersion, "force")
       ELSE Begin(version, FALSE, PrevVersion(version), "force")
    /\ UNCHANGED <<database, faults, botched>>

\* ErrDirty, or no migration to roll back: Force all the same.
RollbackRefused ==
    /\ Rollback
    /\ dirty \/ version = NilVersion \/ ~Exists(version)
    /\ ForceVersion(current', "idle")
    /\ botched' = TRUE
    /\ UNCHANGED <<database, text, faults>>

\* The process dies, or the hook's Job is killed at its deadline.
Crash ==
    /\ Fault("crash")
    /\ at # "idle"
    /\ at' = "idle"
    /\ botched' = (botched \/ RollingBack)
    /\ UNCHANGED <<database, command, rollbacks>>

--------------------------------------------------------------------------------
MigrateStep ==
    \/ Migrate \/ NextUp \/ UpEnds
    \/ Truncate \/ Insert \/ Run \/ RunFails

Next ==
    \/ \E r \in Row : ImportCandlestick(r)
    \/ MigrateStep
    \/ MigratePanics
    \/ RollbackOne
    \/ RollbackRefused
    \/ SetVersionFails
    \/ RunBreaks
    \/ Crash

Spec == Init /\ [][Next]_vars

\* The hook runs migrate after every installation and upgrade.
FairSpec == Spec /\ WF_vars(MigrateStep)

--------------------------------------------------------------------------------
(* What the migrations promise. *)

\* The schema of each version, as the programs of that version expect it.
Stage(v) ==
    CASE v < 1 -> {}
      [] v = 1 -> {"candlesticks"}
      [] v = 2 -> {"candlesticks", "start_time_idx"}
      [] v = 3 -> {"candlesticks"} \cup Version3
      [] v > 3 -> {"candlesticks", "pkey"} \cup Version3

\* A version that is marked clean never promises more than there is, whatever
\* fails or dies in migrate, as long as every rollback ended well: all of the
\* version's schema, or that of the next, whose text was applied and not marked
\* (cli.go:626-645, SetVersion around Run).
VersionNeverAhead ==
    ~botched /\ ~dirty /\ version >= 1 =>
        Stage(version) \subseteq schema \/ Stage(version + 1) \subseteq schema

\* The table as migration 1 made it, which no importer of this code can fill.
Unindexed == schema \cap {"start_time_idx", "start_time_product_idx"} = {}

\* The TRUNCATE of migration 2 meets only the table migration 1 made: a retried,
\* interrupted or repeated migrate never empties the table of later versions,
\* and no rollback that ends well but that of migration 1 takes a candlestick
\* (migrations.go:35-44, cli.go:626-645).
RowsSurvive ==
    [][~botched => rows \subseteq rows' \/ Unindexed]_vars

\* schema_migrations tells migrate where to go on: a version whose schema there
\* is, or a dirty one, but the first, whose text was rolled back.
Retryable ==
    \/ version = NilVersion /\ schema = {}
    \/ ~dirty /\ version >= 1 /\ schema = Stage(version)
    \/ dirty /\ version >= 2 /\ schema = Stage(version - 1)

\* Once faults and rollbacks cease, migrate gets a database it can go on with to
\* the newest version (cli.go:626-645).  No other is promised to get there: one
\* whose version was lost between SetVersion's statements, or that was applied
\* and not marked, fails for ever on what is already there.
MigrateRecovers ==
    <>[](at = "idle" /\ Retryable => version = Count)

\* cli.go:674, "rolling back the last migration": no other migration is undone
\* or done again, so no command takes the candlesticks but the rollback of the
\* first.
RowsAlwaysSurvive == [][rows \subseteq rows' \/ Unindexed]_vars

================================================================================
