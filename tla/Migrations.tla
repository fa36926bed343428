----------------------------- MODULE Migrations -----------------------------
(****************************************************************************)
(* Schema migrations: brokers and the command `migrate` open one database   *)
(* file, detect a file of release 0.1.x, and bring it to the version of     *)
(* their package (infrastructure/migrations.py, persistence.py, cli.py).    *)
(*                                                                          *)
(* A statement outside a transaction and a transaction are one step each;   *)
(* between any two steps other processes run, or this one crashes.          *)
(*                                                                          *)
(* What SQLite does to rows and locks is part of the model:                 *)
(*  - Persistence connects with foreign_keys = ON, and then DROP TABLE      *)
(*    deletes the rows first, with the actions of the foreign keys on them. *)
(*    defer_foreign_keys defers checks, not actions.  The command connects  *)
(*    with Python's defaults: without foreign keys, and with a transaction  *)
(*    that the first INSERT opens by itself.                                *)
(*  - Nobody waits longer for the write lock than its timeout.              *)
(*                                                                          *)
(* Abstractions.                                                            *)
(*  - Of the nine tables of v1 the six that a later step looks at.          *)
(*    idempotency_keys refers to orders exactly as trades does.             *)
(*  - The rows are one order, the richest there is, and its trades.         *)
(****************************************************************************)
EXTENDS Integers, Sequences

CONSTANTS
  Brokers,    \* processes that open the file through Persistence
  Clis,       \* processes that run the command `migrate`
  Packages,   \* the versions their packages may know, within 1..4
  Files       \* the tables that a file without versions may hold

VARIABLES
  tables,     \* the tables of v1 in the file
  altered,    \* what v2, v3 and v4 changed or added
  stamped,    \* the rows of schema_version
  order,      \* the columns that an order uses: "none" is no order at all
  trades,     \* whether that order still has its trades
  target,     \* current_version() of each process
  pc,         \* where each process is
  at          \* the statement or the migration it is at

file == <<tables, altered, stamped, order, trades>>
vars == <<tables, altered, stamped, order, trades, target, pc, at>>

Openers == Brokers \cup Clis

\* The statements of v1, in their order; the first two are what the detector
\* of legacy files looks for.
V1Tables == <<"account", "positions", "orders", "trades", "symbols",
              "corporate_actions">>
V1 == {V1Tables[i] : i \in 1..6}

Versions == 1..4

\* What each migration leaves in the file beyond the tables of v1.
Adds == [v \in Versions |->
  IF v = 2 THEN {"symbols", "orders", "settlements"}
  ELSE IF v = 3 THEN {"corporate_actions"}
  ELSE IF v = 4 THEN {"watchlist"}
  ELSE {}]

ASSUME MigrationsAssumption ==
  /\ Packages \subseteq Versions
  /\ Files \subseteq SUBSET V1
  /\ Brokers \cap Clis = {}

\* applied_version: MAX(version), or 0.
Applied == CHOOSE v \in 0..4 :
  /\ v = 0 \/ v \in stamped
  /\ \A u \in stamped : u <= v

LooksLegacy == {"account", "positions"} \subseteq tables

Goto(c, label) == pc' = [pc EXCEPT ![c] = label]

\* An unversioned file: a new one, or one of release 0.1.x with its rows.
Init ==
  /\ tables \in Files /\ altered = {} /\ stamped = {}
  /\ order \in (IF "orders" \in tables THEN {"none", "plain"} ELSE {"none"})
  /\ trades \in (IF order = "plain" /\ "trades" \in tables
                 THEN BOOLEAN ELSE {FALSE})
  /\ target \in [Openers -> Packages]
  /\ pc = [c \in Openers |-> "new"]
  /\ at = [c \in Openers |-> 0]

-----------------------------------------------------------------------------
(* run_migrations *)

\* The version table is there; is any version in it?  The command looks first
\* whether there is anything to do.
Open(c) ==
  /\ pc[c] = "new"
  /\ Goto(c, IF c \in Clis /\ Applied = target[c] THEN "done"
             ELSE IF Applied = 0 THEN "detect" ELSE "check")
  /\ UNCHANGED <<file, target, at>>

\* Mutant of Detect: a legacy file is stamped without v1 being run on it.
DetectWithoutBackfill(c) ==
  /\ pc[c] = "detect"
  /\ Goto(c, IF LooksLegacy THEN "stamp" ELSE "check")
  /\ at' = [at EXCEPT ![c] = 1]
  /\ UNCHANGED <<file, target>>

\* Mutant of Detect: the stamp comes before the tables.
DetectStampsFirst(c) ==
  /\ pc[c] = "detect"
  /\ Goto(c, IF LooksLegacy THEN "backfill" ELSE "check")
  /\ stamped' = IF LooksLegacy THEN stamped \cup {1} ELSE stamped
  /\ at' = [at EXCEPT ![c] = 1]
  /\ UNCHANGED <<tables, altered, order, trades, target>>

\* The detector of files of release 0.1.x.
Detect(c) ==
  /\ pc[c] = "detect"
  /\ Goto(c, IF LooksLegacy THEN "backfill" ELSE "check")
  /\ at' = [at EXCEPT ![c] = 1]
  /\ UNCHANGED <<file, target>>

\* The next CREATE TABLE IF NOT EXISTS of v1, committed by itself.
Backfill(c) ==
  /\ pc[c] = "backfill"
  /\ tables' = tables \cup {V1Tables[at[c]]}
  /\ IF at[c] < 6
     THEN at' = [at EXCEPT ![c] = @ + 1] /\ UNCHANGED pc
     ELSE Goto(c, "stamp") /\ UNCHANGED at
  /\ UNCHANGED <<altered, stamped, order, trades, target>>

\* The legacy file becomes version 1.
StampLegacy(c) ==
  /\ pc[c] = "stamp" /\ c \in Brokers
  /\ stamped' = stamped \cup {1}
  /\ Goto(c, "check")
  /\ UNCHANGED <<tables, altered, order, trades, target, at>>

\* In the command the INSERT of the stamp opens a transaction.  A migration
\* after it cannot BEGIN, and closing the connection rolls the stamp back.
StampNested(c) ==
  /\ pc[c] = "stamp" /\ c \in Clis
  /\ LET seen == IF Applied = 0 THEN 1 ELSE Applied IN
     Goto(c, IF seen < target[c] THEN "failed"
             ELSE IF seen > target[c] THEN "refused" ELSE "done")
  /\ UNCHANGED <<file, target, at>>

Finished(c) == IF c \in Brokers THEN "ready" ELSE "done"

\* Refuse a newer file; otherwise fix the list of pending migrations.
Check(c) ==
  /\ pc[c] = "check"
  /\ \/ Applied > target[c] /\ Goto(c, "refused") /\ UNCHANGED at
     \/ Applied = target[c] /\ Goto(c, Finished(c)) /\ UNCHANGED at
     \/ /\ Applied < target[c] /\ Goto(c, "migrate")
        /\ at' = [at EXCEPT ![c] = Applied + 1]
  /\ UNCHANGED <<file, target>>

\* Mutant of Possible: a column that is there already is no error.
PossibleTwice(v) ==
  /\ v = 2 => {"symbols", "orders"} \subseteq tables
  /\ v = 3 => "corporate_actions" \in tables

\* Whether migration v runs through: v2 adds columns to symbols, which fails
\* when they are there, and it and v3 rebuild tables that must exist.
Possible(v) ==
  /\ v = 2 => {"symbols", "orders"} \subseteq tables /\ "symbols" \notin altered
  /\ v = 3 => "corporate_actions" \in tables

\* The next pending migration and its stamp, in one transaction.  v2 copies
\* the columns of v1 to a new table orders and drops the old one.
Migrate(c) ==
  /\ pc[c] = "migrate" /\ Possible(at[c])
  /\ stamped' = stamped \cup {at[c]}
  /\ tables' = IF at[c] = 1 THEN tables \cup V1 ELSE tables
  /\ altered' = altered \cup Adds[at[c]]
  /\ order' = IF at[c] = 2 /\ order # "none" THEN "plain" ELSE order
  /\ trades' = IF at[c] = 2 /\ c \in Brokers THEN FALSE ELSE trades
  /\ IF at[c] < target[c]
     THEN at' = [at EXCEPT ![c] = @ + 1] /\ UNCHANGED pc
     ELSE Goto(c, Finished(c)) /\ UNCHANGED at
  /\ UNCHANGED target

\* The migration raises and is rolled back; the broker is not opened.
MigrationFails(c) ==
  /\ pc[c] = "migrate" /\ ~Possible(at[c])
  /\ Goto(c, "failed")
  /\ UNCHANGED <<file, target, at>>

\* An open broker places and fills an order with the columns it knows.
Place(c) ==
  /\ pc[c] = "ready"
  /\ order' = IF target[c] >= 2 THEN "extended"
              ELSE IF order = "none" THEN "plain" ELSE order
  /\ trades' = TRUE
  /\ UNCHANGED <<tables, altered, stamped, target, pc, at>>

\* The process ends, or crashes, and starts again, with any package.
Restart(c, v) ==
  /\ pc[c] # "new"
  /\ Goto(c, "new")
  /\ target' = [target EXCEPT ![c] = v]
  /\ at' = [at EXCEPT ![c] = 0]
  /\ UNCHANGED file

Next ==
  \E c \in Openers :
    \/ Open(c) \/ Detect(c) \/ Backfill(c) \/ StampLegacy(c) \/ StampNested(c)
    \/ Check(c) \/ Migrate(c) \/ MigrationFails(c) \/ Place(c)
    \/ \E v \in Packages : Restart(c, v)

Spec == Init /\ [][Next]_vars

-----------------------------------------------------------------------------
(* Properties *)

Labels == {"new", "detect", "backfill", "stamp", "check", "migrate", "ready",
           "done", "failed", "refused"}

TypeOK ==
  /\ tables \subseteq V1
  /\ altered \subseteq UNION {Adds[v] : v \in Versions}
  /\ stamped \subseteq Versions
  /\ order \in {"none", "plain", "extended"}
  /\ trades \in BOOLEAN
  /\ target \in [Openers -> Packages]
  /\ pc \in [Openers -> Labels]
  /\ at \in [Openers -> 0..6]

\* Everything that migration v does is in the file.
Done(v) == Adds[v] \subseteq altered /\ (v = 1 => V1 \subseteq tables)

\* "The package refuses to continue at a half-applied version" (migrations.py
\* 19-20): whoever opens, races or crashes, a stamped version has all its
\* tables and columns and all versions before it, and a broker that is open
\* has the schema that its package was written for.
SchemaIsStamped ==
  /\ \A v \in stamped : Done(v) /\ 1..v \subseteq stamped
  /\ \A c \in Brokers : pc[c] = "ready" => 1..target[c] \subseteq stamped

\* A broker that cannot migrate was overtaken: its migration is done and
\* stamped by another process, so it is enough to open the file again.
FailureMeansDone ==
  \A c \in Brokers : pc[c] = "failed" => at[c] \in stamped

Rank == [none |-> 0, plain |-> 1, extended |-> 2]

\* No opener takes an order away, or the columns that an order uses: the
\* rebuild of orders, which copies the columns of v1 only, never runs on a
\* table that has the new ones.
OrdersSurvive == [][Rank[order] <= Rank[order']]_vars

\* "Every change is additive at the data level -- no rows lose meaning"
\* (migrations.py 114): the trades of an order are not deleted.
HistorySurvives == [][trades => trades']_vars

\* "One persistence file is safe to share across multiple broker instances"
\* (docs/ARCHITECTURE.md 206), and `migrate` upgrades a file of release 0.1.x
\* (docs/COOKBOOK.md 349-359): opening it does not fail.
OpenersNeverFail == \A c \in Openers : pc[c] # "failed"
=============================================================================
