----------------------------- MODULE MCMigrations -----------------------------
(* Instances of Migrations: which files the processes may find. *)
EXTENDS Migrations, TLC

\* A new file, a complete one of release 0.1.x, one without a table that v2
\* needs, and fragments with both and with one of the detector's tables.
MCFiles == {{}, V1, V1 \ {"symbols"}, {"account", "positions"},
            {"account", "orders", "trades"}}

LegacyFiles == {V1}
NewFiles == {{}}

Symmetry == Permutations(Brokers)
=============================================================================
