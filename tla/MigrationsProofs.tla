--------------------------- MODULE MigrationsProofs ---------------------------
(****************************************************************************)
(* Proofs about Migrations, for any number of processes and packages and    *)
(* any unversioned file.                                                    *)
(*                                                                          *)
(* SchemaIsStamped alone is not inductive: who is inside run_migrations     *)
(* acts on what it read before.  The invariant adds what each of its places *)
(* still knows, which holds because files only grow: the tables that the    *)
(* backfill has passed are there, and all versions below the migration at   *)
(* hand are stamped.                                                        *)
(****************************************************************************)
EXTENDS Migrations, TLAPS

\* What a process knows of the file from what it has done.
Knows(c) ==
  /\ pc[c] = "backfill" => at[c] \in 1..6
  /\ pc[c] = "backfill" => \A i \in 1..6 : i < at[c] => V1Tables[i] \in tables
  /\ pc[c] = "stamp" => V1 \subseteq tables
  /\ pc[c] = "migrate" => at[c] \in Versions /\ at[c] <= target[c]
  /\ pc[c] = "migrate" => \A u \in Versions : u < at[c] => u \in stamped
  /\ pc[c] = "ready" => \A u \in Versions : u <= target[c] => u \in stamped
  /\ pc[c] = "failed" /\ c \in Brokers => at[c] \in stamped

Prefix == \A v \in stamped : \A u \in Versions : u <= v => u \in stamped

IInv ==
  /\ TypeOK
  /\ Prefix
  /\ \A v \in stamped : Done(v)
  /\ "symbols" \in altered => 2 \in stamped
  /\ order = "extended" => 2 \in stamped
  /\ \A c \in Openers : Knows(c)

\* The tables of v1 by name.
LEMMA V1Names ==
  /\ V1 = {"account", "positions", "orders", "trades", "symbols",
           "corporate_actions"}
  /\ \A i \in 1..6 : V1Tables[i] \in V1
BY DEF V1, V1Tables

\* Any table of v1 is one of the backfill's statements.
LEMMA V1Statements ==
  \A t \in V1 : \E i \in 1..6 : t = V1Tables[i]
BY DEF V1

\* The additions of each migration by name.
LEMMA AddsNames ==
  /\ Adds[1] = {} /\ Adds[2] = {"symbols", "orders", "settlements"}
  /\ Adds[3] = {"corporate_actions"} /\ Adds[4] = {"watchlist"}
  /\ \A v \in Versions : Adds[v] \subseteq UNION {Adds[u] : u \in Versions}
BY DEF Adds, Versions

\* MAX(version) is the length of the prefix that is stamped.
LEMMA AppliedIsLast ==
  ASSUME stamped \subseteq Versions, Prefix
  PROVE  /\ Applied \in 0..4
         /\ \A u \in Versions : u \in stamped <=> u <= Applied
<1> DEFINE Last(v) == (v = 0 \/ v \in stamped) /\ (\A u \in stamped : u <= v)
<1>1. \E v \in 0..4 : Last(v)
  <2>1. CASE 4 \in stamped
    BY <2>1 DEF Versions
  <2>2. CASE 4 \notin stamped /\ 3 \in stamped
    BY <2>2 DEF Versions
  <2>3. CASE 4 \notin stamped /\ 3 \notin stamped /\ 2 \in stamped
    BY <2>3 DEF Versions
  <2>4. CASE 4 \notin stamped /\ 3 \notin stamped /\ 2 \notin stamped /\ 1 \in stamped
    BY <2>4 DEF Versions
  <2>5. CASE 4 \notin stamped /\ 3 \notin stamped /\ 2 \notin stamped /\ 1 \notin stamped
    BY <2>5 DEF Versions
  <2> QED
    BY <2>1, <2>2, <2>3, <2>4, <2>5
<1>2. Applied \in 0..4 /\ Last(Applied)
  BY <1>1 DEF Applied
<1> QED
  BY <1>2 DEF Prefix, Versions

-----------------------------------------------------------------------------
(* The invariant *)

\* An unversioned file satisfies the invariant.
LEMMA InitInv == Init => IInv
<1> SUFFICES ASSUME Init PROVE IInv
  OBVIOUS
<1>1. TypeOK
  <2>1. order \in {"none", "plain", "extended"}
    BY DEF Init
  <2>2. trades \in BOOLEAN
    BY DEF Init
  <2>3. tables \subseteq V1
    BY MigrationsAssumption DEF Init, MigrationsAssumption
  <2> QED
    BY <2>1, <2>2, <2>3 DEF Init, TypeOK, Labels
<1>2. order # "extended"
  BY DEF Init
<1> QED
  BY <1>1, <1>2 DEF Init, IInv, Prefix, Knows

\* What all processes but one know stays true when they do not move and the
\* file only grows.
LEMMA OthersKnow ==
  ASSUME NEW c \in Openers, NEW d \in Openers, c # d, Knows(d),
         pc'[d] = pc[d], at'[d] = at[d], target'[d] = target[d],
         tables \subseteq tables', stamped \subseteq stamped'
  PROVE  Knows(d)'
BY V1Names DEF Knows

\* A step that leaves the file alone keeps the invariant, provided that the
\* process which takes it knows what its new place asks for.
LEMMA FileKept ==
  ASSUME IInv, UNCHANGED file, TypeOK', NEW c \in Openers, Knows(c)',
         \A d \in Openers : d # c =>
           pc'[d] = pc[d] /\ at'[d] = at[d] /\ target'[d] = target[d]
  PROVE  IInv'
<1>1. \A d \in Openers : Knows(d)'
  BY OthersKnow DEF IInv, file
<1> QED
  BY <1>1 DEF IInv, Prefix, Done, file

\* What IInv says of the versions: they are a prefix that ends at Applied.
LEMMA AppliedInv ==
  ASSUME IInv
  PROVE  /\ Applied \in 0..4
         /\ \A u \in Versions : u \in stamped <=> u <= Applied
BY AppliedIsLast DEF IInv, TypeOK

\* The packages are versions.
LEMMA TargetIsVersion ==
  ASSUME TypeOK, NEW c \in Openers
  PROVE  target[c] \in Versions
BY MigrationsAssumption DEF TypeOK, MigrationsAssumption

\* Opening the file, detecting a legacy one, the stamp of the command, the
\* check, a failed migration and a restart leave the file alone.
LEMMA ReadersKeep ==
  ASSUME IInv, NEW c \in Openers,
         \/ Open(c) \/ Detect(c) \/ StampNested(c) \/ Check(c)
         \/ MigrationFails(c) \/ \E v \in Packages : Restart(c, v)
  PROVE  IInv'
<1>0. TypeOK /\ Knows(c) /\ target[c] \in Versions
  BY TargetIsVersion DEF IInv
<1>1. CASE Open(c)
  <2>1. TypeOK'
    BY <1>0, <1>1 DEF TypeOK, Open, Goto, Labels, file
  <2>2. Knows(c)'
    BY <1>0, <1>1 DEF TypeOK, Open, Goto, Knows, file
  <2> QED
    BY <2>1, <2>2, <1>0, <1>1, FileKept DEF Open, Goto, TypeOK
<1>2. CASE Detect(c)
  <2>1. TypeOK'
    BY <1>0, <1>2 DEF TypeOK, Detect, Goto, Labels, file
  <2>2. Knows(c)'
    BY <1>0, <1>2 DEF TypeOK, Detect, Goto, Knows, file
  <2> QED
    BY <2>1, <2>2, <1>0, <1>2, FileKept DEF Detect, Goto, TypeOK
<1>3. CASE StampNested(c)
  <2>1. TypeOK'
    BY <1>0, <1>3 DEF TypeOK, StampNested, Goto, Labels, file
  <2>2. Knows(c)'
    BY <1>0, <1>3, MigrationsAssumption
    DEF TypeOK, StampNested, Goto, Knows, file, MigrationsAssumption
  <2> QED
    BY <2>1, <2>2, <1>0, <1>3, FileKept DEF StampNested, Goto, TypeOK
<1>4. CASE Check(c)
  <2>1. Applied \in 0..4 /\ \A u \in Versions : u \in stamped <=> u <= Applied
    BY AppliedInv
  <2>2. TypeOK'
    BY <1>0, <1>4, <2>1 DEF TypeOK, Check, Goto, Finished, Labels, file, Versions
  <2>3. Knows(c)'
    BY <1>0, <1>4, <2>1
    DEF TypeOK, Check, Goto, Finished, Knows, file, Versions
  <2> QED
    BY <2>2, <2>3, <1>0, <1>4, FileKept DEF Check, Goto, TypeOK
<1>5. CASE MigrationFails(c)
  <2>1. TypeOK'
    BY <1>0, <1>5 DEF TypeOK, MigrationFails, Goto, Labels, file
  <2>2. at[c] \in stamped
    \* v2 cannot find its columns missing after v1, only there already.
    <3>1. \A u \in Versions : u < at[c] => u \in stamped /\ Done(u)
      BY <1>0, <1>5 DEF MigrationFails, Knows, IInv
    <3>2. at[c] = 2 \/ at[c] = 3
      BY <1>5 DEF MigrationFails, Possible
    <3>3. V1 \subseteq tables
      BY <3>1, <3>2 DEF Done, Versions
    <3>4. at[c] = 2 /\ "symbols" \in altered
      BY <3>2, <3>3, <1>5, V1Names DEF MigrationFails, Possible
    <3> QED
      BY <3>4 DEF IInv
  <2>3. Knows(c)'
    BY <1>0, <1>5, <2>2 DEF TypeOK, MigrationFails, Goto, Knows, file
  <2> QED
    BY <2>1, <2>3, <1>0, <1>5, FileKept DEF MigrationFails, Goto, TypeOK
<1>6. ASSUME NEW v \in Packages, Restart(c, v)
      PROVE  IInv'
  <2>1. TypeOK'
    BY <1>0, <1>6 DEF TypeOK, Restart, Goto, Labels, file
  <2>2. Knows(c)'
    BY <1>0, <1>6 DEF TypeOK, Restart, Goto, Knows, file
  <2> QED
    BY <2>1, <2>2, <1>0, <1>6, FileKept DEF Restart, Goto, TypeOK
<1> QED
  BY <1>1, <1>2, <1>3, <1>4, <1>5, <1>6

\* A statement of the backfill adds a table, and the last one completes v1.
LEMMA BackfillKeeps ==
  ASSUME IInv, NEW c \in Openers, Backfill(c)
  PROVE  IInv'
<1>0. TypeOK /\ Knows(c) /\ at[c] \in 1..6 /\ target[c] \in Versions
  BY TargetIsVersion DEF IInv, Backfill, Knows
<1>1. tables \subseteq tables' /\ tables' \subseteq V1
  BY <1>0, V1Names DEF Backfill, TypeOK
<1>2. TypeOK'
  BY <1>0, <1>1 DEF TypeOK, Backfill, Goto, Labels
<1>3. Knows(c)'
  <2>1. \A i \in 1..6 : i <= at[c] => V1Tables[i] \in tables'
    BY <1>0 DEF Backfill, Knows
  <2>2. CASE at[c] < 6
    BY <1>0, <2>1, <2>2 DEF Backfill, Knows, TypeOK
  <2>3. CASE at[c] = 6
    <3>1. \A t \in V1 : t \in tables'
      BY <2>1, <2>3, V1Statements
    <3> QED
      BY <1>0, <3>1, <2>3 DEF Backfill, Goto, Knows, TypeOK
  <2> QED
    BY <1>0, <2>2, <2>3
<1>4. \A d \in Openers : Knows(d)'
  <2>1. \A d \in Openers : d # c =>
          pc'[d] = pc[d] /\ at'[d] = at[d] /\ target'[d] = target[d]
    BY <1>0 DEF Backfill, Goto, TypeOK
  <2>2. stamped' = stamped
    BY DEF Backfill
  <2> QED
    BY <1>1, <1>3, <2>1, <2>2, OthersKnow DEF IInv
<1> QED
  BY <1>1, <1>2, <1>4 DEF IInv, Backfill, Prefix, Done

\* Version 1 is stamped when its tables are there.
LEMMA StampKeeps ==
  ASSUME IInv, NEW c \in Openers, StampLegacy(c)
  PROVE  IInv'
<1>0. TypeOK /\ Knows(c) /\ V1 \subseteq tables
  BY DEF IInv, StampLegacy, Knows
<1>1. TypeOK'
  BY <1>0 DEF TypeOK, StampLegacy, Goto, Labels, Versions
<1>2. Knows(c)'
  BY <1>0 DEF TypeOK, StampLegacy, Goto, Knows
<1>3. \A d \in Openers : Knows(d)'
  <2>1. \A d \in Openers : d # c =>
          pc'[d] = pc[d] /\ at'[d] = at[d] /\ target'[d] = target[d]
    BY <1>0 DEF StampLegacy, Goto, TypeOK
  <2>2. stamped \subseteq stamped' /\ tables' = tables
    BY DEF StampLegacy
  <2> QED
    BY <1>2, <2>1, <2>2, OthersKnow DEF IInv
<1>4. Done(1)
  BY <1>0, AddsNames DEF Done
<1> QED
  BY <1>1, <1>3, <1>4 DEF IInv, StampLegacy, Prefix, Done, Versions

\* A migration runs with all versions below it stamped, and stamps its own
\* together with all it does.
LEMMA MigrateKeeps ==
  ASSUME IInv, NEW c \in Openers, Migrate(c)
  PROVE  IInv'
<1>0. /\ TypeOK /\ Knows(c) /\ at[c] \in Versions /\ at[c] <= target[c]
      /\ target[c] \in Versions
      /\ \A u \in Versions : u < at[c] => u \in stamped
  BY TargetIsVersion DEF IInv, Migrate, Knows
<1>1. /\ tables \subseteq tables' /\ tables' \subseteq V1
      /\ stamped \subseteq stamped' /\ at[c] \in stamped'
      /\ altered \subseteq altered'
  BY <1>0 DEF Migrate, TypeOK
<1>2. TypeOK'
  <2>1. altered' \subseteq UNION {Adds[v] : v \in Versions}
    BY <1>0, AddsNames DEF Migrate, TypeOK
  <2>2. order' \in {"none", "plain", "extended"} /\ trades' \in BOOLEAN
    BY <1>0 DEF Migrate, TypeOK
  <2>3. stamped' \subseteq Versions
    BY <1>0 DEF Migrate, TypeOK
  <2>4. target' \in [Openers -> Packages] /\ pc' \in [Openers -> Labels]
    BY <1>0 DEF Migrate, Goto, Finished, TypeOK, Labels
  <2>5. at' \in [Openers -> 0..6]
    BY <1>0 DEF Migrate, TypeOK, Versions
  <2> QED
    BY <1>1, <2>1, <2>2, <2>3, <2>4, <2>5 DEF TypeOK
<1>3. Knows(c)'
  <2>1. \A u \in Versions : u <= at[c] => u \in stamped'
    BY <1>0 DEF Migrate, Versions
  <2>2. CASE at[c] < target[c]
    BY <1>0, <2>1, <2>2 DEF Migrate, Knows, TypeOK, Versions
  <2>3. CASE at[c] = target[c]
    BY <1>0, <2>1, <2>3 DEF Migrate, Goto, Finished, Knows, TypeOK, Versions
  <2> QED
    BY <1>0, <2>2, <2>3 DEF Versions
<1>4. \A d \in Openers : Knows(d)'
  <2>1. \A d \in Openers : d # c =>
          pc'[d] = pc[d] /\ at'[d] = at[d] /\ target'[d] = target[d]
    BY <1>0 DEF Migrate, Goto, TypeOK
  <2> QED
    BY <1>1, <1>3, <2>1, OthersKnow DEF IInv
<1>5. Prefix'
  BY <1>0 DEF IInv, Prefix, Migrate, Versions
<1>6. \A v \in stamped' : Done(v)'
  <2>1. \A v \in stamped : Done(v)'
    BY <1>1 DEF IInv, Done
  <2>2. ASSUME NEW v \in Versions, v = at[c]
        PROVE  Done(v)'
    BY <2>2 DEF Done, Migrate
  <2> QED
    BY <1>0, <2>1, <2>2 DEF Migrate
<1>7. "symbols" \in altered' => 2 \in stamped'
  BY <1>0, AddsNames DEF IInv, Migrate, Versions
<1>8. order' = "extended" => 2 \in stamped'
  BY <1>1 DEF IInv, Migrate
<1> QED
  BY <1>2, <1>4, <1>5, <1>6, <1>7, <1>8 DEF IInv

\* An order with the columns of v2 is placed by a broker that has seen v2.
LEMMA PlaceKeeps ==
  ASSUME IInv, NEW c \in Openers, Place(c)
  PROVE  IInv'
<1>0. TypeOK /\ Knows(c) /\ target[c] \in Versions
  BY TargetIsVersion DEF IInv
<1>1. TypeOK'
  BY <1>0 DEF Place, TypeOK
<1>2. \A d \in Openers : Knows(d)'
  BY DEF IInv, Place, Knows
<1>3. order' = "extended" => 2 \in stamped'
  BY <1>0 DEF IInv, Place, Knows, Versions
<1> QED
  BY <1>1, <1>2, <1>3 DEF IInv, Place, Prefix, Done

\* Every step keeps the invariant.
LEMMA NextInv == IInv /\ [Next]_vars => IInv'
<1> SUFFICES ASSUME IInv, [Next]_vars PROVE IInv'
  OBVIOUS
<1>1. CASE UNCHANGED vars
  BY <1>1 DEF vars, file, IInv, TypeOK, Prefix, Done, Knows
<1>2. CASE Next
  <2>1. PICK c \in Openers :
          \/ Open(c) \/ Detect(c) \/ Backfill(c) \/ StampLegacy(c)
          \/ StampNested(c) \/ Check(c) \/ Migrate(c) \/ MigrationFails(c)
          \/ Place(c) \/ \E v \in Packages : Restart(c, v)
    BY <1>2 DEF Next
  <2> QED
    BY <2>1, ReadersKeep, BackfillKeeps, StampKeeps, MigrateKeeps, PlaceKeeps
<1> QED
  BY <1>1, <1>2

\* The invariant holds of every behaviour.
LEMMA Invariant == Spec => []IInv
BY InitInv, NextInv, PTL DEF Spec

-----------------------------------------------------------------------------
(* The theorems *)

\* The types of the file and of the processes.
THEOREM MigrationsTypeOK == Spec => []TypeOK
<1>1. IInv => TypeOK
  BY DEF IInv
<1> QED
  BY Invariant, <1>1, PTL

\* A stamped version is complete, with all versions before it, and an open
\* broker has the schema of its package, for any number of processes.
THEOREM MigrationsSchemaIsStamped == Spec => []SchemaIsStamped
<1>1. IInv => SchemaIsStamped
  <2> SUFFICES ASSUME IInv PROVE SchemaIsStamped
    OBVIOUS
  <2>1. \A v \in stamped : Done(v) /\ 1..v \subseteq stamped
    BY DEF IInv, TypeOK, Prefix, Versions
  <2>2. ASSUME NEW c \in Brokers, pc[c] = "ready"
        PROVE  1..target[c] \subseteq stamped
    <3>1. c \in Openers
      BY DEF Openers
    <3>2. Knows(c) /\ target[c] \in Versions
      BY <3>1, TargetIsVersion DEF IInv
    <3> QED
      BY <2>2, <3>2 DEF Knows, Versions
  <2> QED
    BY <2>1, <2>2 DEF SchemaIsStamped
<1> QED
  BY Invariant, <1>1, PTL

\* A broker fails to open only because its migration was done by another.
THEOREM MigrationsFailureMeansDone == Spec => []FailureMeansDone
<1>1. IInv => FailureMeansDone
  BY DEF IInv, Knows, FailureMeansDone, Openers
<1> QED
  BY Invariant, <1>1, PTL

\* No migration takes an order or the columns it uses away.
THEOREM MigrationsOrdersSurvive == Spec => OrdersSurvive
<1>1. IInv /\ [Next]_vars => [Rank[order] <= Rank[order']]_vars
  <2> SUFFICES ASSUME IInv, [Next]_vars
               PROVE  Rank[order] <= Rank[order'] \/ UNCHANGED vars
    OBVIOUS
  <2>0. /\ order \in {"none", "plain", "extended"}
        /\ Rank["none"] = 0 /\ Rank["plain"] = 1 /\ Rank["extended"] = 2
    BY DEF IInv, TypeOK, Rank
  <2>1. order' = order => Rank[order] <= Rank[order']
    BY <2>0
  <2>2. ASSUME NEW c \in Openers, Migrate(c)
        PROVE  Rank[order] <= Rank[order']
    \* The rebuild runs before v2 is done, when no order has its columns.
    <3>1. CASE at[c] = 2 /\ order # "none"
      <4>1. order \in {"none", "plain"} \/ 2 \in stamped
        BY <2>0 DEF IInv
      <4>2. 2 \notin stamped
        BY <2>2, <3>1, AddsNames DEF IInv, Migrate, Possible, Done
      <4> QED
        BY <2>0, <2>2, <3>1, <4>1, <4>2 DEF Migrate
    <3>2. CASE ~(at[c] = 2 /\ order # "none")
      BY <2>0, <2>2, <3>2 DEF Migrate
    <3> QED
      BY <3>1, <3>2
  <2>3. ASSUME NEW c \in Openers, Place(c)
        PROVE  Rank[order] <= Rank[order']
    BY <2>0, <2>3 DEF Place
  <2>4. CASE UNCHANGED vars
    BY <2>4
  <2>5. CASE Next
    <3>1. PICK c \in Openers :
            \/ Open(c) \/ Detect(c) \/ Backfill(c) \/ StampLegacy(c)
            \/ StampNested(c) \/ Check(c) \/ Migrate(c) \/ MigrationFails(c)
            \/ Place(c) \/ \E v \in Packages : Restart(c, v)
      BY <2>5 DEF Next
    <3>2. \/ order' = order \/ Migrate(c) \/ Place(c)
      BY <3>1 DEF Open, Detect, Backfill, StampLegacy, StampNested, Check,
                  MigrationFails, Restart, file
    <3> QED
      BY <2>1, <2>2, <2>3, <3>2
  <2> QED
    BY <2>4, <2>5
<1> QED
  BY Invariant, <1>1, PTL DEF Spec, OrdersSurvive
=============================================================================
