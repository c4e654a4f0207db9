------------------------------ MODULE Storage ------------------------------
(***************************************************************************)
(* Opening the database (polarsclaw/storage): Database.initialize and its  *)
(* migrations, run by every process that builds the application, over one  *)
(* database file.                                                          *)
(*                                                                         *)
(* A statement that changes the schema takes effect at once; the row of    *)
(* schema_version does with its commit.  A step is one statement.          *)
(***************************************************************************)
EXTENDS Integers, Sequences, FiniteSets

CONSTANTS
    Process,     \* processes that open the database
    Statement,   \* the schema statements
    Migrations,  \* migration number to its statements, in order
    Repeatable   \* the statements with IF NOT EXISTS

CURRENT_VERSION == Len(Migrations)

ASSUME MigrationsAssumption ==
    /\ Migrations \in Seq(Seq(Statement))
    /\ Repeatable \subseteq Statement

(* A statement that cannot be repeated occurs once in all migrations.      *)
ASSUME OnceAssumption ==
    \A v, w \in 1..CURRENT_VERSION :
        \A i \in 1..Len(Migrations[v]), j \in 1..Len(Migrations[w]) :
            /\ Migrations[v][i] = Migrations[w][j]
            /\ Migrations[v][i] \notin Repeatable
            => v = w /\ i = j

VARIABLES
    applied,   \* the statements that took effect
    versions,  \* schema_version
    conn,      \* what each process is doing with the database
    disturbed  \* history: a migration was cut short, or two ran at once

dbVars == <<applied, versions, conn, disturbed>>

Conn == [pc : {"closed", "connected", "migrating", "open", "failed"},
         version : Nat, next : Nat]

DbTypeOK ==
    /\ applied \in SUBSET Statement
    /\ versions \in SUBSET (1..CURRENT_VERSION)
    /\ conn \in [Process -> Conn]
    /\ disturbed \in BOOLEAN

Closed == [pc |-> "closed", version |-> 0, next |-> 0]

DbInit ==
    /\ applied = {}
    /\ versions = {}
    /\ conn = [p \in Process |-> Closed]
    /\ disturbed = FALSE

Migrating(p) == conn[p].pc \in {"connected", "migrating"}

Connect(p) ==
    /\ conn[p].pc = "closed"
    /\ conn' = [conn EXCEPT ![p].pc = "connected"]
    /\ UNCHANGED <<applied, versions, disturbed>>

(* Mutant of CurrentVersion: the table is taken for missing.               *)
NoVersion == 0

(* _current_version: 0 without a table or without rows in it.              *)
CurrentVersion ==
    IF versions = {} THEN 0 ELSE CHOOSE v \in versions : \A w \in versions : w <= v

(* _run_migrations reads the version and goes on with the one after it.    *)
ReadVersion(p) ==
    /\ conn[p].pc = "connected"
    /\ conn' = [conn EXCEPT ![p] =
          [pc |-> IF CurrentVersion >= CURRENT_VERSION THEN "open" ELSE "migrating",
           version |-> CurrentVersion + 1, next |-> 1]]
    /\ disturbed' = \/ disturbed
                    \/ /\ CurrentVersion < CURRENT_VERSION
                       /\ \E q \in Process \ {p} : conn[q].pc = "migrating"
    /\ UNCHANGED <<applied, versions>>

Steps(p) == Migrations[conn[p].version]

(* One statement; adding a column that is there fails the migration.       *)
Apply(p) ==
    LET s == Steps(p)[conn[p].next]
        fails == s \in applied /\ s \notin Repeatable
    IN
    /\ conn[p].pc = "migrating"
    /\ conn[p].next <= Len(Steps(p))
    /\ applied' = applied \cup {s}
    /\ conn' = IF fails THEN [conn EXCEPT ![p].pc = "failed"]
                        ELSE [conn EXCEPT ![p].next = @ + 1]
    /\ UNCHANGED <<versions, disturbed>>

(* Mutant of Done: the last statement is skipped.                          *)
AlmostDone(p) == conn[p].next >= Len(Steps(p))

Done(p) == conn[p].next > Len(Steps(p))

(* The row of the version, a primary key, is inserted after its statements.*)
Record(p) ==
    LET v == conn[p].version IN
    /\ conn[p].pc = "migrating"
    /\ Done(p)
    /\ versions' = versions \cup {v}
    /\ conn' = [conn EXCEPT ![p] =
          IF v \in versions THEN [@ EXCEPT !.pc = "failed"]
          ELSE IF v = CURRENT_VERSION THEN [@ EXCEPT !.pc = "open"]
          ELSE [@ EXCEPT !.version = v + 1, !.next = 1]]
    /\ UNCHANGED <<applied, disturbed>>

(* The process closes its connection, or ends.                             *)
Close(p) ==
    /\ conn[p].pc # "closed"
    /\ conn' = [conn EXCEPT ![p] = Closed]
    /\ disturbed' = (disturbed \/ conn[p].pc = "migrating")
    /\ UNCHANGED <<applied, versions>>

(* Database.initialize                                                     *)
Initialize(p) == Connect(p) \/ ReadVersion(p) \/ Apply(p) \/ Record(p)

DbNext == \E p \in Process : Initialize(p) \/ Close(p)

DbSpec == DbInit /\ [][DbNext]_dbVars

-----------------------------------------------------------------------------
(* Properties *)

Complete(v) == \A i \in DOMAIN Migrations[v] : Migrations[v][i] \in applied

(* A process that initialize() let in, and any later one that finds the    *)
(* version current, has every table and column of every migration.         *)
OpenHasSchema ==
    /\ \A v \in versions : Complete(v)
    /\ \A p \in Process : conn[p].pc = "open" =>
         \A v \in 1..CURRENT_VERSION : Complete(v)

(* initialize() fails only over a migration that was cut short or that two *)
(* processes ran at once; any number of starts and ends is otherwise safe. *)
FailsOnlyDisturbed == \A p \in Process : conn[p].pc = "failed" => disturbed

(* The inductive invariant of StartupProofs.  Behind: what p has done of   *)
(* the migrations, or found done, is done.                                 *)
Behind(p) ==
    /\ conn[p].pc = "migrating" =>
          /\ conn[p].version \in 1..CURRENT_VERSION
          /\ 1..(conn[p].version - 1) \subseteq versions
          /\ conn[p].next \in 1..(Len(Steps(p)) + 1)
          /\ \A i \in 1..(conn[p].next - 1) : Steps(p)[i] \in applied
    /\ conn[p].pc = "open" => versions = 1..CURRENT_VERSION

SchemaInv ==
    /\ DbTypeOK
    /\ \E n \in 0..CURRENT_VERSION : versions = 1..n
    /\ \A v \in versions : Complete(v)
    /\ \A p \in Process : Behind(p)

(* Until something goes wrong one process migrates at a time, a version it *)
(* has not recorded, and what took effect for good belongs to a version    *)
(* that is recorded or to what that process has done.                      *)
Explained(s) ==
    \/ s \in Repeatable
    \/ \E v \in versions : \E i \in 1..Len(Migrations[v]) : Migrations[v][i] = s
    \/ \E p \in Process : /\ conn[p].pc = "migrating"
                          /\ \E i \in 1..(conn[p].next - 1) : Steps(p)[i] = s

OrderlyInv ==
    ~disturbed =>
        /\ \A p \in Process : conn[p].pc # "failed"
        /\ \A p \in Process : conn[p].pc = "migrating" =>
              /\ conn[p].version \notin versions
              /\ \A q \in Process : conn[q].pc = "migrating" => q = p
        /\ \A s \in applied : Explained(s)
=============================================================================
