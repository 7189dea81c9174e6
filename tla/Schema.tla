-------------------------------- MODULE Schema --------------------------------
(***************************************************************************)
(* The schema of the database, and what alembic and init_models make of it *)
(* when a server starts: the tables, the columns that a migration declares *)
(* as enum types and the models as strings, and must_change_password, a    *)
(* column the models have and no migration.                                *)
(***************************************************************************)
CONSTANTS
    Backend,        \* "PostgreSQL" or "SQLite"
    UpgradesFirst   \* whether alembic upgrade head runs before the server

\* Revision 0001 adds a constraint to a table that exists, which SQLite cannot.
ASSUME SchemaAssumption ==
    /\ Backend \in {"PostgreSQL", "SQLite"}
    /\ UpgradesFirst \in BOOLEAN
    /\ UpgradesFirst => Backend = "PostgreSQL"

\* "office" stands for the fourteen tables of revision 0001.
Table == {"office", "attendance"}
SchemaRow == [tables : SUBSET Table, enumTypes : BOOLEAN, enumColumns : BOOLEAN,
              must_change_password : BOOLEAN]

Void == [tables |-> {}, enumTypes |-> FALSE, enumColumns |-> FALSE,
         must_change_password |-> FALSE]

\* What the models need.
Whole(s) == s.tables = Table /\ ~s.enumColumns /\ s.must_change_password

-----------------------------------------------------------------------------
(***************************************************************************)
(* alembic upgrade head                                                    *)
(***************************************************************************)

MutantInitialSchema(s) == [s EXCEPT !.tables = @ \cup {"office"}, !.enumColumns = TRUE]
\* Revision 0001: the tables, with an enum type for each status and role.
InitialSchema(s) ==
    [s EXCEPT !.tables = @ \cup {"office"}, !.enumTypes = TRUE, !.enumColumns = TRUE]

\* Revision 0002.
AddAttendance(s) == [s EXCEPT !.tables = @ \cup {"attendance"}, !.enumColumns = TRUE]

Upgraded(s) == AddAttendance(IF "office" \in s.tables THEN s ELSE InitialSchema(s))

-----------------------------------------------------------------------------
(***************************************************************************)
(* init_models: one transaction, each of its statements in a try of its    *)
(* own.  PostgreSQL aborts a transaction whose statement fails: the rest   *)
(* of the statements fail, and its COMMIT is a rollback.                   *)
(***************************************************************************)

\* information_schema tells whether the column is missing: PostgreSQL only has it.
ColumnMissing(s) == Backend = "PostgreSQL" /\ ~s.must_change_password

CreateAll(s) ==
    IF s.tables = {} THEN [s EXCEPT !.tables = Table, !.must_change_password = TRUE]
    ELSE [s EXCEPT !.tables = Table]

Fails(statement, s) ==
    IF statement = "ADD COLUMN must_change_password" THEN s.must_change_password
    ELSE IF statement = "ALTER TYPE leaverequeststatus ADD VALUE" THEN ~s.enumTypes
    ELSE Backend # "PostgreSQL"

Effect(statement, s) ==
    [s EXCEPT !.must_change_password = @ \/ statement = "ADD COLUMN must_change_password",
              !.enumColumns = @ /\ statement # "ALTER COLUMN TYPE VARCHAR"]

Execute(t, statement) ==
    IF t.aborted THEN t
    ELSE IF Fails(statement, t.schema) THEN [t EXCEPT !.aborted = Backend = "PostgreSQL"]
    ELSE [t EXCEPT !.schema = Effect(statement, @)]

\* Begins with create_all; adding: the column had been found missing.
Added(s, adding) ==
    LET t == [schema |-> CreateAll(s), aborted |-> FALSE]
    IN  IF adding THEN Execute(t, "ADD COLUMN must_change_password") ELSE t

\* What the COMMIT leaves.  The normalising UPDATEs of statuses find nothing to
\* change: the handlers write the very values they set.
Initialised(s, adding) ==
    LET retyped == Execute(Execute(Added(s, adding), "ALTER TYPE leaverequeststatus ADD VALUE"),
                           "ALTER COLUMN TYPE VARCHAR")
        t == Execute(retyped, "UPDATE SET status")
    IN  IF t.aborted THEN s ELSE t.schema
=============================================================================
