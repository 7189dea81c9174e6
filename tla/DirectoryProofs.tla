---------------------------- MODULE DirectoryProofs ----------------------------
(***************************************************************************)
(* Theorems about Directory for any servers, sessions, accounts, edits,    *)
(* demonstration data and tokens.                                          *)
(***************************************************************************)
EXTENDS Directory, FiniteSetTheorems, WellFoundedInduction, TLAPS

-----------------------------------------------------------------------------
(***************************************************************************)
(* The schema.                                                             *)
(***************************************************************************)

Transaction == [schema : SchemaRow, aborted : BOOLEAN]
Phase == {"down", "adding", "altering", "seeding", "up"}

\* A statement of init_models keeps the shape of its transaction.
LEMMA ExecuteType ==
    ASSUME NEW t \in Transaction, NEW statement
    PROVE  Execute(t, statement) \in Transaction
  <1>1. t.schema \in SchemaRow /\ t.aborted \in BOOLEAN
    BY DEF Transaction
  <1>2. Effect(statement, t.schema) \in SchemaRow
    BY <1>1 DEF Effect, SchemaRow
  <1>3. [t EXCEPT !.schema = Effect(statement, @)] \in Transaction
    BY <1>2 DEF Transaction
  <1>4. [t EXCEPT !.aborted = Backend = "PostgreSQL"] \in Transaction
    BY DEF Transaction
  <1> QED BY <1>3, <1>4 DEF Execute

\* What a statement that succeeds does.
LEMMA StatementSucceeds ==
    ASSUME NEW t \in Transaction, NEW statement, ~t.aborted, ~Fails(statement, t.schema)
    PROVE  LET r == Execute(t, statement) IN
           /\ r \in Transaction /\ ~r.aborted
           /\ r.schema.tables = t.schema.tables
           /\ t.schema.enumTypes => r.schema.enumTypes
           /\ t.schema.must_change_password => r.schema.must_change_password
           /\ statement = "ADD COLUMN must_change_password" => r.schema.must_change_password
           /\ ~t.schema.enumColumns => ~r.schema.enumColumns
           /\ statement = "ALTER COLUMN TYPE VARCHAR" => ~r.schema.enumColumns
  <1> DEFINE e == Effect(statement, t.schema)
  <1>1. t.schema \in SchemaRow
    BY DEF Transaction
  <1>2. /\ e.tables = t.schema.tables /\ e.enumTypes = t.schema.enumTypes
        /\ e.must_change_password =
                (t.schema.must_change_password \/ statement = "ADD COLUMN must_change_password")
        /\ e.enumColumns = (t.schema.enumColumns /\ statement # "ALTER COLUMN TYPE VARCHAR")
    BY <1>1 DEF Effect, SchemaRow
  <1>3. Execute(t, statement) = [t EXCEPT !.schema = e]
    BY DEF Execute
  <1> HIDE DEF e
  <1>4. Execute(t, statement).schema = e /\ Execute(t, statement).aborted = t.aborted
    BY <1>3 DEF Transaction
  <1> QED BY <1>2, <1>4, ExecuteType

\* create_all, alembic and init_models leave a schema.
LEMMA SchemaTypes ==
    ASSUME NEW s \in SchemaRow, NEW adding \in BOOLEAN
    PROVE  Upgraded(s) \in SchemaRow /\ Initialised(s, adding) \in SchemaRow
  <1>1. CreateAll(s) \in SchemaRow
    BY DEF CreateAll, SchemaRow, Table
  <1>2. InitialSchema(s) \in SchemaRow /\ \A r \in SchemaRow : AddAttendance(r) \in SchemaRow
    BY DEF InitialSchema, AddAttendance, SchemaRow, Table
  <1>3. Upgraded(s) \in SchemaRow
    BY <1>2 DEF Upgraded
  <1>4. [schema |-> CreateAll(s), aborted |-> FALSE] \in Transaction
    BY <1>1 DEF Transaction
  <1>5. Added(s, adding) \in Transaction
    BY <1>4, ExecuteType DEF Added
  <1> DEFINE t == Execute(Execute(Execute(Added(s, adding),
                                         "ALTER TYPE leaverequeststatus ADD VALUE"),
                                 "ALTER COLUMN TYPE VARCHAR"), "UPDATE SET status")
  <1>6. t \in Transaction
    BY <1>5, ExecuteType
  <1>7. t.schema \in SchemaRow
    BY <1>6 DEF Transaction
  <1>8. Initialised(s, adding) = IF t.aborted THEN s ELSE t.schema
    BY DEF Initialised
  <1> QED BY <1>3, <1>7, <1>8

\* A deployment as the Dockerfile has it, on a database no server has left half
\* altered: PostgreSQL, brought to the last revision first.
Released ==
    /\ UpgradesFirst
    /\ \A s \in EarlierSchema :
        /\ "office" \in s.tables => s.enumTypes
        /\ s.must_change_password => Whole(s)

\* Nobody starts before the last revision is there; must_change_password comes
\* with the columns retyped, in one transaction.
SchemaInv ==
    /\ UpgradesFirst
    /\ schema \in SchemaRow
    /\ server \in [Process -> Phase \ {"altering"}]
    /\ "office" \in schema.tables => schema.enumTypes
    /\ schema.must_change_password => Whole(schema)
    /\ \A p \in Process :
        /\ server[p] # "down" => schema.tables = Table
        /\ server[p] \in {"seeding", "up"} => Whole(schema)

\* On the last revision, init_models ends with a whole schema, also when the
\* column has been added since it was found missing.
LEMMA InitialisedWhole ==
    ASSUME Backend = "PostgreSQL", NEW s \in SchemaRow, s.tables = Table, s.enumTypes,
           s.must_change_password => Whole(s)
    PROVE  LET r == Initialised(s, TRUE) IN Whole(r) /\ r.enumTypes
  <1> DEFINE t0 == [schema |-> CreateAll(s), aborted |-> FALSE]
  <1> DEFINE t1 == Added(s, TRUE)
  <1> DEFINE t2 == Execute(t1, "ALTER TYPE leaverequeststatus ADD VALUE")
  <1> DEFINE t3 == Execute(t2, "ALTER COLUMN TYPE VARCHAR")
  <1> DEFINE t4 == Execute(t3, "UPDATE SET status")
  <1>1. Initialised(s, TRUE) = IF t4.aborted THEN s ELSE t4.schema
    BY DEF Initialised
  <1>2. CreateAll(s) = s
    BY DEF CreateAll, SchemaRow, Table
  <1>3. t1 = Execute(t0, "ADD COLUMN must_change_password")
    BY DEF Added
  <1>4. t0 \in Transaction /\ t0.schema = s /\ ~t0.aborted
    BY <1>2 DEF Transaction
  <1> HIDE DEF t0
  <1>5. CASE s.must_change_password
    <2>1. t1.aborted
      BY <1>3, <1>4, <1>5 DEF Execute, Fails, Transaction
    <2> HIDE DEF t1
    <2>2. t4.aborted
      BY <2>1 DEF Execute
    <2> QED BY <1>1, <1>5, <2>2
  <1>6. CASE ~s.must_change_password
    <2>1. ~Fails("ADD COLUMN must_change_password", t0.schema)
      BY <1>4, <1>6 DEF Fails
    <2>2. /\ ~t1.aborted /\ t1 \in Transaction
          /\ t1.schema.tables = Table /\ t1.schema.enumTypes /\ t1.schema.must_change_password
      BY <1>3, <1>4, <2>1, StatementSucceeds
    <2> HIDE DEF t1
    <2>3. ~Fails("ALTER TYPE leaverequeststatus ADD VALUE", t1.schema)
      BY <2>2 DEF Fails
    <2>4. /\ ~t2.aborted /\ t2 \in Transaction
          /\ t2.schema.tables = Table /\ t2.schema.enumTypes /\ t2.schema.must_change_password
      BY <2>2, <2>3, StatementSucceeds
    <2> HIDE DEF t2
    <2>5. ~Fails("ALTER COLUMN TYPE VARCHAR", t2.schema)
      BY DEF Fails
    <2>6. /\ ~t3.aborted /\ t3 \in Transaction /\ ~t3.schema.enumColumns
          /\ t3.schema.tables = Table /\ t3.schema.enumTypes /\ t3.schema.must_change_password
      BY <2>4, <2>5, StatementSucceeds
    <2> HIDE DEF t3
    <2>7. ~Fails("UPDATE SET status", t3.schema)
      BY DEF Fails
    <2>8. /\ ~t4.aborted /\ ~t4.schema.enumColumns
          /\ t4.schema.tables = Table /\ t4.schema.enumTypes /\ t4.schema.must_change_password
      BY <2>6, <2>7, StatementSucceeds
    <2> HIDE DEF t4
    <2> QED BY <1>1, <2>8 DEF Whole
  <1> QED BY <1>5, <1>6

\* Requests, logins and imports leave schema and servers alone.
LEMMA OtherActors ==
    ASSUME [DirectoryNext]_directoryVars
    PROVE  \/ \E p \in Process : Proceed(p) \/ Crash(p)
           \/ UNCHANGED processes
  BY DEF DirectoryNext, directoryVars, Import, Login, Resolve, LookAgain, Recover,
         ChangePassword, PrepareNew, Create, LoadForEdit, CommitEdit, Deactivate, RollBack

\* Every step keeps the invariant of the schema.
LEMMA SchemaStep == SchemaInv /\ [DirectoryNext]_directoryVars => SchemaInv'
  <1> SUFFICES ASSUME SchemaInv, [DirectoryNext]_directoryVars PROVE SchemaInv'
    OBVIOUS
  <1>1. Backend = "PostgreSQL"
    BY SchemaAssumption DEF SchemaInv
  <1>2. ASSUME NEW p \in Process, NEW to \in Phase \ {"altering"},
               server' = [server EXCEPT ![p] = to], UNCHANGED schema,
               to # "down" => schema.tables = Table,
               to \in {"seeding", "up"} => Whole(schema)
        PROVE  SchemaInv'
    BY <1>2 DEF SchemaInv
  <1>3. ASSUME NEW p \in Process, Upgrade(p)
        PROVE  SchemaInv'
    <2>1. schema.tables # Table /\ schema' = Upgraded(schema) /\ server' = server
      BY <1>3 DEF Upgrade
    <2>2. ~schema.must_change_password /\ \A q \in Process : server[q] = "down"
      BY <2>1 DEF SchemaInv, Whole
    <2>3. schema' \in SchemaRow
      BY <2>1, SchemaTypes DEF SchemaInv
    <2>4. schema'.enumTypes /\ schema'.must_change_password = schema.must_change_password
      BY <2>1 DEF Upgraded, AddAttendance, InitialSchema, SchemaInv, SchemaRow
    <2> QED BY <2>1, <2>2, <2>3, <2>4 DEF SchemaInv
  <1>4. ASSUME NEW p \in Process, Inspect(p)
        PROVE  SchemaInv'
    <2>1. schema.tables = Table /\ ~Whole(schema)
      BY <1>4 DEF Inspect, SchemaInv
    <2>2. CreateAll(schema) = schema
      BY <2>1 DEF CreateAll, SchemaInv, SchemaRow, Table
    <2>3. ColumnMissing(CreateAll(schema))
      BY <1>1, <2>1, <2>2 DEF ColumnMissing, SchemaInv
    <2>4. server' = [server EXCEPT ![p] = "adding"] /\ UNCHANGED schema
      BY <1>4, <2>3 DEF Inspect
    <2> QED BY <1>2, <2>1, <2>4 DEF Phase
  <1>5. ASSUME NEW p \in Process, Initialise(p)
        PROVE  SchemaInv'
    <2>1. server[p] = "adding"
      BY <1>5 DEF Initialise, SchemaInv
    <2>2. schema.tables = Table /\ schema.enumTypes
      BY <2>1 DEF SchemaInv, Table
    <2>3. schema' = Initialised(schema, TRUE) /\ server' = [server EXCEPT ![p] = Onward(schema')]
      BY <1>5, <2>1 DEF Initialise
    <2>4. Whole(schema') /\ schema'.enumTypes /\ schema' \in SchemaRow
      BY <1>1, <2>2, <2>3, InitialisedWhole, SchemaTypes DEF SchemaInv
    <2>5. schema'.tables = Table
      BY <2>4 DEF Whole
    <2>6. Onward(schema') \in Phase \ {"altering"}
      BY DEF Onward, Phase
    <2> QED BY <2>3, <2>4, <2>5, <2>6 DEF SchemaInv
  <1>6. ASSUME NEW p \in Process, Start(p)
        PROVE  SchemaInv'
    <2>1. Whole(schema) /\ Onward(schema) \in Phase \ {"altering"}
      BY <1>6 DEF Start, Onward, Phase
    <2> QED BY <1>2, <1>6, <2>1 DEF Start, Whole
  <1>7. ASSUME NEW p \in Process, Seed(p) \/ SeedFails(p) \/ Crash(p)
        PROVE  SchemaInv'
    <2>1. CASE Seed(p)
      BY <1>2, <2>1 DEF Seed, Phase, Whole
    <2>2. CASE SeedFails(p) \/ Crash(p)
      BY <1>2, <2>2 DEF SeedFails, Crash, Phase
    <2> QED BY <1>7, <2>1, <2>2
  <1>8. CASE UNCHANGED processes
    BY <1>8 DEF processes, SchemaInv
  <1> QED BY <1>3, <1>4, <1>5, <1>6, <1>7, <1>8, OtherActors DEF Proceed

\* A server that has passed init_models finds the schema of the models, whatever
\* other servers altered meanwhile and however often it crashed.
THEOREM SchemaServedTheorem == Released /\ DirectorySpec => []SchemaServed
  <1>1. Released /\ DirectoryInit => SchemaInv
    BY DirectoryAssumption DEF Released, DirectoryInit, SchemaInv, Phase
  <1>2. SchemaInv => SchemaServed
    BY DEF SchemaInv, SchemaServed
  <1> QED BY <1>1, <1>2, SchemaStep, PTL DEF DirectorySpec

-----------------------------------------------------------------------------
(***************************************************************************)
(* What EveryServerStarts rests on: a start has only so many steps.        *)
(***************************************************************************)

\* A bound on the steps p has still to take before it serves.
StartSteps(p) ==
    IF server[p] = "up" THEN 0
    ELSE IF server[p] = "seeding" THEN 2
    ELSE IF server[p] # "down" THEN 3
    ELSE IF Whole(schema) THEN (IF MustSeed THEN 3 ELSE 1)
    ELSE IF schema.tables = Table THEN 4 ELSE 5

\* Once departments are there, or a schema whole or of the last revision, it stays so.
LEMMA StartLasts ==
    ASSUME SchemaInv, [DirectoryNext]_directoryVars
    PROVE  /\ ~MustSeed => ~MustSeed'
           /\ Whole(schema) => Whole(schema')
           /\ schema.tables = Table => schema'.tables = Table
  <1>1. ASSUME NEW p \in Process, Initialise(p)
        PROVE  Whole(schema') /\ schema'.tables = Table /\ server' = [server EXCEPT ![p] = Onward(schema')]
    <2>1. server[p] = "adding"
      BY <1>1 DEF Initialise, SchemaInv
    <2>2. schema.tables = Table /\ schema.enumTypes /\ Backend = "PostgreSQL"
      BY <2>1, SchemaAssumption DEF SchemaInv, Table
    <2>3. schema' = Initialised(schema, TRUE) /\ server' = [server EXCEPT ![p] = Onward(schema')]
      BY <1>1, <2>1 DEF Initialise
    <2> QED BY <2>2, <2>3, InitialisedWhole DEF SchemaInv, Whole
  <1>2. ~MustSeed => ~MustSeed'
    BY DirectoryAssumption DEF DirectoryNext, directoryVars, directory, Import, Login, Resolve,
       LookAgain, Recover, ChangePassword, PrepareNew, Create, LoadForEdit, CommitEdit, Deactivate,
       RollBack, Proceed, Upgrade, Inspect, Initialise, Start, Seed, SeedFails, Crash, MustSeed
  <1>3. ASSUME NEW p \in Process, Upgrade(p)
        PROVE  schema.tables # Table
    BY <1>3 DEF Upgrade
  <1>4. ASSUME NEW p \in Process,
               Inspect(p) \/ Start(p) \/ Seed(p) \/ SeedFails(p) \/ Crash(p)
        PROVE  UNCHANGED schema
    BY <1>4 DEF Inspect, Start, Seed, SeedFails, Crash
  <1>5. UNCHANGED processes => UNCHANGED schema
    BY DEF processes
  <1> QED BY <1>1, <1>2, <1>3, <1>4, <1>5, OtherActors DEF Proceed, Whole

\* Each step of a start leaves one less.
LEMMA StartProceeds ==
    ASSUME SchemaInv, NEW p \in Process, Proceed(p)
    PROVE  StartSteps(p)' < StartSteps(p)
  <1>1. \A to : server' = [server EXCEPT ![p] = to] => server'[p] = to
    BY DEF SchemaInv
  <1>2. CASE Upgrade(p)
    <2>1. /\ server[p] = "down" /\ server' = server
          /\ schema.tables # Table /\ schema' = Upgraded(schema)
      BY <1>2 DEF Upgrade
    <2>2. schema'.tables = Table
      BY <2>1 DEF Upgraded, AddAttendance, InitialSchema, SchemaInv, SchemaRow, Table
    <2>3. ~Whole(schema)
      BY <2>1 DEF Whole
    <2> QED BY <2>1, <2>2, <2>3 DEF StartSteps
  <1>3. CASE Inspect(p)
    <2>1. /\ server[p] = "down" /\ ~Whole(schema) /\ schema.tables = Table
          /\ server'[p] \in {"adding", "altering"}
      BY <1>1, <1>3 DEF Inspect, SchemaInv
    <2> QED BY <2>1 DEF StartSteps
  <1>4. CASE Initialise(p)
    <2>1. server[p] = "adding"
      BY <1>4 DEF Initialise, SchemaInv
    <2>2. schema.tables = Table /\ schema.enumTypes /\ Backend = "PostgreSQL"
      BY <2>1, SchemaAssumption DEF SchemaInv, Table
    <2>3. schema' = Initialised(schema, TRUE) /\ server'[p] = Onward(schema')
      BY <1>1, <1>4, <2>1 DEF Initialise
    <2>4. Whole(schema')
      BY <2>2, <2>3, InitialisedWhole DEF SchemaInv
    <2>5. server'[p] \in {"seeding", "up"}
      BY <2>3, <2>4 DEF Onward, Whole, Table
    <2> QED BY <2>1, <2>5 DEF StartSteps
  <1>5. CASE Start(p)
    <2>1. /\ server[p] = "down" /\ Whole(schema)
          /\ server'[p] = Onward(schema)
      BY <1>1, <1>5 DEF Start
    <2>2. server'[p] = IF MustSeed THEN "seeding" ELSE "up"
      BY <2>1 DEF Onward, Whole, Table
    <2> QED BY <2>1, <2>2 DEF StartSteps
  <1>6. CASE Seed(p)
    <2>1. server[p] = "seeding" /\ server'[p] = "up"
      BY <1>1, <1>6 DEF Seed
    <2> QED BY <2>1 DEF StartSteps
  <1>7. CASE SeedFails(p)
    <2>1. /\ server[p] = "seeding" /\ server'[p] = "down" /\ UNCHANGED <<schema, departments>>
          /\ Whole(schema) /\ departments # {}
      BY <1>1, <1>7 DEF SeedFails, SchemaInv, directory
    <2> QED BY <2>1 DEF StartSteps, MustSeed
  <1> QED BY <1>2, <1>3, <1>4, <1>5, <1>6, <1>7 DEF Proceed

\* On a released database a server is never more than five steps from serving.
\* Each step of its start is one of them, a lost race to seed included, and only
\* its own crash takes it back: nothing another server, an import or a request
\* does makes a start longer.
THEOREM BoundedStartTheorem ==
    Released /\ DirectorySpec =>
        [][\A p \in Process :
            /\ StartSteps(p) \in 0..5
            /\ Proceed(p) => StartSteps(p)' < StartSteps(p)
            /\ ~Crash(p) => StartSteps(p)' <= StartSteps(p)]_directoryVars
  <1>1. Released /\ DirectoryInit => SchemaInv
    BY DirectoryAssumption DEF Released, DirectoryInit, SchemaInv, Phase
  <1>2. ASSUME SchemaInv, [DirectoryNext]_directoryVars, NEW p \in Process, ~Crash(p), ~Proceed(p)
        PROVE  StartSteps(p)' <= StartSteps(p)
    <2>1. server'[p] = server[p]
      <3>1. ASSUME NEW q \in Process, Proceed(q) \/ Crash(q)
            PROVE  server'[p] = server[p]
        BY <1>2, <3>1 DEF Proceed, Upgrade, Inspect, Initialise, Start, Seed, SeedFails, Crash,
                          SchemaInv
      <3> QED BY <1>2, <3>1, OtherActors DEF processes
    <2> QED BY <1>2, <2>1, StartLasts DEF StartSteps
  <1>3. SchemaInv /\ [DirectoryNext]_directoryVars =>
            [\A p \in Process :
                /\ StartSteps(p) \in 0..5
                /\ Proceed(p) => StartSteps(p)' < StartSteps(p)
                /\ ~Crash(p) => StartSteps(p)' <= StartSteps(p)]_directoryVars
    <2>1. \A p : StartSteps(p) \in 0..5 /\ StartSteps(p)' \in 0..5
      BY DEF StartSteps
    <2> QED BY <1>2, <2>1, StartProceeds
  <1> QED BY <1>1, <1>3, SchemaStep, PTL DEF DirectorySpec

-----------------------------------------------------------------------------
(***************************************************************************)
(* The accounts.                                                           *)
(***************************************************************************)

Entry == [actor : Nat, employee : Nat, fields : SUBSET Field]

SessionOK(x) ==
    \/ x = Idle
    \/ \E phase \in {"Unknown", "Recovering"}, token \in tokens :
            x = [phase |-> phase, token |-> token]
    \/ \E i \in Id, role \in Role : x = [phase |-> "Acting", actor |-> i, role |-> role]
    \/ \E row \in NewAccount : x = [phase |-> "Creating", row |-> row]
    \/ \E a \in Id, i \in Id, row \in EmployeeRow, patch \in Patch :
            x = [phase |-> "Editing", actor |-> a, target |-> i, loaded |-> row,
                 patch |-> patch]

\* Nobody is served, and no request is open, before the database is seeded.
DirectoryInv ==
    /\ DirectoryTypeOK
    /\ SeededWhole
    /\ imports \in Nat
    /\ \A w \in Worker : SessionOK(session[w])
    /\ DOMAIN session = Worker
    /\ departments = {} =>
        /\ \A p \in Process : server[p] # "up"
        /\ \A w \in Worker : session[w] = Idle

\* The columns of an account, by their names.
LEMMA RowFields ==
    ASSUME NEW row \in EmployeeRow
    PROVE  /\ row.email \in Email /\ row.employee_code \in Code /\ row.role \in Role
           /\ row.employment_status \in EmploymentStatus /\ row.password \in BOOLEAN
           /\ row["email"] = row.email /\ row["role"] = row.role
           /\ row["employment_status"] = row.employment_status
           /\ row["password"] = row.password /\ row["employee_code"] = row.employee_code
           /\ DOMAIN row = {"email", "employee_code", "role", "employment_status", "password"}
  BY DEF EmployeeRow

\* An account is its columns.
LEMMA RowOfFields ==
    ASSUME NEW row,
           row = [f \in {"email", "employee_code", "role", "employment_status", "password"} |->
                    row[f]],
           row["email"] \in Email, row["employee_code"] \in Code, row["role"] \in Role,
           row["employment_status"] \in EmploymentStatus, row["password"] \in BOOLEAN
    PROVE  row \in EmployeeRow
  BY DEF EmployeeRow

\* An edit writes an account, its code untouched, and other columns only by name.
LEMMA EditedRow ==
    ASSUME NEW x, NEW row \in EmployeeRow, x.loaded \in EmployeeRow, x.patch \in Patch
    PROVE  LET r == Edited(x, row)
               fields == Changed(x.loaded, x.patch)
           IN  /\ r \in EmployeeRow
               /\ fields \subseteq Field
               /\ r.employee_code = row.employee_code
               /\ \A f \in Field : f \notin fields => r[f] = row[f]
               /\ fields = {} => r = row
  <1> DEFINE r == Edited(x, row)
  <1> DEFINE fields == Changed(x.loaded, x.patch)
  <1>1. /\ \A f \in DOMAIN x.patch : f \in Field /\ x.patch[f] \in Column[f]
        /\ fields \subseteq DOMAIN x.patch
    BY DirectoryAssumption DEF Changed
  <1>2. Field = {"email", "role", "employment_status", "password"}
    BY DEF Field, Column
  <1>3. /\ Column["email"] = Email /\ Column["role"] = Role
        /\ Column["employment_status"] = EmploymentStatus /\ Column["password"] = {TRUE}
    BY DEF Column
  <1>4. r = [f \in DOMAIN row |-> IF f \in fields THEN x.patch[f] ELSE row[f]]
    BY DEF Edited
  <1>5. fields \subseteq Field /\ \A f \in fields : x.patch[f] \in Column[f]
    BY <1>1
  <1> HIDE DEF fields, r
  <1>6. DOMAIN row = {"email", "employee_code", "role", "employment_status", "password"}
    BY RowFields
  <1>7. \A f \in DOMAIN row : r[f] = IF f \in fields THEN x.patch[f] ELSE row[f]
    BY <1>4
  <1>8. r["email"] \in Email /\ r["role"] \in Role
    BY <1>3, <1>5, <1>6, <1>7, RowFields
  <1>9. r["employment_status"] \in EmploymentStatus /\ r["password"] \in BOOLEAN
    BY <1>3, <1>5, <1>6, <1>7, RowFields
  <1>10. r["employee_code"] = row["employee_code"]
    BY <1>2, <1>5, <1>6, <1>7
  <1>11. r \in EmployeeRow
    <2>1. r = [f \in {"email", "employee_code", "role", "employment_status", "password"} |-> r[f]]
      BY <1>4, <1>6
    <2> QED BY <1>8, <1>9, <1>10, <2>1, RowOfFields, RowFields
  <1>12. r.employee_code = row.employee_code
    BY <1>10, <1>11, RowFields
  <1>13. \A f \in Field : f \notin fields => r[f] = row[f]
    BY <1>2, <1>6, <1>7
  <1>14. fields = {} => r = row
    BY <1>4 DEF EmployeeRow
  <1> QED BY <1>5, <1>11, <1>12, <1>13, <1>14 DEF r, fields

\* A row added beside the others, unique as the keys demand.
LEMMA AddedRow ==
    ASSUME employees \in Seq(EmployeeRow), Distinct(employees), NEW row \in EmployeeRow, Add(row)
    PROVE  /\ employees' \in Seq(EmployeeRow) /\ Distinct(employees')
           /\ Id \subseteq Id' /\ \A i \in Id : employees'[i] = employees[i]
           /\ Len(employees') \in Id' /\ employees'[Len(employees')] = row
           /\ Id' = Id \cup {Len(employees')}
  <1>1. employees' = Append(employees, row) /\ ~Taken(row, Id)
    BY DEF Add
  <1>2. /\ employees' \in Seq(EmployeeRow) /\ Len(employees') = Len(employees) + 1
        /\ Id = 1 .. Len(employees) /\ Id' = 1 .. Len(employees')
    BY <1>1 DEF Id
  <1>3. /\ \A i \in Id : employees'[i] = employees[i]
        /\ employees'[Len(employees')] = row
    BY <1>1, <1>2
  <1>4. Len(employees) \in Nat
    OBVIOUS
  <1>5. Id' = Id \cup {Len(employees')}
    BY <1>2, <1>4
  <1>6. Distinct(employees')
    BY <1>1, <1>2, <1>3, <1>5 DEF Distinct, Taken, Id
  <1> QED BY <1>2, <1>3, <1>4, <1>5, <1>6

\* A row rewritten, unique as the keys demand.
LEMMA RewrittenRow ==
    ASSUME employees \in Seq(EmployeeRow), Distinct(employees), NEW row \in EmployeeRow,
           NEW i \in Id, ~Taken(row, Id \ {i}), employees' = [employees EXCEPT ![i] = row]
    PROVE  /\ employees' \in Seq(EmployeeRow) /\ Distinct(employees')
           /\ Id' = Id
           /\ employees'[i] = row /\ \A j \in Id \ {i} : employees'[j] = employees[j]
  <1>1. employees' \in Seq(EmployeeRow) /\ Id' = Id
    BY DEF Id
  <1>2. employees'[i] = row /\ \A j \in Id \ {i} : employees'[j] = employees[j]
    BY DEF Id
  <1>3. Distinct(employees')
    BY <1>1, <1>2 DEF Distinct, Taken, Id
  <1> QED BY <1>1, <1>2, <1>3

\* A column other than the two keys set on one account.
LEMMA ColumnSet ==
    ASSUME employees \in Seq(EmployeeRow), Distinct(employees), NEW row \in EmployeeRow,
           NEW i \in Id, row.email = employees[i].email,
           row.employee_code = employees[i].employee_code
    PROVE  ~Taken(row, Id \ {i})
  BY DEF Distinct, Taken, Id

\* Sessions go on as they were when accounts and tokens only become more.
LEMMA SessionsKept ==
    ASSUME Id \subseteq Id', tokens \subseteq tokens', NEW x, SessionOK(x)
    PROVE  SessionOK(x)'
  BY DEF SessionOK

\* Codes that stay keep the seeded accounts.
LEMMA SeedsKept ==
    ASSUME SeededWhole, departments # {}, departments' = departments, Id \subseteq Id',
           \A i \in Id : employees'[i].employee_code = employees[i].employee_code
    PROVE  SeededWhole'
  BY DEF SeededWhole

\* A line in a way is one that would write a code another account holds.
InTheWay == {k \in DOMAIN DemoLine :
                WritesCode(k) /\ \E i \in Id : /\ employees[i].employee_code = DemoLine[k].employee_code
                                               /\ employees[i].email # DemoLine[k].email}

\* While every demonstration code belongs to an account, an import that is not
\* refused writes no code anew: of the lines in the way, the first is refused.
LEMMA NoLineInTheWay ==
    ASSUME DirectoryInv, Import
    PROVE  InTheWay = {}
  <1> SUFFICES ASSUME InTheWay # {} PROVE FALSE
    OBVIOUS
  <1>1. DOMAIN DemoLine \subseteq Nat
    BY DirectoryAssumption
  <1>2. InTheWay \subseteq Nat
    BY <1>1 DEF InTheWay
  <1>3. PICK k \in InTheWay : \A l \in InTheWay : ~(<<l, k>> \in OpToRel(<, Nat))
    BY <1>2, NatLessThanWellFounded, WFMin
  <1>4. \A l \in InTheWay : ~(l < k)
    BY <1>2, <1>3 DEF OpToRel
  <1>5. PICK i \in Id : /\ employees[i].employee_code = DemoLine[k].employee_code
                        /\ employees[i].email # DemoLine[k].email
    BY DEF InTheWay
  <1>6. k \in DOMAIN DemoLine /\ WritesCode(k) /\ ~Refused(k)
    BY DEF InTheWay, Import
  <1>7. PICK l \in LinesOf(employees[i]) : l < k /\ DemoLine[l].source = "Example"
    BY <1>5, <1>6 DEF Refused
  <1>8. l \in DOMAIN DemoLine /\ DemoLine[l].email = employees[i].email /\ WritesCode(l)
    BY <1>7 DEF LinesOf, WritesCode
  <1>9. PICK j \in Id : employees[j].employee_code = DemoLine[l].employee_code
    BY <1>8 DEF DirectoryInv, SeededWhole, Import
  <1>10. l # k
    BY <1>1, <1>6, <1>7
  <1>11. DemoLine[l].employee_code # DemoLine[k].employee_code
    BY <1>6, <1>8, <1>10, DirectoryAssumption DEF Distinct
  <1>12. j # i
    BY <1>5, <1>9, <1>11
  <1>13. employees[j].email # DemoLine[l].email
    BY <1>8, <1>12 DEF DirectoryInv, DirectoryTypeOK, Distinct, Id
  <1>14. l \in InTheWay
    BY <1>8, <1>9, <1>13 DEF InTheWay
  <1> QED BY <1>4, <1>7, <1>14

\* So an import adds no account and changes no key: it resets, in place, the
\* accounts that the demonstration data names.
LEMMA ImportInPlace ==
    ASSUME DirectoryInv, Import
    PROVE  /\ employees' \in Seq(EmployeeRow) /\ Distinct(employees')
           /\ Id' = Id
           /\ \A i \in Id :
                /\ employees'[i].email = employees[i].email
                /\ employees'[i].employee_code = employees[i].employee_code
                /\ \/ employees'[i] = employees[i]
                   \/ \E k \in DOMAIN DemoLine : DemoLine[k].email = employees[i].email
  <1>1. /\ employees \in Seq(EmployeeRow) /\ Distinct(employees) /\ departments # {}
        /\ Id = 1 .. Len(employees) /\ Len(employees) \in Nat
    BY DEF DirectoryInv, DirectoryTypeOK, Import, Id
  <1>2. NewLines = {}
    <2>1. NewLines \subseteq InTheWay
      BY DEF NewLines, InTheWay, WritesCode, DirectoryInv, SeededWhole, Import
    <2> QED BY <2>1, NoLineInTheWay
  <1> DEFINE row(i) == IF LinesOf(employees[i]) = {} THEN employees[i]
                       ELSE Upserted(employees[i],
                                     DemoLine[CHOOSE k \in LinesOf(employees[i]) : TRUE])
  <1>3. employees' = [i \in Id |-> row(i)]
    <2>1. employees' = [i \in Id |-> row(i)]
                         \o [m \in 1 .. Cardinality(NewLines) |-> DemoAccount(DemoLine[NewLine(m)])]
      BY DEF Import, Imported
    <2>2. Cardinality(NewLines) = 0
      BY <1>2, FS_EmptySet
    <2> HIDE DEF row
    <2> QED BY <1>1, <2>1, <2>2
  <1>4. ASSUME NEW i \in Id
        PROVE  /\ row(i) \in EmployeeRow
               /\ row(i).email = employees[i].email
               /\ row(i).employee_code = employees[i].employee_code
               /\ \/ row(i) = employees[i]
                  \/ \E k \in DOMAIN DemoLine : DemoLine[k].email = employees[i].email
    <2>1. employees[i] \in EmployeeRow
      BY <1>1
    <2>2. CASE LinesOf(employees[i]) = {}
      BY <2>1, <2>2
    <2>3. CASE LinesOf(employees[i]) # {}
      <3> DEFINE k == CHOOSE l \in LinesOf(employees[i]) : TRUE
      <3> DEFINE line == DemoLine[k]
      <3>1. k \in DOMAIN DemoLine /\ line.email = employees[i].email
        BY <2>3 DEF LinesOf
      <3>2. line \in Line
        BY <3>1, DirectoryAssumption
      <3>3. DemoAccount(line) \in EmployeeRow
        BY <3>2 DEF DemoAccount, Line, EmployeeRow, EmploymentStatus
      <3>4. row(i) = Upserted(employees[i], line)
        BY <2>3
      <3>5. line.source = "Example" => line.employee_code = employees[i].employee_code
        <4>1. SUFFICES ASSUME line.source = "Example"
                       PROVE  line.employee_code = employees[i].employee_code
          OBVIOUS
        <4>2. PICK j \in Id : employees[j].employee_code = line.employee_code
          BY <1>1, <3>1 DEF DirectoryInv, SeededWhole
        <4>3. employees[j].email = line.email
          BY <3>1, <4>1, <4>2, NoLineInTheWay DEF InTheWay, WritesCode
        <4>4. i = j
          BY <1>1, <3>1, <4>3 DEF Distinct, Id
        <4> QED BY <4>2, <4>4
      <3> HIDE DEF line, k, row
      <3>6. CASE line.source = "Example"
        <4>1. row(i) = [DemoAccount(line) EXCEPT !.password = employees[i].password]
          BY <3>4, <3>6 DEF Upserted
        <4>2. DemoAccount(line).email = line.email /\ DemoAccount(line).employee_code = line.employee_code
          BY DEF DemoAccount
        <4>3. /\ row(i) \in EmployeeRow /\ row(i).email = line.email
              /\ row(i).employee_code = line.employee_code
          BY <2>1, <3>3, <4>1, <4>2 DEF EmployeeRow
        <4> QED BY <3>1, <3>5, <3>6, <4>3 DEF line
      <3>7. CASE line.source = "Custom"
        <4>1. row(i) = [DemoAccount(line) EXCEPT !.employee_code = employees[i].employee_code]
          BY <3>4, <3>7 DEF Upserted
        <4>2. DemoAccount(line).email = line.email
          BY DEF DemoAccount
        <4>3. /\ row(i) \in EmployeeRow /\ row(i).email = line.email
              /\ row(i).employee_code = employees[i].employee_code
          BY <2>1, <3>3, <4>1, <4>2 DEF EmployeeRow
        <4> QED BY <3>1, <4>3 DEF line
      <3>8. CASE line.source \notin {"Example", "Custom"}
        BY <2>1, <3>4, <3>8 DEF Upserted
      <3> QED BY <3>6, <3>7, <3>8
    <2> QED BY <2>2, <2>3
  <1>5. /\ employees' \in Seq(EmployeeRow) /\ Id' = Id
        /\ \A i \in Id : employees'[i] = row(i)
    <2> HIDE DEF row
    <2> QED BY <1>1, <1>3, <1>4 DEF Id
  <1>6. Distinct(employees')
    <2> HIDE DEF row
    <2> QED BY <1>1, <1>4, <1>5 DEF Distinct, Id
  <1> HIDE DEF row
  <1> QED BY <1>4, <1>5, <1>6

\* The initial state is empty.
LEMMA DirectoryStarts == DirectoryInit => DirectoryInv
  <1> SUFFICES ASSUME DirectoryInit PROVE DirectoryInv
    OBVIOUS
  <1>1. employees = <<>> /\ audit_log = <<>> /\ Id = {} /\ departments = {}
    BY DEF DirectoryInit, Id
  <1>2. DirectoryTypeOK
    BY <1>1, DirectoryAssumption DEF DirectoryInit, DirectoryTypeOK, Distinct
  <1>3. SeededWhole
    BY <1>1 DEF SeededWhole
  <1>4. /\ imports \in Nat /\ DOMAIN session = Worker
        /\ \A p \in Process : server[p] # "up"
        /\ \A w \in Worker : session[w] = Idle
    BY DEF DirectoryInit
  <1> QED BY <1>2, <1>3, <1>4 DEF DirectoryInv, SessionOK

\* A step of a request that leaves accounts, tokens and audit trail alone.
LEMMA OnlySession ==
    ASSUME DirectoryInv, NEW w \in Worker, NEW x, SessionOK(x), departments # {},
           session' = [session EXCEPT ![w] = x], UNCHANGED <<directory, processes, tokens>>
    PROVE  DirectoryInv'
  <1>1. DirectoryTypeOK' /\ SeededWhole'
    BY DEF DirectoryInv, DirectoryTypeOK, SeededWhole, directory, processes, Distinct, Id
  <1>2. \A v \in Worker : SessionOK(session'[v])
    BY DEF DirectoryInv
  <1>3. \A v \in Worker : SessionOK(session[v])'
    BY <1>2 DEF SessionOK, Id, directory
  <1> QED BY <1>1, <1>3 DEF DirectoryInv, directory, processes

\* A step of a request that writes accounts, perhaps with an entry in the trail.
LEMMA WrittenAccounts ==
    ASSUME DirectoryInv, departments # {}, NEW w \in Worker, NEW x,
           employees' \in Seq(EmployeeRow), Distinct(employees'), Id \subseteq Id',
           \A i \in Id : employees'[i].employee_code = employees[i].employee_code,
           SessionOK(x)', session' = [session EXCEPT ![w] = x],
           audit_log' \in Seq(Entry),
           UNCHANGED <<departments, imports, processes, tokens>>
    PROVE  DirectoryInv'
  <1>1. SeededWhole'
    BY SeedsKept DEF DirectoryInv
  <1>2. DirectoryTypeOK'
    BY DEF DirectoryInv, DirectoryTypeOK, processes, Entry
  <1>3. \A v \in Worker : SessionOK(session[v])'
    <2>1. ASSUME NEW v \in Worker, v # w PROVE SessionOK(session[v])'
      <3>1. session'[v] = session[v] /\ SessionOK(session[v])
        BY <2>1 DEF DirectoryInv
      <3>2. PICK y : y = session[v]
        OBVIOUS
      <3>3. SessionOK(y)
        BY <3>1, <3>2
      <3>4. SessionOK(y)'
        BY <3>3, SessionsKept
      <3>5. session'[v] = y
        BY <3>1, <3>2
      <3> QED BY ONLY <3>4, <3>5 DEF SessionOK
    <2>2. session'[w] = x
      BY DEF DirectoryInv
    <2>3. SessionOK(session[w])'
      BY <2>2 DEF SessionOK
    <2> QED BY <2>1, <2>3
  <1> QED BY <1>1, <1>2, <1>3 DEF DirectoryInv, processes

\* A server that starts, seeds or ends.
LEMMA ServerKeepsDirectory ==
    ASSUME DirectoryInv, NEW p \in Process, Proceed(p) \/ Crash(p)
    PROVE  DirectoryInv'
  <1>1. ASSUME NEW to \in Phase, UNCHANGED <<directory, tokens, session>>,
               schema' \in SchemaRow, server' = [server EXCEPT ![p] = to],
               to = "up" => departments # {}
        PROVE  DirectoryInv'
    BY <1>1 DEF DirectoryInv, DirectoryTypeOK, SeededWhole, directory, Distinct, Id, SessionOK, Phase
  <1>2. schema \in SchemaRow /\ server[p] \in Phase /\ server = [server EXCEPT ![p] = server[p]]
    BY DEF DirectoryInv, DirectoryTypeOK, Phase
  <1>3. \A s \in SchemaRow : Onward(s) \in Phase /\ (Onward(s) = "up" => departments # {})
    BY DEF Onward, MustSeed, Phase
  <1>4. CASE Upgrade(p)
    <2>1. schema' \in SchemaRow /\ server' = server
      BY <1>2, <1>4, SchemaTypes DEF Upgrade
    <2>2. DirectoryTypeOK' /\ SeededWhole'
      BY <1>4, <2>1 DEF Upgrade, DirectoryInv, DirectoryTypeOK, SeededWhole, directory, Distinct, Id
    <2> QED BY <1>4, <2>1, <2>2 DEF Upgrade, DirectoryInv, directory, SessionOK, Id
  <1>5. CASE Inspect(p)
    BY <1>1, <1>2, <1>5 DEF Inspect, Phase
  <1>6. CASE Initialise(p)
    <2>1. schema' \in SchemaRow
      BY <1>2, <1>6, SchemaTypes DEF Initialise
    <2> QED BY <1>1, <1>3, <1>6, <2>1 DEF Initialise
  <1>7. CASE Start(p)
    BY <1>1, <1>2, <1>3, <1>7 DEF Start
  <1>8. CASE Seed(p)
    <2>1. employees = <<>> /\ departments = {} /\ \A w \in Worker : session[w] = Idle
      BY <1>8 DEF Seed, DirectoryInv, SeededWhole
    <2>2. employees' = [k \in DOMAIN DemoLine |-> DemoAccount(DemoLine[k])]
      BY <1>8 DEF Seed, Seeded, DemoAccounts
    <2>3. \A line \in Line : /\ DemoAccount(line) \in EmployeeRow
                             /\ DemoAccount(line).email = line.email
                             /\ DemoAccount(line).employee_code = line.employee_code
      BY DEF DemoAccount, Line, EmployeeRow, EmploymentStatus
    <2>4. /\ DOMAIN employees' = DOMAIN DemoLine
          /\ \A k \in DOMAIN DemoLine : employees'[k] = DemoAccount(DemoLine[k]) /\ DemoLine[k] \in Line
      BY <2>2, DirectoryAssumption
    <2>5. employees' \in Seq(EmployeeRow)
      BY <2>2, <2>3, DirectoryAssumption
    <2>6. Distinct(employees')
      BY <2>3, <2>4, DirectoryAssumption DEF Distinct
    <2>7. departments' = Department /\ Department # {}
      BY <1>8, DirectoryAssumption DEF Seed
    <2>8. SeededWhole'
      BY <2>3, <2>4, <2>7 DEF SeededWhole, Id
    <2>9. server' \in [Process -> Phase]
      BY <1>8 DEF Seed, DirectoryInv, DirectoryTypeOK, Phase
    <2>10. DirectoryTypeOK'
      BY <1>8, <2>5, <2>6, <2>7, <2>9 DEF Seed, DirectoryInv, DirectoryTypeOK, Phase
    <2>11. \A w \in Worker : SessionOK(session[w])'
      BY <1>8, <2>1 DEF Seed, SessionOK
    <2> QED BY <1>8, <2>7, <2>8, <2>10, <2>11 DEF Seed, DirectoryInv
  <1>9. CASE SeedFails(p)
    BY <1>1, <1>2, <1>9 DEF SeedFails, Phase
  <1>10. CASE Crash(p)
    BY <1>1, <1>2, <1>10 DEF Crash, Phase
  <1> QED BY <1>4, <1>5, <1>6, <1>7, <1>8, <1>9, <1>10 DEF Proceed

\* What the query for a token's e-mail leads to.
LEMMA LookLeads ==
    ASSUME DirectoryInv, NEW w \in Worker, NEW token \in tokens,
           NEW otherwise \in {"Unknown", "Recovering"}, Look(w, token, otherwise)
    PROVE  \E x : SessionOK(x) /\ session' = [session EXCEPT ![w] = x]
  <1>1. ASSUME NEW i \in Id PROVE SessionOK(Acting(i))
    <2>1. employees[i].role \in Role
      BY RowFields DEF DirectoryInv, DirectoryTypeOK, Id
    <2> QED BY <2>1 DEF Acting, SessionOK
  <1>2. CASE \E i \in Id : HasEmail(i, token.email)
    <2> DEFINE i == CHOOSE j \in Id : HasEmail(j, token.email)
    <2>1. i \in Id
      BY <1>2
    <2>2. session' = [session EXCEPT ![w] =
                        IF employees[i].employment_status = "Active" THEN Acting(i) ELSE Idle]
      BY <1>2 DEF Look
    <2>3. SessionOK(Acting(i)) /\ SessionOK(Idle)
      BY <1>1, <2>1 DEF SessionOK
    <2> HIDE DEF i
    <2> QED BY <2>2, <2>3
  <1>3. CASE ~ \E i \in Id : HasEmail(i, token.email)
    <2>1. SessionOK([phase |-> otherwise, token |-> token])
      BY DEF SessionOK
    <2>2. session' = [session EXCEPT ![w] = [phase |-> otherwise, token |-> token]]
      BY <1>3 DEF Look
    <2> QED BY <2>1, <2>2
  <1> QED BY <1>2, <1>3

\* What a request in each phase holds.
LEMMA PhaseHolds ==
    ASSUME NEW x, SessionOK(x)
    PROVE  /\ x.phase \in {"Unknown", "Recovering"} => x.token \in tokens
           /\ x.phase = "Acting" => x.actor \in Id
           /\ x.phase = "Creating" => x.row \in NewAccount
           /\ x.phase = "Editing" => /\ x.actor \in Id /\ x.target \in Id
                                     /\ x.loaded \in EmployeeRow /\ x.patch \in Patch
  BY DEF SessionOK, Idle


\* A recovered account has the columns of an account.
LEMMA RecoveredRowType ==
    ASSUME DirectoryInv, NEW token \in tokens
    PROVE  RecoveredRow(token) \in EmployeeRow
  <1>1. token \in Token
    BY DEF DirectoryInv, DirectoryTypeOK
  <1> QED BY <1>1, DirectoryAssumption DEF Token, RecoveredRow, EmployeeRow, EmploymentStatus

\* A step of a request keeps the invariant.
LEMMA RequestKeepsDirectory ==
    ASSUME DirectoryInv, NEW w \in Worker,
           \/ \E token \in tokens : Resolve(w, token)
           \/ LookAgain(w)
           \/ Recover(w)
           \/ ChangePassword(w)
           \/ \E row \in NewAccount : PrepareNew(w, row)
           \/ Create(w)
           \/ \E i \in Id, patch \in Patch : LoadForEdit(w, i, patch)
           \/ CommitEdit(w)
           \/ \E i \in Id : Deactivate(w, i)
           \/ RollBack(w)
    PROVE  DirectoryInv'
  <1>1. /\ SessionOK(session[w])
        /\ employees \in Seq(EmployeeRow) /\ Distinct(employees) /\ DOMAIN session = Worker
        /\ audit_log \in Seq(Entry)
    BY DEF DirectoryInv, DirectoryTypeOK, Entry
  <1>2. session[w] # Idle => departments # {}
    BY DEF DirectoryInv
  <1>3. /\ session[w].phase \in {"Unknown", "Recovering"} => session[w].token \in tokens
        /\ session[w].phase = "Acting" => session[w].actor \in Id
        /\ session[w].phase = "Creating" => session[w].row \in NewAccount
        /\ session[w].phase = "Editing" =>
            /\ session[w].actor \in Id /\ session[w].target \in Id
            /\ session[w].loaded \in EmployeeRow /\ session[w].patch \in Patch
    BY <1>1, PhaseHolds
  <1>4. SessionOK(Idle)' /\ SessionOK(Idle)
    BY DEF SessionOK, Idle
  <1>5. CASE \E token \in tokens : Resolve(w, token)
    <2>1. PICK token \in tokens : Resolve(w, token)
      BY <1>5
    <2>2. departments # {}
      BY <2>1 DEF Resolve, Serving, DirectoryInv
    <2>3. PICK x : SessionOK(x) /\ session' = [session EXCEPT ![w] = x]
      BY <2>1, LookLeads DEF Resolve
    <2> QED BY <2>1, <2>2, <2>3, OnlySession DEF Resolve
  <1>6. CASE LookAgain(w)
    <2>1. departments # {} /\ session[w].token \in tokens
      BY <1>2, <1>3, <1>6 DEF LookAgain, Idle
    <2>2. PICK x : SessionOK(x) /\ session' = [session EXCEPT ![w] = x]
      <3>1. PICK token \in tokens : token = session[w].token
        BY <2>1
      <3> QED BY <1>6, <3>1, LookLeads DEF LookAgain
    <2> QED BY <1>6, <2>1, <2>2, OnlySession DEF LookAgain
  <1>7. CASE Recover(w)
    <2>1. departments # {} /\ session[w].token \in tokens
      BY <1>2, <1>3, <1>7 DEF Recover, Idle
    <2> DEFINE row == RecoveredRow(session[w].token)
    <2>2. row \in EmployeeRow
      BY <2>1, RecoveredRowType
    <2>3. PICK r \in EmployeeRow : r = row
      BY <2>2
    <2>4. /\ Add(r)
          /\ session' = [session EXCEPT ![w] = [phase |-> "Acting", actor |-> Len(employees'),
                                                role |-> r.role]]
          /\ UNCHANGED <<departments, audit_log, imports, processes, tokens>>
      BY <1>7, <2>3 DEF Recover
    <2>5. /\ employees' \in Seq(EmployeeRow) /\ Distinct(employees') /\ Id \subseteq Id'
          /\ \A i \in Id : employees'[i] = employees[i]
          /\ Len(employees') \in Id'
      BY <1>1, <2>4, AddedRow
    <2>6. r.role \in Role
      BY RowFields
    <2>7. PICK x : x = [phase |-> "Acting", actor |-> Len(employees'), role |-> r.role]
      OBVIOUS
    <2>8. SessionOK(x)'
      BY <2>5, <2>6, <2>7 DEF SessionOK
    <2> QED BY <1>1, <2>1, <2>4, <2>5, <2>7, <2>8, WrittenAccounts
  <1>8. CASE ChangePassword(w)
    <2>1. departments # {} /\ session[w].actor \in Id
      BY <1>2, <1>3, <1>8 DEF ChangePassword, Idle
    <2>2. PICK i \in Id : i = session[w].actor
      BY <2>1
    <2>3. PICK row : row = [employees[i] EXCEPT !.password = TRUE]
      OBVIOUS
    <2>4. employees[i] \in EmployeeRow
      BY <1>1 DEF Id
    <2>5. /\ row \in EmployeeRow /\ row.email = employees[i].email
          /\ row.employee_code = employees[i].employee_code
      BY <2>3, <2>4 DEF EmployeeRow
    <2>6. employees' = [employees EXCEPT ![i] = row]
      BY <1>8, <2>2, <2>3 DEF ChangePassword
    <2>7. ~Taken(row, Id \ {i})
      BY <1>1, <2>5, ColumnSet
    <2>8. /\ employees' \in Seq(EmployeeRow) /\ Distinct(employees') /\ Id' = Id
          /\ employees'[i] = row /\ \A j \in Id \ {i} : employees'[j] = employees[j]
      BY <1>1, <2>5, <2>6, <2>7, RewrittenRow
    <2> QED BY <1>1, <1>4, <1>8, <2>1, <2>5, <2>8, WrittenAccounts DEF ChangePassword, Ends
  <1>9. CASE \E row \in NewAccount : PrepareNew(w, row)
    <2>1. PICK row \in NewAccount : PrepareNew(w, row)
      BY <1>9
    <2>2. departments # {}
      BY <1>2, <2>1 DEF PrepareNew, IsAdmin, Idle
    <2>3. SessionOK([phase |-> "Creating", row |-> row])
      BY DEF SessionOK
    <2> QED BY <2>1, <2>2, <2>3, OnlySession DEF PrepareNew
  <1>10. CASE Create(w)
    <2>1. departments # {} /\ session[w].row \in NewAccount
      BY <1>2, <1>3, <1>10 DEF Create, Idle
    <2>2. PICK row \in EmployeeRow : row = session[w].row
      BY <2>1, DirectoryAssumption
    <2>3. /\ employees' \in Seq(EmployeeRow) /\ Distinct(employees') /\ Id \subseteq Id'
          /\ \A i \in Id : employees'[i] = employees[i]
      BY <1>1, <1>10, <2>2, AddedRow DEF Create
    <2> QED BY <1>1, <1>4, <1>10, <2>1, <2>3, WrittenAccounts DEF Create, Ends
  <1>11. CASE \E i \in Id, patch \in Patch : LoadForEdit(w, i, patch)
    <2>1. PICK i \in Id, patch \in Patch : LoadForEdit(w, i, patch)
      BY <1>11
    <2>2. departments # {} /\ session[w].actor \in Id
      BY <1>2, <1>3, <2>1 DEF LoadForEdit, IsAdmin, Idle
    <2>3. employees[i] \in EmployeeRow
      BY <1>1 DEF Id
    <2>4. PICK x : x = [phase |-> "Editing", actor |-> session[w].actor, target |-> i,
                        loaded |-> employees[i], patch |-> patch]
      OBVIOUS
    <2>5. SessionOK(x)
      BY <2>2, <2>3, <2>4 DEF SessionOK
    <2> QED BY <2>1, <2>2, <2>4, <2>5, OnlySession DEF LoadForEdit
  <1>12. CASE CommitEdit(w)
    <2>1. /\ departments # {}
          /\ session[w].actor \in Id /\ session[w].target \in Id
          /\ session[w].loaded \in EmployeeRow /\ session[w].patch \in Patch
      BY <1>2, <1>3, <1>12 DEF CommitEdit, Idle
    <2>2. PICK x : x = session[w]
      OBVIOUS
    <2>3. PICK i \in Id : i = x.target
      BY <2>1, <2>2
    <2>4. PICK old \in EmployeeRow : old = employees[i]
      BY <1>1 DEF Id
    <2>5. PICK row : row = Edited(x, old)
      OBVIOUS
    <2>6. PICK fields : fields = Changed(x.loaded, x.patch)
      OBVIOUS
    <2>7. row \in EmployeeRow /\ fields \subseteq Field /\ row.employee_code = old.employee_code
      BY <2>1, <2>2, <2>5, <2>6, EditedRow
    <2>8. /\ ~Taken(row, Id \ {i}) /\ employees' = [employees EXCEPT ![i] = row]
          /\ audit_log' = IF fields = {} THEN audit_log
                          ELSE Append(audit_log, [actor |-> x.actor, employee |-> i,
                                                  fields |-> fields])
          /\ session' = [session EXCEPT ![w] = Idle]
          /\ UNCHANGED <<departments, imports, processes, tokens>>
      BY <1>12, <2>2, <2>3, <2>4, <2>5, <2>6 DEF CommitEdit, Ends
    <2>9. /\ employees' \in Seq(EmployeeRow) /\ Distinct(employees') /\ Id' = Id
          /\ employees'[i] = row /\ \A j \in Id \ {i} : employees'[j] = employees[j]
      BY <1>1, <2>7, <2>8, RewrittenRow
    <2>10. audit_log' \in Seq(Entry)
      <3>1. x.actor \in Nat /\ i \in Nat
        BY <1>1, <2>1, <2>2 DEF Id
      <3>2. PICK e : e = [actor |-> x.actor, employee |-> i, fields |-> fields]
        OBVIOUS
      <3>3. e \in Entry
        BY <2>7, <3>1, <3>2 DEF Entry
      <3> QED BY <1>1, <2>8, <3>2, <3>3
    <2>11. \A j \in Id : employees'[j].employee_code = employees[j].employee_code
      BY <2>4, <2>7, <2>9
    <2> QED BY <1>4, <2>1, <2>8, <2>9, <2>10, <2>11, WrittenAccounts
  <1>13. CASE \E i \in Id : Deactivate(w, i)
    <2>1. PICK i \in Id : Deactivate(w, i)
      BY <1>13
    <2>2. departments # {}
      BY <1>2, <2>1 DEF Deactivate, IsAdmin, Idle
    <2>3. PICK row : row = [employees[i] EXCEPT !.employment_status = "Inactive"]
      OBVIOUS
    <2>4. employees[i] \in EmployeeRow
      BY <1>1 DEF Id
    <2>5. /\ row \in EmployeeRow /\ row.email = employees[i].email
          /\ row.employee_code = employees[i].employee_code
      BY <2>3, <2>4 DEF EmployeeRow, EmploymentStatus
    <2>6. employees' = [employees EXCEPT ![i] = row]
      BY <2>1, <2>3 DEF Deactivate
    <2>7. ~Taken(row, Id \ {i})
      BY <1>1, <2>5, ColumnSet
    <2>8. /\ employees' \in Seq(EmployeeRow) /\ Distinct(employees') /\ Id' = Id
          /\ employees'[i] = row /\ \A j \in Id \ {i} : employees'[j] = employees[j]
      BY <1>1, <2>5, <2>6, <2>7, RewrittenRow
    <2> QED BY <1>1, <1>4, <2>1, <2>2, <2>5, <2>8, WrittenAccounts DEF Deactivate, Ends
  <1>14. CASE RollBack(w)
    BY <1>2, <1>4, <1>14, OnlySession DEF RollBack, Ends
  <1> QED BY <1>5, <1>6, <1>7, <1>8, <1>9, <1>10, <1>11, <1>12, <1>13, <1>14

\* Every step keeps the invariant.
LEMMA DirectoryStep == DirectoryInv /\ [DirectoryNext]_directoryVars => DirectoryInv'
  <1> SUFFICES ASSUME DirectoryInv, [DirectoryNext]_directoryVars PROVE DirectoryInv'
    OBVIOUS
  <1>1. CASE \E p \in Process : Proceed(p) \/ Crash(p)
    BY <1>1, ServerKeepsDirectory
  <1>2. CASE Import
    <2>1. /\ employees' \in Seq(EmployeeRow) /\ Distinct(employees') /\ Id' = Id
          /\ \A i \in Id : employees'[i].employee_code = employees[i].employee_code
      BY <1>2, ImportInPlace
    <2>2. departments # {} /\ UNCHANGED <<departments, audit_log, processes, tokens, session>>
          /\ imports' = imports + 1
      BY <1>2 DEF Import
    <2>3. SeededWhole'
      BY <2>1, <2>2, SeedsKept DEF DirectoryInv
    <2>4. DirectoryTypeOK'
      BY <2>1, <2>2 DEF DirectoryInv, DirectoryTypeOK, processes
    <2>5. \A w \in Worker : SessionOK(session[w])'
      BY <2>1, <2>2 DEF DirectoryInv, SessionOK
    <2> QED BY <2>2, <2>3, <2>4, <2>5 DEF DirectoryInv, processes
  <1>3. CASE \E i \in Id : Login(i)
    <2>1. PICK i \in Id : Login(i)
      BY <1>3
    <2>2. employees[i] \in EmployeeRow
      BY DEF DirectoryInv, DirectoryTypeOK, Id
    <2>3. tokens \subseteq tokens' /\ tokens' \subseteq Token
      BY <2>1, <2>2, RowFields DEF Login, DirectoryInv, DirectoryTypeOK, Token
    <2>4. DirectoryTypeOK' /\ SeededWhole'
      BY <2>1, <2>3 DEF Login, DirectoryInv, DirectoryTypeOK, SeededWhole, directory, processes,
                        Distinct, Id
    <2>5. ASSUME NEW w \in Worker PROVE SessionOK(session[w])'
      <3>1. Id' = Id /\ session' = session
        BY <2>1 DEF Login, directory, Id
      <3>2. PICK x : x = session[w]
        OBVIOUS
      <3>3. SessionOK(x)
        BY <3>2 DEF DirectoryInv
      <3>4. SessionOK(x)' /\ session'[w] = x
        BY <2>3, <3>1, <3>2, <3>3, SessionsKept
      <3> QED BY ONLY <3>4 DEF SessionOK
    <2> QED BY <2>1, <2>4, <2>5 DEF Login, DirectoryInv, directory, processes
  <1>4. CASE UNCHANGED directoryVars
    BY <1>4 DEF directoryVars, directory, processes, DirectoryInv, DirectoryTypeOK, SeededWhole,
                Distinct, SessionOK, Id
  <1> QED BY <1>1, <1>2, <1>3, <1>4, RequestKeepsDirectory DEF DirectoryNext

\* The table keeps its types and its unique keys, whoever creates, edits,
\* recovers or imports accounts at the same time.
THEOREM DirectoryTypeTheorem == DirectorySpec => []DirectoryTypeOK
  <1>1. DirectoryInv => DirectoryTypeOK
    BY DEF DirectoryInv
  <1> QED BY <1>1, DirectoryStarts, DirectoryStep, PTL DEF DirectorySpec

\* A database is seeded entirely or not at all, and stays so: no later import,
\* edit or recovered account takes the code of a demonstration account away.
THEOREM SeededWholeTheorem == DirectorySpec => []SeededWhole
  <1>1. DirectoryInv => SeededWhole
    BY DEF DirectoryInv
  <1> QED BY <1>1, DirectoryStarts, DirectoryStep, PTL DEF DirectorySpec

-----------------------------------------------------------------------------
(***************************************************************************)
(* Edits and recovered accounts.                                           *)
(***************************************************************************)

\* What the steps write: nothing, the accounts of a new database, an import, one
\* account more, one edit, or the status or the password of one account.
Unwritten == UNCHANGED <<employees, audit_log, imports>> /\ tokens \subseteq tokens'
Founded == /\ Id = {} /\ \A i \in Id' : employees'[i].password
           /\ UNCHANGED <<audit_log, imports, tokens>>
Reset == /\ Id' = Id
         /\ \A i \in Id : \/ employees'[i] = employees[i]
                          \/ \E k \in DOMAIN DemoLine : DemoLine[k].email = employees'[i].email
         /\ imports' = imports + 1
         /\ UNCHANGED <<audit_log, tokens>>
Grown == /\ \E n : Id' = Id \cup {n} /\
                   \/ employees'[n].password
                   \/ \E t \in tokens : t.email = employees'[n].email /\ t.role = employees'[n].role
         /\ \A i \in Id : employees'[i] = employees[i]
         /\ UNCHANGED <<audit_log, imports, tokens>>
NamedEdit == /\ \E i \in Id, entry \in Entry :
                    /\ \A j \in Id \ {i} : employees'[j] = employees[j]
                    /\ \A f \in Field \ entry.fields : employees'[i][f] = employees[i][f]
                    /\ entry.employee = i
                    /\ audit_log' = Append(audit_log, entry)
             /\ Id' = Id /\ UNCHANGED <<imports, tokens>>
ColumnWritten == /\ \E i \in Id :
                    /\ \A j \in Id \ {i} : employees'[j] = employees[j]
                    /\ employees'[i].email = employees[i].email
                    /\ employees'[i].role = employees[i].role
                    /\ employees[i].password => employees'[i].password
                    /\ \/ employees'[i].employment_status = employees[i].employment_status
                       \/ employees'[i].employment_status = "Inactive"
                 /\ Id' = Id /\ UNCHANGED <<audit_log, imports, tokens>>

\* Steps of servers, imports and logins.
LEMMA OtherWrites ==
    ASSUME DirectoryInv,
           \/ \E p \in Process : Proceed(p) \/ Crash(p)
           \/ Import
           \/ \E i \in Id : Login(i)
           \/ UNCHANGED directoryVars
    PROVE  Unwritten \/ Founded \/ Reset
  <1>1. ASSUME NEW p \in Process, Seed(p) PROVE Founded
    <2>1. employees = <<>> /\ Id = {}
      BY <1>1 DEF Seed, DirectoryInv, SeededWhole, Id
    <2>2. employees' = [k \in DOMAIN DemoLine |-> DemoAccount(DemoLine[k])]
      BY <1>1 DEF Seed, Seeded, DemoAccounts
    <2>3. \A line : DemoAccount(line).password
      BY DEF DemoAccount
    <2>4. \A i \in Id' : employees'[i].password
      BY <2>2, <2>3 DEF Id
    <2> QED BY <1>1, <2>1, <2>4 DEF Founded, Seed
  <1>2. ASSUME NEW p \in Process, Proceed(p) \/ Crash(p), ~Seed(p) PROVE Unwritten
    BY <1>2 DEF Proceed, Upgrade, Inspect, Initialise, Start, SeedFails, Crash, Unwritten, directory
  <1>3. ASSUME Import PROVE Reset
    BY <1>3, ImportInPlace DEF Import, Reset
  <1>4. ASSUME NEW i \in Id, Login(i) PROVE Unwritten
    BY <1>4 DEF Login, Unwritten, directory
  <1>5. UNCHANGED directoryVars => Unwritten
    BY DEF Unwritten, directoryVars, directory
  <1> QED BY <1>1, <1>2, <1>3, <1>4, <1>5

\* Steps of a request.
LEMMA RequestWrites ==
    ASSUME DirectoryInv, NEW w \in Worker,
           \/ \E token \in tokens : Resolve(w, token)
           \/ LookAgain(w)
           \/ Recover(w)
           \/ ChangePassword(w)
           \/ \E row \in NewAccount : PrepareNew(w, row)
           \/ Create(w)
           \/ \E i \in Id, patch \in Patch : LoadForEdit(w, i, patch)
           \/ CommitEdit(w)
           \/ \E i \in Id : Deactivate(w, i)
           \/ RollBack(w)
    PROVE  Unwritten \/ Grown \/ NamedEdit \/ ColumnWritten
  <1>1. /\ SessionOK(session[w])
        /\ employees \in Seq(EmployeeRow) /\ Distinct(employees)
        /\ audit_log \in Seq(Entry)
    BY DEF DirectoryInv, DirectoryTypeOK, Entry
  <1>2. /\ session[w].phase \in {"Unknown", "Recovering"} => session[w].token \in tokens
        /\ session[w].phase = "Acting" => session[w].actor \in Id
        /\ session[w].phase = "Creating" => session[w].row \in NewAccount
        /\ session[w].phase = "Editing" =>
            /\ session[w].actor \in Id /\ session[w].target \in Id
            /\ session[w].loaded \in EmployeeRow /\ session[w].patch \in Patch
    BY <1>1, PhaseHolds
  <1>3. CASE \/ \E token \in tokens : Resolve(w, token)
             \/ LookAgain(w)
             \/ \E row \in NewAccount : PrepareNew(w, row)
             \/ \E i \in Id, patch \in Patch : LoadForEdit(w, i, patch)
             \/ RollBack(w)
    BY <1>3 DEF Resolve, LookAgain, PrepareNew, LoadForEdit, RollBack, Unwritten, directory
  <1>4. CASE Recover(w)
    <2>1. session[w].token \in tokens
      BY <1>2, <1>4 DEF Recover
    <2>2. PICK token \in tokens : token = session[w].token
      BY <2>1
    <2>3. PICK row \in EmployeeRow : row = RecoveredRow(token)
      BY RecoveredRowType
    <2>4. Add(row) /\ UNCHANGED <<departments, audit_log, imports, processes, tokens>>
      BY <1>4, <2>2, <2>3 DEF Recover
    <2>5. /\ \A i \in Id : employees'[i] = employees[i]
          /\ Id' = Id \cup {Len(employees')} /\ employees'[Len(employees')] = row
      BY <1>1, <2>4, AddedRow
    <2>6. row.email = token.email /\ row.role = token.role
      BY <2>3 DEF RecoveredRow
    <2>7. Grown
      BY <2>4, <2>5, <2>6 DEF Grown
    <2> QED BY <2>7
  <1>5. CASE Create(w)
    <2>1. session[w].row \in {row \in EmployeeRow : row.password}
      BY <1>2, <1>5, DirectoryAssumption DEF Create
    <2>2. PICK row \in EmployeeRow : row = session[w].row /\ row.password
      BY <2>1
    <2>3. Add(row) /\ UNCHANGED <<departments, audit_log, imports, processes, tokens>>
      BY <1>5, <2>2 DEF Create
    <2>4. /\ \A i \in Id : employees'[i] = employees[i]
          /\ Id' = Id \cup {Len(employees')} /\ employees'[Len(employees')] = row
      BY <1>1, <2>3, AddedRow
    <2>5. Grown
      BY <2>2, <2>3, <2>4 DEF Grown
    <2> QED BY <2>5
  <1>6. ASSUME NEW i \in Id, NEW row, employees' = [employees EXCEPT ![i] = row],
               UNCHANGED <<audit_log, imports, tokens>>,
               row.email = employees[i].email, row.role = employees[i].role,
               employees[i].password => row.password,
               \/ row.employment_status = employees[i].employment_status
               \/ row.employment_status = "Inactive"
        PROVE  ColumnWritten
    <2>1. /\ Id' = Id /\ employees'[i] = row /\ \A j \in Id \ {i} : employees'[j] = employees[j]
      BY <1>1, <1>6 DEF Id
    <2> QED BY <1>6, <2>1 DEF ColumnWritten
  <1>7. CASE ChangePassword(w)
    <2>1. PICK i \in Id : i = session[w].actor
      BY <1>2, <1>7 DEF ChangePassword
    <2>2. PICK row : row = [employees[i] EXCEPT !.password = TRUE]
      OBVIOUS
    <2>3. employees[i] \in EmployeeRow
      BY <1>1 DEF Id
    <2>4. /\ row.email = employees[i].email /\ row.role = employees[i].role /\ row.password
          /\ row.employment_status = employees[i].employment_status
      BY <2>2, <2>3 DEF EmployeeRow
    <2>5. employees' = [employees EXCEPT ![i] = row] /\ UNCHANGED <<audit_log, imports, tokens>>
      BY <1>7, <2>1, <2>2 DEF ChangePassword
    <2> QED BY <1>6, <2>4, <2>5
  <1>8. CASE \E i \in Id : Deactivate(w, i)
    <2>1. PICK i \in Id : Deactivate(w, i)
      BY <1>8
    <2>2. PICK row : row = [employees[i] EXCEPT !.employment_status = "Inactive"]
      OBVIOUS
    <2>3. employees[i] \in EmployeeRow
      BY <1>1 DEF Id
    <2>4. /\ row.email = employees[i].email /\ row.role = employees[i].role
          /\ row.password = employees[i].password /\ row.employment_status = "Inactive"
      BY <2>2, <2>3 DEF EmployeeRow
    <2>5. employees' = [employees EXCEPT ![i] = row] /\ UNCHANGED <<audit_log, imports, tokens>>
      BY <2>1, <2>2 DEF Deactivate
    <2> QED BY <1>6, <2>4, <2>5
  <1>9. CASE CommitEdit(w)
    <2>1. /\ session[w].actor \in Id /\ session[w].target \in Id
          /\ session[w].loaded \in EmployeeRow /\ session[w].patch \in Patch
      BY <1>2, <1>9 DEF CommitEdit
    <2>2. PICK x : x = session[w]
      OBVIOUS
    <2>3. PICK i \in Id : i = x.target
      BY <2>1, <2>2
    <2>4. PICK old \in EmployeeRow : old = employees[i]
      BY <1>1 DEF Id
    <2>5. PICK row : row = Edited(x, old)
      OBVIOUS
    <2>6. PICK fields : fields = Changed(x.loaded, x.patch)
      OBVIOUS
    <2>7. /\ row \in EmployeeRow /\ fields \subseteq Field
          /\ \A f \in Field : f \notin fields => row[f] = old[f]
          /\ fields = {} => row = old
      BY <2>1, <2>2, <2>5, <2>6, EditedRow
    <2>8. /\ employees' = [employees EXCEPT ![i] = row]
          /\ audit_log' = IF fields = {} THEN audit_log
                          ELSE Append(audit_log, [actor |-> x.actor, employee |-> i,
                                                  fields |-> fields])
          /\ UNCHANGED <<imports, tokens>>
      BY <1>9, <2>2, <2>3, <2>4, <2>5, <2>6 DEF CommitEdit
    <2>9. CASE fields = {}
      BY <1>6, <2>4, <2>7, <2>8, <2>9
    <2>10. CASE fields # {}
      <3>1. PICK e : e = [actor |-> x.actor, employee |-> i, fields |-> fields]
        OBVIOUS
      <3>2. x.actor \in Nat /\ i \in Nat
        BY <1>1, <2>1, <2>2 DEF Id
      <3>3. e \in Entry /\ e.employee = i /\ e.fields = fields
        BY <2>7, <3>1, <3>2 DEF Entry
      <3>4. audit_log' = Append(audit_log, e)
        BY <2>8, <2>10, <3>1
      <3>5. /\ Id' = Id /\ employees'[i] = row /\ \A j \in Id \ {i} : employees'[j] = employees[j]
        BY <1>1, <2>8 DEF Id
      <3>6. \A f \in Field \ e.fields : employees'[i][f] = employees[i][f]
        BY <2>4, <2>7, <3>3, <3>5
      <3>7. NamedEdit
        BY <2>8, <3>3, <3>4, <3>5, <3>6 DEF NamedEdit
      <3> QED BY <3>7
    <2> QED BY <2>9, <2>10
  <1> QED BY <1>3, <1>4, <1>5, <1>7, <1>8, <1>9

\* A step writes in one of those ways.
LEMMA Writes ==
    ASSUME DirectoryInv, [DirectoryNext]_directoryVars
    PROVE  Unwritten \/ Founded \/ Reset \/ Grown \/ NamedEdit \/ ColumnWritten
  <1>1. CASE \E w \in Worker :
                \/ \E token \in tokens : Resolve(w, token)
                \/ LookAgain(w)
                \/ Recover(w)
                \/ ChangePassword(w)
                \/ \E row \in NewAccount : PrepareNew(w, row)
                \/ Create(w)
                \/ \E i \in Id, patch \in Patch : LoadForEdit(w, i, patch)
                \/ CommitEdit(w)
                \/ \E i \in Id : Deactivate(w, i)
                \/ RollBack(w)
    BY <1>1, RequestWrites
  <1>2. CASE ~ \E w \in Worker :
                \/ \E token \in tokens : Resolve(w, token)
                \/ LookAgain(w)
                \/ Recover(w)
                \/ ChangePassword(w)
                \/ \E row \in NewAccount : PrepareNew(w, row)
                \/ Create(w)
                \/ \E i \in Id, patch \in Patch : LoadForEdit(w, i, patch)
                \/ CommitEdit(w)
                \/ \E i \in Id : Deactivate(w, i)
                \/ RollBack(w)
    BY <1>2, OtherWrites DEF DirectoryNext
  <1> QED BY <1>1, <1>2

\* The columns an edit may name are read by their names.
LEMMA AlteredColumns ==
    ASSUME NEW old \in EmployeeRow, NEW new \in EmployeeRow
    PROVE  /\ Field \ {"password"} = {"email", "role", "employment_status"}
           /\ new["email"] = new.email /\ old["email"] = old.email
           /\ new["role"] = new.role /\ old["role"] = old.role
           /\ new["employment_status"] = new.employment_status
           /\ old["employment_status"] = old.employment_status
  BY RowFields DEF Field, Column

\* "Every change is recorded in the audit log": an account loses its e-mail, role
\* or status only to an edit that names these columns, a deactivation or an import.
THEOREM EditsAreNamedTheorem == DirectorySpec => EditsAreNamed
  <1>1. ASSUME DirectoryInv, [DirectoryNext]_directoryVars, imports' = imports, NEW i \in Id
        PROVE  ChangeNamed(i)
    <2>1. DirectoryInv'
      BY <1>1, DirectoryStep
    <2>2. imports \in Nat /\ audit_log \in Seq(Entry) /\ employees \in Seq(EmployeeRow)
          /\ employees' \in Seq(EmployeeRow)
      BY <1>1, <2>1 DEF DirectoryInv, DirectoryTypeOK, Entry
    <2>3. employees'[i] = employees[i] => ChangeNamed(i)
      BY DEF Altered, ChangeNamed
    <2>4. CASE Unwritten \/ Founded \/ Reset \/ Grown
      BY <1>1, <2>2, <2>3, <2>4 DEF Unwritten, Founded, Reset, Grown
    <2>5. CASE NamedEdit
      <3>1. PICK j \in Id, entry \in Entry :
                    /\ \A k \in Id \ {j} : employees'[k] = employees[k]
                    /\ \A f \in Field \ entry.fields : employees'[j][f] = employees[j][f]
                    /\ entry.employee = j
                    /\ audit_log' = Append(audit_log, entry)
        BY <2>5 DEF NamedEdit
      <3>2. Len(audit_log') = Len(audit_log) + 1 /\ audit_log'[Len(audit_log')] = entry
        BY <2>2, <3>1
      <3>3. CASE i = j
        <4>1. Altered(i) \subseteq entry.fields
          BY <3>1, <3>3 DEF Altered
        <4> QED BY <3>1, <3>2, <3>3, <4>1 DEF ChangeNamed
      <3>4. CASE i # j
        BY <1>1, <2>3, <3>1, <3>4
      <3> QED BY <3>3, <3>4
    <2>6. CASE ColumnWritten
      <3>1. PICK j \in Id :
                    /\ \A k \in Id \ {j} : employees'[k] = employees[k]
                    /\ employees'[j].email = employees[j].email
                    /\ employees'[j].role = employees[j].role
                    /\ \/ employees'[j].employment_status = employees[j].employment_status
                       \/ employees'[j].employment_status = "Inactive"
        BY <2>6 DEF ColumnWritten
      <3>2. CASE i = j
        <4>1. employees[i] \in EmployeeRow
          BY <1>1, <2>2 DEF Id
        <4>2. employees'[i] \in EmployeeRow
          BY <1>1, <2>2, <2>6 DEF Id, ColumnWritten
        <4>3. Altered(i) \subseteq {"employment_status"}
          BY <3>1, <3>2, <4>1, <4>2, AlteredColumns DEF Altered
        <4>4. employees'[i].employment_status # "Inactive" => "employment_status" \notin Altered(i)
          BY <3>1, <3>2, <4>1, <4>2, AlteredColumns DEF Altered
        <4> QED BY <4>3, <4>4 DEF ChangeNamed
      <3>3. CASE i # j
        BY <1>1, <2>3, <3>1, <3>3
      <3> QED BY <3>2, <3>3
    <2> QED BY <1>1, <2>4, <2>5, <2>6, Writes
  <1>2. DirectoryInv /\ [DirectoryNext]_directoryVars
            => [imports' = imports => \A i \in Id : ChangeNamed(i)]_directoryVars
    BY <1>1
  <1> QED BY <1>2, DirectoryStarts, DirectoryStep, PTL DEF DirectorySpec, EditsAreNamed

\* Why the account i may have the row it has.
Accounted(i, row) ==
    \/ row.password
    \/ \E t \in tokens : t.email = row.email /\ t.role = row.role
    \/ \E k \in DOMAIN audit_log : audit_log[k].employee = i
    \/ imports > 0 /\ \E k \in DOMAIN DemoLine : DemoLine[k].email = row.email

\* An account without a password has a role its owner was logged in with, until
\* it is edited or imported, whoever races to recover it.
THEOREM RecoveredAsIssuedTheorem == DirectorySpec => []RecoveredAsIssued
  <1> DEFINE Inv == DirectoryInv /\ \A i \in Id : Accounted(i, employees[i])
  <1>1. DirectoryInit => Inv
    BY DirectoryStarts DEF DirectoryInit, Id
  <1>2. Inv => RecoveredAsIssued
    BY DEF RecoveredAsIssued, Accounted
  <1>3. Inv /\ [DirectoryNext]_directoryVars => Inv'
    <2> SUFFICES ASSUME Inv, [DirectoryNext]_directoryVars PROVE Inv'
      OBVIOUS
    <2>1. DirectoryInv'
      BY DirectoryStep
    <2>2. imports \in Nat /\ imports' \in Nat /\ audit_log \in Seq(Entry)
      BY <2>1 DEF DirectoryInv, DirectoryTypeOK, Entry
    <2>3. SUFFICES ASSUME NEW i \in Id' PROVE \E row : row = employees'[i] /\ Accounted(i, row)'
      <3>1. \A i \in Id' : Accounted(i, employees[i])'
        BY <2>3 DEF Accounted
      <3> QED BY <2>1, <3>1
    <2>4. PICK row : row = employees'[i]
      OBVIOUS
    <2> SUFFICES Accounted(i, row)'
      BY <2>4
    <2>5. ASSUME Accounted(i, row), tokens \subseteq tokens', imports' >= imports,
                 \/ audit_log' = audit_log
                 \/ \E entry : audit_log' = Append(audit_log, entry)
          PROVE  Accounted(i, row)'
      BY <2>2, <2>5 DEF Accounted
    <2>6. ASSUME i \in Id, employees'[i] = employees[i] PROVE Accounted(i, row)
      BY <2>4, <2>6
    <2>7. CASE Unwritten
      BY <2>2, <2>5, <2>6, <2>7 DEF Unwritten, Id
    <2>8. CASE Founded
      BY <2>4, <2>8 DEF Founded, Accounted
    <2>9. CASE Reset
      <3>1. i \in Id /\ imports' > 0 /\ imports' >= imports
        BY <2>2, <2>9 DEF Reset
      <3>2. CASE employees'[i] = employees[i]
        BY <2>5, <2>6, <2>9, <3>1, <3>2 DEF Reset
      <3>3. CASE \E k \in DOMAIN DemoLine : DemoLine[k].email = employees'[i].email
        BY <2>4, <3>1, <3>3 DEF Accounted
      <3> QED BY <2>9, <3>1, <3>2, <3>3 DEF Reset
    <2>10. CASE Grown
      <3>1. CASE i \in Id
        BY <2>2, <2>5, <2>6, <2>10, <3>1 DEF Grown
      <3>2. CASE i \notin Id
        BY <2>4, <2>10, <3>2 DEF Grown, Accounted
      <3> QED BY <3>1, <3>2
    <2>11. CASE NamedEdit
      <3>1. PICK j \in Id, entry \in Entry :
                    /\ \A k \in Id \ {j} : employees'[k] = employees[k]
                    /\ entry.employee = j
                    /\ audit_log' = Append(audit_log, entry)
        BY <2>11 DEF NamedEdit
      <3>2. i \in Id /\ imports' >= imports /\ tokens' = tokens
        BY <2>2, <2>11 DEF NamedEdit
      <3>3. CASE i = j
        <4>1. Len(audit_log') \in DOMAIN audit_log' /\ audit_log'[Len(audit_log')] = entry
          BY <2>2, <3>1
        <4> QED BY <3>1, <3>3, <4>1 DEF Accounted
      <3>4. CASE i # j
        BY <2>5, <2>6, <3>1, <3>2, <3>4
      <3> QED BY <3>3, <3>4
    <2>12. CASE ColumnWritten
      <3>1. PICK j \in Id :
                    /\ \A k \in Id \ {j} : employees'[k] = employees[k]
                    /\ employees'[j].email = employees[j].email
                    /\ employees'[j].role = employees[j].role
                    /\ employees[j].password => employees'[j].password
        BY <2>12 DEF ColumnWritten
      <3>2. i \in Id /\ imports' >= imports /\ UNCHANGED <<audit_log, tokens, imports>>
        BY <2>2, <2>12 DEF ColumnWritten
      <3>3. CASE i = j
        <4>1. Accounted(i, employees[i])
          BY <3>2
        <4> QED BY <2>4, <3>1, <3>2, <3>3, <4>1 DEF Accounted
      <3>4. CASE i # j
        BY <2>5, <2>6, <3>1, <3>2, <3>4
      <3> QED BY <3>3, <3>4
    <2> QED BY <2>4, <2>7, <2>8, <2>9, <2>10, <2>11, <2>12, Writes
  <1> QED BY <1>1, <1>2, <1>3, PTL DEF DirectorySpec
=============================================================================
