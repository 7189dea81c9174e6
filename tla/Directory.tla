------------------------------- MODULE Directory -------------------------------
(***************************************************************************)
(* The directory of employees: the demonstration data a server seeds when  *)
(* it starts on an empty database (init_models), logins and the tokens     *)
(* they issue, the accounts deps.py makes again for tokens whose e-mail is *)
(* unknown, and what administrators do to accounts, with several servers   *)
(* and several requests at once.                                           *)
(*                                                                         *)
(* A server begins by bringing the schema up to date (Schema).  Sessions   *)
(* work as in Registers: a handler's flush and commit are one step.        *)
(* Names, ranks, departments of employees and must_change_password decide  *)
(* nothing here.                                                           *)
(***************************************************************************)
EXTENDS Integers, Sequences, FiniteSets, Schema

CONSTANTS
    Process,      \* server processes
    Worker,       \* database sessions the servers may have open at once
    Email, Code,  \* e-mail addresses and employee codes, both unique
    Department,   \* the departments of the workbook
    LocalCode,    \* the code deps.py makes of the local part of an e-mail
    DemoLine,     \* sample staff, the break-glass admin, the custom accounts, in order
    EarlierSchema, \* schemas of new databases and of earlier releases
    EarlierToken, \* tokens from before this database, still valid
    Patch,        \* edits: fields with the values asked for
    NewAccount,   \* rows administrators ask to create
    MaxEmployees, \* bound of the table
    MaxEdits,     \* bound of the audit trail
    MaxImports,   \* bound on runs of seed_data --demo
    MaxCrashes    \* bound on the ends of server processes

Role == {"TeachingAssistant", "Admin"}
EmploymentStatus == {"Active", "Inactive"}
\* The columns an edit may name, with what it may ask for.
Column == [email |-> Email, role |-> Role, employment_status |-> EmploymentStatus,
           password |-> {TRUE}]
Field == DOMAIN Column
Token == [email : Email, role : Role]
EmployeeRow == [email : Email, employee_code : Code, role : Role,
                employment_status : EmploymentStatus, password : BOOLEAN]
Line == [email : Email, employee_code : Code, role : Role,
         source : {"Example", "Admin", "Custom"}]

\* employees.email and employees.employee_code are unique.
Distinct(rows) ==
    \A i, j \in DOMAIN rows :
        i # j => rows[i].email # rows[j].email /\ rows[i].employee_code # rows[j].employee_code

ASSUME DirectoryAssumption ==
    /\ Department # {}
    /\ LocalCode \in [Email -> Code]
    /\ DemoLine \in Seq(Line) /\ Distinct(DemoLine)
    /\ \A patch \in Patch : \A f \in DOMAIN patch : f \in Field /\ patch[f] \in Column[f]
    /\ NewAccount \subseteq {row \in EmployeeRow : row.password}
    /\ EarlierSchema \subseteq SchemaRow
    /\ EarlierToken \subseteq Token
    /\ {MaxEmployees, MaxEdits, MaxImports, MaxCrashes} \subseteq Nat

VARIABLES
    schema,      \* committed schema of the database
    server,      \* process -> where it stands between start and end
    departments, \* committed departments
    employees,   \* committed rows in the order of their ids
    audit_log,   \* entries AdminUpdatedEmployee
    tokens,      \* tokens issued so far, by this database or an earlier one
    session,     \* worker -> its request
    imports,     \* runs of seed_data --demo
    crashes      \* processes that ended

directory == <<departments, employees, audit_log, imports>>
processes == <<schema, server, crashes>>
directoryVars == <<directory, processes, tokens, session>>

Id == DOMAIN employees
Idle == [phase |-> "Idle"]

-----------------------------------------------------------------------------
(***************************************************************************)
(* Start of a server                                                       *)
(***************************************************************************)

\* alembic upgrade head, in one transaction.  A process that loses a race here
\* ends and is started again: nothing happened.
Upgrade(p) ==
    /\ server[p] = "down"
    /\ UpgradesFirst /\ schema.tables # Table
    /\ schema' = Upgraded(schema)
    /\ UNCHANGED <<directory, server, crashes, tokens, session>>

\* init_models looks for must_change_password.
Inspect(p) ==
    /\ server[p] = "down"
    /\ UpgradesFirst => schema.tables = Table
    /\ ~Whole(schema)
    /\ server' = [server EXCEPT ![p] =
            IF ColumnMissing(CreateAll(schema)) THEN "adding" ELSE "altering"]
    /\ UNCHANGED <<directory, schema, crashes, tokens, session>>

\* init_models seeds when it finds no department.
MustSeed == departments = {}

\* Where the query for a department leads: it raises if there is no such table.
Onward(s) ==
    IF "office" \notin s.tables THEN "down" ELSE IF MustSeed THEN "seeding" ELSE "up"

\* The statements of init_models up to its COMMIT, and the query after it.  The
\* first one that alters a table locks it, so that two servers do this one after
\* the other.
Initialise(p) ==
    /\ server[p] \in {"adding", "altering"}
    /\ schema' = Initialised(schema, server[p] = "adding")
    /\ server' = [server EXCEPT ![p] = Onward(schema')]
    /\ UNCHANGED <<directory, crashes, tokens, session>>

\* A whole schema is as init_models wants it: its statements change nothing.
Start(p) ==
    /\ server[p] = "down"
    /\ Whole(schema)
    /\ server' = [server EXCEPT ![p] = Onward(schema)]
    /\ UNCHANGED <<directory, schema, crashes, tokens, session>>

DemoAccount(line) ==
    [email |-> line.email, employee_code |-> line.employee_code, role |-> line.role,
     employment_status |-> "Active", password |-> TRUE]
DemoAccounts(lines) == [k \in DOMAIN lines |-> DemoAccount(lines[k])]

MutantSeeded == <<>>
\* The accounts of a new database.
Seeded == DemoAccounts(DemoLine)

\* seed_departments to seed_custom_accounts, in the one transaction of db.
Seed(p) ==
    /\ server[p] = "seeding"
    /\ departments = {} /\ Whole(schema)
    /\ departments' = Department
    /\ employees' = Seeded
    /\ server' = [server EXCEPT ![p] = "up"]
    /\ UNCHANGED <<audit_log, imports, schema, crashes, tokens, session>>

\* Another process committed the departments first, whose code is unique, or the
\* tables are not those of the models: the lifespan of the application raises
\* and the container restarts.
SeedFails(p) ==
    /\ server[p] = "seeding"
    /\ departments # {} \/ ~Whole(schema)
    /\ server' = [server EXCEPT ![p] = "down"]
    /\ UNCHANGED <<directory, schema, crashes, tokens, session>>

Crash(p) ==
    /\ server[p] # "down"
    /\ crashes < MaxCrashes
    /\ crashes' = crashes + 1
    /\ server' = [server EXCEPT ![p] = "down"]
    /\ UNCHANGED <<directory, schema, tokens, session>>

-----------------------------------------------------------------------------
(***************************************************************************)
(* seed_data --demo on a database in use                                   *)
(***************************************************************************)

\* What an import makes of an account it knows by its e-mail: the sheet sets
\* everything but the password, the custom accounts everything but the code,
\* the break-glass administrator is left alone.
Upserted(row, line) ==
    IF line.source = "Example" THEN [DemoAccount(line) EXCEPT !.password = row.password]
    ELSE IF line.source = "Custom" THEN
        [DemoAccount(line) EXCEPT !.employee_code = row.employee_code]
    ELSE row

LinesOf(row) == {k \in DOMAIN DemoLine : DemoLine[k].email = row.email}
\* The lines that make new accounts, in order.
NewLines == {k \in DOMAIN DemoLine : \A i \in Id : employees[i].email # DemoLine[k].email}
NewLine(m) == CHOOSE k \in NewLines : Cardinality({l \in NewLines : l <= k}) = m

Imported ==
    [i \in Id |->
        IF LinesOf(employees[i]) = {} THEN employees[i]
        ELSE Upserted(employees[i], DemoLine[CHOOSE k \in LinesOf(employees[i]) : TRUE])]
    \o [m \in 1 .. Cardinality(NewLines) |-> DemoAccount(DemoLine[NewLine(m)])]

WritesCode(k) == DemoLine[k].source = "Example" \/ k \in NewLines
\* Lines are flushed one by one.  The unique key refuses a code that another
\* account holds whom no line before has given another one.
Refused(k) ==
    /\ WritesCode(k)
    /\ \E i \in Id :
        /\ employees[i].employee_code = DemoLine[k].employee_code
        /\ employees[i].email # DemoLine[k].email
        /\ ~ \E l \in LinesOf(employees[i]) : l < k /\ DemoLine[l].source = "Example"

\* An import with a line that is refused fails as a whole.
Import ==
    /\ departments # {}
    /\ imports < MaxImports
    /\ \A k \in DOMAIN DemoLine : ~Refused(k)
    /\ Len(Imported) <= MaxEmployees
    /\ employees' = Imported
    /\ imports' = imports + 1
    /\ UNCHANGED <<departments, audit_log, processes, tokens, session>>

-----------------------------------------------------------------------------
(***************************************************************************)
(* Requests                                                                *)
(***************************************************************************)

HasEmail(i, e) == employees[i].email = e
Serving == \E p \in Process : server[p] = "up"
Acting(i) == [phase |-> "Acting", actor |-> i, role |-> employees[i].role]

\* Both logins.  A password is verified against a hash, so not without one.
Login(i) ==
    /\ Serving
    /\ employees[i].password
    /\ employees[i].employment_status = "Active"
    /\ tokens' = tokens \cup {[email |-> employees[i].email, role |-> employees[i].role]}
    /\ UNCHANGED <<directory, processes, session>>

\* One query for the e-mail of the token: the employee, a refusal, or the next
\* phase.
Look(w, token, otherwise) ==
    session' = [session EXCEPT ![w] =
        IF \E i \in Id : HasEmail(i, token.email)
        THEN LET i == CHOOSE j \in Id : HasEmail(j, token.email)
             IN  IF employees[i].employment_status = "Active" THEN Acting(i) ELSE Idle
        ELSE [phase |-> otherwise, token |-> token]]

Resolve(w, token) ==
    /\ Serving
    /\ session[w] = Idle
    /\ Look(w, token, "Unknown")
    /\ UNCHANGED <<directory, processes, tokens>>

\* After init_models, which finds departments and seeds nothing.
LookAgain(w) ==
    /\ session[w].phase = "Unknown"
    /\ Look(w, session[w].token, "Recovering")
    /\ UNCHANGED <<directory, processes, tokens>>

MutantRecoveredRow(token) ==
    [email |-> token.email, employee_code |-> LocalCode[token.email], role |-> "TeachingAssistant",
     employment_status |-> "Active", password |-> FALSE]
\* The account made of the claims of a token, with hashed_password "".
RecoveredRow(token) ==
    [email |-> token.email, employee_code |-> LocalCode[token.email], role |-> token.role,
     employment_status |-> "Active", password |-> FALSE]

MutantTakenEmail(row, others) == \E i \in others : employees[i].email = row.email
\* The unique keys of employees refuse the row beside those of others.
Taken(row, others) ==
    \E i \in others : \/ employees[i].email = row.email
                      \/ employees[i].employee_code = row.employee_code

Add(row) ==
    /\ ~Taken(row, Id)
    /\ Len(employees) < MaxEmployees
    /\ employees' = Append(employees, row)

Recover(w) ==
    LET x == session[w]
        row == RecoveredRow(x.token)
    IN  /\ x.phase = "Recovering"
        /\ Add(row)
        /\ session' = [session EXCEPT ![w] = [phase |-> "Acting", actor |-> Len(employees'),
                                              role |-> row.role]]
        /\ UNCHANGED <<departments, audit_log, imports, processes, tokens>>

Ends(w) == session' = [session EXCEPT ![w] = Idle]

\* A refusal, an IntegrityError, a lost connection or the end of the process.
RollBack(w) ==
    /\ session[w] # Idle
    /\ Ends(w)
    /\ UNCHANGED <<directory, processes, tokens>>

\* change_password_first_login.
ChangePassword(w) ==
    LET x == session[w] IN
    /\ x.phase = "Acting"
    /\ employees' = [employees EXCEPT ![x.actor].password = TRUE]
    /\ Ends(w)
    /\ UNCHANGED <<departments, audit_log, imports, processes, tokens>>

IsAdmin(x) == x.phase = "Acting" /\ x.role = "Admin"

\* create_employee, admin_employees_create: the e-mail is looked up first.
PrepareNew(w, row) ==
    /\ IsAdmin(session[w])
    /\ \A i \in Id : ~HasEmail(i, row.email)
    /\ session' = [session EXCEPT ![w] = [phase |-> "Creating", row |-> row]]
    /\ UNCHANGED <<directory, processes, tokens>>

Create(w) ==
    /\ session[w].phase = "Creating"
    /\ Add(session[w].row)
    /\ Ends(w)
    /\ UNCHANGED <<departments, audit_log, imports, processes, tokens>>

\* The columns that differ from what the handler loaded; a new password always.
Changed(row, patch) ==
    {f \in DOMAIN patch : f = "password" \/ patch[f] # row[f]}

\* update_employee, admin_employees_edit: the row is loaded, the e-mail looked
\* up among the others.
LoadForEdit(w, i, patch) ==
    /\ IsAdmin(session[w])
    /\ "email" \in DOMAIN patch => \A j \in Id \ {i} : ~HasEmail(j, patch["email"])
    /\ session' = [session EXCEPT ![w] = [phase |-> "Editing", actor |-> session[w].actor,
                                          target |-> i, loaded |-> employees[i],
                                          patch |-> patch]]
    /\ UNCHANGED <<directory, processes, tokens>>

MutantEdited(x, row) ==
    [f \in DOMAIN row |-> IF f \in DOMAIN x.patch THEN x.patch[f] ELSE x.loaded[f]]
\* The UPDATE names the changed columns and leaves the others as they are now.
Edited(x, row) ==
    [f \in DOMAIN row |-> IF f \in Changed(x.loaded, x.patch) THEN x.patch[f] ELSE row[f]]

CommitEdit(w) ==
    LET x == session[w]
        fields == Changed(x.loaded, x.patch)
        row == Edited(x, employees[x.target])
    IN  /\ x.phase = "Editing"
        /\ ~Taken(row, Id \ {x.target})
        /\ fields # {} => Len(audit_log) < MaxEdits
        /\ employees' = [employees EXCEPT ![x.target] = row]
        /\ audit_log' = IF fields = {} THEN audit_log
                        ELSE Append(audit_log, [actor |-> x.actor, employee |-> x.target,
                                                fields |-> fields])
        /\ Ends(w)
        /\ UNCHANGED <<departments, imports, processes, tokens>>

\* deactivate_employee, admin_employees_deactivate: no audit entry.
Deactivate(w, i) ==
    /\ IsAdmin(session[w])
    /\ employees' = [employees EXCEPT ![i].employment_status = "Inactive"]
    /\ Ends(w)
    /\ UNCHANGED <<departments, audit_log, imports, processes, tokens>>

-----------------------------------------------------------------------------

DirectoryInit ==
    /\ schema \in EarlierSchema
    /\ server = [p \in Process |-> "down"]
    /\ departments = {}
    /\ employees = <<>>
    /\ audit_log = <<>>
    /\ tokens = EarlierToken
    /\ session = [w \in Worker |-> Idle]
    /\ imports = 0
    /\ crashes = 0

Proceed(p) ==
    Upgrade(p) \/ Inspect(p) \/ Initialise(p) \/ Start(p) \/ Seed(p) \/ SeedFails(p)

DirectoryNext ==
    \/ \E p \in Process : Proceed(p) \/ Crash(p)
    \/ Import
    \/ \E i \in Id : Login(i)
    \/ \E w \in Worker :
        \/ \E token \in tokens : Resolve(w, token)
        \/ LookAgain(w)
        \/ Recover(w)
        \/ ChangePassword(w)
        \/ \E row \in NewAccount : PrepareNew(w, row)
        \/ Create(w)
        \/ \E i \in Id, patch \in Patch : LoadForEdit(w, i, patch)
        \/ CommitEdit(w)
        \/ \E i \in Id : Deactivate(w, i)
        \/ RollBack(w)

DirectorySpec == DirectoryInit /\ [][DirectoryNext]_directoryVars

\* The container is restarted unless stopped, and a start-up is a finite
\* sequence of queries.
FairDirectorySpec == DirectorySpec /\ \A p \in Process : WF_directoryVars(Proceed(p))

-----------------------------------------------------------------------------
(***************************************************************************)
(* Properties                                                              *)
(***************************************************************************)

\* The table keeps its types, and no e-mail or code belongs to two accounts,
\* whoever creates, edits, recovers or imports them at the same time.
DirectoryTypeOK ==
    /\ server \in [Process -> {"down", "adding", "altering", "seeding", "up"}]
    /\ schema \in SchemaRow
    /\ departments \in {{}, Department}
    /\ employees \in Seq(EmployeeRow)
    /\ Distinct(employees)
    /\ tokens \subseteq Token
    /\ audit_log \in Seq([actor : Nat, employee : Nat, fields : SUBSET Field])

\* What init_models leaves behind is the schema of the models, though a statement
\* of it that fails takes all the others with it and each failure is swallowed:
\* a server that has passed it finds every table and column, also when another
\* one altered them first.
SchemaServed ==
    \A p \in Process : server[p] \in {"seeding", "up"} => Whole(schema)

\* A database is seeded entirely or not at all, though servers race to seed it
\* and end while they do: what init_models looks at, the departments, is there
\* together with every demonstration account.
SeededWhole ==
    /\ departments = {} => employees = <<>>
    /\ departments # {} =>
            \A k \in DOMAIN DemoLine :
                \E i \in Id : employees[i].employee_code = DemoLine[k].employee_code

\* The columns of an account, other than its password, that a step changes.
Altered(i) == {f \in Field \ {"password"} : employees'[i][f] # employees[i][f]}
ChangeNamed(i) ==
    \/ Altered(i) = {}
    \/ Altered(i) = {"employment_status"} /\ employees'[i].employment_status = "Inactive"
    \/ /\ Len(audit_log') = Len(audit_log) + 1
       /\ audit_log'[Len(audit_log')].employee = i
       /\ Altered(i) \subseteq audit_log'[Len(audit_log')].fields

\* "Every change is recorded in the audit log" (update_employee): outside an
\* import, an account loses its e-mail, role or status only to an edit that
\* names these very columns, and never to an older copy of the row that another
\* administrator's edit still held; a deactivation is the other way to Inactive.
EditsAreNamed == [][imports' = imports => \A i \in Id : ChangeNamed(i)]_directoryVars

\* An account without a password is one that was recovered: until it is edited
\* or imported, its role is one that its owner has been logged in with.
RecoveredAsIssued ==
    \A i \in Id :
        \/ employees[i].password
        \/ \E t \in tokens : t.email = employees[i].email /\ t.role = employees[i].role
        \/ \E k \in DOMAIN audit_log : audit_log[k].employee = i
        \/ imports > 0 /\ \E k \in DOMAIN DemoLine : DemoLine[k].email = employees[i].email

=============================================================================
