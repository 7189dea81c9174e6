----------------------------- MODULE MCDirectory -----------------------------
(***************************************************************************)
(* A small instance of Directory for TLC.                                  *)
(***************************************************************************)
EXTENDS Directory, TLC

CONSTANTS root, former, ADM, FORMER

\* root is one of the custom accounts; former was an account of an earlier
\* database.
MCDemo == <<[email |-> root, employee_code |-> ADM, role |-> "Admin", source |-> "Custom"]>>
MCEarlier == {[email |-> root, role |-> "Admin"], [email |-> former, role |-> "Admin"]}
\* The local parts of both e-mails are the same.
MCLocalCode == [e \in Email |-> FORMER]

\* A new account with a code of its own, and one with the code of root.
MCNew == [email : {former}, employee_code : Code, role : {"TeachingAssistant"},
          employment_status : {"Active"}, password : {TRUE}]
\* An empty database, and one of the release before attendance.
MCSchema == {Void, InitialSchema(Void)}
MCPatch == {("email" :> former), ("role" :> "Admin") @@ ("password" :> TRUE)}
=============================================================================
