------------------------------- MODULE Schema -------------------------------
(***************************************************************************)
(* Opening the ledger: Ledger.__init__ creates the tables, reads the       *)
(* version the file is stamped with and adds the columns it lacks.         *)
(*                                                                         *)
(* Releases of the brain differ in their SCHEMA_VERSION; any of them may   *)
(* be run on a file any other has left, and be killed at any point. Under  *)
(* Python's sqlite3 a CREATE or ALTER is committed on its own, unless an   *)
(* INSERT or UPDATE before it has begun a transaction.                     *)
(***************************************************************************)
EXTENDS Naturals

CONSTANTS
    Releases,  \* schema versions of the releases that may be run
    Columns,   \* columns that were added after version 1
    AddedIn,   \* column -> the version that added it
    MaxKills   \* bound on the times the brain is killed

ASSUME SchemaAssumption ==
    /\ Releases \subseteq Nat \ {0}
    /\ AddedIn \in [Columns -> Nat]
    /\ \A c \in Columns : AddedIn[c] > 1
    /\ MaxKills \in Nat

VARIABLES
    file,    \* what is committed: the tables, their columns and the stamp
    opener,  \* the process that opens the ledger or has opened it
    kills    \* counter for the bound

schemaVars == <<file, opener, kills>>

Unstamped == 0

File == [tables: SUBSET {"schema_meta", "diagnoses"}, columns: SUBSET Columns,
         version: Nat]

(* view: what the opener's own connection sees; transaction: begun and not *)
(* yet committed; todo: columns that are still to be added                 *)
Opener ==
    [stage: {"closed", "meta", "diagnoses", "version", "migrate", "open"},
     release: Releases \cup {0}, view: File, transaction: BOOLEAN,
     current: Nat, todo: SUBSET Columns]

SchemaTypeOK == file \in File /\ opener \in Opener /\ kills \in Nat

NoFile == [tables |-> {}, columns |-> {}, version |-> Unstamped]

Closed ==
    [stage |-> "closed", release |-> 0, view |-> NoFile, transaction |-> FALSE,
     current |-> 0, todo |-> {}]

SchemaInit == file = NoFile /\ opener = Closed /\ kills = 0

(* The columns a file of a version has *)
Upto(version) == {c \in Columns : AddedIn[c] <= version}

-----------------------------------------------------------------------------
Open(r) ==
    /\ opener.stage = "closed"
    /\ opener' = [Closed EXCEPT !.stage = "meta", !.release = r, !.view = file]
    /\ UNCHANGED <<file, kills>>

(* A statement outside a transaction is committed at once *)
Committed(view, stage) ==
    /\ file' = view
    /\ opener' = [opener EXCEPT !.view = view, !.stage = stage]

(* executescript(_SCHEMA), statement by statement. A table that exists is  *)
(* left as it is, with the columns it has                                  *)
CreateMeta ==
    /\ opener.stage = "meta"
    /\ Committed([opener.view EXCEPT !.tables = @ \cup {"schema_meta"}], "diagnoses")
    /\ UNCHANGED kills

CreateDiagnoses ==
    /\ opener.stage = "diagnoses"
    /\ Committed(IF "diagnoses" \in opener.view.tables THEN opener.view
                 ELSE [opener.view EXCEPT !.tables = @ \cup {"diagnoses"},
                                          !.columns = Upto(opener.release)],
                 "version")
    /\ UNCHANGED kills

(* Fault: every column of a later version is added, there or not *)
MissingUnchecked(existing, current, release) ==
    {c \in Columns : current < AddedIn[c] /\ AddedIn[c] <= release}

(* Fault: the version after the file's own is left out *)
MissingNext(existing, current, release) ==
    {c \in Columns : current + 1 < AddedIn[c] /\ AddedIn[c] <= release} \ existing

(* _apply_migrations: the statements that will be run *)
Missing(existing, current, release) ==
    {c \in Columns : current < AddedIn[c] /\ AddedIn[c] <= release} \ existing

(* Fault: a file without a stamp is taken for a new one *)
CurrentOfNew(view, release) ==
    IF view.version = Unstamped THEN release ELSE view.version

(* A file without a stamp may be new, or one whose opener was killed       *)
(* before it could stamp it                                                *)
Current(view, release) ==
    IF view.version = Unstamped THEN 1 ELSE view.version

(* SELECT version; the INSERT begins a transaction. Then PRAGMA table_info *)
ReadVersion ==
    LET view == opener.view
        current == Current(view, opener.release)
    IN  /\ opener.stage = "version"
        /\ opener' = [opener EXCEPT
               !.stage = "migrate",
               !.transaction = view.version = Unstamped,
               !.view.version = IF @ = Unstamped THEN opener.release ELSE @,
               !.current = current,
               !.todo = Missing(view.columns, current, opener.release)]
        /\ UNCHANGED <<file, kills>>

(* ALTER TABLE ... ADD COLUMN, oldest version first. A column that exists  *)
(* is an error: the transaction is rolled back and the process ends        *)
Alter(c) ==
    LET view == [opener.view EXCEPT !.columns = @ \cup {c}] IN
    /\ opener.stage = "migrate"
    /\ c \in opener.todo
    /\ \A d \in opener.todo : AddedIn[c] <= AddedIn[d]
    /\ IF c \in opener.view.columns
       THEN opener' = Closed /\ file' = file
       ELSE /\ opener' = [opener EXCEPT !.view = view, !.todo = @ \ {c}]
            /\ file' = IF opener.transaction THEN file ELSE view
    /\ UNCHANGED kills

(* The UPDATE of the stamp, if it is not this release's, and the commit    *)
Stamp ==
    LET view == [opener.view EXCEPT
            !.version = IF opener.current # opener.release THEN opener.release ELSE @]
    IN  /\ opener.stage = "migrate"
        /\ opener.todo = {}
        /\ file' = view
        /\ opener' = [opener EXCEPT !.view = view, !.stage = "open",
                                    !.transaction = FALSE]
        /\ UNCHANGED kills

(* The process is killed, or ends; what is not committed is rolled back *)
Kill ==
    /\ opener.stage # "closed"
    /\ kills < MaxKills
    /\ kills' = kills + 1
    /\ opener' = Closed
    /\ UNCHANGED file

Opening ==
    \/ \E r \in Releases : Open(r)
    \/ CreateMeta \/ CreateDiagnoses \/ ReadVersion
    \/ \E c \in Columns : Alter(c)
    \/ Stamp

SchemaNext == Opening \/ Kill

(* A brain that is not running is started, and runs *)
SchemaSpec == SchemaInit /\ [][SchemaNext]_schemaVars /\ WF_schemaVars(Opening)

-----------------------------------------------------------------------------
(* The stamp of a file never promises columns that are not there, whatever *)
(* releases have worked on it and wherever they were killed                *)
(* (_apply_migrations, the transaction around it).                         *)
StampIsHonest ==
    file.version # Unstamped => Upto(file.version) \subseteq file.columns

(* An open ledger has every table and column the running release writes:   *)
(* record and label never meet a missing one, after an upgrade or a        *)
(* downgrade, complete or interrupted (Ledger.__init__).                   *)
OpenIsComplete ==
    opener.stage = "open" =>
        /\ file.tables = {"schema_meta", "diagnoses"}
        /\ Upto(opener.release) \subseteq file.columns

(* Being killed in the middle of a migration does not leave a file that    *)
(* can never be opened again (the check against existing columns).         *)
OpensAgain == opener.stage = "closed" ~> opener.stage = "open"
=============================================================================
