---------------------------- MODULE SchemaProofs ----------------------------
(***************************************************************************)
(* For any releases, columns and kills, a stamped ledger has the columns   *)
(* its stamp promises, an open one those of the running release, and an    *)
(* ALTER never meets a column that exists.                                 *)
(***************************************************************************)
EXTENDS Schema, TLAPS

Tables == {"schema_meta", "diagnoses"}

(* The stamp comes last: after both tables and every column *)
FileInv ==
    file.version # Unstamped =>
        file.tables = Tables /\ Upto(file.version) \subseteq file.columns

(* Outside the migration, the opener sees what is committed *)
SeesFile == ~opener.transaction /\ opener.view = file

(* A migration under a transaction works on a file without a stamp, one    *)
(* without on the file itself; what it has to add is what is not there     *)
Migrating ==
    /\ file.tables = Tables /\ opener.view.tables = Tables
    /\ IF opener.transaction
       THEN /\ file.version = Unstamped
            /\ opener.view.version = opener.release
            /\ opener.current = 1
       ELSE /\ opener.view = file
            /\ file.version # Unstamped
            /\ opener.current = file.version
    /\ Upto(opener.release) \subseteq opener.view.columns \cup opener.todo
    /\ opener.todo \cap opener.view.columns = {}

OpenerInv ==
    /\ opener.stage \in {"meta", "diagnoses", "version", "open"} => SeesFile
    /\ opener.stage = "diagnoses" => "schema_meta" \in file.tables
    /\ opener.stage \in {"version", "open"} => file.tables = Tables
    /\ opener.stage = "migrate" => Migrating
    /\ opener.stage = "open" => Upto(opener.release) \subseteq file.columns

SchemaInv ==
    /\ SchemaTypeOK
    /\ opener.stage # "closed" => opener.release \in Releases
    /\ FileInv
    /\ OpenerInv

-----------------------------------------------------------------------------
(* The empty file satisfies the invariant (Ledger.__init__, a new path).   *)
LEMMA SchemaInvInit == SchemaInit => SchemaInv
BY DEF SchemaInit, SchemaInv, SchemaTypeOK, FileInv, OpenerInv, NoFile, Closed, File,
       Opener, Unstamped

(* A closed opener asks nothing of the file but its own invariant.         *)
LEMMA ClosedKeeps ==
    ASSUME SchemaInv, file' = file, opener' = Closed, kills' \in Nat
    PROVE  SchemaInv'
<1>1. Closed \in Opener /\ Closed.stage = "closed"
  BY DEF Closed, Opener, NoFile, File, Unstamped
<1>2. SchemaTypeOK'
  BY <1>1 DEF SchemaInv, SchemaTypeOK
<1>3. FileInv'
  BY DEF SchemaInv, FileInv, Upto
<1> QED
  BY <1>1, <1>2, <1>3 DEF SchemaInv, OpenerInv

(* What is missing from a file and what is there make up the release       *)
(* (_apply_migrations).                                                    *)
LEMMA MissingCompletes ==
    ASSUME NEW columns \in SUBSET Columns, NEW current \in Nat, NEW release \in Nat,
           current = 1 \/ Upto(current) \subseteq columns
    PROVE  /\ Upto(release) \subseteq columns \cup Missing(columns, current, release)
           /\ Missing(columns, current, release) \cap columns = {}
           /\ Missing(columns, current, release) \subseteq Columns
<1> SUFFICES ASSUME NEW c \in Columns, AddedIn[c] <= release, c \notin columns
             PROVE  current < AddedIn[c]
  BY DEF Upto, Missing
<1>1. AddedIn[c] \in Nat /\ AddedIn[c] > 1
  BY SchemaAssumption
<1>2. CASE current = 1
  BY <1>1, <1>2
<1>3. CASE Upto(current) \subseteq columns
  BY <1>1, <1>3 DEF Upto
<1> QED
  BY <1>2, <1>3

(* Every statement of the opener, and its death, keeps the invariant.      *)
LEMMA SchemaInvStep == SchemaInv /\ [SchemaNext]_schemaVars => SchemaInv'
<1> SUFFICES ASSUME SchemaInv, [SchemaNext]_schemaVars
             PROVE  SchemaInv'
  OBVIOUS
<1> USE DEF Unstamped
<1>t. /\ file \in File /\ opener \in Opener /\ kills \in Nat
      /\ opener.view \in File
      /\ Releases \subseteq Nat \ {0}
  BY SchemaAssumption DEF SchemaInv, SchemaTypeOK, Opener
<1>1. ASSUME NEW r \in Releases, Open(r)
      PROVE  SchemaInv'
  <2>1. /\ opener'.stage = "meta" /\ opener'.release = r /\ opener'.view = file
        /\ ~opener'.transaction
    BY <1>1 DEF Open, Closed
  <2>2. opener' \in Opener
    BY <1>1, <1>t DEF Open, Closed, Opener, NoFile, File
  <2>3. SchemaTypeOK' /\ FileInv'
    BY <1>1, <1>t, <2>2 DEF Open, SchemaTypeOK, SchemaInv, FileInv, Upto
  <2> QED
    BY <1>1, <2>1, <2>3 DEF SchemaInv, OpenerInv, SeesFile, Open
<1>2. ASSUME CreateMeta
      PROVE  SchemaInv'
  <2>1. SeesFile /\ opener.release \in Releases
    BY <1>2 DEF CreateMeta, SchemaInv, OpenerInv
  <2> DEFINE view == [file EXCEPT !.tables = @ \cup {"schema_meta"}]
  <2>2. view \in File /\ view.version = file.version /\ view.columns = file.columns
        /\ view.tables = file.tables \cup {"schema_meta"}
    BY <1>t DEF File
  <2>3. file' = view /\ opener' = [opener EXCEPT !.view = view, !.stage = "diagnoses"]
        /\ kills' = kills
    BY <1>2, <2>1 DEF CreateMeta, Committed, SeesFile
  <2> HIDE DEF view
  <2>4. /\ opener' \in Opener /\ opener'.stage = "diagnoses" /\ opener'.view = view
        /\ opener'.release = opener.release
        /\ opener'.transaction = opener.transaction
    BY <1>t, <2>2, <2>3 DEF Opener
  <2>5. FileInv'
    BY <1>t, <2>2, <2>3 DEF SchemaInv, FileInv, Upto, Tables
  <2> QED
    BY <1>t, <2>1, <2>2, <2>3, <2>4, <2>5
       DEF SchemaInv, SchemaTypeOK, OpenerInv, SeesFile
<1>3. ASSUME CreateDiagnoses
      PROVE  SchemaInv'
  <2>1. SeesFile /\ opener.release \in Releases /\ "schema_meta" \in file.tables
    BY <1>3 DEF CreateDiagnoses, SchemaInv, OpenerInv
  <2> DEFINE view == IF "diagnoses" \in file.tables THEN file
                     ELSE [file EXCEPT !.tables = @ \cup {"diagnoses"},
                                       !.columns = Upto(opener.release)]
  <2>2. /\ view \in File /\ view.version = file.version /\ view.tables = Tables
        /\ "diagnoses" \in file.tables => view.columns = file.columns
    BY <1>t, <2>1 DEF File, Tables, Upto
  <2>3. file' = view /\ opener' = [opener EXCEPT !.view = view, !.stage = "version"]
        /\ kills' = kills
    BY <1>3, <2>1 DEF CreateDiagnoses, Committed, SeesFile
  <2> HIDE DEF view
  <2>4. /\ opener' \in Opener /\ opener'.stage = "version" /\ opener'.view = view
        /\ opener'.release = opener.release
        /\ opener'.transaction = opener.transaction
    BY <1>t, <2>2, <2>3 DEF Opener
  <2>5. FileInv'
    BY <1>t, <2>2, <2>3 DEF SchemaInv, FileInv, Upto, Tables
  <2> QED
    BY <1>t, <2>1, <2>2, <2>3, <2>4, <2>5
       DEF SchemaInv, SchemaTypeOK, OpenerInv, SeesFile
<1>4. ASSUME ReadVersion
      PROVE  SchemaInv'
  <2> DEFINE release == opener.release
             current == Current(file, release)
             todo    == Missing(file.columns, current, release)
             view    == [file EXCEPT !.version = IF @ = Unstamped THEN release ELSE @]
  <2>1. SeesFile /\ release \in Releases /\ release \in Nat \ {0} /\ file.tables = Tables
    BY <1>4, <1>t DEF ReadVersion, SchemaInv, OpenerInv
  <2>2. file.columns \in SUBSET Columns /\ file.version \in Nat
    BY <1>t DEF File
  <2>3. current \in Nat /\ (current = 1 \/ Upto(current) \subseteq file.columns)
        /\ (file.version = Unstamped => current = 1)
        /\ (file.version # Unstamped => current = file.version)
    BY <2>2 DEF Current, SchemaInv, FileInv
  <2>4. /\ Upto(release) \subseteq file.columns \cup todo
        /\ todo \cap file.columns = {}
        /\ todo \subseteq Columns
    BY <2>1, <2>2, <2>3, MissingCompletes
  <2>5. /\ view \in File /\ view.tables = Tables /\ view.columns = file.columns
        /\ file.version = Unstamped => view.version = release
        /\ file.version # Unstamped => view = file
    BY <1>t, <2>1 DEF File
  <2>6. /\ opener' = [opener EXCEPT !.stage = "migrate",
                                    !.transaction = file.version = Unstamped,
                                    !.view = view,
                                    !.current = current, !.todo = todo]
        /\ file' = file /\ kills' = kills
    <3>1. opener.view = file
      BY <2>1 DEF SeesFile
    <3>2. [opener EXCEPT !.view.version = IF @ = Unstamped THEN release ELSE @]
             = [opener EXCEPT !.view = view]
      BY <1>t, <3>1 DEF Opener, File
    <3> QED
      BY <1>4, <1>t, <3>1, <3>2 DEF ReadVersion, Opener, File
  <2> HIDE DEF view, todo, current
  <2>7. /\ opener' \in Opener /\ opener'.stage = "migrate"
        /\ opener'.release = release
        /\ opener'.view = view /\ opener'.current = current /\ opener'.todo = todo
        /\ opener'.transaction = (file.version = Unstamped)
    BY <1>t, <2>3, <2>4, <2>5, <2>6 DEF Opener
  <2>8. Migrating'
    BY <2>1, <2>3, <2>4, <2>5, <2>6, <2>7 DEF Migrating, Upto
  <2>9. FileInv'
    BY <2>6 DEF SchemaInv, FileInv, Upto
  <2> QED
    BY <1>t, <2>1, <2>6, <2>7, <2>8, <2>9 DEF SchemaInv, SchemaTypeOK, OpenerInv
<1>5. ASSUME NEW c \in Columns, Alter(c)
      PROVE  SchemaInv'
  <2> DEFINE view == [opener.view EXCEPT !.columns = @ \cup {c}]
  <2>1. Migrating /\ opener.release \in Releases /\ opener.stage = "migrate"
    BY <1>5 DEF Alter, SchemaInv, OpenerInv
  <2>2. c \in opener.todo /\ c \notin opener.view.columns
    BY <1>5, <2>1 DEF Alter, Migrating
  <2>3. /\ opener' = [opener EXCEPT !.view = view, !.todo = @ \ {c}]
        /\ file' = IF opener.transaction THEN file ELSE view
        /\ kills' = kills
    BY <1>5, <2>2 DEF Alter
  <2>4. /\ view \in File /\ view.version = opener.view.version
        /\ view.tables = opener.view.tables
        /\ view.columns = opener.view.columns \cup {c}
    BY <1>t DEF File
  <2> HIDE DEF view
  <2>5. /\ opener' \in Opener /\ opener'.stage = "migrate"
        /\ opener'.release = opener.release /\ opener'.current = opener.current
        /\ opener'.view = view /\ opener'.todo = opener.todo \ {c}
        /\ opener'.transaction = opener.transaction
    BY <1>t, <2>1, <2>3, <2>4 DEF Opener
  <2>6. Migrating'
    BY <2>1, <2>2, <2>3, <2>4, <2>5 DEF Migrating, Upto
  <2>7. FileInv'
    BY <2>1, <2>3, <2>4 DEF Migrating, SchemaInv, FileInv, Upto
  <2> QED
    BY <1>t, <2>1, <2>3, <2>4, <2>5, <2>6, <2>7 DEF SchemaInv, SchemaTypeOK, OpenerInv
<1>6. ASSUME Stamp
      PROVE  SchemaInv'
  <2> DEFINE view == [opener.view EXCEPT
                 !.version = IF opener.current # opener.release THEN opener.release
                             ELSE @]
  <2>1. Migrating /\ opener.release \in Releases /\ opener.todo = {}
    BY <1>6 DEF Stamp, SchemaInv, OpenerInv
  <2>2. /\ view \in File /\ view.version = opener.release /\ view.tables = Tables
        /\ view.columns = opener.view.columns
    BY <1>t, <2>1 DEF Migrating, File
  <2>3. Upto(opener.release) \subseteq view.columns
    BY <2>1, <2>2 DEF Migrating
  <2>4. /\ opener' = [opener EXCEPT !.view = view, !.stage = "open",
                                    !.transaction = FALSE]
        /\ file' = view /\ kills' = kills
    BY <1>6 DEF Stamp
  <2> HIDE DEF view
  <2>5. /\ opener' \in Opener /\ opener'.stage = "open" /\ opener'.view = view
        /\ opener'.release = opener.release /\ ~opener'.transaction
    BY <1>t, <2>2, <2>4 DEF Opener
  <2>6. FileInv'
    BY <2>2, <2>3, <2>4 DEF FileInv, Upto
  <2> QED
    BY <1>t, <2>1, <2>2, <2>3, <2>4, <2>5, <2>6
       DEF SchemaInv, SchemaTypeOK, OpenerInv, SeesFile, Upto
<1>7. ASSUME Kill
      PROVE  SchemaInv'
  BY <1>7, <1>t, ClosedKeeps DEF Kill
<1>8. ASSUME UNCHANGED schemaVars
      PROVE  SchemaInv'
  BY <1>8 DEF schemaVars, SchemaInv, SchemaTypeOK, FileInv, OpenerInv, SeesFile,
              Migrating, Upto
<1> QED
  BY <1>1, <1>2, <1>3, <1>4, <1>5, <1>6, <1>7, <1>8 DEF SchemaNext, Opening

(* The invariant holds in every behaviour of the openers.                  *)
THEOREM SchemaInvariant == SchemaSpec => []SchemaInv
BY SchemaInvInit, SchemaInvStep, PTL DEF SchemaSpec

(* A stamp never promises columns that are not there, for any releases and *)
(* however often they are killed (_apply_migrations).                      *)
THEOREM StampHonest == SchemaSpec => []StampIsHonest
<1>1. SchemaInv => StampIsHonest
  BY DEF SchemaInv, FileInv, StampIsHonest
<1> QED
  BY <1>1, SchemaInvariant, PTL

(* An open ledger has the tables and columns of the running release, for   *)
(* any sequence of upgrades and downgrades (Ledger.__init__).              *)
THEOREM OpenComplete == SchemaSpec => []OpenIsComplete
<1>1. SchemaInv => OpenIsComplete
  BY DEF SchemaInv, OpenerInv, OpenIsComplete, Tables
<1> QED
  BY <1>1, SchemaInvariant, PTL

(* No ALTER ever meets a column that exists, so no opening fails of itself *)
(* (_apply_migrations, the check against table_info).                      *)
THEOREM AlterNeverCollides ==
    SchemaSpec => [](opener.stage = "migrate" =>
                        opener.todo \cap opener.view.columns = {})
<1>1. SchemaInv => (opener.stage = "migrate" =>
                       opener.todo \cap opener.view.columns = {})
  BY DEF SchemaInv, OpenerInv, Migrating
<1> QED
  BY <1>1, SchemaInvariant, PTL
=============================================================================
