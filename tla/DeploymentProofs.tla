-------------------------- MODULE DeploymentProofs --------------------------
(***************************************************************************)
(* For any number of containers, with any images, faults and interventions *)
(* of the operator, the table is the one alembic_version names, and nobody *)
(* serves a schema older than its image.                                   *)
(***************************************************************************)
EXTENDS Deployment, TLAPS

\* What the scripts say, one by one.
LEMMA ScriptValues ==
  /\ Migrations[1].up.adds = {"tickets", "tokens_used", "processing_time_ms"}
  /\ Migrations[1].up.drops = {}
  /\ Migrations[2].up.adds = {"normalized_text"}
  /\ Migrations[2].up.drops = {}
  /\ Migrations[3].up.adds = {"prompt_tokens", "completion_tokens"}
  /\ Migrations[3].up.drops = {"tokens_used"}
  /\ Migrations[4].up.adds = {"llm_response_time_ms"}
  /\ Migrations[4].up.drops = {"processing_time_ms"}
BY DEF Migrations, AddTicketsTable, AddNormalizedText, SplitTokensUsed, RenameProcessingTime,
   Script

\* And the ways back.
LEMMA ReversalValues ==
  /\ Migrations[1].down.adds = {}
  /\ Migrations[1].down.drops = {"tickets", "tokens_used", "processing_time_ms"}
  /\ Migrations[2].down.adds = {}
  /\ Migrations[2].down.drops = {"normalized_text"}
  /\ Migrations[3].down.adds = {"tokens_used"}
  /\ Migrations[3].down.drops = {"completion_tokens", "prompt_tokens"}
  /\ Migrations[4].down.adds = {"processing_time_ms"}
  /\ Migrations[4].down.drops = {"llm_response_time_ms"}
BY DEF Migrations, AddTicketsTable, AddNormalizedText, SplitTokensUsed, RenameProcessingTime,
   Script

After1 == {"tickets", "tokens_used", "processing_time_ms"}
After2 == After1 \cup {"normalized_text"}
After3 == {"tickets", "processing_time_ms", "normalized_text", "prompt_tokens",
           "completion_tokens"}
After4 == {"tickets", "normalized_text", "prompt_tokens", "completion_tokens",
           "llm_response_time_ms"}

\* The columns after each revision.
LEMMA SchemaValues ==
  /\ SchemaOf(0) = {}
  /\ SchemaOf(1) = After1
  /\ SchemaOf(2) = After2
  /\ SchemaOf(3) = After3
  /\ SchemaOf(4) = After4
<1>0. SchemaOf(0) = {}
  BY DEF SchemaOf
<1>1. SchemaOf(1) = After1
  BY ScriptValues DEF SchemaOf, After1, Columns
<1>2. SchemaOf(2) = After2
  BY ScriptValues DEF SchemaOf, After1, After2, Columns
<1>3. SchemaOf(3) = After3
  BY ScriptValues DEF SchemaOf, After3, Columns
<1>4. SchemaOf(4) = After4
  BY ScriptValues DEF SchemaOf, After4, Columns
<1>. QED  BY <1>0, <1>1, <1>2, <1>3, <1>4

\* A script that follows on the revision of the table makes the next one.
LEMMA ScriptStep ==
  ASSUME NEW v \in 0 .. 3
  PROVE  Changed(SchemaOf(v), Migrations[v + 1].up) = SchemaOf(v + 1)
<1>1. CASE v = 0
  BY <1>1, SchemaValues, ScriptValues DEF Changed, After1
<1>2. CASE v = 1
  BY <1>2, SchemaValues, ScriptValues DEF Changed, After1, After2
<1>3. CASE v = 2
  BY <1>3, SchemaValues, ScriptValues DEF Changed, After1, After2, After3
<1>4. CASE v = 3
  BY <1>4, SchemaValues, ScriptValues DEF Changed, After3, After4
<1> QED
  BY <1>1, <1>2, <1>3, <1>4

\* downgrade() undoes what upgrade() did to the columns.
LEMMA ReversalStep ==
  ASSUME NEW v \in 1 .. 4
  PROVE  Changed(SchemaOf(v), Migrations[v].down) = SchemaOf(v - 1)
<1>1. CASE v = 1
  BY <1>1, SchemaValues, ReversalValues DEF Changed, After1
<1>2. CASE v = 2
  BY <1>2, SchemaValues, ReversalValues DEF Changed, After1, After2
<1>3. CASE v = 3
  BY <1>3, SchemaValues, ReversalValues DEF Changed, After1, After2, After3
<1>4. CASE v = 4
  BY <1>4, SchemaValues, ReversalValues DEF Changed, After3, After4
<1> QED
  BY <1>1, <1>2, <1>3, <1>4

\* PostgreSQL refuses a script the table has already seen: each of them adds
\* a column that no later one drops.  This is what keeps the loser of a race
\* from applying its scripts on top of the winner's.
LEMMA AlreadyThere ==
  ASSUME NEW v \in 0 .. 4, NEW r \in 1 .. v
  PROVE  ~Applies(r, SchemaOf(v))
<1>1. /\ v >= 1 => "tickets" \in SchemaOf(v)
      /\ v >= 2 => "normalized_text" \in SchemaOf(v)
      /\ v >= 3 => "prompt_tokens" \in SchemaOf(v)
      /\ v >= 4 => "llm_response_time_ms" \in SchemaOf(v)
  BY SchemaValues DEF After1, After2, After3, After4
<1>2. \/ r = 1 /\ "tickets" \in Migrations[r].up.adds
      \/ r = 2 /\ "normalized_text" \in Migrations[r].up.adds
      \/ r = 3 /\ "prompt_tokens" \in Migrations[r].up.adds
      \/ r = 4 /\ "llm_response_time_ms" \in Migrations[r].up.adds
  BY ScriptValues
<1> QED
  BY <1>1, <1>2 DEF Applies

LEMMA SchemaColumns == \A v : SchemaOf(v) \subseteq Columns
BY DEF SchemaOf

-----------------------------------------------------------------------------
\* An upgrade knows a version the table has had, and an open transaction the
\* one it has; nobody serves, or is about to, before its image is reached.
UpgradesFit(c) ==
  /\ stage[c] = "alter" => seen[c] <= version /\ seen[c] < image[c]
  /\ InTransaction(c) =>
       /\ seen[c] = version
       /\ altered[c] \in version + 1 .. image[c]
       /\ draft[c] = SchemaOf(altered[c])
  /\ stage[c] \in {"boot", "serve"} => version >= image[c]

OneTransaction ==
  \A c, d \in Containers : InTransaction(c) /\ InTransaction(d) => c = d

Inv ==
  /\ TypeOK
  /\ SchemaMatchesVersion
  /\ OneTransaction
  /\ \A c \in Containers : UpgradesFit(c)

LEMMA InitInv == Init => Inv
<1> SUFFICES ASSUME Init PROVE Inv
  OBVIOUS
<1>1. image \in [Containers -> Revisions]
  BY DeploymentAssumption DEF Init
<1>2. TypeOK
  <2>1. \A c \in Containers : ~InTransaction(c)
    BY DEF Init, InTransaction
  <2>2. stage \in [Containers -> Stages]
    BY DEF Init, Stages
  <2>3. /\ seen \in [Containers -> 0 .. 4] /\ altered \in [Containers -> 0 .. 4]
        /\ draft \in [Containers -> SUBSET Columns]
    BY DEF Init
  <2>4. faults \in 0 .. MaxFaults /\ byHand \in 0 .. MaxByHand
    BY DeploymentAssumption DEF Init
  <2>5. schema \subseteq Columns /\ version \in 0 .. 4
    BY DEF Init
  <2>6. rows \in BOOLEAN /\ dbUp \in BOOLEAN
    BY Zenon DEF Init
  <2> QED
    BY <1>1, <2>1, <2>2, <2>3, <2>4, <2>5, <2>6 DEF TypeOK
<1>3. SchemaMatchesVersion
  BY SchemaValues DEF Init, SchemaMatchesVersion
<1>4. OneTransaction /\ \A c \in Containers : UpgradesFit(c)
  BY DEF Init, OneTransaction, UpgradesFit, InTransaction
<1> QED
  BY <1>2, <1>3, <1>4 DEF Inv

\* The first script of an upgrade is the one that follows the table's version,
\* or it is refused.
LEMMA AlterFollows ==
  ASSUME Inv, NEW c \in Containers, Alter(c)
  PROVE  /\ seen[c] = version
         /\ Reached(c) \in version .. image[c] - 1
         /\ SchemaFor(c) = SchemaOf(Reached(c))
<1>1. /\ stage[c] = "alter" /\ seen[c] \in 0 .. 4 /\ version \in 0 .. 4
      /\ altered[c] \in 0 .. 4 /\ image[c] \in 1 .. 4
      /\ Applies(Reached(c) + 1, SchemaFor(c)) /\ Reached(c) < image[c]
      /\ UpgradesFit(c) /\ schema = SchemaOf(version)
  BY DEF Alter, Inv, TypeOK, Revisions, SchemaMatchesVersion
<1>2. CASE InTransaction(c)
  BY <1>1, <1>2 DEF UpgradesFit, Reached, SchemaFor
<1>3. CASE ~InTransaction(c)
  <2>1. Reached(c) = seen[c] /\ SchemaFor(c) = SchemaOf(version) /\ seen[c] <= version
    BY <1>1, <1>3 DEF Reached, SchemaFor, UpgradesFit
  <2>2. ~(seen[c] < version)
    <3>1. SUFFICES ASSUME seen[c] < version PROVE FALSE
      OBVIOUS
    <3>2. seen[c] + 1 \in 1 .. version
      BY <1>1, <3>1
    <3> QED
      BY <1>1, <2>1, <3>2, AlreadyThere
  <2> QED
    BY <1>1, <2>1, <2>2
<1> QED
  BY <1>2, <1>3

LEMMA AlterStep ==
  ASSUME Inv, NEW c \in Containers, Alter(c)
  PROVE  Inv'
<1> DEFINE r == Reached(c) + 1
<1>1. /\ seen[c] = version /\ Reached(c) \in version .. image[c] - 1
      /\ SchemaFor(c) = SchemaOf(Reached(c))
  BY AlterFollows
<1>2. /\ version \in 0 .. 4 /\ image[c] \in 1 .. 4 /\ altered \in [Containers -> 0 .. 4]
      /\ draft \in [Containers -> SUBSET Columns] /\ stage[c] = "alter"
  BY DEF Inv, TypeOK, Revisions, Alter
<1>3. /\ altered' = [altered EXCEPT ![c] = r]
      /\ draft' = [draft EXCEPT ![c] = Changed(SchemaFor(c), Migrations[r].up)]
      /\ InTransaction(c) \/ ~TableLocked
      /\ UNCHANGED <<schema, version, rows, dbUp, image, stage, seen, faults, byHand>>
  BY DEF Alter
<1>4. r \in version + 1 .. image[c] /\ r \in 1 .. 4
  BY <1>1, <1>2
<1>5. draft' = [draft EXCEPT ![c] = SchemaOf(r)]
  <2>1. Reached(c) \in 0 .. 3
    BY <1>1, <1>2
  <2>2. Changed(SchemaFor(c), Migrations[r].up) = SchemaOf(r)
    BY <1>1, <2>1, ScriptStep
  <2> QED
    BY <1>3, <2>2
<1> HIDE DEF r
<1>6. TypeOK'
  BY <1>2, <1>3, <1>4, <1>5, SchemaColumns DEF Inv, TypeOK, InTransaction
<1>7. SchemaMatchesVersion'
  BY <1>3 DEF Inv, SchemaMatchesVersion, SchemaOf
<1>8. OneTransaction'
  BY <1>2, <1>3 DEF Inv, OneTransaction, TableLocked, InTransaction
<1>9. ASSUME NEW d \in Containers PROVE UpgradesFit(d)'
  <2>1. CASE d = c
    BY <1>1, <1>2, <1>3, <1>4, <1>5, <2>1 DEF Inv, UpgradesFit, InTransaction, SchemaOf
  <2>2. CASE d # c
    BY <1>2, <1>3, <1>5, <2>2 DEF Inv, UpgradesFit, InTransaction, SchemaOf
  <2> QED
    BY <2>1, <2>2
<1> QED
  BY <1>6, <1>7, <1>8, <1>9 DEF Inv

LEMMA CommitStep ==
  ASSUME Inv, NEW c \in Containers, CommitUpgrade(c)
  PROVE  Inv'
<1>1. /\ version \in 0 .. 4 /\ image \in [Containers -> 1 .. 4] /\ stage[c] = "alter"
      /\ altered \in [Containers -> 0 .. 4] /\ altered[c] = image[c]
      /\ draft \in [Containers -> SUBSET Columns] /\ stage \in [Containers -> Stages]
  BY DEF Inv, TypeOK, Revisions, CommitUpgrade
<1>2. /\ InTransaction(c) /\ seen[c] = version /\ version < altered[c]
      /\ draft[c] = SchemaOf(altered[c])
  BY <1>1 DEF Inv, UpgradesFit, InTransaction
<1>3. /\ schema' = SchemaOf(altered[c]) /\ version' = altered[c]
      /\ stage' = [stage EXCEPT ![c] = "boot"]
      /\ altered' = [altered EXCEPT ![c] = 0] /\ draft' = [draft EXCEPT ![c] = {}]
      /\ UNCHANGED <<rows, dbUp, image, seen, faults, byHand>>
  BY <1>2 DEF CommitUpgrade, Goes, NoTransaction
<1>4. TypeOK'
  BY <1>1, <1>3, SchemaColumns DEF Inv, TypeOK, InTransaction, Stages
<1>5. SchemaMatchesVersion'
  BY <1>3 DEF SchemaMatchesVersion, SchemaOf
<1>6. OneTransaction'
  BY <1>1, <1>3 DEF Inv, OneTransaction, InTransaction
<1>7. ASSUME NEW d \in Containers PROVE UpgradesFit(d)'
  <2>1. ~InTransaction(d)'
    BY <1>1, <1>2, <1>3 DEF Inv, OneTransaction, InTransaction
  <2>2. seen[d] \in 0 .. 4 /\ image[d] \in 1 .. 4 /\ version' \in 0 .. 4
    BY <1>1, <1>3 DEF Inv, TypeOK
  <2> QED
    BY <1>1, <1>2, <1>3, <2>1, <2>2 DEF Inv, UpgradesFit
<1> QED
  BY <1>4, <1>5, <1>6, <1>7 DEF Inv

\* A container that ends, or does not get anywhere, leaves everything as it was.
LEMMA ExitStep ==
  ASSUME Inv, NEW c \in Containers, Exits(c),
         UNCHANGED <<schema, version, rows, seen>>,
         dbUp' \in BOOLEAN, faults' \in 0 .. MaxFaults, byHand' \in 0 .. MaxByHand,
         image' \in [Containers -> Revisions],
         \A d \in Containers : d # c => image'[d] = image[d]
  PROVE  Inv'
<1>1. /\ stage \in [Containers -> Stages] /\ altered \in [Containers -> 0 .. 4]
      /\ draft \in [Containers -> SUBSET Columns]
      /\ \A d \in Containers : InTransaction(d) => stage[d] = "alter"
  BY DEF Inv, TypeOK
<1>2. /\ stage' = [stage EXCEPT ![c] = "down"]
      /\ altered' = [altered EXCEPT ![c] = 0] /\ draft' = [draft EXCEPT ![c] = {}]
  BY DEF Exits, Goes, NoTransaction
<1>3. TypeOK'
  <2>1. \A d \in Containers : InTransaction(d)' => stage'[d] = "alter"
    BY <1>1, <1>2 DEF InTransaction
  <2> QED
    BY <1>1, <1>2, <2>1 DEF Inv, TypeOK, Stages
<1>4. SchemaMatchesVersion'
  BY DEF Inv, SchemaMatchesVersion, SchemaOf
<1>5. OneTransaction'
  BY <1>1, <1>2 DEF Inv, OneTransaction, InTransaction
<1>6. ASSUME NEW d \in Containers PROVE UpgradesFit(d)'
  <2>1. CASE d = c
    BY <1>1, <1>2, <2>1 DEF UpgradesFit, InTransaction
  <2>2. CASE d # c
    BY <1>1, <1>2, <2>2 DEF Inv, UpgradesFit, InTransaction, SchemaOf
  <2> QED
    BY <2>1, <2>2
<1> QED
  BY <1>3, <1>4, <1>5, <1>6 DEF Inv

\* A step of the start of a container outside of its transaction.
LEMMA StageStep ==
  ASSUME Inv, NEW c \in Containers, NEW st \in Stages, Goes(c, st),
         stage[c] # "alter",
         UNCHANGED <<schema, version, rows, dbUp, image, altered, draft, faults, byHand>>,
         seen' \in [Containers -> 0 .. 4],
         \A d \in Containers : d # c => seen'[d] = seen[d],
         st = "alter" => seen'[c] <= version /\ seen'[c] < image[c],
         st \in {"boot", "serve"} => version >= image[c]
  PROVE  Inv'
<1>1. stage' = [stage EXCEPT ![c] = st] /\ ~InTransaction(c)
  BY DEF Goes, Inv, TypeOK
<1>2. TypeOK'
  BY <1>1 DEF Inv, TypeOK, InTransaction
<1>3. SchemaMatchesVersion' /\ OneTransaction'
  BY DEF Inv, SchemaMatchesVersion, SchemaOf, OneTransaction, InTransaction
<1>4. ASSUME NEW d \in Containers PROVE UpgradesFit(d)'
  <2>1. CASE d = c
    BY <1>1, <2>1 DEF Inv, TypeOK, UpgradesFit, InTransaction
  <2>2. CASE d # c
    BY <1>1, <2>2 DEF Inv, TypeOK, UpgradesFit, InTransaction, SchemaOf
  <2> QED
    BY <2>1, <2>2
<1> QED
  BY <1>2, <1>3, <1>4 DEF Inv

LEMMA ProceedStep ==
  ASSUME Inv, NEW c \in Containers, Proceed(c)
  PROVE  Inv'
<1> USE DEF Inv, TypeOK
<1>1. CASE Start(c)
  BY <1>1, StageStep DEF Start, Stages
<1>2. CASE ConnectFails(c)
  BY <1>2, ExitStep DEF ConnectFails
<1>3. CASE ReadVersion(c)
  <2>1. CASE version = image[c]
    BY <1>3, <2>1, StageStep DEF ReadVersion, Stages, Revisions
  <2>2. CASE version # image[c]
    BY <1>3, <2>2, StageStep DEF ReadVersion, Stages, Revisions
  <2> QED
    BY <2>1, <2>2
<1>4. CASE Alter(c)
  BY <1>4, AlterStep
<1>5. CASE AlterFails(c)
  BY <1>5, ExitStep DEF AlterFails
<1>6. CASE CommitUpgrade(c)
  BY <1>6, CommitStep
<1>7. CASE Serve(c)
  <2>1. version >= image[c]
    BY <1>7 DEF Serve, UpgradesFit
  <2> QED
    BY <1>7, <2>1, StageStep DEF Serve, Stages
<1>8. CASE StartupFails(c)
  BY <1>8, ExitStep DEF StartupFails
<1> QED
  BY <1>1, <1>2, <1>3, <1>4, <1>5, <1>6, <1>7, <1>8 DEF Proceed

LEMMA InsertRowStep ==
  ASSUME Inv, NEW c \in Containers, InsertRow(c)
  PROVE  Inv'
BY DEF InsertRow, Inv, TypeOK, SchemaMatchesVersion, SchemaOf, OneTransaction,
   UpgradesFit, InTransaction

LEMMA CrashStep ==
  ASSUME Inv, NEW c \in Containers, Crash(c)
  PROVE  Inv'
<1>1. faults' \in 0 .. MaxFaults
  BY DeploymentAssumption DEF Crash, Inv, TypeOK
<1> QED
  BY <1>1, ExitStep DEF Crash, Inv, TypeOK

LEMMA DeployStep ==
  ASSUME Inv, NEW c \in Containers, Deploy(c)
  PROVE  Inv'
<1>1. byHand' \in 0 .. MaxByHand
  BY DeploymentAssumption DEF Deploy, Inv, TypeOK
<1>2. /\ image' \in [Containers -> Revisions]
      /\ \A d \in Containers : d # c => image'[d] = image[d]
  BY DEF Deploy, Inv, TypeOK
<1> QED
  BY <1>1, <1>2, ExitStep DEF Deploy, Inv, TypeOK

LEMMA DatabaseStopsStep ==
  ASSUME Inv, DatabaseStops
  PROVE  Inv'
<1>1. faults' \in 0 .. MaxFaults
  BY DeploymentAssumption DEF DatabaseStops, Inv, TypeOK
<1>2. \A c \in Containers : ~InTransaction(c)'
  BY DEF DatabaseStops, InTransaction
<1>3. \A c \in Containers :
        (stage'[c] = stage[c] /\ stage[c] # "alter") \/ stage'[c] = "down"
  BY DEF DatabaseStops
<1>4. TypeOK'
  <2>1. stage' \in [Containers -> Stages]
    BY DEF DatabaseStops, Inv, TypeOK, Stages
  <2>2. /\ altered' \in [Containers -> 0 .. 4]
        /\ draft' \in [Containers -> SUBSET Columns]
    BY DEF DatabaseStops
  <2>3. /\ schema' \subseteq Columns /\ version' \in 0 .. 4 /\ rows' \in BOOLEAN
        /\ dbUp' \in BOOLEAN /\ image' \in [Containers -> Revisions]
        /\ seen' \in [Containers -> 0 .. 4] /\ byHand' \in 0 .. MaxByHand
    BY DEF DatabaseStops, Inv, TypeOK
  <2> QED
    BY <1>1, <1>2, <2>1, <2>2, <2>3 DEF TypeOK
<1>5. SchemaMatchesVersion'
  BY DEF DatabaseStops, Inv, SchemaMatchesVersion, SchemaOf
<1>6. OneTransaction' /\ \A c \in Containers : UpgradesFit(c)'
  BY <1>2, <1>3 DEF DatabaseStops, Inv, OneTransaction, UpgradesFit
<1> QED
  BY <1>4, <1>5, <1>6 DEF Inv

LEMMA DowngradeStep ==
  ASSUME Inv, Downgrade
  PROVE  Inv'
<1>1. byHand' \in 0 .. MaxByHand /\ version \in 1 .. 4 /\ version' = version - 1
  BY DeploymentAssumption DEF Downgrade, Inv, TypeOK
<1>2. schema' = SchemaOf(version')
  BY <1>1, ReversalStep DEF Downgrade, Inv, SchemaMatchesVersion
<1>3. TypeOK'
  BY <1>1, <1>2, SchemaColumns DEF Downgrade, Inv, TypeOK, InTransaction
<1>4. SchemaMatchesVersion'
  BY <1>2 DEF SchemaMatchesVersion, SchemaOf
<1>5. OneTransaction' /\ \A c \in Containers : UpgradesFit(c)'
  BY DEF Downgrade, Inv, TypeOK, OneTransaction, UpgradesFit, InTransaction
<1> QED
  BY <1>3, <1>4, <1>5 DEF Inv

LEMMA NextInv == Inv /\ [Next]_vars => Inv'
<1> SUFFICES ASSUME Inv, [Next]_vars PROVE Inv'
  OBVIOUS
<1>1. CASE UNCHANGED vars
  BY <1>1 DEF vars, Inv, TypeOK, SchemaMatchesVersion, SchemaOf, OneTransaction,
     UpgradesFit, InTransaction
<1>2. CASE DatabaseStarts
  BY <1>2 DEF DatabaseStarts, Inv, TypeOK, SchemaMatchesVersion, SchemaOf,
     OneTransaction, UpgradesFit, InTransaction
<1>3. CASE Next /\ ~DatabaseStarts
  BY <1>3, ProceedStep, InsertRowStep, CrashStep, DeployStep, DatabaseStopsStep,
     DowngradeStep DEF Next
<1> QED
  BY <1>1, <1>2, <1>3

-----------------------------------------------------------------------------
\* Every variable keeps its type.
THEOREM TypeCorrect == Spec => []TypeOK
<1>1. Inv => TypeOK
  BY DEF Inv
<1> QED
  BY <1>1, InitInv, NextInv, PTL DEF Spec

\* Whatever runs, races and dies during an upgrade, alembic_version tells the
\* columns of the table (env.py:39).
THEOREM SchemaFollowsVersion == Spec => []SchemaMatchesVersion
<1>1. Inv => SchemaMatchesVersion
  BY DEF Inv
<1> QED
  BY <1>1, InitInv, NextInv, PTL DEF Spec

\* No container serves over an upgrade that failed, or one it never began
\* (docker-compose.yml:12).
THEOREM ServesItsSchema == Spec => []NeverServesOlderSchema
<1>1. Inv => NeverServesOlderSchema
  BY DEF Inv, UpgradesFit, NeverServesOlderSchema
<1> QED
  BY <1>1, InitInv, NextInv, PTL DEF Spec

\* An upgrade goes all the way to the head of an image, or nowhere.
THEOREM UpgradesAreWhole == Spec => AllOrNothing
<1>1. Inv /\ [Next]_vars =>
        [version' > version => \E c \in Containers : version' = image[c]]_vars
  <2> SUFFICES ASSUME Inv, Next, version' > version
               PROVE  \E c \in Containers : version' = image[c]
    BY DEF vars
  <2>1. ASSUME NEW c \in Containers, Proceed(c)
        PROVE  version' = version \/ version' = image[c]
    BY <2>1 DEF Proceed, Start, ConnectFails, ReadVersion, Alter, AlterFails,
       CommitUpgrade, Serve, StartupFails
  <2>2. ~DatabaseStops /\ ~DatabaseStarts /\ ~Downgrade
    BY DEF DatabaseStops, DatabaseStarts, Downgrade, Inv, TypeOK
  <2>3. \A c \in Containers : ~InsertRow(c) /\ ~Crash(c) /\ ~Deploy(c)
    BY DEF InsertRow, Crash, Deploy, Inv, TypeOK
  <2>4. version' # version
    BY DEF Inv, TypeOK
  <2> QED
    BY <2>1, <2>2, <2>3, <2>4 DEF Next
<1> QED
  BY <1>1, InitInv, NextInv, PTL DEF Spec, AllOrNothing
=============================================================================
