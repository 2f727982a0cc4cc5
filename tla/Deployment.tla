----------------------------- MODULE Deployment -----------------------------
(***************************************************************************)
(* Containers of the service on one database: docker-compose starts each   *)
(* of them with "alembic upgrade head && uvicorn app.main:app" and         *)
(* restarts whatever exits.  A container migrates the schema it finds      *)
(* (migrations/env.py, migrations/versions), connects (AppLifecycle.       *)
(* on_startup), and serves; several may do so at once, with images of      *)
(* different ages.                                                         *)
(*                                                                         *)
(* alembic and PostgreSQL are known from their use here: one upgrade is    *)
(* one transaction (env.py:39) that begins by reading alembic_version,     *)
(* takes the lock of the table with its first DDL statement, and sees what *)
(* has been committed by then.                                             *)
(***************************************************************************)
EXTENDS Integers

CONSTANTS
  Containers,   \* the containers of the service
  FirstImages,  \* the images that may be deployed at the beginning
  MaxFaults,    \* bound: crashes and outages of the database
  MaxByHand     \* bound: downgrades and deployments of the operator

(***************************************************************************)
(* The revisions, in order.  down undoes up: what it adds is what up       *)
(* drops, and the other way round.  "tickets" stands for the table with    *)
(* the columns that never change, its enums and its index; a rename drops  *)
(* one column and adds another.                                            *)
(***************************************************************************)
Script(adds, drops) == [adds |-> adds, drops |-> drops]

AddTicketsTable ==
  [up   |-> Script({"tickets", "tokens_used", "processing_time_ms"}, {}),
   down |-> Script({}, {"tickets", "tokens_used", "processing_time_ms"})]

AddNormalizedText ==
  [up   |-> Script({"normalized_text"}, {}),
   down |-> Script({}, {"normalized_text"})]

SplitTokensUsed ==
  [up   |-> Script({"prompt_tokens", "completion_tokens"}, {"tokens_used"}),
   down |-> Script({"tokens_used"}, {"completion_tokens", "prompt_tokens"})]

RenameProcessingTime ==
  [up   |-> Script({"llm_response_time_ms"}, {"processing_time_ms"}),
   down |-> Script({"processing_time_ms"}, {"llm_response_time_ms"})]

Migrations == <<AddTicketsTable, AddNormalizedText, SplitTokensUsed, RenameProcessingTime>>

Revisions == 1 .. 4

Mut_DemandedTokens == {"normalized_text", "prompt_tokens"}

\* NOT NULL without a default: cannot be added to a table that has rows, and
\* must be written by every INSERT.
Demanded == {"normalized_text"}

Columns == {"tickets", "normalized_text", "tokens_used", "prompt_tokens",
            "completion_tokens", "processing_time_ms", "llm_response_time_ms"}

ASSUME DeploymentAssumption ==
  /\ FirstImages \subseteq Revisions
  /\ MaxFaults \in Nat
  /\ MaxByHand \in Nat

VARIABLES
  schema,   \* the columns, committed
  version,  \* the row of alembic_version; 0 when there is none
  rows,     \* whether the table has rows
  dbUp,     \* whether the database accepts connections
  image,    \* image[c]: the newest revision the image of c contains
  stage,    \* stage[c]: what c is doing
  seen,     \* seen[c]: the version its upgrade has read
  altered,  \* altered[c]: the revision its open transaction has reached
  draft,    \* draft[c]: the schema in that transaction
  faults,   \* how many crashes and outages there were
  byHand    \* how many times the operator has intervened

vars == <<schema, version, rows, dbUp, image, stage, seen, altered, draft,
          faults, byHand>>

Stages == {"down", "connect", "alter", "boot", "serve"}

\* The columns after revision v, as the scripts up to v leave them.
SchemaOf(v) ==
  {c \in Columns : \E r \in 1 .. v :
     /\ c \in Migrations[r].up.adds
     /\ \A q \in r .. v : c \notin Migrations[q].up.drops}

Changed(s, script) == (s \ script.drops) \cup script.adds

\* PostgreSQL refuses a duplicate and a missing column, and a column that the
\* rows there are have no value for.
Applies(r, s) ==
  /\ Migrations[r].up.adds \cap s = {}
  /\ Migrations[r].up.drops \subseteq s
  /\ rows => Migrations[r].up.adds \cap Demanded = {}

Init ==
  /\ schema = {}
  /\ version = 0
  /\ rows = FALSE
  /\ dbUp \in BOOLEAN
  /\ image \in [Containers -> FirstImages]
  /\ stage = [c \in Containers |-> "down"]
  /\ seen = [c \in Containers |-> 0]
  /\ altered = [c \in Containers |-> 0]
  /\ draft = [c \in Containers |-> {}]
  /\ faults = 0
  /\ byHand = 0

-----------------------------------------------------------------------------
(* alembic upgrade head *)

Goes(c, st) == stage' = [stage EXCEPT ![c] = st]

InTransaction(c) == altered[c] # 0

NoTransaction(c) ==
  /\ altered' = [altered EXCEPT ![c] = 0]
  /\ draft' = [draft EXCEPT ![c] = {}]

TableLocked == \E c \in Containers : InTransaction(c)

Mut_ExitsInTransaction(c) == Goes(c, "down") /\ UNCHANGED <<altered, draft>>

\* The process ends, and its transaction with it.
Exits(c) == Goes(c, "down") /\ NoTransaction(c)

\* restart: unless-stopped
Start(c) ==
  /\ stage[c] = "down"
  /\ Goes(c, "connect")
  /\ UNCHANGED <<schema, version, rows, dbUp, image, seen, altered, draft,
                 faults, byHand>>

\* No database, or a version that this image has never heard of: alembic
\* fails, and && keeps uvicorn from starting.
ConnectFails(c) ==
  /\ stage[c] = "connect"
  /\ ~dbUp \/ version > image[c]
  /\ Exits(c)
  /\ UNCHANGED <<schema, version, rows, dbUp, image, seen, faults, byHand>>

ReadVersion(c) ==
  /\ stage[c] = "connect"
  /\ dbUp
  /\ version <= image[c]
  /\ seen' = [seen EXCEPT ![c] = version]
  /\ Goes(c, IF version = image[c] THEN "boot" ELSE "alter")
  /\ UNCHANGED <<schema, version, rows, dbUp, image, altered, draft, faults, byHand>>

Reached(c) == IF InTransaction(c) THEN altered[c] ELSE seen[c]

SchemaFor(c) == IF InTransaction(c) THEN draft[c] ELSE schema

Mut_AlterAutocommits(c) ==
  LET r == Reached(c) + 1
  IN  /\ stage[c] = "alter"
      /\ InTransaction(c) \/ ~TableLocked
      /\ Reached(c) < image[c]
      /\ Applies(r, SchemaFor(c))
      /\ altered' = [altered EXCEPT ![c] = r]
      /\ draft' = [draft EXCEPT ![c] = Changed(SchemaFor(c), Migrations[r].up)]
      /\ schema' = Changed(SchemaFor(c), Migrations[r].up)
      /\ UNCHANGED <<version, rows, dbUp, image, stage, seen, faults, byHand>>

Mut_AlterCommitsEach(c) ==
  LET r == Reached(c) + 1
  IN  /\ stage[c] = "alter"
      /\ InTransaction(c) \/ ~TableLocked
      /\ Reached(c) < image[c]
      /\ Applies(r, SchemaFor(c))
      /\ altered' = [altered EXCEPT ![c] = r]
      /\ draft' = [draft EXCEPT ![c] = Changed(SchemaFor(c), Migrations[r].up)]
      /\ schema' = Changed(SchemaFor(c), Migrations[r].up)
      /\ version' = r
      /\ UNCHANGED <<rows, dbUp, image, stage, seen, faults, byHand>>

\* One more script.  The first statement waits for the lock of the table, so
\* what it finds may be newer than the version that was read.
Alter(c) ==
  LET r == Reached(c) + 1
  IN  /\ stage[c] = "alter"
      /\ InTransaction(c) \/ ~TableLocked
      /\ Reached(c) < image[c]
      /\ Applies(r, SchemaFor(c))
      /\ altered' = [altered EXCEPT ![c] = r]
      /\ draft' = [draft EXCEPT ![c] = Changed(SchemaFor(c), Migrations[r].up)]
      /\ UNCHANGED <<schema, version, rows, dbUp, image, stage, seen, faults, byHand>>

Mut_AlterFailsServes(c) ==
  LET r == Reached(c) + 1
  IN  /\ stage[c] = "alter"
      /\ InTransaction(c) \/ ~TableLocked
      /\ Reached(c) < image[c]
      /\ ~Applies(r, SchemaFor(c))
      /\ Goes(c, "boot")
      /\ NoTransaction(c)
      /\ UNCHANGED <<schema, version, rows, dbUp, image, seen, faults, byHand>>

AlterFails(c) ==
  LET r == Reached(c) + 1
  IN  /\ stage[c] = "alter"
      /\ InTransaction(c) \/ ~TableLocked
      /\ Reached(c) < image[c]
      /\ ~Applies(r, SchemaFor(c))
      /\ Exits(c)
      /\ UNCHANGED <<schema, version, rows, dbUp, image, seen, faults, byHand>>

\* The scripts and the new row of alembic_version commit together.
CommitUpgrade(c) ==
  /\ stage[c] = "alter"
  /\ altered[c] = image[c]
  /\ schema' = draft[c]
  /\ version' = altered[c]
  /\ Goes(c, "boot")
  /\ NoTransaction(c)
  /\ UNCHANGED <<rows, dbUp, image, seen, faults, byHand>>

-----------------------------------------------------------------------------
(* uvicorn: lifespan, AppLifecycle.on_startup, requests *)

Serve(c) ==
  /\ stage[c] = "boot"
  /\ dbUp
  /\ Goes(c, "serve")
  /\ UNCHANGED <<schema, version, rows, dbUp, image, seen, altered, draft,
                 faults, byHand>>

\* _initialize_core turns every exception into a RuntimeError, the lifespan
\* fails and uvicorn exits.
StartupFails(c) ==
  /\ stage[c] = "boot"
  /\ ~dbUp
  /\ Exits(c)
  /\ UNCHANGED <<schema, version, rows, dbUp, image, seen, faults, byHand>>

\* A request stores a ticket: it waits for the lock, writes every column its
\* model has, and fails where the table has others.
InsertRow(c) ==
  /\ stage[c] = "serve"
  /\ dbUp
  /\ ~TableLocked
  /\ SchemaOf(image[c]) \subseteq schema
  /\ schema \cap Demanded \subseteq SchemaOf(image[c])
  /\ rows' = TRUE
  /\ UNCHANGED <<schema, version, dbUp, image, stage, seen, altered, draft,
                 faults, byHand>>

-----------------------------------------------------------------------------
(* Faults, and the operator *)

Crash(c) ==
  /\ stage[c] # "down"
  /\ faults < MaxFaults
  /\ faults' = faults + 1
  /\ Exits(c)
  /\ UNCHANGED <<schema, version, rows, dbUp, image, seen, byHand>>

\* Every transaction is rolled back, and every upgrade fails.
DatabaseStops ==
  /\ dbUp
  /\ faults < MaxFaults
  /\ faults' = faults + 1
  /\ dbUp' = FALSE
  /\ stage' = [c \in Containers |-> IF stage[c] = "alter" THEN "down" ELSE stage[c]]
  /\ altered' = [c \in Containers |-> 0]
  /\ draft' = [c \in Containers |-> {}]
  /\ UNCHANGED <<schema, version, rows, image, seen, byHand>>

DatabaseStarts ==
  /\ ~dbUp
  /\ dbUp' = TRUE
  /\ UNCHANGED <<schema, version, rows, image, stage, seen, altered, draft,
                 faults, byHand>>

\* docker compose up --build with a newer image.
Deploy(c) ==
  /\ byHand < MaxByHand
  /\ byHand' = byHand + 1
  /\ \E r \in Revisions : r > image[c] /\ image' = [image EXCEPT ![c] = r]
  /\ Exits(c)
  /\ UNCHANGED <<schema, version, rows, dbUp, seen, faults>>

\* alembic downgrade -1, with the service stopped.
Downgrade ==
  /\ byHand < MaxByHand
  /\ byHand' = byHand + 1
  /\ dbUp
  /\ version # 0
  /\ \A c \in Containers : stage[c] = "down"
  /\ schema' = Changed(schema, Migrations[version].down)
  /\ version' = version - 1
  /\ rows' = (rows /\ version # 1)
  /\ UNCHANGED <<dbUp, image, stage, seen, altered, draft, faults>>

-----------------------------------------------------------------------------
Proceed(c) ==
  \/ Start(c)
  \/ ConnectFails(c)
  \/ ReadVersion(c)
  \/ Alter(c)
  \/ AlterFails(c)
  \/ CommitUpgrade(c)
  \/ Serve(c)
  \/ StartupFails(c)

Next ==
  \/ \E c \in Containers : Proceed(c) \/ InsertRow(c) \/ Crash(c) \/ Deploy(c)
  \/ DatabaseStops
  \/ DatabaseStarts
  \/ Downgrade

Spec == Init /\ [][Next]_vars

\* docker restarts a container, and the database, for as long as they exit.
FairSpec ==
  /\ Spec
  /\ \A c \in Containers : WF_vars(Proceed(c))
  /\ WF_vars(DatabaseStarts)

-----------------------------------------------------------------------------
(* Properties *)

\* Every variable has its type, and a transaction belongs to an upgrade.
TypeOK ==
  /\ schema \subseteq Columns
  /\ version \in 0 .. 4
  /\ rows \in BOOLEAN
  /\ dbUp \in BOOLEAN
  /\ image \in [Containers -> Revisions]
  /\ stage \in [Containers -> Stages]
  /\ seen \in [Containers -> 0 .. 4]
  /\ altered \in [Containers -> 0 .. 4]
  /\ draft \in [Containers -> SUBSET Columns]
  /\ faults \in 0 .. MaxFaults
  /\ byHand \in 0 .. MaxByHand
  /\ \A c \in Containers : InTransaction(c) => stage[c] = "alter"

\* The table is what alembic_version says it is, although containers upgrade
\* it at the same time, without a lock of alembic's, and may die in the middle
\* (env.py:39): the next upgrade starts from the right script.
SchemaMatchesVersion == schema = SchemaOf(version)

\* An upgrade arrives at the head of an image or nowhere: no crash leaves the
\* table between two revisions that nobody has deployed.
AllOrNothing ==
  [][version' > version => \E c \in Containers : version' = image[c]]_vars

\* Whoever serves has all its columns, or columns newer than it: uvicorn does
\* not start over a failed upgrade (docker-compose.yml:12).
NeverServesOlderSchema ==
  \A c \in Containers : stage[c] = "serve" => version >= image[c]

\* What keeps a container from ever starting: a newer container has moved the
\* schema on, or the table has rows that 4103ebb98256 cannot upgrade.
Excluded(c) ==
  \/ version > image[c]
  \/ version < 2 /\ image[c] >= 2 /\ rows

\* Migrations are applied when a container starts (README.md:32): after any
\* crash, outage or race for the upgrade, every container serves for good that
\* is not excluded.
EveryoneServes ==
  \A c \in Containers : <>[](stage[c] = "serve" \/ Excluded(c))
=============================================================================
