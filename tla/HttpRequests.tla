---------------------------- MODULE HttpRequests ----------------------------
(***************************************************************************)
(* Requests of one process on its pool of database connections: the routes *)
(* of api/tickets.py and the probe of api/health_check.py, from the first  *)
(* statement to the response, with what becomes of every failure on the    *)
(* way (UnitOfWork.__aexit__, sqlalchemy_exception_handler, the routes,    *)
(* MonitoringMiddleware).                                                  *)
(*                                                                         *)
(* analyze and health open blocks of their own, and answer when the last   *)
(* one is closed.  create and get use the session of the request (get_uow),*)
(* whose exit half FastAPI runs after the response, unless the handler     *)
(* raises: then it runs before the response.                               *)
(*                                                                         *)
(* A request has its UnitOfWork to itself, so a block is what module       *)
(* UnitOfWork shows of one that is alone.  The pool is SQLAlchemy's: it    *)
(* tests a connection before it hands it out (pool_pre_ping), takes every  *)
(* connection back, and replaces one that was lost or cancelled in use.    *)
(***************************************************************************)
EXTENDS Integers, FiniteSets

CONSTANTS
  Requests,   \* the requests
  Capacity,   \* POOL_SIZE + MAX_OVERFLOW
  MaxOutages  \* bound: how often the database goes away

ASSUME RequestsAssumption ==
  /\ IsFiniteSet(Requests)
  /\ Capacity \in Nat \ {0}
  /\ MaxOutages \in Nat

Routes == {"analyze", "create", "get", "health"}

\* missing: no such ticket.  known: a unique, foreign key or check violation.
\* other: any other exception, an IntegrityError of another kind or at COMMIT
\* included.  timeout: wait_for has cancelled the probe.
Errors == {"none", "missing", "known", "other", "timeout"}

Stages == {"idle", "wait", "run", "commit", "rollback", "close", "respond", "done"}

VARIABLES
  dbUp,       \* whether the database answers
  outages,    \* how often it has gone away
  scheduler,  \* connections held by jobs and sessions they have abandoned
  route,      \* route[r]: what request r asks for
  stage,      \* stage[r]: the call it waits for
  blocks,     \* blocks[r]: how many blocks it has to run
  passed,     \* passed[r]: how many of them are over
  error,      \* error[r]: the exception on its way to the route
  held,       \* requests that hold a connection
  broken,     \* those whose connection is lost
  status,     \* status[r]: the code of its response; 0 before
  commits,    \* history: COMMITs it has seen succeed
  stored      \* requests whose ticket is committed

vars == <<dbUp, outages, scheduler, route, stage, blocks, passed, error, held, broken,
          status, commits, stored>>

\* The routes on the session of the request.
Scoped(r) == route[r] \in {"create", "get"}

Writes(r) == route[r] \in {"create", "analyze"}

Answered(r) == status[r] # 0

Init ==
  /\ dbUp = TRUE
  /\ outages = 0
  /\ scheduler = 0
  /\ route = [r \in Requests |-> "get"]
  /\ stage = [r \in Requests |-> "idle"]
  /\ blocks = [r \in Requests |-> 1]
  /\ passed = [r \in Requests |-> 0]
  /\ error = [r \in Requests |-> "none"]
  /\ held = {}
  /\ broken = {}
  /\ status = [r \in Requests |-> 0]
  /\ commits = [r \in Requests |-> 0]
  /\ stored = {}

-----------------------------------------------------------------------------
(* The pool and the database *)

Full == Cardinality(held) + scheduler >= Capacity

Goes(r, st) == stage' = [stage EXCEPT ![r] = st]

Meets(r, e) == error' = [error EXCEPT ![r] = e]

\* save, look up, and for some texts a block that stores the result.
BlocksOf(k) == IF k = "analyze" THEN {2, 3} ELSE {1}

Arrive(r, k) ==
  /\ stage[r] = "idle"
  /\ route' = [route EXCEPT ![r] = k]
  /\ \E n \in BlocksOf(k) : blocks' = [blocks EXCEPT ![r] = n]
  /\ Goes(r, "wait")
  /\ UNCHANGED <<dbUp, outages, scheduler, passed, error, held, broken, status, commits, stored>>

\* The first statement of a session takes a connection.
Acquire(r) ==
  /\ stage[r] = "wait"
  /\ ~Full
  /\ dbUp
  /\ held' = held \cup {r}
  /\ Goes(r, "run")
  /\ UNCHANGED <<dbUp, outages, scheduler, route, blocks, passed, error, broken, status, commits, stored>>

\* POOL_TIMEOUT, or no connection to be had.
AcquireFails(r) ==
  /\ stage[r] = "wait"
  /\ Full \/ ~dbUp
  /\ Meets(r, "other")
  /\ Goes(r, "rollback")
  /\ UNCHANGED <<dbUp, outages, scheduler, route, blocks, passed, held, broken, status, commits, stored>>

DatabaseStops ==
  /\ dbUp
  /\ outages < MaxOutages
  /\ outages' = outages + 1
  /\ dbUp' = FALSE
  /\ broken' = held
  /\ UNCHANGED <<scheduler, route, stage, blocks, passed, error, held, status, commits, stored>>

DatabaseStarts ==
  /\ ~dbUp
  /\ dbUp' = TRUE
  /\ UNCHANGED <<outages, scheduler, route, stage, blocks, passed, error, held, broken,
                 status, commits, stored>>

\* A batch of the scheduler, and sessions it leaves to the garbage collector.
SchedulerTakes ==
  /\ ~Full
  /\ scheduler' = scheduler + 1
  /\ UNCHANGED <<dbUp, outages, route, stage, blocks, passed, error, held, broken,
                 status, commits, stored>>

SchedulerGivesBack ==
  /\ scheduler > 0
  /\ scheduler' = scheduler - 1
  /\ UNCHANGED <<dbUp, outages, route, stage, blocks, passed, error, held, broken,
                 status, commits, stored>>

-----------------------------------------------------------------------------
(* Statements, and __aexit__ *)

\* A route on the session of the request goes on to answer; a block is left.
StatementDone(r) ==
  /\ stage[r] = "run"
  /\ r \notin broken
  /\ Goes(r, IF Scoped(r) THEN "respond" ELSE "commit")
  /\ UNCHANGED <<dbUp, outages, scheduler, route, blocks, passed, error, held, broken,
                 status, commits, stored>>

Mut_StatementFailsCommits(r) ==
  /\ stage[r] = "run"
  /\ \/ Meets(r, "other")
     \/ r \notin broken /\ Writes(r) /\ Meets(r, "known")
     \/ r \notin broken /\ route[r] = "get" /\ Meets(r, "missing")
  /\ Goes(r, "commit")
  /\ UNCHANGED <<dbUp, outages, scheduler, route, blocks, passed, held, broken, status,
                 commits, stored>>

\* sqlalchemy_exception_handler tells known violations from everything else;
\* get_ticket raises the HTTPException of a missing ticket itself.
StatementFails(r) ==
  /\ stage[r] = "run"
  /\ \/ Meets(r, "other")
     \/ r \notin broken /\ Writes(r) /\ Meets(r, "known")
     \/ r \notin broken /\ route[r] = "get" /\ Meets(r, "missing")
  /\ Goes(r, "rollback")
  /\ UNCHANGED <<dbUp, outages, scheduler, route, blocks, passed, held, broken, status,
                 commits, stored>>

Mut_CommittedAtEnd(r) ==
  /\ stage[r] = "commit"
  /\ r \notin broken
  /\ commits' = [commits EXCEPT ![r] = @ + 1]
  /\ stored' = IF Writes(r) /\ passed[r] + 1 = blocks[r] THEN stored \cup {r} ELSE stored
  /\ Goes(r, "close")
  /\ UNCHANGED <<dbUp, outages, scheduler, route, blocks, passed, error, held, broken, status>>

Committed(r) ==
  /\ stage[r] = "commit"
  /\ r \notin broken
  /\ commits' = [commits EXCEPT ![r] = @ + 1]
  /\ stored' = IF Writes(r) THEN stored \cup {r} ELSE stored
  /\ Goes(r, "close")
  /\ UNCHANGED <<dbUp, outages, scheduler, route, blocks, passed, error, held, broken, status>>

Mut_CommitFailsSwallowed(r) ==
  /\ stage[r] = "commit"
  /\ UNCHANGED error
  /\ stored' \in {stored, IF Writes(r) THEN stored \cup {r} ELSE stored}
  /\ Goes(r, "rollback")
  /\ UNCHANGED <<dbUp, outages, scheduler, route, blocks, passed, held, broken, status, commits>>

Mut_CommitFailsRetries(r) ==
  /\ stage[r] = "commit"
  /\ UNCHANGED error
  /\ stored' \in {stored, IF Writes(r) THEN stored \cup {r} ELSE stored}
  /\ UNCHANGED <<dbUp, outages, scheduler, route, stage, blocks, passed, held, broken, status, commits>>

\* The server may have obeyed before the connection was lost.
CommitFails(r) ==
  /\ stage[r] = "commit"
  /\ Meets(r, "other")
  /\ stored' \in {stored, IF Writes(r) THEN stored \cup {r} ELSE stored}
  /\ Goes(r, "rollback")
  /\ UNCHANGED <<dbUp, outages, scheduler, route, blocks, passed, held, broken, status, commits>>

RolledBack(r) ==
  /\ stage[r] = "rollback"
  /\ Goes(r, "close")
  /\ UNCHANGED <<dbUp, outages, scheduler, route, blocks, passed, error, held, broken,
                 status, commits, stored>>

Mut_RollbackFailsOpen(r) ==
  /\ stage[r] = "rollback"
  /\ r \in held
  /\ Meets(r, IF error[r] = "timeout" THEN "timeout" ELSE "other")
  /\ Goes(r, "respond")
  /\ UNCHANGED <<dbUp, outages, scheduler, route, blocks, passed, held, broken, status,
                 commits, stored>>

\* Its exception takes the place of the one that led here; the session is
\* closed all the same.
RollbackFails(r) ==
  /\ stage[r] = "rollback"
  /\ r \in held
  /\ Meets(r, IF error[r] = "timeout" THEN "timeout" ELSE "other")
  /\ Goes(r, "close")
  /\ UNCHANGED <<dbUp, outages, scheduler, route, blocks, passed, held, broken, status,
                 commits, stored>>

Mut_AfterCloseOnceMore(r) ==
  IF Answered(r) THEN "done"
  ELSE IF error[r] = "none" /\ passed[r] < blocks[r] THEN "wait"
  ELSE "respond"

\* What follows a closed session: the end, if the response is out; the error
\* response; the next block; or the response.
AfterClose(r) ==
  IF Answered(r) THEN "done"
  ELSE IF error[r] = "none" /\ passed[r] + 1 < blocks[r] THEN "wait"
  ELSE "respond"

Closed(r) ==
  /\ stage[r] = "close"
  /\ held' = held \ {r}
  /\ broken' = broken \ {r}
  /\ passed' = [passed EXCEPT ![r] = @ + 1]
  /\ Goes(r, AfterClose(r))
  /\ UNCHANGED <<dbUp, outages, scheduler, route, blocks, error, status, commits, stored>>

\* HEALTH_CHECK_TIMEOUT_SEC: wait_for cancels the probe in whatever call it
\* waits for.  A cancelled call loses its connection, and a CancelledError is
\* no Exception: after a cancelled COMMIT nothing is rolled back.
CancelProbe(r) ==
  /\ route[r] = "health"
  /\ error[r] # "timeout"
  /\ stage[r] \in {"wait", "run", "commit", "rollback", "close"}
  /\ Meets(r, "timeout")
  /\ Goes(r, IF stage[r] \in {"wait", "run"} THEN "rollback" ELSE "close")
  /\ broken' = broken \cup (held \cap {r})
  /\ UNCHANGED <<dbUp, outages, scheduler, route, blocks, passed, held, status, commits, stored>>

-----------------------------------------------------------------------------
(* The response *)

\* The routes turn IntegrityDataException and DBHealthCheckError into a 503,
\* get_ticket answers 404 itself, and the middleware makes a 500 of the rest.
StatusOf(k, e) ==
  CASE e = "none" -> IF k = "create" THEN 202 ELSE 200
    [] e # "none" /\ k = "health" -> 503
    [] e = "known" -> 503
    [] e = "missing" -> 404
    [] e = "other" /\ k # "health" -> 500

Mut_RespondCloses(r) ==
  /\ stage[r] = "respond"
  /\ status' = [status EXCEPT ![r] = StatusOf(route[r], error[r])]
  /\ Goes(r, IF r \in held THEN "close" ELSE "done")
  /\ UNCHANGED <<dbUp, outages, scheduler, route, blocks, passed, error, held, broken, commits, stored>>

Respond(r) ==
  /\ stage[r] = "respond"
  /\ status' = [status EXCEPT ![r] = StatusOf(route[r], error[r])]
  /\ Goes(r, IF r \in held THEN "commit" ELSE "done")
  /\ UNCHANGED <<dbUp, outages, scheduler, route, blocks, passed, error, held, broken, commits, stored>>

-----------------------------------------------------------------------------
Proceed(r) ==
  \/ Acquire(r)
  \/ AcquireFails(r)
  \/ StatementDone(r)
  \/ StatementFails(r)
  \/ Committed(r)
  \/ CommitFails(r)
  \/ RolledBack(r)
  \/ RollbackFails(r)
  \/ Closed(r)
  \/ Respond(r)

Next ==
  \/ \E r \in Requests, k \in Routes : Arrive(r, k)
  \/ \E r \in Requests : Proceed(r) \/ CancelProbe(r)
  \/ DatabaseStops
  \/ DatabaseStarts
  \/ SchedulerTakes
  \/ SchedulerGivesBack

Spec == Init /\ [][Next]_vars

\* Every call ends, by POOL_TIMEOUT or the loss of its connection at the latest.
FairSpec == Spec /\ \A r \in Requests : WF_vars(Proceed(r))

-----------------------------------------------------------------------------
(* Properties *)

\* Every variable has its type.
TypeOK ==
  /\ dbUp \in BOOLEAN
  /\ outages \in 0 .. MaxOutages
  /\ scheduler \in Nat
  /\ route \in [Requests -> Routes]
  /\ stage \in [Requests -> Stages]
  /\ blocks \in [Requests -> 1 .. 3]
  /\ passed \in [Requests -> 0 .. 3]
  /\ \A r \in Requests : passed[r] <= blocks[r]
  /\ error \in [Requests -> Errors]
  /\ held \subseteq Requests
  /\ broken \subseteq held
  /\ status \in [Requests -> {0, 200, 202, 404, 500, 503}]
  /\ commits \in [Requests -> 0 .. 3]
  /\ stored \subseteq Requests

\* Nobody keeps a connection of the pool: not after the response of a route
\* that opens its own blocks, nor between them (the LLM is asked there), nor
\* after the end, whatever failed or was cancelled on the way (uow.py:60-61,
\* health_check_service.py:40).
NothingKept ==
  \A r \in held :
    /\ stage[r] \in {"run", "commit", "rollback", "close", "respond"}
    /\ stage[r] = "respond" \/ Answered(r) => Scoped(r)

\* A 200 of analyze means that every block of it has committed, and a 200 of
\* the probe that the database has obeyed all of it in time: a COMMIT that
\* fails or is cancelled is an error (uow.py:59).
SuccessIsCommitted ==
  \A r \in Requests :
    status[r] = 200 /\ ~Scoped(r) => commits[r] = blocks[r]

\* A client that POST /tickets has refused may try again: its ticket is not
\* in the table, and nothing will put it there (uow.py:30-31, 92).
RefusedIsNotStored ==
  \A r \in Requests :
    route[r] = "create" /\ status[r] \in {500, 503} =>
      r \notin stored /\ stage[r] = "done"

\* 202: the ticket is stored, or its COMMIT is still to come, or has failed
\* unseen (uow.py:92); nothing else can lose it.
AcceptedIsStored ==
  \A r \in Requests :
    status[r] = 202 => r \in stored \/ stage[r] = "commit" \/ error[r] = "other"

\* A ticket of analyze is saved before anything is tried with it ("so we
\* don't lose it if something fails later", ticket_service.py:44).
AnalyzedIsSaved ==
  \A r \in Requests : route[r] = "analyze" /\ commits[r] > 0 => r \in stored

\* Every request is answered and gives its connection back, although the pool
\* may be exhausted, the database go away and the probe be cancelled.
EveryRequestEnds ==
  \A r \in Requests : stage[r] = "wait" ~> stage[r] = "done" /\ Answered(r) /\ r \notin held
=============================================================================
