------------------------- MODULE HttpRequestsProofs -------------------------
(***************************************************************************)
(* What a response of the service means, and that every failure gives the  *)
(* connection back, for any number of requests on a pool of any size.      *)
(***************************************************************************)
EXTENDS HttpRequests, TLAPS

\* The calls of a block.
Calls == {"wait", "run", "commit", "rollback", "close"}

\* A request has nothing before it arrives, keeps nothing after the end, and
\* has a connection when it asks for a COMMIT.
HoldsFit(r) ==
  /\ stage[r] \in {"idle", "wait", "done"} => r \notin held
  /\ stage[r] \in {"run", "commit"} => r \in held
  /\ stage[r] = "respond" /\ r \in held =>
       Scoped(r) /\ error[r] = "none" /\ passed[r] = 0
  /\ stage[r] = "respond" /\ Scoped(r) /\ error[r] = "none" => r \in held

\* The exceptions a request may meet, and when it has met none.
ErrorsFit(r) ==
  /\ error[r] = "timeout" => route[r] = "health"
  /\ error[r] = "missing" => route[r] = "get"
  /\ stage[r] \in {"idle", "wait", "run", "commit"} => error[r] = "none"
  /\ stage[r] = "rollback" => error[r] # "none"

\* Every block that is over has committed, or there was an exception.
BlocksFit(r) ==
  /\ blocks[r] >= 1
  /\ route[r] # "analyze" => blocks[r] = 1
  /\ stage[r] = "idle" => passed[r] = 0
  /\ stage[r] \in Calls => passed[r] < blocks[r]
  /\ stage[r] \in {"idle", "wait", "run", "commit", "rollback"} => commits[r] = passed[r]
  /\ stage[r] = "close" => commits[r] \in {passed[r], passed[r] + 1}
  /\ stage[r] = "close" /\ error[r] = "none" => commits[r] = passed[r] + 1
  /\ stage[r] \in {"respond", "done"} => commits[r] <= passed[r]
  /\ stage[r] \in {"respond", "done"} /\ error[r] = "none" /\ r \notin held =>
       commits[r] = blocks[r]

\* Only the routes on the session of the request have work to do after their
\* response, and only if it was not an error.
ResponseFits(r) ==
  /\ stage[r] \in {"idle", "wait", "run", "respond"} => ~Answered(r)
  /\ stage[r] = "done" => Answered(r)
  /\ stage[r] = "commit" /\ Scoped(r) => Answered(r)
  /\ Answered(r) /\ stage[r] # "done" => Scoped(r) /\ status[r] = StatusOf(route[r], "none")
  /\ Answered(r) /\ ~Scoped(r) => status[r] = StatusOf(route[r], error[r])
  /\ Scoped(r) /\ commits[r] > 0 => Answered(r)
  /\ status[r] = 202 => route[r] = "create"

StoredFits(r) ==
  /\ route[r] = "create" /\ r \in stored => status[r] = 202
  /\ status[r] = 202 => r \in stored \/ stage[r] = "commit" \/ error[r] = "other"
  /\ route[r] = "analyze" /\ commits[r] > 0 => r \in stored
  /\ stage[r] = "idle" => r \notin stored

Fits(r) == HoldsFit(r) /\ ErrorsFit(r) /\ BlocksFit(r) /\ ResponseFits(r) /\ StoredFits(r)

Inv == TypeOK /\ \A r \in Requests : Fits(r)

\* Success and errors have different codes.
LEMMA StatusCodes ==
  ASSUME NEW k \in Routes, NEW e \in Errors,
         e = "timeout" => k = "health", e = "missing" => k = "get"
  PROVE  /\ e = "none" => StatusOf(k, e) = IF k = "create" THEN 202 ELSE 200
         /\ e # "none" => StatusOf(k, e) \in {404, 500, 503}
<1>1. CASE e = "none"
  BY <1>1 DEF StatusOf
<1>2. CASE e # "none" /\ k = "health"
  BY <1>2 DEF StatusOf
<1>3. CASE e = "known" /\ k # "health"
  BY <1>3 DEF StatusOf
<1>4. CASE e = "missing" /\ k # "health"
  BY <1>4 DEF StatusOf
<1>5. CASE e = "other" /\ k # "health"
  BY <1>5 DEF StatusOf
<1> QED
  BY <1>1, <1>2, <1>3, <1>4, <1>5 DEF Errors

\* What the invariant says of a request stays true while nothing of it changes.
LEMMA FrameFits ==
  ASSUME NEW r \in Requests, Fits(r),
         route'[r] = route[r], stage'[r] = stage[r], blocks'[r] = blocks[r],
         passed'[r] = passed[r], error'[r] = error[r], status'[r] = status[r],
         commits'[r] = commits[r],
         r \in held' <=> r \in held, r \in stored' <=> r \in stored
  PROVE  Fits(r)'
<1>1. HoldsFit(r)' /\ ErrorsFit(r)'
  BY DEF Fits, HoldsFit, ErrorsFit, Scoped
<1>2. BlocksFit(r)'
  BY DEF Fits, BlocksFit
<1>3. ResponseFits(r)'
  <2>1. /\ StatusOf(route[r], "none")' = StatusOf(route[r], "none")
        /\ StatusOf(route[r], error[r])' = StatusOf(route[r], error[r])
    BY DEF StatusOf
  <2> QED
    BY <2>1 DEF Fits, ResponseFits, Scoped, Answered
<1>4. StoredFits(r)'
  BY DEF Fits, StoredFits
<1> QED
  BY <1>1, <1>2, <1>3, <1>4 DEF Fits

LEMMA InitInv == Init => Inv
<1> SUFFICES ASSUME Init PROVE Inv
  OBVIOUS
<1>1. dbUp \in BOOLEAN
  BY Zenon DEF Init
<1>2. TypeOK
  BY <1>1, RequestsAssumption DEF Init, TypeOK, Routes, Stages, Errors
<1>3. ASSUME NEW r \in Requests PROVE Fits(r)
  BY DEF Init, Fits, HoldsFit, ErrorsFit, BlocksFit, ResponseFits, StoredFits, Scoped,
     Answered, Calls
<1> QED
  BY <1>2, <1>3 DEF Inv

LEMMA ArriveStep ==
  ASSUME Inv, NEW r \in Requests, NEW k \in Routes, Arrive(r, k)
  PROVE  Inv'
<1>1. PICK n \in BlocksOf(k) : blocks' = [blocks EXCEPT ![r] = n]
  BY DEF Arrive
<1>2. n \in 1 .. 3 /\ (k # "analyze" => n = 1)
  BY <1>1 DEF BlocksOf
<1>3. TypeOK'
  BY <1>1, <1>2 DEF Arrive, Goes, Inv, TypeOK, Stages, Fits, BlocksFit
<1>4. ASSUME NEW q \in Requests PROVE Fits(q)'
  <2>1. CASE q = r
    BY <1>1, <1>2, <2>1 DEF Arrive, Goes, Inv, TypeOK, Fits, HoldsFit, ErrorsFit, BlocksFit,
       ResponseFits, StoredFits, Scoped, Answered, Calls
  <2>2. CASE q # r
    BY <1>1, <2>2, FrameFits DEF Arrive, Goes, Inv, TypeOK
  <2> QED
    BY <2>1, <2>2
<1> QED
  BY <1>3, <1>4 DEF Inv

LEMMA AcquireStep ==
  ASSUME Inv, NEW r \in Requests, Acquire(r)
  PROVE  Inv'
<1>1. TypeOK'
  BY DEF Acquire, Goes, Inv, TypeOK, Stages, Errors, Fits, BlocksFit, Calls
<1>2. ASSUME NEW q \in Requests PROVE Fits(q)'
  <2>1. CASE q = r
    BY <2>1 DEF Acquire, Goes, Inv, TypeOK, Fits, HoldsFit, ErrorsFit, BlocksFit,
       ResponseFits, StoredFits, Scoped, Answered, Calls, StatusOf
  <2>2. CASE q # r
    BY <2>2, FrameFits DEF Acquire, Goes, Inv, TypeOK
  <2> QED
    BY <2>1, <2>2
<1> QED
  BY <1>1, <1>2 DEF Inv

LEMMA AcquireFailsStep ==
  ASSUME Inv, NEW r \in Requests, AcquireFails(r)
  PROVE  Inv'
<1>1. TypeOK'
  BY DEF AcquireFails, Goes, Meets, Inv, TypeOK, Stages, Errors, Fits, BlocksFit, Calls
<1>2. ASSUME NEW q \in Requests PROVE Fits(q)'
  <2>1. CASE q = r
    BY <2>1 DEF AcquireFails, Goes, Meets, Inv, TypeOK, Fits, HoldsFit, ErrorsFit, BlocksFit,
       ResponseFits, StoredFits, Scoped, Answered, Calls, StatusOf
  <2>2. CASE q # r
    BY <2>2, FrameFits DEF AcquireFails, Goes, Meets, Inv, TypeOK
  <2> QED
    BY <2>1, <2>2
<1> QED
  BY <1>1, <1>2 DEF Inv

LEMMA StatementDoneStep ==
  ASSUME Inv, NEW r \in Requests, StatementDone(r)
  PROVE  Inv'
<1>1. TypeOK'
  BY DEF StatementDone, Goes, Inv, TypeOK, Stages, Errors, Fits, BlocksFit, Calls
<1>2. ASSUME NEW q \in Requests PROVE Fits(q)'
  <2>1. CASE q = r
    BY <2>1 DEF StatementDone, Goes, Inv, TypeOK, Fits, HoldsFit, ErrorsFit, BlocksFit,
       ResponseFits, StoredFits, Scoped, Answered, Calls, StatusOf
  <2>2. CASE q # r
    BY <2>2, FrameFits DEF StatementDone, Goes, Inv, TypeOK
  <2> QED
    BY <2>1, <2>2
<1> QED
  BY <1>1, <1>2 DEF Inv

LEMMA StatementFailsStep ==
  ASSUME Inv, NEW r \in Requests, StatementFails(r)
  PROVE  Inv'
<1>1. TypeOK'
  BY DEF StatementFails, Goes, Meets, Writes, Inv, TypeOK, Stages, Errors, Fits, BlocksFit, Calls
<1>2. ASSUME NEW q \in Requests PROVE Fits(q)'
  <2>1. CASE q = r
    BY <2>1 DEF StatementFails, Goes, Meets, Writes, Inv, TypeOK, Fits, HoldsFit, ErrorsFit, BlocksFit,
       ResponseFits, StoredFits, Scoped, Answered, Calls, StatusOf
  <2>2. CASE q # r
    BY <2>2, FrameFits DEF StatementFails, Goes, Meets, Writes, Inv, TypeOK
  <2> QED
    BY <2>1, <2>2
<1> QED
  BY <1>1, <1>2 DEF Inv

LEMMA CommittedStep ==
  ASSUME Inv, NEW r \in Requests, Committed(r)
  PROVE  Inv'
<1>1. TypeOK'
  BY DEF Committed, Goes, Writes, Inv, TypeOK, Stages, Errors, Fits, BlocksFit, Calls
<1>2. ASSUME NEW q \in Requests PROVE Fits(q)'
  <2>1. CASE q = r
    BY <2>1 DEF Committed, Goes, Writes, Inv, TypeOK, Fits, HoldsFit, ErrorsFit, BlocksFit,
       ResponseFits, StoredFits, Scoped, Answered, Calls, StatusOf
  <2>2. CASE q # r
    BY <2>2, FrameFits DEF Committed, Goes, Writes, Inv, TypeOK
  <2> QED
    BY <2>1, <2>2
<1> QED
  BY <1>1, <1>2 DEF Inv

LEMMA CommitFailsStep ==
  ASSUME Inv, NEW r \in Requests, CommitFails(r)
  PROVE  Inv'
<1>1. TypeOK'
  BY DEF CommitFails, Goes, Meets, Writes, Inv, TypeOK, Stages, Errors, Fits, BlocksFit, Calls
<1>2. ASSUME NEW q \in Requests PROVE Fits(q)'
  <2>1. CASE q = r
    BY <2>1 DEF CommitFails, Goes, Meets, Writes, Inv, TypeOK, Fits, HoldsFit, ErrorsFit, BlocksFit,
       ResponseFits, StoredFits, Scoped, Answered, Calls, StatusOf
  <2>2. CASE q # r
    BY <2>2, FrameFits DEF CommitFails, Goes, Meets, Writes, Inv, TypeOK
  <2> QED
    BY <2>1, <2>2
<1> QED
  BY <1>1, <1>2 DEF Inv

LEMMA RolledBackStep ==
  ASSUME Inv, NEW r \in Requests, RolledBack(r)
  PROVE  Inv'
<1>1. TypeOK'
  BY DEF RolledBack, Goes, Inv, TypeOK, Stages, Errors, Fits, BlocksFit, Calls
<1>2. ASSUME NEW q \in Requests PROVE Fits(q)'
  <2>1. CASE q = r
    BY <2>1 DEF RolledBack, Goes, Inv, TypeOK, Fits, HoldsFit, ErrorsFit, BlocksFit,
       ResponseFits, StoredFits, Scoped, Answered, Calls, StatusOf
  <2>2. CASE q # r
    BY <2>2, FrameFits DEF RolledBack, Goes, Inv, TypeOK
  <2> QED
    BY <2>1, <2>2
<1> QED
  BY <1>1, <1>2 DEF Inv

LEMMA RollbackFailsStep ==
  ASSUME Inv, NEW r \in Requests, RollbackFails(r)
  PROVE  Inv'
<1>1. TypeOK'
  BY DEF RollbackFails, Goes, Meets, Inv, TypeOK, Stages, Errors, Fits, BlocksFit, Calls
<1>2. ASSUME NEW q \in Requests PROVE Fits(q)'
  <2>1. CASE q = r
    BY <2>1 DEF RollbackFails, Goes, Meets, Inv, TypeOK, Fits, HoldsFit, ErrorsFit, BlocksFit,
       ResponseFits, StoredFits, Scoped, Answered, Calls, StatusOf
  <2>2. CASE q # r
    BY <2>2, FrameFits DEF RollbackFails, Goes, Meets, Inv, TypeOK
  <2> QED
    BY <2>1, <2>2
<1> QED
  BY <1>1, <1>2 DEF Inv

LEMMA ClosedStep ==
  ASSUME Inv, NEW r \in Requests, Closed(r)
  PROVE  Inv'
<1>1. TypeOK'
  BY DEF Closed, Goes, AfterClose, Inv, TypeOK, Stages, Errors, Fits, BlocksFit, Calls
<1>2. ASSUME NEW q \in Requests PROVE Fits(q)'
  <2>1. CASE q = r
    BY <2>1 DEF Closed, Goes, AfterClose, Inv, TypeOK, Fits, HoldsFit, ErrorsFit, BlocksFit,
       ResponseFits, StoredFits, Scoped, Answered, Calls, StatusOf
  <2>2. CASE q # r
    BY <2>2, FrameFits DEF Closed, Goes, AfterClose, Inv, TypeOK
  <2> QED
    BY <2>1, <2>2
<1> QED
  BY <1>1, <1>2 DEF Inv

LEMMA RespondStep ==
  ASSUME Inv, NEW r \in Requests, Respond(r)
  PROVE  Inv'
<1> DEFINE code == StatusOf(route[r], error[r])
<1>1. /\ error[r] = "none" => code = IF route[r] = "create" THEN 202 ELSE 200
      /\ error[r] # "none" => code \in {404, 500, 503}
  BY StatusCodes DEF Inv, TypeOK, Fits, ErrorsFit
<1>2. /\ status' = [status EXCEPT ![r] = code] /\ stage[r] = "respond"
      /\ stage' = [stage EXCEPT ![r] = IF r \in held THEN "commit" ELSE "done"]
      /\ UNCHANGED <<dbUp, outages, scheduler, route, blocks, passed, error, held, broken,
                     commits, stored>>
  BY DEF Respond, Goes
<1>3. code' = code
  BY <1>2 DEF StatusOf
<1>4. r \in held => StatusOf(route[r], "none")' = code
  BY <1>2 DEF Inv, Fits, HoldsFit, StatusOf
<1> HIDE DEF code
<1>5. TypeOK'
  BY <1>1, <1>2 DEF Inv, TypeOK, Stages
<1>6. ASSUME NEW q \in Requests PROVE Fits(q)'
  <2>1. CASE q = r
    <3>1. HoldsFit(r)' /\ ErrorsFit(r)' /\ BlocksFit(r)'
      BY <1>2 DEF Inv, TypeOK, Fits, HoldsFit, ErrorsFit, BlocksFit, Scoped, Calls
    <3>2. status'[r] = code /\ code # 0
      BY <1>1, <1>2 DEF Inv, TypeOK
    <3>3. ResponseFits(r)'
      BY <1>1, <1>2, <1>3, <1>4, <3>2 DEF Inv, TypeOK, Fits, HoldsFit, ResponseFits,
         Scoped, Answered, code
    <3>4. StoredFits(r)'
      BY <1>1, <1>2, <3>2 DEF Inv, TypeOK, Fits, HoldsFit, StoredFits, ResponseFits,
         Scoped, Answered
    <3> QED
      BY <2>1, <3>1, <3>3, <3>4 DEF Fits
  <2>2. CASE q # r
    BY <1>2, <2>2, FrameFits DEF Inv, TypeOK
  <2> QED
    BY <2>1, <2>2
<1> QED
  BY <1>5, <1>6 DEF Inv

LEMMA CancelProbeStep ==
  ASSUME Inv, NEW r \in Requests, CancelProbe(r)
  PROVE  Inv'
<1>1. TypeOK'
  BY DEF CancelProbe, Goes, Meets, Inv, TypeOK, Stages, Errors, Fits, BlocksFit, Calls
<1>2. ASSUME NEW q \in Requests PROVE Fits(q)'
  <2>1. CASE q = r
    BY <2>1 DEF CancelProbe, Goes, Meets, Inv, TypeOK, Fits, HoldsFit, ErrorsFit, BlocksFit,
       ResponseFits, StoredFits, Scoped, Answered, Calls, StatusOf
  <2>2. CASE q # r
    BY <2>2, FrameFits DEF CancelProbe, Goes, Meets, Inv, TypeOK
  <2> QED
    BY <2>1, <2>2
<1> QED
  BY <1>1, <1>2 DEF Inv

\* The database and the scheduler touch no request, but its connection.
LEMMA SurroundingsStep ==
  ASSUME Inv,
         DatabaseStops \/ DatabaseStarts \/ SchedulerTakes \/ SchedulerGivesBack
  PROVE  Inv'
<1>1. UNCHANGED <<route, stage, blocks, passed, error, held, status, commits, stored>>
  BY DEF DatabaseStops, DatabaseStarts, SchedulerTakes, SchedulerGivesBack
<1>2. broken' \subseteq held'
  BY DEF DatabaseStops, DatabaseStarts, SchedulerTakes, SchedulerGivesBack, Inv, TypeOK
<1>3. outages' \in 0 .. MaxOutages /\ scheduler' \in Nat
  BY RequestsAssumption DEF DatabaseStops, DatabaseStarts, SchedulerTakes,
     SchedulerGivesBack, Inv, TypeOK
<1>4. dbUp' \in BOOLEAN
  BY DEF DatabaseStops, DatabaseStarts, SchedulerTakes, SchedulerGivesBack, Inv, TypeOK
<1>5. TypeOK'
  BY <1>1, <1>2, <1>3, <1>4 DEF Inv, TypeOK
<1>6. ASSUME NEW r \in Requests PROVE Fits(r)'
  BY <1>1, FrameFits DEF Inv
<1> QED
  BY <1>5, <1>6 DEF Inv

LEMMA NextInv == Inv /\ [Next]_vars => Inv'
<1> SUFFICES ASSUME Inv, [Next]_vars PROVE Inv'
  OBVIOUS
<1>1. CASE UNCHANGED vars
  <2>1. TypeOK'
    BY <1>1 DEF vars, Inv, TypeOK
  <2>2. ASSUME NEW r \in Requests PROVE Fits(r)'
    BY <1>1, FrameFits DEF vars, Inv
  <2> QED
    BY <2>1, <2>2 DEF Inv
<1>2. ASSUME NEW r \in Requests, Proceed(r) PROVE Inv'
  BY <1>2, AcquireStep, AcquireFailsStep, StatementDoneStep, StatementFailsStep,
     CommittedStep, CommitFailsStep, RolledBackStep, RollbackFailsStep, ClosedStep,
     RespondStep DEF Proceed
<1>3. CASE Next
  BY <1>2, <1>3, ArriveStep, CancelProbeStep, SurroundingsStep DEF Next
<1> QED
  BY <1>1, <1>3

-----------------------------------------------------------------------------
\* Every variable keeps its type: no block is run twice.
THEOREM TypeCorrect == Spec => []TypeOK
<1>1. Inv => TypeOK
  BY DEF Inv
<1> QED
  BY <1>1, InitInv, NextInv, PTL DEF Spec

\* Whatever fails or is cancelled, nobody keeps a connection between two
\* blocks or after the end (uow.py:60-61).
THEOREM ConnectionsGivenBack == Spec => []NothingKept
<1>1. Inv => NothingKept
  BY DEF Inv, TypeOK, Stages, Fits, HoldsFit, ResponseFits, NothingKept
<1> QED
  BY <1>1, InitInv, NextInv, PTL DEF Spec

\* A 200 of analyze, or of the probe, is given for committed blocks only.
THEOREM SuccessMeansCommitted == Spec => []SuccessIsCommitted
<1>1. Inv => SuccessIsCommitted
  <2> SUFFICES ASSUME Inv, NEW r \in Requests, status[r] = 200, ~Scoped(r)
               PROVE  commits[r] = blocks[r]
    BY DEF SuccessIsCommitted
  <2>1. StatusOf(route[r], error[r]) = 200 /\ stage[r] = "done" /\ r \notin held
    BY DEF Inv, Fits, ResponseFits, HoldsFit, Answered
  <2>2. error[r] = "none"
    BY <2>1, StatusCodes DEF Inv, TypeOK, Fits, ErrorsFit
  <2> QED
    BY <2>1, <2>2 DEF Inv, Fits, BlocksFit
<1> QED
  BY <1>1, InitInv, NextInv, PTL DEF Spec

\* A POST /tickets that was refused has stored nothing, for good.
THEOREM RefusalMeansNothing == Spec => []RefusedIsNotStored
<1>1. Inv => RefusedIsNotStored
  BY DEF Inv, Fits, ResponseFits, StoredFits, RefusedIsNotStored, Answered, StatusOf
<1> QED
  BY <1>1, InitInv, NextInv, PTL DEF Spec

\* Nothing but its own COMMIT can lose a ticket that was accepted.
THEOREM AcceptedUnlessCommitFails == Spec => []AcceptedIsStored
<1>1. Inv => AcceptedIsStored
  BY DEF Inv, Fits, StoredFits, AcceptedIsStored
<1> QED
  BY <1>1, InitInv, NextInv, PTL DEF Spec

\* A ticket of analyze is saved first.
THEOREM AnalyzedSavedFirst == Spec => []AnalyzedIsSaved
<1>1. Inv => AnalyzedIsSaved
  BY DEF Inv, Fits, StoredFits, AnalyzedIsSaved
<1> QED
  BY <1>1, InitInv, NextInv, PTL DEF Spec
=============================================================================
