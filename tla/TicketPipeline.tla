--------------------------- MODULE TicketPipeline ---------------------------
(***************************************************************************)
(* The life of tickets: POST /tickets (api/tickets.py create_ticket),      *)
(* POST /tickets/analyze (TicketService.analyze), the scheduler's tick     *)
(* (TicketSchedulerService.run) and the classification pipeline both of    *)
(* them run (TicketService._run_pipeline), over the tickets table.         *)
(*                                                                         *)
(* A worker is a request handler of POST /analyze, or the scheduler job of *)
(* a process (APScheduler lets one tick of it run at a time).  A job       *)
(* <<w, i>> is one execution of _run_pipeline, by w, for ticket i.  Each   *)
(* "async with self.uow_factory" block of the pipeline is one stage of the *)
(* job, because its statements commit together; between two stages         *)
(* anything else may happen.  Answers are copied from row to row, so a job *)
(* carries the result it is about to store.                                *)
(***************************************************************************)
EXTENDS TicketRepository

CONSTANTS
  Handlers,    \* concurrent POST /tickets/analyze requests
  Schedulers,  \* scheduler jobs, one per application process
  Processes,   \* the sets of workers that live, and crash, together
  BatchSize,   \* settings.SCHEDULER_BATCH_SIZE
  Prompt,      \* whether every job ends before its ticket counts as stuck
  Revivals,    \* whether an operator puts dead letters back
  MaxLost      \* bound: attempts per ticket that end without a stored outcome

Workers == Handlers \cup Schedulers

ASSUME PipelineAssumption ==
  /\ Handlers \cap Schedulers = {}
  /\ Processes \subseteq SUBSET Workers
  /\ \A p \in Processes : \A s1, s2 \in p \cap Schedulers : s1 = s2
  /\ BatchSize \in Nat \ {0}
  /\ Prompt \in BOOLEAN
  /\ Revivals \in BOOLEAN
  /\ MaxLost \in Nat
  /\ Prompt => FreshAge <= StuckAfter

VARIABLES
  tickets,    \* the committed rows, by id
  nextId,     \* the sequence ids are drawn from
  inserting,  \* drafts inserted in a transaction that has not committed
  at,         \* at[w][i]: the stage of the job of w for ticket i
  pending,    \* pending[w][i]: the result it is about to store
  orphans,    \* <<s, i>>: an abandoned session of s holds the lock of row i
  llmCalls,   \* history: LLM calls made about each ticket
  lost        \* history: attempts about it that ended with nothing stored

vars == <<tickets, nextId, inserting, at, pending, orphans, llmCalls, lost>>

Stages == {"idle", "lookup", "llm", "store", "fail"}

DbStages == {"lookup", "store", "fail"}

NoResult == [answer |-> NoAnswer, ai_used |-> FALSE]

Pending == Results \cup {NoResult}

Drafts == [id : TicketIds, text : Texts]

Live(i) == \E w \in Workers : at[w][i] # "idle"

Idle(w) == \A i \in TicketIds : at[w][i] = "idle"

Init ==
  /\ tickets = EmptyTable
  /\ nextId = 1
  /\ inserting = {}
  /\ at = [w \in Workers |-> [i \in TicketIds |-> "idle"]]
  /\ pending = [w \in Workers |-> [i \in TicketIds |-> NoResult]]
  /\ orphans = {}
  /\ llmCalls = [i \in TicketIds |-> 0]
  /\ lost = [i \in TicketIds |-> 0]

-----------------------------------------------------------------------------
(* POST /tickets.  create_draft inserts in the session of the request      *)
(* (get_uow), and the exit half of get_uow commits, after the 202 has gone *)
(* out (module HttpRequests): ids may be committed out of order.           *)

CreateDraft(t) ==
  /\ nextId \in TicketIds
  /\ inserting' = inserting \cup {[id |-> nextId, text |-> t]}
  /\ nextId' = nextId + 1
  /\ UNCHANGED <<tickets, at, pending, orphans, llmCalls, lost>>

CommitDraft(d) ==
  /\ inserting' = inserting \ {d}
  /\ tickets' = Insert(tickets, d.id, NewRow(d.text, "draft"))
  /\ UNCHANGED <<nextId, at, pending, orphans, llmCalls, lost>>

\* An error in the handler or at COMMIT, or the end of the process.
AbortDraft(d) ==
  /\ inserting' = inserting \ {d}
  /\ UNCHANGED <<tickets, nextId, at, pending, orphans, llmCalls, lost>>

-----------------------------------------------------------------------------
(* How jobs start and move *)

Enter(t) == IF t \in DegenerateTexts THEN "store" ELSE "lookup"

Carry(t) ==
  IF t \in DegenerateTexts THEN [answer |-> RuleAnswer(t), ai_used |-> FALSE]
                           ELSE NoResult

\* w runs the pipeline for the rows S of the table, and for nothing else.
StartJobs(w, S, table) ==
  /\ at' = [at EXCEPT ![w] =
       [i \in TicketIds |-> IF i \in S THEN Enter(table[i].text) ELSE "idle"]]
  /\ pending' = [pending EXCEPT ![w] =
       [i \in TicketIds |-> IF i \in S THEN Carry(table[i].text) ELSE NoResult]]

Move(w, i, stage, result) ==
  /\ at' = [at EXCEPT ![w][i] = stage]
  /\ pending' = [pending EXCEPT ![w][i] = result]

EndJob(w, i) == Move(w, i, "idle", NoResult)

-----------------------------------------------------------------------------
(* POST /tickets/analyze: the row is committed as processing before any    *)
(* classification.  (An error of this insert leaves nothing, or a row      *)
(* whose job is lost at once: Analyze followed by LoseJob.)                *)

Mut_AnalyzeKeepsId(h, t) ==
  /\ Idle(h)
  /\ nextId \in TicketIds
  /\ tickets' = Insert(tickets, nextId, NewRow(t, "processing"))
  /\ StartJobs(h, {nextId}, tickets')
  /\ UNCHANGED <<nextId, inserting, orphans, llmCalls, lost>>

Analyze(h, t) ==
  /\ Idle(h)
  /\ nextId \in TicketIds
  /\ nextId' = nextId + 1
  /\ tickets' = Insert(tickets, nextId, NewRow(t, "processing"))
  /\ StartJobs(h, {nextId}, tickets')
  /\ UNCHANGED <<inserting, orphans, llmCalls, lost>>

-----------------------------------------------------------------------------
(* The scheduler's tick: claim a batch in one transaction, then run the    *)
(* pipeline for every ticket of it concurrently.  The previous tick of s   *)
(* has ended, for gather waits for every job.  (A claim whose answer is    *)
(* lost is a Claim followed by LoseJob for every job of it.)               *)

LockedByOrphans == {o[2] : o \in orphans}

\* Rows whose UPDATE has run, or may have, in a transaction still open.
MaybeLocked == {i \in TicketIds : \E w \in Workers : at[w][i] \in {"store", "fail"}}

Claim(s) ==
  /\ Idle(s)
  /\ \E L \in SUBSET MaybeLocked :
       \E S \in ClaimBatches(tickets, LockedByOrphans \cup L, BatchSize) :
         /\ tickets' = ClaimRows(tickets, S)
         /\ StartJobs(s, S, tickets)
  /\ UNCHANGED <<nextId, inserting, orphans, llmCalls, lost>>

-----------------------------------------------------------------------------
(* _check_duplicate, _check_regex_fast_path, _request_llm_classification.  *)

Duplicates(i) == FindReady(tickets, tickets[i].text)

ReuseAnswer(w, i) ==
  /\ at[w][i] = "lookup"
  /\ \E j \in Duplicates(i) :
       Move(w, i, "store", [answer |-> tickets[j].answer, ai_used |-> FALSE])
  /\ UNCHANGED <<tickets, nextId, inserting, orphans, llmCalls, lost>>

MatchKeyword(w, i) ==
  /\ at[w][i] = "lookup"
  /\ Duplicates(i) = {}
  /\ tickets[i].text \in FastPathTexts
  /\ Move(w, i, "store",
          [answer |-> KeywordAnswer(tickets[i].text), ai_used |-> FALSE])
  /\ UNCHANGED <<tickets, nextId, inserting, orphans, llmCalls, lost>>

AskLlm(w, i) ==
  /\ at[w][i] = "lookup"
  /\ Duplicates(i) = {}
  /\ tickets[i].text \notin FastPathTexts
  /\ Move(w, i, "llm", NoResult)
  /\ llmCalls' = [llmCalls EXCEPT ![i] = @ + 1]
  /\ UNCHANGED <<tickets, nextId, inserting, orphans, lost>>

LlmAnswers(w, i) ==
  /\ at[w][i] = "llm"
  /\ \E v \in Verdicts :
       Move(w, i, "store",
            [answer |-> LlmAnswer(tickets[i].text, v), ai_used |-> TRUE])
  /\ UNCHANGED <<tickets, nextId, inserting, orphans, llmCalls, lost>>

\* No response, no content, an answer out of schema, or any other exception.
LlmFails(w, i) ==
  /\ at[w][i] = "llm"
  /\ Move(w, i, "fail", NoResult)
  /\ UNCHANGED <<tickets, nextId, inserting, orphans, llmCalls, lost>>

-----------------------------------------------------------------------------
(* The last block of a job.  Its UPDATE waits for the lock of the row.     *)

StoreReady(w, i) ==
  /\ at[w][i] = "store"
  /\ i \notin LockedByOrphans
  /\ tickets' = MarkReady(tickets, i, pending[w][i])
  /\ EndJob(w, i)
  /\ UNCHANGED <<nextId, inserting, orphans, llmCalls, lost>>

StoreFailed(w, i) ==
  /\ at[w][i] = "fail"
  /\ i \notin LockedByOrphans
  /\ tickets' = MarkFailed(tickets, i)
  /\ EndJob(w, i)
  /\ UNCHANGED <<nextId, inserting, orphans, llmCalls, lost>>

-----------------------------------------------------------------------------
(* What can go wrong.  Nothing touches the row: no handler writes "failed" *)
(* for an exception of the database, it only propagates (gather collects   *)
(* it, or the client gets an error).                                       *)

LoseJob(w, i) ==
  /\ at[w][i] \in DbStages
  /\ lost[i] < MaxLost
  /\ EndJob(w, i)
  /\ lost' = [lost EXCEPT ![i] = @ + 1]
  /\ UNCHANGED <<tickets, nextId, inserting, orphans, llmCalls>>

\* The jobs of a tick share one UnitOfWork object: a block that opens while
\* another is inside takes its session away (module UnitOfWork).  The loser
\* stores nothing, and may leave a session that holds the lock of its row.
LoseSession(s, i) ==
  /\ at[s][i] \in DbStages
  /\ \E j \in TicketIds \ {i} : at[s][j] \in DbStages
  /\ lost[i] < MaxLost
  /\ \/ orphans' = orphans
     \/ /\ at[s][i] \in {"store", "fail"}
        /\ i \notin LockedByOrphans
        /\ orphans' = orphans \cup {<<s, i>>}
  /\ EndJob(s, i)
  /\ lost' = [lost EXCEPT ![i] = @ + 1]
  /\ UNCHANGED <<tickets, nextId, inserting, llmCalls>>

\* The garbage collector reaches the abandoned session.
CollectOrphan(o) ==
  /\ orphans' = orphans \ {o}
  /\ UNCHANGED <<tickets, nextId, inserting, at, pending, llmCalls, lost>>

\* A process dies, or is told to stop (scheduler.shutdown(wait=False)).
Crash(p) ==
  LET Dying == {i \in TicketIds : \E w \in p : at[w][i] # "idle"}
  IN  /\ Dying # {}
      /\ \A i \in Dying : lost[i] < MaxLost
      /\ at' = [w \in Workers |->
           IF w \in p THEN [i \in TicketIds |-> "idle"] ELSE at[w]]
      /\ pending' = [w \in Workers |->
           IF w \in p THEN [i \in TicketIds |-> NoResult] ELSE pending[w]]
      /\ lost' = [i \in TicketIds |-> IF i \in Dying THEN lost[i] + 1 ELSE lost[i]]
      /\ orphans' = {o \in orphans : o[1] \notin p}
      /\ UNCHANGED <<tickets, nextId, inserting, llmCalls>>

-----------------------------------------------------------------------------
(* Time and the operator *)

\* Only the age of a processing row is ever looked at.
Tick ==
  /\ Prompt => \A i \in DOMAIN tickets : Live(i) => tickets[i].age < StuckAfter
  /\ \E i \in DOMAIN tickets :
       tickets[i].status = "processing" /\ tickets[i].age <= StuckAfter
  /\ tickets' = [i \in DOMAIN tickets |->
       IF tickets[i].status = "processing" /\ tickets[i].age <= StuckAfter
       THEN [tickets[i] EXCEPT !.age = @ + 1] ELSE tickets[i]]
  /\ UNCHANGED <<nextId, inserting, at, pending, orphans, llmCalls, lost>>

\* By hand, in the database: README.md:60-62.
Revive(i) ==
  /\ Revivals
  /\ tickets[i].status = "dead_letter"
  /\ tickets' = [tickets EXCEPT ![i] = [@ EXCEPT !.status = "failed", !.retries = 0]]
  /\ llmCalls' = [llmCalls EXCEPT ![i] = 0]
  /\ UNCHANGED <<nextId, inserting, at, pending, orphans, lost>>

-----------------------------------------------------------------------------
JobStep(w, i) ==
  \/ ReuseAnswer(w, i)
  \/ MatchKeyword(w, i)
  \/ AskLlm(w, i)
  \/ LlmAnswers(w, i)
  \/ LlmFails(w, i)
  \/ StoreReady(w, i)
  \/ StoreFailed(w, i)

Next ==
  \/ \E t \in Texts : CreateDraft(t)
  \/ \E d \in inserting : CommitDraft(d) \/ AbortDraft(d)
  \/ \E h \in Handlers, t \in Texts : Analyze(h, t)
  \/ \E s \in Schedulers : Claim(s)
  \/ \E w \in Workers, i \in TicketIds : JobStep(w, i) \/ LoseJob(w, i)
  \/ \E s \in Schedulers, i \in TicketIds : LoseSession(s, i)
  \/ \E o \in orphans : CollectOrphan(o)
  \/ \E p \in Processes : Crash(p)
  \/ Tick
  \/ \E i \in DOMAIN tickets : Revive(i)

Spec == Init /\ [][Next]_vars

(***************************************************************************)
(* The scheduler fires again and again (a crashed process is restarted by  *)
(* docker), every stage of a job ends (the LLM call by its timeout), and   *)
(* time passes.  Nothing obliges clients, operators or failures to act.    *)
(***************************************************************************)
Fairness ==
  /\ \A s \in Schedulers : WF_vars(Claim(s))
  /\ \A w \in Workers, i \in TicketIds : WF_vars(JobStep(w, i))
  /\ WF_vars(Tick)
  /\ WF_vars(\E o \in orphans : CollectOrphan(o))

FairSpec == Spec /\ Fairness

-----------------------------------------------------------------------------
(* Properties *)

\* Every variable has its type; ids are handed out once, and a job is about
\* a committed row.
TypeOK ==
  /\ DOMAIN tickets \subseteq {i \in TicketIds : i < nextId}
  /\ tickets \in [DOMAIN tickets -> Rows]
  /\ nextId \in 1 .. MaxTickets + 1
  /\ inserting \subseteq {d \in Drafts : d.id < nextId /\ d.id \notin DOMAIN tickets}
  /\ \A d, e \in inserting : d.id = e.id => d = e
  /\ at \in [Workers -> [TicketIds -> Stages]]
  /\ pending \in [Workers -> [TicketIds -> Pending]]
  /\ orphans \subseteq Schedulers \X TicketIds
  /\ llmCalls \in [TicketIds -> Nat]
  /\ lost \in [TicketIds -> 0 .. MaxLost]
  /\ \A i \in TicketIds : Live(i) => i \in DOMAIN tickets

\* The retry counter and the status agree whatever the interleaving: a ticket
\* is still tried only while it has attempts left, and is a dead letter only
\* when they are used up (mark_failed, README.md:55-56).  Two overlapping
\* mark_failed, or one after a mark_ready, must not break this.
RetryLedger ==
  \A i \in DOMAIN tickets :
    /\ tickets[i].status \in {"draft", "processing", "failed"}
         => tickets[i].retries < MaxRetries
    /\ tickets[i].status = "dead_letter" => tickets[i].retries >= MaxRetries

\* An answer that a rule of the pipeline may give to text t.
Fits(a, t) ==
  /\ a \in Answers
  /\ a.of = t
  /\ a.by = "rule" <=> t \in DegenerateTexts
  /\ a.by = "keyword" <=> t \in FastPathTexts \ DegenerateTexts

\* A ready ticket shows an answer to its own text, from the cheapest rule
\* that applies to it, however many times it was copied from ticket to ticket
\* (_check_duplicate) and whoever stored it last; and it says ai_used only
\* over an answer of the LLM.
AnswersFit ==
  \A i \in DOMAIN tickets : tickets[i].status = "ready" =>
    /\ Fits(tickets[i].answer, tickets[i].text)
    /\ tickets[i].ai_used => tickets[i].answer.by = "llm"

\* If no job outlives PROCESSING_TIMEOUT_SEC (Prompt), a ticket is worked on
\* by one worker at a time, across processes, crashes and reclaims
\* (claim_pending, README.md:53-54).
SingleOwner ==
  \A i \in TicketIds, w1, w2 \in Workers :
    at[w1][i] # "idle" /\ at[w2][i] # "idle" => w1 = w2

\* If no job outlives PROCESSING_TIMEOUT_SEC (Prompt), the LLM is asked about
\* a ticket at most MaxRetries times, plus once per attempt whose outcome was
\* lost before it was stored (README.md:55-57).
LlmBudget == \A i \in TicketIds : llmCalls[i] <= MaxRetries + lost[i]

\* However long jobs take, and whoever overlaps whom, the LLM is asked about a
\* ticket at most MaxRetries times by each scheduler and once by the request
\* that brought it, plus once per attempt whose outcome was lost: a store that
\* comes too late may undo another one, but every call ends in a failure that
\* counts or finds the ticket settled (README.md:55-57).
LlmCallsLimited ==
  \A i \in TicketIds :
    llmCalls[i] <= MaxRetries * Cardinality(Schedulers) + 1 + lost[i]

\* Looking for duplicates works although the check and the use of it are far
\* apart, whatever the timing: the tickets of one text that the LLM answered
\* are no more than the jobs that can be under way at a time
\* (_check_duplicate, README.md:24-25).
DuplicatesBounded ==
  \A t \in Texts :
    Cardinality({i \in DOMAIN tickets : /\ tickets[i].text = t
                                       /\ tickets[i].status = "ready"
                                       /\ tickets[i].ai_used})
      <= Cardinality(Handlers) + BatchSize * Cardinality(Schedulers)

\* If no job outlives PROCESSING_TIMEOUT_SEC (Prompt), a ticket the LLM has
\* answered never says that it has not (models/ticket.py:64): no second job of
\* the ticket finds the ticket itself as a duplicate and stores the answer back
\* without the flag and the token counts (ticket_service.py:130-137).
AiUsedKept ==
  [][\A i \in DOMAIN tickets :
       /\ tickets[i].status = "ready"
       /\ tickets[i].ai_used
       /\ tickets'[i].answer = tickets[i].answer
       => tickets'[i].ai_used]_vars

PhaseOf(i) ==
  IF i \notin DOMAIN tickets THEN "absent"
  ELSE CASE tickets[i].status \in {"draft", "failed"} -> "waiting"
         [] tickets[i].status = "processing" -> "working"
         [] tickets[i].status = "ready" -> "ready"
         [] tickets[i].status = "dead_letter" -> "dead"

TriesOf(i) == IF i \in DOMAIN tickets THEN tickets[i].retries ELSE 0

ReplyOf(i) == IF PhaseOf(i) = "ready" THEN tickets[i].answer ELSE NoAnswer

Contract == INSTANCE TicketContract WITH
  Tickets <- TicketIds,
  Replies <- Answers,
  NoReply <- NoAnswer,
  phase <- [i \in TicketIds |-> PhaseOf(i)],
  tries <- [i \in TicketIds |-> TriesOf(i)],
  reply <- [i \in TicketIds |-> ReplyOf(i)]

\* If no job outlives PROCESSING_TIMEOUT_SEC (Prompt), the service keeps its
\* contract: one attempt at a time, the answer of a ready ticket never
\* changes, and a dead letter stays one until the operator puts it back.
KeepsContract == Contract!ContractSpec

Settled(i) == i \in DOMAIN tickets /\ tickets[i].status \in {"ready", "dead_letter"}

\* Even when jobs outlive the timeout and overwrite each other, a settled
\* ticket is never handed to a worker again before an overlapping job makes
\* it "failed": claim_pending does not see ready and dead_letter rows.
SettledNotClaimed ==
  [][\A i \in TicketIds : Settled(i) =>
       /\ tickets'[i].status \in {"ready", "dead_letter", "failed"}
       /\ \A w \in Workers : at'[w][i] # "idle" => at[w][i] # "idle"]_vars

\* Without an operator, every committed ticket settles, and for good, after
\* crashes, lost updates and overlapping attempts (README.md:50-57).
StaysSettled == \A i \in TicketIds : <>[](i \in DOMAIN tickets => Settled(i))

\* README.md:56: dead_letter is a terminal status (without an operator).
DeadLetterTerminal ==
  [][\A i \in DOMAIN tickets :
       tickets[i].status = "dead_letter" => tickets'[i].status = "dead_letter"]_vars

\* README.md:55-59: a failed attempt counts, whatever the reason, and so the LLM
\* is not called for ever about one ticket.
EveryFailureCounts == \A i \in TicketIds : llmCalls[i] <= MaxRetries
=============================================================================
