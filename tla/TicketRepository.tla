-------------------------- MODULE TicketRepository --------------------------
(***************************************************************************)
(* The tickets table (app/models/ticket.py) and the SQL statements that    *)
(* app/repositories/ticket_repository.py runs on it, as operators on the   *)
(* value of the table.  A table maps the id of every committed row to the  *)
(* row.  PostgreSQL (READ COMMITTED) makes each statement one step: the    *)
(* modules that use these operators decide who runs them and when.         *)
(*                                                                         *)
(* What is kept of a row:                                                  *)
(*   text     the normalized text; raw_text only feeds the summary         *)
(*   answer   category, summary, priority and entities, as one value that  *)
(*            says which rule of the pipeline produced it, and for which   *)
(*            text                                                         *)
(*   ai_used  with prompt_tokens, completion_tokens, llm_response_time_ms, *)
(*            which every statement writes together with it                *)
(*   age      now() - updated_at, counted in ticks up to StuckAfter + 1    *)
(* error_message is always the same text, set exactly when retries grows,  *)
(* and is left out.  created_at grows with id.                             *)
(***************************************************************************)
EXTENDS Integers, FiniteSets

CONSTANTS
  Texts,            \* the normalized texts clients submit
  DegenerateTexts,  \* those that is_degenerate_text accepts
  FastPathTexts,    \* short ones that match_single_category recognises
  Verdicts,         \* the classifications an LLM may return for a text
  MaxTickets,       \* bound: ids are 1 .. MaxTickets
  MaxRetries,       \* settings.MAX_RETRIES; 0 or less behaves as 1
  StuckAfter,       \* settings.PROCESSING_TIMEOUT_SEC, in ticks
  FreshAge          \* how old a row written just now looks to claim_pending

(***************************************************************************)
(* updated_at is TIMEZONE('utc', now()), a timestamp without time zone     *)
(* stored in a timestamptz column: it is read back in the time zone of the *)
(* database session.  FreshAge is 0 when that zone is UTC, and the offset  *)
(* of the zone (in ticks) when it lies east of UTC; west of it a row is    *)
(* written with an updated_at to come, and its age begins below 0.         *)
(***************************************************************************)
ASSUME RepositoryAssumption ==
  /\ DegenerateTexts \subseteq Texts
  /\ FastPathTexts \subseteq Texts
  /\ MaxTickets \in Nat
  /\ MaxRetries \in Nat \ {0}
  /\ StuckAfter \in Nat
  /\ FreshAge \in Int
  /\ FreshAge <= StuckAfter + 1

TicketIds == 1 .. MaxTickets

Statuses == {"draft", "processing", "ready", "failed", "dead_letter"}

Ages == FreshAge .. StuckAfter + 1

-----------------------------------------------------------------------------
(* Answers and rows *)

NoAnswer == [by |-> "nobody"]

Answers == [by : {"rule", "keyword", "llm"}, of : Texts,
            verdict : Verdicts \cup {"fixed"}]

RuleAnswer(t) == [by |-> "rule", of |-> t, verdict |-> "fixed"]
KeywordAnswer(t) == [by |-> "keyword", of |-> t, verdict |-> "fixed"]
LlmAnswer(t, v) == [by |-> "llm", of |-> t, verdict |-> v]

\* ClassificationResult, the value mark_ready writes.
Results == [answer : Answers, ai_used : BOOLEAN]

Rows == [text : Texts, status : Statuses, answer : Answers \cup {NoAnswer},
         ai_used : BOOLEAN, retries : Nat, age : Ages]

NewRow(t, s) == [text |-> t, status |-> s, answer |-> NoAnswer,
                 ai_used |-> FALSE, retries |-> 0, age |-> FreshAge]

EmptyTable == [i \in {} |-> NoAnswer]

-----------------------------------------------------------------------------
(* create *)

Insert(table, i, row) ==
  [j \in DOMAIN table \cup {i} |-> IF j = i THEN row ELSE table[j]]

-----------------------------------------------------------------------------
(* find_ready_by_normalized_text: the newest ready row with this text, as  *)
(* a set of at most one id.                                                *)

Mut_FindReadyNever(table, t) == {}

Mut_FindReadyAnyText(table, t) ==
  LET Ready == {i \in DOMAIN table : table[i].status = "ready"}
  IN  {i \in Ready : \A j \in Ready : j <= i}

FindReady(table, t) ==
  LET Same == {i \in DOMAIN table :
                 table[i].status = "ready" /\ table[i].text = t}
  IN  {i \in Same : \A j \in Same : j <= i}

-----------------------------------------------------------------------------
(* mark_ready and mark_failed: UPDATE ... WHERE id = i, with no condition  *)
(* on the status the row has by now.                                       *)

MarkReady(table, i, r) ==
  [table EXCEPT ![i] = [@ EXCEPT !.status = "ready", !.answer = r.answer,
                                 !.ai_used = r.ai_used, !.age = FreshAge]]

Mut_MarkFailedOffByOne(table, i) ==
  LET n == table[i].retries + 1
  IN  [table EXCEPT ![i] =
         [@ EXCEPT !.status = IF n > MaxRetries THEN "dead_letter" ELSE "failed",
                   !.retries = n, !.age = FreshAge]]

Mut_MarkFailedForgetsRetries(table, i) ==
  [table EXCEPT ![i] = [@ EXCEPT !.status = "failed", !.age = FreshAge]]

MarkFailed(table, i) ==
  LET n == table[i].retries + 1
  IN  [table EXCEPT ![i] =
         [@ EXCEPT !.status = IF n >= MaxRetries THEN "dead_letter" ELSE "failed",
                   !.retries = n, !.age = FreshAge]]

-----------------------------------------------------------------------------
(* claim_pending: SELECT ... FOR UPDATE SKIP LOCKED picks the n oldest     *)
(* claimable rows nobody holds a lock on, and UPDATE flips them.           *)

Mut_ClaimableAnyProcessing(row) == row.status \in {"draft", "failed", "processing"}

Mut_ClaimableNoStuck(row) == row.status \in {"draft", "failed"}

Mut_ClaimableDeadLetter(row) ==
  \/ row.status \in {"draft", "failed", "dead_letter"}
  \/ row.status = "processing" /\ row.age > StuckAfter

Claimable(row) ==
  \/ row.status \in {"draft", "failed"}
  \/ row.status = "processing" /\ row.age > StuckAfter

\* The rows claim_pending takes: as a set of sets, empty when there is none.
ClaimBatches(table, locked, n) ==
  LET Free == {i \in DOMAIN table \ locked : Claimable(table[i])}
  IN  {S \in SUBSET Free :
         /\ S # {}
         /\ Cardinality(S) = IF Cardinality(Free) < n THEN Cardinality(Free) ELSE n
         /\ \A i \in S, j \in Free \ S : i < j}

ClaimRows(table, S) ==
  [i \in DOMAIN table |->
     IF i \in S THEN [table[i] EXCEPT !.status = "processing", !.age = FreshAge]
                ELSE table[i]]
=============================================================================
