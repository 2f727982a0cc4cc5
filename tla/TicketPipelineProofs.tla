------------------------ MODULE TicketPipelineProofs ------------------------
(***************************************************************************)
(* What TicketPipeline keeps for every set of workers, texts and bounds,   *)
(* and the facts about the statements of the repository it rests on.       *)
(***************************************************************************)
EXTENDS TicketPipeline, TLAPS

-----------------------------------------------------------------------------
(* What each statement of the repository does to a table, row by row.      *)

IsTable(T) == DOMAIN T \subseteq TicketIds /\ T \in [DOMAIN T -> Rows]

\* Statements that only UPDATE: same rows, same texts, others untouched.
UpdatesOnly(T, U, S) ==
  /\ IsTable(U)
  /\ DOMAIN U = DOMAIN T
  /\ \A j \in DOMAIN T : U[j].text = T[j].text
  /\ \A j \in DOMAIN T \ S : U[j] = T[j]

LEMMA FreshAgeIsAge == FreshAge \in Ages
  BY RepositoryAssumption DEF Ages

LEMMA NewRowType ==
  ASSUME NEW t \in Texts, NEW s \in Statuses
  PROVE  NewRow(t, s) \in Rows
  BY RepositoryAssumption DEF NewRow, Rows, Ages

LEMMA FindReadyFacts ==
  ASSUME NEW T, NEW t, NEW j \in FindReady(T, t)
  PROVE  j \in DOMAIN T /\ T[j].status = "ready" /\ T[j].text = t
  BY DEF FindReady

LEMMA MarkReadyFacts ==
  ASSUME NEW T, IsTable(T), NEW i \in DOMAIN T, NEW r \in Results
  PROVE  /\ UpdatesOnly(T, MarkReady(T, i, r), {i})
         /\ MarkReady(T, i, r)[i].status = "ready"
         /\ MarkReady(T, i, r)[i].answer = r.answer
         /\ MarkReady(T, i, r)[i].ai_used = r.ai_used
         /\ MarkReady(T, i, r)[i].retries = T[i].retries
<1> DEFINE row == [T[i] EXCEPT !.status = "ready", !.answer = r.answer,
                                !.ai_used = r.ai_used, !.age = FreshAge]
<1>1. /\ row \in Rows /\ row.text = T[i].text /\ row.status = "ready"
      /\ row.answer = r.answer /\ row.ai_used = r.ai_used
      /\ row.retries = T[i].retries
  BY FreshAgeIsAge DEF IsTable, Rows, Results, Statuses
<1>2. MarkReady(T, i, r) = [T EXCEPT ![i] = row]
  BY DEF MarkReady
<1> HIDE DEF row
<1> QED
  BY <1>1, <1>2 DEF IsTable, UpdatesOnly

LEMMA MarkFailedFacts ==
  ASSUME NEW T, IsTable(T), NEW i \in DOMAIN T
  PROVE  /\ UpdatesOnly(T, MarkFailed(T, i), {i})
         /\ MarkFailed(T, i)[i].retries = T[i].retries + 1
         /\ MarkFailed(T, i)[i].status = IF T[i].retries + 1 >= MaxRetries
                                         THEN "dead_letter" ELSE "failed"
<1> DEFINE n == T[i].retries + 1
           status == IF n >= MaxRetries THEN "dead_letter" ELSE "failed"
           row == [T[i] EXCEPT !.status = status, !.retries = n, !.age = FreshAge]
<1>1. T[i] \in Rows /\ n \in Nat /\ FreshAge \in Ages
  BY FreshAgeIsAge DEF IsTable, Rows
<1>2. status \in Statuses
  BY DEF Statuses
<1>3. row \in Rows /\ row.text = T[i].text /\ row.retries = n /\ row.status = status
  <2> HIDE DEF n, status
  <2> QED
    BY <1>1, <1>2 DEF Rows
<1>4. MarkFailed(T, i) = [T EXCEPT ![i] = row]
  BY DEF MarkFailed
<1> HIDE DEF row
<1> QED
  BY <1>3, <1>4 DEF IsTable, UpdatesOnly

LEMMA ClaimBatchFacts ==
  ASSUME NEW T, NEW L, NEW n, NEW S \in ClaimBatches(T, L, n)
  PROVE  /\ S \subseteq DOMAIN T
         /\ \A i \in S : \/ T[i].status \in {"draft", "failed"}
                         \/ T[i].status = "processing" /\ T[i].age > StuckAfter
  BY DEF ClaimBatches, Claimable

LEMMA ClaimRowsFacts ==
  ASSUME NEW T, IsTable(T), NEW S \in SUBSET DOMAIN T
  PROVE  /\ UpdatesOnly(T, ClaimRows(T, S), S)
         /\ \A i \in S : /\ ClaimRows(T, S)[i].status = "processing"
                         /\ ClaimRows(T, S)[i].age = FreshAge
                         /\ ClaimRows(T, S)[i].retries = T[i].retries
<1>1. \A i \in S :
        LET row == [T[i] EXCEPT !.status = "processing", !.age = FreshAge]
        IN  /\ row \in Rows /\ row.text = T[i].text /\ row.status = "processing"
            /\ row.age = FreshAge /\ row.retries = T[i].retries
  BY FreshAgeIsAge DEF IsTable, Rows, Statuses
<1> QED
  BY <1>1 DEF ClaimRows, IsTable, UpdatesOnly

-----------------------------------------------------------------------------
(* Types, the retry ledger and the answers, under any timing               *)

\* A job only ever reaches a stage that suits the text of its ticket, and the
\* result it carries to the table fits that text.
StageFits(w, i) ==
  /\ at[w][i] = "store" => /\ pending[w][i] \in Results
                           /\ Fits(pending[w][i].answer, tickets[i].text)
                           /\ pending[w][i].ai_used => pending[w][i].answer.by = "llm"
  /\ at[w][i] = "lookup" => tickets[i].text \notin DegenerateTexts
  /\ at[w][i] = "llm" => tickets[i].text \notin DegenerateTexts \cup FastPathTexts

LedgerRow(r) ==
  /\ r.status \in {"draft", "processing", "failed"} => r.retries < MaxRetries
  /\ r.status = "dead_letter" => r.retries >= MaxRetries

AnswerRow(r) ==
  r.status = "ready" => Fits(r.answer, r.text) /\ (r.ai_used => r.answer.by = "llm")

RowsFit == \A i \in DOMAIN tickets : LedgerRow(tickets[i]) /\ AnswerRow(tickets[i])

Inv ==
  /\ TypeOK
  /\ RowsFit
  /\ \A w \in Workers, i \in TicketIds : StageFits(w, i)

LEMMA InvParts == Inv => TypeOK /\ RetryLedger /\ AnswersFit
  BY DEF Inv, RowsFit, LedgerRow, AnswerRow, RetryLedger, AnswersFit

LEMMA InitInv == Init => Inv
<1> SUFFICES ASSUME Init PROVE Inv
  OBVIOUS
<1>1. DOMAIN tickets = {}
  BY DEF Init, EmptyTable
<1>2. TypeOK
  <2>1. tickets \in [DOMAIN tickets -> Rows]
    BY <1>1 DEF Init, EmptyTable
  <2> QED
    BY <1>1, <2>1, RepositoryAssumption, PipelineAssumption
       DEF Init, TypeOK, TicketIds, Stages, Pending, NoResult, Live, Drafts
<1> QED
  BY <1>1, <1>2 DEF Init, Inv, RowsFit, StageFits

\* The job <<w, i>> is not touched.
Kept(w, i) == at'[w][i] = at[w][i] /\ pending'[w][i] = pending[w][i]

\* No ticket disappears or changes its text.
TextsStay ==
  /\ DOMAIN tickets \subseteq DOMAIN tickets'
  /\ \A i \in DOMAIN tickets : tickets'[i].text = tickets[i].text

JobsTyped ==
  /\ at' \in [Workers -> [TicketIds -> Stages]]
  /\ pending' \in [Workers -> [TicketIds -> Pending]]

LEMMA TypedTable == TypeOK => IsTable(tickets)
  BY DEF TypeOK, IsTable

LEMMA MoveFacts ==
  ASSUME TypeOK, NEW w \in Workers, NEW i \in TicketIds,
         NEW stage \in Stages, NEW result \in Pending, Move(w, i, stage, result)
  PROVE  /\ JobsTyped
         /\ at'[w][i] = stage
         /\ pending'[w][i] = result
         /\ \A v \in Workers, j \in TicketIds : v # w \/ j # i => Kept(v, j)
  BY DEF Move, TypeOK, JobsTyped, Kept

LEMMA EnterCarry ==
  ASSUME NEW t \in Texts
  PROVE  /\ Enter(t) \in Stages
         /\ Carry(t) \in Pending
         /\ Enter(t) = "store" => /\ Carry(t) \in Results
                                  /\ Fits(Carry(t).answer, t)
                                  /\ ~Carry(t).ai_used
         /\ Enter(t) = "lookup" => t \notin DegenerateTexts
         /\ Enter(t) \in {"store", "lookup"}
  BY DEF Enter, Carry, Stages, Pending, Results, Answers, RuleAnswer, Fits

LEMMA StartFacts ==
  ASSUME TypeOK, NEW w \in Workers, NEW T, IsTable(T),
         NEW S \in SUBSET DOMAIN T, StartJobs(w, S, T)
  PROVE  /\ JobsTyped
         /\ \A i \in TicketIds :
              IF i \in S THEN /\ at'[w][i] = Enter(T[i].text)
                              /\ pending'[w][i] = Carry(T[i].text)
              ELSE at'[w][i] = "idle"
         /\ \A v \in Workers \ {w}, j \in TicketIds : Kept(v, j)
<1>1. \A i \in S : i \in TicketIds /\ T[i].text \in Texts
  BY DEF IsTable, Rows
<1>2. \A i \in S : Enter(T[i].text) \in Stages /\ Carry(T[i].text) \in Pending
  BY <1>1, EnterCarry
<1>3. "idle" \in Stages /\ NoResult \in Pending
  BY DEF Stages, Pending
<1> QED
  BY <1>2, <1>3 DEF StartJobs, TypeOK, JobsTyped, Kept

LEMMA KeptFits ==
  ASSUME Inv, TextsStay, NEW w \in Workers, NEW i \in TicketIds,
         Kept(w, i) \/ at'[w][i] = "idle"
  PROVE  StageFits(w, i)'
  BY DEF Inv, TypeOK, Live, TextsStay, Kept, StageFits

\* The parts of TypeOK that the steps of jobs leave alone.
TableTyped ==
  /\ DOMAIN tickets \subseteq {i \in TicketIds : i < nextId}
  /\ tickets \in [DOMAIN tickets -> Rows]
  /\ nextId \in 1 .. MaxTickets + 1
  /\ inserting \subseteq {d \in Drafts : d.id < nextId /\ d.id \notin DOMAIN tickets}
  /\ \A d, e \in inserting : d.id = e.id => d = e

\* A step that touches no job.
LEMMA NoJobStep ==
  ASSUME Inv, TextsStay, TableTyped', RowsFit', UNCHANGED <<at, pending, lost>>,
         orphans' \subseteq orphans, llmCalls' \in [TicketIds -> Nat]
  PROVE  Inv'
<1>1. \A w \in Workers, i \in TicketIds : Kept(w, i)
  BY DEF Kept
<1>2. \A w \in Workers, i \in TicketIds : StageFits(w, i)'
  BY <1>1, KeptFits
<1>3. TypeOK'
  BY DEF Inv, TypeOK, TableTyped, Live, TextsStay
<1> QED
  BY <1>2, <1>3 DEF Inv

\* A step of one job that leaves the table alone.
LEMMA OneJobStep ==
  ASSUME Inv, NEW w \in Workers, NEW i \in TicketIds, at[w][i] # "idle",
         NEW stage \in Stages, NEW result \in Pending, Move(w, i, stage, result),
         StageFits(w, i)' \/ stage = "idle",
         UNCHANGED <<tickets, nextId, inserting>>,
         orphans' \subseteq Schedulers \X TicketIds,
         llmCalls' \in [TicketIds -> Nat], lost' \in [TicketIds -> 0 .. MaxLost]
  PROVE  Inv'
<1>1. TypeOK
  BY DEF Inv
<1>2. /\ JobsTyped
      /\ at'[w][i] = stage
      /\ \A v \in Workers, j \in TicketIds : v # w \/ j # i => Kept(v, j)
  BY <1>1, MoveFacts
<1>3. TextsStay
  BY DEF TextsStay
<1>4. \A v \in Workers, j \in TicketIds : StageFits(v, j)'
  BY <1>2, <1>3, KeptFits
<1>5. \A j \in TicketIds : Live(j)' => j \in DOMAIN tickets'
  BY <1>1, <1>2 DEF TypeOK, Live, Kept
<1>6. TypeOK'
  BY <1>1, <1>2, <1>5 DEF TypeOK, JobsTyped
<1> QED
  BY <1>4, <1>6 DEF Inv, RowsFit

\* The end of a job, with its UPDATE of the table or without.
LEMMA LastStep ==
  ASSUME Inv, NEW w \in Workers, NEW i \in TicketIds, at[w][i] # "idle",
         EndJob(w, i), UpdatesOnly(tickets, tickets', {i}),
         LedgerRow(tickets'[i]), AnswerRow(tickets'[i]),
         UNCHANGED <<nextId, inserting, orphans, llmCalls, lost>>
  PROVE  Inv'
<1>1. TypeOK
  BY DEF Inv
<1>2. /\ JobsTyped
      /\ at'[w][i] = "idle"
      /\ \A v \in Workers, j \in TicketIds : v # w \/ j # i => Kept(v, j)
  BY <1>1, MoveFacts DEF EndJob, Stages, Pending
<1>3. TextsStay
  BY DEF TextsStay, UpdatesOnly
<1>4. \A v \in Workers, j \in TicketIds : StageFits(v, j)'
  BY <1>2, <1>3, KeptFits
<1>5. \A j \in TicketIds : Live(j)' => j \in DOMAIN tickets'
  BY <1>1, <1>2 DEF TypeOK, Live, Kept, UpdatesOnly
<1>6. TypeOK'
  BY <1>1, <1>2, <1>5 DEF TypeOK, JobsTyped, UpdatesOnly, IsTable
<1>7. RowsFit'
  BY DEF Inv, RowsFit, UpdatesOnly
<1> QED
  BY <1>4, <1>6, <1>7 DEF Inv

\* w begins jobs for rows that have just been inserted or claimed.
LEMMA FirstStep ==
  ASSUME Inv, NEW w \in Workers, Idle(w), NEW T, IsTable(T), NEW S \in SUBSET DOMAIN T,
         StartJobs(w, S, T), TextsStay, TableTyped', RowsFit',
         DOMAIN T \subseteq DOMAIN tickets',
         \A i \in S : tickets'[i].text = T[i].text,
         UNCHANGED <<orphans, llmCalls, lost>>
  PROVE  Inv'
<1>1. TypeOK
  BY DEF Inv
<1>2. /\ JobsTyped
      /\ \A i \in TicketIds :
           IF i \in S THEN /\ at'[w][i] = Enter(T[i].text)
                           /\ pending'[w][i] = Carry(T[i].text)
           ELSE at'[w][i] = "idle"
      /\ \A v \in Workers \ {w}, j \in TicketIds : Kept(v, j)
  BY <1>1, StartFacts
<1>3. ASSUME NEW v \in Workers, NEW j \in TicketIds PROVE StageFits(v, j)'
  <2>1. CASE v = w /\ j \in S
    <3>1. T[j].text \in Texts
      BY <2>1 DEF IsTable, Rows
    <3> QED
      BY <1>2, <2>1, <3>1, EnterCarry DEF StageFits
  <2>2. CASE v # w \/ j \notin S
    BY <1>2, <2>2, KeptFits
  <2> QED
    BY <2>1, <2>2
<1>4. \A j \in TicketIds : Live(j)' => j \in DOMAIN tickets'
  BY <1>1, <1>2 DEF TypeOK, Live, Kept, TextsStay
<1>5. TypeOK'
  BY <1>1, <1>2, <1>4 DEF TypeOK, JobsTyped, TableTyped
<1> QED
  BY <1>3, <1>5 DEF Inv

LEMMA NewRowFits ==
  ASSUME NEW t \in Texts, NEW st \in {"draft", "processing"}
  PROVE  /\ NewRow(t, st) \in Rows
         /\ NewRow(t, st).text = t
         /\ LedgerRow(NewRow(t, st))
         /\ AnswerRow(NewRow(t, st))
<1>1. NewRow(t, st) \in Rows
  BY NewRowType DEF Statuses
<1> QED
  BY <1>1, RepositoryAssumption DEF NewRow, LedgerRow, AnswerRow

LEMMA DraftStep ==
  ASSUME Inv, \/ \E t \in Texts : CreateDraft(t)
              \/ \E d \in inserting : CommitDraft(d) \/ AbortDraft(d)
  PROVE  Inv'
<1> USE DEF Drafts, TicketIds
<1>1. TypeOK /\ RowsFit /\ IsTable(tickets)
  BY TypedTable DEF Inv
<1>2. ASSUME NEW t \in Texts, CreateDraft(t) PROVE Inv'
  <2> DEFINE d == [id |-> nextId, text |-> t]
  <2>1. /\ nextId' = nextId + 1 /\ nextId \in 1 .. MaxTickets /\ MaxTickets \in Nat
        /\ tickets' = tickets /\ inserting' = inserting \cup {d}
    BY <1>2, RepositoryAssumption DEF CreateDraft
  <2>2. \A e \in inserting : e \in Drafts /\ e.id \in 1 .. MaxTickets /\ e.id < nextId
                              /\ e.id \notin DOMAIN tickets
    BY <1>1 DEF TypeOK
  <2>3. d \in Drafts /\ d.id = nextId /\ nextId \notin DOMAIN tickets
    BY <1>1, <2>1 DEF TypeOK
  <2>4. DOMAIN tickets \subseteq {i \in TicketIds : i < nextId'}
    BY <1>1, <2>1 DEF TypeOK
  <2>5. \A e \in inserting' : /\ e \in Drafts /\ e.id < nextId'
                               /\ e.id \notin DOMAIN tickets
    BY <2>1, <2>2, <2>3
  <2>6. \A e, f \in inserting' : e.id = f.id => e = f
    BY <1>1, <2>1, <2>2, <2>3 DEF TypeOK
  <2>7. nextId' \in 1 .. MaxTickets + 1
    BY <2>1
  <2>8. TableTyped'
    BY <1>1, <2>1, <2>4, <2>5, <2>6, <2>7 DEF TypeOK, TableTyped
  <2>9. TextsStay /\ RowsFit'
    BY <1>1, <2>1 DEF TextsStay, RowsFit
  <2> QED
    BY <1>1, <1>2, <2>8, <2>9, NoJobStep DEF CreateDraft, TypeOK
<1>3. ASSUME NEW d \in inserting, AbortDraft(d) PROVE Inv'
  <2>1. TableTyped' /\ TextsStay /\ RowsFit'
    BY <1>1, <1>3 DEF TypeOK, AbortDraft, TableTyped, TextsStay, RowsFit
  <2> QED
    BY <1>1, <1>3, <2>1, NoJobStep DEF AbortDraft, TypeOK
<1>4. ASSUME NEW d \in inserting, CommitDraft(d) PROVE Inv'
  <2>1. d.id \in TicketIds \ DOMAIN tickets /\ d.id < nextId /\ d.text \in Texts
    BY <1>1 DEF TypeOK
  <2>2. /\ IsTable(tickets')
        /\ DOMAIN tickets' = DOMAIN tickets \cup {d.id}
        /\ tickets'[d.id] = NewRow(d.text, "draft")
        /\ \A j \in DOMAIN tickets : tickets'[j] = tickets[j]
    <3>1. NewRow(d.text, "draft") \in Rows
      BY <2>1, NewRowFits
    <3>2. tickets' = Insert(tickets, d.id, NewRow(d.text, "draft"))
      BY <1>4 DEF CommitDraft
    <3> QED
      BY <1>1, <2>1, <3>1, <3>2 DEF Insert, IsTable
  <2>3. TextsStay /\ RowsFit'
    BY <1>1, <2>1, <2>2, NewRowFits DEF TextsStay, RowsFit
  <2>4. inserting' \subseteq {e \in Drafts : e.id < nextId' /\ e.id \notin DOMAIN tickets'}
    BY <1>1, <1>4, <2>2 DEF TypeOK, CommitDraft
  <2>5. TableTyped'
    BY <1>1, <1>4, <2>1, <2>2, <2>4 DEF TypeOK, CommitDraft, TableTyped, IsTable
  <2> QED
    BY <1>1, <1>4, <2>3, <2>5, NoJobStep DEF CommitDraft, TypeOK
<1> QED
  BY <1>2, <1>3, <1>3, <1>4

LEMMA AnalyzeStep ==
  ASSUME Inv, NEW h \in Handlers, NEW t \in Texts, Analyze(h, t)
  PROVE  Inv'
<1>1. TypeOK /\ RowsFit /\ IsTable(tickets)
  BY TypedTable DEF Inv
<1>2. nextId \in TicketIds /\ nextId \notin DOMAIN tickets /\ h \in Workers
  BY <1>1 DEF Analyze, TypeOK, Workers
<1>3. NewRow(t, "processing") \in Rows
  BY NewRowFits
<1>4. /\ IsTable(tickets')
      /\ DOMAIN tickets' = DOMAIN tickets \cup {nextId}
      /\ tickets'[nextId] = NewRow(t, "processing")
      /\ \A j \in DOMAIN tickets : tickets'[j] = tickets[j]
  <2>1. tickets' = Insert(tickets, nextId, NewRow(t, "processing"))
    BY DEF Analyze
  <2> QED
    BY <1>1, <1>2, <1>3, <2>1 DEF Insert, IsTable
<1>5. TextsStay /\ RowsFit'
  BY <1>1, <1>2, <1>4, NewRowFits DEF TextsStay, RowsFit
<1>6. TableTyped'
  <2>1. nextId' = nextId + 1 /\ nextId \in 1 .. MaxTickets /\ MaxTickets \in Nat
    BY <1>2, RepositoryAssumption DEF Analyze, TicketIds
  <2>2. DOMAIN tickets' \subseteq {i \in TicketIds : i < nextId'}
    BY <1>1, <1>2, <1>4, <2>1 DEF TypeOK, TicketIds
  <2>3. \A d \in inserting : d \in Drafts /\ d.id \in 1 .. MaxTickets /\ d.id < nextId
                              /\ d.id \notin DOMAIN tickets
    BY <1>1 DEF TypeOK, Drafts, TicketIds
  <2>4. inserting \subseteq {d \in Drafts : d.id < nextId' /\ d.id \notin DOMAIN tickets'}
    BY <1>4, <2>1, <2>3
  <2>5. nextId' \in 1 .. MaxTickets + 1
    BY <2>1
  <2> QED
    BY <1>1, <1>4, <2>2, <2>4, <2>5 DEF TypeOK, Analyze, TableTyped, IsTable
<1>7. {nextId} \in SUBSET DOMAIN tickets'
  BY <1>4
<1> QED
  BY <1>2, <1>4, <1>5, <1>6, <1>7, FirstStep DEF Analyze

LEMMA ClaimStep ==
  ASSUME Inv, NEW s \in Schedulers, Claim(s)
  PROVE  Inv'
<1>1. TypeOK /\ RowsFit /\ IsTable(tickets) /\ s \in Workers
  BY TypedTable DEF Inv, Workers
<1>2. PICK L \in SUBSET MaybeLocked :
        \E S \in ClaimBatches(tickets, LockedByOrphans \cup L, BatchSize) :
          tickets' = ClaimRows(tickets, S) /\ StartJobs(s, S, tickets)
  BY DEF Claim
<1>3. PICK S \in ClaimBatches(tickets, LockedByOrphans \cup L, BatchSize) :
        tickets' = ClaimRows(tickets, S) /\ StartJobs(s, S, tickets)
  BY <1>2
<1>4. /\ S \in SUBSET DOMAIN tickets
      /\ \A i \in S : tickets[i].status \in {"draft", "failed", "processing"}
  BY ClaimBatchFacts
<1>5. /\ UpdatesOnly(tickets, tickets', S)
      /\ \A i \in S : /\ tickets'[i].status = "processing"
                      /\ tickets'[i].retries = tickets[i].retries
  BY <1>1, <1>3, <1>4, ClaimRowsFacts
<1>6. TextsStay /\ RowsFit'
  BY <1>1, <1>4, <1>5 DEF TextsStay, RowsFit, UpdatesOnly, LedgerRow, AnswerRow
<1>7. TableTyped'
  BY <1>1, <1>5 DEF TypeOK, Claim, TableTyped, UpdatesOnly, IsTable
<1> QED
  BY <1>1, <1>3, <1>4, <1>5, <1>6, <1>7, FirstStep DEF Claim, UpdatesOnly

LEMMA LookupStep ==
  ASSUME Inv, NEW w \in Workers, NEW i \in TicketIds,
         ReuseAnswer(w, i) \/ MatchKeyword(w, i) \/ AskLlm(w, i)
  PROVE  Inv'
<1>1. /\ TypeOK /\ RowsFit /\ StageFits(w, i)
      /\ at[w][i] = "lookup"
      /\ i \in DOMAIN tickets
      /\ tickets[i].text \in Texts \ DegenerateTexts
  BY DEF Inv, TypeOK, Live, Rows, StageFits, ReuseAnswer, MatchKeyword, AskLlm
<1>2. CASE ReuseAnswer(w, i)
  <2>1. PICK j \in Duplicates(i) :
          Move(w, i, "store", [answer |-> tickets[j].answer, ai_used |-> FALSE])
    BY <1>2 DEF ReuseAnswer
  <2> DEFINE r == [answer |-> tickets[j].answer, ai_used |-> FALSE]
  <2>2. j \in DOMAIN tickets /\ tickets[j].status = "ready" /\ tickets[j].text = tickets[i].text
    BY FindReadyFacts DEF Duplicates
  <2>3. Fits(r.answer, tickets[i].text) /\ r.answer \in Answers \cup {NoAnswer}
    BY <1>1, <2>2 DEF RowsFit, AnswerRow, TypeOK, Rows
  <2>4. r \in Results
    BY <2>3 DEF Fits, Results
  <2>5. at'[w][i] = "store" /\ pending'[w][i] = r
    BY <1>1, <2>1, <2>4, MoveFacts DEF Stages, Pending
  <2>6. StageFits(w, i)'
    BY <1>2, <2>3, <2>4, <2>5 DEF StageFits, ReuseAnswer
  <2> QED
    BY <1>1, <1>2, <2>1, <2>4, <2>6, OneJobStep DEF ReuseAnswer, Stages, Pending, TypeOK
<1>3. CASE MatchKeyword(w, i)
  <2> DEFINE r == [answer |-> KeywordAnswer(tickets[i].text), ai_used |-> FALSE]
  <2>1. r \in Results /\ Fits(r.answer, tickets[i].text)
    BY <1>1, <1>3 DEF MatchKeyword, Results, Answers, KeywordAnswer, Fits
  <2>2. at'[w][i] = "store" /\ pending'[w][i] = r
    BY <1>1, <1>3, <2>1, MoveFacts DEF MatchKeyword, Stages, Pending
  <2>3. StageFits(w, i)'
    BY <1>3, <2>1, <2>2 DEF StageFits, MatchKeyword
  <2> QED
    BY <1>1, <1>3, <2>1, <2>3, OneJobStep DEF MatchKeyword, Stages, Pending, TypeOK
<1>4. CASE AskLlm(w, i)
  <2>1. "llm" \in Stages /\ NoResult \in Pending
    BY DEF Stages, Pending
  <2>2. at'[w][i] = "llm"
    BY <1>1, <1>4, <2>1, MoveFacts DEF AskLlm
  <2>3. StageFits(w, i)'
    BY <1>1, <1>4, <2>2 DEF StageFits, AskLlm
  <2>4. llmCalls' \in [TicketIds -> Nat]
    BY <1>1, <1>4 DEF AskLlm, TypeOK
  <2> QED
    BY <1>1, <1>4, <2>1, <2>3, <2>4, OneJobStep DEF AskLlm, TypeOK
<1> QED
  BY <1>2, <1>3, <1>4

LEMMA ReplyStep ==
  ASSUME Inv, NEW w \in Workers, NEW i \in TicketIds,
         LlmAnswers(w, i) \/ LlmFails(w, i)
  PROVE  Inv'
<1>1. /\ TypeOK /\ StageFits(w, i)
      /\ at[w][i] = "llm"
      /\ i \in DOMAIN tickets
      /\ tickets[i].text \in Texts \ (DegenerateTexts \cup FastPathTexts)
  BY DEF Inv, TypeOK, Live, Rows, StageFits, LlmAnswers, LlmFails
<1>2. CASE LlmAnswers(w, i)
  <2>1. PICK v \in Verdicts :
          Move(w, i, "store",
               [answer |-> LlmAnswer(tickets[i].text, v), ai_used |-> TRUE])
    BY <1>2 DEF LlmAnswers
  <2> DEFINE r == [answer |-> LlmAnswer(tickets[i].text, v), ai_used |-> TRUE]
  <2>2. r \in Results /\ Fits(r.answer, tickets[i].text) /\ r.answer.by = "llm"
    BY <1>1 DEF Results, Answers, LlmAnswer, Fits
  <2>3. at'[w][i] = "store" /\ pending'[w][i] = r
    BY <1>1, <2>1, <2>2, MoveFacts DEF Stages, Pending
  <2>4. StageFits(w, i)'
    BY <1>2, <2>2, <2>3 DEF StageFits, LlmAnswers
  <2> QED
    BY <1>1, <1>2, <2>1, <2>2, <2>4, OneJobStep DEF LlmAnswers, Stages, Pending, TypeOK
<1>3. CASE LlmFails(w, i)
  <2>1. "fail" \in Stages /\ NoResult \in Pending
    BY DEF Stages, Pending
  <2>2. at'[w][i] = "fail"
    BY <1>1, <1>3, <2>1, MoveFacts DEF LlmFails
  <2>3. StageFits(w, i)'
    BY <2>2 DEF StageFits
  <2> QED
    BY <1>1, <1>3, <2>1, <2>3, OneJobStep DEF LlmFails, TypeOK
<1> QED
  BY <1>2, <1>3

LEMMA StoreStep ==
  ASSUME Inv, NEW w \in Workers, NEW i \in TicketIds,
         StoreReady(w, i) \/ StoreFailed(w, i)
  PROVE  Inv'
<1>1. /\ TypeOK /\ StageFits(w, i)
      /\ IsTable(tickets)
      /\ at[w][i] # "idle"
      /\ i \in DOMAIN tickets
      /\ tickets[i] \in Rows
  BY TypedTable DEF Inv, TypeOK, Live, StoreReady, StoreFailed
<1>2. CASE StoreReady(w, i)
  <2> DEFINE r == pending[w][i]
  <2>1. /\ r \in Results /\ Fits(r.answer, tickets[i].text)
        /\ r.ai_used => r.answer.by = "llm"
    BY <1>1, <1>2 DEF StoreReady, StageFits
  <2>2. /\ UpdatesOnly(tickets, tickets', {i})
        /\ tickets'[i].status = "ready"
        /\ tickets'[i].answer = r.answer
        /\ tickets'[i].ai_used = r.ai_used
    BY <1>1, <1>2, <2>1, MarkReadyFacts DEF StoreReady
  <2>3. LedgerRow(tickets'[i]) /\ AnswerRow(tickets'[i])
    BY <1>1, <2>1, <2>2 DEF LedgerRow, AnswerRow, UpdatesOnly
  <2> QED
    BY <1>1, <1>2, <2>2, <2>3, LastStep DEF StoreReady
<1>3. CASE StoreFailed(w, i)
  <2>1. /\ UpdatesOnly(tickets, tickets', {i})
        /\ tickets'[i].retries = tickets[i].retries + 1
        /\ tickets'[i].status = IF tickets[i].retries + 1 >= MaxRetries
                                THEN "dead_letter" ELSE "failed"
    BY <1>1, <1>3, MarkFailedFacts DEF StoreFailed
  <2>2. tickets[i].retries \in Nat /\ MaxRetries \in Nat
    BY <1>1, RepositoryAssumption DEF Rows
  <2>3. LedgerRow(tickets'[i]) /\ AnswerRow(tickets'[i])
    BY <2>1, <2>2 DEF LedgerRow, AnswerRow
  <2> QED
    BY <1>1, <1>3, <2>1, <2>3, LastStep DEF StoreFailed
<1> QED
  BY <1>2, <1>3

LEMMA LossStep ==
  ASSUME Inv, NEW w \in Workers, NEW i \in TicketIds,
         LoseJob(w, i) \/ (w \in Schedulers /\ LoseSession(w, i))
  PROVE  Inv'
<1>1. TypeOK /\ at[w][i] # "idle" /\ "idle" \in Stages /\ NoResult \in Pending
  BY DEF Inv, LoseJob, LoseSession, DbStages, Stages, Pending
<1>2. lost' \in [TicketIds -> 0 .. MaxLost] /\ llmCalls' \in [TicketIds -> Nat]
  BY <1>1, PipelineAssumption DEF LoseJob, LoseSession, TypeOK
<1>3. orphans' \subseteq Schedulers \X TicketIds
  BY <1>1 DEF LoseJob, LoseSession, TypeOK
<1> QED
  BY <1>1, <1>2, <1>3, OneJobStep DEF LoseJob, LoseSession, EndJob

LEMMA CrashStep ==
  ASSUME Inv, NEW p \in Processes, Crash(p)
  PROVE  Inv'
<1>1. TypeOK
  BY DEF Inv
<1>2. /\ JobsTyped
      /\ \A w \in Workers, i \in TicketIds : Kept(w, i) \/ at'[w][i] = "idle"
  BY <1>1 DEF Crash, TypeOK, JobsTyped, Kept, Stages, Pending
<1>3. TextsStay
  BY DEF Crash, TextsStay
<1>4. \A w \in Workers, i \in TicketIds : StageFits(w, i)'
  BY <1>2, <1>3, KeptFits
<1>5. \A i \in TicketIds : Live(i)' => i \in DOMAIN tickets'
  BY <1>1, <1>2 DEF TypeOK, Live, Kept, Crash
<1>6. lost' \in [TicketIds -> 0 .. MaxLost]
  BY <1>1, PipelineAssumption DEF Crash, TypeOK
<1>7. TypeOK'
  BY <1>1, <1>2, <1>5, <1>6 DEF TypeOK, JobsTyped, Crash
<1> QED
  BY <1>4, <1>7 DEF Inv, RowsFit, Crash

LEMMA TimeStep ==
  ASSUME Inv, \/ Tick
              \/ \E i \in DOMAIN tickets : Revive(i)
              \/ \E o \in orphans : CollectOrphan(o)
  PROVE  Inv'
<1>1. TypeOK /\ RowsFit
  BY DEF Inv
<1>2. CASE Tick
  <2>1. /\ DOMAIN tickets' = DOMAIN tickets
        /\ \A i \in DOMAIN tickets :
             \/ tickets'[i] = tickets[i]
             \/ /\ tickets[i].status = "processing"
                /\ tickets[i].age <= StuckAfter
                /\ tickets'[i] = [tickets[i] EXCEPT !.age = tickets[i].age + 1]
    BY <1>2 DEF Tick
  <2>2. \A i \in DOMAIN tickets :
          /\ tickets'[i] \in Rows
          /\ tickets'[i].text = tickets[i].text
          /\ LedgerRow(tickets'[i]) /\ AnswerRow(tickets'[i])
    <3> SUFFICES ASSUME NEW i \in DOMAIN tickets
                 PROVE  /\ tickets'[i] \in Rows
                        /\ tickets'[i].text = tickets[i].text
                        /\ LedgerRow(tickets'[i]) /\ AnswerRow(tickets'[i])
      OBVIOUS
    <3>1. tickets[i] \in Rows /\ LedgerRow(tickets[i]) /\ AnswerRow(tickets[i])
      BY <1>1 DEF TypeOK, RowsFit
    <3>2. CASE tickets'[i] # tickets[i]
      <4>1. tickets[i].age + 1 \in Ages
        BY <2>1, <3>1, <3>2, RepositoryAssumption DEF Rows, Ages
      <4> QED
        BY <2>1, <3>1, <3>2, <4>1 DEF Rows, LedgerRow, AnswerRow
    <3> QED
      BY <3>1, <3>2
  <2>3. tickets' \in [DOMAIN tickets' -> Rows]
    BY <1>2, <2>1, <2>2 DEF Tick
  <2>4. TextsStay /\ RowsFit' /\ TableTyped'
    BY <1>1, <1>2, <2>1, <2>2, <2>3 DEF TextsStay, RowsFit, TableTyped, TypeOK, Tick
  <2> QED
    BY <1>1, <1>2, <2>4, NoJobStep DEF Tick, TypeOK
<1>3. ASSUME NEW i \in DOMAIN tickets, Revive(i) PROVE Inv'
  <2>1. tickets[i] \in Rows /\ i \in TicketIds
    BY <1>1 DEF TypeOK
  <2> DEFINE row == [tickets[i] EXCEPT !.status = "failed", !.retries = 0]
  <2>2. /\ row \in Rows /\ row.text = tickets[i].text
        /\ LedgerRow(row) /\ AnswerRow(row)
    <3>1. row \in Rows /\ row.text = tickets[i].text
      BY <2>1 DEF Rows, Statuses
    <3>2. row.status = "failed" /\ row.retries = 0
      BY <2>1 DEF Rows
    <3> HIDE DEF row
    <3>3. 0 < MaxRetries
      BY RepositoryAssumption
    <3> QED
      BY <3>1, <3>2, <3>3 DEF LedgerRow, AnswerRow
  <2>3. tickets' = [tickets EXCEPT ![i] = row]
    BY <1>3 DEF Revive
  <2> HIDE DEF row
  <2>4. TextsStay /\ RowsFit' /\ TableTyped'
    BY <1>1, <1>3, <2>1, <2>2, <2>3 DEF TextsStay, RowsFit, TableTyped, TypeOK, Revive
  <2>5. llmCalls' \in [TicketIds -> Nat]
    BY <1>1, <1>3 DEF Revive, TypeOK
  <2> QED
    BY <1>3, <2>4, <2>5, NoJobStep DEF Revive
<1>4. ASSUME NEW o \in orphans, CollectOrphan(o) PROVE Inv'
  <2>1. TextsStay /\ RowsFit' /\ TableTyped'
    BY <1>1, <1>4 DEF TextsStay, RowsFit, TableTyped, TypeOK, CollectOrphan
  <2> QED
    BY <1>1, <1>4, <2>1, NoJobStep DEF CollectOrphan, TypeOK
<1> QED
  BY <1>2, <1>3, <1>4

LEMMA NextInv == Inv /\ [Next]_vars => Inv'
<1> SUFFICES ASSUME Inv, [Next]_vars PROVE Inv'
  OBVIOUS
<1>1. CASE UNCHANGED vars
  BY <1>1 DEF vars, Inv, TypeOK, RowsFit, StageFits, Live
<1>2. CASE Next
  <2>1. ASSUME NEW w \in Workers, NEW i \in TicketIds, JobStep(w, i) PROVE Inv'
    BY <2>1, LookupStep, ReplyStep, StoreStep DEF JobStep
  <2>2. Schedulers \subseteq Workers
    BY DEF Workers
  <2> QED
    BY <1>2, <2>1, <2>2, DraftStep, AnalyzeStep, ClaimStep, LossStep, CrashStep,
       TimeStep DEF Next
<1> QED
  BY <1>1, <1>2

\* The types, with ids handed out once and every job about a committed row.
THEOREM TypeCorrect == Spec => []TypeOK
  BY InitInv, NextInv, InvParts, PTL DEF Spec

\* Status and retry counter agree under any interleaving, with jobs that
\* outlive their timeout, crashes and lost updates.
THEOREM RetryLedgerHolds == Spec => []RetryLedger
  BY InitInv, NextInv, InvParts, PTL DEF Spec

\* Every ready ticket shows an answer that fits its own text.
THEOREM AnswersFitHolds == Spec => []AnswersFit
  BY InitInv, NextInv, InvParts, PTL DEF Spec
-----------------------------------------------------------------------------
(* A settled ticket is left alone by everybody but the jobs it still has.  *)

\* Nobody begins to work on ticket i.
NoNewJob(i) == \A w \in Workers : at'[w][i] # "idle" => at[w][i] # "idle"

LEMMA MoveBeginsNothing ==
  ASSUME TypeOK, NEW w \in Workers, NEW j \in TicketIds, at[w][j] # "idle",
         NEW stage, NEW result, Move(w, j, stage, result), NEW i \in TicketIds
  PROVE  NoNewJob(i)
  BY DEF Move, TypeOK, NoNewJob

\* claim_pending picks none of them, and begins the jobs of what it picked.
LEMMA ClaimSparesSettled ==
  ASSUME Inv, NEW s \in Schedulers, Claim(s), NEW i \in TicketIds, Settled(i)
  PROVE  tickets'[i] = tickets[i] /\ NoNewJob(i)
<1>1. TypeOK /\ IsTable(tickets) /\ s \in Workers
  BY TypedTable DEF Inv, Workers
<1>2. PICK L \in SUBSET MaybeLocked :
        \E S \in ClaimBatches(tickets, LockedByOrphans \cup L, BatchSize) :
          tickets' = ClaimRows(tickets, S) /\ StartJobs(s, S, tickets)
  BY DEF Claim
<1>3. PICK S \in ClaimBatches(tickets, LockedByOrphans \cup L, BatchSize) :
        tickets' = ClaimRows(tickets, S) /\ StartJobs(s, S, tickets)
  BY <1>2
<1>4. S \in SUBSET DOMAIN tickets /\ i \notin S
  BY ClaimBatchFacts DEF Settled
<1>5. tickets'[i] = tickets[i]
  BY <1>1, <1>3, <1>4, ClaimRowsFacts DEF UpdatesOnly, Settled
<1>6. NoNewJob(i)
  BY <1>1, <1>3, <1>4, StartFacts DEF NoNewJob, Kept
<1> QED
  BY <1>5, <1>6

LEMMA SettledStep ==
  ASSUME Inv, [Next]_vars, NEW i \in TicketIds, Settled(i)
  PROVE  tickets'[i].status \in {"ready", "dead_letter", "failed"} /\ NoNewJob(i)
<1>1. /\ TypeOK /\ IsTable(tickets) /\ i \in DOMAIN tickets
      /\ tickets[i] \in Rows
      /\ tickets[i].status \in {"ready", "dead_letter"}
  BY TypedTable DEF Inv, TypeOK, Settled
<1>2. CASE UNCHANGED <<tickets, at>>
  BY <1>1, <1>2 DEF NoNewJob
<1>3. ASSUME NEW j \in TicketIds \ DOMAIN tickets, NEW r, tickets' = Insert(tickets, j, r)
      PROVE  tickets'[i] = tickets[i]
  BY <1>1, <1>3 DEF Insert
<1>4. CASE \E d \in inserting : CommitDraft(d)
  <2>1. tickets'[i] = tickets[i]
    BY <1>1, <1>3, <1>4 DEF CommitDraft, TypeOK, Drafts
  <2> QED
    BY <1>1, <1>4, <2>1 DEF CommitDraft, NoNewJob
<1>5. ASSUME NEW h \in Handlers, NEW t \in Texts, Analyze(h, t)
      PROVE  tickets'[i].status = tickets[i].status /\ NoNewJob(i)
  <2>1. nextId \in TicketIds \ DOMAIN tickets /\ h \in Workers
    BY <1>1, <1>5 DEF Analyze, TypeOK, Workers
  <2>2. tickets'[i] = tickets[i]
    BY <1>3, <1>5, <2>1 DEF Analyze
  <2>3. NoNewJob(i)
    BY <1>1, <1>5, <2>1 DEF Analyze, StartJobs, NoNewJob, TypeOK
  <2> QED
    BY <2>2, <2>3
<1>6. CASE \E s \in Schedulers : Claim(s)
  BY <1>1, <1>6, ClaimSparesSettled
<1>7. CASE Tick
  BY <1>1, <1>7 DEF Tick, NoNewJob
<1>8. ASSUME NEW j \in DOMAIN tickets, Revive(j)
      PROVE  tickets'[i].status \in {"ready", "dead_letter", "failed"} /\ NoNewJob(i)
  BY <1>1, <1>8 DEF Revive, NoNewJob, Rows
<1>9. CASE \E p \in Processes : Crash(p)
  BY <1>1, <1>9 DEF Crash, NoNewJob
<1>10. ASSUME NEW w \in Workers, NEW j \in TicketIds,
              \/ ReuseAnswer(w, j) \/ MatchKeyword(w, j) \/ AskLlm(w, j)
              \/ LlmAnswers(w, j) \/ LlmFails(w, j)
              \/ LoseJob(w, j) \/ (w \in Schedulers /\ LoseSession(w, j))
       PROVE  tickets' = tickets /\ NoNewJob(i)
  BY <1>1, <1>10, MoveBeginsNothing
     DEF ReuseAnswer, MatchKeyword, AskLlm, LlmAnswers, LlmFails, LoseJob, LoseSession,
     EndJob, DbStages
<1>11. ASSUME NEW w \in Workers, NEW j \in TicketIds, StoreReady(w, j) \/ StoreFailed(w, j)
       PROVE  tickets'[i].status \in {"ready", "dead_letter", "failed"} /\ NoNewJob(i)
  <2>1. NoNewJob(i) /\ j \in DOMAIN tickets
    BY <1>1, <1>11, MoveBeginsNothing DEF StoreReady, StoreFailed, EndJob, TypeOK, Live
  <2>2. CASE StoreReady(w, j)
    <3>1. pending[w][j] \in Results
      BY <2>2 DEF Inv, StageFits, StoreReady
    <3> QED
      BY <1>1, <2>1, <2>2, <3>1, MarkReadyFacts DEF StoreReady, UpdatesOnly
  <2>3. CASE StoreFailed(w, j)
    BY <1>1, <2>1, <2>3, MarkFailedFacts DEF StoreFailed, UpdatesOnly
  <2> QED
    BY <1>11, <2>2, <2>3
<1>12. Schedulers \subseteq Workers
  BY DEF Workers
<1> QED
  BY <1>1, <1>2, <1>4, <1>5, <1>6, <1>7, <1>8, <1>9, <1>10, <1>11, <1>12
     DEF Next, JobStep, vars, CreateDraft, AbortDraft, CollectOrphan

\* Whatever the timing, nobody takes up a ticket that is ready or a dead letter,
\* and only a job that overlaps makes such a ticket "failed".
THEOREM SettledNotClaimedHolds == Spec => SettledNotClaimed
<1> DEFINE Spared == \A i \in TicketIds : Settled(i) =>
                       /\ tickets'[i].status \in {"ready", "dead_letter", "failed"}
                       /\ \A w \in Workers : at'[w][i] # "idle" => at[w][i] # "idle"
<1>1. Inv /\ [Next]_vars => [Spared]_vars
  BY SettledStep DEF NoNewJob
<1> QED
  BY <1>1, InitInv, NextInv, PTL DEF Spec, SettledNotClaimed
=============================================================================
