------------------------- MODULE TicketPromptProofs -------------------------
(***************************************************************************)
(* What holds when no job outlives PROCESSING_TIMEOUT_SEC: one owner per   *)
(* ticket, a bounded number of LLM calls, and the contract.  All of it     *)
(* rests on one fact: while a job of a ticket is alive, its row says       *)
(* "processing" and is too young to be claimed.                            *)
(***************************************************************************)
EXTENDS TicketPipelineProofs

Owned(w, i) ==
  at[w][i] # "idle" => tickets[i].status = "processing" /\ tickets[i].age <= StuckAfter

\* An LLM call has been made that neither the retry counter nor lost counts.
Engaged(i) ==
  \/ \E w \in Workers : at[w][i] \in {"llm", "store", "fail"}
  \/ tickets[i].status = "ready"

Budget(i) ==
  /\ i \notin DOMAIN tickets => llmCalls[i] = 0
  /\ i \in DOMAIN tickets =>
       /\ llmCalls[i] <= tickets[i].retries + lost[i] + 1
       /\ ~Engaged(i) => llmCalls[i] <= tickets[i].retries + lost[i]
       /\ tickets[i].retries <= MaxRetries
       /\ tickets[i].status = "ready" => tickets[i].retries < MaxRetries

PromptInv ==
  /\ Inv
  /\ \A w \in Workers, i \in TicketIds : Owned(w, i)
  /\ SingleOwner
  /\ \A i \in TicketIds : Budget(i)

LEMMA InitPrompt == Init => PromptInv
  BY InitInv DEF Init, EmptyTable, PromptInv, Owned, SingleOwner, Budget

LEMMA PromptParts == PromptInv => SingleOwner /\ LlmBudget
<1> SUFFICES ASSUME PromptInv PROVE SingleOwner /\ LlmBudget
  OBVIOUS
<1> SUFFICES ASSUME NEW i \in TicketIds PROVE llmCalls[i] <= MaxRetries + lost[i]
  BY DEF PromptInv, LlmBudget
<1>1. /\ Budget(i) /\ lost[i] \in Nat /\ llmCalls[i] \in Nat /\ MaxRetries \in Nat
      /\ \A w \in Workers : Owned(w, i)
  BY RepositoryAssumption, PipelineAssumption DEF PromptInv, Inv, TypeOK
<1>2. CASE i \notin DOMAIN tickets
  BY <1>1, <1>2 DEF Budget
<1>3. CASE i \in DOMAIN tickets /\ ~Engaged(i)
  BY <1>1, <1>3 DEF Budget, PromptInv, Inv, TypeOK, Rows
<1>4. CASE i \in DOMAIN tickets /\ Engaged(i)
  <2>1. tickets[i].retries \in Nat
    BY <1>4 DEF PromptInv, Inv, TypeOK, Rows
  <2>2. tickets[i].status \in {"ready", "processing"}
    BY <1>1, <1>4 DEF Engaged, Owned
  <2>3. tickets[i].retries < MaxRetries
    BY <1>1, <1>4, <2>2 DEF Budget, PromptInv, Inv, RowsFit, LedgerRow
  <2> QED
    BY <1>1, <1>4, <2>1, <2>3 DEF Budget
<1> QED
  BY <1>2, <1>3, <1>4

LEMMA Numbers ==
  ASSUME TypeOK, NEW i \in TicketIds
  PROVE  /\ lost[i] \in Nat /\ llmCalls[i] \in Nat /\ MaxRetries \in Nat \ {0}
         /\ i \in DOMAIN tickets => tickets[i].retries \in Nat /\ tickets[i].age \in Int
  BY RepositoryAssumption, PipelineAssumption DEF TypeOK, Rows, Ages

\* A ticket whose row and jobs a step leaves alone.
Untouched(i) ==
  /\ i \in DOMAIN tickets' <=> i \in DOMAIN tickets
  /\ i \in DOMAIN tickets => tickets'[i] = tickets[i]
  /\ llmCalls'[i] = llmCalls[i] /\ lost'[i] = lost[i]
  /\ \A w \in Workers : at'[w][i] = at[w][i]

PromptPart(i) ==
  /\ \A w \in Workers : Owned(w, i)
  /\ \A w1, w2 \in Workers : at[w1][i] # "idle" /\ at[w2][i] # "idle" => w1 = w2
  /\ Budget(i)

LEMMA PartsMakeInv == PromptInv <=> Inv /\ \A i \in TicketIds : PromptPart(i)
  BY DEF PromptInv, PromptPart, SingleOwner

LEMMA UntouchedPart ==
  ASSUME NEW i \in TicketIds, PromptPart(i), TypeOK, Untouched(i)
  PROVE  PromptPart(i)'
<1>1. CASE i \in DOMAIN tickets
  BY <1>1 DEF PromptPart, Owned, Budget, Engaged, Untouched
<1>2. CASE i \notin DOMAIN tickets
  <2>1. \A w \in Workers : at'[w][i] = "idle"
    BY <1>2 DEF Untouched, TypeOK, Live
  <2> QED
    BY <1>2, <2>1 DEF PromptPart, Owned, Budget, Untouched
<1> QED
  BY <1>1, <1>2

\* A ticket nobody works on, and whose last attempt is accounted for.
LEMMA RestingPart ==
  ASSUME NEW i \in TicketIds, Inv', i \in DOMAIN tickets',
         \A w \in Workers : at'[w][i] = "idle",
         tickets'[i].status # "ready",
         tickets'[i].retries <= MaxRetries,
         llmCalls'[i] <= tickets'[i].retries + lost'[i]
  PROVE  PromptPart(i)'
<1>1. /\ tickets'[i].retries \in Nat /\ lost'[i] \in Nat /\ llmCalls'[i] \in Nat
      /\ MaxRetries \in Nat
  BY RepositoryAssumption, PipelineAssumption DEF Inv, TypeOK, Rows
<1>2. Budget(i)'
  BY <1>1 DEF Budget
<1> QED
  BY <1>2 DEF PromptPart, Owned

\* A ticket that had no job, and whose row is new or has been claimed.
LEMMA ClaimedPart ==
  ASSUME NEW i \in TicketIds, PromptPart(i), TypeOK, Inv',
         i \in DOMAIN tickets', tickets'[i].status = "processing",
         tickets'[i].age <= StuckAfter,
         \A w \in Workers : at[w][i] = "idle",
         \A w1, w2 \in Workers : at'[w1][i] # "idle" /\ at'[w2][i] # "idle" => w1 = w2,
         i \in DOMAIN tickets => /\ tickets[i].status # "ready"
                                 /\ tickets'[i].retries = tickets[i].retries,
         UNCHANGED <<llmCalls, lost>>
  PROVE  PromptPart(i)'
<1>1. \A w \in Workers : Owned(w, i)'
  BY DEF Owned
<1>2. tickets'[i].retries \in Nat /\ tickets'[i].retries < MaxRetries
  BY DEF Inv, TypeOK, Rows, RowsFit, LedgerRow
<1>3. llmCalls'[i] <= tickets'[i].retries + lost'[i]
  <2>1. CASE i \notin DOMAIN tickets
    BY <1>2, <2>1, Numbers DEF PromptPart, Budget
  <2>2. CASE i \in DOMAIN tickets
    <3>1. ~Engaged(i)
      BY <2>2 DEF Engaged
    <3> QED
      BY <2>2, <3>1 DEF PromptPart, Budget
  <2> QED
    BY <2>1, <2>2
<1>4. Budget(i)'
  BY <1>2, <1>3, Numbers DEF Budget
<1> QED
  BY <1>1, <1>4 DEF PromptPart

\* The only job of a ticket goes on, without writing the table.
LEMMA OngoingPart ==
  ASSUME NEW w \in Workers, NEW i \in TicketIds, PromptPart(i), TypeOK,
         at[w][i] # "idle", at'[w][i] \in {"llm", "store", "fail"},
         \A v \in Workers \ {w} : at'[v][i] = at[v][i],
         tickets' = tickets, lost' = lost,
         \/ llmCalls'[i] = llmCalls[i]
         \/ at[w][i] = "lookup" /\ llmCalls'[i] = llmCalls[i] + 1
  PROVE  PromptPart(i)'
<1>1. \A v \in Workers \ {w} : at[v][i] = "idle"
  BY DEF PromptPart
<1>2. i \in DOMAIN tickets /\ tickets[i].status = "processing"
  BY DEF PromptPart, Owned, TypeOK, Live
<1>3. llmCalls'[i] <= tickets[i].retries + lost[i] + 1
  <2>1. CASE llmCalls'[i] = llmCalls[i]
    BY <1>2, <2>1 DEF PromptPart, Budget
  <2>2. CASE at[w][i] = "lookup" /\ llmCalls'[i] = llmCalls[i] + 1
    <3>1. ~Engaged(i)
      BY <1>1, <1>2, <2>2 DEF Engaged
    <3> QED
      BY <1>2, <2>2, <3>1, Numbers DEF PromptPart, Budget
  <2> QED
    BY <2>1, <2>2
<1>4. Engaged(i)'
  BY DEF Engaged
<1>5. Budget(i)'
  BY <1>2, <1>3, <1>4 DEF Budget, PromptPart
<1>6. \A v \in Workers : Owned(v, i)'
  BY <1>1 DEF PromptPart, Owned
<1> QED
  BY <1>1, <1>5, <1>6 DEF PromptPart

\* The only job of a ticket ends, whatever it stored.
LEMMA EndedPart ==
  ASSUME NEW w \in Workers, NEW i \in TicketIds, PromptPart(i), Inv, Inv',
         at[w][i] # "idle", at'[w][i] = "idle",
         \A v \in Workers \ {w} : at'[v][i] = at[v][i],
         DOMAIN tickets' = DOMAIN tickets, llmCalls' = llmCalls,
         \/ /\ tickets'[i].status = "ready"
            /\ tickets'[i].retries = tickets[i].retries
            /\ lost'[i] = lost[i]
         \/ /\ tickets'[i].status \in {"failed", "dead_letter"}
            /\ tickets'[i].retries = tickets[i].retries + 1
            /\ lost'[i] = lost[i]
         \/ /\ tickets'[i] = tickets[i]
            /\ lost'[i] = lost[i] + 1
  PROVE  PromptPart(i)'
<1>1. \A v \in Workers : at'[v][i] = "idle"
  BY DEF PromptPart
<1>2. /\ i \in DOMAIN tickets
      /\ tickets[i].status = "processing"
      /\ tickets[i].retries < MaxRetries
  BY DEF PromptPart, Owned, Inv, TypeOK, Live, RowsFit, LedgerRow
<1>3. llmCalls[i] <= tickets[i].retries + lost[i] + 1
  BY <1>2 DEF PromptPart, Budget
<1>4. /\ lost[i] \in Nat /\ llmCalls[i] \in Nat /\ MaxRetries \in Nat
      /\ tickets[i].retries \in Nat
  BY <1>2, Numbers DEF Inv
<1>5. Engaged(i)' <=> tickets'[i].status = "ready"
  BY <1>1 DEF Engaged
<1>6. Budget(i)'
  BY <1>2, <1>3, <1>4, <1>5 DEF Budget
<1> QED
  BY <1>1, <1>6 DEF PromptPart, Owned

LEMMA PromptJobStep ==
  ASSUME PromptInv, Inv', NEW w \in Workers, NEW i \in TicketIds,
         \/ JobStep(w, i)
         \/ LoseJob(w, i)
         \/ w \in Schedulers /\ LoseSession(w, i)
  PROVE  \A j \in TicketIds : PromptPart(j)'
<1>1. Inv /\ TypeOK /\ IsTable(tickets) /\ \A j \in TicketIds : PromptPart(j)
  BY PartsMakeInv, TypedTable DEF Inv
<1>2. /\ at[w][i] # "idle"
      /\ i \in DOMAIN tickets
      /\ at[w][i] = "store" => pending[w][i] \in Results
  BY <1>1 DEF Inv, TypeOK, Live, StageFits, JobStep, ReuseAnswer, MatchKeyword,
     AskLlm, LlmAnswers, LlmFails, StoreReady, StoreFailed, LoseJob, LoseSession,
     DbStages
<1>3. \E stage, result : Move(w, i, stage, result)
  BY DEF JobStep, ReuseAnswer, MatchKeyword, AskLlm, LlmAnswers, LlmFails,
     StoreReady, StoreFailed, LoseJob, LoseSession, EndJob
<1>4. \A v \in Workers, j \in TicketIds : v # w \/ j # i => at'[v][j] = at[v][j]
  BY <1>1, <1>3 DEF Move, TypeOK
<1>5. CASE ReuseAnswer(w, i) \/ MatchKeyword(w, i) \/ AskLlm(w, i)
           \/ LlmAnswers(w, i) \/ LlmFails(w, i)
  <2>1. /\ tickets' = tickets /\ lost' = lost
        /\ at'[w][i] \in {"llm", "store", "fail"}
        /\ \/ llmCalls' = llmCalls
           \/ /\ at[w][i] = "lookup"
              /\ llmCalls' = [llmCalls EXCEPT ![i] = llmCalls[i] + 1]
    BY <1>1, <1>5 DEF ReuseAnswer, MatchKeyword, AskLlm, LlmAnswers, LlmFails,
       Move, TypeOK
  <2>2. ASSUME NEW j \in TicketIds \ {i} PROVE Untouched(j)
    BY <1>1, <1>4, <2>1 DEF Untouched, TypeOK
  <2>3. PromptPart(i)'
    BY <1>1, <1>2, <1>4, <2>1, OngoingPart DEF TypeOK
  <2> QED
    BY <1>1, <2>2, <2>3, UntouchedPart
<1>6. CASE StoreReady(w, i) \/ StoreFailed(w, i) \/ LoseJob(w, i)
           \/ (w \in Schedulers /\ LoseSession(w, i))
  <2>1. at'[w][i] = "idle" /\ llmCalls' = llmCalls
    BY <1>1, <1>6 DEF StoreReady, StoreFailed, LoseJob, LoseSession, EndJob, Move,
       TypeOK
  <2>2. /\ DOMAIN tickets' = DOMAIN tickets
        /\ \A j \in DOMAIN tickets \ {i} : tickets'[j] = tickets[j]
        /\ \A j \in TicketIds \ {i} : lost'[j] = lost[j]
        /\ \/ /\ tickets'[i].status = "ready"
              /\ tickets'[i].retries = tickets[i].retries
              /\ lost'[i] = lost[i]
           \/ /\ tickets'[i].status \in {"failed", "dead_letter"}
              /\ tickets'[i].retries = tickets[i].retries + 1
              /\ lost'[i] = lost[i]
           \/ /\ tickets'[i] = tickets[i]
              /\ lost'[i] = lost[i] + 1
    <3>1. CASE StoreReady(w, i)
      BY <1>1, <1>2, <3>1, MarkReadyFacts DEF StoreReady, UpdatesOnly
    <3>2. CASE StoreFailed(w, i)
      BY <1>1, <1>2, <3>2, MarkFailedFacts DEF StoreFailed, UpdatesOnly
    <3>3. CASE LoseJob(w, i) \/ LoseSession(w, i)
      BY <1>1, <3>3 DEF LoseJob, LoseSession, TypeOK
    <3> QED
      BY <1>6, <3>1, <3>2, <3>3
  <2>3. ASSUME NEW j \in TicketIds \ {i} PROVE PromptPart(j)'
    BY <1>1, <1>4, <2>1, <2>2, UntouchedPart DEF Untouched
  <2>4. PromptPart(i)'
    BY <1>1, <1>2, <1>4, <2>1, <2>2, EndedPart
  <2> QED
    BY <2>3, <2>4
<1> QED
  BY <1>5, <1>6 DEF JobStep

LEMMA PromptDraft ==
  ASSUME PromptInv, Inv',
         \/ \E t \in Texts : CreateDraft(t)
         \/ \E d \in inserting : CommitDraft(d) \/ AbortDraft(d)
  PROVE  \A j \in TicketIds : PromptPart(j)'
<1>1. Inv /\ TypeOK /\ \A j \in TicketIds : PromptPart(j)
  BY PartsMakeInv DEF Inv
<1>2. ASSUME tickets' = tickets, at' = at, UNCHANGED <<llmCalls, lost>>
      PROVE  \A j \in TicketIds : PromptPart(j)'
  BY <1>1, <1>2, UntouchedPart DEF Untouched
<1>3. ASSUME NEW d \in inserting, CommitDraft(d)
      PROVE  \A j \in TicketIds : PromptPart(j)'
  <2>1. d.id \in TicketIds \ DOMAIN tickets
    BY <1>1 DEF TypeOK, Drafts
  <2>2. /\ DOMAIN tickets' = DOMAIN tickets \cup {d.id}
        /\ tickets'[d.id] = NewRow(d.text, "draft")
        /\ \A j \in DOMAIN tickets : tickets'[j] = tickets[j]
        /\ UNCHANGED <<at, llmCalls, lost>>
    BY <1>3, <2>1 DEF CommitDraft, Insert
  <2>3. \A j \in TicketIds \ {d.id} : PromptPart(j)'
    BY <1>1, <2>2, UntouchedPart DEF Untouched
  <2>4. /\ \A w \in Workers : at'[w][d.id] = "idle"
        /\ llmCalls'[d.id] = 0
    BY <1>1, <2>1, <2>2 DEF TypeOK, Live, PromptPart, Budget
  <2>5. tickets'[d.id].status = "draft" /\ tickets'[d.id].retries = 0
    BY <2>2 DEF NewRow
  <2>6. lost'[d.id] \in Nat /\ MaxRetries \in Nat
    BY <1>1, <2>1, <2>2, Numbers
  <2>7. PromptPart(d.id)'
    BY <2>1, <2>2, <2>4, <2>5, <2>6, RestingPart
  <2> QED
    BY <2>3, <2>7
<1> QED
  BY <1>2, <1>3 DEF CreateDraft, AbortDraft

LEMMA PromptAnalyze ==
  ASSUME PromptInv, Inv', Prompt, NEW h \in Handlers, NEW t \in Texts, Analyze(h, t)
  PROVE  \A j \in TicketIds : PromptPart(j)'
<1>1. Inv /\ TypeOK /\ \A j \in TicketIds : PromptPart(j)
  BY PartsMakeInv DEF Inv
<1>2. PICK i \in TicketIds : i = nextId
  BY DEF Analyze
<1>3. h \in Workers /\ i \notin DOMAIN tickets /\ \A w \in Workers : at[w][i] = "idle"
  BY <1>1, <1>2 DEF TypeOK, Live, Workers
<1>4. /\ DOMAIN tickets' = DOMAIN tickets \cup {i}
      /\ tickets'[i] = NewRow(t, "processing")
      /\ \A j \in DOMAIN tickets : tickets'[j] = tickets[j]
      /\ UNCHANGED <<llmCalls, lost>>
  BY <1>2, <1>3 DEF Analyze, Insert
<1>5. \A w \in Workers, j \in TicketIds : w # h \/ j # i => at'[w][j] = at[w][j]
  BY <1>1, <1>2, <1>3 DEF Analyze, StartJobs, Idle, TypeOK
<1>6. \A j \in TicketIds \ {i} : PromptPart(j)'
  BY <1>1, <1>4, <1>5, UntouchedPart DEF Untouched
<1>7. tickets'[i].status = "processing" /\ tickets'[i].age <= StuckAfter
  BY <1>4, PipelineAssumption DEF NewRow
<1>8. \A w \in Workers : at'[w][i] # "idle" => w = h
  BY <1>3, <1>5
<1>9. PromptPart(i)'
  BY <1>1, <1>3, <1>4, <1>7, <1>8, ClaimedPart
<1> QED
  BY <1>6, <1>9

LEMMA PromptClaim ==
  ASSUME PromptInv, Inv', Prompt, NEW s \in Schedulers, Claim(s)
  PROVE  \A j \in TicketIds : PromptPart(j)'
<1>1. /\ Inv /\ TypeOK /\ IsTable(tickets) /\ s \in Workers
      /\ \A j \in TicketIds : PromptPart(j)
  BY PartsMakeInv, TypedTable DEF Inv, Workers
<1>2. PICK L \in SUBSET MaybeLocked :
        \E S \in ClaimBatches(tickets, LockedByOrphans \cup L, BatchSize) :
          tickets' = ClaimRows(tickets, S) /\ StartJobs(s, S, tickets)
  BY DEF Claim
<1>3. PICK S \in ClaimBatches(tickets, LockedByOrphans \cup L, BatchSize) :
        tickets' = ClaimRows(tickets, S) /\ StartJobs(s, S, tickets)
  BY <1>2
<1>4. /\ S \in SUBSET DOMAIN tickets
      /\ \A i \in S : \/ tickets[i].status \in {"draft", "failed"}
                      \/ tickets[i].status = "processing" /\ tickets[i].age > StuckAfter
  BY ClaimBatchFacts
<1>5. /\ UpdatesOnly(tickets, tickets', S)
      /\ \A i \in S : /\ tickets'[i].status = "processing"
                      /\ tickets'[i].age = FreshAge
                      /\ tickets'[i].retries = tickets[i].retries
      /\ UNCHANGED <<llmCalls, lost>>
  BY <1>1, <1>3, <1>4, ClaimRowsFacts DEF Claim
<1>6. \A w \in Workers, j \in TicketIds : w # s \/ j \notin S => at'[w][j] = at[w][j]
  BY <1>1, <1>3 DEF StartJobs, Claim, Idle, TypeOK
<1>7. ASSUME NEW j \in TicketIds \ S PROVE PromptPart(j)'
  BY <1>1, <1>5, <1>6, UntouchedPart DEF Untouched, UpdatesOnly
<1>8. ASSUME NEW j \in S PROVE PromptPart(j)'
  <2>1. j \in TicketIds /\ tickets[j] \in Rows
    BY <1>1, <1>4 DEF IsTable
  <2>2. \A w \in Workers : at[w][j] = "idle"
    <3>1. tickets[j].age \in Int /\ StuckAfter \in Int
      BY <2>1, RepositoryAssumption DEF Rows, Ages
    <3> QED
      BY <1>1, <1>4, <2>1, <3>1 DEF PromptPart, Owned
  <2>3. \A w \in Workers : at'[w][j] # "idle" => w = s
    BY <1>6, <2>1, <2>2
  <2>4. j \in DOMAIN tickets' /\ tickets'[j].age <= StuckAfter /\ tickets[j].status # "ready"
    BY <1>4, <1>5, PipelineAssumption DEF UpdatesOnly
  <2> QED
    BY <1>1, <1>5, <2>1, <2>2, <2>3, <2>4, ClaimedPart
<1> QED
  BY <1>7, <1>8

LEMMA PromptCrash ==
  ASSUME PromptInv, Inv', NEW p \in Processes, Crash(p)
  PROVE  \A j \in TicketIds : PromptPart(j)'
<1>1. Inv /\ TypeOK /\ \A j \in TicketIds : PromptPart(j)
  BY PartsMakeInv DEF Inv
<1>2. p \subseteq Workers
  BY PipelineAssumption
<1>3. /\ tickets' = tickets /\ llmCalls' = llmCalls
      /\ \A w \in Workers, j \in TicketIds :
           at'[w][j] = IF w \in p THEN "idle" ELSE at[w][j]
      /\ \A j \in TicketIds :
           lost'[j] = IF \E w \in p : at[w][j] # "idle" THEN lost[j] + 1 ELSE lost[j]
  BY <1>1 DEF Crash, TypeOK
<1>4. ASSUME NEW j \in TicketIds, \A w \in p : at[w][j] = "idle"
      PROVE  PromptPart(j)'
  <2>1. \A w \in Workers : at'[w][j] = at[w][j]
    BY <1>3, <1>4
  <2>2. lost'[j] = lost[j]
    BY <1>3, <1>4
  <2> QED
    BY <1>1, <1>3, <2>1, <2>2, UntouchedPart DEF Untouched
<1>5. ASSUME NEW j \in TicketIds, NEW w \in p, at[w][j] # "idle"
      PROVE  PromptPart(j)'
  <2>1. lost'[j] = lost[j] + 1 /\ at'[w][j] = "idle" /\ w \in Workers
    BY <1>2, <1>3, <1>5
  <2>2. \A v \in Workers \ {w} : at'[v][j] = at[v][j]
    BY <1>1, <1>2, <1>3, <1>5 DEF PromptPart
  <2> QED
    BY <1>1, <1>3, <1>5, <2>1, <2>2, EndedPart
<1> QED
  BY <1>4, <1>5

LEMMA PromptTime ==
  ASSUME PromptInv, Inv', Prompt, Tick
  PROVE  \A j \in TicketIds : PromptPart(j)'
<1>1. Inv /\ TypeOK /\ \A j \in TicketIds : PromptPart(j)
  BY PartsMakeInv DEF Inv
<1> SUFFICES ASSUME NEW j \in TicketIds PROVE PromptPart(j)'
  OBVIOUS
<1>2. DOMAIN tickets' = DOMAIN tickets /\ UNCHANGED <<at, llmCalls, lost>>
  BY DEF Tick
<1>3. CASE j \notin DOMAIN tickets
  BY <1>1, <1>2, <1>3, UntouchedPart DEF Untouched
<1>4. CASE j \in DOMAIN tickets
  <2>1. tickets[j] \in Rows /\ tickets[j].age \in Int /\ StuckAfter \in Int
    BY <1>1, <1>4, RepositoryAssumption DEF TypeOK, Rows, Ages
  <2>2. CASE tickets'[j] = tickets[j]
    BY <1>1, <1>2, <2>2, UntouchedPart DEF Untouched
  <2>3. CASE tickets'[j] # tickets[j]
    <3>1. tickets'[j] = [tickets[j] EXCEPT !.age = tickets[j].age + 1]
      BY <1>4, <2>3 DEF Tick
    <3>2. /\ tickets'[j].status = tickets[j].status
          /\ tickets'[j].retries = tickets[j].retries
          /\ tickets'[j].age = tickets[j].age + 1
      BY <2>1, <3>1 DEF Rows
    <3>3. ASSUME NEW w \in Workers, at[w][j] # "idle"
          PROVE  tickets'[j].age <= StuckAfter
      <4>1. tickets[j].age < StuckAfter
        BY <1>4, <3>3 DEF Tick, Live
      <4> QED
        BY <2>1, <3>2, <4>1
    <3>4. \A w \in Workers : Owned(w, j)'
      BY <1>1, <1>2, <3>2, <3>3 DEF PromptPart, Owned
    <3> QED
      BY <1>1, <1>2, <1>4, <3>2, <3>4 DEF PromptPart, Budget, Engaged
  <2> QED
    BY <2>2, <2>3
<1> QED
  BY <1>3, <1>4

LEMMA PromptRevive ==
  ASSUME PromptInv, Inv', NEW i \in DOMAIN tickets, Revive(i)
  PROVE  \A j \in TicketIds : PromptPart(j)'
<1>1. Inv /\ TypeOK /\ \A j \in TicketIds : PromptPart(j)
  BY PartsMakeInv DEF Inv
<1>2. /\ i \in TicketIds /\ tickets[i] \in Rows
      /\ \A w \in Workers : at[w][i] = "idle"
  BY <1>1 DEF TypeOK, PromptPart, Owned, Revive
<1>3. /\ DOMAIN tickets' = DOMAIN tickets
      /\ tickets'[i] = [tickets[i] EXCEPT !.status = "failed", !.retries = 0]
      /\ \A j \in DOMAIN tickets \ {i} : tickets'[j] = tickets[j]
      /\ llmCalls'[i] = 0
      /\ \A j \in TicketIds \ {i} : llmCalls'[j] = llmCalls[j]
      /\ UNCHANGED <<at, lost>>
  BY <1>1, <1>2 DEF Revive, TypeOK
<1>4. tickets'[i].status = "failed" /\ tickets'[i].retries = 0
  BY <1>2, <1>3 DEF Rows
<1>5. lost'[i] \in Nat /\ MaxRetries \in Nat
  BY <1>1, <1>2, <1>3, Numbers
<1>6. PromptPart(i)'
  <2>1. tickets'[i].retries <= MaxRetries /\ llmCalls'[i] <= tickets'[i].retries + lost'[i]
    BY <1>3, <1>4, <1>5
  <2>2. i \in DOMAIN tickets' /\ \A w \in Workers : at'[w][i] = "idle"
    BY <1>2, <1>3
  <2> QED
    BY <1>2, <1>4, <2>1, <2>2, RestingPart
<1>7. \A j \in TicketIds \ {i} : PromptPart(j)'
  BY <1>1, <1>3, UntouchedPart DEF Untouched
<1> QED
  BY <1>6, <1>7

LEMMA PromptNext == Prompt /\ PromptInv /\ [Next]_vars => PromptInv'
<1> SUFFICES ASSUME Prompt, PromptInv, [Next]_vars PROVE PromptInv'
  OBVIOUS
<1>1. Inv /\ TypeOK /\ Inv' /\ \A j \in TicketIds : PromptPart(j)
  BY PartsMakeInv, NextInv DEF Inv
<1>2. ASSUME UNCHANGED <<tickets, at, llmCalls, lost>>
      PROVE  \A j \in TicketIds : PromptPart(j)'
  BY <1>1, <1>2, UntouchedPart DEF Untouched
<1>3. UNCHANGED vars \/ (\E o \in orphans : CollectOrphan(o))
        => \A j \in TicketIds : PromptPart(j)'
  BY <1>2 DEF vars, CollectOrphan
<1>4. \A j \in TicketIds : PromptPart(j)'
  <2>1. ASSUME NEW w \in Workers, NEW i \in TicketIds,
               JobStep(w, i) \/ LoseJob(w, i) \/ (w \in Schedulers /\ LoseSession(w, i))
        PROVE  \A j \in TicketIds : PromptPart(j)'
    BY <1>1, <2>1, PromptJobStep
  <2>2. ASSUME \E s \in Schedulers, i \in TicketIds : LoseSession(s, i)
        PROVE  \A j \in TicketIds : PromptPart(j)'
    BY <2>1, <2>2 DEF Workers
  <2>3. CASE \/ \E t \in Texts : CreateDraft(t)
             \/ \E d \in inserting : CommitDraft(d) \/ AbortDraft(d)
    BY <1>1, <2>3, PromptDraft
  <2>4. CASE \/ \E h \in Handlers, t \in Texts : Analyze(h, t)
             \/ \E s \in Schedulers : Claim(s)
    BY <1>1, <2>4, PromptAnalyze, PromptClaim
  <2>5. CASE \/ \E p \in Processes : Crash(p)
             \/ Tick
             \/ \E i \in DOMAIN tickets : Revive(i)
    BY <1>1, <2>5, PromptCrash, PromptTime, PromptRevive
  <2> QED
    BY <1>3, <2>1, <2>2, <2>3, <2>4, <2>5 DEF Next
<1>5. PromptInv' <=> Inv' /\ \A j \in TicketIds : PromptPart(j)'
  BY DEF PromptInv, PromptPart, SingleOwner
<1> QED
  BY <1>1, <1>4, <1>5

\* One owner per ticket, for any number of workers and processes, crashes,
\* lost updates and reclaims, as long as no job outlives its timeout.
THEOREM OneOwner == ASSUME Prompt PROVE Spec => []SingleOwner
<1>1. Init => PromptInv
  BY InitPrompt
<1>2. PromptInv /\ [Next]_vars => PromptInv'
  BY PromptNext
<1>3. PromptInv => SingleOwner
  BY PromptParts
<1> QED
  BY <1>1, <1>2, <1>3, PTL DEF Spec

\* Under the same condition the LLM is asked about a ticket MaxRetries times
\* at most, plus once per attempt that was lost.
THEOREM LlmCallsBounded == ASSUME Prompt PROVE Spec => []LlmBudget
<1>1. Init => PromptInv
  BY InitPrompt
<1>2. PromptInv /\ [Next]_vars => PromptInv'
  BY PromptNext
<1>3. PromptInv => LlmBudget
  BY PromptParts
<1> QED
  BY <1>1, <1>2, <1>3, PTL DEF Spec
-----------------------------------------------------------------------------
\* While the prompt invariant holds, nobody but the operator writes the row of a
\* settled ticket: a claim passes over it, and a store is of a row that says
\* "processing".
LEMMA SettledStays ==
  ASSUME PromptInv, [Next]_vars, NEW i \in DOMAIN tickets,
         \/ tickets[i].status = "ready"
         \/ tickets[i].status = "dead_letter" /\ ~Revivals
  PROVE  tickets'[i] = tickets[i]
<1>1. /\ TypeOK /\ IsTable(tickets) /\ i \in TicketIds
      /\ \A w \in Workers : at[w][i] = "idle"
  BY TypedTable DEF PromptInv, Inv, TypeOK, Owned
<1>2. CASE tickets' = tickets
  BY <1>2
<1>3. CASE Tick \/ \E j \in DOMAIN tickets : Revive(j)
  BY <1>1, <1>3 DEF Tick, Revive, TypeOK
<1>4. ASSUME NEW j \in TicketIds \ DOMAIN tickets, NEW r, tickets' = Insert(tickets, j, r)
      PROVE  tickets'[i] = tickets[i]
  BY <1>4 DEF Insert
<1>5. CASE \/ \E d \in inserting : CommitDraft(d)
           \/ \E h \in Handlers, t \in Texts : Analyze(h, t)
  BY <1>1, <1>4, <1>5 DEF CommitDraft, Analyze, TypeOK, Drafts
<1>6. ASSUME NEW s \in Schedulers, Claim(s) PROVE tickets'[i] = tickets[i]
  <2>1. PICK L \in SUBSET MaybeLocked :
          \E S \in ClaimBatches(tickets, LockedByOrphans \cup L, BatchSize) :
            tickets' = ClaimRows(tickets, S)
    BY <1>6 DEF Claim
  <2>2. PICK S \in ClaimBatches(tickets, LockedByOrphans \cup L, BatchSize) :
          tickets' = ClaimRows(tickets, S)
    BY <2>1
  <2>3. S \in SUBSET DOMAIN tickets /\ i \notin S
    BY ClaimBatchFacts
  <2> QED
    BY <1>1, <2>2, <2>3, ClaimRowsFacts DEF UpdatesOnly
<1>7. ASSUME NEW w \in Workers, NEW j \in TicketIds, StoreReady(w, j) \/ StoreFailed(w, j)
      PROVE  tickets'[i] = tickets[i]
  <2>1. j # i /\ j \in DOMAIN tickets
    BY <1>1, <1>7 DEF StoreReady, StoreFailed, TypeOK, Live
  <2>2. CASE StoreReady(w, j)
    <3>1. pending[w][j] \in Results
      BY <1>1, <2>2 DEF PromptInv, Inv, StageFits, StoreReady
    <3> QED
      BY <1>1, <2>1, <2>2, <3>1, MarkReadyFacts DEF StoreReady, UpdatesOnly
  <2>3. CASE StoreFailed(w, j)
    BY <1>1, <2>1, <2>3, MarkFailedFacts DEF StoreFailed, UpdatesOnly
  <2> QED
    BY <1>7, <2>2, <2>3
<1> QED
  BY <1>2, <1>3, <1>5, <1>6, <1>7
     DEF Next, vars, CreateDraft, AbortDraft, JobStep, ReuseAnswer,
     MatchKeyword, AskLlm, LlmAnswers, LlmFails, LoseJob, LoseSession, CollectOrphan,
     Crash

\* A ticket the LLM has answered never says that it has not, for any number of
\* workers and processes, as long as no job outlives its timeout.
THEOREM AiUsedIsKept == ASSUME Prompt PROVE Spec => AiUsedKept
<1>1. Init => PromptInv
  BY InitPrompt
<1>2. PromptInv /\ [Next]_vars => PromptInv'
  BY PromptNext
<1> DEFINE FlagStays == \A i \in DOMAIN tickets :
                          /\ tickets[i].status = "ready"
                          /\ tickets[i].ai_used
                          /\ tickets'[i].answer = tickets[i].answer
                          => tickets'[i].ai_used
<1>3. PromptInv /\ [Next]_vars => [FlagStays]_vars
  BY SettledStays
<1> QED
  BY <1>1, <1>2, <1>3, PTL DEF Spec, AiUsedKept

\* README.md:56 is right about a deployment whose jobs keep within the timeout:
\* without the operator a dead letter stays one.  Run dead_letter shows that the
\* timeout is what it takes.
THEOREM DeadLetterStays == ASSUME Prompt, ~Revivals PROVE Spec => DeadLetterTerminal
<1>1. Init => PromptInv
  BY InitPrompt
<1>2. PromptInv /\ [Next]_vars => PromptInv'
  BY PromptNext
<1> DEFINE StaysDead == \A i \in DOMAIN tickets :
                          tickets[i].status = "dead_letter"
                            => tickets'[i].status = "dead_letter"
<1>3. PromptInv /\ [Next]_vars => [StaysDead]_vars
  BY SettledStays
<1> QED
  BY <1>1, <1>2, <1>3, PTL DEF Spec, DeadLetterTerminal

\* README.md:55-59 is right, within the timeout, as long as every attempt gets to
\* store its outcome.  Run uncounted shows that one lost attempt is too many.
THEOREM CountedUnlessLost == ASSUME Prompt, MaxLost = 0 PROVE Spec => []EveryFailureCounts
<1>1. Init => PromptInv
  BY InitPrompt
<1>2. PromptInv /\ [Next]_vars => PromptInv'
  BY PromptNext
<1>3. PromptInv => EveryFailureCounts
  <2>1. PromptInv => \A i \in TicketIds : lost[i] = 0
    BY DEF PromptInv, Inv, TypeOK
  <2>2. PromptInv => \A i \in TicketIds : llmCalls[i] <= MaxRetries + lost[i]
    BY PromptParts DEF LlmBudget
  <2> QED
    BY <2>1, <2>2, RepositoryAssumption DEF EveryFailureCounts
<1> QED
  BY <1>1, <1>2, <1>3, PTL DEF Spec

-----------------------------------------------------------------------------
(***************************************************************************)
(* The service keeps its contract: under the refinement mapping of         *)
(* TicketPipeline, every step is a step of TicketContract or a stutter.  A *)
(* store is an answer or a failure of the contract only because its row    *)
(* still says "processing", which is what PromptInv keeps.                 *)
(***************************************************************************)


\* A ticket of which the contract sees no change.
SameView(i) ==
  PhaseOf(i)' = PhaseOf(i) /\ TriesOf(i)' = TriesOf(i) /\ ReplyOf(i)' = ReplyOf(i)

Stutters == \A i \in TicketIds : SameView(i)

\* The mapping, one status at a time.
View(i) ==
  /\ i \notin DOMAIN tickets =>
       PhaseOf(i) = "absent" /\ TriesOf(i) = 0 /\ ReplyOf(i) = NoAnswer
  /\ i \in DOMAIN tickets =>
       /\ TriesOf(i) = tickets[i].retries
       /\ tickets[i].status \in {"draft", "failed"} =>
            PhaseOf(i) = "waiting" /\ ReplyOf(i) = NoAnswer
       /\ tickets[i].status = "processing" =>
            PhaseOf(i) = "working" /\ ReplyOf(i) = NoAnswer
       /\ tickets[i].status = "ready" =>
            PhaseOf(i) = "ready" /\ ReplyOf(i) = tickets[i].answer
       /\ tickets[i].status = "dead_letter" =>
            PhaseOf(i) = "dead" /\ ReplyOf(i) = NoAnswer

LEMMA ViewOf == ASSUME NEW i \in TicketIds PROVE View(i) /\ View(i)'
<1>1. View(i)
  BY DEF View, PhaseOf, TriesOf, ReplyOf
<1>2. View(i)'
  BY DEF View, PhaseOf, TriesOf, ReplyOf
<1> QED
  BY <1>1, <1>2

LEMMA SameRow ==
  ASSUME NEW i \in TicketIds, TypeOK, i \in DOMAIN tickets' <=> i \in DOMAIN tickets,
         i \in DOMAIN tickets => /\ tickets'[i].status = tickets[i].status
                                 /\ tickets'[i].retries = tickets[i].retries
                                 /\ tickets'[i].answer = tickets[i].answer
  PROVE  SameView(i)
<1>1. i \in DOMAIN tickets => tickets[i].status \in Statuses
  BY DEF TypeOK, Rows
<1> QED
  BY <1>1, ViewOf DEF View, SameView, Statuses

LEMMA StutterStep == Stutters => UNCHANGED Contract!contractVars
  BY DEF Stutters, SameView, Contract!contractVars

LEMMA InitContract == Init => Contract!ContractInit
  BY ViewOf DEF View, Init, EmptyTable, Contract!ContractInit

LEMMA SubmitStep ==
  ASSUME NEW i \in TicketIds, PhaseOf(i) = "absent",
         PhaseOf(i)' \in {"waiting", "working"},
         TriesOf(i)' = TriesOf(i), ReplyOf(i)' = ReplyOf(i),
         \A j \in TicketIds \ {i} : SameView(j)
  PROVE  Contract!Submit(i)
  BY DEF Contract!Submit, SameView

LEMMA TakeStep ==
  ASSUME NEW S \in SUBSET TicketIds, \A i \in S : PhaseOf(i) = "waiting",
         \A i \in TicketIds : /\ PhaseOf(i)' = IF i \in S THEN "working" ELSE PhaseOf(i)
                              /\ TriesOf(i)' = TriesOf(i)
                              /\ ReplyOf(i)' = ReplyOf(i)
  PROVE  Contract!Take(S)
  BY DEF Contract!Take

LEMMA AnswerStep ==
  ASSUME NEW i \in TicketIds, PhaseOf(i) = "working", PhaseOf(i)' = "ready",
         ReplyOf(i)' \in Answers, TriesOf(i)' = TriesOf(i),
         \A j \in TicketIds \ {i} : SameView(j)
  PROVE  Contract!Answer(i)
  BY DEF Contract!Answer, SameView

LEMMA FailStep ==
  ASSUME NEW i \in TicketIds, PhaseOf(i) = "working", TriesOf(i) < MaxRetries,
         TriesOf(i)' = TriesOf(i) + 1,
         PhaseOf(i)' = IF TriesOf(i) + 1 = MaxRetries THEN "dead" ELSE "waiting",
         ReplyOf(i)' = ReplyOf(i),
         \A j \in TicketIds \ {i} : SameView(j)
  PROVE  Contract!Fail(i)
  BY DEF Contract!Fail, SameView

LEMMA ReinstateStep ==
  ASSUME NEW i \in TicketIds, PhaseOf(i) = "dead", PhaseOf(i)' = "waiting",
         TriesOf(i)' = 0, ReplyOf(i)' = ReplyOf(i),
         \A j \in TicketIds \ {i} : SameView(j)
  PROVE  Contract!Reinstate(i)
  BY DEF Contract!Reinstate, SameView

LEMMA SubmitSteps ==
  ASSUME Inv, \/ \E d \in inserting : CommitDraft(d)
              \/ \E h \in Handlers, t \in Texts : Analyze(h, t)
  PROVE  \E i \in TicketIds : Contract!Submit(i)
<1>1. TypeOK
  BY DEF Inv
<1>2. PICK i \in TicketIds \ DOMAIN tickets, t \in Texts, st \in {"draft", "processing"} :
        tickets' = Insert(tickets, i, NewRow(t, st))
  BY <1>1 DEF TypeOK, Drafts, CommitDraft, Analyze
<1>3. /\ DOMAIN tickets' = DOMAIN tickets \cup {i}
      /\ tickets'[i] = NewRow(t, st)
      /\ \A j \in DOMAIN tickets : tickets'[j] = tickets[j]
  BY <1>2 DEF Insert
<1>4. tickets'[i].status = st /\ tickets'[i].retries = 0
  BY <1>3 DEF NewRow
<1>5. \A j \in TicketIds \ {i} : SameView(j)
  BY <1>1, <1>3, SameRow
<1> QED
  BY <1>2, <1>3, <1>4, <1>5, ViewOf, SubmitStep DEF View

LEMMA TakeSteps ==
  ASSUME Inv, NEW s \in Schedulers, Claim(s)
  PROVE  \E S \in SUBSET TicketIds : Contract!Take(S)
<1>1. TypeOK /\ IsTable(tickets)
  BY TypedTable DEF Inv
<1>2. PICK L \in SUBSET MaybeLocked :
        \E S \in ClaimBatches(tickets, LockedByOrphans \cup L, BatchSize) :
          tickets' = ClaimRows(tickets, S)
  BY DEF Claim
<1>3. PICK S \in ClaimBatches(tickets, LockedByOrphans \cup L, BatchSize) :
        tickets' = ClaimRows(tickets, S)
  BY <1>2
<1>4. /\ S \in SUBSET DOMAIN tickets
      /\ \A i \in S : tickets[i].status \in {"draft", "failed", "processing"}
  BY ClaimBatchFacts
<1>5. /\ UpdatesOnly(tickets, tickets', S)
      /\ \A i \in S : /\ tickets'[i].status = "processing"
                      /\ tickets'[i].retries = tickets[i].retries
  BY <1>1, <1>3, <1>4, ClaimRowsFacts
<1> DEFINE New == {i \in S : tickets[i].status # "processing"}
<1>6. \A i \in S : i \in TicketIds /\ i \in DOMAIN tickets /\ i \in DOMAIN tickets'
  BY <1>1, <1>4, <1>5 DEF IsTable, UpdatesOnly
<1>7. ASSUME NEW i \in TicketIds
      PROVE  /\ PhaseOf(i)' = IF i \in New THEN "working" ELSE PhaseOf(i)
             /\ TriesOf(i)' = TriesOf(i)
             /\ ReplyOf(i)' = ReplyOf(i)
  <2>1. CASE i \in S
    BY <1>4, <1>5, <1>6, <2>1, ViewOf DEF View
  <2>2. CASE i \notin S
    BY <1>1, <1>5, <2>2, SameRow DEF UpdatesOnly, SameView
  <2> QED
    BY <2>1, <2>2
<1>8. New \in SUBSET TicketIds /\ \A i \in New : PhaseOf(i) = "waiting"
  BY <1>4, <1>6, ViewOf DEF View
<1> HIDE DEF New
<1> QED
  BY <1>7, <1>8, TakeStep

\* The row of a job that stores is still "processing", with attempts left.
LEMMA StoreSteps ==
  ASSUME PromptInv, NEW w \in Workers, NEW i \in TicketIds,
         StoreReady(w, i) \/ StoreFailed(w, i)
  PROVE  Contract!Answer(i) \/ Contract!Fail(i)
<1>1. Inv /\ TypeOK /\ IsTable(tickets) /\ Owned(w, i)
  BY TypedTable DEF Inv, PromptInv
<1>2. /\ i \in DOMAIN tickets
      /\ tickets[i].status = "processing"
      /\ tickets[i].retries \in Nat /\ tickets[i].retries < MaxRetries
      /\ MaxRetries \in Nat
  BY <1>1, RepositoryAssumption
     DEF Owned, StoreReady, StoreFailed, TypeOK, Live, Rows, Inv, RowsFit, LedgerRow
<1>3. CASE StoreReady(w, i)
  <2>1. pending[w][i] \in Results /\ pending[w][i].answer \in Answers
    BY <1>1, <1>3 DEF Inv, StageFits, StoreReady, Results
  <2>2. /\ UpdatesOnly(tickets, tickets', {i})
        /\ tickets'[i].status = "ready"
        /\ tickets'[i].retries = tickets[i].retries
        /\ tickets'[i].answer \in Answers
    BY <1>1, <1>2, <1>3, <2>1, MarkReadyFacts DEF StoreReady
  <2>3. \A j \in TicketIds \ {i} : SameView(j)
    BY <1>1, <2>2, SameRow DEF UpdatesOnly
  <2>4. /\ PhaseOf(i) = "working" /\ PhaseOf(i)' = "ready"
        /\ TriesOf(i)' = TriesOf(i) /\ ReplyOf(i)' \in Answers
    BY <1>2, <2>2, ViewOf DEF View, UpdatesOnly
  <2> QED
    BY <2>3, <2>4, AnswerStep
<1>4. CASE StoreFailed(w, i)
  <2>1. /\ UpdatesOnly(tickets, tickets', {i})
        /\ tickets'[i].retries = tickets[i].retries + 1
        /\ tickets'[i].status = IF tickets[i].retries + 1 >= MaxRetries
                                THEN "dead_letter" ELSE "failed"
    BY <1>1, <1>2, <1>4, MarkFailedFacts DEF StoreFailed
  <2>2. \A j \in TicketIds \ {i} : SameView(j)
    BY <1>1, <2>1, SameRow DEF UpdatesOnly
  <2>3. tickets[i].retries + 1 >= MaxRetries <=> tickets[i].retries + 1 = MaxRetries
    BY <1>2
  <2>4. /\ PhaseOf(i) = "working" /\ TriesOf(i) = tickets[i].retries
        /\ TriesOf(i)' = TriesOf(i) + 1
        /\ ReplyOf(i)' = ReplyOf(i)
        /\ PhaseOf(i)' = IF TriesOf(i) + 1 = MaxRetries THEN "dead" ELSE "waiting"
    BY <1>2, <2>1, <2>3, ViewOf DEF View, UpdatesOnly
  <2> QED
    BY <1>2, <2>2, <2>4, FailStep
<1> QED
  BY <1>3, <1>4

LEMMA ReviveStep ==
  ASSUME Inv, NEW i \in DOMAIN tickets, Revive(i)
  PROVE  i \in TicketIds /\ Contract!Reinstate(i)
<1>1. TypeOK /\ i \in TicketIds /\ tickets[i] \in Rows
  BY DEF Inv, TypeOK
<1>2. /\ DOMAIN tickets' = DOMAIN tickets
      /\ tickets'[i] = [tickets[i] EXCEPT !.status = "failed", !.retries = 0]
      /\ \A j \in DOMAIN tickets \ {i} : tickets'[j] = tickets[j]
      /\ tickets[i].status = "dead_letter"
  BY DEF Revive
<1>3. tickets'[i].status = "failed" /\ tickets'[i].retries = 0
  BY <1>1, <1>2 DEF Rows
<1>4. \A j \in TicketIds \ {i} : SameView(j)
  BY <1>1, <1>2, SameRow
<1> QED
  BY <1>1, <1>2, <1>3, <1>4, ViewOf, ReinstateStep DEF View

LEMMA StutterSteps ==
  ASSUME Inv,
         \/ tickets' = tickets
         \/ Tick
  PROVE  Stutters
<1>1. TypeOK
  BY DEF Inv
<1>2. \A i \in DOMAIN tickets : /\ tickets'[i].status = tickets[i].status
                                /\ tickets'[i].retries = tickets[i].retries
                                /\ tickets'[i].answer = tickets[i].answer
  BY <1>1 DEF Tick, TypeOK, Rows
<1>3. DOMAIN tickets' = DOMAIN tickets
  BY DEF Tick
<1> QED
  BY <1>1, <1>2, <1>3, SameRow DEF Stutters

LEMMA NextContract ==
  ASSUME PromptInv, [Next]_vars
  PROVE  [Contract!ContractNext]_(Contract!contractVars)
<1>1. Inv
  BY DEF PromptInv
<1>2. CASE tickets' = tickets \/ Tick
  BY <1>1, <1>2, StutterSteps, StutterStep
<1>3. CASE \/ \E d \in inserting : CommitDraft(d)
           \/ \E h \in Handlers, t \in Texts : Analyze(h, t)
  BY <1>1, <1>3, SubmitSteps DEF Contract!ContractNext
<1>4. CASE \E s \in Schedulers : Claim(s)
  BY <1>1, <1>4, TakeSteps DEF Contract!ContractNext
<1>5. CASE \E w \in Workers, i \in TicketIds : StoreReady(w, i) \/ StoreFailed(w, i)
  BY <1>5, StoreSteps DEF Contract!ContractNext
<1>6. CASE \E i \in DOMAIN tickets : Revive(i)
  BY <1>1, <1>6, ReviveStep DEF Contract!ContractNext
<1>7. \/ tickets' = tickets \/ Tick
      \/ \E d \in inserting : CommitDraft(d)
      \/ \E h \in Handlers, t \in Texts : Analyze(h, t)
      \/ \E s \in Schedulers : Claim(s)
      \/ \E w \in Workers, i \in TicketIds : StoreReady(w, i) \/ StoreFailed(w, i)
      \/ \E i \in DOMAIN tickets : Revive(i)
  BY DEF Next, vars, CreateDraft, AbortDraft, JobStep, ReuseAnswer,
     MatchKeyword, AskLlm, LlmAnswers, LlmFails, LoseJob, LoseSession, CollectOrphan,
     Crash
<1> QED
  BY <1>2, <1>3, <1>4, <1>5, <1>6, <1>7

\* The service implements its contract, for every number of workers, tickets
\* and retries, as long as no job outlives its timeout: one attempt at a time,
\* answers that never change, and dead letters that stay until an operator
\* puts them back.
THEOREM ContractKept == ASSUME Prompt PROVE Spec => KeepsContract
<1>1. Init => PromptInv /\ Contract!ContractInit
  BY InitPrompt, InitContract
<1>2. PromptInv /\ [Next]_vars => PromptInv'
  BY PromptNext
<1>3. PromptInv /\ [Next]_vars => [Contract!ContractNext]_(Contract!contractVars)
  BY NextContract
<1> QED
  BY <1>1, <1>2, <1>3, PTL DEF Spec, KeepsContract, Contract!ContractSpec
=============================================================================
