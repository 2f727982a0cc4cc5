------------------------ MODULE TicketCountingProofs ------------------------
(***************************************************************************)
(* What can be counted under any timing: the LLM calls made about a        *)
(* ticket, and the tickets of one text that the LLM has answered.          *)
(***************************************************************************)
EXTENDS TicketPipelineProofs, FiniteSetTheorems, FunctionTheorems

LEMMA OneMore ==
  ASSUME NEW A, NEW B, IsFiniteSet(B), NEW x, A \subseteq B \cup {x}
  PROVE  IsFiniteSet(A) /\ Cardinality(A) <= Cardinality(B) + 1
<1>1. /\ IsFiniteSet(B \cup {x}) /\ Cardinality(B) \in Nat
      /\ Cardinality(B \cup {x}) <= Cardinality(B) + 1
  BY FS_AddElement, FS_CardinalityType
<1>2. IsFiniteSet(A) /\ Cardinality(A) <= Cardinality(B \cup {x})
  BY <1>1, FS_Subset
<1>3. Cardinality(A) \in Nat /\ Cardinality(B \cup {x}) \in Nat
  BY <1>1, <1>2, FS_CardinalityType
<1> QED
  BY <1>1, <1>2, <1>3

LEMMA NoMore ==
  ASSUME NEW A, NEW B, IsFiniteSet(B), A \subseteq B
  PROVE  /\ IsFiniteSet(A) /\ Cardinality(A) \in Nat /\ Cardinality(B) \in Nat
         /\ Cardinality(A) <= Cardinality(B)
  BY FS_Subset, FS_CardinalityType

-----------------------------------------------------------------------------
(* The jobs of one ticket: a column says at which stage each worker is     *)
(* with it.                                                                *)

Columns == [Workers -> Stages]

\* Those that may have asked the LLM, and those that still may.
Past(c) == {w \in Workers : c[w] \in {"llm", "store", "fail"}}
Looking(c) == {w \in Workers : c[w] = "lookup"}

\* The request that brought the ticket works on it alone among the requests.
OneHandler(c) == \A g, h \in Handlers : c[g] # "idle" /\ c[h] # "idle" => g = h

\* 1 as soon as that request, if there was one, has let go of it.
Spare(c) == IF \E h \in Handlers : c[h] # "idle" THEN 0 ELSE 1

SchedulerCount == Cardinality(Schedulers)

(***************************************************************************)
(* As long as the ticket is not settled, every earlier attempt that asked  *)
(* the LLM and was not lost is one of those that ended since a failure     *)
(* counted: at most one per scheduler and failure.  When it is settled,    *)
(* the jobs it still has may look, and ask, once more each.                *)
(***************************************************************************)
Balanced(c, settled, retries, calls, losses) ==
  IF settled
  THEN /\ calls + Cardinality(Looking(c)) <= SchedulerCount * (retries + 1) + 1 + losses
       /\ calls + Cardinality(Looking(c)) <= SchedulerCount * MaxRetries + 1 + losses
  ELSE calls <= SchedulerCount * retries + Spare(c) + Cardinality(Past(c)) + losses

LEMMA Busy ==
  ASSUME IsFiniteSet(Schedulers), NEW c \in Columns, OneHandler(c)
  PROVE  /\ IsFiniteSet(Past(c)) /\ IsFiniteSet(Looking(c))
         /\ Cardinality(Past(c)) \in Nat /\ Cardinality(Looking(c)) \in Nat
         /\ SchedulerCount \in Nat
         /\ Spare(c) \in {0, 1}
         /\ Cardinality(Past(c)) + Cardinality(Looking(c)) + Spare(c) <= SchedulerCount + 1
         /\ Cardinality(Past(c)) + Cardinality(Looking(c)) + Spare(c) >= 1
<1> DEFINE All == Past(c) \cup Looking(c)
<1>1. SchedulerCount \in Nat /\ Spare(c) \in {0, 1}
  BY FS_CardinalityType DEF SchedulerCount, Spare
<1>2. /\ IsFiniteSet(All)
      /\ Cardinality(All) <= SchedulerCount + (1 - Spare(c))
  <2>1. CASE \A h \in Handlers : c[h] = "idle"
    <3>1. Spare(c) = 1
      BY <2>1 DEF Spare
    <3>2. All \subseteq Schedulers
      BY <2>1 DEF Past, Looking, Workers
    <3> QED
      BY <1>1, <3>1, <3>2, NoMore DEF SchedulerCount
  <2>2. ASSUME NEW h \in Handlers, c[h] # "idle"
        PROVE  /\ IsFiniteSet(All)
               /\ Cardinality(All) <= SchedulerCount + (1 - Spare(c))
    <3>1. Spare(c) = 0
      BY <2>2 DEF Spare
    <3>2. All \subseteq Schedulers \cup {h}
      BY <2>2 DEF Past, Looking, Workers, OneHandler
    <3> QED
      BY <1>1, <3>1, <3>2, OneMore DEF SchedulerCount
  <2> QED
    BY <2>1, <2>2
<1>3. /\ IsFiniteSet(Past(c)) /\ IsFiniteSet(Looking(c))
      /\ Cardinality(Past(c)) \in Nat /\ Cardinality(Looking(c)) \in Nat
      /\ Cardinality(All) \in Nat
  BY <1>2, NoMore
<1>4. Cardinality(All) = Cardinality(Past(c)) + Cardinality(Looking(c))
  <2>1. Past(c) \cap Looking(c) = {}
    BY DEF Past, Looking
  <2> QED
    BY <1>3, <2>1, FS_Union, FS_EmptySet
<1>5. Spare(c) = 0 => Cardinality(All) # 0
  <2>1. Spare(c) = 0 => All # {}
    BY DEF Spare, Past, Looking, Columns, Stages, Workers
  <2> QED
    BY <1>2, <2>1, FS_EmptySet
<1> QED
  BY <1>1, <1>2, <1>3, <1>4, <1>5

LEMMA Times ==
  ASSUME NEW n \in Nat, NEW k \in Nat, NEW m \in Nat
  PROVE  /\ n * k \in Nat
         /\ n * (k + 1) = n * k + n
         /\ n * (k + 2) = n * k + n + n
         /\ k + 1 <= m => n * k + n <= n * m
<1>1. n * k \in Nat /\ n * (k + 1) = n * k + n /\ n * (k + 2) = n * k + n + n
  OBVIOUS
<1>2. ASSUME k + 1 <= m PROVE n * k + n <= n * m
  <2>1. m = (k + 1) + (m - (k + 1)) /\ m - (k + 1) \in Nat
    BY <1>2
  <2>2. PICK e \in Nat : m = (k + 1) + e
    BY <2>1
  <2>3. n * m = n * k + n + n * e
    BY <2>2
  <2>4. n * e \in Nat
    OBVIOUS
  <2> QED
    BY <1>1, <2>3, <2>4
<1> QED
  BY <1>1, <1>2

\* The account of a ticket that nobody has counted on yet.
LEMMA OpeningBalance ==
  ASSUME IsFiniteSet(Schedulers), NEW c \in Columns, OneHandler(c),
         NEW losses \in Nat
  PROVE  Balanced(c, FALSE, 0, 0, losses)
<1>1. SchedulerCount * 0 = 0
  BY Busy
<1> QED
  BY <1>1, Busy DEF Balanced

\* A scheduler begins a job for a ticket that is not settled.
LEMMA BeginBalance ==
  ASSUME IsFiniteSet(Schedulers), NEW c \in Columns, NEW d \in Columns, OneHandler(c),
         NEW s \in Schedulers, c[s] = "idle", \A w \in Workers \ {s} : d[w] = c[w],
         NEW k \in Nat, NEW calls \in Nat, NEW losses \in Nat,
         Balanced(c, FALSE, k, calls, losses)
  PROVE  OneHandler(d) /\ Balanced(d, FALSE, k, calls, losses)
<1>1. \A h \in Handlers : d[h] = c[h]
  BY PipelineAssumption DEF Workers
<1>2. OneHandler(d) /\ Spare(d) = Spare(c)
  BY <1>1 DEF OneHandler, Spare
<1>3. Past(c) \subseteq Past(d)
  BY DEF Past
<1>4. Cardinality(Past(c)) <= Cardinality(Past(d))
  BY <1>2, <1>3, Busy, NoMore
<1>5. SchedulerCount * k \in Nat
  BY Busy, Times
<1> QED
  BY <1>2, <1>4, <1>5, Busy DEF Balanced

\* A job goes on, and asks the LLM only when it has not done so before.
LEMMA MoveBalance ==
  ASSUME IsFiniteSet(Schedulers), NEW c \in Columns, NEW d \in Columns, OneHandler(c),
         NEW w \in Workers, c[w] # "idle", d[w] \in {"llm", "store", "fail"},
         \A v \in Workers \ {w} : d[v] = c[v],
         NEW settled \in BOOLEAN, NEW k \in Nat, NEW calls \in Nat, NEW more \in Nat,
         NEW losses \in Nat,
         more = calls \/ (more = calls + 1 /\ c[w] = "lookup"),
         Balanced(c, settled, k, calls, losses)
  PROVE  OneHandler(d) /\ Balanced(d, settled, k, more, losses)
<1>1. \A h \in Handlers : d[h] # "idle" <=> c[h] # "idle"
  BY DEF Workers
<1>2. OneHandler(d) /\ Spare(d) = Spare(c)
  BY <1>1 DEF OneHandler, Spare
<1>3. CASE c[w] = "lookup"
  <2>1. Past(d) = Past(c) \cup {w} /\ w \notin Past(c)
    BY <1>3 DEF Past
  <2>2. Looking(d) = Looking(c) \ {w} /\ w \in Looking(c)
    BY <1>3 DEF Looking
  <2>3. Cardinality(Past(d)) = Cardinality(Past(c)) + 1
    <3>1. IsFiniteSet(Past(c)) /\ Cardinality(Past(c)) \in Nat
      BY Busy
    <3>2. Cardinality(Past(c) \cup {w}) = Cardinality(Past(c)) + 1
      BY <2>1, <3>1, FS_AddElement
    <3> QED
      BY <2>1, <3>2
  <2>4. Cardinality(Looking(d)) = Cardinality(Looking(c)) - 1
    BY <2>2, Busy, FS_RemoveElement
  <2>5. SchedulerCount * k \in Nat /\ SchedulerCount * (k + 1) \in Nat
    BY Busy, Times
  <2>6. SchedulerCount * MaxRetries \in Nat
    BY Busy, Times, RepositoryAssumption
  <2> QED
    BY <1>2, <2>3, <2>4, <2>5, <2>6, Busy DEF Balanced
<1>4. CASE c[w] # "lookup"
  <2>1. Past(d) = Past(c) /\ Looking(d) = Looking(c)
    BY <1>4 DEF Past, Looking, Columns, Stages
  <2> QED
    BY <1>2, <1>4, <2>1 DEF Balanced
<1> QED
  BY <1>3, <1>4

\* The job of w ends.
EndOf(w, c, d) == c[w] # "idle" /\ d[w] = "idle" /\ \A v \in Workers \ {w} : d[v] = c[v]

LEMMA EndFacts ==
  ASSUME IsFiniteSet(Schedulers), NEW c \in Columns, NEW d \in Columns, OneHandler(c),
         NEW w \in Past(c), EndOf(w, c, d)
  PROVE  /\ OneHandler(d)
         /\ Looking(d) = Looking(c)
         /\ Cardinality(Past(d)) = Cardinality(Past(c)) - 1
         /\ Spare(c) + 1 <= Spare(d) + SchedulerCount
<1>1. OneHandler(d)
  BY DEF OneHandler, EndOf, Past, Workers
<1>2. Past(d) = Past(c) \ {w} /\ Looking(d) = Looking(c)
  BY DEF Past, Looking, EndOf
<1>3. Cardinality(Past(d)) = Cardinality(Past(c)) - 1
  BY <1>2, Busy, FS_RemoveElement
<1>4. CASE w \in Handlers
  <2>1. Spare(c) = 0 /\ Spare(d) = 1
    BY <1>4 DEF Spare, EndOf, OneHandler, Workers
  <2> QED
    BY <1>1, <1>2, <1>3, <2>1, Busy
<1>5. CASE w \in Schedulers
  <2>1. \A h \in Handlers : d[h] = c[h]
    BY <1>5, PipelineAssumption DEF EndOf, Workers
  <2>2. Spare(c) = Spare(d)
    BY <2>1 DEF Spare
  <2>3. SchedulerCount # 0
    BY <1>5, FS_EmptySet DEF SchedulerCount
  <2> QED
    BY <1>1, <1>2, <1>3, <2>2, <2>3, Busy
<1> QED
  BY <1>4, <1>5 DEF Past, Workers

\* ... and the ticket is settled by it, as ready or, with one failure more, as
\* a dead letter.
LEMMA SettleBalance ==
  ASSUME IsFiniteSet(Schedulers), NEW c \in Columns, NEW d \in Columns, OneHandler(c),
         NEW w \in Past(c), EndOf(w, c, d),
         NEW settled \in BOOLEAN, NEW k \in Nat, NEW calls \in Nat, NEW losses \in Nat,
         NEW m \in Nat, m = k \/ m = k + 1,
         ~settled => k < MaxRetries,
         Balanced(c, settled, k, calls, losses)
  PROVE  OneHandler(d) /\ Balanced(d, TRUE, m, calls, losses)
<1> DEFINE n == SchedulerCount
           asked == calls + Cardinality(Looking(d))
<1>1. OneHandler(d) /\ Looking(d) = Looking(c)
  BY EndFacts
<1>2. /\ n * k \in Nat /\ n * (k + 1) = n * k + n /\ n * (k + 2) = n * k + n + n
      /\ n * MaxRetries \in Nat /\ n \in Nat /\ MaxRetries \in Nat
      /\ k + 1 <= MaxRetries => n * k + n <= n * MaxRetries
  BY Busy, Times, RepositoryAssumption
<1>3. asked <= n * k + n + 1 + losses /\ asked <= n * MaxRetries + 1 + losses
  <2>1. CASE settled
    BY <1>1, <1>2, <2>1 DEF Balanced
  <2>2. CASE ~settled
    <3>1. calls <= n * k + Spare(c) + Cardinality(Past(c)) + losses
      BY <2>2 DEF Balanced
    <3>2. asked <= n * k + n + 1 + losses
      BY <1>1, <1>2, <3>1, Busy
    <3> QED
      BY <1>1, <1>2, <2>2, <3>2, Busy
  <2> QED
    BY <2>1, <2>2
<1>4. n * (m + 1) >= n * k + n /\ n * (m + 1) \in Nat
  <2>1. CASE m = k
    BY <1>2, <2>1
  <2>2. CASE m = k + 1
    BY <1>2, <2>2
  <2> QED
    BY <2>1, <2>2
<1>5. asked <= n * (m + 1) + 1 + losses
  BY <1>1, <1>2, <1>3, <1>4, Busy
<1> QED
  BY <1>1, <1>3, <1>5 DEF Balanced

\* ... or fails, and the ticket may be tried again.
LEMMA FailBalance ==
  ASSUME IsFiniteSet(Schedulers), NEW c \in Columns, NEW d \in Columns, OneHandler(c),
         NEW w \in Past(c), EndOf(w, c, d),
         NEW settled \in BOOLEAN, NEW k \in Nat, NEW calls \in Nat, NEW losses \in Nat,
         Balanced(c, settled, k, calls, losses)
  PROVE  OneHandler(d) /\ Balanced(d, FALSE, k + 1, calls, losses)
<1> DEFINE n == SchedulerCount
<1>1. /\ OneHandler(d) /\ Looking(d) = Looking(c)
      /\ Cardinality(Past(d)) = Cardinality(Past(c)) - 1
      /\ Spare(c) + 1 <= Spare(d) + n
  BY EndFacts
<1>2. n * k \in Nat /\ n * (k + 1) = n * k + n /\ n \in Nat
  BY Busy, Times
<1>3. /\ Cardinality(Past(d)) \in Nat /\ Cardinality(Looking(d)) \in Nat
      /\ Spare(d) \in {0, 1} /\ Spare(c) \in {0, 1} /\ Cardinality(Past(c)) \in Nat
      /\ Cardinality(Past(d)) + Cardinality(Looking(d)) + Spare(d) >= 1
  BY <1>1, Busy
<1>4. CASE settled
  <2>1. calls + Cardinality(Looking(d)) <= n * (k + 1) + 1 + losses
    BY <1>1, <1>4 DEF Balanced
  <2> QED
    BY <1>1, <1>2, <1>3, <2>1 DEF Balanced
<1>5. CASE ~settled
  <2>1. calls <= n * k + Spare(c) + Cardinality(Past(c)) + losses
    BY <1>5 DEF Balanced
  <2> QED
    BY <1>1, <1>2, <1>3, <2>1 DEF Balanced
<1> QED
  BY <1>4, <1>5

\* A job is lost, or all those of a process are.
LEMMA LossBalance ==
  ASSUME IsFiniteSet(Schedulers), NEW c \in Columns, NEW d \in Columns, OneHandler(c),
         NEW D \in SUBSET Workers, \A s, t \in D \cap Schedulers : s = t,
         \A w \in Workers : d[w] = IF w \in D THEN "idle" ELSE c[w],
         NEW settled \in BOOLEAN, NEW k \in Nat, NEW calls \in Nat, NEW losses \in Nat,
         Balanced(c, settled, k, calls, losses)
  PROVE  OneHandler(d) /\ Balanced(d, settled, k, calls, losses + 1)
<1>1. OneHandler(d)
  BY DEF OneHandler, Workers
<1>2. Cardinality(Looking(d)) <= Cardinality(Looking(c))
  <2>1. Looking(d) \subseteq Looking(c)
    BY DEF Looking
  <2> QED
    BY <2>1, Busy, NoMore
<1>3. \E S : /\ Past(c) \subseteq S \cup (Past(d) \cup (D \cap Handlers))
              /\ \E s : S = {s}
  <2>1. Past(c) \subseteq Past(d) \cup D
    BY DEF Past
  <2>2. CASE D \cap Schedulers = {}
    <3>1. Past(c) \subseteq {0} \cup (Past(d) \cup (D \cap Handlers))
      BY <2>1, <2>2 DEF Workers
    <3> QED
      BY <3>1
  <2>3. ASSUME NEW s \in D \cap Schedulers
        PROVE  Past(c) \subseteq {s} \cup (Past(d) \cup (D \cap Handlers))
    BY <2>1 DEF Workers
  <2> QED
    BY <2>2, <2>3
<1>4. PICK s : Past(c) \subseteq {s} \cup (Past(d) \cup (D \cap Handlers))
  BY <1>3
<1>5. Spare(c) + Cardinality(Past(c)) <= Spare(d) + Cardinality(Past(d)) + 1
  <2>1. CASE \A h \in D \cap Handlers : c[h] = "idle"
    <3>1. \A h \in Handlers : d[h] = c[h]
      BY <2>1 DEF Workers
    <3>2. Spare(d) = Spare(c)
      BY <3>1 DEF Spare
    <3>3. Past(c) \subseteq Past(d) \cup {s}
      BY <1>4, <2>1 DEF Past
    <3>4. Cardinality(Past(c)) <= Cardinality(Past(d)) + 1
      BY <1>1, <3>3, OneMore, Busy
    <3> QED
      BY <1>1, <3>2, <3>4, Busy
  <2>2. ASSUME NEW h \in D \cap Handlers, c[h] # "idle"
        PROVE  Spare(c) + Cardinality(Past(c)) <= Spare(d) + Cardinality(Past(d)) + 1
    <3>1. Spare(c) = 0 /\ Spare(d) = 1
      BY <2>2 DEF Spare, OneHandler, Workers
    <3>2. Past(c) \subseteq (Past(d) \cup {h}) \cup {s}
      BY <1>4, <2>2 DEF Past, OneHandler
    <3>3. /\ IsFiniteSet(Past(d) \cup {h})
          /\ Cardinality(Past(d) \cup {h}) <= Cardinality(Past(d)) + 1
      BY <1>1, OneMore, Busy
    <3>4. /\ Cardinality(Past(c)) <= Cardinality(Past(d) \cup {h}) + 1
          /\ Cardinality(Past(d) \cup {h}) \in Nat
      BY <3>2, <3>3, OneMore, FS_CardinalityType
    <3> QED
      BY <1>1, <3>1, <3>3, <3>4, Busy
  <2> QED
    BY <2>1, <2>2
<1>6. /\ SchedulerCount * k \in Nat /\ SchedulerCount * (k + 1) \in Nat
      /\ SchedulerCount * MaxRetries \in Nat
  BY Busy, Times, RepositoryAssumption
<1> QED
  BY <1>1, <1>2, <1>5, <1>6, Busy DEF Balanced

-----------------------------------------------------------------------------
(* The balance of every ticket, step by step                               *)

Column(i) == [w \in Workers |-> at[w][i]]

Account(i) ==
  /\ OneHandler(Column(i))
  /\ i \notin DOMAIN tickets => llmCalls[i] = 0
  /\ i \in DOMAIN tickets =>
       /\ Settled(i) =>
            Balanced(Column(i), TRUE, tickets[i].retries, llmCalls[i], lost[i])
       /\ ~Settled(i) =>
            Balanced(Column(i), FALSE, tickets[i].retries, llmCalls[i], lost[i])

LEMMA ColumnType == ASSUME TypeOK, NEW i \in TicketIds PROVE Column(i) \in Columns
  BY DEF TypeOK, Column, Columns

LEMMA NumberTypes ==
  ASSUME TypeOK, NEW i \in TicketIds
  PROVE  /\ llmCalls[i] \in Nat /\ lost[i] \in Nat
         /\ i \in DOMAIN tickets => tickets[i].retries \in Nat
  BY PipelineAssumption DEF TypeOK, Rows

\* A step that changes nothing of what is counted for ticket i.
LEMMA SameAccount ==
  ASSUME NEW i \in TicketIds, Account(i),
         i \in DOMAIN tickets' <=> i \in DOMAIN tickets,
         i \in DOMAIN tickets => /\ tickets'[i].status = tickets[i].status
                                 /\ tickets'[i].retries = tickets[i].retries,
         \A w \in Workers : at'[w][i] = at[w][i],
         llmCalls'[i] = llmCalls[i], lost'[i] = lost[i]
  PROVE  Account(i)'
<1>1. Column(i)' = Column(i)
  BY DEF Column
<1>2. Settled(i)' <=> Settled(i)
  BY DEF Settled
<1> QED
  BY <1>1, <1>2 DEF Account

\* The same rows, but for their age, and the same jobs.
LEMMA CalmStep ==
  ASSUME Inv, \A i \in TicketIds : Account(i),
         DOMAIN tickets' = DOMAIN tickets,
         \A i \in DOMAIN tickets : /\ tickets'[i].status = tickets[i].status
                                   /\ tickets'[i].retries = tickets[i].retries,
         UNCHANGED <<at, llmCalls, lost>>
  PROVE  \A i \in TicketIds : Account(i)'
  BY SameAccount

\* A ticket that appears, with at most a job of its own request.
LEMMA NewAccount ==
  ASSUME IsFiniteSet(Schedulers), Inv', NEW i \in TicketIds, Account(i),
         i \notin DOMAIN tickets, i \in DOMAIN tickets',
         tickets'[i].retries = 0, tickets'[i].status \in {"draft", "processing"},
         \A g, h \in Handlers : at'[g][i] # "idle" /\ at'[h][i] # "idle" => g = h,
         UNCHANGED <<llmCalls, lost>>
  PROVE  Account(i)'
<1>1. OneHandler(Column(i)')
  BY DEF OneHandler, Column, Workers
<1>2. /\ Column(i)' \in Columns /\ lost'[i] \in Nat /\ llmCalls'[i] = 0
      /\ ~Settled(i)'
  BY PipelineAssumption DEF Inv, Account, Settled, TypeOK, Column, Columns
<1>3. Balanced(Column(i)', FALSE, 0, 0, lost'[i])
  BY <1>1, <1>2, OpeningBalance
<1> QED
  BY <1>1, <1>2, <1>3 DEF Account

LEMMA DraftAccounts ==
  ASSUME IsFiniteSet(Schedulers), Inv, Inv', \A i \in TicketIds : Account(i),
         NEW d \in inserting, CommitDraft(d)
  PROVE  \A i \in TicketIds : Account(i)'
<1> SUFFICES ASSUME NEW i \in TicketIds PROVE Account(i)'
  OBVIOUS
<1>1. /\ d.id \in TicketIds \ DOMAIN tickets
      /\ DOMAIN tickets' = DOMAIN tickets \cup {d.id}
      /\ tickets'[d.id] = NewRow(d.text, "draft")
      /\ \A j \in DOMAIN tickets : tickets'[j] = tickets[j]
  BY DEF Inv, TypeOK, Drafts, CommitDraft, Insert
<1>2. UNCHANGED <<at, llmCalls, lost>>
  BY DEF CommitDraft
<1>3. CASE i # d.id
  BY <1>1, <1>2, <1>3, SameAccount
<1>4. CASE i = d.id
  <2>1. \A v \in Workers : at'[v][i] = "idle"
    BY <1>1, <1>2, <1>4 DEF Inv, TypeOK, Live
  <2> QED
    BY <1>1, <1>2, <1>4, <2>1, NewAccount DEF NewRow, Workers
<1> QED
  BY <1>3, <1>4

LEMMA AnalyzeAccounts ==
  ASSUME IsFiniteSet(Schedulers), Inv, Inv', \A i \in TicketIds : Account(i),
         NEW h \in Handlers, NEW t \in Texts, Analyze(h, t)
  PROVE  \A i \in TicketIds : Account(i)'
<1> SUFFICES ASSUME NEW i \in TicketIds PROVE Account(i)'
  OBVIOUS
<1>1. /\ nextId \in TicketIds \ DOMAIN tickets
      /\ DOMAIN tickets' = DOMAIN tickets \cup {nextId}
      /\ tickets'[nextId] = NewRow(t, "processing")
      /\ \A j \in DOMAIN tickets : tickets'[j] = tickets[j]
  BY DEF Inv, TypeOK, Analyze, Insert
<1>2. h \in Workers /\ \A v \in Workers \ {h} : at'[v][i] = at[v][i]
  BY DEF Analyze, StartJobs, Inv, TypeOK, Workers
<1>3. UNCHANGED <<llmCalls, lost>>
  BY DEF Analyze
<1>4. CASE i # nextId
  <2>1. at'[h][i] = at[h][i]
    BY <1>2, <1>4 DEF Analyze, StartJobs, Idle, Inv, TypeOK
  <2> QED
    BY <1>1, <1>2, <1>3, <1>4, <2>1, SameAccount
<1>5. CASE i = nextId
  <2>1. \A v \in Workers \ {h} : at'[v][i] = "idle"
    BY <1>1, <1>2, <1>5 DEF Inv, TypeOK, Live
  <2> QED
    BY <1>1, <1>3, <1>5, <2>1, NewAccount DEF NewRow, Workers
<1> QED
  BY <1>4, <1>5

LEMMA ClaimAccounts ==
  ASSUME IsFiniteSet(Schedulers), Inv, Inv', \A i \in TicketIds : Account(i),
         NEW s \in Schedulers, Claim(s)
  PROVE  \A i \in TicketIds : Account(i)'
<1> SUFFICES ASSUME NEW i \in TicketIds PROVE Account(i)'
  OBVIOUS
<1>1. /\ TypeOK /\ IsTable(tickets) /\ s \in Workers /\ at[s][i] = "idle"
      /\ UNCHANGED <<llmCalls, lost>>
  BY TypedTable DEF Inv, Workers, Claim, Idle
<1>2. PICK L \in SUBSET MaybeLocked :
        \E S \in ClaimBatches(tickets, LockedByOrphans \cup L, BatchSize) :
          tickets' = ClaimRows(tickets, S) /\ StartJobs(s, S, tickets)
  BY DEF Claim
<1>3. PICK S \in ClaimBatches(tickets, LockedByOrphans \cup L, BatchSize) :
        tickets' = ClaimRows(tickets, S) /\ StartJobs(s, S, tickets)
  BY <1>2
<1>4. S \in SUBSET DOMAIN tickets /\ \A j \in S : ~Settled(j)
  BY ClaimBatchFacts DEF Settled
<1>5. /\ UpdatesOnly(tickets, tickets', S)
      /\ \A j \in S : /\ tickets'[j].status = "processing"
                      /\ tickets'[j].retries = tickets[j].retries
  BY <1>1, <1>3, <1>4, ClaimRowsFacts
<1>6. /\ \A v \in Workers \ {s} : at'[v][i] = at[v][i]
      /\ i \notin S => at'[s][i] = "idle"
  BY <1>1, <1>3, <1>4, StartFacts DEF Kept
<1>7. CASE i \notin S
  <2>1. /\ i \in DOMAIN tickets' <=> i \in DOMAIN tickets
        /\ i \in DOMAIN tickets => tickets'[i] = tickets[i]
    BY <1>5, <1>7 DEF UpdatesOnly
  <2>2. \A v \in Workers : at'[v][i] = at[v][i]
    BY <1>1, <1>6, <1>7
  <2> QED
    BY <1>1, <2>1, <2>2, SameAccount
<1>8. CASE i \in S
  <2> DEFINE c == Column(i)
             d == Column(i)'
             k == tickets[i].retries
  <2>1. c \in Columns /\ d \in Columns
    BY ColumnType DEF Inv, TypeOK, Column, Columns
  <2>2. c[s] = "idle" /\ \A w \in Workers \ {s} : d[w] = c[w]
    BY <1>1, <1>6 DEF Column
  <2>3. k \in Nat /\ llmCalls[i] \in Nat /\ lost[i] \in Nat
    BY <1>1, <1>4, <1>8, NumberTypes
  <2>4. OneHandler(c) /\ Balanced(c, FALSE, k, llmCalls[i], lost[i])
    BY <1>4, <1>8 DEF Account
  <2> HIDE DEF c, d, k
  <2>5. OneHandler(d) /\ Balanced(d, FALSE, k, llmCalls[i], lost[i])
    BY <2>1, <2>2, <2>3, <2>4, BeginBalance
  <2>6. i \in DOMAIN tickets' /\ ~Settled(i)' /\ tickets'[i].retries = k
    BY <1>4, <1>5, <1>8 DEF UpdatesOnly, Settled, k
  <2> QED
    BY <1>1, <2>5, <2>6 DEF Account, d
<1> QED
  BY <1>7, <1>8

\* A step of the job of w for ticket j is no affair of the other tickets.
LEMMA OtherAccounts ==
  ASSUME Inv, \A i \in TicketIds : Account(i), NEW w \in Workers, NEW j \in TicketIds,
         NEW stage, NEW result, Move(w, j, stage, result),
         DOMAIN tickets' = DOMAIN tickets,
         \A i \in DOMAIN tickets \ {j} : tickets'[i] = tickets[i],
         \A i \in TicketIds \ {j} : llmCalls'[i] = llmCalls[i] /\ lost'[i] = lost[i]
  PROVE  \A i \in TicketIds \ {j} : Account(i)'
<1> SUFFICES ASSUME NEW i \in TicketIds \ {j} PROVE Account(i)'
  OBVIOUS
<1>1. \A v \in Workers : at'[v][i] = at[v][i]
  BY DEF Move, Inv, TypeOK
<1> QED
  BY <1>1, SameAccount

LEMMA MoveAccount ==
  ASSUME IsFiniteSet(Schedulers), Inv, Inv', NEW j \in TicketIds, Account(j),
         NEW w \in Workers, at[w][j] # "idle", NEW stage \in {"llm", "store", "fail"},
         NEW result, Move(w, j, stage, result), tickets' = tickets, lost' = lost,
         llmCalls'[j] = llmCalls[j] \/ (llmCalls'[j] = llmCalls[j] + 1 /\ at[w][j] = "lookup")
  PROVE  Account(j)'
<1> DEFINE c == Column(j)
           d == Column(j)'
           k == tickets[j].retries
           n == llmCalls[j]
           more == llmCalls'[j]
<1>1. c \in Columns /\ d \in Columns
  BY ColumnType DEF Inv, TypeOK, Column, Columns
<1>2. /\ c[w] = at[w][j] /\ d[w] = stage
      /\ \A v \in Workers \ {w} : d[v] = c[v]
  BY DEF Column, Move, Inv, TypeOK
<1>3. /\ j \in DOMAIN tickets /\ j \in DOMAIN tickets'
      /\ k \in Nat /\ n \in Nat /\ more \in Nat /\ lost[j] \in Nat
  BY NumberTypes DEF Inv, TypeOK, Live
<1>4. /\ OneHandler(c)
      /\ Settled(j) => Balanced(c, TRUE, k, n, lost[j])
      /\ ~Settled(j) => Balanced(c, FALSE, k, n, lost[j])
  BY <1>3 DEF Account
<1>5. (Settled(j)' <=> Settled(j)) /\ k = tickets'[j].retries
  BY DEF Settled
<1>6. more = n \/ (more = n + 1 /\ c[w] = "lookup")
  BY <1>2
<1>7. c[w] # "idle" /\ d[w] \in {"llm", "store", "fail"}
  BY <1>2
<1> HIDE DEF c, d, k, n, more
<1>8. CASE Settled(j)
  <2>1. OneHandler(d) /\ Balanced(d, TRUE, k, more, lost[j])
    BY <1>1, <1>2, <1>3, <1>4, <1>6, <1>7, <1>8, MoveBalance
  <2> QED
    BY <1>3, <1>5, <1>8, <2>1 DEF Account, d, k, more
<1>9. CASE ~Settled(j)
  <2>1. OneHandler(d) /\ Balanced(d, FALSE, k, more, lost[j])
    BY <1>1, <1>2, <1>3, <1>4, <1>6, <1>7, <1>9, MoveBalance
  <2> QED
    BY <1>3, <1>5, <1>9, <2>1 DEF Account, d, k, more
<1> QED
  BY <1>8, <1>9

LEMMA JobAccounts ==
  ASSUME IsFiniteSet(Schedulers), Inv, Inv', \A i \in TicketIds : Account(i),
         NEW w \in Workers, NEW j \in TicketIds,
         \/ ReuseAnswer(w, j) \/ MatchKeyword(w, j) \/ AskLlm(w, j)
         \/ LlmAnswers(w, j) \/ LlmFails(w, j)
  PROVE  \A i \in TicketIds : Account(i)'
<1>1. /\ at[w][j] # "idle" /\ tickets' = tickets /\ lost' = lost
      /\ \E stage \in {"llm", "store", "fail"}, result \in {pending'[w][j]} :
           Move(w, j, stage, result)
      /\ \A i \in TicketIds \ {j} : llmCalls'[i] = llmCalls[i]
      /\ \/ llmCalls'[j] = llmCalls[j]
         \/ llmCalls'[j] = llmCalls[j] + 1 /\ at[w][j] = "lookup"
  <2>1. ASSUME NEW stage, NEW result, Move(w, j, stage, result)
        PROVE  result = pending'[w][j]
    BY <2>1 DEF Move, Inv, TypeOK
  <2> QED
    BY <2>1 DEF ReuseAnswer, MatchKeyword, AskLlm, LlmAnswers, LlmFails, Inv, TypeOK
<1>2. PICK stage \in {"llm", "store", "fail"}, result \in {pending'[w][j]} :
        Move(w, j, stage, result)
  BY <1>1
<1>3. Account(j)'
  BY <1>1, <1>2, MoveAccount
<1>4. \A i \in TicketIds \ {j} : Account(i)'
  BY <1>1, <1>2, OtherAccounts
<1> QED
  BY <1>3, <1>4

LEMMA StoreAccounts ==
  ASSUME IsFiniteSet(Schedulers), Inv, Inv', \A i \in TicketIds : Account(i),
         NEW w \in Workers, NEW j \in TicketIds, StoreReady(w, j) \/ StoreFailed(w, j)
  PROVE  \A i \in TicketIds : Account(i)'
<1> DEFINE c == Column(j)
           d == Column(j)'
           k == tickets[j].retries
<1>1. /\ TypeOK /\ IsTable(tickets) /\ at[w][j] \in {"store", "fail"}
      /\ EndJob(w, j) /\ j \in DOMAIN tickets /\ tickets[j] \in Rows
      /\ UNCHANGED <<llmCalls, lost>>
  BY TypedTable DEF Inv, StoreReady, StoreFailed, TypeOK, Live
<1>2. /\ UpdatesOnly(tickets, tickets', {j})
      /\ \/ tickets'[j].status = "ready" /\ tickets'[j].retries = k
         \/ /\ tickets'[j].retries = k + 1
            /\ tickets'[j].status \in {"dead_letter", "failed"}
  <2>1. CASE StoreReady(w, j)
    <3>1. pending[w][j] \in Results
      BY <2>1 DEF Inv, StageFits, StoreReady
    <3> QED
      BY <1>1, <2>1, <3>1, MarkReadyFacts DEF StoreReady
  <2>2. CASE StoreFailed(w, j)
    BY <1>1, <2>2, MarkFailedFacts DEF StoreFailed
  <2> QED
    BY <2>1, <2>2
<1>3. \A i \in TicketIds \ {j} : Account(i)'
  <2>1. /\ DOMAIN tickets' = DOMAIN tickets
        /\ \A i \in DOMAIN tickets \ {j} : tickets'[i] = tickets[i]
    BY <1>2 DEF UpdatesOnly
  <2> QED
    BY <1>1, <2>1, OtherAccounts DEF EndJob
<1>4. c \in Columns /\ d \in Columns
  BY ColumnType DEF Inv, TypeOK, Column, Columns
<1>5. w \in Past(c) /\ EndOf(w, c, d)
  BY <1>1 DEF Past, EndOf, Column, EndJob, Move, TypeOK
<1>6. k \in Nat /\ llmCalls[j] \in Nat /\ lost[j] \in Nat /\ j \in DOMAIN tickets'
  BY <1>1, <1>2, NumberTypes DEF UpdatesOnly
<1>7. /\ OneHandler(c)
      /\ Settled(j) => Balanced(c, TRUE, k, llmCalls[j], lost[j])
      /\ ~Settled(j) => Balanced(c, FALSE, k, llmCalls[j], lost[j])
  BY <1>1 DEF Account
<1>8. ~Settled(j) => k < MaxRetries
  BY <1>1 DEF Settled, Inv, RowsFit, LedgerRow, Rows, Statuses
<1>9. PICK m \in {k, k + 1} : tickets'[j].retries = m /\ (~Settled(j)' => m = k + 1)
  BY <1>2, <1>6 DEF Settled
<1> HIDE DEF c, d, k
<1>10. PICK settled \in BOOLEAN : /\ Balanced(c, settled, k, llmCalls[j], lost[j])
                                  /\ ~settled => k < MaxRetries
  <2>1. CASE Settled(j)
    <3>1. Balanced(c, TRUE, k, llmCalls[j], lost[j])
      BY <1>7, <2>1
    <3> QED
      BY <3>1
  <2>2. CASE ~Settled(j)
    <3>1. Balanced(c, FALSE, k, llmCalls[j], lost[j]) /\ k < MaxRetries
      BY <1>7, <1>8, <2>2
    <3> QED
      BY <3>1
  <2> QED
    BY <2>1, <2>2
<1>11. OneHandler(d) /\ Balanced(d, TRUE, m, llmCalls[j], lost[j])
  <2>1. m \in Nat /\ (m = k \/ m = k + 1)
    BY <1>6
  <2>2. llmCalls[j] \in Nat /\ lost[j] \in Nat /\ k \in Nat
    BY <1>6
  <2>3. OneHandler(c) /\ w \in Past(c) /\ EndOf(w, c, d)
    BY <1>5, <1>7
  <2> QED
    BY <1>4, <2>1, <2>2, <2>3, <1>10, SettleBalance
<1>12. Balanced(d, FALSE, k + 1, llmCalls[j], lost[j])
  BY <1>4, <1>5, <1>6, <1>7, <1>10, FailBalance
<1>13. Account(j)'
  BY <1>1, <1>6, <1>9, <1>11, <1>12 DEF Account, d
<1> QED
  BY <1>3, <1>13

\* Workers that die together, or one that loses its job, leave ticket i.
LEMMA LossAccount ==
  ASSUME IsFiniteSet(Schedulers), Inv, Inv', NEW i \in TicketIds, Account(i),
         NEW D \in SUBSET Workers, \A r, s \in D \cap Schedulers : r = s,
         \A w \in Workers : at'[w][i] = IF w \in D THEN "idle" ELSE at[w][i],
         tickets' = tickets, llmCalls' = llmCalls, lost'[i] = lost[i] + 1
  PROVE  Account(i)'
<1> DEFINE c == Column(i)
           d == Column(i)'
           k == tickets[i].retries
<1>1. c \in Columns /\ d \in Columns
  BY ColumnType DEF Inv, TypeOK, Column, Columns
<1>2. \A w \in Workers : d[w] = IF w \in D THEN "idle" ELSE c[w]
  BY DEF Column
<1>3. /\ OneHandler(c)
      /\ llmCalls[i] \in Nat /\ lost[i] \in Nat
      /\ i \in DOMAIN tickets => k \in Nat
  BY NumberTypes DEF Account, Inv
<1>4. Settled(i)' <=> Settled(i)
  BY DEF Settled
<1> HIDE DEF c, d
<1>5. OneHandler(d)
  BY <1>2, <1>3 DEF OneHandler, Workers
<1>6. CASE i \notin DOMAIN tickets
  BY <1>5, <1>6 DEF Account, d
<1>7. CASE i \in DOMAIN tickets /\ Settled(i)
  <2>1. Balanced(c, TRUE, k, llmCalls[i], lost[i]) /\ k \in Nat
    BY <1>3, <1>7 DEF Account, c
  <2> HIDE DEF k
  <2>2. Balanced(d, TRUE, k, llmCalls[i], lost[i] + 1)
    BY <1>1, <1>2, <1>3, <2>1, LossBalance
  <2> QED
    BY <1>4, <1>5, <1>7, <2>2 DEF Account, d, k
<1>8. CASE i \in DOMAIN tickets /\ ~Settled(i)
  <2>1. Balanced(c, FALSE, k, llmCalls[i], lost[i]) /\ k \in Nat
    BY <1>3, <1>8 DEF Account, c
  <2> HIDE DEF k
  <2>2. Balanced(d, FALSE, k, llmCalls[i], lost[i] + 1)
    BY <1>1, <1>2, <1>3, <2>1, LossBalance
  <2> QED
    BY <1>4, <1>5, <1>8, <2>2 DEF Account, d, k
<1> QED
  BY <1>6, <1>7, <1>8

LEMMA LossAccounts ==
  ASSUME IsFiniteSet(Schedulers), Inv, Inv', \A i \in TicketIds : Account(i),
         NEW w \in Workers, NEW j \in TicketIds,
         LoseJob(w, j) \/ (w \in Schedulers /\ LoseSession(w, j))
  PROVE  \A i \in TicketIds : Account(i)'
<1>1. /\ EndJob(w, j) /\ lost' = [lost EXCEPT ![j] = lost[j] + 1]
      /\ tickets' = tickets /\ llmCalls' = llmCalls
  BY DEF LoseJob, LoseSession
<1>2. \A i \in TicketIds \ {j} : Account(i)'
  BY <1>1, OtherAccounts DEF EndJob, Inv, TypeOK
<1>3. \A v \in Workers : at'[v][j] = IF v \in {w} THEN "idle" ELSE at[v][j]
  BY <1>1 DEF EndJob, Move, Inv, TypeOK
<1>4. lost'[j] = lost[j] + 1
  BY <1>1 DEF Inv, TypeOK
<1>5. {w} \in SUBSET Workers /\ \A r, s \in {w} \cap Schedulers : r = s
  OBVIOUS
<1>6. Account(j)'
  BY <1>1, <1>3, <1>4, <1>5, LossAccount
<1> QED
  BY <1>2, <1>6

LEMMA CrashAccounts ==
  ASSUME IsFiniteSet(Schedulers), Inv, Inv', \A i \in TicketIds : Account(i),
         NEW p \in Processes, Crash(p)
  PROVE  \A i \in TicketIds : Account(i)'
<1> SUFFICES ASSUME NEW i \in TicketIds PROVE Account(i)'
  OBVIOUS
<1> DEFINE hit == \E w \in p : at[w][i] # "idle"
<1>1. /\ \A w \in Workers : at'[w][i] = IF w \in p THEN "idle" ELSE at[w][i]
      /\ lost'[i] = IF hit THEN lost[i] + 1 ELSE lost[i]
      /\ tickets' = tickets /\ llmCalls' = llmCalls
  BY DEF Crash
<1>2. p \in SUBSET Workers /\ \A r, s \in p \cap Schedulers : r = s
  BY PipelineAssumption
<1>3. CASE hit
  BY <1>1, <1>2, <1>3, LossAccount
<1>4. CASE ~hit
  <2>1. \A w \in Workers : at'[w][i] = at[w][i]
    BY <1>1, <1>2, <1>4
  <2> QED
    BY <1>1, <1>4, <2>1, SameAccount
<1> QED
  BY <1>3, <1>4

\* A dead letter put back by hand begins with a clean account.
LEMMA ReviveAccounts ==
  ASSUME IsFiniteSet(Schedulers), Inv, Inv', \A i \in TicketIds : Account(i),
         NEW j \in DOMAIN tickets, Revive(j)
  PROVE  \A i \in TicketIds : Account(i)'
<1> SUFFICES ASSUME NEW i \in TicketIds PROVE Account(i)'
  OBVIOUS
<1>1. /\ TypeOK /\ j \in TicketIds /\ tickets[j] \in Rows
      /\ DOMAIN tickets' = DOMAIN tickets /\ at' = at /\ lost' = lost
  BY DEF Inv, TypeOK, Revive
<1>2. CASE i # j
  <2>1. i \in DOMAIN tickets => tickets'[i] = tickets[i]
    BY <1>2 DEF Revive
  <2>2. llmCalls'[i] = llmCalls[i]
    BY <1>1, <1>2 DEF Revive, TypeOK
  <2> QED
    BY <1>1, <2>1, <2>2, SameAccount
<1>3. CASE i = j
  <2>1. /\ tickets'[i].status = "failed" /\ tickets'[i].retries = 0
        /\ llmCalls'[i] = 0
    BY <1>1, <1>3 DEF Revive, TypeOK, Rows
  <2>2. Column(i)' = Column(i) /\ OneHandler(Column(i)) /\ Column(i) \in Columns
    BY <1>1, ColumnType DEF Column, Account
  <2>3. lost[i] \in Nat
    BY <1>1, NumberTypes
  <2>4. Balanced(Column(i), FALSE, 0, 0, lost[i])
    BY <2>2, <2>3, OpeningBalance
  <2> QED
    BY <1>1, <1>3, <2>1, <2>2, <2>4 DEF Account, Settled
<1> QED
  BY <1>2, <1>3

CallsInv == Inv /\ \A i \in TicketIds : Account(i)

LEMMA InitCalls == Init => CallsInv
<1> SUFFICES ASSUME Init PROVE CallsInv
  OBVIOUS
<1>1. ASSUME NEW i \in TicketIds PROVE Account(i)
  <2>1. OneHandler(Column(i))
    BY DEF Init, OneHandler, Column, Workers
  <2> QED
    BY <2>1 DEF Init, Account, EmptyTable
<1> QED
  BY <1>1, InitInv DEF CallsInv

LEMMA NextCalls ==
  ASSUME IsFiniteSet(Schedulers), CallsInv, [Next]_vars
  PROVE  CallsInv'
<1>1. Inv /\ Inv' /\ \A i \in TicketIds : Account(i)
  BY NextInv DEF CallsInv
<1>2. CASE \/ UNCHANGED vars
           \/ \E t \in Texts : CreateDraft(t)
           \/ \E d \in inserting : AbortDraft(d)
           \/ \E o \in orphans : CollectOrphan(o)
  <2>1. UNCHANGED <<tickets, at, llmCalls, lost>>
    BY <1>2 DEF vars, CreateDraft, AbortDraft, CollectOrphan
  <2> QED
    BY <1>1, <2>1, CalmStep DEF CallsInv
<1>3. CASE Tick
  <2>1. /\ DOMAIN tickets' = DOMAIN tickets
        /\ \A i \in DOMAIN tickets : /\ tickets'[i].status = tickets[i].status
                                     /\ tickets'[i].retries = tickets[i].retries
    BY <1>1, <1>3 DEF Tick, Inv, TypeOK, Rows
  <2>2. UNCHANGED <<at, llmCalls, lost>>
    BY <1>3 DEF Tick
  <2> QED
    BY <1>1, <2>1, <2>2, CalmStep DEF CallsInv
<1>4. CASE \E w \in Workers, i \in TicketIds : JobStep(w, i) \/ LoseJob(w, i)
  BY <1>1, <1>4, JobAccounts, StoreAccounts, LossAccounts DEF JobStep, CallsInv
<1>5. CASE \E s \in Schedulers, i \in TicketIds : LoseSession(s, i)
  BY <1>1, <1>5, LossAccounts DEF CallsInv, Workers
<1>6. CASE \/ \E d \in inserting : CommitDraft(d)
           \/ \E h \in Handlers, t \in Texts : Analyze(h, t)
           \/ \E s \in Schedulers : Claim(s)
  BY <1>1, <1>6, DraftAccounts, AnalyzeAccounts, ClaimAccounts DEF CallsInv
<1>7. CASE \/ \E p \in Processes : Crash(p)
           \/ \E i \in DOMAIN tickets : Revive(i)
  BY <1>1, <1>7, CrashAccounts, ReviveAccounts DEF CallsInv
<1> QED
  BY <1>2, <1>3, <1>4, <1>5, <1>6, <1>7 DEF Next

LEMMA CallsLimited ==
  ASSUME IsFiniteSet(Schedulers), CallsInv
  PROVE  LlmCallsLimited
<1> SUFFICES ASSUME NEW i \in TicketIds
             PROVE  llmCalls[i] <= MaxRetries * SchedulerCount + 1 + lost[i]
  BY DEF LlmCallsLimited, SchedulerCount
<1> DEFINE c == Column(i)
           k == tickets[i].retries
<1>1. /\ Inv /\ Account(i) /\ c \in Columns /\ OneHandler(c)
      /\ llmCalls[i] \in Nat /\ lost[i] \in Nat
      /\ i \in DOMAIN tickets => k \in Nat
  BY ColumnType, NumberTypes DEF CallsInv, Inv, Account
<1>2. /\ SchedulerCount \in Nat /\ MaxRetries \in Nat
      /\ SchedulerCount * MaxRetries \in Nat
      /\ SchedulerCount * MaxRetries = MaxRetries * SchedulerCount
  BY <1>1, Busy, RepositoryAssumption
<1>3. CASE i \notin DOMAIN tickets
  BY <1>1, <1>2, <1>3 DEF Account
<1>4. CASE Settled(i)
  <2>1. Balanced(c, TRUE, k, llmCalls[i], lost[i])
    BY <1>1, <1>4 DEF Account, Settled
  <2> HIDE DEF c, k
  <2> QED
    BY <1>1, <1>2, <2>1, Busy DEF Balanced
<1>5. CASE i \in DOMAIN tickets /\ ~Settled(i)
  <2>1. Balanced(c, FALSE, k, llmCalls[i], lost[i])
    BY <1>1, <1>5 DEF Account
  <2>2. k + 1 <= MaxRetries
    BY <1>1, <1>2, <1>5 DEF Settled, Inv, TypeOK, RowsFit, LedgerRow, Rows, Statuses
  <2> HIDE DEF c, k
  <2>3. /\ SchedulerCount * k \in Nat
        /\ SchedulerCount * k + SchedulerCount <= SchedulerCount * MaxRetries
    BY <1>1, <1>2, <1>5, <2>2, Times
  <2> QED
    BY <1>1, <1>2, <2>1, <2>3, Busy DEF Balanced
<1> QED
  BY <1>3, <1>4, <1>5

\* However the jobs of a ticket overlap, outlive their timeout, crash or lose
\* what they wanted to store, the LLM is asked about the ticket at most
\* MaxRetries times per scheduler and once for its request, besides the
\* attempts whose outcome was lost.
THEOREM LlmCallsLimitedHolds ==
  ASSUME IsFiniteSet(Schedulers)
  PROVE  Spec => []LlmCallsLimited
<1>1. Init => CallsInv
  BY InitCalls
<1>2. CallsInv /\ [Next]_vars => CallsInv'
  BY NextCalls
<1>3. CallsInv => LlmCallsLimited
  BY CallsLimited
<1> QED
  BY <1>1, <1>2, <1>3, PTL DEF Spec

-----------------------------------------------------------------------------
(* The tickets under way are no more than the jobs there can be.           *)

JobLimit == Cardinality(Handlers) + BatchSize * Cardinality(Schedulers)

LEMMA JobLimitType ==
  ASSUME IsFiniteSet(Handlers), IsFiniteSet(Schedulers)
  PROVE  JobLimit \in Nat
<1>1. Cardinality(Handlers) \in Nat /\ Cardinality(Schedulers) \in Nat
  BY FS_CardinalityType
<1> QED
  BY <1>1, PipelineAssumption DEF JobLimit

\* A finite set of numbers has a largest one: take the number that has the
\* fewest above it.
LEMMA Largest ==
  ASSUME NEW S \in SUBSET Int, IsFiniteSet(S), S # {}
  PROVE  \E m \in S : \A j \in S : j <= m
<1> DEFINE Above(i) == {k \in S : k > i}
           Aboves == {Above(i) : i \in S}
           Smaller == StrictSubsetOrdering(S)
<1>1. Aboves # {} /\ Aboves \subseteq FiniteSubsetsOf(S)
  <2>1. \A i \in S : Above(i) \in SUBSET S /\ IsFiniteSet(Above(i))
    BY FS_Subset
  <2> QED
    BY <2>1 DEF FiniteSubsetsOf
<1>2. IsWellFoundedOn(Smaller, FiniteSubsetsOf(S))
  BY FS_StrictSubsetOrderingWellFounded
<1>3. PICK A \in Aboves : \A B \in Aboves : <<B, A>> \notin Smaller
  <2> HIDE DEF Aboves, Smaller
  <2> QED
    BY <1>1, <1>2, WFMin
<1>4. PICK m \in S : A = Above(m)
  BY <1>3
<1>5. ASSUME NEW j \in S, j > m PROVE FALSE
  <2>1. Above(j) \subseteq Above(m) /\ j \in Above(m) /\ j \notin Above(j)
    <3>1. j \in Int /\ m \in Int /\ j > m /\ ~(j > j)
      BY <1>5
    <3>2. \A k \in S : k > j => k > m
      BY <3>1
    <3>3. j \in S /\ Above(j) = {k \in S : k > j} /\ Above(m) = {k \in S : k > m}
      OBVIOUS
    <3> HIDE DEF Above
    <3>4. Above(j) \subseteq Above(m)
      BY <3>2, <3>3
    <3>5. j \in Above(m) /\ j \notin Above(j)
      BY <3>1, <3>3
    <3> QED
      BY <3>4, <3>5
  <2>2. /\ Above(j) \in SUBSET S /\ Above(m) \in SUBSET S
        /\ Above(j) # Above(m) /\ Above(j) \in Aboves
    BY <2>1
  <2> HIDE DEF Above
  <2>3. <<Above(j), Above(m)>> \in Smaller
    BY <2>1, <2>2 DEF StrictSubsetOrdering
  <2> QED
    BY <1>3, <1>4, <2>2, <2>3
<1> QED
  BY <1>5

\* Every ticket under way gets a seat of its own: a request has one, and a
\* scheduler has one for each place in its batch.
LEMMA Seats ==
  ASSUME IsFiniteSet(Handlers), IsFiniteSet(Schedulers), NEW J,
         \A h \in Handlers : \A i, j \in J[h] : i = j,
         \A s \in Schedulers : IsFiniteSet(J[s]) /\ Cardinality(J[s]) <= BatchSize
  PROVE  LET U == UNION {J[w] : w \in Workers}
         IN  IsFiniteSet(U) /\ Cardinality(U) <= JobLimit
<1> DEFINE U == UNION {J[w] : w \in Workers}
           Desk == Handlers \X {0}
           Row == Schedulers \X (1 .. BatchSize)
           Owner(i) == CHOOSE w \in Workers : i \in J[w]
           Place(s) == CHOOSE f : f \in Injection(J[s], 1 .. BatchSize)
           seat == [i \in U |-> IF Owner(i) \in Handlers THEN <<Owner(i), 0>>
                                ELSE <<Owner(i), Place(Owner(i))[i]>>]
<1>1. IsFiniteSet(Desk \cup Row) /\ Cardinality(Desk \cup Row) = JobLimit
  <2>1. IsFiniteSet({0}) /\ Cardinality({0}) = 1
    BY FS_Singleton
  <2>2. /\ IsFiniteSet(1 .. BatchSize) /\ Cardinality(1 .. BatchSize) = BatchSize
        /\ BatchSize \in Nat
    <3>1. BatchSize \in Nat \ {0}
      BY PipelineAssumption
    <3> QED
      BY <3>1, FS_Interval
  <2>3. Cardinality(Handlers) \in Nat /\ Cardinality(Schedulers) \in Nat
    BY FS_CardinalityType
  <2>4. IsFiniteSet(Desk) /\ Cardinality(Desk) = Cardinality(Handlers)
    <3>1. IsFiniteSet(Desk) /\ Cardinality(Desk) = Cardinality(Handlers) * Cardinality({0})
      BY <2>1, FS_Product
    <3> QED
      BY <2>1, <2>3, <3>1
  <2>5. IsFiniteSet(Row) /\ Cardinality(Row) = Cardinality(Schedulers) * BatchSize
    BY <2>2, FS_Product
  <2>6. Desk \cap Row = {}
    BY PipelineAssumption
  <2> HIDE DEF Desk, Row
  <2>7. /\ IsFiniteSet(Desk \cup Row)
        /\ Cardinality(Desk \cup Row)
             = Cardinality(Desk) + Cardinality(Row) - Cardinality(Desk \cap Row)
    BY <2>4, <2>5, FS_Union
  <2>8. Cardinality(Desk \cap Row) = 0
    BY <2>6, FS_EmptySet
  <2>9. Cardinality(Schedulers) * BatchSize = BatchSize * Cardinality(Schedulers)
    BY <2>2, <2>3
  <2>10. Cardinality(Row) \in Nat
    BY <2>5, FS_CardinalityType
  <2> QED
    BY <2>3, <2>4, <2>5, <2>7, <2>8, <2>9, <2>10 DEF JobLimit
<1>2. \A s \in Schedulers : Place(s) \in Injection(J[s], 1 .. BatchSize)
  <2> SUFFICES ASSUME NEW s \in Schedulers
               PROVE  \E f : f \in Injection(J[s], 1 .. BatchSize)
    OBVIOUS
  <2> DEFINE n == Cardinality(J[s])
  <2>1. n \in Nat /\ n <= BatchSize /\ ExistsBijection(1 .. n, J[s])
    BY FS_CardinalityType
  <2>2. PICK f : f \in Bijection(J[s], 1 .. n)
    BY <2>1, Fun_ExistsBijSymmetric DEF ExistsBijection
  <2>3. 1 .. n \subseteq 1 .. BatchSize
    BY <2>1, PipelineAssumption
  <2>4. f \in Injection(J[s], 1 .. BatchSize)
    BY <2>2, <2>3 DEF Bijection, Injection
  <2> QED
    BY <2>4
<1>3. \A i \in U : Owner(i) \in Workers /\ i \in J[Owner(i)]
  OBVIOUS
<1> HIDE DEF Owner, Place
<1>4. seat \in [U -> Desk \cup Row]
  BY <1>2, <1>3 DEF Workers, Injection
<1>5. ASSUME NEW i \in U, NEW j \in U, seat[i] = seat[j] PROVE i = j
  <2>1. Owner(i) = Owner(j)
    BY <1>5
  <2>2. CASE Owner(i) \in Handlers
    BY <1>3, <2>1, <2>2
  <2>3. CASE Owner(i) \in Schedulers
    <3>1. Place(Owner(i))[i] = Place(Owner(i))[j]
      BY <1>5, <2>1, <2>3, PipelineAssumption
    <3> QED
      BY <1>2, <1>3, <2>1, <2>3, <3>1 DEF Injection, IsInjective
  <2> QED
    BY <1>3, <2>2, <2>3 DEF Workers
<1>6. seat \in Injection(U, Desk \cup Row)
  BY <1>4, <1>5 DEF Injection, IsInjective
<1> QED
  BY <1>1, <1>6, FS_Injection

LEMMA SeatsForAll ==
  ASSUME IsFiniteSet(Handlers), IsFiniteSet(Schedulers), NEW J,
         \A w \in Workers : J[w] \subseteq TicketIds,
         \A h \in Handlers : \A i, j \in J[h] : i = j,
         \A s \in Schedulers : Cardinality(J[s]) <= BatchSize,
         NEW A, A \subseteq UNION {J[w] : w \in Workers}
  PROVE  Cardinality(A) <= JobLimit
<1> DEFINE U == UNION {J[w] : w \in Workers}
<1>1. \A s \in Schedulers : IsFiniteSet(J[s]) /\ Cardinality(J[s]) <= BatchSize
  <2>1. IsFiniteSet(TicketIds)
    BY FS_Interval, RepositoryAssumption DEF TicketIds
  <2> QED
    BY <2>1, FS_Subset DEF Workers
<1>2. IsFiniteSet(U) /\ Cardinality(U) <= JobLimit
  BY <1>1, Seats
<1>3. Cardinality(A) <= Cardinality(U) /\ Cardinality(A) \in Nat /\ Cardinality(U) \in Nat
  BY <1>2, NoMore
<1>4. JobLimit \in Nat
  BY JobLimitType
<1> QED
  BY <1>2, <1>3, <1>4

JobsOf(w) == {i \in TicketIds : at[w][i] # "idle"}

FewJobs ==
  /\ \A h \in Handlers : \A i, j \in JobsOf(h) : i = j
  /\ \A s \in Schedulers : Cardinality(JobsOf(s)) <= BatchSize

\* Only a request that begins and a claim give anybody new jobs.
LEMMA NobodyBegins ==
  ASSUME Inv, [Next]_vars, NEW i \in TicketIds
  PROVE  \/ NoNewJob(i)
         \/ \E h \in Handlers, t \in Texts : Analyze(h, t)
         \/ \E s \in Schedulers : Claim(s)
<1>1. TypeOK
  BY DEF Inv
<1>2. CASE at' = at
  BY <1>2 DEF NoNewJob
<1>3. ASSUME NEW w \in Workers, NEW j \in TicketIds,
             \/ JobStep(w, j) \/ LoseJob(w, j) \/ (w \in Schedulers /\ LoseSession(w, j))
      PROVE  NoNewJob(i)
  BY <1>1, <1>3, MoveBeginsNothing
     DEF JobStep, ReuseAnswer, MatchKeyword, AskLlm, LlmAnswers, LlmFails, StoreReady,
     StoreFailed, LoseJob, LoseSession, EndJob, DbStages
<1>4. CASE \E p \in Processes : Crash(p)
  BY <1>1, <1>4 DEF Crash, NoNewJob
<1>5. Schedulers \subseteq Workers
  BY DEF Workers
<1> QED
  BY <1>2, <1>3, <1>4, <1>5
     DEF Next, vars, CreateDraft, CommitDraft, AbortDraft, CollectOrphan, Tick, Revive

LEMMA FewJobsStep ==
  ASSUME Inv, FewJobs, [Next]_vars
  PROVE  FewJobs'
<1> USE DEF JobsOf
<1>1. IsFiniteSet(TicketIds) /\ TypeOK /\ IsTable(tickets)
  BY FS_Interval, RepositoryAssumption, TypedTable DEF TicketIds, Inv
<1>2. ASSUME NEW s \in Schedulers, JobsOf(s)' \subseteq JobsOf(s)
      PROVE  (Cardinality(JobsOf(s)) <= BatchSize)'
  <2>1. IsFiniteSet(JobsOf(s)) /\ Cardinality(JobsOf(s)) <= BatchSize
    BY <1>1, FS_Subset DEF FewJobs
  <2>2. /\ Cardinality(JobsOf(s)') <= Cardinality(JobsOf(s))
        /\ Cardinality(JobsOf(s)') \in Nat /\ Cardinality(JobsOf(s)) \in Nat
    BY <1>2, <2>1, NoMore
  <2> QED
    BY <2>1, <2>2, PipelineAssumption
<1>3. CASE \A w \in Workers : JobsOf(w)' \subseteq JobsOf(w)
  <2>1. Handlers \subseteq Workers /\ Schedulers \subseteq Workers
    BY DEF Workers
  <2> QED
    BY <1>2, <1>3, <2>1 DEF FewJobs
<1>4. ASSUME NEW h \in Handlers, NEW t \in Texts, Analyze(h, t) PROVE FewJobs'
  <2>1. h \in Workers /\ h \notin Schedulers
    BY PipelineAssumption DEF Workers
  <2>2. JobsOf(h)' \subseteq {nextId}
    BY <1>1, <1>4, <2>1 DEF Analyze, StartJobs, TypeOK
  <2>3. \A w \in Workers \ {h} : JobsOf(w)' = JobsOf(w)
    BY <1>1, <1>4 DEF Analyze, StartJobs, TypeOK
  <2> QED
    BY <1>2, <2>1, <2>2, <2>3 DEF FewJobs, Workers
<1>5. ASSUME NEW s \in Schedulers, Claim(s) PROVE FewJobs'
  <2>1. s \in Workers /\ s \notin Handlers
    BY PipelineAssumption DEF Workers
  <2>2. PICK L \in SUBSET MaybeLocked :
          \E S \in ClaimBatches(tickets, LockedByOrphans \cup L, BatchSize) :
            tickets' = ClaimRows(tickets, S) /\ StartJobs(s, S, tickets)
    BY <1>5 DEF Claim
  <2>3. PICK S \in ClaimBatches(tickets, LockedByOrphans \cup L, BatchSize) :
          tickets' = ClaimRows(tickets, S) /\ StartJobs(s, S, tickets)
    BY <2>2
  <2>4. S \subseteq DOMAIN tickets /\ IsFiniteSet(S) /\ Cardinality(S) <= BatchSize
    <3>1. S \subseteq DOMAIN tickets
      BY <2>3, ClaimBatchFacts
    <3>2. IsFiniteSet(S) /\ Cardinality(S) \in Nat
      BY <1>1, <3>1, FS_Subset, FS_CardinalityType DEF IsTable
    <3>3. PICK Free \in SUBSET DOMAIN tickets :
            Cardinality(S) = IF Cardinality(Free) < BatchSize
                             THEN Cardinality(Free) ELSE BatchSize
      BY <2>3 DEF ClaimBatches
    <3>4. Cardinality(Free) \in Nat
      BY <1>1, FS_Subset, FS_CardinalityType DEF IsTable
    <3> QED
      BY <3>1, <3>2, <3>3, <3>4, PipelineAssumption
  <2>5. /\ JobsOf(s)' \subseteq S
        /\ \A w \in Workers \ {s} : JobsOf(w)' = JobsOf(w)
    BY <1>1, <2>1, <2>3, <2>4, StartFacts DEF Kept
  <2>6. (Cardinality(JobsOf(s)) <= BatchSize)'
    <3>1. /\ Cardinality(JobsOf(s)') <= Cardinality(S)
          /\ Cardinality(JobsOf(s)') \in Nat /\ Cardinality(S) \in Nat
      BY <2>4, <2>5, NoMore
    <3> QED
      BY <2>4, <3>1, PipelineAssumption
  <2>7. \A r \in Schedulers : (Cardinality(JobsOf(r)) <= BatchSize)'
    BY <1>2, <2>5, <2>6 DEF Workers
  <2>8. \A h \in Handlers : JobsOf(h)' = JobsOf(h)
    BY <2>1, <2>5 DEF Workers
  <2> HIDE DEF JobsOf
  <2> QED
    BY <2>7, <2>8 DEF FewJobs
<1>6. CASE \A i \in TicketIds : NoNewJob(i)
  BY <1>3, <1>6 DEF NoNewJob
<1> QED
  BY <1>4, <1>5, <1>6, NobodyBegins

-----------------------------------------------------------------------------
(* Looking for duplicates *)

\* The LLM has answered for ticket i, or is being asked.
JobFromLlm(w, i) == at[w][i] = "llm" \/ (at[w][i] = "store" /\ pending[w][i].ai_used)

FromLlm(i) ==
  \/ i \in DOMAIN tickets /\ tickets[i].status = "ready" /\ tickets[i].ai_used
  \/ \E w \in Workers : JobFromLlm(w, i)

UsesLlm(t) == {i \in DOMAIN tickets : tickets[i].text = t /\ FromLlm(i)}

LEMMA UsesLlmFinite ==
  ASSUME Inv, NEW t PROVE IsFiniteSet(UsesLlm(t))
<1>1. IsFiniteSet(TicketIds)
  BY FS_Interval, RepositoryAssumption DEF TicketIds
<1>2. UsesLlm(t) \in SUBSET TicketIds
  BY DEF UsesLlm, Inv, TypeOK
<1> QED
  BY <1>1, <1>2, FS_Subset

\* The lookup misses no ready ticket of the text.
LEMMA LookupMissesNothing ==
  ASSUME NEW T, IsTable(T), NEW t, FindReady(T, t) = {}
  PROVE  \A i \in DOMAIN T : T[i].status = "ready" => T[i].text # t
<1> DEFINE Same == {i \in DOMAIN T : T[i].status = "ready" /\ T[i].text = t}
<1>1. IsFiniteSet(Same) /\ Same \in SUBSET Int
  <2>1. IsFiniteSet(TicketIds) /\ TicketIds \subseteq Int
    BY FS_Interval, RepositoryAssumption DEF TicketIds
  <2>2. Same \in SUBSET TicketIds
    BY DEF IsTable
  <2> HIDE DEF Same
  <2> QED
    BY <2>1, <2>2, FS_Subset
<1>2. ~ \E m \in Same : \A j \in Same : j <= m
  BY DEF FindReady
<1>3. Same = {}
  <2> HIDE DEF Same
  <2> QED
    BY <1>1, <1>2, Largest
<1> QED
  BY <1>3

\* After a step, ticket i owes the LLM nothing that it did not owe it before.
NoLlmNews(i) ==
  i \in DOMAIN tickets' /\ FromLlm(i)' => /\ i \in DOMAIN tickets /\ FromLlm(i)
                                          /\ tickets'[i].text = tickets[i].text

\* The row stays as it is, and no job gets at an answer of the LLM.
LEMMA CalmNews ==
  ASSUME NEW i \in TicketIds,
         i \in DOMAIN tickets' => /\ i \in DOMAIN tickets
                                  /\ tickets'[i].text = tickets[i].text,
         i \in DOMAIN tickets' /\ tickets'[i].status = "ready" /\ tickets'[i].ai_used
           => FromLlm(i),
         \A w \in Workers : JobFromLlm(w, i)' => FromLlm(i)
  PROVE  NoLlmNews(i)
  BY DEF NoLlmNews, FromLlm

LEMMA MoveNews ==
  ASSUME Inv, NEW w \in Workers, NEW j \in TicketIds,
         NEW stage \in Stages, NEW result \in Pending, Move(w, j, stage, result),
         tickets' = tickets
  PROVE  /\ \A i \in TicketIds \ {j} : NoLlmNews(i)
         /\ (stage = "llm" \/ (stage = "store" /\ result.ai_used) => FromLlm(j))
              => NoLlmNews(j)
<1>1. /\ at'[w][j] = stage /\ pending'[w][j] = result
      /\ \A v \in Workers, i \in TicketIds : v # w \/ i # j => Kept(v, i)
  BY MoveFacts DEF Inv
<1>2. \A v \in Workers, i \in TicketIds :
        Kept(v, i) /\ JobFromLlm(v, i)' => FromLlm(i)
  BY DEF Kept, JobFromLlm, FromLlm
<1>3. \A i \in TicketIds :
        i \in DOMAIN tickets /\ tickets[i].status = "ready" /\ tickets[i].ai_used => FromLlm(i)
  BY DEF FromLlm
<1>4. ASSUME NEW i \in TicketIds \ {j} PROVE NoLlmNews(i)
  BY <1>1, <1>2, <1>3, CalmNews
<1>5. ASSUME stage = "llm" \/ (stage = "store" /\ result.ai_used) => FromLlm(j)
      PROVE  NoLlmNews(j)
  <2>1. JobFromLlm(w, j)' => FromLlm(j)
    BY <1>1, <1>5 DEF JobFromLlm
  <2> QED
    BY <1>1, <1>2, <1>3, <2>1, CalmNews
<1> QED
  BY <1>4, <1>5

LEMMA JobNews ==
  ASSUME Inv, Inv', NEW w \in Workers, NEW j \in TicketIds,
         \/ ReuseAnswer(w, j) \/ MatchKeyword(w, j) \/ LlmAnswers(w, j) \/ LlmFails(w, j)
         \/ LoseJob(w, j) \/ (w \in Schedulers /\ LoseSession(w, j))
  PROVE  \A i \in TicketIds : NoLlmNews(i)
<1>1. /\ tickets' = tickets
      /\ \E stage \in {"idle", "store", "fail"}, result \in {pending'[w][j]} :
           /\ Move(w, j, stage, result)
           /\ stage = "store" /\ result.ai_used => at[w][j] = "llm"
  <2>1. ASSUME NEW stage, NEW result, Move(w, j, stage, result)
        PROVE  result = pending'[w][j]
    BY <2>1 DEF Move, Inv, TypeOK
  <2>2. CASE LlmAnswers(w, j) \/ LlmFails(w, j)
    BY <2>1, <2>2 DEF LlmAnswers, LlmFails
  <2>3. CASE ReuseAnswer(w, j)
    BY <2>1, <2>3 DEF ReuseAnswer
  <2>4. CASE MatchKeyword(w, j)
    BY <2>1, <2>4 DEF MatchKeyword
  <2>5. CASE LoseJob(w, j) \/ LoseSession(w, j)
    BY <2>1, <2>5 DEF LoseJob, LoseSession, EndJob
  <2> QED
    BY <2>2, <2>3, <2>4, <2>5
<1>2. PICK stage \in {"idle", "store", "fail"}, result \in {pending'[w][j]} :
        /\ Move(w, j, stage, result)
        /\ stage = "store" /\ result.ai_used => at[w][j] = "llm"
  BY <1>1
<1>3. stage \in Stages /\ result \in Pending
  BY DEF Inv, TypeOK, Stages
<1>4. stage = "llm" \/ (stage = "store" /\ result.ai_used) => FromLlm(j)
  BY <1>2 DEF FromLlm, JobFromLlm
<1> QED
  BY <1>1, <1>2, <1>3, <1>4, MoveNews

LEMMA StoreNews ==
  ASSUME Inv, NEW w \in Workers, NEW j \in TicketIds, StoreReady(w, j) \/ StoreFailed(w, j)
  PROVE  \A i \in TicketIds : NoLlmNews(i)
<1> SUFFICES ASSUME NEW i \in TicketIds PROVE NoLlmNews(i)
  OBVIOUS
<1>1. /\ TypeOK /\ IsTable(tickets) /\ EndJob(w, j) /\ j \in DOMAIN tickets
      /\ "idle" \in Stages /\ NoResult \in Pending
  BY TypedTable DEF Inv, StoreReady, StoreFailed, TypeOK, Live, Stages, Pending
<1>2. \A v \in Workers : JobFromLlm(v, i)' => FromLlm(i)
  <2>1. \A v \in Workers : Kept(v, i) \/ at'[v][i] = "idle"
    BY <1>1, MoveFacts DEF EndJob
  <2> QED
    BY <2>1 DEF JobFromLlm, FromLlm, Kept
<1>3. /\ UpdatesOnly(tickets, tickets', {j})
      /\ tickets'[j].status = "ready" /\ tickets'[j].ai_used => FromLlm(j)
  <2>1. CASE StoreReady(w, j)
    <3>1. pending[w][j] \in Results
      BY <2>1 DEF Inv, StageFits, StoreReady
    <3> QED
      BY <1>1, <2>1, <3>1, MarkReadyFacts DEF StoreReady, FromLlm, JobFromLlm
  <2>2. CASE StoreFailed(w, j)
    BY <1>1, <2>2, MarkFailedFacts DEF StoreFailed
  <2> QED
    BY <2>1, <2>2
<1>4. i \in DOMAIN tickets' /\ tickets'[i].status = "ready" /\ tickets'[i].ai_used
        => FromLlm(i)
  BY <1>3 DEF UpdatesOnly, FromLlm
<1> QED
  BY <1>2, <1>3, <1>4, CalmNews DEF UpdatesOnly

LEMMA DraftNews ==
  ASSUME Inv, NEW d \in inserting, CommitDraft(d)
  PROVE  \A i \in TicketIds : NoLlmNews(i)
<1> SUFFICES ASSUME NEW i \in TicketIds PROVE NoLlmNews(i)
  OBVIOUS
<1>1. /\ d.id \in TicketIds \ DOMAIN tickets
      /\ DOMAIN tickets' = DOMAIN tickets \cup {d.id}
      /\ tickets'[d.id] = NewRow(d.text, "draft")
      /\ \A j \in DOMAIN tickets : tickets'[j] = tickets[j]
      /\ at' = at /\ pending' = pending
  BY DEF Inv, TypeOK, Drafts, CommitDraft, Insert
<1>2. CASE i # d.id
  BY <1>1, <1>2 DEF NoLlmNews, FromLlm, JobFromLlm
<1>3. CASE i = d.id
  <2>1. \A w \in Workers : at'[w][i] = "idle"
    BY <1>1, <1>3 DEF Inv, TypeOK, Live
  <2> QED
    BY <1>1, <1>3, <2>1 DEF NoLlmNews, FromLlm, JobFromLlm, NewRow
<1> QED
  BY <1>2, <1>3

LEMMA AnalyzeNews ==
  ASSUME Inv, NEW h \in Handlers, NEW t \in Texts, Analyze(h, t)
  PROVE  \A i \in TicketIds : NoLlmNews(i)
<1> SUFFICES ASSUME NEW i \in TicketIds PROVE NoLlmNews(i)
  OBVIOUS
<1>1. /\ nextId \in TicketIds \ DOMAIN tickets
      /\ DOMAIN tickets' = DOMAIN tickets \cup {nextId}
      /\ tickets'[nextId] = NewRow(t, "processing")
      /\ \A j \in DOMAIN tickets : tickets'[j] = tickets[j]
  BY DEF Inv, TypeOK, Analyze, Insert
<1>2. /\ h \in Workers
      /\ \A v \in Workers \ {h} : Kept(v, i)
      /\ i # nextId => at'[h][i] = "idle"
  BY DEF Analyze, StartJobs, Inv, TypeOK, Workers, Kept
<1>3. CASE i # nextId
  BY <1>1, <1>2, <1>3 DEF NoLlmNews, FromLlm, JobFromLlm, Kept
<1>4. CASE i = nextId
  <2>1. \A v \in Workers \ {h} : at'[v][i] = "idle"
    BY <1>1, <1>2, <1>4 DEF Inv, TypeOK, Live, Kept
  <2>2. at'[h][i] = Enter(t) /\ pending'[h][i] = Carry(t)
    BY <1>1, <1>2, <1>4 DEF Analyze, StartJobs, Inv, TypeOK, NewRow
  <2>3. \A v \in Workers : ~JobFromLlm(v, i)'
    BY <2>1, <2>2, EnterCarry DEF JobFromLlm
  <2> QED
    BY <1>1, <1>4, <2>3 DEF NoLlmNews, FromLlm, NewRow
<1> QED
  BY <1>3, <1>4

LEMMA ClaimNews ==
  ASSUME Inv, NEW s \in Schedulers, Claim(s)
  PROVE  \A i \in TicketIds : NoLlmNews(i)
<1> SUFFICES ASSUME NEW i \in TicketIds PROVE NoLlmNews(i)
  OBVIOUS
<1>1. TypeOK /\ IsTable(tickets) /\ s \in Workers
  BY TypedTable DEF Inv, Workers
<1>2. PICK L \in SUBSET MaybeLocked :
        \E S \in ClaimBatches(tickets, LockedByOrphans \cup L, BatchSize) :
          tickets' = ClaimRows(tickets, S) /\ StartJobs(s, S, tickets)
  BY DEF Claim
<1>3. PICK S \in ClaimBatches(tickets, LockedByOrphans \cup L, BatchSize) :
        tickets' = ClaimRows(tickets, S) /\ StartJobs(s, S, tickets)
  BY <1>2
<1>4. S \in SUBSET DOMAIN tickets
  BY ClaimBatchFacts
<1>5. /\ UpdatesOnly(tickets, tickets', S)
      /\ \A j \in S : tickets'[j].status = "processing"
  BY <1>1, <1>3, <1>4, ClaimRowsFacts
<1>6. \A w \in Workers : JobFromLlm(w, i)' => FromLlm(i)
  <2>1. \A w \in Workers \ {s} : Kept(w, i)
    BY <1>1, <1>3, <1>4, StartFacts
  <2>2. ~JobFromLlm(s, i)'
    <3>1. CASE i \in S
      <4>1. tickets[i].text \in Texts
        BY <1>1, <1>4, <3>1 DEF IsTable, Rows
      <4>2. at'[s][i] = Enter(tickets[i].text) /\ pending'[s][i] = Carry(tickets[i].text)
        BY <1>1, <1>3, <1>4, <3>1, StartFacts
      <4> QED
        BY <4>1, <4>2, EnterCarry DEF JobFromLlm
    <3>2. CASE i \notin S
      <4>1. at'[s][i] = "idle"
        BY <1>1, <1>3, <1>4, <3>2, StartFacts
      <4> QED
        BY <4>1 DEF JobFromLlm
    <3> QED
      BY <3>1, <3>2
  <2> QED
    BY <2>1, <2>2 DEF JobFromLlm, FromLlm, Kept
<1>7. i \in DOMAIN tickets' /\ tickets'[i].status = "ready" /\ tickets'[i].ai_used
        => FromLlm(i)
  BY <1>4, <1>5 DEF UpdatesOnly, FromLlm
<1> QED
  BY <1>5, <1>6, <1>7, CalmNews DEF UpdatesOnly

LEMMA OtherNews ==
  ASSUME Inv, NEW i \in TicketIds,
         \/ UNCHANGED <<tickets, at, pending>>
         \/ Tick
         \/ \E p \in Processes : Crash(p)
         \/ \E j \in DOMAIN tickets : Revive(j)
  PROVE  NoLlmNews(i)
<1>1. TypeOK
  BY DEF Inv
<1>2. CASE UNCHANGED <<tickets, at, pending>>
  BY <1>2 DEF NoLlmNews, FromLlm, JobFromLlm
<1>3. CASE Tick
  <2>1. /\ DOMAIN tickets' = DOMAIN tickets /\ at' = at /\ pending' = pending
        /\ \A j \in DOMAIN tickets : /\ tickets'[j].status = tickets[j].status
                                     /\ tickets'[j].ai_used = tickets[j].ai_used
                                     /\ tickets'[j].text = tickets[j].text
    BY <1>1, <1>3 DEF Tick, TypeOK, Rows
  <2> QED
    BY <2>1 DEF NoLlmNews, FromLlm, JobFromLlm
<1>4. ASSUME NEW p \in Processes, Crash(p) PROVE NoLlmNews(i)
  <2>1. /\ tickets' = tickets
        /\ \A w \in Workers : Kept(w, i) \/ at'[w][i] = "idle"
    BY <1>1, <1>4 DEF Crash, Kept, TypeOK
  <2> QED
    BY <2>1 DEF NoLlmNews, FromLlm, JobFromLlm, Kept
<1>5. ASSUME NEW j \in DOMAIN tickets, Revive(j) PROVE NoLlmNews(i)
  <2>1. /\ DOMAIN tickets' = DOMAIN tickets /\ at' = at /\ pending' = pending
        /\ tickets'[j].status = "failed" /\ tickets'[j].text = tickets[j].text
        /\ \A k \in DOMAIN tickets \ {j} : tickets'[k] = tickets[k]
    <3>1. tickets[j] \in Rows
      BY <1>1 DEF TypeOK
    <3> QED
      BY <1>5, <3>1 DEF Revive, Rows
  <2> QED
    BY <2>1 DEF NoLlmNews, FromLlm, JobFromLlm
<1> QED
  BY <1>2, <1>3, <1>4, <1>5

\* The LLM is asked about a new ticket of text t only when no ticket of t is
\* ready: then all those that have to do with the LLM are under way.
LEMMA AskStep ==
  ASSUME Inv, NEW w \in Workers, NEW j \in TicketIds, AskLlm(w, j), NEW t \in Texts
  PROVE  \/ UsesLlm(t)' \subseteq UsesLlm(t)
         \/ \A i \in UsesLlm(t)' : i \in TicketIds /\ \E v \in Workers : at'[v][i] # "idle"
<1>1. /\ TypeOK /\ IsTable(tickets) /\ tickets' = tickets
      /\ Move(w, j, "llm", NoResult) /\ "llm" \in Stages /\ NoResult \in Pending
  BY TypedTable DEF Inv, AskLlm, Stages, Pending
<1>2. \A i \in TicketIds \ {j} : NoLlmNews(i)
  BY <1>1, MoveNews
<1>3. CASE tickets[j].text # t
  <2>1. \A i \in DOMAIN tickets : i \in TicketIds
    BY <1>1 DEF IsTable
  <2> QED
    BY <1>1, <1>2, <1>3, <2>1 DEF UsesLlm, NoLlmNews
<1>4. CASE tickets[j].text = t
  <2>1. \A i \in DOMAIN tickets : tickets[i].status = "ready" => tickets[i].text # t
    BY <1>1, <1>4, LookupMissesNothing DEF AskLlm, Duplicates
  <2>2. \A i \in UsesLlm(t)' : \E v \in Workers : JobFromLlm(v, i)'
    BY <1>1, <2>1 DEF UsesLlm, FromLlm
  <2> QED
    BY <1>1, <2>2 DEF UsesLlm, JobFromLlm, IsTable
<1> QED
  BY <1>3, <1>4

DuplicatesInv ==
  /\ Inv
  /\ FewJobs
  /\ \A t \in Texts : Cardinality(UsesLlm(t)) <= JobLimit

LEMMA InitDuplicates ==
  ASSUME IsFiniteSet(Handlers), IsFiniteSet(Schedulers), Init
  PROVE  DuplicatesInv
<1>1. JobLimit \in Nat /\ BatchSize \in Nat /\ Cardinality({}) = 0
  BY JobLimitType, FS_EmptySet, PipelineAssumption
<1>2. \A w \in Workers : JobsOf(w) = {}
  BY DEF Init, JobsOf
<1>3. FewJobs
  BY <1>1, <1>2 DEF FewJobs, Workers
<1>4. \A t \in Texts : UsesLlm(t) = {}
  BY DEF Init, EmptyTable, UsesLlm
<1> QED
  BY <1>1, <1>3, <1>4, InitInv DEF DuplicatesInv

LEMMA NextDuplicates ==
  ASSUME IsFiniteSet(Handlers), IsFiniteSet(Schedulers), DuplicatesInv, [Next]_vars
  PROVE  DuplicatesInv'
<1>1. Inv /\ Inv' /\ FewJobs /\ FewJobs'
  BY NextInv, FewJobsStep DEF DuplicatesInv
<1> SUFFICES ASSUME NEW t \in Texts PROVE Cardinality(UsesLlm(t)') <= JobLimit
  BY <1>1 DEF DuplicatesInv
<1>2. CASE UsesLlm(t)' \subseteq UsesLlm(t)
  <2>1. IsFiniteSet(UsesLlm(t))
    BY <1>1, UsesLlmFinite
  <2>2. /\ Cardinality(UsesLlm(t)') <= Cardinality(UsesLlm(t))
        /\ Cardinality(UsesLlm(t)') \in Nat /\ Cardinality(UsesLlm(t)) \in Nat
    BY <1>2, <2>1, NoMore
  <2>3. Cardinality(UsesLlm(t)) <= JobLimit
    BY DEF DuplicatesInv
  <2>4. JobLimit \in Nat
    BY JobLimitType
  <2> QED
    BY <2>2, <2>3, <2>4
<1>3. CASE \A i \in UsesLlm(t)' : i \in TicketIds /\ \E v \in Workers : at'[v][i] # "idle"
  <2> DEFINE J == [w \in Workers |-> JobsOf(w)']
  <2>1. /\ \A w \in Workers : J[w] \subseteq TicketIds
        /\ UsesLlm(t)' \subseteq UNION {J[w] : w \in Workers}
    BY <1>3 DEF JobsOf
  <2>2. /\ \A h \in Handlers : \A i, j \in J[h] : i = j
        /\ \A s \in Schedulers : Cardinality(J[s]) <= BatchSize
    BY <1>1 DEF FewJobs, Workers
  <2> HIDE DEF J
  <2> QED
    BY <2>1, <2>2, SeatsForAll
<1>4. ASSUME \A i \in TicketIds : NoLlmNews(i) PROVE UsesLlm(t)' \subseteq UsesLlm(t)
  BY <1>1, <1>4 DEF UsesLlm, NoLlmNews, Inv, TypeOK
<1>5. CASE \E w \in Workers, j \in TicketIds : AskLlm(w, j)
  BY <1>1, <1>2, <1>3, <1>5, AskStep
<1>6. CASE \/ UNCHANGED <<tickets, at, pending>>
           \/ Tick
           \/ \E p \in Processes : Crash(p)
           \/ \E j \in DOMAIN tickets : Revive(j)
  BY <1>1, <1>2, <1>4, <1>6, OtherNews
<1>7. CASE \/ \E d \in inserting : CommitDraft(d)
           \/ \E h \in Handlers, u \in Texts : Analyze(h, u)
           \/ \E s \in Schedulers : Claim(s)
  BY <1>1, <1>2, <1>4, <1>7, DraftNews, AnalyzeNews, ClaimNews
<1>8. ASSUME NEW w \in Workers, NEW j \in TicketIds,
             \/ JobStep(w, j) /\ ~AskLlm(w, j)
             \/ LoseJob(w, j) \/ (w \in Schedulers /\ LoseSession(w, j))
      PROVE  Cardinality(UsesLlm(t)') <= JobLimit
  BY <1>1, <1>2, <1>4, <1>8, JobNews, StoreNews DEF JobStep
<1>9. Schedulers \subseteq Workers
  BY DEF Workers
<1> QED
  BY <1>5, <1>6, <1>7, <1>8, <1>9
     DEF Next, vars, CreateDraft, AbortDraft, CollectOrphan

LEMMA FewDuplicates ==
  ASSUME IsFiniteSet(Handlers), IsFiniteSet(Schedulers), DuplicatesInv
  PROVE  DuplicatesBounded
<1> SUFFICES ASSUME NEW t \in Texts
             PROVE  Cardinality({i \in DOMAIN tickets : /\ tickets[i].text = t
                                                       /\ tickets[i].status = "ready"
                                                       /\ tickets[i].ai_used}) <= JobLimit
  BY DEF DuplicatesBounded, JobLimit
<1> DEFINE Answered == {i \in DOMAIN tickets : /\ tickets[i].text = t
                                               /\ tickets[i].status = "ready"
                                               /\ tickets[i].ai_used}
<1>1. IsFiniteSet(UsesLlm(t)) /\ Cardinality(UsesLlm(t)) <= JobLimit
  BY UsesLlmFinite DEF DuplicatesInv
<1>2. Answered \subseteq UsesLlm(t)
  BY DEF UsesLlm, FromLlm
<1>3. /\ Cardinality(Answered) <= Cardinality(UsesLlm(t))
      /\ Cardinality(Answered) \in Nat /\ Cardinality(UsesLlm(t)) \in Nat
  BY <1>1, <1>2, NoMore
<1>4. JobLimit \in Nat
  BY JobLimitType
<1> QED
  BY <1>1, <1>3, <1>4

\* Whatever the timing, _check_duplicate lets the LLM answer for no more tickets
\* of one text than there are jobs that can be under way at a time: a request
\* each, and a batch for each scheduler.
THEOREM DuplicatesBoundedHolds ==
  ASSUME IsFiniteSet(Handlers), IsFiniteSet(Schedulers)
  PROVE  Spec => []DuplicatesBounded
<1>1. Init => DuplicatesInv
  BY InitDuplicates
<1>2. DuplicatesInv /\ [Next]_vars => DuplicatesInv'
  BY NextDuplicates
<1>3. DuplicatesInv => DuplicatesBounded
  BY FewDuplicates
<1> QED
  BY <1>1, <1>2, <1>3, PTL DEF Spec
=============================================================================
