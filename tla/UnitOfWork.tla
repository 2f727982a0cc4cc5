----------------------------- MODULE UnitOfWork -----------------------------
(***************************************************************************)
(* One UnitOfWork object (app/uow.py), entered by several asyncio tasks.   *)
(* TicketSchedulerService.run gives every ticket of a batch the same       *)
(* TicketService, hence the same uow_factory, and that "factory" is a      *)
(* single UnitOfWork whose __aenter__ stores the new session in            *)
(* self.session.  A request handler has a UnitOfWork of its own: Tasks is  *)
(* a singleton for it.                                                     *)
(*                                                                         *)
(* A block is one "async with self.uow_factory as uow" of TicketService;   *)
(* it is named by its task and a number, and so is the session it opens.   *)
(* asyncio switches tasks only while a call to the database is under way:  *)
(* a step below is what runs between two such points.                      *)
(*                                                                         *)
(* The session is SQLAlchemy's, known from its use here.  A call that      *)
(* finds another one under way on the session it acts on is refused, and   *)
(* both the transaction and the other call are in doubt from then on: the  *)
(* session is spoiled, and every outcome of a later call is possible.      *)
(***************************************************************************)
EXTENDS Integers

CONSTANTS
  Tasks,      \* the tasks that share the UnitOfWork
  MaxBlocks   \* bound: how many blocks each task runs, one after the other

ASSUME UnitOfWorkAssumption == MaxBlocks \in [Tasks -> Nat]

Blocks == UNION {{t} \X (1 .. MaxBlocks[t]) : t \in Tasks}

(* read:  _check_duplicate that finds no match                             *)
(* write: one UPDATE through the repository that __aenter__ attached       *)
(* copy:  _check_duplicate with a match: a SELECT, then an UPDATE through  *)
(*        uow.ticket_repository, read again from the shared object         *)
Kinds == {"read", "write", "copy"}

Stages == {"out", "select", "update", "commit", "rollback", "close"}

None == <<"none", 0>>

VARIABLES
  current,    \* self.session, and the repository attached to it
  at,         \* at[t]: the call the task is waiting for
  using,      \* using[t]: the session that call acts on
  count,      \* how many blocks each task has entered
  kind,       \* what each block does
  failing,    \* tasks whose last block met an exception
  connected,  \* sessions that hold a connection of the pool
  dirty,      \* <<s, b>>: the UPDATE of block b is uncommitted in session s
  spoiled,    \* sessions two calls have collided on
  saved,      \* blocks whose UPDATE is committed
  ended,      \* how each block ended: "no", "returned" or "raised"
  overlapped  \* history: blocks inside which another task was, too

vars == <<current, at, using, count, kind, failing, connected, dirty, spoiled,
          saved, ended, overlapped>>

Block(t) == <<t, count[t]>>

Inside == {t \in Tasks : at[t] # "out"}

Init ==
  /\ current = None
  /\ at = [t \in Tasks |-> "out"]
  /\ using = [t \in Tasks |-> None]
  /\ count = [t \in Tasks |-> 0]
  /\ kind = [b \in Blocks |-> "read"]
  /\ failing = {}
  /\ connected = {}
  /\ dirty = {}
  /\ spoiled = {}
  /\ saved = {}
  /\ ended = [b \in Blocks |-> "no"]
  /\ overlapped = {}

-----------------------------------------------------------------------------
(* Calls to a session *)

CurrentBusy(t) == \E u \in Tasks \ {t} : using[u] = current

\* The task begins a call on the session and waits for it.
Wait(t, call, s) ==
  /\ at' = [at EXCEPT ![t] = call]
  /\ using' = [using EXCEPT ![t] = s]

Mut_LeaveHoldsSession(t, how) ==
  /\ at' = [at EXCEPT ![t] = "out"]
  /\ UNCHANGED using
  /\ ended' = [ended EXCEPT ![Block(t)] = how]

Leave(t, how) ==
  /\ Wait(t, "out", None)
  /\ ended' = [ended EXCEPT ![Block(t)] = how]

\* self.commit(), self.rollback() or self.session.close(): on the session
\* the shared object has now.  When it is refused, so are the calls that
\* __aexit__ still has to make on the same session, and the block is over.
\* Only a close() may be refused silently, by the pool, which logs it.
CallCurrent(t, call) ==
  \/ /\ ~CurrentBusy(t)
     /\ Wait(t, call, current)
     /\ UNCHANGED <<spoiled, ended>>
  \/ /\ CurrentBusy(t)
     /\ spoiled' = spoiled \cup {current}
     /\ \/ Leave(t, "raised")
        \/ call = "close" /\ t \notin failing' /\ Leave(t, "returned")

Uncommitted(s) == {b \in Blocks : <<s, b>> \in dirty}

WithoutSession(s) == {d \in dirty : d[1] # s}

-----------------------------------------------------------------------------
(* The body of a block *)

Mut_EnterKeepsSession(t, k) ==
  LET b == <<t, count[t] + 1>>
  IN  /\ at[t] = "out"
      /\ count[t] < MaxBlocks[t]
      /\ count' = [count EXCEPT ![t] = @ + 1]
      /\ kind' = [kind EXCEPT ![b] = k]
      /\ Wait(t, IF k = "write" THEN "update" ELSE "select", b)
      /\ connected' = connected \cup {b}
      /\ overlapped' = IF Inside = {} THEN overlapped
                       ELSE overlapped \cup {b} \cup {Block(u) : u \in Inside}
      /\ failing' = failing \ {t}
      /\ UNCHANGED <<current, dirty, spoiled, saved, ended>>

\* __aenter__, and the first statement of the block.
Enter(t, k) ==
  LET b == <<t, count[t] + 1>>
  IN  /\ at[t] = "out"
      /\ count[t] < MaxBlocks[t]
      /\ count' = [count EXCEPT ![t] = @ + 1]
      /\ kind' = [kind EXCEPT ![b] = k]
      /\ current' = b
      /\ Wait(t, IF k = "write" THEN "update" ELSE "select", b)
      /\ connected' = connected \cup {b}
      /\ overlapped' = IF Inside = {} THEN overlapped
                       ELSE overlapped \cup {b} \cup {Block(u) : u \in Inside}
      /\ failing' = failing \ {t}
      /\ UNCHANGED <<dirty, spoiled, saved, ended>>

\* No match: the block is left, and __aexit__ commits.
FindNothing(t) ==
  /\ at[t] = "select"
  /\ kind[Block(t)] = "read"
  /\ UNCHANGED failing
  /\ CallCurrent(t, "commit")
  /\ UNCHANGED <<current, count, kind, connected, dirty, saved, overlapped>>

\* A match: uow.ticket_repository.mark_ready, ticket_service.py:137.
FindMatch(t) ==
  /\ at[t] = "select"
  /\ kind[Block(t)] = "copy"
  /\ Wait(t, "update", current)
  /\ connected' = connected \cup {current}
  /\ spoiled' = IF CurrentBusy(t) THEN spoiled \cup {current} ELSE spoiled
  /\ UNCHANGED <<current, count, kind, failing, dirty, saved, ended, overlapped>>

Updated(t) ==
  /\ at[t] = "update"
  /\ dirty' = dirty \cup {<<using[t], Block(t)>>}
  /\ UNCHANGED failing
  /\ CallCurrent(t, "commit")
  /\ connected' = connected \cup {using[t]}
  /\ UNCHANGED <<current, count, kind, saved, overlapped>>

\* The statement fails: __aexit__ is given the exception.
StatementFails(t) ==
  /\ at[t] \in {"select", "update"}
  /\ failing' = failing \cup {t}
  /\ CallCurrent(t, "rollback")
  /\ UNCHANGED <<current, count, kind, connected, dirty, saved, overlapped>>

-----------------------------------------------------------------------------
(* __aexit__ *)

Mut_CommittedWithoutClose(t) ==
  LET s == using[t]
  IN  /\ at[t] = "commit"
      /\ saved' = saved \cup Uncommitted(s)
      /\ dirty' = WithoutSession(s)
      /\ Leave(t, "returned")
      /\ UNCHANGED <<current, count, kind, failing, connected, spoiled, overlapped>>

Committed(t) ==
  LET s == using[t]
  IN  /\ at[t] = "commit"
      /\ \/ saved' = saved \cup Uncommitted(s)
         \/ s \in spoiled /\ saved' = saved
      /\ dirty' = WithoutSession(s)
      /\ UNCHANGED failing
      /\ CallCurrent(t, "close")
      /\ UNCHANGED <<current, count, kind, connected, overlapped>>

\* The answer to COMMIT may be lost after the server has obeyed it.
CommitFails(t) ==
  LET s == using[t]
  IN  /\ at[t] = "commit"
      /\ \E B \in {{}, Uncommitted(s)} : saved' = saved \cup B
      /\ dirty' = WithoutSession(s)
      /\ failing' = failing \cup {t}
      /\ CallCurrent(t, "rollback")
      /\ UNCHANGED <<current, count, kind, connected, overlapped>>

RolledBack(t) ==
  /\ at[t] = "rollback"
  /\ dirty' = WithoutSession(using[t])
  /\ UNCHANGED failing
  /\ CallCurrent(t, "close")
  /\ UNCHANGED <<current, count, kind, connected, saved, overlapped>>

Closed(t) ==
  /\ at[t] = "close"
  /\ dirty' = WithoutSession(using[t])
  /\ connected' = connected \ {using[t]}
  /\ Leave(t, IF t \in failing THEN "raised" ELSE "returned")
  /\ UNCHANGED <<current, count, kind, failing, spoiled, saved, overlapped>>

-----------------------------------------------------------------------------
\* The garbage collector reaches a session nobody refers to any more: its
\* transaction is rolled back with its connection.
Collect(s) ==
  /\ s \in connected
  /\ ended[s] # "no"
  /\ \A t \in Tasks : using[t] # s
  /\ current = s => Inside = {}
  /\ connected' = connected \ {s}
  /\ dirty' = WithoutSession(s)
  /\ UNCHANGED <<current, at, using, count, kind, failing, spoiled, saved,
                 ended, overlapped>>

Proceed(t) ==
  \/ FindNothing(t)
  \/ FindMatch(t)
  \/ Updated(t)
  \/ StatementFails(t)
  \/ Committed(t)
  \/ CommitFails(t)
  \/ RolledBack(t)
  \/ Closed(t)

Next ==
  \/ \E t \in Tasks, k \in Kinds : Enter(t, k)
  \/ \E t \in Tasks : Proceed(t)
  \/ \E s \in connected : Collect(s)

Spec == Init /\ [][Next]_vars

\* Every call to the database ends, and so does every reference to a session.
FairSpec ==
  /\ Spec
  /\ \A t \in Tasks : WF_vars(Proceed(t))
  /\ WF_vars(\E s \in connected : Collect(s))

-----------------------------------------------------------------------------
(* Properties *)

\* Every variable has its type, and a task is inside a block exactly while it
\* waits for a call on a session.
TypeOK ==
  /\ current \in Blocks \cup {None}
  /\ at \in [Tasks -> Stages]
  /\ using \in [Tasks -> Blocks \cup {None}]
  /\ count \in [Tasks -> Nat]
  /\ \A t \in Tasks : count[t] <= MaxBlocks[t]
  /\ kind \in [Blocks -> Kinds]
  /\ failing \subseteq Tasks
  /\ connected \subseteq Blocks
  /\ dirty \subseteq Blocks \X Blocks
  /\ spoiled \subseteq Blocks
  /\ saved \subseteq Blocks
  /\ ended \in [Blocks -> {"no", "returned", "raised"}]
  /\ overlapped \subseteq Blocks
  /\ \A t \in Tasks : at[t] = "out" <=> using[t] = None

\* What the docstring of __aexit__ promises (uow.py:28) of a block: "Commit
\* on success ... always closing the session".
CommitsOnSuccess(b) ==
  ended[b] = "returned" /\ kind[b] # "read" => b \in saved

AlwaysCloses(b) == ended[b] # "no" => b \notin connected

\* A block that was alone inside the UnitOfWork keeps the promise whatever
\* fails, and whatever overlapping blocks did before it: this is the use
\* every request handler makes of it.
AloneKeepsPromise ==
  \A b \in Blocks \ overlapped : CommitsOnSuccess(b) /\ AlwaysCloses(b)

\* Even when blocks overlap, every connection is given back in the end.
ConnectionsReturn == \A s \in Blocks : s \in connected ~> s \notin connected

\* uow.py:28, of every block, were it only where no two calls ever met on a
\* session: what returned is committed.
ReturnedIsSaved == spoiled = {} => \A b \in Blocks : CommitsOnSuccess(b)
=============================================================================
