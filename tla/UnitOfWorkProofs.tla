-------------------------- MODULE UnitOfWorkProofs --------------------------
(***************************************************************************)
(* A block that is alone inside the UnitOfWork commits what it returns and *)
(* closes its session, for any number of tasks and blocks.                 *)
(***************************************************************************)
EXTENDS UnitOfWork, TLAPS

\* Sessions that exist: everything recorded about a session is about one of
\* them, so a block starts with a session nothing has happened to.
Entered == {b \in Blocks : b[2] <= count[b[1]]}

Fresh ==
  /\ current \in Entered \cup {None}
  /\ spoiled \subseteq Entered
  /\ overlapped \subseteq Entered
  /\ \A b \in Blocks : ended[b] # "no" => b \in Entered

\* A task inside a block acts on its own session or on an overlapped one.
ActsOn(t) ==
  at[t] # "out" =>
    /\ count[t] \in 1 .. MaxBlocks[t]
    /\ ended[Block(t)] = "no"
    /\ current = Block(t) \/ current \in overlapped
    /\ using[t] = Block(t) \/ using[t] \in overlapped

\* A task alone inside has the UnitOfWork to itself, and its UPDATE is where
\* its commit will find it.
Private(t) ==
  at[t] # "out" /\ Block(t) \notin overlapped =>
    /\ \A u \in Tasks \ {t} : at[u] = "out"
    /\ current = Block(t)
    /\ using[t] = Block(t)
    /\ Block(t) \notin spoiled
    /\ at[t] = "commit" /\ kind[Block(t)] # "read"
         => <<Block(t), Block(t)>> \in dirty
    /\ at[t] = "rollback" => t \in failing
    /\ at[t] = "close" /\ kind[Block(t)] # "read" /\ t \notin failing
         => Block(t) \in saved

Inv ==
  /\ TypeOK
  /\ Fresh
  /\ \A t \in Tasks : ActsOn(t) /\ Private(t)
  /\ AloneKeepsPromise

\* A block is a task and a number that the task may reach.
LEMMA BlockOf ==
  /\ \A b \in Blocks : /\ b = <<b[1], b[2]>>
                      /\ b[1] \in Tasks
                      /\ b[2] \in 1 .. MaxBlocks[b[1]]
  /\ \A t \in Tasks : \A n \in 1 .. MaxBlocks[t] : <<t, n>> \in Blocks
  /\ \A t \in Tasks : MaxBlocks[t] \in Nat
  BY UnitOfWorkAssumption DEF Blocks

LEMMA InitInv == Init => Inv
<1> SUFFICES ASSUME Init PROVE Inv
  OBVIOUS
<1>1. \A t \in Tasks : MaxBlocks[t] \in Nat
  BY BlockOf
<1>2. TypeOK
  BY <1>1 DEF Init, TypeOK, None, Kinds, Stages
<1> QED
  BY <1>2 DEF Init, Inv, Fresh, ActsOn, Private, AloneKeepsPromise,
              CommitsOnSuccess, AlwaysCloses

LEMMA NoneIsNoBlock == None \notin Blocks
  BY UnitOfWorkAssumption DEF None, Blocks

LEMMA OwnBlock ==
  ASSUME NEW t \in Tasks, at[t] # "out", ActsOn(t), TypeOK
  PROVE  Block(t) \in Blocks /\ current \in Blocks /\ using[t] \in Blocks
  BY DEF ActsOn, Block, Blocks, TypeOK

LEMMA BlocksDiffer ==
  ASSUME NEW t \in Tasks, NEW u \in Tasks, t # u
  PROVE  Block(t) # Block(u)
  BY DEF Block

\* What a step of a task inside a block does to the parts of the state that
\* tell who is where: the task goes on to a call on the current session, or
\* leaves; a session is spoiled only if another task is using it.
Moved(t) ==
  /\ UNCHANGED <<current, count, kind, overlapped>>
  /\ at' \in [Tasks -> Stages]
  /\ using' \in [Tasks -> Blocks \cup {None}]
  /\ ended' \in [Blocks -> {"no", "returned", "raised"}]
  /\ \A u \in Tasks \ {t} : at'[u] = at[u] /\ using'[u] = using[u]
  /\ \A b \in Blocks \ {Block(t)} : ended'[b] = ended[b]
  /\ \/ at'[t] # "out" /\ using'[t] = current /\ ended' = ended
     \/ at'[t] = "out" /\ using'[t] = None /\ ended'[Block(t)] # "no"
  /\ spoiled' = spoiled \/ (CurrentBusy(t) /\ spoiled' = spoiled \cup {current})

LEMMA CallMoves ==
  ASSUME Inv, NEW t \in Tasks, at[t] # "out",
         NEW call \in {"commit", "rollback", "close"}, CallCurrent(t, call),
         UNCHANGED <<current, count, kind, overlapped>>
  PROVE  /\ Moved(t)
         /\ at'[t] \in {call, "out"}
         /\ at'[t] = "out" => CurrentBusy(t)
<1> USE DEF Stages
<1>1. TypeOK /\ ActsOn(t)
  BY DEF Inv
<1>2. Block(t) \in Blocks /\ current \in Blocks
  BY <1>1, OwnBlock
<1>3. CASE Wait(t, call, current) /\ ~CurrentBusy(t) /\ UNCHANGED <<spoiled, ended>>
  BY <1>1, <1>2, <1>3 DEF Wait, TypeOK, Moved
<1>4. CASE /\ CurrentBusy(t)
           /\ spoiled' = spoiled \cup {current}
           /\ \E how \in {"raised", "returned"} : Leave(t, how)
  BY <1>1, <1>2, <1>4 DEF Wait, Leave, TypeOK, Moved
<1> QED
  BY <1>3, <1>4 DEF CallCurrent

LEMMA ProceedMoves ==
  ASSUME Inv, NEW t \in Tasks, Proceed(t)
  PROVE  at[t] # "out" /\ Moved(t)
<1> USE DEF Stages
<1>1. TypeOK /\ ActsOn(t)
  BY DEF Inv
<1>2. at[t] # "out"
  BY DEF Proceed, FindNothing, FindMatch, Updated, StatementFails, Committed,
     CommitFails, RolledBack, Closed
<1>3. Block(t) \in Blocks /\ current \in Blocks
  BY <1>1, <1>2, OwnBlock
<1>4. CASE FindMatch(t)
  BY <1>1, <1>3, <1>4 DEF FindMatch, Wait, TypeOK, Moved
<1>5. CASE Closed(t)
  BY <1>1, <1>3, <1>5 DEF Closed, Leave, Wait, TypeOK, Moved
<1>6. CASE /\ \E call \in {"commit", "rollback", "close"} : CallCurrent(t, call)
           /\ UNCHANGED <<current, count, kind, overlapped>>
  BY <1>2, <1>6, CallMoves
<1> QED
  BY <1>2, <1>4, <1>5, <1>6
     DEF Proceed, FindNothing, Updated, StatementFails, Committed, CommitFails,
         RolledBack

LEMMA EnterStep ==
  ASSUME Inv, NEW t \in Tasks, NEW k \in Kinds, Enter(t, k)
  PROVE  Inv'
<1> DEFINE b == <<t, count[t] + 1>>
<1> USE UnitOfWorkAssumption
<1>1. TypeOK /\ Fresh
  BY DEF Inv
<1>2. /\ b \in Blocks \ Entered
      /\ count[t] \in Nat
      /\ count' = [count EXCEPT ![t] = count[t] + 1]
  BY <1>1 DEF Enter, TypeOK, Blocks, Entered
<1>3. \A u \in Tasks \ {t} : Block(u)' = Block(u)
  BY <1>1, <1>2 DEF Block, TypeOK
<1>4. \A u \in Tasks : at[u] # "out" => Block(u) \in Entered
  <2> SUFFICES ASSUME NEW u \in Tasks, at[u] # "out" PROVE Block(u) \in Entered
    OBVIOUS
  <2> QED
    BY <1>1, OwnBlock DEF Inv, Block, Entered, TypeOK
<1>5. TypeOK'
  <2>1. count' \in [Tasks -> Nat] /\ \A u \in Tasks : count'[u] <= MaxBlocks[u]
    BY <1>1, <1>2 DEF TypeOK, Enter
  <2>2. overlapped' \subseteq Blocks
    BY <1>1, <1>2, <1>4 DEF TypeOK, Enter, Inside, Entered
  <2>3. kind' \in [Blocks -> Kinds] /\ connected' \subseteq Blocks
    BY <1>1, <1>2 DEF TypeOK, Enter
  <2>4. /\ at' \in [Tasks -> Stages]
        /\ using' \in [Tasks -> Blocks \cup {None}]
        /\ \A u \in Tasks : at'[u] = "out" <=> using'[u] = None
    BY <1>1, <1>2, NoneIsNoBlock DEF TypeOK, Enter, Wait, Stages
  <2> QED
    BY <1>1, <1>2, <2>1, <2>2, <2>3, <2>4 DEF TypeOK, Enter
<1>6. Entered' = Entered \cup {b} /\ Block(t)' = b
  BY <1>1, <1>2 DEF TypeOK, Entered, Blocks, Block
<1>7. Fresh'
  BY <1>1, <1>2, <1>6, <1>4 DEF Enter, Wait, Fresh, Inside
<1>8. ASSUME NEW u \in Tasks PROVE ActsOn(u)' /\ Private(u)'
  <2>1. ActsOn(u) /\ Private(u)
    BY DEF Inv
  <2>2. CASE u = t
    <3>1. Block(u)' \notin overlapped' => \A v \in Tasks : at[v] = "out"
      BY <1>6, <2>2 DEF Enter, Inside
    <3>2. at'[u] \in {"select", "update"} /\ using'[u] = b /\ current' = b
      BY <1>1, <2>2 DEF Enter, Wait, TypeOK
    <3>3. \A v \in Tasks \ {u} : at'[v] = at[v]
      BY <1>1, <2>2 DEF Enter, Wait, TypeOK
    <3>4. Block(u)' = b /\ b \notin spoiled' /\ ended'[b] = "no"
      BY <1>1, <1>2, <1>6, <2>2 DEF Enter, Fresh
    <3>5. count'[u] \in 1 .. MaxBlocks[u]
      BY <1>1, <1>2, <2>2 DEF Enter, TypeOK
    <3> QED
      BY <3>1, <3>2, <3>3, <3>4, <3>5 DEF ActsOn, Private
  <2>3. CASE u # t /\ at[u] = "out"
    BY <1>1, <2>3 DEF ActsOn, Private, Enter, Wait, TypeOK
  <2>4. CASE u # t /\ at[u] # "out"
    <3>1. b \in overlapped' /\ Block(u) \in overlapped' /\ overlapped \subseteq overlapped'
      BY <2>4 DEF Enter, Inside
    <3>2. /\ Block(u)' = Block(u)
          /\ at'[u] = at[u] /\ using'[u] = using[u]
          /\ count'[u] = count[u] /\ ended' = ended /\ current' = b
      BY <1>1, <1>3, <2>4 DEF Enter, Wait, TypeOK
    <3> QED
      BY <2>1, <3>1, <3>2 DEF ActsOn, Private
  <2> QED
    BY <2>2, <2>3, <2>4
<1>9. AloneKeepsPromise'
  BY <1>1, <1>2, <1>5, <1>6 DEF Inv, Enter, AloneKeepsPromise, CommitsOnSuccess,
     AlwaysCloses, TypeOK, Fresh
<1> QED
  BY <1>5, <1>7, <1>8, <1>9 DEF Inv

LEMMA AloneActs ==
  ASSUME Inv, NEW t \in Tasks, at[t] # "out", Block(t) \notin overlapped
  PROVE  /\ current = Block(t)
         /\ using[t] = Block(t)
         /\ ~CurrentBusy(t)
<1>1. TypeOK /\ ActsOn(t) /\ Private(t)
  BY DEF Inv
<1>2. Block(t) \in Blocks /\ current = Block(t) /\ using[t] = Block(t)
  BY <1>1, OwnBlock DEF Private
<1>3. \A u \in Tasks \ {t} : using[u] = None
  BY <1>1 DEF Private, TypeOK
<1> QED
  BY <1>2, <1>3, NoneIsNoBlock DEF CurrentBusy

LEMMA ProceedStep ==
  ASSUME Inv, NEW t \in Tasks, Proceed(t)
  PROVE  Inv'
<1>1. TypeOK /\ Fresh /\ ActsOn(t) /\ Private(t)
  BY DEF Inv
<1>2. at[t] # "out" /\ Moved(t)
  BY ProceedMoves
<1>3. Block(t) \in Blocks /\ current \in Blocks /\ using[t] \in Blocks
  BY <1>1, <1>2, OwnBlock
<1>4. Block(t)' = Block(t) /\ Entered' = Entered
  BY <1>2 DEF Moved, Block, Entered
<1>5. TypeOK'
  <2>1. /\ failing' \subseteq Tasks
        /\ connected' \subseteq Blocks
        /\ dirty' \subseteq Blocks \X Blocks
        /\ saved' \subseteq Blocks
    <3>1. /\ failing' = failing \/ failing' = failing \cup {t}
          /\ connected' \in {connected, connected \cup {current},
                             connected \cup {using[t]}, connected \ {using[t]}}
          /\ dirty' \in {dirty, WithoutSession(using[t]),
                         dirty \cup {<<using[t], Block(t)>>}}
          /\ saved' = saved \/ saved' = saved \cup Uncommitted(using[t])
      BY DEF Proceed, FindNothing, FindMatch, Updated, StatementFails, Committed,
         CommitFails, RolledBack, Closed
    <3>2. Uncommitted(using[t]) \subseteq Blocks /\ WithoutSession(using[t]) \subseteq dirty
      BY DEF Uncommitted, WithoutSession
    <3> QED
      BY <1>1, <1>3, <3>1, <3>2 DEF TypeOK
  <2>2. \A u \in Tasks : at'[u] = "out" <=> using'[u] = None
    BY <1>1, <1>2, <1>3, NoneIsNoBlock DEF TypeOK, Moved
  <2>3. spoiled' \subseteq Blocks
    BY <1>1, <1>2, <1>3 DEF TypeOK, Moved
  <2> QED
    BY <1>1, <1>2, <2>1, <2>2, <2>3 DEF TypeOK, Moved
<1>6. Fresh'
  <2>1. Block(t) \in Entered /\ current \in Entered
    BY <1>1, <1>2, <1>3, NoneIsNoBlock DEF ActsOn, Block, Entered, Fresh, TypeOK
  <2> QED
    BY <1>1, <1>2, <1>4, <2>1 DEF Fresh, Moved
<1>7. ASSUME NEW u \in Tasks PROVE ActsOn(u)'
  <2>1. ActsOn(u)
    BY DEF Inv
  <2>2. Block(u)' = Block(u) /\ count'[u] = count[u]
    BY <1>2 DEF Moved, Block
  <2>3. CASE u = t
    BY <1>1, <1>2, <1>4, <2>2, <2>3 DEF ActsOn, Moved
  <2>4. CASE u # t
    <3>1. at[u] # "out" => Block(u) \in Blocks \ {Block(t)}
      BY <1>1, <2>1, <2>4, OwnBlock, BlocksDiffer
    <3> QED
      BY <1>2, <2>1, <2>2, <2>4, <3>1 DEF ActsOn, Moved
  <2> QED
    BY <2>3, <2>4
<1>8. ASSUME NEW u \in Tasks PROVE Private(u)'
  <2>1. CASE u # t
    <3>1. at[u] # "out" => Block(u) \in overlapped
      BY <1>2, <2>1 DEF Inv, Private
    <3> QED
      BY <1>2, <2>1, <3>1 DEF Private, Moved, Block
  <2>2. CASE u = t /\ Block(t) \in overlapped
    BY <1>2, <1>4, <2>2 DEF Private, Moved
  <2>3. CASE u = t /\ Block(t) \notin overlapped
    <3>1. using[t] = Block(t) /\ current = Block(t) /\ ~CurrentBusy(t)
      BY <1>2, <2>3, AloneActs
    <3>2. /\ \A v \in Tasks \ {t} : at'[v] = "out"
          /\ at'[t] # "out" => current' = Block(t) /\ using'[t] = Block(t)
          /\ Block(t) \notin spoiled'
          /\ kind' = kind
      BY <1>1, <1>2, <2>3, <3>1 DEF Private, Moved
    <3>3. at'[t] = "commit" /\ kind[Block(t)] # "read"
            => <<Block(t), Block(t)>> \in dirty'
      <4>1. at'[t] = "commit" => FindNothing(t) \/ Updated(t)
        BY <1>1, <3>1 DEF Proceed, FindMatch, StatementFails, Committed,
           CommitFails, RolledBack, Closed, CallCurrent, Leave, Wait, TypeOK
      <4> QED
        BY <3>1, <4>1 DEF FindNothing, Updated
    <3>4. at'[t] = "rollback" => t \in failing'
      BY <1>1, <3>1 DEF Proceed, FindNothing, FindMatch, Updated, StatementFails,
         Committed, CommitFails, RolledBack, Closed, CallCurrent, Leave, Wait, TypeOK
    <3>5. at'[t] = "close" /\ kind[Block(t)] # "read" /\ t \notin failing'
            => Block(t) \in saved'
      <4>1. at'[t] = "close" => Committed(t) \/ RolledBack(t)
        BY <1>1, <3>1 DEF Proceed, FindNothing, FindMatch, Updated, StatementFails,
           CommitFails, Closed, CallCurrent, Leave, Wait, TypeOK
      <4>2. CASE Committed(t)
        BY <1>1, <1>2, <1>3, <2>3, <3>1, <4>2 DEF Committed, Uncommitted, Private
      <4>3. CASE RolledBack(t)
        BY <1>1, <1>2, <2>3, <4>3 DEF RolledBack, Private
      <4> QED
        BY <4>1, <4>2, <4>3
    <3> QED
      BY <1>4, <2>3, <3>2, <3>3, <3>4, <3>5 DEF Private
  <2> QED
    BY <2>1, <2>2, <2>3
<1>9. AloneKeepsPromise'
  <2> SUFFICES ASSUME NEW b \in Blocks, b \notin overlapped, ended'[b] # "no"
               PROVE  /\ ended'[b] = "returned" /\ kind[b] # "read" => b \in saved'
                      /\ b \notin connected'
    BY <1>2 DEF AloneKeepsPromise, CommitsOnSuccess, AlwaysCloses, Moved
  <2>1. CASE b # Block(t)
    <3>1. ended[b] = ended'[b]
      BY <1>2, <2>1 DEF Moved
    <3>2. b # current /\ b # using[t]
      BY <1>1, <1>2, <2>1 DEF ActsOn
    <3>3. saved \subseteq saved' /\ (b \in connected' => b \in connected)
      BY <3>2 DEF Proceed, FindNothing, FindMatch, Updated, StatementFails,
         Committed, CommitFails, RolledBack, Closed
    <3> QED
      BY <3>1, <3>3 DEF Inv, AloneKeepsPromise, CommitsOnSuccess, AlwaysCloses
  <2>2. CASE b = Block(t)
    <3>1. using[t] = Block(t) /\ ~CurrentBusy(t)
      BY <1>2, <2>2, AloneActs
    <3>2. at'[t] = "out"
      BY <1>1, <1>2, <2>2 DEF ActsOn, Moved
    <3>3. Closed(t)
      BY <1>1, <3>1, <3>2 DEF Proceed, FindNothing, FindMatch, Updated,
         StatementFails, Committed, CommitFails, RolledBack, CallCurrent, Wait, TypeOK
    <3> QED
      BY <1>1, <1>2, <1>3, <2>2, <3>1, <3>3 DEF Closed, Leave, Wait, Private, TypeOK
  <2> QED
    BY <2>1, <2>2
<1> QED
  BY <1>5, <1>6, <1>7, <1>8, <1>9 DEF Inv

LEMMA CollectStep ==
  ASSUME Inv, NEW s \in connected, Collect(s)
  PROVE  Inv'
<1>1. TypeOK /\ Fresh
  BY DEF Inv
<1>2. /\ UNCHANGED <<current, at, using, count, kind, failing, spoiled, saved,
                     ended, overlapped>>
      /\ connected' = connected \ {s}
      /\ dirty' = {d \in dirty : d[1] # s}
      /\ \A t \in Tasks : using[t] # s
  BY DEF Collect, WithoutSession
<1>3. TypeOK' /\ Fresh'
  BY <1>1, <1>2 DEF TypeOK, Fresh, Entered
<1>4. ASSUME NEW t \in Tasks PROVE ActsOn(t)' /\ Private(t)'
  BY <1>2 DEF Inv, ActsOn, Private, Block
<1>5. AloneKeepsPromise'
  BY <1>2 DEF Inv, AloneKeepsPromise, CommitsOnSuccess, AlwaysCloses
<1> QED
  BY <1>3, <1>4, <1>5 DEF Inv

LEMMA NextInv == Inv /\ [Next]_vars => Inv'
<1> SUFFICES ASSUME Inv, [Next]_vars PROVE Inv'
  OBVIOUS
<1>1. CASE UNCHANGED vars
  BY <1>1 DEF vars, Inv, TypeOK, Fresh, Entered, ActsOn, Private, Block,
     AloneKeepsPromise, CommitsOnSuccess, AlwaysCloses
<1>2. CASE Next
  BY <1>2, EnterStep, ProceedStep, CollectStep DEF Next
<1> QED
  BY <1>1, <1>2

\* Every variable keeps its type, and a task is inside a block exactly while
\* it waits for a call, for any number of tasks and blocks.
THEOREM TypeCorrect == Spec => []TypeOK
<1>1. Inv => TypeOK
  BY DEF Inv
<1> QED
  BY <1>1, InitInv, NextInv, PTL DEF Spec

\* The promise of __aexit__ (uow.py:28) holds of every block no other task's
\* block overlapped: of every block of a request handler, in particular.
THEOREM AloneBlocksKeepPromise == Spec => []AloneKeepsPromise
<1>1. Inv => AloneKeepsPromise
  BY DEF Inv
<1> QED
  BY <1>1, InitInv, NextInv, PTL DEF Spec
=============================================================================
