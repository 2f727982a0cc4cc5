--------------------------- MODULE TicketContract ---------------------------
(***************************************************************************)
(* What the service promises about a ticket, as README.md ("how retries    *)
(* work", lines 46-62) and TicketStatusEnum tell it: a ticket waits, is    *)
(* worked on by one attempt at a time, and ends with one answer that never *)
(* changes or in the dead letters, after MaxRetries failed attempts.  Who  *)
(* works, locks, clocks, crashes and duplicates do not appear here.        *)
(***************************************************************************)
EXTENDS Integers

CONSTANTS Tickets, MaxRetries, Replies, NoReply

VARIABLES
  phase,   \* where each ticket stands
  tries,   \* its failed attempts
  reply    \* the answer of a ready ticket

contractVars == <<phase, tries, reply>>

Phases == {"absent", "waiting", "working", "ready", "dead"}

ContractInit ==
  /\ phase = [i \in Tickets |-> "absent"]
  /\ tries = [i \in Tickets |-> 0]
  /\ reply = [i \in Tickets |-> NoReply]

\* A synchronous request goes to work at once, an asynchronous one waits.
Submit(i) ==
  /\ phase[i] = "absent"
  /\ \E p \in {"waiting", "working"} : phase' = [phase EXCEPT ![i] = p]
  /\ UNCHANGED <<tries, reply>>

Take(S) ==
  /\ \A i \in S : phase[i] = "waiting"
  /\ phase' = [i \in Tickets |-> IF i \in S THEN "working" ELSE phase[i]]
  /\ UNCHANGED <<tries, reply>>

Answer(i) ==
  /\ phase[i] = "working"
  /\ phase' = [phase EXCEPT ![i] = "ready"]
  /\ \E r \in Replies : reply' = [reply EXCEPT ![i] = r]
  /\ UNCHANGED tries

Fail(i) ==
  /\ phase[i] = "working"
  /\ tries[i] < MaxRetries
  /\ tries' = [tries EXCEPT ![i] = tries[i] + 1]
  /\ phase' = [phase EXCEPT
       ![i] = IF tries[i] + 1 = MaxRetries THEN "dead" ELSE "waiting"]
  /\ UNCHANGED reply

\* The operator puts a dead letter back by hand.
Reinstate(i) ==
  /\ phase[i] = "dead"
  /\ phase' = [phase EXCEPT ![i] = "waiting"]
  /\ tries' = [tries EXCEPT ![i] = 0]
  /\ UNCHANGED reply

ContractNext ==
  \/ \E i \in Tickets : Submit(i) \/ Answer(i) \/ Fail(i) \/ Reinstate(i)
  \/ \E S \in SUBSET Tickets : Take(S)

ContractSpec == ContractInit /\ [][ContractNext]_contractVars
=============================================================================
