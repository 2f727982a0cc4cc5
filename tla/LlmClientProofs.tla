--------------------------- MODULE LlmClientProofs ---------------------------
(***************************************************************************)
(* What the caller of the LLM is given, for every set of callers and every *)
(* response of the provider.                                               *)
(***************************************************************************)
EXTENDS LlmClient, TLAPS

\* What the provider may send, as records: the set Bodies is a union.
LEMMA BodyTypes ==
  /\ Nothing \in Bodies
  /\ \A b \in Bodies : b.prompt \in Counts /\ b.completion \in Counts
BY DEF Bodies, Objects, Nothing, NoObject, Body, Counts

\* A call ends with a result or with None, with a result only for a content
\* that fits, and the counts it hands on are there.
LEMMA RequestFits ==
  ASSUME NEW b \in Bodies
  PROVE  /\ Request(b) \in [is : {"pending", "result", "none", "cancelled", "raised"},
                            prompt : Counts \ {"missing"},
                            completion : Counts \ {"missing"}]
         /\ Request(b).is # "raised"
         /\ Request(b).is = "result" =>
              b.is = "object" /\ b.choices = "ok" /\ b.content = "fits"
<1>1. b.prompt \in Counts /\ b.completion \in Counts
  BY BodyTypes
<1>2. \A n \in Counts : Tokens(b, n) \in Counts \ {"missing"}
  BY DEF Tokens, Counts
<1>3. CASE ~ChatRaises(b) /\ Content(b) = "fits"
  <2>1. Request(b) = Result(b)
    BY <1>3 DEF Request
  <2>2. b.is = "object" /\ b.choices = "ok" /\ b.content = "fits"
    BY <1>3 DEF Content
  <2> QED
    BY <1>1, <1>2, <2>1, <2>2 DEF Result, Ended
<1>4. CASE ~(~ChatRaises(b) /\ Content(b) = "fits")
  <2>1. Request(b) = NoneReturned
    BY <1>4 DEF Request
  <2> QED
    BY <2>1 DEF NoneReturned, Ended, Counts
<1> QED
  BY <1>3, <1>4

-----------------------------------------------------------------------------
\* The session is open from the start-up to the end of the shutdown, and
\* nobody waits outside of the time the application is up.
SessionFits ==
  /\ phase \in {"up", "stopping"} => session = "open"
  /\ \A c \in Callers : stage[c] = "waiting" => phase = "up"

Inv == TypeOK /\ ResultOrNone /\ SessionFits

LEMMA InitInv == Init => Inv
BY BodyTypes DEF Init, Inv, TypeOK, ResultOrNone, SessionFits, Pending, Ended, Counts

LEMMA NextInv == Inv /\ [Next]_vars => Inv'
<1> SUFFICES ASSUME Inv, [Next]_vars PROVE Inv'
  OBVIOUS
<1> USE DEF Inv, TypeOK, ResultOrNone, SessionFits
<1>1. CASE Startup
  BY <1>1 DEF Startup
<1>2. ASSUME NEW c \in Callers, Ask(c) PROVE Inv'
  BY <1>2, BodyTypes DEF Ask, Pending, Ended, Counts
<1>3. ASSUME NEW c \in Callers, NEW b \in Bodies, stage[c] = "waiting",
             End(c, b), UNCHANGED <<phase, session>>
      PROVE  Inv'
  <2>1. TypeOK'
    BY <1>3, RequestFits DEF End
  <2>2. ResultOrNone'
    BY <1>3, RequestFits DEF End
  <2>3. SessionFits'
    BY <1>3 DEF End
  <2> QED
    BY <2>1, <2>2, <2>3
<1>4. ASSUME NEW c \in Callers, NoAnswer(c) PROVE Inv'
  BY <1>3, <1>4, BodyTypes DEF NoAnswer
<1>5. ASSUME NEW c \in Callers, NEW b \in Bodies, Answer(c, b) PROVE Inv'
  BY <1>3, <1>5 DEF Answer
<1>6. CASE StopScheduler
  BY <1>6 DEF StopScheduler, CallCancelled, Ended, Counts
<1>7. CASE CloseSession
  BY <1>7 DEF CloseSession
<1>8. CASE UNCHANGED vars
  BY <1>8 DEF vars
<1> QED
  BY <1>1, <1>2, <1>4, <1>5, <1>6, <1>7, <1>8 DEF Next

LEMMA InvHolds == Spec => []Inv
BY InitInv, NextInv, PTL DEF Spec

\* The types of LlmClient: a count the provider leaves out is never passed on
\* as left out (ai_client.py:103-105).
THEOREM TypeCorrect == Spec => []TypeOK
BY InvHolds, PTL DEF Inv

\* Whatever the provider sends, the caller gets a result or None, and a result
\* only for a content that fits the schema (ticket_service.py:198-209).
THEOREM ResultOrNoneHolds == Spec => []ResultOrNone
BY InvHolds, PTL DEF Inv

\* No call waits on a session that is closed: on_shutdown cancels the jobs
\* before it closes the session (lifecycle.py:42-45).
THEOREM NoCallOnClosedSessionHolds == Spec => []NoCallOnClosedSession
<1>1. Inv => NoCallOnClosedSession
  BY DEF Inv, SessionFits, NoCallOnClosedSession
<1> QED
  BY <1>1, InvHolds, PTL
=============================================================================
