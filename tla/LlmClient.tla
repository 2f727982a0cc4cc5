------------------------------ MODULE LlmClient ------------------------------
(***************************************************************************)
(* One call of TicketService._request_llm_classification, through          *)
(* UniversalChatClient.chat and the decorator                              *)
(* external_request_exception_handler, down to the aiohttp session that    *)
(* every call of the process shares and AppLifecycle opens and closes.     *)
(* To TicketPipeline a call is LlmAnswers when it returns a result,        *)
(* LlmFails when it returns None, and part of Crash when it is cancelled.  *)
(*                                                                         *)
(* The body of a response is any JSON the provider may send, reduced to    *)
(* what the code asks of it.  uvicorn is external: it begins the shutdown  *)
(* of the application when no request is left.                             *)
(***************************************************************************)
EXTENDS Naturals

CONSTANTS
  Jobs,      \* calls of the scheduler's batch
  Requests   \* calls of POST /tickets/analyze

Callers == Jobs \cup Requests

ASSUME CallersAssumption == Jobs \cap Requests = {}

VARIABLES
  phase,     \* of the application: AppLifecycle
  session,   \* the aiohttp session singleton
  stage,     \* stage[c]: where call c stands
  heard,     \* heard[c]: the body its response had; Nothing without one
  outcome    \* outcome[c]: what the call gave its caller

vars == <<phase, session, stage, heard, outcome>>

-----------------------------------------------------------------------------
(* Responses *)

Counts == {"number", "null", "text", "missing"}

Body(is, choices, content, usage, prompt, completion) ==
  [is |-> is, choices |-> choices, content |-> content, usage |-> usage,
   prompt |-> prompt, completion |-> completion]

\* JSON null, or the fallback of the decorator for whatever went wrong.
Nothing == Body("null", "broken", "null", "missing", "missing", "missing")

\* A list, a string or a number where an object is expected.
NoObject == Body("other", "broken", "null", "missing", "missing", "missing")

\* choices: is ["choices"][0]["message"]["content"] there; content: is it null,
\* text that fits LLMClassificationOutput, or anything else; usage: is it
\* absent (or falsy), an object, or something else.
Objects ==
  {Body("object", ch, co, u, "missing", "missing") :
     ch \in {"ok", "broken"}, co \in {"null", "fits", "unfit"}, u \in {"missing", "other"}}
  \cup
  {Body("object", ch, co, "object", p, q) :
     ch \in {"ok", "broken"}, co \in {"null", "fits", "unfit"}, p \in Counts, q \in Counts}

Bodies == Objects \cup {Nothing, NoObject}

-----------------------------------------------------------------------------
(* chat: reading the content is guarded, reading the usage is not. *)

Content(b) == IF b.is = "object" /\ b.choices = "ok" THEN b.content ELSE "null"

ChatRaises(b) == b.is = "other" \/ (b.is = "object" /\ b.usage = "other")

Mut_TokensNoDefault(b, count) == IF b.usage = "object" THEN count ELSE "number"

Tokens(b, count) == IF b.usage = "object" /\ count # "missing" THEN count ELSE "number"

-----------------------------------------------------------------------------
(* _request_llm_classification *)

Ended(how, p, q) == [is |-> how, prompt |-> p, completion |-> q]

Pending == Ended("pending", "number", "number")
NoneReturned == Ended("none", "number", "number")
CallCancelled == Ended("cancelled", "number", "number")

Result(b) == Ended("result", Tokens(b, b.prompt), Tokens(b, b.completion))

Mut_RequestNoCatchAll(b) ==
  IF ChatRaises(b) THEN Ended("raised", "number", "number")
  ELSE IF Content(b) = "fits" THEN Result(b) ELSE NoneReturned

\* A broken shape of the response, a missing content, a content out of schema
\* and every unexpected exception are all one to the caller.
Request(b) ==
  IF ~ChatRaises(b) /\ Content(b) = "fits" THEN Result(b) ELSE NoneReturned

-----------------------------------------------------------------------------
Init ==
  /\ phase = "down"
  /\ session = "none"
  /\ stage = [c \in Callers |-> "idle"]
  /\ heard = [c \in Callers |-> Nothing]
  /\ outcome = [c \in Callers |-> Pending]

\* on_startup, once the database has answered; it has no second chance.
Startup ==
  /\ phase = "down"
  /\ \/ phase' = "up" /\ session' = "open"
     \/ phase' = "failed" /\ session' = session
  /\ UNCHANGED <<stage, heard, outcome>>

Ask(c) ==
  /\ phase = "up"
  /\ stage[c] = "idle"
  /\ stage' = [stage EXCEPT ![c] = "waiting"]
  /\ outcome' = [outcome EXCEPT ![c] = Pending]
  /\ heard' = [heard EXCEPT ![c] = Nothing]
  /\ UNCHANGED <<phase, session>>

End(c, b) ==
  /\ stage' = [stage EXCEPT ![c] = "idle"]
  /\ heard' = [heard EXCEPT ![c] = b]
  /\ outcome' = [outcome EXCEPT ![c] = Request(b)]

\* A response with a status below 400.
Answer(c, b) ==
  /\ stage[c] = "waiting"
  /\ session = "open"
  /\ End(c, b)
  /\ UNCHANGED <<phase, session>>

\* An error status, LLM_TIMEOUT_SEC, no connection, no JSON, a closed session:
\* the decorator returns its fallback for every exception.
NoAnswer(c) ==
  /\ stage[c] = "waiting"
  /\ End(c, Nothing)
  /\ UNCHANGED <<phase, session>>

Mut_ShutdownClosesFirst ==
  /\ phase = "up"
  /\ \A c \in Requests : stage[c] = "idle"
  /\ phase' = "stopping"
  /\ session' = "closed"
  /\ UNCHANGED <<stage, heard, outcome>>

\* on_shutdown: the scheduler cancels its jobs before the session is closed.
\* CancelledError passes every "except Exception" on its way.
StopScheduler ==
  /\ phase = "up"
  /\ \A c \in Requests : stage[c] = "idle"
  /\ phase' = "stopping"
  /\ stage' = [c \in Callers |-> "idle"]
  /\ outcome' = [c \in Callers |->
       IF stage[c] = "waiting" THEN CallCancelled ELSE outcome[c]]
  /\ UNCHANGED <<session, heard>>

CloseSession ==
  /\ phase = "stopping"
  /\ phase' = "stopped"
  /\ session' = "closed"
  /\ UNCHANGED <<stage, heard, outcome>>

Next ==
  \/ Startup
  \/ \E c \in Callers : Ask(c) \/ NoAnswer(c)
  \/ \E c \in Callers, b \in Bodies : Answer(c, b)
  \/ StopScheduler
  \/ CloseSession

Spec == Init /\ [][Next]_vars

-----------------------------------------------------------------------------
(* Properties *)

\* Every variable has its type; a count the provider leaves out is never
\* passed on as left out, whatever else it may be (ai_client.py:103-105).
TypeOK ==
  /\ phase \in {"down", "up", "failed", "stopping", "stopped"}
  /\ session \in {"none", "open", "closed"}
  /\ stage \in [Callers -> {"idle", "waiting"}]
  /\ heard \in [Callers -> Bodies]
  /\ outcome \in [Callers -> [is : {"pending", "result", "none", "cancelled", "raised"},
                              prompt : Counts \ {"missing"},
                              completion : Counts \ {"missing"}]]

\* Whatever the provider sends, the caller gets a result or None, never an
\* exception, though chat reads the usage outside of its try
\* (ai_client.py:100); and it gets a result only for a response whose content
\* fits the schema.
ResultOrNone ==
  \A c \in Callers :
    /\ outcome[c].is # "raised"
    /\ outcome[c].is = "result" =>
         heard[c].is = "object" /\ heard[c].choices = "ok" /\ heard[c].content = "fits"

\* Stopping the application fails no call: the jobs are cancelled, and so
\* their tickets keep their retries, before the session they wait on is
\* closed (lifecycle.py:42-45).
NoCallOnClosedSession ==
  \A c \in Callers : stage[c] = "waiting" => session = "open"
=============================================================================
