-------------------------- MODULE MCTicketPipeline --------------------------
(***************************************************************************)
(* TicketPipeline for TLC: its constants get their values in the .cfg      *)
(* files, sets of workers and texts as model values.                       *)
(***************************************************************************)
EXTENDS TicketPipeline, TLC

CONSTANTS h1, s1, s2

\* One application process with its request handler and scheduler.
OneProcess == {{h1, s1}}

\* A second one that only happens to run its scheduler.
TwoProcesses == {{h1, s1}, {s2}}

\* None of them ever stops.
NoCrash == {}

\* The time zone of the database session lies one tick west of UTC.
WestOfUtc == -1
=============================================================================
