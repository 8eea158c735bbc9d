--------------------------- MODULE ReportMailbox ---------------------------
(***************************************************************************)
(* What the reporting layer of the agent promises (doc.go:118-131): there  *)
(* is no queue of reports, only the most recent one is remembered; a report*)
(* is sent by one single-shot goroutine, which rests after its RPC; no     *)
(* report is made ready, and none is sent, until it has rested.            *)
(***************************************************************************)
CONSTANTS Report, None

VARIABLES
    pending,    \* the report ready to be sent, or None
    phase       \* what the report goroutine does: "quiet" when there is none

vars == <<pending, phase>>

Init == pending = None /\ phase = "quiet"

\* A snapshot yields a report, which replaces one not yet sent.
Produce ==
    /\ phase = "quiet"
    /\ pending' \in Report
    /\ UNCHANGED phase

Launch ==
    /\ phase = "quiet"
    /\ pending # None
    /\ pending' = None
    /\ phase' = "sending"

SendReturns ==
    /\ phase = "sending"
    /\ phase' = "resting"
    /\ UNCHANGED pending

Rested ==
    /\ phase = "resting"
    /\ phase' = "quiet"
    /\ UNCHANGED pending

\* The process dies: what it remembered and was sending is gone.
Lost ==
    /\ pending' = None
    /\ phase' = "quiet"

Next == Produce \/ Launch \/ SendReturns \/ Rested \/ Lost

Spec == /\ Init
        /\ [][Next]_vars
        /\ WF_vars(SendReturns \/ Rested)
=============================================================================
