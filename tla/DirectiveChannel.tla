-------------------------- MODULE DirectiveChannel --------------------------
(***************************************************************************)
(* What the agent relies on in a connection to the Director, seen from the *)
(* channel of its Directives method: directives arrive one at a time, the  *)
(* retriever holds one while the channel is full, and once the connection  *)
(* is closed, or the agent's context cancelled, the retriever ends.        *)
(*                                                                         *)
(* Agent composes any number of these; RPCComm implements one.             *)
(***************************************************************************)
CONSTANTS Directive, None

VARIABLES
    state,      \* "unused", "open", "closing" (Close was called), "closed"
    held,       \* received and not yet in the channel, or None
    directive,  \* what the channel, of capacity one, holds, or None
    ctxDone     \* the context the connection was made with is cancelled

vars == <<state, held, directive, ctxDone>>

Init ==
    /\ state \in {"unused", "open"}
    /\ held = None
    /\ directive = None
    /\ ctxDone = FALSE

Retrieving == state \in {"open", "closing"}

\* NewComm: a connection nobody refers to any more makes room for this one.
New ==
    /\ state \in {"unused", "closed"}
    /\ state' = "open"
    /\ held' = None
    /\ directive' = None
    /\ UNCHANGED ctxDone

Receive ==
    /\ Retrieving
    /\ held = None
    /\ held' \in Directive
    /\ UNCHANGED <<state, directive, ctxDone>>

Deliver ==
    /\ Retrieving
    /\ held # None
    /\ directive = None
    /\ held' = None
    /\ directive' = held
    /\ UNCHANGED <<state, ctxDone>>

Take ==
    /\ directive # None
    /\ directive' = None
    /\ UNCHANGED <<state, held, ctxDone>>

Close ==
    /\ state = "open"
    /\ state' = "closing"
    /\ UNCHANGED <<held, directive, ctxDone>>

Cancel ==
    /\ ctxDone' = TRUE
    /\ UNCHANGED <<state, held, directive>>

Ending == Retrieving /\ (ctxDone \/ state = "closing")

\* Only an ending retriever may drop what it has received.
Drop ==
    /\ Ending
    /\ held' = None
    /\ UNCHANGED <<state, directive, ctxDone>>

Exit ==
    /\ Ending
    /\ state' = "closed"
    /\ held' = None
    /\ UNCHANGED <<directive, ctxDone>>

\* The process dies.
Reset ==
    /\ state' = "unused"
    /\ held' = None
    /\ directive' = None
    /\ ctxDone' = FALSE

Next == New \/ Receive \/ Deliver \/ Take \/ Close \/ Cancel \/ Drop \/ Exit \/ Reset

Spec == /\ Init
        /\ [][Next]_vars
        /\ WF_vars(Deliver)
        /\ WF_vars(Exit)
=============================================================================
