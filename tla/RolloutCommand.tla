--------------------------- MODULE RolloutCommand ---------------------------
(***************************************************************************)
(* A rollout command (rolloutCommand in src/pkg/agent/rollouts.go): a      *)
(* patch of the rollout's spec, of its status, or of both, where a status  *)
(* that cannot be patched as a subresource is tried in the rollout itself. *)
(* A call may fail with or without having had its effect, and others       *)
(* change, delete and create the rollout meanwhile.                        *)
(***************************************************************************)
EXTENDS Integers

CONSTANTS
    None,           \* nil
    Gone,           \* there is no such rollout
    MaxChanges,     \* bound: changes of others
    MaxFaults       \* bound: failed calls

VARIABLES
    rollout,        \* the rollout in the cluster
    subresource,    \* does its definition have a status subresource?
    patching,       \* the command that is being run, or None
    did,            \* history: what the command has done so far
    changes,        \* changes of others so far
    faults          \* failed calls so far

vars == <<rollout, subresource, patching, did, changes, faults>>

Rollouts == [paused : BOOLEAN, abort : BOOLEAN]

\* A RolloutCommand; whether it has its name, its namespace and its ID.
Command == [kind : {"rollout"}, complete : BOOLEAN, action : STRING]

Running == [at : {"spec", "status", "base", "done"}, command : Command, absent : BOOLEAN,
            success : BOOLEAN]

At(place) == patching # None /\ patching.at = place

Ended(success) == [patching EXCEPT !.at = "done", !.success = success]

Init ==
    /\ rollout \in Rollouts \cup {Gone}
    /\ subresource \in BOOLEAN
    /\ patching = None
    /\ did = {}

OtherChanges ==
    /\ changes < MaxChanges
    /\ changes' = changes + 1
    /\ rollout' \in (Rollouts \cup {Gone}) \ {rollout}
    /\ UNCHANGED <<subresource, patching, did, faults>>

First(action) ==
    IF action \in {"RESUME", "PAUSE"} THEN "spec" ELSE IF action = "ABORT" THEN "status" ELSE "done"

\* RunWithClientFactory and the switch of patchRollout: what is patched first, where
\* an unknown action ends with an error.
Start(command) ==
    /\ patching = None
    /\ patching' = [at |-> First(command.action), command |-> command, absent |-> FALSE,
                    success |-> FALSE]
    /\ UNCHANGED <<rollout, subresource, did, changes, faults>>

\* The command is over, or the process is.
Forget ==
    /\ patching' = None
    /\ did' = {}
    /\ UNCHANGED <<rollout, subresource>>

SpecPatched == [rollout EXCEPT !.paused = (patching.command.action = "PAUSE")]
StatusPatched == [rollout EXCEPT !.abort = (patching.command.action = "ABORT")]

\* The next call fails otherwise than by NotFound; it may have had its effect.
CallFails(effect) ==
    /\ faults < MaxFaults
    /\ faults' = faults + 1
    /\ rollout' \in {rollout, effect}
    /\ patching' = Ended(FALSE)
    /\ UNCHANGED <<subresource, did, changes>>
----------------------------------------------------------------------------
\* applyPatch: pause, or the first half of a resume.
SpecPatch ==
    /\ At("spec")
    /\ rollout # Gone
    /\ rollout' = SpecPatched
    /\ did' = did \cup {IF SpecPatched.paused THEN "paused" ELSE "unpaused"}
    /\ patching' = IF patching.command.action = "RESUME" THEN [patching EXCEPT !.at = "status"]
                   ELSE Ended(TRUE)
    /\ UNCHANGED <<subresource, changes, faults>>

\* Faulty: the status is patched whatever became of the spec.
SpecNotFoundGoesOn ==
    /\ At("spec")
    /\ rollout = Gone
    /\ patching' = IF patching.command.action = "RESUME" THEN [patching EXCEPT !.at = "status"]
                   ELSE Ended(FALSE)
    /\ UNCHANGED <<rollout, subresource, did, changes, faults>>

SpecNotFound ==
    /\ At("spec")
    /\ rollout = Gone
    /\ patching' = Ended(FALSE)
    /\ UNCHANGED <<rollout, subresource, did, changes, faults>>

\* applyStatusPatch: the subresource.
StatusPatch ==
    /\ At("status")
    /\ rollout # Gone
    /\ subresource
    /\ rollout' = StatusPatched
    /\ did' = did \cup {IF StatusPatched.abort THEN "aborted" ELSE "retried"}
    /\ patching' = Ended(TRUE)
    /\ UNCHANGED <<subresource, changes, faults>>

\* Faulty: any error falls back to the rollout itself.
StatusErrorFallsBack ==
    /\ At("status")
    /\ patching' = [patching EXCEPT !.at = "base", !.absent = (rollout = Gone)]
    /\ UNCHANGED <<rollout, subresource, did, changes, faults>>

\* NotFound means that there is no subresource, or no rollout.
StatusNotFound ==
    /\ At("status")
    /\ rollout = Gone \/ ~subresource
    /\ patching' = [patching EXCEPT !.at = "base", !.absent = (rollout = Gone)]
    /\ UNCHANGED <<rollout, subresource, did, changes, faults>>

\* The rollout itself, where a status is ignored if it is a subresource.
BasePatch ==
    /\ At("base")
    /\ rollout # Gone
    /\ rollout' = IF subresource THEN rollout ELSE StatusPatched
    /\ did' = IF subresource THEN did
              ELSE did \cup {IF StatusPatched.abort THEN "aborted" ELSE "retried"}
    /\ patching' = Ended(TRUE)
    /\ UNCHANGED <<subresource, changes, faults>>

BaseNotFound ==
    /\ At("base")
    /\ rollout = Gone
    /\ patching' = Ended(FALSE)
    /\ UNCHANGED <<rollout, subresource, did, changes, faults>>

Fails ==
    \/ At("spec") /\ CallFails(IF rollout = Gone THEN Gone ELSE SpecPatched)
    \/ At("status") /\ CallFails(IF rollout = Gone \/ ~subresource THEN rollout ELSE StatusPatched)
    \/ At("base") /\ CallFails(IF rollout = Gone \/ subresource THEN rollout ELSE StatusPatched)

\* patchRollout.
Step == SpecPatch \/ SpecNotFound \/ StatusPatch \/ StatusNotFound \/ BasePatch \/ BaseNotFound
        \/ Fails

TypeOK ==
    /\ rollout \in Rollouts \cup {Gone}
    /\ subresource \in BOOLEAN
    /\ patching # None =>
        /\ patching \in Running
        /\ patching.success => patching.at = "done"
        /\ patching.at = "base" => patching.absent \/ ~subresource
    /\ did \subseteq {"paused", "unpaused", "aborted", "retried"}
=============================================================================
