----------------------------- MODULE SecretSync -----------------------------
(***************************************************************************)
(* A secret sync command (secretSyncCommand in src/pkg/agent/secrets.go):  *)
(* Get, then Create, or Patch and perhaps Delete, as separate calls to the *)
(* Kubernetes API, between which others may write the secret.  A call may  *)
(* fail with or without having had its effect.  A secret is its data; no   *)
(* data and an empty map of data are the same in the API.                  *)
(***************************************************************************)
EXTENDS Integers, TLC

CONSTANTS
    Key,            \* keys of the secret
    Value,          \* values
    NoSecret,       \* there is no such secret
    None,           \* nil
    MaxChanges,     \* bound: writes of others
    MaxFaults       \* bound: failed calls

VARIABLES
    secret,         \* the secret in the cluster
    sync,           \* the command that is being run, or None
    stable,         \* history: keys that Get saw and nobody has written since
    quiet,          \* history: since it began no call failed, no other wrote
    changes,        \* writes of others so far
    faults          \* failed calls so far

vars == <<secret, sync, stable, quiet, changes, faults>>

Data == UNION {[K -> Value] : K \in SUBSET Key}
Empty == [k \in {} |-> None]

\* A SecretSyncCommand; whether it has its name, its namespace and its ID.
Command == [kind : {"secret"}, complete : BOOLEAN, action : STRING, data : Data]

Running == [at : {"get", "create", "patch", "delete", "done"}, command : Command,
            insertRoot : BOOLEAN, success : BOOLEAN]

At(place) == sync # None /\ sync.at = place

Ended(success) == [sync EXCEPT !.at = "done", !.success = success]

Init ==
    /\ secret \in Data \cup {NoSecret}
    /\ sync = None
    /\ stable = {}
    /\ quiet = TRUE

\* RunWithClientFactory.
Start(command) ==
    /\ sync = None
    /\ sync' = [at |-> "get", command |-> command, insertRoot |-> FALSE, success |-> FALSE]
    /\ UNCHANGED <<secret, stable, quiet, changes, faults>>

\* The command is over, or the process is.
Forget ==
    /\ sync' = None
    /\ stable' = {}
    /\ quiet' = TRUE
    /\ UNCHANGED secret

OtherWrites ==
    /\ changes < MaxChanges
    /\ changes' = changes + 1
    /\ secret' \in (Data \cup {NoSecret}) \ {secret}
    /\ stable' = IF NoSecret \in {secret, secret'} THEN {}
                 ELSE {k \in stable \cap DOMAIN secret \cap DOMAIN secret' :
                        secret'[k] = secret[k]}
    /\ quiet' = (sync = None)
    /\ UNCHANGED <<sync, faults>>

\* The next call, or making its client, fails; the cluster may have seen it.
CallFails(effect) ==
    /\ faults < MaxFaults
    /\ faults' = faults + 1
    /\ secret' \in {secret, effect}
    /\ sync' = Ended(FALSE)
    /\ quiet' = FALSE
    /\ UNCHANGED <<stable, changes>>
----------------------------------------------------------------------------
GetNotFound ==
    /\ At("get")
    /\ secret = NoSecret
    /\ sync' = IF sync.command.action = "SET" THEN [sync EXCEPT !.at = "create"]
               ELSE Ended(TRUE)
    /\ UNCHANGED <<secret, stable, quiet, changes, faults>>

\* Faulty: the root is never inserted.
GetNoRoot ==
    /\ At("get")
    /\ secret # NoSecret
    /\ sync' = IF sync.command.action \in {"SET", "DELETE"} THEN [sync EXCEPT !.at = "patch"]
               ELSE Ended(FALSE)
    /\ stable' = DOMAIN secret
    /\ UNCHANGED <<secret, quiet, changes, faults>>

\* Faulty: the root is always inserted.
GetRoot ==
    /\ At("get")
    /\ secret # NoSecret
    /\ sync' = IF sync.command.action \in {"SET", "DELETE"}
               THEN [sync EXCEPT !.at = "patch", !.insertRoot = TRUE]
               ELSE Ended(FALSE)
    /\ stable' = DOMAIN secret
    /\ UNCHANGED <<secret, quiet, changes, faults>>

\* getOps: an empty secret needs its data first, any other action is an error.
Get ==
    /\ At("get")
    /\ secret # NoSecret
    /\ sync' = IF sync.command.action \in {"SET", "DELETE"}
               THEN [sync EXCEPT !.at = "patch", !.insertRoot = (secret = Empty)]
               ELSE Ended(FALSE)
    /\ stable' = DOMAIN secret
    /\ UNCHANGED <<secret, quiet, changes, faults>>

Create ==
    /\ At("create")
    /\ secret' = IF secret = NoSecret THEN sync.command.data ELSE secret
    /\ sync' = Ended(secret = NoSecret)
    /\ UNCHANGED <<stable, quiet, changes, faults>>

\* The operations getOps lists, in the API server: adding the root replaces what is
\* there; a key is added below a root that exists and removed if it exists.
Base == IF sync.insertRoot THEN Empty ELSE secret

Applies ==
    /\ secret # NoSecret
    /\ IF sync.command.action = "SET"
       THEN sync.command.data # Empty => sync.insertRoot \/ secret # Empty
       ELSE DOMAIN sync.command.data \subseteq DOMAIN Base

Patched ==
    LET data == sync.command.data IN
    IF sync.command.action = "SET"
    THEN [k \in DOMAIN data \cup DOMAIN Base |-> IF k \in DOMAIN data THEN data[k] ELSE Base[k]]
    ELSE [k \in DOMAIN Base \ DOMAIN data |-> Base[k]]

\* Faulty: the error of the patch is not looked at.
PatchErrorDropped ==
    /\ At("patch")
    /\ ~Applies
    /\ sync' = Ended(TRUE)
    /\ UNCHANGED <<secret, stable, quiet, changes, faults>>

\* A patch is applied as a whole or not at all.
PatchRejected ==
    /\ At("patch")
    /\ ~Applies
    /\ sync' = Ended(FALSE)
    /\ UNCHANGED <<secret, stable, quiet, changes, faults>>

\* Faulty: what is left of the secret is not looked at.
PatchNoCleanup ==
    /\ At("patch")
    /\ Applies
    /\ secret' = Patched
    /\ sync' = Ended(TRUE)
    /\ UNCHANGED <<stable, quiet, changes, faults>>

\* If no keys are left, the secret is to be deleted.
Patch ==
    /\ At("patch")
    /\ Applies
    /\ secret' = Patched
    /\ sync' = IF Patched = Empty THEN [sync EXCEPT !.at = "delete"] ELSE Ended(TRUE)
    /\ UNCHANGED <<stable, quiet, changes, faults>>

\* The delete names the secret only, whatever it holds by now.
Delete ==
    /\ At("delete")
    /\ secret' = NoSecret
    /\ sync' = Ended(secret # NoSecret)
    /\ UNCHANGED <<stable, quiet, changes, faults>>

Fails ==
    \/ At("get") /\ CallFails(secret)
    \/ At("create") /\ CallFails(IF secret = NoSecret THEN sync.command.data ELSE secret)
    \/ At("patch") /\ CallFails(IF Applies THEN Patched ELSE secret)
    \/ At("delete") /\ CallFails(NoSecret)

\* syncSecret.
Step == GetNotFound \/ Get \/ Create \/ PatchRejected \/ Patch \/ Delete \/ Fails

TypeOK ==
    /\ secret \in Data \cup {NoSecret}
    /\ sync # None =>
        /\ sync \in Running
        /\ sync.success => sync.at = "done"
        /\ sync.at = "create" => sync.command.action = "SET"
    /\ stable \subseteq Key
    /\ quiet \in BOOLEAN
=============================================================================
