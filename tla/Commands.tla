------------------------------ MODULE Commands ------------------------------
(***************************************************************************)
(* The commands of directives (BasicDirectiveHandler in src/pkg/agent/     *)
(* directive_handler.go): the main loop runs them one after the other,     *)
(* each a SecretSync or a RolloutCommand, against a cluster that others    *)
(* change too, and reports each one's result once.  The process may die at *)
(* any time.                                                               *)
(***************************************************************************)
EXTENDS Integers, Sequences, TLC

CONSTANTS
    None,           \* nil
    NoSecret,       \* there is no such secret
    Gone,           \* there is no such rollout
    Key, Value,     \* what the secret may hold
    Directives,     \* the lists of commands a directive may carry
    MaxDirectives,  \* bound: directives received
    MaxChanges,     \* bound: changes of others
    MaxFaults       \* bound: failed calls

VARIABLES
    secret, sync, stable, quiet,            \* of SecretSync
    rollout, subresource, patching, did,    \* of RolloutCommand
    changes, faults,                        \* of both
    received,       \* directives received so far
    todo,           \* the commands of the present one that are not finished
    results,        \* results sent, and whether they arrived
    died            \* history: the directives during which the process died

secretVars == <<secret, sync, stable, quiet>>
rolloutVars == <<rollout, subresource, patching, did>>
counters == <<changes, faults>>
vars == <<secretVars, rolloutVars, counters, received, todo, results, died>>

Secret == INSTANCE SecretSync
Rollout == INSTANCE RolloutCommand

\* A command is one or the other, or neither.
Command == Secret!Command \cup Rollout!Command \cup [kind : {"message"}, complete : BOOLEAN]

ASSUME CommandsAssumption ==
    /\ None \notin Secret!Running /\ NoSecret \notin Secret!Data /\ Gone \notin Rollout!Rollouts
    /\ Directives \subseteq Seq(Command)
    /\ {MaxDirectives, MaxChanges, MaxFaults} \subseteq Nat

Init ==
    /\ Secret!Init
    /\ Rollout!Init
    /\ changes = 0
    /\ faults = 0
    /\ received = 0
    /\ todo = <<>>
    /\ results = <<>>
    /\ died = {}

Waiting == sync = None /\ patching = None

\* HandleDirective, called by the main loop with one directive after the other. A
\* command is named by its directive and its place.
HandleDirective ==
    /\ todo = <<>>
    /\ received < MaxDirectives
    /\ received' = received + 1
    /\ \E commands \in Directives :
        todo' = [i \in DOMAIN commands |-> [command |-> commands[i], id |-> <<received', i>>]]
    /\ UNCHANGED <<secretVars, rolloutVars, counters, results, died>>

\* No name, no namespace or no command ID; neither a rollout nor a secret command;
\* no client to run it with: not even a result.
Unusable(command) == command.kind = "message" \/ ~command.complete

SkipCommand ==
    /\ todo # <<>>
    /\ Waiting
    /\ Unusable(Head(todo).command)
    /\ todo' = Tail(todo)
    /\ UNCHANGED <<secretVars, rolloutVars, counters, received, results, died>>

StartSecretSync ==
    /\ todo # <<>>
    /\ Waiting
    /\ ~Unusable(Head(todo).command)
    /\ Head(todo).command.kind = "secret"
    /\ Secret!Start(Head(todo).command)
    /\ UNCHANGED <<rolloutVars, received, todo, results, died>>

StartRollout ==
    /\ todo # <<>>
    /\ Waiting
    /\ ~Unusable(Head(todo).command)
    /\ Head(todo).command.kind = "rollout"
    /\ Rollout!Start(Head(todo).command)
    /\ UNCHANGED <<secretVars, received, todo, results, died>>

\* The call of RPCComm arrives or fails.
ReportCommandResult(result) ==
    \E arrives \in BOOLEAN : results' = Append(results, result @@ [arrives |-> arrives])

\* reportCommandResult: a failure to report is logged, and that is all.
Reported(success) == ReportCommandResult([id |-> Head(todo).id, success |-> success])

SecretSyncReported ==
    /\ Secret!At("done")
    /\ Reported(sync.success)
    /\ Secret!Forget
    /\ todo' = Tail(todo)
    /\ UNCHANGED <<rolloutVars, counters, received, died>>

\* Faulty: an error returns before the result is reported.
RolloutErrorReturns ==
    /\ Rollout!At("done")
    /\ IF patching.success THEN Reported(TRUE) ELSE UNCHANGED results
    /\ Rollout!Forget
    /\ todo' = Tail(todo)
    /\ UNCHANGED <<secretVars, counters, received, died>>

RolloutReported ==
    /\ Rollout!At("done")
    /\ Reported(patching.success)
    /\ Rollout!Forget
    /\ todo' = Tail(todo)
    /\ UNCHANGED <<secretVars, counters, received, died>>

\* The process ends; nothing remembers the directive.
ProcessDies ==
    /\ todo # <<>>
    /\ todo' = <<>>
    /\ Secret!Forget
    /\ Rollout!Forget
    /\ died' = died \cup {received}
    /\ UNCHANGED <<counters, received, results>>

SecretStep == Secret!Step /\ UNCHANGED <<rolloutVars, received, todo, results, died>>
RolloutStep == Rollout!Step /\ UNCHANGED <<secretVars, received, todo, results, died>>

Handler == SkipCommand \/ StartSecretSync \/ SecretStep \/ SecretSyncReported
           \/ StartRollout \/ RolloutStep \/ RolloutReported

Others ==
    \/ Secret!OtherWrites /\ UNCHANGED <<rolloutVars, received, todo, results, died>>
    \/ Rollout!OtherChanges /\ UNCHANGED <<secretVars, received, todo, results, died>>

Next == HandleDirective \/ Handler \/ Others \/ ProcessDies

\* Calls to the API server and to the Director end.
Spec == Init /\ [][Next]_vars /\ WF_vars(Handler)
----------------------------------------------------------------------------
(* Properties.                                                             *)

\* The parts keep their types, and at most the first unfinished command runs, as
\* the loop itself executes it (directive_handler.go:47-57).
TypeOK ==
    /\ Secret!TypeOK
    /\ Rollout!TypeOK
    /\ changes \in 0 .. MaxChanges /\ faults \in 0 .. MaxFaults
    /\ received \in 0 .. MaxDirectives /\ died \subseteq 1 .. received
    /\ sync # None => todo # <<>> /\ sync.command = Head(todo).command /\ patching = None
    /\ patching # None => todo # <<>> /\ patching.command = Head(todo).command

SecretCall == sync # None /\ sync.at # "done" /\ changes' = changes /\ todo' = todo

\* A secret command is successful only if, at its last call, the secret holds what
\* was to be set and nothing of what was to be deleted, whatever others wrote
\* between the calls and whichever call failed (secrets.go:90-145).
SecretDone ==
    [][SecretCall /\ sync'.success =>
         CASE sync.command.action = "SET" /\ sync.command.data # << >> ->
                secret' # NoSecret /\ \A k \in DOMAIN sync.command.data :
                    k \in DOMAIN secret' /\ secret'[k] = sync.command.data[k]
           [] sync.command.action = "DELETE" ->
                secret' # NoSecret => DOMAIN sync.command.data \cap DOMAIN secret' = {}
           [] OTHER -> TRUE]_vars

\* No call of a command loses or changes a key it does not name, if the key was there
\* at its Get and others have not touched it since: neither the patch with its
\* inserted root nor the clean-up of the emptied secret (secrets.go:59-65, 136-142).
OthersKeysSurvive ==
    [][SecretCall =>
         \A k \in stable \ DOMAIN sync.command.data :
             secret' # NoSecret /\ k \in DOMAIN secret' /\ secret'[k] = secret[k]]_vars

\* A command that no other writer disturbs and none of whose calls fails does all of
\* its work: a SET is successful whether the secret is there, is empty or is missing
\* ("if the secret is empty, this is required", secrets.go:58-65, 98-116), and a
\* successful DELETE leaves no empty secret behind ("if no keys left, we should
\* delete the secret", secrets.go:136-142).
Undisturbed ==
    [][SecretCall /\ quiet' /\ sync'.at = "done" =>
         /\ sync.command.action = "SET" => sync'.success
         /\ sync.command.action = "DELETE" /\ sync'.success => secret' # << >>]_vars

Needed(action) ==
    CASE action = "RESUME" -> {"unpaused", "retried"}
      [] action = "PAUSE" -> {"paused"}
      [] action = "ABORT" -> {"aborted"}

\* A rollout command is successful only if all its patches took effect, a resume
\* both: "should be able to recover from Rollout that is either paused or aborted"
\* (rollouts.go:60-69). The one exception is a rollout that was deleted and made
\* again between the patch of its status and the fallback.
RolloutDone ==
    [][patching # None /\ patching.at # "done" /\ todo' = todo /\ patching'.success =>
         patching.absent \/ Needed(patching.command.action) \subseteq did']_vars

Has(id) == \E i \in DOMAIN results : results[i].id = id

\* Every usable command of a directive gets its result, whichever calls fail,
\* unless the process dies first (directive_handler.go:100-105, 141-146).
Answered ==
    \A d \in 1 .. MaxDirectives, i \in 1 .. 3 :
        (\E j \in DOMAIN todo : todo[j].id = <<d, i>> /\ ~Unusable(todo[j].command))
            ~> (Has(<<d, i>>) \/ d \in died)
=============================================================================
