----------------------------- MODULE MCCommands -----------------------------
(* Values of Commands' constants for TLC. *)
EXTENDS Commands

CONSTANTS k1, k2, v1, v2

Secret_(action, data) == [kind |-> "secret", complete |-> TRUE, action |-> action, data |-> data]
Rollout_(action) == [kind |-> "rollout", complete |-> TRUE, action |-> action]

MCDirectives ==
    {<<Secret_("SET", k1 :> v1), Rollout_("PAUSE")>>,
     <<Secret_("DELETE", (k1 :> v1) @@ (k2 :> v1)), Secret_("SET", << >>)>>,
     <<[kind |-> "message", complete |-> TRUE], Secret_("", k1 :> v1), Rollout_("")>>,
     <<Secret_("DELETE", k1 :> v1), Secret_("DELETE", k1 :> v1)>>,
     <<[Rollout_("PAUSE") EXCEPT !.complete = FALSE], Rollout_("ABORT"), Rollout_("RESUME")>>,
     <<Rollout_("RESUME"), Secret_("SET", k2 :> v2)>>}
=============================================================================
