------------------------------ MODULE MCAgent ------------------------------
(* Values of Agent's constants for TLC. *)
EXTENDS Agent, TLC

CONSTANTS k1, k2, id1, id2, s1, s2, c1, c2

\* Orders to stop, and periods that are negative or too long for a duration.
StopDirective == [stop |-> TRUE, period |-> None, command |-> FALSE]
StopNegative == [StopDirective EXCEPT !.period = -1]
LongCommand == [stop |-> FALSE, period |-> LongestDuration + 2, command |-> TRUE]
Resume == [stop |-> FALSE, period |-> None, command |-> FALSE]

MixedDirectives == {StopNegative, LongCommand}
StopAndGo == {StopDirective, Resume}
OnlyStop == {StopDirective}

Names == Permutations(Key) \cup Permutations(Slot) \cup Permutations(CommId)
         \cup Permutations(Identity)

\* At first only the secret may hold a token: fewer initial states.
FromSecretInit == Init /\ configMap = None

FromSecret == FromSecretInit /\ [][Next]_vars /\ Fairness

Channel == INSTANCE DirectiveChannel
              WITH state <- comms[c1].state, held <- comms[c1].held,
                   directive <- comms[c1].directive

\* Each connection (c1 stands for any of them: they are interchangeable), whatever
\* the loop does to it and to the others, keeps to the contract RPCComm
\* implements: it is closed at most once, drops nothing while in use, and ends
\* (agent.go:550-564, 790-795; comm.go:69-112, 120-160).
KeepsChannel == Channel!Spec
=============================================================================
