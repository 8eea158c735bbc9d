--------------------------- MODULE CommandsProofs ---------------------------
(***************************************************************************)
(* Proofs about Commands, for any keys, values, lists of commands and      *)
(* numbers of changes and failures.                                        *)
(***************************************************************************)
EXTENDS Commands, SequenceTheorems, TLAPS

Empty == Secret!Empty
Data == Secret!Data

LEMMA DataFunctions ==
    /\ Empty \in Data /\ DOMAIN Empty = {} /\ << >> = Empty /\ NoSecret # Empty
    /\ \A d \in Data : /\ DOMAIN d \subseteq Key /\ d = [k \in DOMAIN d |-> d[k]]
                       /\ \A k \in DOMAIN d : d[k] \in Value
                       /\ DOMAIN d = {} => d = Empty
    /\ \A d : (/\ DOMAIN d \subseteq Key /\ d = [k \in DOMAIN d |-> d[k]]
               /\ \A k \in DOMAIN d : d[k] \in Value) => d \in Data
<1>1. Empty \in Data /\ DOMAIN Empty = {}
  <2>1. Empty \in [{} -> Value]
    BY DEF Empty, Secret!Empty
  <2>2. {} \in SUBSET Key
    OBVIOUS
  <2> QED
    BY <2>1, <2>2 DEF Empty, Secret!Empty, Data, Secret!Data
<1>2. << >> = Empty
  BY DEF Empty, Secret!Empty
<1>3. ASSUME NEW d \in Data
      PROVE  /\ DOMAIN d \subseteq Key /\ d = [k \in DOMAIN d |-> d[k]]
             /\ \A k \in DOMAIN d : d[k] \in Value
             /\ DOMAIN d = {} => d = Empty
  <2>1. PICK K \in SUBSET Key : d \in [K -> Value]
    BY DEF Data, Secret!Data
  <2> QED
    BY <2>1 DEF Empty, Secret!Empty
<1>4. ASSUME NEW d, DOMAIN d \subseteq Key, d = [k \in DOMAIN d |-> d[k]],
             \A k \in DOMAIN d : d[k] \in Value
      PROVE  d \in Data
  <2>1. d \in [DOMAIN d -> Value]
    BY <1>4
  <2> QED
    BY <1>4, <2>1 DEF Data, Secret!Data
<1> QED
  BY <1>1, <1>2, <1>3, <1>4, CommandsAssumption DEF Data

\* What a patch makes of the secret: the keys it names are set or gone, the others as
\* they were below the root.
LEMMA PatchedData ==
    ASSUME secret \in Data, sync.command.data \in Data
    PROVE  /\ Secret!Patched \in Data
           /\ sync.command.action = "SET" =>
                /\ \A k \in DOMAIN sync.command.data :
                    k \in DOMAIN Secret!Patched /\ Secret!Patched[k] = sync.command.data[k]
           /\ sync.command.action # "SET" =>
                DOMAIN sync.command.data \cap DOMAIN Secret!Patched = {}
           /\ ~sync.insertRoot => \A k \in DOMAIN secret \ DOMAIN sync.command.data :
                k \in DOMAIN Secret!Patched /\ Secret!Patched[k] = secret[k]
<1> DEFINE base == Secret!Base
           data == sync.command.data
           patched == Secret!Patched
<1>1. base \in Data /\ (~sync.insertRoot => base = secret)
  BY DataFunctions DEF Secret!Base, Empty
<1>2. CASE sync.command.action = "SET"
  <2>1. patched = [k \in DOMAIN data \cup DOMAIN base |-> IF k \in DOMAIN data THEN data[k] ELSE base[k]]
    BY <1>2 DEF Secret!Patched
  <2> HIDE DEF patched, base, data
  <2>2. DOMAIN patched = DOMAIN data \cup DOMAIN base
    BY <2>1
  <2>3. \A k \in DOMAIN patched : patched[k] = IF k \in DOMAIN data THEN data[k] ELSE base[k]
    BY <2>1
  <2>4. patched \in Data
    BY <1>1, <2>1, <2>2, <2>3, DataFunctions DEF data
  <2> QED
    BY <1>1, <1>2, <2>2, <2>3, <2>4 DEF data, patched
<1>3. CASE sync.command.action # "SET"
  <2>1. patched = [k \in DOMAIN base \ DOMAIN data |-> base[k]]
    BY <1>3 DEF Secret!Patched
  <2> HIDE DEF patched, base, data
  <2>2. DOMAIN patched = DOMAIN base \ DOMAIN data
    BY <2>1
  <2>3. \A k \in DOMAIN patched : patched[k] = base[k]
    BY <2>1
  <2>4. patched \in Data
    BY <1>1, <2>1, <2>2, <2>3, DataFunctions
  <2> QED
    BY <1>1, <1>3, <2>2, <2>3, <2>4 DEF data, patched
<1> QED
  BY <1>2, <1>3

----------------------------------------------------------------------------
(* Secret commands.                                                        *)

Running == Secret!Running

SyncOK ==
    /\ secret \in Data \cup {NoSecret}
    /\ stable \subseteq Key /\ quiet \in BOOLEAN
    /\ sync # None =>
        /\ sync \in Running
        /\ sync.success => sync.at = "done"
        /\ sync.at = "get" => ~sync.insertRoot
        /\ sync.at = "create" => sync.command.action = "SET"
        /\ sync.at \in {"patch", "delete"} => sync.command.action \in {"SET", "DELETE"}

\* Before Get, and where it found nothing that a patch could harm, nothing is stable;
\* afterwards a stable key is there unless the command names it.
StableOK ==
    /\ sync = None \/ sync.at \in {"get", "create"} \/ sync.insertRoot => stable = {}
    /\ sync # None => \A k \in stable \ DOMAIN sync.command.data :
        secret # NoSecret /\ k \in DOMAIN secret

\* What is left of a secret that a command means to delete: nothing that was stable.
LeftOver ==
    sync # None /\ sync.at = "delete" =>
        /\ stable \subseteq DOMAIN sync.command.data
        /\ sync.command.action = "SET" => sync.command.data = Empty

\* What an undisturbed command knows of the secret.
QuietOK ==
    sync # None /\ quiet =>
        /\ sync.at = "create" => secret = NoSecret
        /\ sync.at = "patch" => secret # NoSecret /\ sync.insertRoot = (secret = Empty)
        /\ sync.at = "delete" => secret = Empty

SecretInv == SyncOK /\ StableOK /\ LeftOver /\ QuietOK

\* The steps of SecretDone, OthersKeysSurvive and Undisturbed.
DoneStep ==
    sync'.success =>
        CASE sync.command.action = "SET" /\ sync.command.data # << >> ->
                secret' # NoSecret /\ \A k \in DOMAIN sync.command.data :
                    k \in DOMAIN secret' /\ secret'[k] = sync.command.data[k]
          [] sync.command.action = "DELETE" ->
                secret' # NoSecret => DOMAIN sync.command.data \cap DOMAIN secret' = {}
          [] OTHER -> TRUE
SurviveStep ==
    \A k \in stable \ DOMAIN sync.command.data :
        secret' # NoSecret /\ k \in DOMAIN secret' /\ secret'[k] = secret[k]
CleanStep ==
    quiet' /\ sync'.at = "done" =>
        /\ sync.command.action = "SET" => sync'.success
        /\ sync.command.action = "DELETE" /\ sync'.success => secret' # << >>

Kept == SecretInv' /\ DoneStep /\ SurviveStep /\ CleanStep

LEMMA RunningIsSome == None \notin Running
BY CommandsAssumption DEF Running

LEMMA EndedIsRunning ==
    ASSUME sync \in Running, NEW b \in BOOLEAN
    PROVE  /\ Secret!Ended(b) \in Running
           /\ Secret!Ended(b).at = "done" /\ Secret!Ended(b).success = b
           /\ Secret!Ended(b).command = sync.command
           /\ Secret!Ended(b).insertRoot = sync.insertRoot
BY DEF Secret!Ended, Running, Secret!Running

LEMMA GetNotFoundKeeps == SecretInv /\ Secret!GetNotFound => Kept
<1> SUFFICES ASSUME SecretInv, Secret!GetNotFound PROVE Kept
  OBVIOUS
<1> USE DEF Secret!At
<1>1. sync # None /\ sync.at = "get" /\ sync \in Running /\ secret = NoSecret /\ stable = {}
  BY DEF SecretInv, SyncOK, StableOK, Secret!GetNotFound
<1>2. CASE sync.command.action = "SET"
  <2>1. sync' = [sync EXCEPT !.at = "create"]
    BY <1>2 DEF Secret!GetNotFound
  <2> QED
    BY <1>1, <1>2, <2>1
    DEF Kept, SecretInv, SyncOK, StableOK, LeftOver, QuietOK, DoneStep, SurviveStep, CleanStep,
        Secret!GetNotFound, Running, Secret!Running
<1>3. CASE sync.command.action # "SET"
  <2>1. sync' = Secret!Ended(TRUE)
    BY <1>3 DEF Secret!GetNotFound
  <2> QED
    BY <1>1, <1>3, <2>1, EndedIsRunning, RunningIsSome, DataFunctions, CommandsAssumption
    DEF Kept, SecretInv, SyncOK, StableOK, LeftOver, QuietOK, DoneStep, SurviveStep, CleanStep,
        Secret!GetNotFound
<1> QED
  BY <1>2, <1>3

LEMMA GetKeeps == SecretInv /\ Secret!Get => Kept
<1> SUFFICES ASSUME SecretInv, Secret!Get PROVE Kept
  OBVIOUS
<1> USE DEF Secret!At
<1>1. /\ sync # None /\ sync.at = "get" /\ sync \in Running /\ ~sync.success
      /\ ~sync.insertRoot /\ secret \in Data /\ secret # NoSecret /\ stable = {} /\ secret' = secret
      /\ stable' = DOMAIN secret /\ stable' \subseteq Key
  BY DataFunctions DEF SecretInv, SyncOK, StableOK, Secret!Get
<1>2. CASE sync.command.action \in {"SET", "DELETE"}
  <2>1. sync' = [sync EXCEPT !.at = "patch", !.insertRoot = (secret = Empty)]
    BY <1>2 DEF Secret!Get, Empty
  <2>2. /\ sync' \in Running /\ sync'.at = "patch" /\ sync'.insertRoot = (secret = Empty)
        /\ sync'.command = sync.command /\ ~sync'.success
    BY <1>1, <2>1 DEF Running, Secret!Running
  <2> QED
    <3>1. SyncOK'
      BY <1>1, <1>2, <2>2 DEF SecretInv, SyncOK, Secret!Get
    <3>4. StableOK' /\ LeftOver'
      BY <1>1, <2>2, RunningIsSome, DataFunctions DEF StableOK, LeftOver
    <3>2. QuietOK'
      BY <1>1, <2>2, CommandsAssumption DEF QuietOK, SecretInv, Empty, Secret!Empty
    <3>3. DoneStep /\ SurviveStep /\ CleanStep
      BY <1>1, <2>2 DEF DoneStep, SurviveStep, CleanStep
    <3> QED
      BY <3>1, <3>2, <3>3, <3>4 DEF Kept, SecretInv
<1>3. CASE sync.command.action \notin {"SET", "DELETE"}
  <2>1. sync' = Secret!Ended(FALSE)
    BY <1>3 DEF Secret!Get
  <2> QED
    BY <1>1, <1>3, <2>1, EndedIsRunning, RunningIsSome, DataFunctions
    DEF Kept, SecretInv, SyncOK, StableOK, LeftOver, QuietOK, DoneStep, SurviveStep, CleanStep,
        Secret!Get
<1> QED
  BY <1>2, <1>3

\* What is the same for every call that is the last one.
LEMMA EndedKeeps ==
    ASSUME SecretInv, sync # None, NEW b \in BOOLEAN, sync' = Secret!Ended(b),
           secret' \in Data \cup {NoSecret}, stable' = stable, quiet' \in BOOLEAN,
           sync.at \in {"get", "create"} => stable = {},
           SurviveStep
    PROVE  SecretInv'
<1>1. /\ sync' \in Running /\ sync'.at = "done" /\ sync' # None
      /\ sync'.command = sync.command /\ sync'.insertRoot = sync.insertRoot
  BY EndedIsRunning, RunningIsSome DEF SecretInv, SyncOK
<1>2. SyncOK'
  BY <1>1 DEF SecretInv, SyncOK
<1>3. StableOK'
  BY <1>1 DEF SecretInv, StableOK, SurviveStep
<1>4. LeftOver' /\ QuietOK'
  BY <1>1 DEF LeftOver, QuietOK
<1> QED
  BY <1>2, <1>3, <1>4 DEF SecretInv

LEMMA CreateKeeps == SecretInv /\ Secret!Create => Kept
<1> SUFFICES ASSUME SecretInv, Secret!Create PROVE Kept
  OBVIOUS
<1>1. /\ sync # None /\ sync.at = "create" /\ sync \in Running /\ stable = {}
      /\ sync.command.action = "SET" /\ sync.command.data \in Data
  BY DEF SecretInv, SyncOK, StableOK, Secret!Create, Secret!At, Running, Secret!Running,
         Secret!Command, Data
<1>2. /\ secret' = IF secret = NoSecret THEN sync.command.data ELSE secret
      /\ sync' = Secret!Ended(secret = NoSecret)
      /\ stable' = stable /\ quiet' = quiet
  BY DEF Secret!Create
<1>3. (secret = NoSecret) \in BOOLEAN
  OBVIOUS
<1>4. SurviveStep
  BY <1>1 DEF SurviveStep
<1>5. secret' \in Data \cup {NoSecret} /\ quiet' \in BOOLEAN
  BY <1>1, <1>2 DEF SecretInv, SyncOK
<1>6. SecretInv'
  BY <1>1, <1>2, <1>3, <1>4, <1>5, EndedKeeps
<1>7. sync'.at = "done" /\ sync'.success = (secret = NoSecret)
  BY <1>1, <1>2, <1>3, EndedIsRunning
<1>8. DoneStep
  BY <1>1, <1>2, <1>7, CommandsAssumption DEF DoneStep, Data
<1>9. CleanStep
  BY <1>1, <1>2, <1>7 DEF CleanStep, SecretInv, QuietOK
<1> QED
  BY <1>4, <1>6, <1>8, <1>9 DEF Kept

LEMMA PatchRejectedKeeps == SecretInv /\ Secret!PatchRejected => Kept
<1> SUFFICES ASSUME SecretInv, Secret!PatchRejected PROVE Kept
  OBVIOUS
<1>1. /\ sync # None /\ sync.at = "patch" /\ sync \in Running /\ ~Secret!Applies
      /\ sync' = Secret!Ended(FALSE)
      /\ secret' = secret /\ stable' = stable /\ quiet' = quiet
  BY DEF SecretInv, SyncOK, Secret!PatchRejected, Secret!At
<1>2. SurviveStep
  BY <1>1 DEF SurviveStep, SecretInv, StableOK
<1>3. secret' \in Data \cup {NoSecret} /\ quiet' \in BOOLEAN
  BY <1>1 DEF SecretInv, SyncOK
<1>4. SecretInv'
  BY <1>1, <1>2, <1>3, EndedKeeps
<1>5. sync'.at = "done" /\ sync'.success = FALSE
  BY <1>1, EndedIsRunning
<1>6. DoneStep
  BY <1>5 DEF DoneStep
<1>7. ASSUME quiet, sync.command.action = "SET" PROVE FALSE
  <2>1. secret # NoSecret /\ sync.insertRoot = (secret = Empty)
    BY <1>1, <1>7 DEF SecretInv, QuietOK
  <2> QED
    BY <1>1, <1>7, <2>1 DEF Secret!Applies, Empty
<1>8. CleanStep
  BY <1>1, <1>5, <1>7 DEF CleanStep
<1> QED
  BY <1>2, <1>4, <1>6, <1>8 DEF Kept

LEMMA PatchKeeps == SecretInv /\ Secret!Patch => Kept
<1> SUFFICES ASSUME SecretInv, Secret!Patch PROVE Kept
  OBVIOUS
<1> DEFINE patched == Secret!Patched
           data == sync.command.data
<1>1. /\ sync # None /\ sync.at = "patch" /\ sync \in Running /\ Secret!Applies
      /\ secret' = patched /\ stable' = stable /\ quiet' = quiet
      /\ sync' = IF patched = Empty THEN [sync EXCEPT !.at = "delete"] ELSE Secret!Ended(TRUE)
      /\ secret \in Data /\ data \in Data /\ sync.command.action \in {"SET", "DELETE"}
      /\ quiet \in BOOLEAN /\ ~sync.success
  BY DEF SecretInv, SyncOK, Secret!Patch, Secret!At, Secret!Applies, Running, Secret!Running,
         Secret!Command, Data, Empty
<1>2. /\ patched \in Data
      /\ sync.command.action = "SET" =>
           \A k \in DOMAIN data : k \in DOMAIN patched /\ patched[k] = data[k]
      /\ sync.command.action # "SET" => DOMAIN data \cap DOMAIN patched = {}
      /\ ~sync.insertRoot => \A k \in DOMAIN secret \ DOMAIN data :
           k \in DOMAIN patched /\ patched[k] = secret[k]
  BY <1>1, PatchedData
<1> HIDE DEF patched
<1>3. patched # NoSecret
  BY <1>2, CommandsAssumption DEF Data
<1>4. SurviveStep
  BY <1>1, <1>2, <1>3 DEF SurviveStep, SecretInv, StableOK
<1>5. CASE patched = Empty
  <2>1. /\ sync' \in Running /\ sync'.at = "delete" /\ sync'.command = sync.command
        /\ sync'.insertRoot = sync.insertRoot /\ sync'.success = sync.success /\ sync' # None
    BY <1>1, <1>5, RunningIsSome DEF Running, Secret!Running
  <2>2. SyncOK'
    BY <1>1, <1>2, <2>1 DEF SyncOK, SecretInv
  <2>3. StableOK' /\ QuietOK'
    BY <1>1, <1>4, <1>5, <2>1 DEF SecretInv, StableOK, SurviveStep, QuietOK
  <2>4. stable \subseteq DOMAIN data
    BY <1>1, <1>4, <1>5, DataFunctions DEF SurviveStep
  <2>5. sync.command.action = "SET" => data = Empty
    BY <1>1, <1>2, <1>5, DataFunctions
  <2>6. LeftOver'
    BY <1>1, <2>1, <2>4, <2>5 DEF LeftOver
  <2> QED
    BY <1>1, <1>4, <2>1, <2>2, <2>3, <2>6 DEF Kept, SecretInv, DoneStep, CleanStep
<1>6. CASE patched # Empty
  <2>1. sync' = Secret!Ended(TRUE)
    BY <1>1, <1>6
  <2>2. sync'.at = "done" /\ sync'.success = TRUE
    BY <1>1, <2>1, EndedIsRunning
  <2>3. SecretInv'
    BY <1>1, <1>2, <1>4, <2>1, EndedKeeps
  <2>4. DoneStep
    BY <1>1, <1>2, <1>3 DEF DoneStep
  <2>5. CleanStep
    BY <1>1, <1>6, <2>2, DataFunctions DEF CleanStep
  <2> QED
    BY <1>4, <2>3, <2>4, <2>5 DEF Kept
<1> QED
  BY <1>5, <1>6

LEMMA DeleteKeeps == SecretInv /\ Secret!Delete => Kept
<1> SUFFICES ASSUME SecretInv, Secret!Delete PROVE Kept
  OBVIOUS
<1>1. /\ sync # None /\ sync.at = "delete" /\ sync \in Running
      /\ secret' = NoSecret /\ sync' = Secret!Ended(secret # NoSecret)
      /\ stable' = stable /\ quiet' = quiet /\ quiet' \in BOOLEAN
      /\ stable \subseteq DOMAIN sync.command.data
      /\ sync.command.action = "SET" => sync.command.data = Empty
      /\ sync.command.action \in {"SET", "DELETE"}
  BY DEF SecretInv, SyncOK, LeftOver, Secret!Delete, Secret!At
<1>2. SurviveStep
  BY <1>1 DEF SurviveStep
<1>3. (secret # NoSecret) \in BOOLEAN
  OBVIOUS
<1>4. SecretInv'
  BY <1>1, <1>2, <1>3, EndedKeeps
<1>5. sync'.at = "done" /\ sync'.success = (secret # NoSecret)
  BY <1>1, <1>3, EndedIsRunning
<1>6. DoneStep
  BY <1>1, DataFunctions DEF DoneStep
<1>7. quiet => secret # NoSecret
  BY <1>1, DataFunctions DEF SecretInv, QuietOK
<1>8. CleanStep
  BY <1>1, <1>5, <1>7, DataFunctions DEF CleanStep
<1> QED
  BY <1>2, <1>4, <1>6, <1>8 DEF Kept

LEMMA FailsKeeps == SecretInv /\ Secret!Fails => Kept
<1> SUFFICES ASSUME SecretInv, Secret!Fails PROVE Kept
  OBVIOUS
<1> DEFINE Failed(effect) == Secret!CallFails(effect)
<1>1. ASSUME NEW effect, Failed(effect), sync # None,
             sync.at \in {"get", "create"} => stable = {},
             effect \in Data \cup {NoSecret},
             \A k \in stable \ DOMAIN sync.command.data :
                effect # NoSecret /\ k \in DOMAIN effect /\ effect[k] = secret[k]
      PROVE  Kept
  <2>1. /\ sync' = Secret!Ended(FALSE) /\ stable' = stable /\ quiet' = FALSE
        /\ secret' \in {secret, effect}
    BY <1>1 DEF Secret!CallFails
  <2>2. SurviveStep
    BY <1>1, <2>1 DEF SurviveStep, SecretInv, StableOK
  <2>3. secret' \in Data \cup {NoSecret}
    BY <1>1, <2>1 DEF SecretInv, SyncOK
  <2>4. SecretInv'
    BY <1>1, <2>1, <2>2, <2>3, EndedKeeps
  <2>5. sync'.success = FALSE
    BY <1>1, <2>1, EndedIsRunning DEF SecretInv, SyncOK
  <2> QED
    BY <2>1, <2>2, <2>4, <2>5 DEF Kept, DoneStep, CleanStep
<1>2. sync # None /\ sync \in Running /\ sync.command.data \in Data
      /\ secret \in Data \cup {NoSecret}
  BY DEF Secret!Fails, Secret!At, SecretInv, SyncOK, Running, Secret!Running, Secret!Command, Data
<1>3. CASE Secret!At("get") /\ Secret!CallFails(secret)
  <2>1. stable = {}
    BY <1>3 DEF Secret!At, SecretInv, StableOK
  <2> QED
    BY <1>1, <1>2, <1>3, <2>1
<1>4. CASE Secret!At("create")
           /\ Secret!CallFails(IF secret = NoSecret THEN sync.command.data ELSE secret)
  <2>1. stable = {}
    BY <1>4 DEF Secret!At, SecretInv, StableOK
  <2> QED
    BY <1>1, <1>2, <1>4, <2>1
<1>5. CASE Secret!At("patch")
           /\ Secret!CallFails(IF Secret!Applies THEN Secret!Patched ELSE secret)
  <2>1. sync.at = "patch" /\ \A k \in stable \ DOMAIN sync.command.data :
            secret # NoSecret /\ k \in DOMAIN secret
    BY <1>2, <1>5 DEF Secret!At, SecretInv, StableOK
  <2>2. CASE Secret!Applies
    <3>1. secret # NoSecret /\ secret \in Data
      BY <1>2, <2>2 DEF Secret!Applies
    <3>2. sync.insertRoot => stable = {}
      BY DEF SecretInv, StableOK
    <3>3. /\ Secret!Patched \in Data
          /\ ~sync.insertRoot => \A k \in DOMAIN secret \ DOMAIN sync.command.data :
                k \in DOMAIN Secret!Patched /\ Secret!Patched[k] = secret[k]
      BY <1>2, <3>1, PatchedData
    <3>4. Secret!Patched # NoSecret
      BY <3>3, CommandsAssumption DEF Data
    <3>5. Secret!CallFails(Secret!Patched)
      BY <1>5, <2>2
    <3> QED
      BY <1>1, <1>2, <2>1, <3>2, <3>3, <3>4, <3>5
  <2>3. CASE ~Secret!Applies
    <3>1. Secret!CallFails(secret)
      BY <1>5, <2>3
    <3> QED
      BY <1>1, <1>2, <2>1, <3>1
  <2> QED
    BY <2>2, <2>3
<1>6. CASE Secret!At("delete") /\ Secret!CallFails(NoSecret)
  <2>1. sync.at = "delete" /\ stable \subseteq DOMAIN sync.command.data
    BY <1>6 DEF Secret!At, SecretInv, LeftOver
  <2> QED
    BY <1>1, <1>2, <1>6, <2>1
<1> QED
  BY <1>3, <1>4, <1>5, <1>6 DEF Secret!Fails

LEMMA SecretStepKeeps == SecretInv /\ Secret!Step => Kept
BY GetNotFoundKeeps, GetKeeps, CreateKeeps, PatchRejectedKeeps, PatchKeeps, DeleteKeeps, FailsKeeps
DEF Secret!Step

LEMMA OtherWritesKeeps == SecretInv /\ Secret!OtherWrites => SecretInv'
<1> SUFFICES ASSUME SecretInv, Secret!OtherWrites PROVE SecretInv'
  OBVIOUS
<1>1. sync' = sync /\ secret' \in Data \cup {NoSecret} /\ quiet' = (sync = None)
  BY DEF Secret!OtherWrites, Data
<1>2. stable' \subseteq stable
  BY DEF Secret!OtherWrites
<1>3. \A k \in stable' : secret' # NoSecret /\ k \in DOMAIN secret'
  BY DEF Secret!OtherWrites
<1>4. SyncOK'
  BY <1>1, <1>2 DEF SecretInv, SyncOK
<1>5. StableOK'
  BY <1>1, <1>2, <1>3 DEF SecretInv, StableOK
<1>6. LeftOver' /\ QuietOK'
  BY <1>1, <1>2 DEF SecretInv, LeftOver, QuietOK
<1> QED
  BY <1>4, <1>5, <1>6 DEF SecretInv

LEMMA StartKeeps ==
    ASSUME SecretInv, NEW command \in Secret!Command, Secret!Start(command)
    PROVE  SecretInv'
<1>1. /\ stable = {} /\ stable' = {} /\ secret' = secret /\ quiet' = quiet
      /\ sync' \in Running /\ sync'.at = "get" /\ ~sync'.insertRoot /\ ~sync'.success
  BY DEF SecretInv, StableOK, Secret!Start, Running, Secret!Running
<1> QED
  BY <1>1 DEF SecretInv, SyncOK, StableOK, LeftOver, QuietOK

LEMMA ForgetKeeps == SecretInv /\ Secret!Forget => SecretInv'
BY DEF SecretInv, SyncOK, StableOK, LeftOver, QuietOK, Secret!Forget
----------------------------------------------------------------------------
(* Rollout commands.                                                       *)

\* What an action has done by the time its command gets to a patch.
Before(action) == IF action = "RESUME" THEN {"unpaused"} ELSE {}

RolloutInv ==
    /\ Rollout!TypeOK
    /\ patching # None =>
        /\ patching.at = "spec" => patching.command.action \in {"RESUME", "PAUSE"}
        /\ patching.at \in {"status", "base"} =>
            /\ patching.command.action \in {"RESUME", "ABORT"}
            /\ Before(patching.command.action) \subseteq did

RolloutStepDone ==
    patching'.success => patching.absent \/ Needed(patching.command.action) \subseteq did'

LEMMA RolloutStepKeeps == RolloutInv /\ Rollout!Step => RolloutInv' /\ RolloutStepDone
<1> SUFFICES ASSUME RolloutInv, Rollout!Step PROVE RolloutInv' /\ RolloutStepDone
  OBVIOUS
<1>1. /\ patching # None /\ patching \in Rollout!Running /\ patching.at # "done"
      /\ patching.success = FALSE
      /\ rollout \in Rollout!Rollouts \cup {Gone} /\ subresource \in BOOLEAN
      /\ did \subseteq {"paused", "unpaused", "aborted", "retried"}
  BY DEF RolloutInv, Rollout!TypeOK, Rollout!Step, Rollout!SpecPatch, Rollout!SpecNotFound,
         Rollout!StatusPatch, Rollout!StatusNotFound, Rollout!BasePatch, Rollout!BaseNotFound,
         Rollout!Fails, Rollout!At, Rollout!Running
<1>2. \A b \in BOOLEAN :
        /\ Rollout!Ended(b) \in Rollout!Running /\ Rollout!Ended(b).at = "done"
        /\ Rollout!Ended(b).success = b
  BY <1>1 DEF Rollout!Ended, Rollout!Running
<1>3. rollout # Gone =>
        /\ Rollout!SpecPatched \in Rollout!Rollouts
        /\ Rollout!SpecPatched.paused = (patching.command.action = "PAUSE")
        /\ Rollout!StatusPatched \in Rollout!Rollouts
        /\ Rollout!StatusPatched.abort = (patching.command.action = "ABORT")
  BY <1>1 DEF Rollout!SpecPatched, Rollout!StatusPatched, Rollout!Rollouts
<1>4. CASE Rollout!SpecPatch
  <2>1. /\ rollout # Gone /\ patching.at = "spec" /\ rollout' = Rollout!SpecPatched
        /\ patching.command.action \in {"RESUME", "PAUSE"} /\ subresource' = subresource
        /\ did' = did \cup {IF Rollout!SpecPatched.paused THEN "paused" ELSE "unpaused"}
    BY <1>4 DEF Rollout!SpecPatch, Rollout!At, RolloutInv
  <2>2. did' = did \cup {IF patching.command.action = "PAUSE" THEN "paused" ELSE "unpaused"}
    BY <1>3, <2>1
  <2>3. CASE patching.command.action = "RESUME"
    <3>1. patching' = [patching EXCEPT !.at = "status"]
      BY <1>4, <2>3 DEF Rollout!SpecPatch
    <3>2. /\ patching' \in Rollout!Running /\ patching'.at = "status"
          /\ patching'.command = patching.command /\ patching'.success = FALSE
      BY <1>1, <3>1 DEF Rollout!Running
    <3>3. RolloutInv'
      BY <1>1, <1>3, <2>1, <2>2, <2>3, <3>2 DEF RolloutInv, Rollout!TypeOK, Before
    <3> QED
      BY <3>2, <3>3 DEF RolloutStepDone
  <2>4. CASE patching.command.action = "PAUSE"
    <3>1. patching' = Rollout!Ended(TRUE)
      BY <1>4, <2>4 DEF Rollout!SpecPatch
    <3>2. RolloutInv'
      BY <1>1, <1>2, <1>3, <2>1, <2>2, <2>4, <3>1 DEF RolloutInv, Rollout!TypeOK
    <3>3. Needed(patching.command.action) \subseteq did'
      BY <2>2, <2>4 DEF Needed
    <3> QED
      BY <3>2, <3>3 DEF RolloutStepDone
  <2> QED
    BY <2>1, <2>3, <2>4
<1>5. CASE Rollout!SpecNotFound \/ Rollout!BaseNotFound
  <2>1. patching' = Rollout!Ended(FALSE) /\ UNCHANGED <<rollout, subresource, did>>
    BY <1>5 DEF Rollout!SpecNotFound, Rollout!BaseNotFound
  <2> QED
    BY <1>1, <1>2, <2>1 DEF RolloutInv, RolloutStepDone, Rollout!TypeOK
<1>6. CASE Rollout!StatusPatch
  <2>1. /\ rollout # Gone /\ patching.at = "status" /\ rollout' = Rollout!StatusPatched
        /\ patching.command.action \in {"RESUME", "ABORT"} /\ subresource' = subresource
        /\ Before(patching.command.action) \subseteq did
        /\ did' = did \cup {IF Rollout!StatusPatched.abort THEN "aborted" ELSE "retried"}
        /\ patching' = Rollout!Ended(TRUE)
    BY <1>1, <1>6 DEF Rollout!StatusPatch, Rollout!At, RolloutInv
  <2>2. did' = did \cup {IF patching.command.action = "ABORT" THEN "aborted" ELSE "retried"}
    BY <1>3, <2>1
  <2>3. Needed(patching.command.action) \subseteq did'
    BY <2>1, <2>2 DEF Needed, Before
  <2>4. RolloutInv'
    BY <1>1, <1>2, <1>3, <2>1, <2>2 DEF RolloutInv, Rollout!TypeOK
  <2> QED
    BY <2>3, <2>4 DEF RolloutStepDone
<1>7. CASE Rollout!StatusNotFound
  <2>1. /\ patching.at = "status" /\ (rollout = Gone \/ ~subresource)
        /\ patching' = [patching EXCEPT !.at = "base", !.absent = (rollout = Gone)]
        /\ UNCHANGED <<rollout, subresource, did>>
    BY <1>7 DEF Rollout!StatusNotFound, Rollout!At
  <2>2. /\ patching' \in Rollout!Running /\ patching'.at = "base"
        /\ patching'.command = patching.command /\ patching'.success = FALSE
        /\ patching'.absent = (rollout = Gone)
    BY <1>1, <2>1 DEF Rollout!Running
  <2>3. RolloutInv'
    BY <1>1, <2>1, <2>2 DEF RolloutInv, Rollout!TypeOK
  <2> QED
    BY <2>2, <2>3 DEF RolloutStepDone
<1>8. CASE Rollout!BasePatch
  <2>1. /\ rollout # Gone /\ patching.at = "base" /\ patching' = Rollout!Ended(TRUE)
        /\ rollout' = IF subresource THEN rollout ELSE Rollout!StatusPatched
        /\ did' = IF subresource THEN did
                  ELSE did \cup {IF Rollout!StatusPatched.abort THEN "aborted" ELSE "retried"}
        /\ patching.command.action \in {"RESUME", "ABORT"} /\ subresource' = subresource
        /\ Before(patching.command.action) \subseteq did
        /\ patching.absent \/ ~subresource
    BY <1>1, <1>8 DEF Rollout!BasePatch, Rollout!At, RolloutInv, Rollout!TypeOK
  <2>2. ~subresource => Needed(patching.command.action) \subseteq did'
    BY <1>3, <2>1 DEF Needed, Before
  <2>3. RolloutInv'
    BY <1>1, <1>2, <1>3, <2>1 DEF RolloutInv, Rollout!TypeOK
  <2> QED
    BY <2>1, <2>2, <2>3 DEF RolloutStepDone
<1>9. CASE Rollout!Fails
  <2>1. patching' = Rollout!Ended(FALSE) /\ UNCHANGED <<subresource, did>>
    BY <1>9 DEF Rollout!Fails, Rollout!CallFails
  <2>2. rollout' \in Rollout!Rollouts \cup {Gone}
    BY <1>1, <1>3, <1>9 DEF Rollout!Fails, Rollout!CallFails
  <2> QED
    BY <1>1, <1>2, <2>1, <2>2 DEF RolloutInv, RolloutStepDone, Rollout!TypeOK
<1> QED
  BY <1>4, <1>5, <1>6, <1>7, <1>8, <1>9 DEF Rollout!Step

LEMMA RolloutStartKeeps ==
    ASSUME RolloutInv, NEW command \in Rollout!Command, Rollout!Start(command)
    PROVE  RolloutInv'
<1>1. /\ patching' = [at |-> Rollout!First(command.action), command |-> command,
                      absent |-> FALSE, success |-> FALSE]
      /\ UNCHANGED <<rollout, subresource, did>>
  BY DEF Rollout!Start
<1>2. patching' \in Rollout!Running
  BY <1>1 DEF Rollout!Running, Rollout!First
<1>3. did' = did /\ rollout' = rollout /\ subresource' = subresource
  BY <1>1
<1>4. /\ patching'.at = "spec" => command.action \in {"RESUME", "PAUSE"}
      /\ patching'.at = "status" => command.action = "ABORT"
      /\ patching'.at # "base" /\ patching'.success = FALSE /\ patching'.command = command
  BY <1>1 DEF Rollout!First
<1> QED
  BY <1>2, <1>3, <1>4 DEF RolloutInv, Rollout!TypeOK, Before

LEMMA RolloutForgetKeeps == RolloutInv /\ Rollout!Forget => RolloutInv'
BY DEF RolloutInv, Rollout!TypeOK, Rollout!Forget

LEMMA OtherChangesKeeps == RolloutInv /\ Rollout!OtherChanges => RolloutInv'
BY DEF RolloutInv, Rollout!TypeOK, Rollout!OtherChanges
----------------------------------------------------------------------------
(* The handler, one command after the other.                               *)

Item == [command : Command, id : Nat \X Nat]

Counters ==
    /\ changes \in 0 .. MaxChanges /\ faults \in 0 .. MaxFaults
    /\ received \in 0 .. MaxDirectives /\ died \subseteq 1 .. received

OneAtATime ==
    /\ sync # None => todo # <<>> /\ sync.command = Head(todo).command /\ patching = None
    /\ patching # None => todo # <<>> /\ patching.command = Head(todo).command
    /\ todo # << >> => received # 0

CommandsInv == SecretInv /\ RolloutInv /\ todo \in Seq(Item) /\ Counters /\ OneAtATime

LEMMA InvIsTyped == CommandsInv => TypeOK
BY DEF CommandsInv, SecretInv, SyncOK, RolloutInv, Counters, OneAtATime, TypeOK, Secret!TypeOK,
       Running, Data

LEMMA BoundsAreNumbers == MaxDirectives \in Nat /\ MaxChanges \in Nat /\ MaxFaults \in Nat
BY CommandsAssumption

\* What a step of SecretSync leaves alone or counts.
LEMMA SecretStepSame ==
    ASSUME SecretInv, Counters, Secret!Step
    PROVE  /\ sync # None /\ sync.at # "done" /\ sync'.command = sync.command
           /\ changes' = changes /\ faults' \in 0 .. MaxFaults
<1>1. sync # None /\ sync \in Running /\ sync.at # "done"
  BY DEF SecretInv, SyncOK, Secret!Step, Secret!GetNotFound, Secret!Get, Secret!Create,
         Secret!PatchRejected, Secret!Patch, Secret!Delete, Secret!Fails, Secret!At
<1>2. \A b \in BOOLEAN : Secret!Ended(b).command = sync.command
  BY <1>1, EndedIsRunning
<1>3. CASE Secret!Fails
  <2>1. sync' = Secret!Ended(FALSE) /\ changes' = changes
        /\ faults < MaxFaults /\ faults' = faults + 1
    BY <1>3 DEF Secret!Fails, Secret!CallFails
  <2>2. sync'.command = sync.command
    BY <1>2, <2>1
  <2>3. faults' \in 0 .. MaxFaults
    BY <2>1, BoundsAreNumbers DEF Counters
  <2> QED
    BY <1>1, <2>1, <2>2, <2>3
<1>4. CASE ~Secret!Fails
  <2>1. changes' = changes /\ faults' = faults
    BY <1>4 DEF Secret!Step, Secret!GetNotFound, Secret!Get, Secret!Create,
                Secret!PatchRejected, Secret!Patch, Secret!Delete
  <2>2. ASSUME Secret!Get
        PROVE  sync'.command = sync.command
    BY <1>1, <1>2, <2>2 DEF Secret!Get, Running, Secret!Running
  <2>3. ASSUME Secret!GetNotFound \/ Secret!Patch
        PROVE  sync'.command = sync.command
    BY <1>1, <1>2, <2>3 DEF Secret!GetNotFound, Secret!Patch, Running, Secret!Running
  <2>4. ASSUME Secret!Create \/ Secret!PatchRejected \/ Secret!Delete
        PROVE  sync'.command = sync.command
    BY <1>2, <2>4 DEF Secret!Create, Secret!PatchRejected, Secret!Delete
  <2> QED
    BY <1>1, <1>4, <2>1, <2>2, <2>3, <2>4 DEF Counters, Secret!Step
<1> QED
  BY <1>3, <1>4

LEMMA RolloutStepSame ==
    ASSUME RolloutInv, Counters, Rollout!Step
    PROVE  /\ patching # None /\ patching.at # "done" /\ patching'.command = patching.command
           /\ changes' = changes /\ faults' \in 0 .. MaxFaults
<1>1. patching # None /\ patching \in Rollout!Running /\ patching.at # "done"
  BY DEF RolloutInv, Rollout!TypeOK, Rollout!Fails, Rollout!At, Rollout!Step, Rollout!SpecPatch, Rollout!SpecNotFound,
         Rollout!StatusPatch, Rollout!StatusNotFound, Rollout!BasePatch, Rollout!BaseNotFound
<1>2. \A b \in BOOLEAN : Rollout!Ended(b).command = patching.command
  BY <1>1 DEF Rollout!Ended, Rollout!Running
<1>3. CASE Rollout!Fails
  <2>1. patching' = Rollout!Ended(FALSE) /\ changes' = changes
        /\ faults < MaxFaults /\ faults' = faults + 1
    BY <1>3 DEF Rollout!Fails, Rollout!CallFails
  <2>2. patching'.command = patching.command
    BY <1>2, <2>1
  <2>3. faults' \in 0 .. MaxFaults
    BY <2>1, BoundsAreNumbers DEF Counters
  <2> QED
    BY <1>1, <2>1, <2>2, <2>3
<1>4. CASE ~Rollout!Fails
  <2>1. changes' = changes /\ faults' = faults
    BY <1>4
    DEF Rollout!Step, Rollout!SpecPatch, Rollout!SpecNotFound,
         Rollout!StatusPatch, Rollout!StatusNotFound, Rollout!BasePatch, Rollout!BaseNotFound
  <2>2. ASSUME Rollout!StatusNotFound
        PROVE  patching'.command = patching.command
    BY <1>1, <2>2 DEF Rollout!Running, Rollout!StatusNotFound
  <2>3. ASSUME Rollout!SpecPatch
        PROVE  patching'.command = patching.command
    BY <1>1, <1>2, <2>3 DEF Rollout!Running, Rollout!SpecPatch
  <2>4. ASSUME Rollout!SpecNotFound \/ Rollout!BaseNotFound
        PROVE  patching'.command = patching.command
    <3>1. patching' = Rollout!Ended(FALSE)
      BY <2>4 DEF Rollout!SpecNotFound, Rollout!BaseNotFound
    <3> QED
      BY <1>2, <3>1
  <2>7. ASSUME Rollout!StatusPatch \/ Rollout!BasePatch
        PROVE  patching'.command = patching.command
    <3>1. patching' = Rollout!Ended(TRUE)
      BY <2>7 DEF Rollout!StatusPatch, Rollout!BasePatch
    <3> QED
      BY <1>2, <3>1
  <2>5. patching'.command = patching.command
    BY <1>4, <2>2, <2>3, <2>4, <2>7 DEF Rollout!Step
  <2>6. faults' \in 0 .. MaxFaults
    BY <2>1 DEF Counters
  <2> QED
    BY <1>1, <2>1, <2>5, <2>6
<1> QED
  BY <1>3, <1>4

\* What each property says of a step.
Promised ==
    /\ SecretCall => DoneStep /\ SurviveStep /\ CleanStep
    /\ patching # None /\ patching.at # "done" /\ todo' = todo => RolloutStepDone

LEMMA SecretIdle ==
    SecretInv /\ UNCHANGED secretVars =>
        SecretInv' /\ (SecretCall => DoneStep /\ SurviveStep /\ CleanStep)
<1> SUFFICES ASSUME SecretInv, UNCHANGED secretVars
             PROVE SecretInv' /\ (SecretCall => DoneStep /\ SurviveStep /\ CleanStep)
  OBVIOUS
<1>1. secret' = secret /\ sync' = sync /\ stable' = stable /\ quiet' = quiet
  BY DEF secretVars
<1>2. SecretInv'
  BY <1>1 DEF SecretInv, SyncOK, StableOK, LeftOver, QuietOK
<1>3. SecretCall => ~sync'.success /\ sync'.at # "done"
  BY <1>1 DEF SecretCall, SecretInv, SyncOK
<1> QED
  BY <1>1, <1>2, <1>3
  DEF SecretInv, StableOK, SecretCall, DoneStep, SurviveStep, CleanStep

LEMMA RolloutIdle ==
    RolloutInv /\ UNCHANGED rolloutVars =>
        RolloutInv' /\ (patching # None /\ patching.at # "done" => RolloutStepDone)
<1> SUFFICES ASSUME RolloutInv, UNCHANGED rolloutVars
             PROVE  RolloutInv' /\ (patching # None /\ patching.at # "done" => RolloutStepDone)
  OBVIOUS
<1>1. rollout' = rollout /\ subresource' = subresource /\ patching' = patching /\ did' = did
  BY DEF rolloutVars
<1> QED
  BY <1>1 DEF RolloutInv, Rollout!TypeOK, RolloutStepDone

\* The first command of a list, and what is left without it.
LEMMA TodoFacts ==
    ASSUME todo \in Seq(Item), todo # << >>
    PROVE  Head(todo).command \in Command /\ Tail(todo) \in Seq(Item)
<1>1. Head(todo) \in Item /\ Tail(todo) \in Seq(Item)
  BY HeadTailProperties
<1> QED
  BY <1>1 DEF Item

LEMMA KindOfCommand ==
    ASSUME NEW command \in Command
    PROVE  /\ command.kind = "secret" => command \in Secret!Command
           /\ command.kind = "rollout" => command \in Rollout!Command
<1>1. command \in Secret!Command => command.kind = "secret"
  BY DEF Secret!Command
<1>2. command \in Rollout!Command => command.kind = "rollout"
  BY DEF Rollout!Command
<1>3. command \in [kind : {"message"}, complete : BOOLEAN] => command.kind = "message"
  OBVIOUS
<1> QED
  BY <1>1, <1>2, <1>3 DEF Command

LEMMA InvInit == Init => CommandsInv
<1> SUFFICES ASSUME Init PROVE CommandsInv
  OBVIOUS
<1>1. SecretInv
  BY DEF Init, Secret!Init, SecretInv, SyncOK, StableOK, LeftOver, QuietOK, Data
<1>2. RolloutInv
  BY DEF Init, Rollout!Init, RolloutInv, Rollout!TypeOK
<1>3. Counters
  BY BoundsAreNumbers DEF Init, Counters
<1>4. todo \in Seq(Item)
  BY DEF Init
<1>5. OneAtATime
  BY DEF Init, Secret!Init, Rollout!Init, OneAtATime
<1> QED
  BY <1>1, <1>2, <1>3, <1>4, <1>5 DEF CommandsInv

LEMMA HandleDirectiveKeeps == CommandsInv /\ HandleDirective => CommandsInv' /\ Promised
<1> SUFFICES ASSUME CommandsInv, HandleDirective PROVE CommandsInv' /\ Promised
  OBVIOUS
<1>1. /\ todo = << >> /\ received < MaxDirectives /\ received' = received + 1
      /\ UNCHANGED secretVars /\ UNCHANGED rolloutVars
      /\ changes' = changes /\ faults' = faults /\ died' = died
  BY DEF HandleDirective, counters
<1>2. sync = None /\ patching = None
  BY <1>1 DEF CommandsInv, OneAtATime
<1>3. Counters'
  BY <1>1, BoundsAreNumbers DEF CommandsInv, Counters
<1>4. todo' \in Seq(Item)
  <2>1. PICK commands \in Directives :
            todo' = [i \in DOMAIN commands |-> [command |-> commands[i], id |-> <<received', i>>]]
    BY DEF HandleDirective
  <2>2. commands \in Seq(Command)
    BY CommandsAssumption
  <2>3. /\ Len(commands) \in Nat /\ DOMAIN commands = 1 .. Len(commands)
        /\ \A i \in 1 .. Len(commands) : commands[i] \in Command
    BY <2>2
  <2>4. received' \in Nat
    BY <1>3, BoundsAreNumbers DEF Counters
  <2>5. \A i \in 1 .. Len(commands) : [command |-> commands[i], id |-> <<received', i>>] \in Item
    BY <2>3, <2>4 DEF Item
  <2>6. todo' \in [1 .. Len(commands) -> Item]
    BY <2>1, <2>3, <2>5
  <2> QED
    BY <2>3, <2>6, SeqDef
<1>5. OneAtATime'
  BY <1>1, <1>2, BoundsAreNumbers DEF CommandsInv, Counters, OneAtATime, secretVars, rolloutVars
<1> QED
  BY <1>1, <1>2, <1>3, <1>4, <1>5, SecretIdle, RolloutIdle DEF CommandsInv, Promised, SecretCall

LEMMA SkipCommandKeeps == CommandsInv /\ SkipCommand => CommandsInv' /\ Promised
<1> SUFFICES ASSUME CommandsInv, SkipCommand PROVE CommandsInv' /\ Promised
  OBVIOUS
<1>1. /\ todo # << >> /\ sync = None /\ patching = None /\ todo' = Tail(todo)
      /\ UNCHANGED secretVars /\ UNCHANGED rolloutVars
      /\ changes' = changes /\ faults' = faults /\ received' = received /\ died' = died
  BY DEF SkipCommand, Waiting, counters
<1>2. todo' \in Seq(Item) /\ Counters'
  BY <1>1, TodoFacts DEF CommandsInv, Counters
<1>3. OneAtATime'
  BY <1>1 DEF CommandsInv, OneAtATime, secretVars, rolloutVars
<1> QED
  BY <1>1, <1>2, <1>3, SecretIdle, RolloutIdle DEF CommandsInv, Promised, SecretCall

LEMMA StartsKeep == CommandsInv /\ (StartSecretSync \/ StartRollout) => CommandsInv' /\ Promised
<1> SUFFICES ASSUME CommandsInv, StartSecretSync \/ StartRollout PROVE CommandsInv' /\ Promised
  OBVIOUS
<1>1. /\ todo # << >> /\ sync = None /\ patching = None /\ todo' = todo
      /\ received' = received /\ died' = died
      /\ Head(todo).command \in Command
  BY TodoFacts DEF StartSecretSync, StartRollout, Waiting, CommandsInv
<1>2. Promised
  BY <1>1 DEF Promised, SecretCall
<1>3. todo' \in Seq(Item)
  BY <1>1 DEF CommandsInv
<1>4. CASE StartSecretSync
  <2>1. /\ Head(todo).command \in Secret!Command /\ Secret!Start(Head(todo).command)
        /\ UNCHANGED rolloutVars /\ patching' = patching
        /\ changes' = changes /\ faults' = faults /\ sync'.command = Head(todo).command
    BY <1>1, <1>4, KindOfCommand DEF StartSecretSync, Secret!Start, rolloutVars
  <2>2. SecretInv'
    BY <2>1, StartKeeps DEF CommandsInv
  <2>3. RolloutInv'
    BY <2>1, RolloutIdle DEF CommandsInv
  <2>4. Counters' /\ OneAtATime'
    BY <1>1, <2>1 DEF CommandsInv, Counters, OneAtATime
  <2> QED
    BY <1>2, <1>3, <2>2, <2>3, <2>4 DEF CommandsInv
<1>5. CASE StartRollout
  <2>1. /\ Head(todo).command \in Rollout!Command /\ Rollout!Start(Head(todo).command)
        /\ UNCHANGED secretVars /\ sync' = sync
        /\ changes' = changes /\ faults' = faults /\ patching'.command = Head(todo).command
    BY <1>1, <1>5, KindOfCommand DEF StartRollout, Rollout!Start, secretVars
  <2>2. RolloutInv'
    BY <2>1, RolloutStartKeeps DEF CommandsInv
  <2>3. SecretInv'
    BY <2>1, SecretIdle DEF CommandsInv
  <2>4. Counters' /\ OneAtATime'
    BY <1>1, <2>1 DEF CommandsInv, Counters, OneAtATime
  <2> QED
    BY <1>2, <1>3, <2>2, <2>3, <2>4 DEF CommandsInv
<1> QED
  BY <1>4, <1>5

LEMMA StepsKeep == CommandsInv /\ (SecretStep \/ RolloutStep) => CommandsInv' /\ Promised
<1> SUFFICES ASSUME CommandsInv, SecretStep \/ RolloutStep PROVE CommandsInv' /\ Promised
  OBVIOUS
<1>1. todo' = todo /\ received' = received /\ died' = died /\ todo' \in Seq(Item)
  BY DEF SecretStep, RolloutStep, CommandsInv
<1>2. CASE SecretStep
  <2>1. Secret!Step /\ UNCHANGED rolloutVars /\ patching' = patching
    BY <1>2 DEF SecretStep, rolloutVars
  <2>2. SecretInv' /\ DoneStep /\ SurviveStep /\ CleanStep
    BY <2>1, SecretStepKeeps DEF CommandsInv, Kept
  <2>3. RolloutInv' /\ (patching # None /\ patching.at # "done" => RolloutStepDone)
    BY <2>1, RolloutIdle DEF CommandsInv
  <2>4. /\ sync # None /\ sync'.command = sync.command
        /\ changes' = changes /\ faults' \in 0 .. MaxFaults
    BY <2>1, SecretStepSame DEF CommandsInv
  <2>5. Counters' /\ OneAtATime'
    BY <1>1, <2>1, <2>4 DEF CommandsInv, Counters, OneAtATime
  <2> QED
    BY <1>1, <2>2, <2>3, <2>5 DEF CommandsInv, Promised
<1>3. CASE RolloutStep
  <2>1. Rollout!Step /\ UNCHANGED secretVars /\ sync' = sync
    BY <1>3 DEF RolloutStep, secretVars
  <2>2. RolloutInv' /\ RolloutStepDone
    BY <2>1, RolloutStepKeeps DEF CommandsInv
  <2>3. SecretInv' /\ (SecretCall => DoneStep /\ SurviveStep /\ CleanStep)
    BY <2>1, SecretIdle DEF CommandsInv
  <2>4. /\ patching # None /\ patching'.command = patching.command
        /\ changes' = changes /\ faults' \in 0 .. MaxFaults
    BY <2>1, RolloutStepSame DEF CommandsInv
  <2>5. Counters' /\ OneAtATime'
    BY <1>1, <2>1, <2>4 DEF CommandsInv, Counters, OneAtATime
  <2> QED
    BY <1>1, <2>2, <2>3, <2>5 DEF CommandsInv, Promised
<1> QED
  BY <1>2, <1>3

\* A command is over: its result was reported.
LEMMA ReportsKeep ==
    CommandsInv /\ (SecretSyncReported \/ RolloutReported) => CommandsInv' /\ Promised
<1> SUFFICES ASSUME CommandsInv, SecretSyncReported \/ RolloutReported
             PROVE  CommandsInv' /\ Promised
  OBVIOUS
<1>1. /\ todo' = Tail(todo) /\ received' = received /\ died' = died
      /\ changes' = changes /\ faults' = faults
  BY DEF SecretSyncReported, RolloutReported, counters
<1>2. CASE SecretSyncReported
  <2>1. /\ sync # None /\ sync.at = "done" /\ Secret!Forget /\ sync' = None
        /\ UNCHANGED rolloutVars /\ patching' = patching
    BY <1>2 DEF SecretSyncReported, Secret!At, Secret!Forget, rolloutVars
  <2>2. todo # << >> /\ patching = None
    BY <2>1 DEF CommandsInv, OneAtATime
  <2>3. todo' \in Seq(Item) /\ Counters' /\ OneAtATime'
    BY <1>1, <2>1, <2>2, TodoFacts DEF CommandsInv, Counters, OneAtATime
  <2> QED
    BY <2>1, <2>2, <2>3, ForgetKeeps, RolloutIdle DEF CommandsInv, Promised, SecretCall
<1>3. CASE RolloutReported
  <2>1. /\ patching # None /\ patching.at = "done" /\ Rollout!Forget /\ patching' = None
        /\ UNCHANGED secretVars /\ sync' = sync
    BY <1>3 DEF RolloutReported, Rollout!At, Rollout!Forget, secretVars
  <2>2. todo # << >> /\ sync = None
    BY <2>1 DEF CommandsInv, OneAtATime
  <2>3. todo' \in Seq(Item) /\ Counters' /\ OneAtATime'
    BY <1>1, <2>1, <2>2, TodoFacts DEF CommandsInv, Counters, OneAtATime
  <2> QED
    BY <2>1, <2>2, <2>3, RolloutForgetKeeps, SecretIdle DEF CommandsInv, Promised, SecretCall
<1> QED
  BY <1>2, <1>3

LEMMA ProcessDiesKeeps == CommandsInv /\ ProcessDies => CommandsInv' /\ Promised
<1> SUFFICES ASSUME CommandsInv, ProcessDies PROVE CommandsInv' /\ Promised
  OBVIOUS
<1>1. /\ todo # << >> /\ todo' = << >> /\ Secret!Forget /\ Rollout!Forget
      /\ sync' = None /\ patching' = None /\ died' = died \cup {received}
      /\ changes' = changes /\ faults' = faults /\ received' = received
  BY DEF ProcessDies, Secret!Forget, Rollout!Forget, counters
<1>2. received \in 1 .. received
  BY <1>1, BoundsAreNumbers DEF CommandsInv, Counters, OneAtATime
<1>3. SecretInv' /\ RolloutInv'
  BY <1>1, ForgetKeeps, RolloutForgetKeeps DEF CommandsInv
<1>4. Counters'
  BY <1>1, <1>2 DEF CommandsInv, Counters
<1>5. todo' \in Seq(Item) /\ OneAtATime'
  BY <1>1 DEF OneAtATime
<1>6. Promised
  BY <1>1 DEF Promised, SecretCall
<1> QED
  BY <1>3, <1>4, <1>5, <1>6 DEF CommandsInv

LEMMA OthersKeep == CommandsInv /\ Others => CommandsInv' /\ Promised
<1> SUFFICES ASSUME CommandsInv, Others PROVE CommandsInv' /\ Promised
  OBVIOUS
<1>1. todo' = todo /\ received' = received /\ died' = died /\ todo' \in Seq(Item)
  BY DEF Others, CommandsInv
<1>2. /\ changes < MaxChanges /\ changes' = changes + 1 /\ faults' = faults
      /\ sync' = sync /\ patching' = patching
  BY DEF Others, Secret!OtherWrites, Rollout!OtherChanges, secretVars, rolloutVars
<1>3. Counters' /\ OneAtATime' /\ changes' # changes
  BY <1>1, <1>2, BoundsAreNumbers DEF CommandsInv, Counters, OneAtATime
<1>4. CASE Secret!OtherWrites /\ UNCHANGED rolloutVars
  <2>1. SecretInv' /\ RolloutInv' /\ (patching # None /\ patching.at # "done" => RolloutStepDone)
    BY <1>4, OtherWritesKeeps, RolloutIdle DEF CommandsInv
  <2> QED
    BY <1>1, <1>3, <2>1 DEF CommandsInv, Promised, SecretCall
<1>5. CASE Rollout!OtherChanges /\ UNCHANGED secretVars
  <2>1. SecretInv' /\ RolloutInv'
    BY <1>5, OtherChangesKeeps, SecretIdle DEF CommandsInv
  <2>2. patching # None /\ patching.at # "done" => RolloutStepDone
    BY <1>2 DEF CommandsInv, RolloutInv, Rollout!TypeOK, RolloutStepDone
  <2> QED
    BY <1>1, <1>3, <2>1, <2>2 DEF CommandsInv, Promised, SecretCall
<1> QED
  BY <1>4, <1>5 DEF Others

LEMMA NextKeeps == CommandsInv /\ [Next]_vars => CommandsInv' /\ Promised
<1> SUFFICES ASSUME CommandsInv, [Next]_vars PROVE CommandsInv' /\ Promised
  OBVIOUS
<1>1. CASE UNCHANGED vars
  <2>1. /\ UNCHANGED secretVars /\ UNCHANGED rolloutVars /\ todo' = todo /\ received' = received
        /\ died' = died /\ changes' = changes /\ faults' = faults
        /\ sync' = sync /\ patching' = patching
    BY <1>1 DEF vars, secretVars, rolloutVars, counters
  <2>2. Counters' /\ OneAtATime' /\ todo' \in Seq(Item)
    BY <2>1 DEF CommandsInv, Counters, OneAtATime
  <2> QED
    BY <2>1, <2>2, SecretIdle, RolloutIdle DEF CommandsInv, Promised
<1> QED
  BY <1>1, HandleDirectiveKeeps, SkipCommandKeeps, StartsKeep, StepsKeep, ReportsKeep,
     ProcessDiesKeeps, OthersKeep
  DEF Next, Handler

LEMMA Inductive == Spec => []CommandsInv
<1>1. Init => CommandsInv
  BY InvInit
<1>2. CommandsInv /\ [Next]_vars => CommandsInv'
  BY NextKeeps
<1> QED
  BY <1>1, <1>2, PTL DEF Spec
----------------------------------------------------------------------------
(* Theorems.                                                               *)

\* Every variable has its type, and only the first unfinished command of a directive
\* runs, whatever others write and whichever calls fail (directive_handler.go:47-57).
THEOREM CommandsTypeCorrect == Spec => []TypeOK
BY Inductive, InvIsTyped, PTL

\* A secret command that reports success has, at its last call, set or deleted what it
\* names (secrets.go:90-145).
THEOREM SecretDoneHolds == Spec => SecretDone
<1>1. CommandsInv /\ [Next]_vars =>
        [SecretCall /\ sync'.success =>
         CASE sync.command.action = "SET" /\ sync.command.data # << >> ->
                secret' # NoSecret /\ \A k \in DOMAIN sync.command.data :
                    k \in DOMAIN secret' /\ secret'[k] = sync.command.data[k]
           [] sync.command.action = "DELETE" ->
                secret' # NoSecret => DOMAIN sync.command.data \cap DOMAIN secret' = {}
           [] OTHER -> TRUE]_vars
  BY NextKeeps DEF Promised, DoneStep
<1> QED
  BY <1>1, Inductive, PTL DEF Spec, SecretDone

\* A command neither loses nor changes a key it does not name, if that key was there at
\* its Get and nobody else has written it since (secrets.go:59-65, 136-142).
THEOREM KeysSurvive == Spec => OthersKeysSurvive
<1>1. CommandsInv /\ [Next]_vars =>
        [SecretCall =>
         \A k \in stable \ DOMAIN sync.command.data :
             secret' # NoSecret /\ k \in DOMAIN secret' /\ secret'[k] = secret[k]]_vars
  BY NextKeeps DEF Promised, SurviveStep
<1> QED
  BY <1>1, Inductive, PTL DEF Spec, OthersKeysSurvive

\* A command that nobody disturbs does all of its work (secrets.go:58-65, 136-142).
THEOREM UndisturbedHolds == Spec => Undisturbed
<1>1. CommandsInv /\ [Next]_vars =>
        [SecretCall /\ quiet' /\ sync'.at = "done" =>
         /\ sync.command.action = "SET" => sync'.success
         /\ sync.command.action = "DELETE" /\ sync'.success => secret' # << >>]_vars
  BY NextKeeps DEF Promised, CleanStep
<1> QED
  BY <1>1, Inductive, PTL DEF Spec, Undisturbed

\* A rollout command that reports success has had all its patches applied, except to a
\* rollout that was made again meanwhile (rollouts.go:60-69).
THEOREM RolloutDoneHolds == Spec => RolloutDone
<1>1. CommandsInv /\ [Next]_vars =>
        [patching # None /\ patching.at # "done" /\ todo' = todo /\ patching'.success =>
         patching.absent \/ Needed(patching.command.action) \subseteq did']_vars
  BY NextKeeps DEF Promised, RolloutStepDone
<1> QED
  BY <1>1, Inductive, PTL DEF Spec, RolloutDone
=============================================================================
