-------------------------- MODULE ArgoStoreProofs --------------------------
(***************************************************************************)
(* A store of ArgoWatch and the callbacks on their way to it make up the   *)
(* informer's cache: proofs for any objects, and any numbers of changes,   *)
(* faults and watches.                                                     *)
(*                                                                         *)
(* The first part is about the operators: what a store is, that the        *)
(* outcome of a sequence of callbacks is what applying them one by one     *)
(* leaves (OutcomeOfNone, OutcomeOfFirst), and that the events of a move   *)
(* from one list of objects to another lead to the other, in whatever      *)
(* order they come (OutcomeOfEvents).  The second part is the invariant,   *)
(* and the third that each step keeps it.                                  *)
(***************************************************************************)
EXTENDS ArgoWatch, SequenceTheorems, FiniteSetTheorems, TLAPS

----------------------------------------------------------------------------
(* Stores, and the outcome of callbacks.                                   *)

\* What the proofs need to know of a sequence of calls: events and callbacks alike.
Call == Event \cup Callback

\* An event or a callback says what has become of an object.
LEMMA CallFacts ==
    ASSUME NEW c \in Call
    PROVE  c.type \in {"added", "updated", "deleted"} /\ c.obj \in Object
BY DEF Call, Event, Callback

\* What an object is made of.
LEMMA ObjectFacts ==
    ASSUME NEW o \in Object
    PROVE  /\ o.name \in Name /\ o.uid \in 1 .. MaxChanges /\ o.revision \in 1 .. MaxChanges
           /\ o.uid <= o.revision
BY DEF Object

\* Stores keep objects by their uid.
Keyed(store) == \A uid \in DOMAIN store : store[uid].uid = uid

\* A store maps some uids to objects ...
LEMMA StoreFacts ==
    ASSUME NEW store \in Store
    PROVE  /\ DOMAIN store \subseteq 1 .. MaxChanges
           /\ \A uid \in DOMAIN store : store[uid] \in Object
BY DEF Store

\* ... and whatever does is one.
LEMMA StoreMade ==
    ASSUME NEW uids \in SUBSET (1 .. MaxChanges), NEW store \in [uids -> Object]
    PROVE  store \in Store
BY DEF Store

\* A callback applied to a store gives one (argo.go:14-41).
LEMMA ApplyStore ==
    ASSUME NEW store \in Store, Keyed(store), NEW c \in Callback
    PROVE  Apply(store, c) \in Store /\ Keyed(Apply(store, c))
<1> DEFINE u == c.obj.uid
           less == [uid \in DOMAIN store \ {u} |-> store[uid]]
           more == [uid \in DOMAIN store \cup {u} |-> IF uid = u THEN c.obj ELSE store[uid]]
<1>1. c.obj \in Object /\ u \in 1 .. MaxChanges
  BY CallFacts, ObjectFacts DEF Call
<1>2. DOMAIN store \subseteq 1 .. MaxChanges /\ \A uid \in DOMAIN store : store[uid] \in Object
  BY StoreFacts
<1>3. less \in Store /\ Keyed(less)
  <2>1. less \in [DOMAIN store \ {u} -> Object] /\ DOMAIN store \ {u} \in SUBSET (1 .. MaxChanges)
    BY <1>2
  <2> QED
    BY <2>1, StoreMade DEF Keyed
<1>4. more \in Store /\ Keyed(more)
  <2>1. more \in [DOMAIN store \cup {u} -> Object] /\ DOMAIN store \cup {u} \in SUBSET (1 .. MaxChanges)
    BY <1>1, <1>2
  <2> QED
    BY <2>1, StoreMade DEF Keyed
<1> QED
  BY <1>3, <1>4 DEF Apply

\* The map made of a list keeps one of its objects for every uid (argo.go:125-131).
LEMMA MapStore ==
    ASSUME NEW objects \in SUBSET Object
    PROVE  LET store == toUntructuredMap(objects)
           IN  /\ store \in Store /\ Keyed(store)
               /\ DOMAIN store = {o.uid : o \in objects}
               /\ \A uid \in DOMAIN store : store[uid] \in objects
<1> DEFINE uids == {o.uid : o \in objects}
           store == toUntructuredMap(objects)
<1>1. store = [uid \in uids |-> CHOOSE o \in objects : o.uid = uid]
  BY DEF toUntructuredMap
<1>2. \A uid \in uids : store[uid] \in objects /\ store[uid].uid = uid
  BY <1>1
<1>3. uids \in SUBSET (1 .. MaxChanges)
  BY ObjectFacts
<1>4. store \in [uids -> Object]
  BY <1>1, <1>2
<1> HIDE DEF store
<1>5. store \in Store /\ DOMAIN store = uids
  BY <1>3, <1>4, StoreMade
<1> QED
  BY <1>2, <1>5 DEF Keyed, store

\* The outcome is told by what the calls are about.
LEMMA SameOutcome ==
    ASSUME NEW store, NEW p, NEW q, DOMAIN p = DOMAIN q,
           \A i \in DOMAIN p : p[i].type = q[i].type /\ p[i].obj = q[i].obj
    PROVE  Outcome(store, p) = Outcome(store, q)
<1>1. \A i \in DOMAIN p : Decides(p, i) <=> Decides(q, i)
  BY DEF Decides
<1>2. Untouched(store, p) = Untouched(store, q)
  BY DEF Untouched
<1> QED
  BY <1>1, <1>2 DEF Outcome

\* Concatenation, by index.
LEMMA Joined ==
    ASSUME NEW S, NEW p \in Seq(S), NEW q \in Seq(S)
    PROVE  /\ p \o q \in Seq(S)
           /\ Len(p) \in Nat /\ Len(q) \in Nat
           /\ DOMAIN p = 1 .. Len(p) /\ DOMAIN q = 1 .. Len(q)
           /\ DOMAIN (p \o q) = 1 .. Len(p) + Len(q)
           /\ \A i \in 1 .. Len(p) : (p \o q)[i] = p[i]
           /\ \A i \in 1 .. Len(q) : (p \o q)[Len(p) + i] = q[i]
           /\ \A i \in 1 .. Len(p) + Len(q) :
                i \in 1 .. Len(p) \/ \E j \in 1 .. Len(q) : i = Len(p) + j
<1>1. /\ p \o q \in Seq(S) /\ Len(p \o q) = Len(p) + Len(q)
      /\ \A i \in 1 .. Len(p) + Len(q) : (p \o q)[i] =
            IF i <= Len(p) THEN p[i] ELSE q[i - Len(p)]
  BY ConcatProperties
<1>2. Len(p) \in Nat /\ Len(q) \in Nat /\ DOMAIN p = 1 .. Len(p) /\ DOMAIN q = 1 .. Len(q)
  OBVIOUS
<1>3. DOMAIN (p \o q) = 1 .. Len(p) + Len(q)
  BY <1>1
<1>4. \A i \in 1 .. Len(p) : i \in 1 .. Len(p) + Len(q) /\ i <= Len(p)
  BY <1>2
<1>5. \A i \in 1 .. Len(q) : Len(p) + i \in 1 .. Len(p) + Len(q) /\ ~(Len(p) + i <= Len(p))
                             /\ (Len(p) + i) - Len(p) = i
  BY <1>2
<1>6. \A i \in 1 .. Len(p) : (p \o q)[i] = p[i]
  BY <1>1, <1>4
<1>7. \A i \in 1 .. Len(q) : (p \o q)[Len(p) + i] = q[i]
  BY <1>1, <1>5
<1>8. ASSUME NEW i \in 1 .. Len(p) + Len(q), i \notin 1 .. Len(p)
      PROVE  \E j \in 1 .. Len(q) : i = Len(p) + j
  <2>1. i - Len(p) \in 1 .. Len(q) /\ i = Len(p) + (i - Len(p))
    BY <1>2, <1>8
  <2> QED
    BY <2>1
<1> QED
  BY <1>1, <1>2, <1>3, <1>6, <1>7, <1>8

\* The first of two laws by which Outcome is what applying the calls in turn gives:
\* nothing to apply leaves the store; ...
LEMMA OutcomeOfNone == ASSUME NEW store PROVE Outcome(store, <<>>) = StateOfWorld(store)
BY DEF Outcome, Untouched, StateOfWorld, Range

\* ... and the first callback may be applied first (argo.go:14-41).
LEMMA OutcomeOfFirst ==
    ASSUME NEW store \in Store, NEW c \in Callback, NEW q \in Seq(Call)
    PROVE  Outcome(store, <<c>> \o q) = Outcome(Apply(store, c), q)
<1> DEFINE p == <<c>> \o q
           u == c.obj.uid
           after == Apply(store, c)
<1>1. <<c>> \in Seq(Call) /\ Len(<<c>>) = 1
  BY DEF Call
<1>2. /\ Len(q) \in Nat /\ DOMAIN q = 1 .. Len(q) /\ DOMAIN p = 1 .. 1 + Len(q)
      /\ p[1] = c /\ \A i \in 1 .. Len(q) : p[1 + i] = q[i]
      /\ \A i \in 1 .. 1 + Len(q) : i = 1 \/ \E j \in 1 .. Len(q) : i = 1 + j
  BY <1>1, Joined
<1> HIDE DEF p
<1>3. \A i \in 1 .. Len(q) : 1 + i \in 1 .. 1 + Len(q) /\ 1 + i > 1
  BY <1>2
<1>4. ASSUME NEW i \in 1 .. Len(q) PROVE Decides(p, 1 + i) <=> Decides(q, i)
  <2>1. /\ ~(1 > 1 + i)
        /\ \A j \in 1 .. Len(q) : (1 + j > 1 + i <=> j > i) /\ 1 + j \in DOMAIN p
    BY <1>2, <1>3
  <2>2. Decides(p, 1 + i) => Decides(q, i)
    BY <1>2, <2>1 DEF Decides
  <2>3. ASSUME Decides(q, i), NEW k \in DOMAIN p, k > 1 + i
        PROVE  p[k].obj.uid # p[1 + i].obj.uid
    <3>1. k = 1 \/ \E j \in 1 .. Len(q) : k = 1 + j
      BY <1>2
    <3>2. PICK j \in 1 .. Len(q) : k = 1 + j
      BY <2>1, <2>3, <3>1
    <3>3. j > i /\ p[k] = q[j] /\ p[1 + i] = q[i] /\ j \in DOMAIN q
      BY <1>2, <2>1, <2>3, <3>2
    <3> QED
      BY <2>3, <3>3 DEF Decides
  <2> QED
    BY <2>2, <2>3 DEF Decides
<1>5. Decides(p, 1) <=> \A i \in 1 .. Len(q) : q[i].obj.uid # u
  <2>1. ASSUME Decides(p, 1), NEW i \in 1 .. Len(q) PROVE q[i].obj.uid # u
    <3>1. 1 + i \in DOMAIN p /\ 1 + i > 1 /\ p[1 + i] = q[i]
      BY <1>2, <1>3
    <3> QED
      BY <1>2, <2>1, <3>1 DEF Decides
  <2>2. ASSUME \A i \in 1 .. Len(q) : q[i].obj.uid # u, NEW k \in DOMAIN p, k > 1
        PROVE  p[k].obj.uid # p[1].obj.uid
    <3>1. PICK j \in 1 .. Len(q) : k = 1 + j
      BY <1>2, <2>2
    <3> QED
      BY <1>2, <2>2, <3>1
  <2> QED
    BY <2>1, <2>2 DEF Decides
<1>6. 1 \in DOMAIN p
  BY <1>2
<1>7. DOMAIN after = (IF c.type = "deleted" THEN DOMAIN store \ {u} ELSE DOMAIN store \cup {u})
  BY DEF Apply
<1>8. /\ \A uid \in DOMAIN after : uid # u => after[uid] = store[uid]
      /\ c.type # "deleted" => after[u] = c.obj
  BY DEF Apply
<1> HIDE DEF after
<1>9. ASSUME NEW uid
      PROVE  uid \in Untouched(store, p) <=> uid \in Untouched(after, q) /\ uid # u
  <2>1. (\A k \in DOMAIN p : p[k].obj.uid # uid)
            <=> u # uid /\ \A i \in DOMAIN q : q[i].obj.uid # uid
    <3>1. ASSUME \A k \in DOMAIN p : p[k].obj.uid # uid, NEW i \in DOMAIN q
          PROVE  q[i].obj.uid # uid
      BY <1>2, <1>3, <3>1
    <3>2. ASSUME u # uid, \A i \in DOMAIN q : q[i].obj.uid # uid, NEW k \in DOMAIN p
          PROVE  p[k].obj.uid # uid
      BY <1>2, <3>2
    <3> QED
      BY <1>2, <1>6, <3>1, <3>2
  <2>2. uid # u => (uid \in DOMAIN store <=> uid \in DOMAIN after)
    BY <1>7
  <2> QED
    BY <2>1, <2>2 DEF Untouched
<1>10. ASSUME NEW x \in Outcome(store, p) PROVE x \in Outcome(after, q)
  <2>1. CASE \E i \in DOMAIN p : x = p[i].obj /\ p[i].type # "deleted" /\ Decides(p, i)
    <3>1. PICK i \in DOMAIN p : x = p[i].obj /\ p[i].type # "deleted" /\ Decides(p, i)
      BY <2>1
    <3>2. CASE i = 1
      <4>1. x = c.obj /\ c.type # "deleted" /\ \A j \in 1 .. Len(q) : q[j].obj.uid # u
        BY <1>2, <1>5, <3>1, <3>2
      <4>2. u \in Untouched(after, q) /\ after[u] = x
        BY <1>2, <1>7, <1>8, <4>1 DEF Untouched
      <4> QED
        BY <4>2 DEF Outcome
    <3>3. CASE \E j \in 1 .. Len(q) : i = 1 + j
      <4>1. PICK j \in 1 .. Len(q) : i = 1 + j
        BY <3>3
      <4>2. j \in DOMAIN q /\ x = q[j].obj /\ q[j].type # "deleted" /\ Decides(q, j)
        BY <1>2, <1>4, <3>1, <4>1
      <4> QED
        BY <4>2 DEF Outcome
    <3> QED
      BY <1>2, <3>1, <3>2, <3>3
  <2>2. CASE \E uid \in Untouched(store, p) : x = store[uid]
    <3>1. PICK uid \in Untouched(store, p) : x = store[uid]
      BY <2>2
    <3>2. uid \in Untouched(after, q) /\ uid # u /\ uid \in DOMAIN after
      BY <1>9, <3>1 DEF Untouched
    <3> QED
      BY <1>8, <3>1, <3>2 DEF Outcome
  <2> QED
    BY <1>10, <2>1, <2>2 DEF Outcome
<1>11. ASSUME NEW x \in Outcome(after, q) PROVE x \in Outcome(store, p)
  <2>1. CASE \E i \in DOMAIN q : x = q[i].obj /\ q[i].type # "deleted" /\ Decides(q, i)
    <3>1. PICK i \in 1 .. Len(q) : x = q[i].obj /\ q[i].type # "deleted" /\ Decides(q, i)
      BY <1>2, <2>1
    <3>2. 1 + i \in DOMAIN p /\ x = p[1 + i].obj /\ p[1 + i].type # "deleted" /\ Decides(p, 1 + i)
      BY <1>2, <1>3, <1>4, <3>1
    <3> QED
      BY <3>2 DEF Outcome
  <2>2. CASE \E uid \in Untouched(after, q) : x = after[uid]
    <3>1. PICK uid \in Untouched(after, q) : x = after[uid]
      BY <2>2
    <3>2. CASE uid = u
      <4>1. c.type # "deleted" /\ x = c.obj /\ \A i \in 1 .. Len(q) : q[i].obj.uid # u
        BY <1>2, <1>7, <1>8, <3>1, <3>2 DEF Untouched
      <4>2. Decides(p, 1) /\ p[1].type # "deleted" /\ p[1].obj = x
        BY <1>2, <1>5, <4>1
      <4> QED
        BY <1>6, <4>2 DEF Outcome
    <3>3. CASE uid # u
      <4>1. uid \in Untouched(store, p) /\ x = store[uid]
        BY <1>8, <1>9, <3>1, <3>3 DEF Untouched
      <4> QED
        BY <4>1 DEF Outcome
    <3> QED
      BY <3>2, <3>3
  <2> QED
    BY <1>11, <2>1, <2>2 DEF Outcome
<1> QED
  BY <1>10, <1>11 DEF p, after

----------------------------------------------------------------------------
(* Events.                                                                 *)

\* A list of objects has one of each name, and one of each uid.
OneEach(objects) == \A o, p \in objects : o.name = p.name \/ o.uid = p.uid => o = p

\* Which events tell of a move from one list to another.
LEMMA EventsFacts ==
    ASSUME NEW old \in SUBSET Object, NEW new \in SUBSET Object
    PROVE  /\ Events(old, new) \subseteq Event
           /\ \A e \in Events(old, new) :
                /\ e.type # "deleted" => e.obj \in new
                /\ e.type = "added" => \A p \in old : p.name # e.obj.name
                /\ e.type = "updated" => e.obj \notin old /\ \E p \in old : p.name = e.obj.name
                /\ e.type = "deleted" => e.obj \in old /\ \A n \in new : n.name # e.obj.name
           /\ \A o \in new : o \in old \/ \E e \in Events(old, new) : e.obj = o /\ e.type # "deleted"
           /\ \A p \in old : (\E n \in new : n.name = p.name)
                                \/ \E e \in Events(old, new) : e.obj = p /\ e.type = "deleted"
<1> DEFINE A == {n \in new : \A p \in old : p.name # n.name}
           U == {n \in new \ old : \E p \in old : p.name = n.name}
           D == {p \in old : \A n \in new : p.name # n.name}
<1>1. \A e : e \in Events(old, new) <=>
            \/ \E o \in A : e = [type |-> "added", obj |-> o]
            \/ \E o \in U : e = [type |-> "updated", obj |-> o]
            \/ \E o \in D : e = [type |-> "deleted", obj |-> o]
  BY DEF Events
<1>2. ASSUME NEW e \in Events(old, new)
      PROVE  /\ e \in Event
             /\ e.type # "deleted" => e.obj \in new
             /\ e.type = "added" => \A p \in old : p.name # e.obj.name
             /\ e.type = "updated" => e.obj \notin old /\ \E p \in old : p.name = e.obj.name
             /\ e.type = "deleted" => e.obj \in old /\ \A n \in new : n.name # e.obj.name
  BY <1>1, <1>2 DEF Event
<1>3. ASSUME NEW o \in new, o \notin old
      PROVE  \E e \in Events(old, new) : e.obj = o /\ e.type # "deleted"
  <2>1. o \in A \/ o \in U
    BY <1>3
  <2>2. CASE o \in A
    <3>1. [type |-> "added", obj |-> o] \in Events(old, new)
      BY <1>1, <2>2
    <3> QED
      BY <3>1
  <2>3. CASE o \in U
    <3>1. [type |-> "updated", obj |-> o] \in Events(old, new)
      BY <1>1, <2>3
    <3> QED
      BY <3>1
  <2> QED
    BY <2>1, <2>2, <2>3
<1>4. ASSUME NEW p \in old, ~ \E n \in new : n.name = p.name
      PROVE  \E e \in Events(old, new) : e.obj = p /\ e.type = "deleted"
  <2>1. [type |-> "deleted", obj |-> p] \in Events(old, new)
    BY <1>1, <1>4
  <2> QED
    BY <2>1
<1> QED
  BY <1>2, <1>3, <1>4

\* No two events are about one object, nor about one name.
LEMMA OneEvent ==
    ASSUME NEW old \in SUBSET Object, NEW new \in SUBSET Object,
           OneEach(old), OneEach(new),
           NEW d \in Events(old, new), NEW e \in Events(old, new), d.obj.name = e.obj.name
    PROVE  d = e
<1>1. d \in Event /\ e \in Event
  BY EventsFacts
<1>2. d.obj = e.obj
  BY <1>1, EventsFacts DEF OneEach, Event
<1>3. d.type = e.type
  BY <1>1, <1>2, EventsFacts DEF Event
<1> QED
  BY <1>1, <1>2, <1>3 DEF Event

\* Finitely many objects, finitely many events.
LEMMA EventsFinite ==
    ASSUME NEW old \in SUBSET Object, NEW new \in SUBSET Object,
           OneEach(old), OneEach(new), IsFiniteSet(old), IsFiniteSet(new)
    PROVE  IsFiniteSet(Events(old, new))
<1> DEFINE E == Events(old, new)
           f == [e \in E |-> e.obj]
<1>1. IsFiniteSet(old \cup new)
  BY FS_Union
<1>2. f \in [E -> old \cup new]
  BY EventsFacts DEF Event
<1>3. \A d, e \in E : f[d] = f[e] => d = e
  BY OneEvent
<1>4. f \in Injection(E, old \cup new)
  BY <1>2, <1>3 DEF Injection, IsInjective
<1> HIDE DEF E, f
<1>5. IsFiniteSet(E)
  BY <1>1, <1>4, FS_Injection
<1> QED
  BY <1>5 DEF E

Enumerates(s, S) ==
    /\ \A i \in DOMAIN s : s[i] \in S
    /\ \A i, j \in DOMAIN s : s[i] = s[j] => i = j
    /\ \A x \in S : \E i \in DOMAIN s : s[i] = x

\* Put into a sequence, the elements of a finite set are all there, each once.
LEMMA InOrder ==
    ASSUME NEW T, NEW S \in SUBSET T, IsFiniteSet(S), NEW s \in SetToSeqs(S)
    PROVE  /\ s \in Seq(T)
           /\ Enumerates(s, S)
<1> DEFINE n == Cardinality(S)
<1>1. n \in Nat
  BY FS_CardinalityType
<1>2. s \in [1 .. n -> S] /\ \A i, j \in 1 .. n : s[i] = s[j] => i = j
  BY DEF SetToSeqs
<1> HIDE DEF n
<1>3. s \in Seq(T) /\ DOMAIN s = 1 .. n
  BY <1>1, <1>2
<1>4. s \in Injection(1 .. n, S)
  BY <1>2 DEF Injection, IsInjective
<1>5. Cardinality(1 .. n) = n
  <2>1. Cardinality(1 .. n) = IF 1 > n THEN 0 ELSE n - 1 + 1
    BY <1>1, FS_Interval
  <2> QED
    BY <1>1, <2>1
<1>6. s \in Surjection(1 .. n, S)
  BY <1>4, <1>5, FS_Injection DEF n
<1>7. \A x \in S : \E i \in 1 .. n : s[i] = x
  BY <1>6 DEF Surjection
<1> QED
  BY <1>2, <1>3, <1>7 DEF Enumerates

\* From one list to another without an object being replaced by one of its name.
Moves(old, new) ==
    /\ OneEach(old) /\ OneEach(new)
    /\ \A o \in old, n \in new : o.uid = n.uid <=> o.name = n.name

\* Two stores that are the same but for what is in the new list.
Follows(store, after, new) ==
    /\ \A uid \in DOMAIN after :
        after[uid] \in new \/ (uid \in DOMAIN store /\ after[uid] = store[uid])
    /\ \A uid \in DOMAIN store :
        store[uid] \in new => uid \in DOMAIN after /\ after[uid] = store[uid]

\* When an informer's cache moves on and the events of this move are queued, in any
\* order, what the calls come to moves on with it, unless an object was replaced by
\* another of its name.
LEMMA OutcomeOfEvents ==
    ASSUME NEW old \in SUBSET Object, NEW new \in SUBSET Object, Moves(old, new),
           NEW store \in Store, Keyed(store), NEW q \in Seq(Call),
           Outcome(store, q) = old,
           NEW after \in Store, Keyed(after), Follows(store, after, new),
           NEW events \in Seq(Call), Enumerates(events, Events(old, new))
    PROVE  Outcome(after, q \o events) = new
<1> USE DEF Moves, Follows, Enumerates
<1> DEFINE E == Events(old, new)
           p == q \o events
           m == Len(q)
           k == Len(events)
<1>1. /\ E \subseteq Call /\ \A e \in E : e \in Event
      /\ \A e \in E : e.type # "deleted" => e.obj \in new
      /\ \A e \in E : e.type = "deleted" => e.obj \in old /\ \A n \in new : n.name # e.obj.name
  BY EventsFacts DEF Call
<1>2. /\ m \in Nat /\ k \in Nat /\ DOMAIN q = 1 .. m /\ DOMAIN events = 1 .. k
      /\ DOMAIN p = 1 .. m + k
      /\ \A i \in 1 .. m : p[i] = q[i]
      /\ \A i \in 1 .. k : p[m + i] = events[i]
      /\ \A i \in 1 .. m + k : i \in 1 .. m \/ \E j \in 1 .. k : i = m + j
  BY Joined
<1>3. \A i \in 1 .. k : events[i] \in E
  BY <1>2
<1> HIDE DEF p, m, k
<1>4. (\A i \in 1 .. m : i \in 1 .. m + k) /\ \A j \in 1 .. k : m + j \in 1 .. m + k
  BY <1>2
\* An object no event is about is in both or in neither.
<1>5. ASSUME NEW o \in old, \A i \in 1 .. k : events[i].obj.uid # o.uid
      PROVE  o \in new
  <2>1. \A e \in E : e.obj.uid # o.uid
    BY <1>2, <1>5
  <2>2. PICK n \in new : n.name = o.name
    BY <2>1, EventsFacts
  <2>3. n.uid = o.uid
    BY <2>2
  <2>4. n \in old
    BY <2>1, <2>3, EventsFacts
  <2> QED
    BY <2>2, <2>4 DEF OneEach
<1>6. ASSUME NEW n \in new, \A i \in 1 .. k : events[i].obj.uid # n.uid
      PROVE  n \in old
  <2>1. \A e \in E : e.obj.uid # n.uid
    BY <1>2, <1>6
  <2> QED
    BY <2>1, EventsFacts
\* Two events about one uid are one.
<1>7. ASSUME NEW d \in E, NEW e \in E, d.obj.uid = e.obj.uid
      PROVE  d = e
  <2>1. d.obj \in old \cup new /\ e.obj \in old \cup new
    BY <1>1 DEF Event
  <2>2. \A o, n \in old \cup new : o.uid = n.uid => o.name = n.name
    BY DEF OneEach
  <2>3. d.obj.name = e.obj.name
    BY <1>7, <2>1, <2>2
  <2> QED
    BY <2>3, OneEvent
<1>8. ASSUME NEW j \in 1 .. k PROVE Decides(p, m + j)
  <2> SUFFICES ASSUME NEW i \in DOMAIN p, i > m + j PROVE p[i].obj.uid # p[m + j].obj.uid
    BY DEF Decides
  <2>1. i \notin 1 .. m
    BY <1>2
  <2>2. PICK l \in 1 .. k : i = m + l
    BY <1>2, <2>1
  <2>3. l # j
    BY <1>2, <2>2
  <2>4. events[l] # events[j]
    BY <1>2, <2>3
  <2>5. p[i] = events[l] /\ p[m + j] = events[j] /\ events[l] \in E /\ events[j] \in E
    BY <1>2, <1>3, <2>2
  <2> QED
    BY <1>7, <2>4, <2>5
<1>9. ASSUME NEW i \in 1 .. m, Decides(q, i), \A j \in 1 .. k : events[j].obj.uid # q[i].obj.uid
      PROVE  Decides(p, i)
  <2> SUFFICES ASSUME NEW l \in DOMAIN p, l > i PROVE p[l].obj.uid # p[i].obj.uid
    BY DEF Decides
  <2>1. CASE l \in 1 .. m
    BY <1>2, <1>9, <2>1 DEF Decides
  <2>2. ASSUME NEW j \in 1 .. k, l = m + j PROVE p[l].obj.uid # p[i].obj.uid
    <3>1. p[l] = events[j] /\ p[i] = q[i]
      BY <1>2, <2>2
    <3> QED
      BY <1>9, <3>1
  <2>3. l \in 1 .. m \/ \E j \in 1 .. k : l = m + j
    BY <1>2
  <2> QED
    BY <2>1, <2>2, <2>3
<1>10. ASSUME NEW x \in Outcome(after, p) PROVE x \in new
  <2>1. CASE \E i \in DOMAIN p : x = p[i].obj /\ p[i].type # "deleted" /\ Decides(p, i)
    <3>1. PICK i \in 1 .. m + k : x = p[i].obj /\ p[i].type # "deleted" /\ Decides(p, i)
      BY <1>2, <2>1
    <3>2. CASE i \in 1 .. m
      <4>1. Decides(q, i)
        BY <1>2, <1>4, <3>1, <3>2 DEF Decides
      <4>2. x \in Outcome(store, q)
        <5>1. i \in DOMAIN q /\ x = q[i].obj /\ q[i].type # "deleted"
          BY <1>2, <3>1, <3>2
        <5> QED
          BY <4>1, <5>1 DEF Outcome
      <4>3. ASSUME NEW j \in 1 .. k PROVE events[j].obj.uid # x.uid
        <5>1. m + j \in DOMAIN p /\ m + j > i /\ p[m + j] = events[j]
          BY <1>2, <1>4, <3>2
        <5>2. p[m + j].obj.uid # p[i].obj.uid
          BY <3>1, <5>1 DEF Decides
        <5> QED
          BY <3>1, <5>1, <5>2
      <4> QED
        BY <1>5, <4>2, <4>3
    <3>3. ASSUME NEW j \in 1 .. k, i = m + j PROVE x \in new
      <4>1. p[i] = events[j] /\ events[j] \in E
        BY <1>2, <1>3, <3>3
      <4> QED
        BY <1>1, <3>1, <4>1
    <3>4. i \in 1 .. m \/ \E j \in 1 .. k : i = m + j
      BY <1>2
    <3> QED
      BY <3>2, <3>3, <3>4
  <2>2. CASE \E uid \in Untouched(after, p) : x = after[uid]
    <3>1. PICK uid \in Untouched(after, p) : x = after[uid]
      BY <2>2
    <3>2. uid \in DOMAIN after /\ \A i \in DOMAIN p : p[i].obj.uid # uid
      BY <3>1 DEF Untouched
    <3>3. CASE after[uid] \in new
      BY <3>1, <3>3
    <3>4. CASE uid \in DOMAIN store /\ after[uid] = store[uid]
      <4>1. x.uid = uid
        BY <3>1, <3>4 DEF Keyed
      <4>2. \A i \in DOMAIN q : q[i].obj.uid # uid
        BY <1>2, <1>4, <3>2
      <4>3. x \in Outcome(store, q)
        BY <3>1, <3>4, <4>2 DEF Outcome, Untouched
      <4>4. \A j \in 1 .. k : events[j].obj.uid # uid
        BY <1>2, <1>4, <3>2
      <4> QED
        BY <1>5, <4>1, <4>3, <4>4
    <3> QED
      BY <3>2, <3>3, <3>4
  <2> QED
    BY <1>10, <2>1, <2>2 DEF Outcome
<1>11. ASSUME NEW n \in new PROVE n \in Outcome(after, p)
  <2>1. CASE \E j \in 1 .. k : events[j].obj.uid = n.uid
    <3>1. PICK j \in 1 .. k : events[j].obj.uid = n.uid
      BY <2>1
    <3> DEFINE e == events[j]
    <3>2. e \in E /\ e \in Event
      BY <1>1, <1>3
    <3>3. e.type # "deleted"
      BY <1>1, <3>1, <3>2
    <3>4. e.obj = n
      <4>1. e.obj \in new
        BY <1>1, <3>2, <3>3
      <4>2. CASE n \in old
        BY <3>1, <4>1, <4>2 DEF OneEach
      <4>3. CASE n \notin old
        <5>1. PICK d \in E : d.obj = n /\ d.type # "deleted"
          BY <4>3, EventsFacts
        <5> QED
          BY <1>7, <3>1, <3>2, <5>1
      <4> QED
        BY <4>2, <4>3
    <3>5. m + j \in DOMAIN p /\ p[m + j] = e /\ Decides(p, m + j)
      BY <1>2, <1>4, <1>8
    <3> QED
      BY <3>3, <3>4, <3>5 DEF Outcome
  <2>2. CASE \A j \in 1 .. k : events[j].obj.uid # n.uid
    <3>1. n \in old
      BY <1>6, <2>2
    <3>2. n \in Outcome(store, q)
      BY <3>1
    <3>3. CASE \E i \in DOMAIN q : n = q[i].obj /\ q[i].type # "deleted" /\ Decides(q, i)
      <4>1. PICK i \in 1 .. m : n = q[i].obj /\ q[i].type # "deleted" /\ Decides(q, i)
        BY <1>2, <3>3
      <4>2. i \in DOMAIN p /\ p[i] = q[i] /\ Decides(p, i)
        BY <1>2, <1>4, <1>9, <2>2, <4>1
      <4> QED
        BY <4>1, <4>2 DEF Outcome
    <3>4. CASE \E uid \in Untouched(store, q) : n = store[uid]
      <4>1. PICK uid \in DOMAIN store : n = store[uid] /\ \A i \in DOMAIN q : q[i].obj.uid # uid
        BY <3>4 DEF Untouched
      <4>2. n.uid = uid /\ uid \in DOMAIN after /\ after[uid] = n
        BY <4>1 DEF Keyed
      <4>3. ASSUME NEW i \in DOMAIN p PROVE p[i].obj.uid # uid
        <5>1. CASE i \in 1 .. m
          BY <1>2, <4>1, <5>1
        <5>2. ASSUME NEW j \in 1 .. k, i = m + j PROVE p[i].obj.uid # uid
          <6>1. p[i] = events[j]
            BY <1>2, <5>2
          <6> QED
            BY <2>2, <4>2, <6>1
        <5>3. i \in 1 .. m \/ \E j \in 1 .. k : i = m + j
          BY <1>2
        <5> QED
          BY <5>1, <5>2, <5>3
      <4> QED
        BY <4>2, <4>3 DEF Outcome, Untouched
    <3> QED
      BY <3>2, <3>3, <3>4 DEF Outcome
  <2> QED
    BY <2>1, <2>2
<1> QED
  BY <1>10, <1>11 DEF p

----------------------------------------------------------------------------
(* The invariant, and the steps of callbacks.                              *)

\* A handler with the mutex has a callback to send.
Sending == mux # None => informer[mux].callback # None

\* Lists have one object of a name and one of a uid; no uid is used again.
Listed(objects) == IsFiniteSet(objects) /\ OneEach(objects) /\ \A o \in objects : o.uid <= changes

ListsOK ==
    /\ \A r \in Resource : Listed(world[r])
    /\ \A w \in Watch :
        /\ Listed(informer[w].cache)
        /\ informer[w].phase = "synced" => informer[w].cache = world[Kind(w)]
        /\ \A o \in informer[w].cache, p \in world[Kind(w)] : o.uid = p.uid => o.name = p.name

\* StoreReplays without the start of the watch.
Replays ==
    \A w \in Watch : ~watch[w].cancelled /\ ~done /\ ~missed => Replay(w) = ListCache(w)

StoreInv == TypeOK /\ Sending /\ ListsOK /\ Replays

AnInformer ==
    [phase : {"off", "synced", "stopped"}, cache : SUBSET Object,
     queue : Seq(Event), callback : Callback \cup {None}]

AConsumer ==
    [stage : {"select", "update", "publish", "gone"},
     callback : Callback \cup {None}, store : Store \cup {None}]

\* A sequence over a set is one over a larger set.
LEMMA SeqOfMore ==
    ASSUME NEW S, NEW T, S \subseteq T, NEW q \in Seq(S)
    PROVE  q \in Seq(T)
<1>1. Len(q) \in Nat /\ q \in [1 .. Len(q) -> S]
  OBVIOUS
<1>2. q \in [1 .. Len(q) -> T]
  BY <1>1
<1> QED
  BY <1>1, <1>2

\* The sequences that Waiting joins.
LEMMA Pairs ==
    ASSUME NEW a, NEW b
    PROVE  /\ <<>> \o <<>> = <<>> /\ <<a>> \o <<>> = <<a>> /\ <<>> \o <<b>> = <<b>>
           /\ <<a>> \o <<b>> = <<a, b>>
<1>1. <<>> \in Seq({a, b}) /\ <<a>> \in Seq({a, b}) /\ <<b>> \in Seq({a, b}) /\ <<a, b>> \in Seq({a, b})
  OBVIOUS
<1>2. <<>> \o <<>> = <<>> /\ <<a>> \o <<>> = <<a>> /\ <<>> \o <<b>> = <<b>>
  BY <1>1
<1>3. <<a>> \o <<b>> = <<a, b>>
  <2>1. <<a>> \o <<b>> \in Seq({a, b}) /\ Len(<<a>> \o <<b>>) = 2 /\ Len(<<a, b>>) = 2
    BY <1>1
  <2>2. \A i \in 1 .. 2 : (<<a>> \o <<b>>)[i] = <<a, b>>[i]
    BY <1>1
  <2> QED
    BY <1>1, <2>1, <2>2, SeqEqual
<1> QED
  BY <1>2, <1>3

\* A watch is of one of the two kinds.
LEMMA Kinds == \A w \in Watch : Kind(w) \in Resource
BY DEF Watch, Kind

\* What TypeOK says of the goroutines of a watch.
LEMMA WatchTypes ==
    ASSUME TypeOK
    PROVE  /\ informer \in [Watch -> AnInformer]
           /\ consumer \in [Watch -> AConsumer]
           /\ \A w \in Watch :
                /\ informer[w].cache \in SUBSET Object
                /\ informer[w].queue \in Seq(Event)
                /\ informer[w].callback \in Callback \cup {None}
                /\ consumer[w].callback \in Callback \cup {None}
                /\ consumer[w].store \in Store \cup {None}
                /\ consumer[w].stage = "update" <=> consumer[w].callback # None
                /\ consumer[w].store # None => Keyed(consumer[w].store)
BY DEF TypeOK, AnInformer, AConsumer, Keyed

\* The calls on their way, of which the consumer's comes first.
LEMMA WaitingIs ==
    ASSUME NEW w
    PROVE  Waiting(w) = IF consumer[w].callback = None
                        THEN IF informer[w].callback = None THEN <<>>
                             ELSE <<informer[w].callback>>
                        ELSE IF informer[w].callback = None THEN <<consumer[w].callback>>
                             ELSE <<consumer[w].callback, informer[w].callback>>
BY Pairs DEF Waiting

\* What StoreReplays computes with are stores and sequences of calls.
LEMMA ReplayTypes ==
    ASSUME TypeOK, NEW w \in Watch
    PROVE  /\ Waiting(w) \in Seq(Callback) /\ Waiting(w) \in Seq(Call)
           /\ informer[w].queue \in Seq(Call)
           /\ Waiting(w) \o informer[w].queue \in Seq(Call)
           /\ Base(w) \in Store /\ Keyed(Base(w))
<1>1. Waiting(w) \in Seq(Callback)
  <2>1. informer[w].callback # None => informer[w].callback \in Callback
    BY WatchTypes
  <2>2. consumer[w].callback # None => consumer[w].callback \in Callback
    BY WatchTypes
  <2>3. \A a, b \in Callback : <<>> \in Seq(Callback) /\ <<a>> \in Seq(Callback) /\ <<a, b>> \in Seq(Callback)
    OBVIOUS
  <2>4. <<>> \in Seq(Callback)
    OBVIOUS
  <2> QED
    BY <2>1, <2>2, <2>3, <2>4, WaitingIs, Zenon
<1>2. informer[w].queue \in Seq(Event) /\ informer[w].cache \in SUBSET Object
  BY WatchTypes
<1>3. Waiting(w) \in Seq(Call) /\ informer[w].queue \in Seq(Call)
  BY <1>1, <1>2, SeqOfMore DEF Call
<1>4. Waiting(w) \o informer[w].queue \in Seq(Call)
  BY <1>3
<1>5. Base(w) \in Store /\ Keyed(Base(w))
  <2>1. CASE consumer[w].store # None
    BY <2>1, WatchTypes DEF Base
  <2>2. CASE consumer[w].store = None /\ Waiting(w) # <<>>
    <3>1. Head(Waiting(w)) \in Callback
      BY <1>1, <2>2
    <3>2. Head(Waiting(w)).sotw \in SUBSET Object
      BY <3>1 DEF Callback
    <3> QED
      BY <2>2, <3>2, MapStore DEF Base
  <2>3. CASE consumer[w].store = None /\ Waiting(w) = <<>>
    BY <1>2, <2>3, MapStore DEF Base, ListCache
  <2> QED
    BY <2>1, <2>2, <2>3
<1> QED
  BY <1>1, <1>3, <1>4, <1>5

\* What is on its way, and where to, tells the replay.
LEMMA SameReplay ==
    ASSUME NEW w \in Watch,
           informer'[w].cache = informer[w].cache, informer'[w].queue = informer[w].queue,
           informer'[w].callback = informer[w].callback,
           consumer'[w].callback = consumer[w].callback,
           consumer'[w].store = consumer[w].store
    PROVE  Replay(w)' = Replay(w) /\ ListCache(w)' = ListCache(w)
BY DEF Replay, ListCache, Base, Waiting

\* A handler takes an event from the queue and lists the cache (k8s.go:113-135).
LEMMA HandleReplays ==
    ASSUME TypeOK, NEW w \in Watch, Handle(w)
    PROVE  Replay(w)' = Replay(w) /\ ListCache(w)' = ListCache(w)
<1> DEFINE q == informer[w].queue
           c == GenericCallback(Head(q), ListCache(w))
           b == consumer[w].callback
           s == consumer[w].store
<1>1. /\ informer[w] \in AnInformer /\ q \in Seq(Event) /\ q # <<>>
      /\ informer[w].callback = None /\ consumer' = consumer
  BY WatchTypes DEF Handle
<1>2. Head(q) \in Event /\ Tail(q) \in Seq(Event)
  BY <1>1
<1>3. c \in Callback /\ c.type = Head(q).type /\ c.obj = Head(q).obj
      /\ c.sotw = informer[w].cache
  BY <1>2, WatchTypes DEF GenericCallback, Callback, Event, ListCache
<1>4. c # None
  BY <1>3, ArgoAssumption
<1>5. /\ informer'[w].queue = Tail(q) /\ informer'[w].callback = c
      /\ informer'[w].cache = informer[w].cache
  BY <1>1, WatchTypes DEF Handle, AnInformer
<1> HIDE DEF c, q
<1>6. ListCache(w)' = ListCache(w)
  BY <1>5 DEF ListCache
<1>7. CASE b = None
  <2>1. Waiting(w) = <<>> /\ Waiting(w)' = <<c>>
    BY <1>1, <1>4, <1>5, <1>7 DEF Waiting
  <2>2. Base(w)' = Base(w)
    BY <1>1, <1>3, <1>6, <2>1 DEF Base, ListCache
  <2>3. Outcome(Base(w), <<>> \o q) = Outcome(Base(w), <<c>> \o Tail(q))
    <3>1. DOMAIN (<<>> \o q) = DOMAIN (<<c>> \o Tail(q))
      BY <1>1
    <3>2. ASSUME NEW i \in DOMAIN (<<>> \o q)
          PROVE  /\ (<<>> \o q)[i].type = (<<c>> \o Tail(q))[i].type
                 /\ (<<>> \o q)[i].obj = (<<c>> \o Tail(q))[i].obj
      BY <1>1, <1>3
    <3> QED
      BY <3>1, <3>2, SameOutcome
  <2> QED
    BY <1>5, <1>6, <2>1, <2>2, <2>3 DEF Replay, q
<1>8. CASE b # None
  <2>1. Waiting(w) = <<b>> /\ Waiting(w)' = <<b, c>>
    BY <1>1, <1>4, <1>5, <1>8, Pairs DEF Waiting
  <2>2. Base(w)' = Base(w)
    BY <1>1, <2>1 DEF Base
  <2>3. Outcome(Base(w), <<b>> \o q) = Outcome(Base(w), <<b, c>> \o Tail(q))
    <3>1. DOMAIN (<<b>> \o q) = DOMAIN (<<b, c>> \o Tail(q))
      BY <1>1
    <3>2. ASSUME NEW i \in DOMAIN (<<b>> \o q)
          PROVE  /\ (<<b>> \o q)[i].type = (<<b, c>> \o Tail(q))[i].type
                 /\ (<<b>> \o q)[i].obj = (<<b, c>> \o Tail(q))[i].obj
      BY <1>1, <1>3
    <3> QED
      BY <3>1, <3>2, SameOutcome
  <2> QED
    BY <1>5, <1>6, <2>1, <2>2, <2>3 DEF Replay, q
<1> QED
  BY <1>6, <1>7, <1>8

\* The consumer receives what the handler sends (k8s.go:87-95, agent.go:426-440).
LEMMA ReceiveReplays ==
    ASSUME TypeOK, Sending, NEW w \in Watch, Receive(w)
    PROVE  Replay(w)' = Replay(w) /\ ListCache(w)' = ListCache(w)
<1>1. /\ informer[w] \in AnInformer /\ consumer[w] \in AConsumer
      /\ consumer[w].callback = None /\ informer[w].callback # None
  BY WatchTypes, ArgoAssumption DEF Receive, Sending
<1>2. /\ informer'[w].queue = informer[w].queue /\ informer'[w].callback = None
      /\ informer'[w].cache = informer[w].cache
      /\ consumer'[w].callback = informer[w].callback /\ consumer'[w].store = consumer[w].store
  BY <1>1, WatchTypes DEF Receive, AnInformer, AConsumer
<1>3. Waiting(w)' = Waiting(w)
  BY <1>1, <1>2 DEF Waiting
<1> QED
  BY <1>2, <1>3 DEF Replay, ListCache, Base

\* The consumer applies a callback, to the state of the world it brings if it is the
\* first (argo.go:108-121).
LEMMA FromCallbackReplays ==
    ASSUME TypeOK, NEW w \in Watch, FromCallback(w)
    PROVE  Replay(w)' = Replay(w) /\ ListCache(w)' = ListCache(w)
<1> DEFINE c == consumer[w].callback
           h == IF informer[w].callback = None THEN <<>> ELSE <<informer[w].callback>>
           q == informer[w].queue
           base == Initial(consumer[w].store, c)
<1>1. /\ informer' = informer /\ consumer[w] \in AConsumer
      /\ c # None /\ c \in Callback /\ informer[w].callback \in Callback \cup {None}
      /\ q \in Seq(Event)
  BY WatchTypes DEF FromCallback
<1>2. consumer'[w].callback = None /\ consumer'[w].store = Apply(base, c)
  BY WatchTypes DEF FromCallback
<1>3. Waiting(w) = <<c>> \o h /\ Waiting(w)' = <<>> \o h
  BY <1>1, <1>2 DEF Waiting
<1>4. h \in Seq(Call) /\ q \in Seq(Call)
  <2>1. h \in Seq(Callback)
    BY <1>1
  <2> QED
    BY <1>1, <2>1, SeqOfMore DEF Call
<1>5. Base(w) = base
  <2>1. Waiting(w) # <<>> /\ Head(Waiting(w)) = c
    BY <1>3
  <2> QED
    BY <2>1 DEF Base, Initial
<1>6. Base(w) \in Store /\ Keyed(Base(w))
  BY ReplayTypes
<1>7. Base(w)' = Apply(base, c)
  <2>1. Apply(base, c) \in Store
    BY <1>1, <1>5, <1>6, ApplyStore
  <2>2. Apply(base, c) # None
    BY <2>1, ArgoAssumption
  <2> QED
    BY <1>2, <2>2 DEF Base
<1> HIDE DEF c, h, q, base
<1>8. (<<c>> \o h) \o q = <<c>> \o (h \o q) /\ (<<>> \o h) \o q = h \o q /\ h \o q \in Seq(Call)
  BY <1>1, <1>4
<1>9. Outcome(base, <<c>> \o (h \o q)) = Outcome(Apply(base, c), h \o q)
  BY <1>1, <1>5, <1>6, <1>8, OutcomeOfFirst
<1>10. Replay(w) = Outcome(base, <<c>> \o (h \o q))
  BY <1>3, <1>5, <1>8 DEF Replay, q
<1>11. Replay(w)' = Outcome(Apply(base, c), h \o q)
  BY <1>1, <1>3, <1>7, <1>8 DEF Replay, q
<1> QED
  BY <1>1, <1>9, <1>10, <1>11 DEF ListCache

----------------------------------------------------------------------------
(* What the cluster announces.                                             *)

\* Joining sequences is associative.
LEMMA Associative ==
    ASSUME NEW S, NEW p \in Seq(S), NEW q \in Seq(S), NEW s \in Seq(S)
    PROVE  (p \o q) \o s = p \o (q \o s)
BY ConcatAssociative

\* A watch hears of a move from one list to another (agent.go:350-376).
LEMMA HearReplays ==
    ASSUME TypeOK, NEW w \in Watch,
           NEW old, old = informer[w].cache, NEW new \in SUBSET Object,
           Listed(old), IsFiniteSet(new), OneEach(new),
           \A o \in old, n \in new : o.uid = n.uid <=> o.name = n.name,
           NEW events \in SetToSeqs(Events(old, new)),
           informer'[w].cache = new, informer'[w].queue = informer[w].queue \o events,
           informer'[w].callback = informer[w].callback, consumer' = consumer,
           Replay(w) = old
    PROVE  Replay(w)' = new /\ ListCache(w)' = new
<1> DEFINE q == informer[w].queue
           p == Waiting(w) \o q
           base == Base(w)
           after == Base(w)'
<1>1. old \in SUBSET Object /\ IsFiniteSet(old) /\ OneEach(old)
  BY WatchTypes DEF Listed
<1>2. events \in Seq(Call) /\ Enumerates(events, Events(old, new))
  <2>1. IsFiniteSet(Events(old, new))
    BY <1>1, EventsFinite
  <2>2. Events(old, new) \in SUBSET Call
    <3>1. Events(old, new) \subseteq Event
      BY <1>1, EventsFacts
    <3> QED
      BY <3>1 DEF Call
  <2> QED
    BY <2>1, <2>2, InOrder
<1>3. base \in Store /\ Keyed(base) /\ p \in Seq(Call) /\ q \in Seq(Call) /\ Waiting(w) \in Seq(Call)
  BY ReplayTypes
<1>4. Waiting(w)' = Waiting(w)
  BY DEF Waiting
<1>5. ListCache(w)' = new /\ ListCache(w) = old
  BY DEF ListCache
<1>6. Outcome(base, p) = old
  BY DEF Replay
<1>7. /\ after \in Store /\ Keyed(after)
      /\ Follows(base, after, new)
  <2>1. CASE consumer[w].store # None \/ Waiting(w) # <<>>
    <3>1. after = base
      BY <1>4, <2>1 DEF Base
    <3> QED
      BY <1>3, <3>1 DEF Follows
  <2>2. CASE consumer[w].store = None /\ Waiting(w) = <<>>
    <3>1. base = toUntructuredMap(old) /\ after = toUntructuredMap(new)
      BY <1>4, <1>5, <2>2 DEF Base
    <3>2. /\ after \in Store /\ Keyed(after) /\ DOMAIN after = {n.uid : n \in new}
          /\ \A uid \in DOMAIN after : after[uid] \in new
      BY <3>1, MapStore
    <3>3. ASSUME NEW uid \in DOMAIN base, base[uid] \in new
          PROVE  uid \in DOMAIN after /\ after[uid] = base[uid]
      <4>1. base[uid].uid = uid
        BY <1>3 DEF Keyed
      <4>2. uid \in DOMAIN after /\ after[uid] \in new /\ after[uid].uid = uid
        BY <3>2, <3>3, <4>1 DEF Keyed
      <4> QED
        BY <3>3, <4>1, <4>2 DEF OneEach
    <3> QED
      BY <3>2, <3>3 DEF Follows
  <2> QED
    BY <2>1, <2>2
<1> HIDE DEF base, after, q
<1>9. p \o events = Waiting(w) \o (q \o events)
  <2>1. Waiting(w) \in Seq(Call) /\ q \in Seq(Call) /\ events \in Seq(Call)
    BY <1>2, <1>3
  <2> HIDE DEF p
  <2>2. p = Waiting(w) \o q
    BY DEF p
  <2> QED
    BY <2>1, <2>2, Associative
<1> HIDE DEF p
<1>11. Moves(old, new)
  BY <1>1 DEF Moves
<1>8. Outcome(after, p \o events) = new
  BY <1>1, <1>2, <1>3, <1>6, <1>7, <1>11, OutcomeOfEvents
<1>10. Replay(w)' = Outcome(after, Waiting(w) \o (q \o events))
  BY <1>4 DEF Replay, after, q
<1> QED
  BY <1>5, <1>8, <1>9, <1>10

\* What the new list of a kind has to do with the old one.
Successor(old, new, top, bound) ==
    /\ new \in SUBSET Object /\ IsFiniteSet(new) /\ OneEach(new)
    /\ \A n \in new : n.uid <= bound
    /\ \A n \in new : n.uid > top \/ \E o \in old : o.uid = n.uid /\ o.name = n.name
    /\ \A o \in old, n \in new : o.name = n.name => o.uid = n.uid

\* What happens to the objects of a kind, for the watches of it (agent.go:350-376).
LEMMA AnnounceKeeps ==
    ASSUME StoreInv, NEW r \in Resource, NEW after, NEW phase \in {"off", "synced"},
           Announce(r, after, phase),
           changes' \in 0 .. MaxChanges, changes <= changes',
           Successor(world[r], after, changes, changes'),
           UNCHANGED <<consumer, mux, done, missed>>,
           watch' = watch
    PROVE  /\ world' \in [Resource -> SUBSET Object]
           /\ informer' \in [Watch -> AnInformer]
           /\ Sending' /\ ListsOK' /\ Replays'
<1> USE DEF StoreInv
<1>1. PICK events \in SetToSeqs(Events(world[r], after)) :
        informer' = [w \in Watch |->
            IF Kind(w) = r /\ informer[w].phase = "synced"
            THEN [Hear(informer[w], after, events) EXCEPT !.phase = phase]
            ELSE informer[w]]
  BY DEF Announce
<1> DEFINE hears(w) == Kind(w) = r /\ informer[w].phase = "synced"
<1>2. /\ world \in [Resource -> SUBSET Object] /\ world' = [world EXCEPT ![r] = after]
      /\ changes \in 0 .. MaxChanges /\ informer \in [Watch -> AnInformer]
  BY WatchTypes DEF Announce, TypeOK
<1>3. /\ after \in SUBSET Object /\ IsFiniteSet(after) /\ OneEach(after)
      /\ \A n \in after : n.uid <= changes'
      /\ \A n \in after : n.uid > changes \/ \E o \in world[r] : o.uid = n.uid /\ o.name = n.name
      /\ \A o \in world[r], n \in after : o.name = n.name => o.uid = n.uid
  BY DEF Successor
<1>4. /\ world' \in [Resource -> SUBSET Object] /\ world'[r] = after
      /\ \A s \in Resource \ {r} : world'[s] = world[s]
  BY <1>2, <1>3
<1>5. /\ world[r] \in SUBSET Object /\ Listed(world[r])
      /\ \A w \in Watch : Listed(informer[w].cache)
  BY <1>2 DEF ListsOK
<1>6. IsFiniteSet(Events(world[r], after)) /\ Events(world[r], after) \in SUBSET Event
  BY <1>3, <1>5, EventsFinite, EventsFacts DEF Listed
<1>7. events \in Seq(Event)
  BY <1>6, InOrder
<1>8. ASSUME NEW w \in Watch, hears(w)
      PROVE  /\ informer'[w] \in AnInformer /\ informer'[w].phase = phase
             /\ informer'[w].cache = after /\ informer'[w].queue = informer[w].queue \o events
             /\ informer'[w].callback = informer[w].callback
  <2>1. informer'[w] = [[informer[w] EXCEPT !.cache = after, !.queue = informer[w].queue \o events]
                            EXCEPT !.phase = phase]
    BY <1>1, <1>8 DEF Hear
  <2>2. informer[w] \in AnInformer /\ informer[w].queue \o events \in Seq(Event)
    BY <1>2, <1>7 DEF AnInformer
  <2> QED
    BY <1>3, <2>1, <2>2 DEF AnInformer
<1>9. ASSUME NEW w \in Watch, ~hears(w)
      PROVE  informer'[w] = informer[w]
  BY <1>1, <1>9
<1>10. informer' \in [Watch -> AnInformer]
  <2>1. \A w \in Watch : informer'[w] \in AnInformer
    BY <1>2, <1>8, <1>9
  <2>2. informer' = [w \in Watch |-> informer'[w]]
    BY <1>1
  <2> QED
    BY <2>1, <2>2
<1>11. \A w \in Watch : informer'[w].callback = informer[w].callback
  BY <1>8, <1>9
<1>12. Sending'
  <2>1. mux \in Watch \cup {None}
    BY DEF TypeOK
  <2> QED
    BY <1>11, <2>1 DEF Sending
<1>13. ListsOK'
  <2>1. ASSUME NEW objects \in SUBSET Object, Listed(objects) PROVE Listed(objects)'
    <3>1. \A o \in objects : o.uid <= changes /\ o.uid \in 1 .. MaxChanges
      BY <2>1, ObjectFacts DEF Listed
    <3>2. \A o \in objects : o.uid <= changes'
      BY <1>2, <3>1
    <3> QED
      BY <2>1, <3>2 DEF Listed
  <2>2. Listed(after)'
    BY <1>3 DEF Listed
  <2>3. \A s \in Resource : Listed(world[s])'
    BY <1>4, <1>2, <2>1, <2>2 DEF ListsOK, Listed
  <2>4. ASSUME NEW w \in Watch
        PROVE  /\ Listed(informer[w].cache)'
               /\ informer'[w].phase = "synced" => informer'[w].cache = world'[Kind(w)]
               /\ \A o \in informer'[w].cache, p \in world'[Kind(w)] : o.uid = p.uid => o.name = p.name
    <3>0. Kind(w) \in Resource
      BY Kinds
    <3>1. CASE hears(w)
      <4>1. informer'[w].cache = after /\ world'[Kind(w)] = after
        BY <1>4, <1>8, <3>1
      <4>2. Listed(informer[w].cache)'
        BY <2>2, <4>1 DEF Listed
      <4> QED
        BY <1>3, <4>1, <4>2 DEF OneEach
    <3>2. CASE ~hears(w) /\ Kind(w) # r
      <4>1. informer'[w] = informer[w] /\ world'[Kind(w)] = world[Kind(w)]
        BY <1>4, <1>9, <3>0, <3>2
      <4>2. informer[w].cache \in SUBSET Object
        BY WatchTypes
      <4> QED
        BY <2>1, <4>1, <4>2 DEF ListsOK, Listed
    <3>3. CASE ~hears(w) /\ Kind(w) = r
      <4>1. informer'[w] = informer[w] /\ informer[w].phase # "synced" /\ world'[Kind(w)] = after
        BY <1>4, <1>9, <3>3
      <4>2. ASSUME NEW o \in informer[w].cache, NEW p \in after, o.uid = p.uid
            PROVE  o.name = p.name
        <5>1. o.uid <= changes
          BY <1>5 DEF Listed
        <5>2. o \in Object
          BY WatchTypes
        <5>3. ~(p.uid > changes)
          BY <1>2, <4>2, <5>1, <5>2, ObjectFacts
        <5>4. PICK h \in world[r] : h.uid = p.uid /\ h.name = p.name
          BY <1>3, <5>3
        <5> QED
          BY <3>3, <4>2, <5>4 DEF ListsOK
      <4>3. informer[w].cache \in SUBSET Object
        BY WatchTypes
      <4> QED
        BY <1>5, <2>1, <4>1, <4>2, <4>3 DEF Listed
    <3> QED
      BY <3>1, <3>2, <3>3
  <2> QED
    BY <2>3, <2>4 DEF ListsOK
<1>14. Replays'
  <2> SUFFICES ASSUME NEW w \in Watch, ~watch'[w].cancelled, ~done', ~missed'
               PROVE  Replay(w)' = ListCache(w)'
    BY DEF Replays
  <2>1. Replay(w) = ListCache(w)
    BY DEF Replays
  <2>2. CASE hears(w)
    <3>1. informer[w].cache = world[r]
      BY <2>2 DEF ListsOK
    <3>2. \A o \in world[r], n \in after : o.uid = n.uid <=> o.name = n.name
      <4>1. ASSUME NEW o \in world[r], NEW n \in after, o.uid = n.uid PROVE o.name = n.name
        <5>1. o.uid <= changes /\ o \in Object
          BY <1>5 DEF Listed
        <5>2. ~(n.uid > changes)
          BY <1>2, <4>1, <5>1, ObjectFacts
        <5>3. PICK h \in world[r] : h.uid = n.uid /\ h.name = n.name
          BY <1>3, <5>2
        <5> QED
          BY <1>5, <4>1, <5>3 DEF Listed, OneEach
      <4> QED
        BY <1>3, <4>1
    <3>3. /\ informer'[w].cache = after /\ informer'[w].queue = informer[w].queue \o events
          /\ informer'[w].callback = informer[w].callback
      BY <1>8, <2>2
    <3>4. Replay(w) = world[r]
      BY <2>1, <3>1 DEF ListCache
    <3> QED
      BY <1>3, <1>5, <3>1, <3>2, <3>3, <3>4, HearReplays
  <2>3. CASE ~hears(w)
    BY <1>9, <2>1, <2>3, SameReplay
  <2> QED
    BY <2>2, <2>3
<1> QED
  BY <1>4, <1>10, <1>12, <1>13, <1>14

----------------------------------------------------------------------------
(* The steps of the goroutines.                                            *)

\* Steps that leave what is on its way alone.
LEMMA QuietKeeps ==
    ASSUME StoreInv, UNCHANGED <<world, changes, informer, mux>>,
           \A w \in Watch : /\ consumer'[w].callback = consumer[w].callback
                            /\ consumer'[w].store = consumer[w].store
                            /\ watch[w].cancelled => watch'[w].cancelled,
           done => done', missed => missed'
    PROVE  Sending' /\ ListsOK' /\ Replays'
<1>1. Sending'
  BY DEF StoreInv, Sending
<1>2. ListsOK'
  BY DEF StoreInv, ListsOK, Listed
<1>3. Replays'
  <2> SUFFICES ASSUME NEW w \in Watch, ~watch'[w].cancelled, ~done', ~missed'
               PROVE  Replay(w)' = ListCache(w)'
    BY DEF Replays
  <2>1. Replay(w) = ListCache(w)
    BY DEF StoreInv, Replays
  <2> QED
    BY <2>1, SameReplay
<1> QED
  BY <1>1, <1>2, <1>3

\* One informer changes.
LEMMA OneInformer ==
    ASSUME StoreInv, NEW w \in Watch, NEW new \in AnInformer,
           informer' = [informer EXCEPT ![w] = new], UNCHANGED <<world, changes>>,
           \/ new.cache = informer[w].cache /\ (new.phase = "synced" => informer[w].phase = "synced")
           \/ new.cache = world[Kind(w)]
    PROVE  /\ informer' \in [Watch -> AnInformer] /\ ListsOK' /\ informer'[w] = new
           /\ \A v \in Watch \ {w} : informer'[v] = informer[v]
<1>1. /\ informer \in [Watch -> AnInformer] /\ Kind(w) \in Resource
      /\ world \in [Resource -> SUBSET Object]
  BY WatchTypes, Kinds DEF StoreInv, TypeOK
<1>2. /\ informer' \in [Watch -> AnInformer] /\ informer'[w] = new
      /\ \A v \in Watch \ {w} : informer'[v] = informer[v]
  BY <1>1
<1>3. ListsOK
  BY DEF StoreInv
<1>4. /\ Listed(new.cache)
      /\ new.phase = "synced" => new.cache = world[Kind(w)]
      /\ \A o \in new.cache, p \in world[Kind(w)] : o.uid = p.uid => o.name = p.name
  BY <1>1, <1>3 DEF ListsOK, Listed, OneEach
<1>5. ASSUME NEW v \in Watch
      PROVE  /\ Listed(informer'[v].cache)
             /\ informer'[v].phase = "synced" => informer'[v].cache = world[Kind(v)]
             /\ \A o \in informer'[v].cache, p \in world[Kind(v)] : o.uid = p.uid => o.name = p.name
  BY <1>2, <1>3, <1>4 DEF ListsOK
<1>6. ListsOK'
  BY <1>3, <1>5 DEF ListsOK, Listed
<1> QED
  BY <1>2, <1>6

\* The others' replays are theirs.
LEMMA OneReplays ==
    ASSUME StoreInv, NEW w \in Watch,
           \A v \in Watch \ {w} : informer'[v] = informer[v] /\ consumer'[v] = consumer[v],
           UNCHANGED <<watch, done>>, missed => missed',
           ~watch[w].cancelled /\ ~done /\ ~missed' => Replay(w)' = ListCache(w)'
    PROVE  Replays'
<1> SUFFICES ASSUME NEW v \in Watch, ~watch'[v].cancelled, ~done', ~missed'
             PROVE  Replay(v)' = ListCache(v)'
  BY DEF Replays
<1>1. CASE v # w
  <2>1. Replay(v) = ListCache(v)
    BY DEF StoreInv, Replays
  <2> QED
    BY <1>1, <2>1, SameReplay
<1>2. CASE v = w
  BY <1>2
<1> QED
  BY <1>1, <1>2

\* An informer lists the objects, at first or after a lost connection (k8s.go:138-144).
LEMMA ListKeeps ==
    ASSUME StoreInv, NEW w \in Watch, List(w)
    PROVE  StoreInv'
<1> DEFINE old == informer[w].cache
           new == world[Kind(w)]
<1>1. PICK events \in SetToSeqs(Events(old, new)) :
        informer' = [informer EXCEPT ![w] = [Hear(@, new, events) EXCEPT !.phase = "synced"]]
  BY DEF List
<1> DEFINE i == [Hear(informer[w], new, events) EXCEPT !.phase = "synced"]
<1>2. /\ UNCHANGED <<cluster, up, manager, current, watch, consumer, client, loop>>
      /\ missed' = (missed \/ \E o \in old, n \in new : o.name = n.name /\ o.uid # n.uid)
  BY DEF List
<1>3. /\ informer[w] \in AnInformer /\ informer \in [Watch -> AnInformer]
      /\ old \in SUBSET Object /\ new \in SUBSET Object /\ Listed(old) /\ Listed(new)
      /\ \A o \in old, n \in new : o.uid = n.uid => o.name = n.name
  BY WatchTypes, Kinds DEF StoreInv, TypeOK, ListsOK
<1>4. events \in Seq(Event)
  <2>1. IsFiniteSet(Events(old, new)) /\ Events(old, new) \in SUBSET Event
    BY <1>3, EventsFinite, EventsFacts DEF Listed
  <2> QED
    BY <2>1, InOrder
<1>5. /\ i \in AnInformer /\ i.cache = new /\ i.queue = informer[w].queue \o events
      /\ i.callback = informer[w].callback
  <2>1. i = [[informer[w] EXCEPT !.cache = new, !.queue = informer[w].queue \o events]
                EXCEPT !.phase = "synced"]
    BY DEF Hear
  <2>2. informer[w].queue \o events \in Seq(Event)
    BY <1>3, <1>4 DEF AnInformer
  <2> HIDE DEF i
  <2> QED
    BY <1>3, <2>1, <2>2 DEF AnInformer
<1>6. informer' = [informer EXCEPT ![w] = i]
  BY <1>1, <1>3
<1> HIDE DEF i
<1>7. /\ informer' \in [Watch -> AnInformer] /\ ListsOK' /\ informer'[w] = i
      /\ \A v \in Watch \ {w} : informer'[v] = informer[v]
  BY <1>2, <1>5, <1>6, OneInformer DEF cluster
<1>8. TypeOK'
  <2>1. missed' \in BOOLEAN
    BY <1>2 DEF StoreInv, TypeOK
  <2> QED
    BY <1>2, <1>7, <2>1 DEF StoreInv, TypeOK, AnInformer, cluster, client, loop
<1>9. Sending'
  BY <1>2, <1>5, <1>7 DEF StoreInv, TypeOK, Sending, client
<1>10. ASSUME ~watch[w].cancelled, ~done, ~missed' PROVE Replay(w)' = ListCache(w)'
  <2>1. Replay(w) = old
    BY <1>2, <1>10 DEF StoreInv, Replays, ListCache
  <2>2. \A o \in old, n \in new : o.uid = n.uid <=> o.name = n.name
    BY <1>2, <1>3, <1>10
  <2>3. IsFiniteSet(new) /\ OneEach(new) /\ TypeOK /\ consumer' = consumer
    BY <1>2, <1>3 DEF Listed, StoreInv
  <2> HIDE DEF new
  <2> QED
    BY <1>3, <1>5, <1>7, <2>1, <2>2, <2>3, HearReplays
<1>11. Replays'
  BY <1>2, <1>7, <1>10, OneReplays DEF client
<1> QED
  BY <1>7, <1>8, <1>9, <1>11 DEF StoreInv

\* The informer stops, or loses its connection.
LEMMA StopKeeps ==
    ASSUME StoreInv, NEW w \in Watch, InformerStops(w) \/ Disconnect(w)
    PROVE  StoreInv'
<1>1. PICK phase \in {"off", "stopped"}, queue \in {<<>>, informer[w].queue} :
        /\ informer' = [informer EXCEPT ![w].phase = phase, ![w].queue = queue]
        /\ queue = informer[w].queue \/ watch[w].cancelled
  <2>1. CASE InformerStops(w)
    BY <2>1 DEF InformerStops
  <2>2. CASE Disconnect(w)
    <3>1. informer[w] \in AnInformer /\ informer \in [Watch -> AnInformer]
      BY WatchTypes DEF StoreInv
    <3>2. [informer[w] EXCEPT !.phase = "off"]
            = [informer[w] EXCEPT !.phase = "off", !.queue = informer[w].queue]
      BY <3>1 DEF AnInformer
    <3>3. informer' = [informer EXCEPT ![w].phase = "off", ![w].queue = informer[w].queue]
      BY <2>2, <3>1, <3>2 DEF Disconnect
    <3> QED
      BY <3>3
  <2> QED
    BY <2>1, <2>2
<1> DEFINE i == [informer[w] EXCEPT !.phase = phase, !.queue = queue]
<1>2. /\ UNCHANGED <<present, world, changes, up, manager, current, watch, consumer, client, loop, missed>>
      /\ faults' \in 0 .. MaxFaults
  BY ArgoAssumption DEF InformerStops, Disconnect, cluster, StoreInv, TypeOK
<1>3. informer[w] \in AnInformer /\ informer \in [Watch -> AnInformer] /\ informer[w].queue \in Seq(Event)
  BY WatchTypes DEF StoreInv
<1>4. /\ i \in AnInformer /\ i.cache = informer[w].cache /\ i.callback = informer[w].callback
      /\ i.phase # "synced" /\ i.queue = queue
  <2>1. queue \in Seq(Event)
    <3>1. <<>> \in Seq(Event)
      OBVIOUS
    <3> QED
      BY <1>3, <3>1
  <2>2. informer[w] \in AnInformer /\ phase \in {"off", "synced", "stopped"}
    BY <1>3
  <2> HIDE DEF i
  <2>3. i = [informer[w] EXCEPT !.phase = phase, !.queue = queue]
    BY DEF i
  <2>4. i.queue = queue /\ i.phase = phase
    BY <2>2, <2>3 DEF AnInformer
  <2>5. i.cache = informer[w].cache /\ i.callback = informer[w].callback
    BY <2>2, <2>3 DEF AnInformer
  <2>6. i \in AnInformer
    BY <2>1, <2>2, <2>3 DEF AnInformer
  <2> QED
    BY <2>4, <2>5, <2>6
<1>5. informer' = [informer EXCEPT ![w] = i]
  BY <1>1, <1>3
<1> HIDE DEF i
<1>6. /\ informer' \in [Watch -> AnInformer] /\ ListsOK' /\ informer'[w] = i
      /\ \A v \in Watch \ {w} : informer'[v] = informer[v]
  BY <1>2, <1>4, <1>5, OneInformer
<1>7. TypeOK'
  BY <1>2, <1>6 DEF StoreInv, TypeOK, AnInformer, client, loop
<1>8. Sending'
  BY <1>2, <1>4, <1>6 DEF StoreInv, TypeOK, Sending, client
<1>9. ASSUME ~watch[w].cancelled, ~done, ~missed' PROVE Replay(w)' = ListCache(w)'
  <2>1. Replay(w) = ListCache(w)
    BY <1>2, <1>9 DEF StoreInv, Replays
  <2> QED
    BY <1>1, <1>2, <1>4, <1>6, <1>9, <2>1, SameReplay
<1>10. Replays'
  BY <1>2, <1>6, <1>9, OneReplays DEF client
<1> QED
  BY <1>6, <1>7, <1>8, <1>10 DEF StoreInv

\* A handler makes a callback of an event (k8s.go:110-137).
LEMMA HandleKeeps ==
    ASSUME StoreInv, NEW w \in Watch, Handle(w)
    PROVE  StoreInv'
<1> DEFINE q == informer[w].queue
           c == GenericCallback(Head(q), ListCache(w))
           i == [informer[w] EXCEPT !.queue = Tail(q), !.callback = c]
<1>1. /\ informer[w] \in AnInformer /\ informer \in [Watch -> AnInformer]
      /\ q \in Seq(Event) /\ q # <<>> /\ informer[w].callback = None
      /\ UNCHANGED <<cluster, up, manager, current, watch, consumer, client, loop, missed>>
  BY WatchTypes DEF Handle, StoreInv
<1>2. Head(q) \in Event /\ Tail(q) \in Seq(Event)
  BY <1>1
<1>3. c \in Callback
  BY <1>1, <1>2 DEF GenericCallback, Callback, Event, ListCache, AnInformer
<1>4. informer' = [informer EXCEPT ![w] = i]
  BY <1>1 DEF Handle
<1>5. i \in AnInformer /\ i.cache = informer[w].cache /\ i.phase = informer[w].phase /\ i.callback = c
  BY <1>1, <1>2, <1>3 DEF AnInformer
<1>6. c # None
  BY <1>3, ArgoAssumption
<1> HIDE DEF i, c
<1>7. /\ informer' \in [Watch -> AnInformer] /\ ListsOK' /\ informer'[w] = i
      /\ \A v \in Watch \ {w} : informer'[v] = informer[v]
  BY <1>1, <1>4, <1>5, OneInformer DEF cluster
<1>8. TypeOK'
  BY <1>1, <1>7 DEF StoreInv, TypeOK, AnInformer, client, loop, cluster
<1>9. Sending'
  BY <1>1, <1>5, <1>6, <1>7 DEF StoreInv, TypeOK, Sending, client
<1>10. ASSUME ~watch[w].cancelled, ~done, ~missed' PROVE Replay(w)' = ListCache(w)'
  <2>1. Replay(w) = ListCache(w)
    BY <1>1, <1>10 DEF StoreInv, Replays
  <2> QED
    BY <2>1, HandleReplays DEF StoreInv
<1>11. Replays'
  BY <1>1, <1>7, <1>10, OneReplays DEF client
<1> QED
  BY <1>7, <1>8, <1>9, <1>11 DEF StoreInv

\* A callback that is given up is one of a client that is done.
LEMMA SendCallbackKeeps ==
    ASSUME StoreInv, NEW w \in Watch, SendCallback(w)
    PROVE  StoreInv'
<1> DEFINE i == [informer[w] EXCEPT !.callback = None]
<1>1. /\ informer[w] \in AnInformer /\ informer \in [Watch -> AnInformer]
      /\ informer[w].callback # None /\ mux = None /\ w # None
      /\ UNCHANGED <<cluster, up, manager, current, watch, consumer, done, loop, missed>>
  BY WatchTypes, ArgoAssumption DEF SendCallback, StoreInv
<1>2. CASE done
  <2>1. informer' = [informer EXCEPT ![w] = i] /\ mux' = None
    BY <1>1, <1>2 DEF SendCallback
  <2>2. i \in AnInformer /\ i.cache = informer[w].cache /\ i.phase = informer[w].phase
    BY <1>1 DEF AnInformer
  <2> HIDE DEF i
  <2>3. /\ informer' \in [Watch -> AnInformer] /\ ListsOK'
        /\ \A v \in Watch \ {w} : informer'[v] = informer[v]
    BY <1>1, <2>1, <2>2, OneInformer DEF cluster
  <2>4. TypeOK'
    BY <1>1, <2>1, <2>3 DEF StoreInv, TypeOK, AnInformer, loop, cluster
  <2>5. Sending' /\ Replays'
    BY <1>1, <1>2, <2>1 DEF Sending, Replays
  <2> QED
    BY <2>3, <2>4, <2>5 DEF StoreInv
<1>3. CASE ~done
  <2>1. mux' = w /\ informer' = informer
    BY <1>3 DEF SendCallback
  <2>2. TypeOK'
    BY <1>1, <2>1 DEF StoreInv, TypeOK, loop, cluster
  <2>3. Sending'
    BY <1>1, <2>1 DEF Sending
  <2>4. ListsOK'
    BY <1>1, <2>1 DEF StoreInv, ListsOK, Listed, cluster
  <2>5. ~watch[w].cancelled /\ ~done /\ ~missed' => Replay(w)' = ListCache(w)'
    BY <1>1, <2>1, SameReplay DEF StoreInv, Replays
  <2>6. Replays'
    BY <1>1, <2>1, <2>5, OneReplays
  <2> QED
    BY <2>2, <2>3, <2>4, <2>6 DEF StoreInv
<1> QED
  BY <1>2, <1>3

\* The consumer takes the callback from the handler (agent.go:425-430).
LEMMA ReceiveKeeps ==
    ASSUME StoreInv, NEW w \in Watch, Receive(w)
    PROVE  StoreInv'
<1> DEFINE i == [informer[w] EXCEPT !.callback = None]
           c == [consumer[w] EXCEPT !.stage = "update", !.callback = informer[w].callback]
<1>1. /\ informer[w] \in AnInformer /\ informer \in [Watch -> AnInformer]
      /\ consumer[w] \in AConsumer /\ consumer \in [Watch -> AConsumer]
      /\ informer[w].callback \in Callback /\ informer[w].callback # None
      /\ UNCHANGED <<cluster, up, manager, current, watch, done, loop, missed>> /\ mux' = None
  BY WatchTypes, ArgoAssumption DEF Receive, StoreInv, Sending
<1>2. informer' = [informer EXCEPT ![w] = i] /\ consumer' = [consumer EXCEPT ![w] = c]
  BY <1>1 DEF Receive
<1>3. i \in AnInformer /\ i.cache = informer[w].cache /\ i.phase = informer[w].phase
  BY <1>1 DEF AnInformer
<1>4. /\ c \in AConsumer /\ c.stage = "update" /\ c.callback # None
      /\ c.store = consumer[w].store
  BY <1>1 DEF AConsumer
<1> HIDE DEF i, c
<1>5. /\ informer' \in [Watch -> AnInformer] /\ ListsOK'
      /\ \A v \in Watch \ {w} : informer'[v] = informer[v]
  BY <1>1, <1>2, <1>3, OneInformer DEF cluster
<1>6. /\ consumer' \in [Watch -> AConsumer] /\ consumer'[w] = c
      /\ \A v \in Watch \ {w} : consumer'[v] = consumer[v]
  BY <1>1, <1>2, <1>4
<1>7. \A v \in Watch :
        /\ consumer'[v].stage = "update" <=> consumer'[v].callback # None
        /\ consumer'[v].store # None =>
              \A uid \in DOMAIN consumer'[v].store : consumer'[v].store[uid].uid = uid
  BY <1>4, <1>6 DEF StoreInv, TypeOK
<1>8. TypeOK'
  BY <1>1, <1>5, <1>6, <1>7 DEF StoreInv, TypeOK, AnInformer, AConsumer, loop, cluster
<1>9. Sending'
  BY <1>1 DEF Sending
<1>10. ~watch[w].cancelled /\ ~done /\ ~missed' => Replay(w)' = ListCache(w)'
  BY <1>1, ReceiveReplays DEF StoreInv, Replays
<1>11. Replays'
  BY <1>1, <1>5, <1>6, <1>10, OneReplays
<1> QED
  BY <1>5, <1>8, <1>9, <1>11 DEF StoreInv

\* The consumer applies the callback to its store (argo.go:105-123).
LEMMA FromCallbackKeeps ==
    ASSUME StoreInv, NEW w \in Watch, FromCallback(w)
    PROVE  StoreInv'
<1> DEFINE b == consumer[w].callback
           s == Apply(Initial(consumer[w].store, b), b)
           c == [stage |-> "publish", callback |-> None, store |-> s]
<1>1. /\ consumer[w] \in AConsumer /\ consumer \in [Watch -> AConsumer]
      /\ b # None /\ b \in Callback
      /\ UNCHANGED <<cluster, up, manager, current, watch, informer, client, loop, missed>>
  BY WatchTypes DEF FromCallback, StoreInv
<1>2. consumer' = [consumer EXCEPT ![w] = c]
  BY <1>1 DEF FromCallback
<1>3. s \in Store /\ Keyed(s)
  <2>1. Initial(consumer[w].store, b) \in Store /\ Keyed(Initial(consumer[w].store, b))
    <3>1. CASE consumer[w].store = None
      <4>1. b.sotw \in SUBSET Object
        BY <1>1 DEF Callback
      <4> QED
        BY <3>1, <4>1, MapStore DEF Initial
    <3>2. CASE consumer[w].store # None
      BY <3>2, WatchTypes DEF Initial, StoreInv
    <3> QED
      BY <3>1, <3>2
  <2> QED
    BY <1>1, <2>1, ApplyStore
<1> HIDE DEF s
<1>4. c \in AConsumer /\ c.stage = "publish" /\ c.callback = None /\ c.store = s
  BY <1>3 DEF AConsumer
<1> HIDE DEF c
<1>5. /\ consumer' \in [Watch -> AConsumer] /\ consumer'[w] = c
      /\ \A v \in Watch \ {w} : consumer'[v] = consumer[v]
  BY <1>1, <1>2, <1>4
<1>6. \A v \in Watch :
        /\ consumer'[v].stage = "update" <=> consumer'[v].callback # None
        /\ consumer'[v].store # None =>
              \A uid \in DOMAIN consumer'[v].store : consumer'[v].store[uid].uid = uid
  <2> SUFFICES ASSUME NEW v \in Watch
               PROVE  /\ consumer'[v].stage = "update" <=> consumer'[v].callback # None
                      /\ consumer'[v].store # None =>
                            \A uid \in DOMAIN consumer'[v].store : consumer'[v].store[uid].uid = uid
    OBVIOUS
  <2>1. CASE v = w
    BY <1>3, <1>4, <1>5, <2>1 DEF Keyed
  <2>2. CASE v # w
    <3>1. consumer'[v] = consumer[v]
      BY <1>5, <2>2
    <3> QED
      BY <3>1 DEF StoreInv, TypeOK
  <2> QED
    BY <2>1, <2>2
<1>7. TypeOK'
  BY <1>1, <1>5, <1>6 DEF StoreInv, TypeOK, AConsumer, loop, cluster, client
<1>8. Sending' /\ ListsOK'
  BY <1>1 DEF StoreInv, Sending, ListsOK, Listed, cluster, client
<1>9. ~watch[w].cancelled /\ ~done /\ ~missed' => Replay(w)' = ListCache(w)'
  BY <1>1, FromCallbackReplays DEF StoreInv, Replays
<1>10. Replays'
  BY <1>1, <1>5, <1>9, OneReplays DEF client
<1> QED
  BY <1>7, <1>8, <1>10 DEF StoreInv

----------------------------------------------------------------------------
(* The other steps, and the theorems.                                      *)

\* The types of what only the loop, the cluster and the closers change.
LEMMA RestTyped ==
    ASSUME StoreInv, UNCHANGED <<world, changes, informer, mux>>,
           present' \in SUBSET Resource, faults' \in 0 .. MaxFaults,
           up' \in BOOLEAN, done' \in BOOLEAN, manager' \in {"run", "gone"},
           missed' = missed, consumer' = consumer,
           current' \in [Resource -> Watch \cup {None}],
           watch' \in [Watch -> [started : BOOLEAN, cancelled : BOOLEAN, closed : BOOLEAN]],
           published' = published, reading' \in Resource \cup {None},
           done => done', \A w \in Watch : watch[w].cancelled => watch'[w].cancelled
    PROVE  StoreInv'
<1>1. TypeOK'
  BY DEF StoreInv, TypeOK
<1>2. Sending' /\ ListsOK' /\ Replays'
  BY QuietKeeps
<1> QED
  BY <1>1, <1>2 DEF StoreInv

\* What TypeOK says of the rest.
LEMMA QuietTypes ==
    ASSUME StoreInv
    PROVE  /\ present \in SUBSET Resource /\ faults \in 0 .. MaxFaults /\ MaxFaults \in Nat
           /\ up \in BOOLEAN /\ done \in BOOLEAN /\ manager \in {"run", "gone"}
           /\ current \in [Resource -> Watch \cup {None}]
           /\ watch \in [Watch -> [started : BOOLEAN, cancelled : BOOLEAN, closed : BOOLEAN]]
           /\ published \in [Resource -> Watch \cup {None}]
           /\ reading \in Resource \cup {None}
           /\ changes \in 0 .. MaxChanges /\ MaxChanges \in Nat
           /\ world \in [Resource -> SUBSET Object]
           /\ missed \in BOOLEAN /\ mux \in Watch \cup {None}
BY ArgoAssumption DEF StoreInv, TypeOK

\* A definition or a process that appears has no objects or watches yet.
LEMMA InstallKeeps == StoreInv /\ (Install \/ Restart) => StoreInv'
<1> SUFFICES ASSUME StoreInv, Install \/ Restart PROVE StoreInv'
  OBVIOUS
<1>1. UNCHANGED <<world, changes, faults, informer, mux, done, missed, consumer,
                  manager, current, watch, published, reading>>
  BY DEF Install, Restart, cluster, client, loop
<1>2. present' \in SUBSET Resource /\ up' \in BOOLEAN
  BY QuietTypes DEF Install, Restart, cluster
<1> QED
  BY <1>1, <1>2, QuietTypes, RestTyped

\* A discovery starts and cancels watches (agent.go:369-403).
LEMMA DiscoverStores == StoreInv /\ Discover => StoreInv'
<1> SUFFICES ASSUME StoreInv, Discover PROVE StoreInv'
  OBVIOUS
<1>1. UNCHANGED <<present, world, changes, faults, up, informer, mux, done, missed,
                  consumer, manager, published, reading>>
  BY DEF Discover, cluster, client, loop
<1>2. current' \in [Resource -> Watch \cup {None}]
  <2>1. ASSUME NEW r \in Resource
        PROVE  (IF ToStart(r) THEN NextWatch(r) ELSE IF ToCancel(r) THEN None ELSE current[r])
                  \in Watch \cup {None}
    BY QuietTypes DEF Discover
  <2> QED
    BY <2>1 DEF Discover
<1>3. /\ watch' \in [Watch -> [started : BOOLEAN, cancelled : BOOLEAN, closed : BOOLEAN]]
      /\ \A w \in Watch : watch[w].cancelled => watch'[w].cancelled
  BY QuietTypes DEF Discover
<1> QED
  BY <1>1, <1>2, <1>3, QuietTypes, RestTyped

\* argoWatch returns and cancels its watches (agent.go:360-374).
LEMMA ReturnsStores == StoreInv /\ ArgoWatchReturns => StoreInv'
<1> SUFFICES ASSUME StoreInv, ArgoWatchReturns PROVE StoreInv'
  OBVIOUS
<1>1. /\ UNCHANGED <<present, world, changes, up, informer, mux, done, missed,
                     consumer, current, published, reading>>
      /\ manager' = "gone" /\ faults' = faults + 1 /\ faults < MaxFaults
  BY DEF ArgoWatchReturns, client, loop
<1>2. faults' \in 0 .. MaxFaults
  BY <1>1, QuietTypes
<1>3. /\ watch' \in [Watch -> [started : BOOLEAN, cancelled : BOOLEAN, closed : BOOLEAN]]
      /\ \A w \in Watch : watch[w].cancelled => watch'[w].cancelled
  BY QuietTypes DEF ArgoWatchReturns
<1> QED
  BY <1>1, <1>2, <1>3, QuietTypes, RestTyped

\* The main loop reads the stores (agent.go:707-718).
LEMMA ReadStores == StoreInv /\ Read => StoreInv'
<1> SUFFICES ASSUME StoreInv, Read PROVE StoreInv'
  OBVIOUS
<1>1. UNCHANGED <<present, world, changes, faults, up, informer, mux, done, missed,
                  consumer, manager, current, watch, published>>
  BY DEF Read, cluster, client
<1>2. reading' \in Resource \cup {None}
  BY DEF Read, Resource
<1> QED
  BY <1>1, <1>2, QuietTypes, RestTyped

\* A watch has ended: its channel is closed and the flag raised (k8s.go:100-106).
LEMMA CloserStores ==
    ASSUME StoreInv, NEW w \in Watch, CloserRuns(w)
    PROVE  StoreInv'
<1>1. /\ UNCHANGED <<present, world, changes, faults, up, informer, mux, missed,
                     consumer, manager, current, published, reading>>
      /\ done' = TRUE
  BY DEF CloserRuns, cluster, loop
<1>2. /\ watch' \in [Watch -> [started : BOOLEAN, cancelled : BOOLEAN, closed : BOOLEAN]]
      /\ \A v \in Watch : watch[v].cancelled => watch'[v].cancelled
  BY QuietTypes DEF CloserRuns
<1> QED
  BY <1>1, <1>2, QuietTypes, RestTyped

\* The consumer goes on to its next stage.
LEMMA StageKeeps ==
    ASSUME StoreInv, NEW w \in Watch, ConsumerEnds(w) \/ Publish(w)
    PROVE  StoreInv'
<1>1. PICK stage \in {"gone", "select"} : consumer' = [consumer EXCEPT ![w].stage = stage]
  BY DEF ConsumerEnds, Publish
<1>2. /\ UNCHANGED <<present, world, changes, faults, up, informer, mux, done, missed,
                     manager, current, watch, reading>>
      /\ consumer[w].stage # "update"
  BY DEF ConsumerEnds, Publish, cluster, client, loop
<1>3. published' \in [Resource -> Watch \cup {None}]
  BY QuietTypes DEF ConsumerEnds, Publish, loop
<1>4. consumer \in [Watch -> AConsumer] /\ consumer[w].callback = None
  BY <1>2, WatchTypes DEF StoreInv
<1> DEFINE c == [consumer[w] EXCEPT !.stage = stage]
<1>5. /\ c \in AConsumer /\ c.stage = stage
      /\ c.callback = consumer[w].callback /\ c.store = consumer[w].store
  BY <1>4 DEF AConsumer
<1>6. consumer' = [consumer EXCEPT ![w] = c]
  BY <1>1, <1>4
<1> HIDE DEF c
<1>7. consumer' \in [Watch -> AConsumer]
  BY <1>4, <1>5, <1>6
<1>8. ASSUME NEW v \in Watch
      PROVE  /\ consumer'[v].callback = consumer[v].callback
             /\ consumer'[v].store = consumer[v].store
             /\ consumer'[v].stage = "update" <=> consumer'[v].callback # None
  <2>1. CASE v = w
    BY <1>4, <1>5, <1>6, <2>1
  <2>2. CASE v # w
    <3>1. consumer'[v] = consumer[v]
      BY <1>4, <1>6, <2>2
    <3> QED
      BY <3>1 DEF StoreInv, TypeOK
  <2> QED
    BY <2>1, <2>2
<1>9. TypeOK'
  BY <1>2, <1>3, <1>7, <1>8 DEF StoreInv, TypeOK, AConsumer
<1>10. Sending' /\ ListsOK' /\ Replays'
  BY <1>2, <1>8, QuietKeeps
<1> QED
  BY <1>9, <1>10 DEF StoreInv

\* What a change of objects leaves typed.
LEMMA AnnounceStores ==
    ASSUME StoreInv, NEW r \in Resource, NEW after, NEW phase \in {"off", "synced"},
           Announce(r, after, phase), changes' \in 0 .. MaxChanges, changes <= changes',
           Successor(world[r], after, changes, changes'),
           present' \in SUBSET Resource, faults' \in 0 .. MaxFaults,
           UNCHANGED <<up, manager, current, watch, consumer, client, loop, missed>>
    PROVE  StoreInv'
<1>1. /\ world' \in [Resource -> SUBSET Object] /\ informer' \in [Watch -> AnInformer]
      /\ Sending' /\ ListsOK' /\ Replays'
  BY AnnounceKeeps DEF client
<1>2. TypeOK'
  BY <1>1 DEF StoreInv, TypeOK, AnInformer, client, loop
<1> QED
  BY <1>1, <1>2 DEF StoreInv

\* A definition is removed after all of its objects.
LEMMA UninstallKeeps == StoreInv /\ Uninstall => StoreInv'
<1> SUFFICES ASSUME StoreInv, Uninstall PROVE StoreInv'
  OBVIOUS
<1>1. PICK r \in present : present' = present \ {r} /\ Announce(r, {}, "off")
  BY DEF Uninstall
<1>2. /\ UNCHANGED <<changes, up, manager, current, watch, consumer, client, loop, missed>>
      /\ faults' \in 0 .. MaxFaults /\ present' \in SUBSET Resource /\ r \in Resource
  BY <1>1, QuietTypes DEF Uninstall
<1>3. Successor(world[r], {}, changes, changes')
  BY FS_EmptySet DEF Successor, OneEach
<1>4. changes' \in 0 .. MaxChanges /\ changes <= changes'
  BY <1>2, QuietTypes
<1> QED
  BY <1>1, <1>2, <1>3, <1>4, AnnounceStores

\* An object is created, changed, or deleted.
LEMMA ObjectChangeKeeps == StoreInv /\ ObjectChange => StoreInv'
<1> SUFFICES ASSUME StoreInv, ObjectChange PROVE StoreInv'
  OBVIOUS
<1> DEFINE here(r, n) == {o \in world[r] : o.name = n}
           rest(r, n) == world[r] \ here(r, n)
           new(n, uid) == [name |-> n, uid |-> uid, revision |-> changes']
<1>1. PICK r \in present, n \in Name :
        \E after \in (IF here(r, n) = {} THEN {rest(r, n) \cup {new(n, changes')}}
                      ELSE {rest(r, n)} \cup {rest(r, n) \cup {new(n, o.uid)} : o \in here(r, n)}) :
           Announce(r, after, "synced")
  BY DEF ObjectChange
<1>2. PICK after : /\ Announce(r, after, "synced")
                   /\ \/ after = rest(r, n)
                      \/ here(r, n) = {} /\ after = rest(r, n) \cup {new(n, changes')}
                      \/ \E o \in here(r, n) : after = rest(r, n) \cup {new(n, o.uid)}
  BY <1>1
<1>3. /\ UNCHANGED <<present, faults, up, manager, current, watch, consumer, client, loop, missed>>
      /\ changes' = changes + 1 /\ changes' \in 1 .. MaxChanges /\ changes \in Nat
      /\ r \in Resource
  BY <1>1, QuietTypes DEF ObjectChange
<1>4. /\ world[r] \in SUBSET Object /\ IsFiniteSet(world[r]) /\ OneEach(world[r])
      /\ \A o \in world[r] : o.uid <= changes /\ o.uid \in 1 .. MaxChanges
  BY <1>3, QuietTypes, ObjectFacts DEF StoreInv, ListsOK, Listed
<1>5. /\ rest(r, n) \in SUBSET world[r] /\ IsFiniteSet(rest(r, n))
      /\ \A o \in rest(r, n) : o.name # n
  BY <1>4, FS_Subset
<1>6. Successor(world[r], after, changes, changes')
  <2>1. CASE after = rest(r, n)
    <3> HIDE DEF rest
    <3>1. \A o \in after : o.uid <= changes'
      BY <1>3, <1>4, <1>5, <2>1
    <3> QED
      BY <1>4, <1>5, <2>1, <3>1 DEF Successor, OneEach
  <2>2. ASSUME NEW uid \in 1 .. changes', after = rest(r, n) \cup {new(n, uid)},
               uid > changes \/ \E o \in here(r, n) : o.uid = uid,
               uid > changes \/ \A o \in here(r, n) : o.uid = uid,
               uid > changes => here(r, n) = {}
        PROVE  Successor(world[r], after, changes, changes')
    <3> DEFINE o == new(n, uid)
    <3>1. /\ o \in [name : Name, uid : 1 .. MaxChanges, revision : 1 .. MaxChanges]
          /\ o.name = n /\ o.uid = uid /\ o.revision = changes' /\ uid <= changes'
      <4>1. /\ changes' \in 1 .. MaxChanges /\ MaxChanges \in Nat /\ n \in Name
            /\ uid \in 1 .. MaxChanges /\ uid <= changes'
        BY <1>3, QuietTypes
      <4> QED
        BY <4>1
    <3>2. o \in Object
      BY <3>1 DEF Object
    <3>3. \A p \in rest(r, n) : p.uid # uid
      BY <1>3, <1>4, <1>5, <2>2 DEF OneEach
    <3>4. \A p \in here(r, n) : p.name = n
      OBVIOUS
    <3>5. \A p \in world[r] : p.name = n => p.uid = uid
      <4>1. \A p \in world[r] : p.name = n => p \in here(r, n)
        OBVIOUS
      <4> HIDE DEF here
      <4> QED
        BY <2>2, <4>1
    <3>6. uid > changes \/ \E p \in world[r] : p.uid = uid /\ p.name = n
      BY <2>2
    <3> HIDE DEF o, rest, here
    <3>7. after = rest(r, n) \cup {o}
      BY <2>2 DEF o
    <3>8. after \in SUBSET Object /\ IsFiniteSet(after)
      BY <1>4, <1>5, <3>2, <3>7, FS_AddElement
    <3>9. OneEach(after)
      BY <1>4, <1>5, <3>1, <3>3, <3>7 DEF OneEach
    <3>10. \A p \in after : p.uid <= changes'
      BY <1>3, <1>4, <1>5, <3>1, <3>7
    <3>11. \A p \in after : p.uid > changes \/ \E q \in world[r] : q.uid = p.uid /\ q.name = p.name
      BY <1>5, <3>1, <3>6, <3>7
    <3>12. \A q \in world[r], p \in after : q.name = p.name => q.uid = p.uid
      BY <1>4, <1>5, <3>1, <3>5, <3>7 DEF OneEach
    <3> QED
      BY <3>8, <3>9, <3>10, <3>11, <3>12 DEF Successor
  <2>3. CASE here(r, n) = {} /\ after = rest(r, n) \cup {new(n, changes')}
    <3> HIDE DEF rest, here, new
    <3> QED
      BY <1>3, <2>2, <2>3
  <2>4. ASSUME NEW o \in here(r, n), after = rest(r, n) \cup {new(n, o.uid)}
        PROVE  Successor(world[r], after, changes, changes')
    <3>1. o.uid \in 1 .. changes' /\ ~(o.uid > changes)
      BY <1>3, <1>4
    <3>2. \A p \in here(r, n) : p.uid = o.uid
      BY <1>4 DEF OneEach
    <3> HIDE DEF rest, here, new
    <3> QED
      BY <2>2, <2>4, <3>1, <3>2
  <2> QED
    BY <1>2, <2>1, <2>3, <2>4
<1>7. changes' \in 0 .. MaxChanges /\ changes <= changes' /\ present' \in SUBSET Resource
      /\ faults' \in 0 .. MaxFaults
  BY <1>3, QuietTypes
<1> QED
  BY <1>2, <1>3, <1>6, <1>7, AnnounceStores

\* A process that has just started has heard of nothing.
LEMMA FreshReplays ==
    ASSUME informer' = [w \in Watch |-> NewInformer], consumer' = [w \in Watch |-> NewConsumer],
           NEW w \in Watch
    PROVE  Replay(w)' = ListCache(w)'
<1>1. /\ informer'[w].queue = <<>> /\ informer'[w].callback = None /\ informer'[w].cache = {}
      /\ consumer'[w].callback = None /\ consumer'[w].store = None
  BY DEF NewInformer, NewConsumer
<1>2. Waiting(w)' = <<>> /\ ListCache(w)' = {}
  BY <1>1, Pairs DEF Waiting, ListCache
<1>3. Base(w)' = toUntructuredMap({})
  BY <1>1, <1>2 DEF Base
<1>4. Replay(w)' = Outcome(toUntructuredMap({}), <<>>)
  BY <1>1, <1>2, <1>3, Pairs DEF Replay
<1>5. StateOfWorld(toUntructuredMap({})) = {}
  BY DEF StateOfWorld, Range, toUntructuredMap
<1> QED
  BY <1>2, <1>4, <1>5, OutcomeOfNone

\* The process dies, and its successor has no watches.
LEMMA RaceStores == StoreInv /\ MapRace => StoreInv'
<1> SUFFICES ASSUME StoreInv, MapRace PROVE StoreInv'
  OBVIOUS
<1>1. /\ up' = FALSE /\ manager' = "run" /\ mux' = None /\ done' = FALSE /\ reading' = None
      /\ missed' = FALSE /\ UNCHANGED <<present, world, changes>>
      /\ faults' \in 0 .. MaxFaults
  BY QuietTypes DEF MapRace
<1>2. /\ current' = [r \in Resource |-> None] /\ watch' = [w \in Watch |-> Unused]
      /\ informer' = [w \in Watch |-> NewInformer] /\ consumer' = [w \in Watch |-> NewConsumer]
      /\ published' = [r \in Resource |-> None]
  BY DEF MapRace
<1>3. TypeOK'
  <2>1. NewInformer \in AnInformer /\ NewConsumer \in AConsumer
    <3>1. <<>> \in Seq(Event)
      OBVIOUS
    <3> QED
      BY <3>1 DEF NewInformer, NewConsumer, AnInformer, AConsumer
  <2>2. informer' \in [Watch -> AnInformer] /\ consumer' \in [Watch -> AConsumer]
    BY <1>2, <2>1
  <2>3. \A w \in Watch : consumer'[w].stage = "select" /\ consumer'[w].callback = None
                         /\ consumer'[w].store = None
    BY <1>2 DEF NewConsumer
  <2> QED
    BY <1>1, <1>2, <2>2, <2>3, QuietTypes DEF TypeOK, AnInformer, AConsumer, Unused
<1>4. Sending'
  BY <1>1 DEF Sending
<1>5. ListsOK'
  BY <1>1, <1>2, FS_EmptySet DEF StoreInv, ListsOK, Listed, OneEach, NewInformer
<1>6. Replays'
  BY <1>2, FreshReplays DEF Replays
<1> QED
  BY <1>3, <1>4, <1>5, <1>6 DEF StoreInv

\* So has the first one.
LEMMA StoreInit == Init => StoreInv
<1> SUFFICES ASSUME Init PROVE StoreInv
  OBVIOUS
<1>1. /\ present \in SUBSET Resource /\ world = [r \in Resource |-> {}]
      /\ changes = 0 /\ faults = 0 /\ up = TRUE /\ manager = "run" /\ mux = None
      /\ done = FALSE /\ reading = None /\ missed = FALSE
      /\ current = [r \in Resource |-> None] /\ watch = [w \in Watch |-> Unused]
      /\ informer = [w \in Watch |-> NewInformer] /\ consumer = [w \in Watch |-> NewConsumer]
      /\ published = [r \in Resource |-> None]
  BY DEF Init, ProcessInit
<1>2. TypeOK
  <2>1. NewInformer \in AnInformer /\ NewConsumer \in AConsumer
    <3>1. <<>> \in Seq(Event)
      OBVIOUS
    <3> QED
      BY <3>1 DEF NewInformer, NewConsumer, AnInformer, AConsumer
  <2>2. informer \in [Watch -> AnInformer] /\ consumer \in [Watch -> AConsumer]
    BY <1>1, <2>1
  <2>3. \A w \in Watch : consumer[w].stage = "select" /\ consumer[w].callback = None
                         /\ consumer[w].store = None
    BY <1>1 DEF NewConsumer
  <2>4. MaxChanges \in Nat /\ MaxFaults \in Nat
    BY ArgoAssumption
  <2>5. /\ watch \in [Watch -> [started : BOOLEAN, cancelled : BOOLEAN, closed : BOOLEAN]]
        /\ current \in [Resource -> Watch \cup {None}]
        /\ published \in [Resource -> Watch \cup {None}]
        /\ world \in [Resource -> SUBSET Object]
    BY <1>1 DEF Unused
  <2>6. changes \in 0 .. MaxChanges /\ faults \in 0 .. MaxFaults
    BY <1>1, <2>4
  <2> QED
    BY <1>1, <2>2, <2>3, <2>4, <2>5, <2>6 DEF TypeOK, AnInformer, AConsumer
<1>3. Sending
  BY <1>1 DEF Sending
<1>4. ListsOK
  BY <1>1, FS_EmptySet DEF ListsOK, Listed, OneEach, NewInformer
<1>5. Replays
  <2> SUFFICES ASSUME NEW w \in Watch PROVE Replay(w) = ListCache(w)
    BY DEF Replays
  <2>1. /\ informer[w].queue = <<>> /\ informer[w].callback = None /\ informer[w].cache = {}
        /\ consumer[w].callback = None /\ consumer[w].store = None
    BY <1>1 DEF NewInformer, NewConsumer
  <2>2. Waiting(w) = <<>> /\ ListCache(w) = {}
    BY <2>1, Pairs DEF Waiting, ListCache
  <2>3. Replay(w) = Outcome(toUntructuredMap({}), <<>>)
    BY <2>1, <2>2, Pairs DEF Replay, Base
  <2>4. StateOfWorld(toUntructuredMap({})) = {}
    BY DEF StateOfWorld, Range, toUntructuredMap
  <2> QED
    BY <2>2, <2>3, <2>4, OutcomeOfNone
<1> QED
  BY <1>2, <1>3, <1>4, <1>5 DEF StoreInv

\* Every step keeps the invariant.
LEMMA StoreKept == StoreInv /\ [Next]_vars => StoreInv'
<1> SUFFICES ASSUME StoreInv, [Next]_vars PROVE StoreInv'
  OBVIOUS
<1>1. CASE Environment
  <2>1. ASSUME NEW w \in Watch, Disconnect(w) PROVE StoreInv'
    BY <2>1, StopKeeps
  <2> QED
    BY <1>1, <2>1, ObjectChangeKeeps, InstallKeeps, UninstallKeeps DEF Environment
<1>2. CASE Manager
  BY <1>2, DiscoverStores, ReturnsStores DEF Manager
<1>3. CASE Read \/ MapRace
  BY <1>3, ReadStores, RaceStores
<1>4. ASSUME NEW w \in Watch, Informer(w) PROVE StoreInv'
  BY <1>4, ListKeeps, StopKeeps, HandleKeeps, SendCallbackKeeps DEF Informer
<1>5. ASSUME NEW w \in Watch, CloserRuns(w) PROVE StoreInv'
  BY <1>5, CloserStores
<1>6. ASSUME NEW w \in Watch, Consumer(w) PROVE StoreInv'
  BY <1>6, ReceiveKeeps, StageKeeps, FromCallbackKeeps DEF Consumer
<1>7. CASE UNCHANGED vars
  BY <1>7, RestTyped, QuietTypes DEF vars, cluster, client, loop
<1> QED
  BY <1>1, <1>2, <1>3, <1>4, <1>5, <1>6, <1>7 DEF Next

\* Whatever the cluster and the watches do, the objects on their way are objects the
\* cluster has had, callbacks carry them with a state of the world, and stores keep
\* them by their uid (k8s.go:28-38, argo.go:13-41).
THEOREM ArgoTypeCorrect == SafetySpec => []TypeOK
<1>1. StoreInv => TypeOK
  BY DEF StoreInv
<1> QED
  BY <1>1, StoreInit, StoreKept, PTL DEF SafetySpec

\* Although a callback's state of the world may be newer than its object, and the
\* informer's cache newer than the queue, a store and the callbacks on their way to
\* it make up the informer's cache: what a watch has put into a store is never
\* wrong for good (k8s.go:110-137, argo.go:105-123).
THEOREM StoresReplay == SafetySpec => []StoreReplays
<1>1. StoreInv => StoreReplays
  BY DEF StoreInv, Replays, StoreReplays
<1> QED
  BY <1>1, StoreInit, StoreKept, PTL DEF SafetySpec
=============================================================================
