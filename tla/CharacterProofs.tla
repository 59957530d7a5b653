---------------------------- MODULE CharacterProofs ----------------------------
(***************************************************************************)
(* What is proved about the events and the name of a character: first the  *)
(* theorems about MudEvents, for any owners, events and ids, while the     *)
(* three risky situations of AllRisks stay away; then the theorems about   *)
(* PlayerRename.  The two share nothing but this module.                   *)
(*                                                                         *)
(* The inductive invariant of the events is IInv.  Its part Sound(m, r)    *)
(* holds of every mem m between the parts of a step, too, so that each     *)
(* operator of MudEvents has a lemma that takes a sound mem to a sound     *)
(* mem, and a step is a chain of them.                                     *)
(***************************************************************************)
EXTENDS MudEvents, PlayerRename, FiniteSetTheorems, NaturalsInduction, SequenceTheorems, TLAPS

\* A mem in the middle of a step: simple_list() may be in the middle of a list.
Mem == [event : [Events -> EventType], there : SUBSET Owners,
        list : [Owners \cup {Temp} -> Seq(Events)], has : [Owners -> BOOLEAN],
        static : [list : Owners \cup {Temp, None}, at : Events \cup {None}],
        fault : BOOLEAN]

In(e, s) == \E k \in 1 .. Len(s) : s[k] = e
Once(s)  == \A j, k \in 1 .. Len(s) : s[j] = s[k] => j = k

\* Every list has the events that carry something for its owner, each of them once.
ListsSound(m) ==
  /\ \A o \in Owners : Once(m.list[o])
  /\ \A o \in Owners, e \in Events :
       In(e, m.list[o]) <=> m.event[e].obj /\ m.event[e].own = o

\* What an event carries belongs to an owner that is there, and r is running.
EventsSound(m, r) ==
  /\ \A e \in Events : m.event[e].obj =>
       /\ m.event[e].st # "free"
       /\ m.event[e].own \in m.there
       /\ m.event[e].own \in ByVnum => m.event[e].vnum
  /\ \A e \in Events : m.event[e].st = "running" <=> e = r

\* The list is NULL when it is empty, and an object has one event at most.
OwnersSound(m) ==
  /\ \A o \in m.there \cap FreesEmptyList : m.has[o] <=> m.list[o] # <<>>
  /\ \A o \in Objs : Len(m.list[o]) <= 1

\* What holds while r is running, also between the parts of a step.
Sound(m, r) ==
  m \in Mem /\ ~m.fault /\ ListsSound(m) /\ EventsSound(m, r) /\ OwnersSound(m)

IInv ==
  /\ Sound(mem, running) /\ mem.static = NoLoop
  /\ running \in Events \cup {None}
  /\ pending \subseteq Chars /\ IsFiniteSet(pending)

-----------------------------------------------------------------------------
(* Lemmas: sequences.                                                      *)

\* RemoveAt takes position p away and moves what follows one place forward.
LEMMA RemoveAtProperties ==
  ASSUME NEW S, NEW s \in Seq(S), NEW p \in 1 .. Len(s)
  PROVE  /\ RemoveAt(s, p) \in Seq(S)
         /\ Len(RemoveAt(s, p)) = Len(s) - 1
         /\ \A i \in 1 .. Len(s) - 1 :
              RemoveAt(s, p)[i] = IF i < p THEN s[i] ELSE s[i+1]
<1> DEFINE front == SubSeq(s, 1, p-1)
           back  == SubSeq(s, p+1, Len(s))
<1>1. /\ front \in Seq(S) /\ Len(front) = p - 1
      /\ \A i \in 1 .. p-1 : front[i] = s[i]
  OBVIOUS
<1>2. /\ back \in Seq(S) /\ Len(back) = Len(s) - p
      /\ \A i \in 1 .. Len(s) - p : back[i] = s[p + i]
  OBVIOUS
<1>3. RemoveAt(s, p) = front \o back
  BY DEF RemoveAt
<1> HIDE DEF front, back
<1>4. /\ front \o back \in Seq(S)
      /\ Len(front \o back) = Len(front) + Len(back)
      /\ \A i \in 1 .. Len(front) + Len(back) :
           (front \o back)[i] = IF i <= Len(front) THEN front[i]
                                ELSE back[i - Len(front)]
  BY <1>1, <1>2, ConcatProperties, Zenon
<1>5. ASSUME NEW i \in 1 .. Len(s) - 1, i >= p
      PROVE  (front \o back)[i] = s[i+1]
  <2>1. (front \o back)[i] = back[i - (p - 1)]
    BY <1>1, <1>2, <1>4, <1>5
  <2>2. i - (p - 1) \in 1 .. Len(s) - p
    BY <1>5
  <2>3. QED
    BY <2>1, <2>2, <1>2
<1>6. Len(front \o back) = Len(s) - 1
  BY <1>1, <1>2, <1>4
<1>7. ASSUME NEW i \in 1 .. Len(s) - 1, i < p
      PROVE  (front \o back)[i] = s[i]
  <2>1. i \in 1 .. p-1 /\ i <= Len(front)
    BY <1>1, <1>7
  <2>2. (front \o back)[i] = front[i]
    BY <1>1, <1>2, <1>4, <2>1
  <2>3. QED
    BY <1>1, <2>1, <2>2
<1>8. \A i \in 1 .. Len(s) - 1 :
        (front \o back)[i] = IF i < p THEN s[i] ELSE s[i+1]
  <2> HIDE DEF front, back
  <2>1. TAKE i \in 1 .. Len(s) - 1
  <2>2. i < p \/ i >= p
    OBVIOUS
  <2>3. CASE i < p
    BY <2>3, <1>7
  <2>4. CASE i >= p
    <3>1. ~(i < p)
      BY <2>4
    <3>2. QED
      BY <2>4, <3>1, <1>5, Zenon
  <2>5. QED
    BY <2>2, <2>3, <2>4
<1>9. QED
  BY <1>3, <1>4, <1>6, <1>8, Zenon

\* A set of numbers has a lowest one.
LEMMA LowestExists ==
  ASSUME NEW S, S \subseteq Nat, S # {}
  PROVE  \E r \in S : \A q \in S : r <= q
<1> DEFINE R == OpToRel(<, Nat)
<1>1. IsWellFoundedOn(R, Nat)
  BY NatLessThanWellFounded, Zenon
<1>2. \A a, b \in Nat : a < b => <<a, b>> \in R
  BY DEF OpToRel
<1> HIDE DEF R
<1>3. PICK r \in S : \A q \in S : ~ (<<q, r>> \in R)
  BY <1>1, WFMin, Zenon
<1>4. ASSUME NEW q \in S PROVE r <= q
  <2>1. r \in Nat /\ q \in Nat /\ ~ (q < r)
    BY <1>2, <1>3
  <2>2. QED
    BY <2>1
<1>5. QED
  BY <1>4

\* RemoveFirst takes one element away, if it is there, and what stays is there once.
LEMMA RemoveFirstOnce ==
  ASSUME NEW S, NEW s \in Seq(S), NEW e, Once(s)
  PROVE  /\ RemoveFirst(s, e) \in Seq(S)
         /\ Len(RemoveFirst(s, e)) <= Len(s)
         /\ Once(RemoveFirst(s, e))
         /\ \A x : In(x, RemoveFirst(s, e)) <=> In(x, s) /\ x # e
<1>1. CASE ~ In(e, s)
  <2>1. RemoveFirst(s, e) = s
    BY <1>1 DEF RemoveFirst, In
  <2>2. QED
    BY <1>1, <2>1
<1>2. CASE In(e, s)
  <2> DEFINE I == {i \in 1 .. Len(s) : s[i] = e}
             p == SelectInSeq(s, LAMBDA v : v = e)
             d == RemoveAt(s, p)
  <2>1. RemoveFirst(s, e) = d
    BY <1>2 DEF RemoveFirst, In
  <2>2. I \subseteq Nat /\ I # {}
    BY <1>2 DEF In
  <2>3. PICK q \in I : \A i \in I : q <= i
    BY <2>2, LowestExists
  <2>4. p = Min(I)
    BY <2>2 DEF SelectInSeq
  <2>5. Min(I) \in I
    BY <2>3 DEF Min
  <2>6. p \in 1 .. Len(s) /\ s[p] = e
    BY <2>4, <2>5
  <2> HIDE DEF I, p
  <2>7. /\ d \in Seq(S) /\ Len(d) = Len(s) - 1
        /\ \A i \in 1 .. Len(s) - 1 : d[i] = IF i < p THEN s[i] ELSE s[i+1]
    BY <2>6, RemoveAtProperties
  <2> HIDE DEF d
  <2>8. Once(d)
    BY <2>6, <2>7 DEF Once
  <2>9. ASSUME NEW x, In(x, d) PROVE In(x, s) /\ x # e
    <3>1. PICK i \in 1 .. Len(d) : d[i] = x
      BY <2>9 DEF In
    <3>2. CASE i < p
      <4>1. i \in 1 .. Len(s) /\ s[i] = x
        BY <2>7, <3>1, <3>2
      <4>2. QED
        BY <2>6, <3>2, <4>1 DEF In, Once
    <3>3. CASE ~(i < p)
      <4>1. i + 1 \in 1 .. Len(s) /\ s[i+1] = x /\ i + 1 # p
        BY <2>6, <2>7, <3>1, <3>3
      <4>2. QED
        BY <2>6, <4>1 DEF In, Once
    <3>4. QED
      BY <3>2, <3>3
  <2>10. ASSUME NEW x, In(x, s), x # e PROVE In(x, d)
    <3>1. PICK i \in 1 .. Len(s) : s[i] = x
      BY <2>10 DEF In
    <3>2. CASE i < p
      <4>1. i \in 1 .. Len(d) /\ d[i] = x
        BY <2>6, <2>7, <3>1, <3>2
      <4>2. QED
        BY <4>1 DEF In
    <3>3. CASE ~(i < p)
      <4>1. i # p
        BY <2>6, <2>10, <3>1
      <4>2. i - 1 \in 1 .. Len(d) /\ ~(i - 1 < p) /\ i - 1 + 1 = i
        BY <2>6, <2>7, <3>1, <3>3, <4>1
      <4>3. d[i-1] = x
        BY <2>7, <3>1, <4>2
      <4>4. QED
        BY <4>2, <4>3 DEF In
    <3>4. QED
      BY <3>2, <3>3
  <2>11. Len(d) <= Len(s)
    BY <2>7
  <2>12. QED
    BY <2>1, <2>7, <2>8, <2>9, <2>10, <2>11
<1>3. QED
  BY <1>1, <1>2

\* Append puts an element behind the others.
LEMMA AppendOnce ==
  ASSUME NEW S, NEW s \in Seq(S), NEW e \in S, Once(s), ~ In(e, s)
  PROVE  /\ Append(s, e) \in Seq(S) /\ Append(s, e) # <<>>
         /\ Len(Append(s, e)) = Len(s) + 1
         /\ Once(Append(s, e))
         /\ \A x : In(x, Append(s, e)) <=> In(x, s) \/ x = e
<1> DEFINE d == Append(s, e)
<1>1. /\ d \in Seq(S) /\ Len(d) = Len(s) + 1 /\ d # <<>>
      /\ d[Len(s)+1] = e /\ \A i \in 1 .. Len(s) : d[i] = s[i]
  BY AppendProperties
<1> HIDE DEF d
<1>2. Once(d)
  <2> SUFFICES ASSUME NEW j \in 1 .. Len(d), NEW k \in 1 .. Len(d), d[j] = d[k] PROVE j = k
    BY DEF Once
  <2>1. CASE j \in 1 .. Len(s) /\ k \in 1 .. Len(s)
    BY <1>1, <2>1 DEF Once
  <2>2. CASE j = Len(s) + 1 /\ k \in 1 .. Len(s)
    BY <1>1, <2>2 DEF In
  <2>3. CASE j \in 1 .. Len(s) /\ k = Len(s) + 1
    BY <1>1, <2>3 DEF In
  <2>4. QED
    BY <1>1, <2>1, <2>2, <2>3
<1>3. ASSUME NEW x, In(x, s) \/ x = e PROVE In(x, d)
  BY <1>1, <1>3 DEF In
<1>4. ASSUME NEW x, In(x, d) PROVE In(x, s) \/ x = e
  BY <1>1, <1>4 DEF In
<1>5. /\ d \in Seq(S) /\ d # <<>> /\ Len(d) = Len(s) + 1 /\ Once(d)
      /\ \A x : In(x, d) <=> In(x, s) \/ x = e
  BY <1>1, <1>2, <1>3, <1>4
<1>6. QED
  BY <1>5 DEF d

\* A sequence is empty when nothing is in it.
LEMMA EmptyWhenNothingIn ==
  ASSUME NEW S, NEW s \in Seq(S)
  PROVE  /\ s = <<>> <=> \A x \in S : ~ In(x, s)
         /\ s = <<>> <=> Len(s) = 0
<1>1. s = <<>> <=> Len(s) = 0
  OBVIOUS
<1>2. ASSUME \A x \in S : ~ In(x, s) PROVE Len(s) = 0
  <2> SUFFICES ASSUME Len(s) # 0 PROVE FALSE
    OBVIOUS
  <2>1. 1 \in 1 .. Len(s) /\ s[1] \in S
    OBVIOUS
  <2>2. QED
    BY <1>2, <2>1 DEF In
<1>3. ASSUME Len(s) = 0 PROVE \A x \in S : ~ In(x, s)
  BY <1>3 DEF In
<1>4. QED
  BY <1>1, <1>2, <1>3

\* Induction over a bounded set of numbers.
LEMMA UpTo ==
  ASSUME NEW n \in Nat, NEW T, 0 \in T, \A k \in 1 .. n : k - 1 \in T => k \in T
  PROVE  0 .. n \subseteq T
<1> DEFINE S == {k \in 0 .. n : k \notin T}
<1>1. SUFFICES ASSUME S # {} PROVE FALSE
  OBVIOUS
<1>2. PICK k \in S : \A q \in S : k <= q
  <2>1. S \subseteq Nat
    OBVIOUS
  <2>2. QED
    BY <1>1, <2>1, LowestExists
<1>3. k \in 1 .. n /\ k - 1 \in 0 .. n /\ ~(k <= k - 1)
  BY <1>2
<1>4. k - 1 \in T
  BY <1>2, <1>3
<1>5. QED
  BY <1>2, <1>3, <1>4

-----------------------------------------------------------------------------
(* Lemmas: the parts of mem.                                               *)

\* n is m with other events.
WithEvents(n, m) ==
  /\ n.there = m.there /\ n.list = m.list /\ n.has = m.has
  /\ n.static = m.static /\ n.fault = m.fault

\* The event that runs, r and then t, is or was e if it changes.
OnlyRunner(e, r, t) == \A x \in Events \ {e} : x = r <=> x = t

\* All events but e are as in m, and all lists but that of o.
OtherEvents(n, m, e) == \A x \in Events \ {e} : n.event[x] = m.event[x]
OtherLists(n, m, o) ==
  \A p \in Owners \ {o} : n.list[p] = m.list[p] /\ n.has[p] = m.has[p]

\* Where a mem has its parts.
LEMMA MemParts ==
  ASSUME NEW m \in Mem
  PROVE  /\ m.event \in [Events -> EventType] /\ m.there \subseteq Owners
         /\ \A o \in Owners : m.list[o] \in Seq(Events) /\ m.has[o] \in BOOLEAN
         /\ \A e \in Events : /\ m.event[e].st \in {"free", "queued", "running"}
                              /\ m.event[e].obj \in BOOLEAN /\ m.event[e].vnum \in BOOLEAN
                              /\ m.event[e].own \in Owners \cup {None}
  BY DEF Mem, EventType

\* Another event is put in the place of one.
LEMMA EventPut ==
  ASSUME NEW m \in Mem, NEW e \in Events, NEW v \in EventType
  PROVE  LET n == [m EXCEPT !.event[e] = v] IN
         /\ n \in Mem /\ WithEvents(n, m)
         /\ n.event[e] = v /\ \A x \in Events \ {e} : n.event[x] = m.event[x]
  BY DEF Mem, WithEvents

\* m when e is in another state.
InState(m, e, st) == [m EXCEPT !.event[e].st = st]

\* The state of an event changes.
LEMMA StatePut ==
  ASSUME NEW m \in Mem, NEW e \in Events, NEW st \in {"free", "queued", "running"}
  PROVE  LET n == InState(m, e, st) IN
         /\ n \in Mem /\ WithEvents(n, m)
         /\ n.event[e].st = st /\ n.event[e].obj = m.event[e].obj
         /\ n.event[e].own = m.event[e].own /\ n.event[e].vnum = m.event[e].vnum
         /\ OtherEvents(n, m, e)
<1> DEFINE v == [m.event[e] EXCEPT !.st = st]
<1>1. m.event[e] \in EventType
  BY DEF Mem
<1>2. /\ v \in EventType /\ v.st = st /\ v.obj = m.event[e].obj
      /\ v.own = m.event[e].own /\ v.vnum = m.event[e].vnum
  BY <1>1 DEF EventType
<1>3. InState(m, e, st) = [m EXCEPT !.event[e] = v]
  BY DEF Mem, InState
<1> HIDE DEF v
<1>4. QED
  BY <1>2, <1>3, EventPut DEF OtherEvents

\* DataFreed takes away what the event carries.
LEMMA DataFreedIs ==
  ASSUME NEW m \in Mem, NEW e \in Events
  PROVE  LET n == DataFreed(m, e) IN
         /\ n \in Mem /\ WithEvents(n, m)
         /\ n.event[e].st = m.event[e].st /\ n.event[e].obj = FALSE
         /\ \A x \in Events \ {e} : n.event[x] = m.event[x]
<1> DEFINE v == [m.event[e] EXCEPT !.obj = FALSE, !.vnum = FALSE]
<1>1. v \in EventType /\ v.st = m.event[e].st /\ v.obj = FALSE
  <2>1. m.event[e] \in EventType
    BY DEF Mem
  <2>2. QED
    BY <2>1 DEF EventType
<1>2. DataFreed(m, e) = [m EXCEPT !.event[e] = v]
  BY DEF DataFreed, Mem
<1> HIDE DEF v
<1>3. QED
  BY <1>1, <1>2, EventPut

\* The list of one owner changes.
LEMMA ListPut ==
  ASSUME NEW m \in Mem, NEW o \in Owners, NEW s \in Seq(Events)
  PROVE  LET n == [m EXCEPT !.list[o] = s] IN
         /\ n \in Mem
         /\ n.event = m.event /\ n.there = m.there /\ n.has = m.has
         /\ n.static = m.static /\ n.fault = m.fault
         /\ n.list[o] = s /\ \A p \in Owners \ {o} : n.list[p] = m.list[p]
  BY DEF Mem

\* ListFreed leaves an owner without a list.
LEMMA ListFreedIs ==
  ASSUME NEW m \in Mem, NEW o \in Owners
  PROVE  LET n == ListFreed(m, o) IN
         /\ n \in Mem
         /\ n.event = m.event /\ n.there = m.there
         /\ n.static = NoLoop /\ n.fault = m.fault
         /\ n.list[o] = <<>> /\ \A p \in Owners \ {o} : n.list[p] = m.list[p]
         /\ n.has[o] = FALSE /\ \A p \in Owners \ {o} : n.has[p] = m.has[p]
<1>1. NoLoop \in [list : Owners \cup {Temp, None}, at : Events \cup {None}]
  BY DEF NoLoop
<1>2. <<>> \in Seq(Events)
  OBVIOUS
<1>3. QED
  BY <1>1, <1>2 DEF ListFreed, Mem

\* The loop of simple_list() moves.
LEMMA StaticPut ==
  ASSUME NEW m \in Mem,
         NEW x \in [list : Owners \cup {Temp, None}, at : Events \cup {None}]
  PROVE  LET n == [m EXCEPT !.static = x] IN
         /\ n \in Mem
         /\ n.event = m.event /\ n.there = m.there /\ n.list = m.list /\ n.has = m.has
         /\ n.static = x /\ n.fault = m.fault
  BY DEF Mem

\* Owners come and go.
LEMMA TherePut ==
  ASSUME NEW m \in Mem, NEW S \in SUBSET Owners
  PROVE  LET n == [m EXCEPT !.there = S] IN
         /\ n \in Mem
         /\ n.event = m.event /\ n.there = S /\ n.list = m.list /\ n.has = m.has
         /\ n.static = m.static /\ n.fault = m.fault
  BY DEF Mem

-----------------------------------------------------------------------------
(* Lemmas: one event.                                                      *)

\* n is m after e has lost what it carried; simple_list() is reset with an emptied list.
Lost(m, n, e) ==
  /\ n.there = m.there
  /\ \A x \in Events \ {e} : n.event[x] = m.event[x]
  /\ \A o \in Owners, x \in Events : In(x, n.list[o]) <=> In(x, m.list[o]) /\ x # e
  /\ n.static \in {m.static, NoLoop}
  /\ \A o \in FreesEmptyList : n.list[o] = <<>> /\ m.list[o] # <<>> => n.static = NoLoop

\* free_mud_event takes the event off the list of its owner and leaves all else sound.
LEMMA FreeMudSound ==
  ASSUME NEW m, NEW r, Sound(m, r), NEW e \in Events, m.event[e].obj
  PROVE  LET n == free_mud_event(m, e) IN
         /\ Sound(n, r) /\ Lost(m, n, e)
         /\ n.event[e].st = m.event[e].st /\ ~n.event[e].obj
<1> DEFINE o == m.event[e].own
           s == RemoveFirst(m.list[o], e)
           q == Removed(m, o, e)
           f == IF o \in FreesEmptyList /\ m.has[o] /\ q.list[o] = <<>>
                THEN ListFreed(q, o) ELSE q
           n == DataFreed(f, e)
<1>1. m \in Mem /\ ~m.fault /\ ListsSound(m) /\ EventsSound(m, r) /\ OwnersSound(m)
  BY DEF Sound
<1>2. /\ o \in m.there /\ o \in Owners /\ m.event[e].st # "free"
      /\ o \in ByVnum => m.event[e].vnum
  BY <1>1, MemParts DEF EventsSound
<1>3. free_mud_event(m, e) = n
  BY <1>2 DEF free_mud_event
<1>4. m.list[o] \in Seq(Events) /\ Once(m.list[o]) /\ In(e, m.list[o])
  BY <1>1, <1>2, MemParts DEF ListsSound
<1>5. q = [m EXCEPT !.list[o] = s]
  BY DEF Removed
<1> HIDE DEF o
<1>6. /\ s \in Seq(Events) /\ Len(s) <= Len(m.list[o]) /\ Once(s)
      /\ \A x : In(x, s) <=> In(x, m.list[o]) /\ x # e
  BY <1>4, RemoveFirstOnce
<1> HIDE DEF s, q
<1>7. /\ q \in Mem
      /\ q.event = m.event /\ q.there = m.there /\ q.has = m.has
      /\ q.static = m.static /\ q.fault = m.fault
      /\ q.list[o] = s /\ \A p \in Owners \ {o} : q.list[p] = m.list[p]
  BY <1>1, <1>2, <1>5, <1>6, ListPut
<1>8. /\ f \in Mem
      /\ f.event = m.event /\ f.there = m.there /\ f.fault = m.fault
      /\ f.list[o] = s /\ \A p \in Owners \ {o} : f.list[p] = m.list[p]
      /\ \A p \in Owners \ {o} : f.has[p] = m.has[p]
      /\ f.has[o] = (m.has[o] /\ ~(o \in FreesEmptyList /\ s = <<>>))
      /\ f.static \in {m.static, NoLoop}
      /\ o \in FreesEmptyList /\ m.has[o] /\ s = <<>> => f.static = NoLoop
  <2>1. CASE o \in FreesEmptyList /\ m.has[o] /\ s = <<>>
    <3>1. f = ListFreed(q, o)
      BY <1>7, <2>1
    <3> DEFINE g == ListFreed(q, o)
    <3>2. /\ g \in Mem
          /\ g.event = q.event /\ g.there = q.there
          /\ g.static = NoLoop /\ g.fault = q.fault
          /\ g.list[o] = <<>> /\ \A p \in Owners \ {o} : g.list[p] = q.list[p]
          /\ g.has[o] = FALSE /\ \A p \in Owners \ {o} : g.has[p] = q.has[p]
      BY <1>2, <1>7, ListFreedIs
    <3> HIDE DEF f, g
    <3>3. f = g
      BY <3>1 DEF g
    <3>4. QED
      BY <1>7, <2>1, <3>2, <3>3
  <2>2. CASE ~(o \in FreesEmptyList /\ m.has[o] /\ s = <<>>)
    <3>1. f = q
      BY <1>7, <2>2
    <3>2. m.has[o] \in BOOLEAN
      BY <1>1, <1>2, MemParts
    <3> HIDE DEF f
    <3>3. QED
      BY <1>2, <1>7, <2>2, <3>1, <3>2
  <2>3. QED
    BY <2>1, <2>2
<1> HIDE DEF f
<1>9. /\ n \in Mem /\ WithEvents(n, f)
      /\ n.event[e].st = f.event[e].st /\ n.event[e].obj = FALSE
      /\ \A x \in Events \ {e} : n.event[x] = f.event[x]
  BY <1>8, DataFreedIs
<1> HIDE DEF n
<1>10. /\ n \in Mem /\ n.there = m.there /\ ~n.fault
       /\ n.event[e].st = m.event[e].st /\ n.event[e].obj = FALSE
       /\ \A x \in Events \ {e} : n.event[x] = m.event[x]
       /\ n.list[o] = s /\ \A p \in Owners \ {o} : n.list[p] = m.list[p]
       /\ \A p \in Owners \ {o} : n.has[p] = m.has[p]
       /\ n.has[o] = (m.has[o] /\ ~(o \in FreesEmptyList /\ s = <<>>))
       /\ n.static \in {m.static, NoLoop}
       /\ o \in FreesEmptyList /\ m.has[o] /\ s = <<>> => n.static = NoLoop
  BY <1>1, <1>8, <1>9 DEF WithEvents
<1>11. \A p \in Owners, x \in Events : In(x, n.list[p]) <=> In(x, m.list[p]) /\ x # e
  <2> SUFFICES ASSUME NEW p \in Owners, NEW x \in Events
               PROVE  In(x, n.list[p]) <=> In(x, m.list[p]) /\ x # e
    OBVIOUS
  <2>1. CASE p = o
    BY <1>6, <1>10, <2>1
  <2>2. CASE p # o
    <3>1. n.list[p] = m.list[p]
      BY <1>10, <2>2
    <3>2. ~ In(e, m.list[p])
      BY <1>1, <2>2 DEF ListsSound, o
    <3>3. QED
      BY <3>1, <3>2
  <2>3. QED
    BY <2>1, <2>2
<1>12. m.list[o] # <<>>
  BY <1>4, EmptyWhenNothingIn
<1>13. Lost(m, n, e)
  <2>1. ASSUME NEW p \in FreesEmptyList, n.list[p] = <<>>, m.list[p] # <<>>
        PROVE  n.static = NoLoop
    <3>1. p = o
      BY <1>10, <2>1 DEF FreesEmptyList
    <3>2. m.has[o]
      BY <1>1, <1>2, <1>12, <2>1, <3>1 DEF OwnersSound
    <3>3. QED
      BY <1>10, <2>1, <3>1, <3>2
  <2>2. QED
    BY <1>10, <1>11, <2>1 DEF Lost
<1>14. ListsSound(n)
  <2>1. ASSUME NEW p \in Owners PROVE Once(n.list[p])
    <3>1. CASE p = o
      BY <1>6, <1>10, <3>1
    <3>2. CASE p # o
      BY <1>1, <1>10, <3>2 DEF ListsSound
    <3>3. QED
      BY <3>1, <3>2
  <2>2. ASSUME NEW p \in Owners, NEW x \in Events
        PROVE  In(x, n.list[p]) <=> n.event[x].obj /\ n.event[x].own = p
    <3>1. CASE x = e
      BY <1>10, <1>11, <3>1
    <3>2. CASE x # e
      BY <1>1, <1>10, <1>11, <3>2 DEF ListsSound
    <3>3. QED
      BY <3>1, <3>2
  <2>3. QED
    BY <2>1, <2>2 DEF ListsSound
<1>15. EventsSound(n, r)
  BY <1>1, <1>10 DEF EventsSound
<1>16. OwnersSound(n)
  <2>1. ASSUME NEW p \in n.there \cap FreesEmptyList
        PROVE  n.has[p] <=> n.list[p] # <<>>
    <3>1. CASE p = o
      <4>1. m.has[o]
        BY <1>1, <1>2, <1>12, <2>1, <3>1 DEF OwnersSound
      <4>2. QED
        BY <1>10, <2>1, <3>1, <4>1
    <3>2. CASE p # o
      <4>1. p \in Owners \ {o} /\ p \in m.there \cap FreesEmptyList
        BY <1>10, <2>1, <3>2 DEF FreesEmptyList
      <4>2. QED
        BY <1>1, <1>10, <4>1 DEF OwnersSound
    <3>3. QED
      BY <3>1, <3>2
  <2>2. ASSUME NEW p \in Objs PROVE Len(n.list[p]) <= 1
    <3>1. m.list[p] \in Seq(Events) /\ Len(m.list[p]) <= 1 /\ p \in Owners
      BY <1>1, <2>2, MemParts DEF OwnersSound, Owners
    <3>2. CASE p = o
      BY <1>6, <1>10, <3>1, <3>2
    <3>3. CASE p # o
      BY <1>10, <3>1, <3>3
    <3>4. QED
      BY <3>2, <3>3
  <2>3. QED
    BY <2>1, <2>2 DEF OwnersSound
<1>17. /\ Sound(n, r) /\ Lost(m, n, e)
       /\ n.event[e].st = m.event[e].st /\ ~n.event[e].obj
  BY <1>10, <1>13, <1>14, <1>15, <1>16 DEF Sound
<1>18. QED
  BY <1>3, <1>17

\* An event that is not running is put in another state, from which it carries nothing
\* unless it is queued: all stays sound.
LEMMA EmptyPut ==
  ASSUME NEW m, NEW r, Sound(m, r), NEW e \in Events, ~m.event[e].obj,
         NEW v \in EventType, ~v.obj,
         NEW t, v.st = "running" <=> e = t, OnlyRunner(e, r, t)
  PROVE  LET n == [m EXCEPT !.event[e] = v] IN
         /\ Sound(n, t) /\ WithEvents(n, m) /\ n.event[e] = v /\ OtherEvents(n, m, e)
<1> DEFINE n == [m EXCEPT !.event[e] = v]
<1>1. m \in Mem /\ ~m.fault /\ ListsSound(m) /\ EventsSound(m, r) /\ OwnersSound(m)
  BY DEF Sound
<1>2. /\ n \in Mem /\ WithEvents(n, m)
      /\ n.event[e] = v /\ \A x \in Events \ {e} : n.event[x] = m.event[x]
  BY <1>1, EventPut
<1> HIDE DEF n
<1>3. ListsSound(n)
  BY <1>1, <1>2 DEF ListsSound, WithEvents
<1>4. EventsSound(n, t)
  BY <1>1, <1>2 DEF EventsSound, WithEvents, OnlyRunner
<1>5. OwnersSound(n)
  BY <1>1, <1>2 DEF OwnersSound, WithEvents
<1>6. Sound(n, t)
  BY <1>1, <1>2, <1>3, <1>4, <1>5 DEF Sound, WithEvents
<1>7. OtherEvents(n, m, e)
  BY <1>2 DEF OtherEvents
<1>8. QED
  BY <1>2, <1>6, <1>7 DEF n

\* event_cancel releases what the event carries, and the event unless it is running.
LEMMA CancelSound ==
  ASSUME NEW m, NEW r, Sound(m, r), NEW e \in Events, Allocated(m, e)
  PROVE  LET n == event_cancel(m, e) IN
         /\ Sound(n, r) /\ Lost(m, n, e) /\ ~n.event[e].obj
         /\ n.event[e].st = IF m.event[e].st = "queued" THEN "free" ELSE m.event[e].st
<1> DEFINE f == IF m.event[e].obj THEN free_mud_event(m, e) ELSE m
           n == event_cancel(m, e)
<1>1. Sound(f, r) /\ Lost(m, f, e) /\ f.event[e].st = m.event[e].st /\ ~f.event[e].obj
  <2>1. CASE m.event[e].obj
    BY <2>1, FreeMudSound
  <2>2. CASE ~m.event[e].obj
    <3>1. \A o \in Owners : ~ In(e, m.list[o])
      BY <2>2 DEF Sound, ListsSound
    <3>2. Lost(m, m, e)
      BY <3>1 DEF Lost
    <3>3. QED
      BY <2>2, <3>2
  <2>3. QED
    BY <2>1, <2>2
<1>2. n = IF m.event[e].st = "queued" THEN [f EXCEPT !.event[e] = Freed] ELSE f
  BY DEF event_cancel
<1> HIDE DEF f, n
<1>3. CASE m.event[e].st = "queued"
  <2>1. Freed \in EventType /\ ~Freed.obj /\ Freed.st = "free"
    BY DEF Freed, EventType
  <2>2. e # r
    BY <1>3 DEF Sound, EventsSound
  <2> DEFINE g == [f EXCEPT !.event[e] = Freed]
  <2>3. /\ Sound(g, r) /\ WithEvents(g, f)
        /\ g.event[e] = Freed /\ \A x \in Events \ {e} : g.event[x] = f.event[x]
    <3>1. /\ Sound(f, r) /\ ~f.event[e].obj /\ Freed \in EventType /\ ~Freed.obj
          /\ (Freed.st = "running" <=> e = r)
          /\ OnlyRunner(e, r, r)
      BY <1>1, <2>1, <2>2 DEF OnlyRunner
    <3> HIDE DEF g
    <3>2. g = [f EXCEPT !.event[e] = Freed]
      BY DEF g
    <3>3. Sound(g, r) /\ WithEvents(g, f) /\ g.event[e] = Freed /\ OtherEvents(g, f, e)
      BY <3>1, <3>2, EmptyPut
    <3>4. QED
      BY <3>3 DEF OtherEvents
  <2>4. n = g
    BY <1>2, <1>3
  <2> HIDE DEF g
  <2>5. Lost(m, g, e)
    BY <1>1, <2>3 DEF Lost, WithEvents
  <2>6. QED
    BY <1>3, <2>1, <2>3, <2>4, <2>5 DEF n
<1>4. CASE m.event[e].st # "queued"
  <2>1. n = f
    BY <1>2, <1>4
  <2>2. QED
    BY <1>1, <1>4, <2>1 DEF n
<1>5. QED
  BY <1>3, <1>4

-----------------------------------------------------------------------------
(* Lemmas: all events of one owner.                                        *)

\* One turn of CancelEach.
Turn(m, e, chosen) == IF e \in chosen THEN event_cancel(m, e) ELSE m

\* The turns of CancelEach: f[k] when the first k of s have had theirs.
Turns(f, m, s, chosen, n) ==
  f = [k \in 0 .. n |-> IF k = 0 THEN m ELSE Turn(f[k-1], s[k], chosen)]

\* There are such turns.
LEMMA TurnsExist ==
  ASSUME NEW m, NEW s, NEW chosen, NEW n \in Nat
  PROVE  \E f : Turns(f, m, s, chosen, n)
<1> DEFINE T == {k \in 0 .. n : \E f : Turns(f, m, s, chosen, k)}
<1>1. 0 \in T
  <2> DEFINE f == [k \in 0 .. 0 |-> m]
  <2>1. f = [k \in 0 .. 0 |-> IF k = 0 THEN m ELSE Turn(f[k-1], s[k], chosen)]
    OBVIOUS
  <2>2. Turns(f, m, s, chosen, 0)
    BY <2>1 DEF Turns
  <2>3. QED
    BY <2>2
<1>2. ASSUME NEW r \in 1 .. n, r - 1 \in T PROVE r \in T
  <2>1. PICK f : Turns(f, m, s, chosen, r - 1)
    BY <1>2
  <2>2. f = [k \in 0 .. r - 1 |-> IF k = 0 THEN m ELSE Turn(f[k-1], s[k], chosen)]
    BY <2>1 DEF Turns
  <2> DEFINE g == [k \in 0 .. r |-> IF k < r THEN f[k] ELSE Turn(f[r-1], s[r], chosen)]
  <2>3. ASSUME NEW k \in 0 .. r
        PROVE  g[k] = IF k = 0 THEN m ELSE Turn(g[k-1], s[k], chosen)
    <3>1. CASE k = 0
      BY <2>2, <3>1
    <3>2. CASE k # 0
      <4>1. k - 1 \in 0 .. r /\ k - 1 < r /\ g[k-1] = f[k-1]
        BY <3>2
      <4>2. CASE k = r
        BY <2>2, <3>2, <4>1, <4>2
      <4>3. CASE k # r
        <5>1. k \in 0 .. r - 1 /\ k < r
          BY <4>3
        <5>2. f[k] = Turn(f[k-1], s[k], chosen)
          BY <2>2, <3>2, <5>1
        <5>3. QED
          BY <3>2, <4>1, <5>1, <5>2
      <4>4. QED
        BY <4>2, <4>3
    <3>3. QED
      BY <3>1, <3>2
  <2>4. g = [k \in 0 .. r |-> g[k]]
    OBVIOUS
  <2> HIDE DEF g
  <2>5. g = [k \in 0 .. r |-> IF k = 0 THEN m ELSE Turn(g[k-1], s[k], chosen)]
    BY <2>3, <2>4
  <2>6. Turns(g, m, s, chosen, r)
    BY <2>5 DEF Turns
  <2>7. QED
    BY <2>6
<1> HIDE DEF T
<1>3. 0 .. n \subseteq T
  BY <1>1, <1>2, UpTo
<1>4. n \in T
  BY <1>3
<1>5. QED
  BY <1>4 DEF T

\* n is m after the events S were cancelled.
Cancelled(m, n, S) ==
  /\ n.there = m.there
  /\ \A x \in Events \ S : n.event[x] = m.event[x]
  /\ \A o \in Owners, x \in Events : In(x, n.list[o]) <=> In(x, m.list[o]) /\ x \notin S
  /\ n.static \in {m.static, NoLoop}

\* CancelEach cancels what was chosen of s, and leaves all else sound.
LEMMA CancelEachSound ==
  ASSUME NEW m, NEW r, Sound(m, r), NEW s \in Seq(Events), Once(s), NEW chosen,
         \A k \in 1 .. Len(s) : s[k] \in chosen => Allocated(m, s[k])
  PROVE  LET n == CancelEach(m, s, chosen) IN
         Sound(n, r) /\ Cancelled(m, n, {e \in chosen : In(e, s)})
<1> DEFINE f == CHOOSE f : Turns(f, m, s, chosen, Len(s))
           Had(k) == {s[j] : j \in 1 .. k} \cap chosen
           T == {k \in 0 .. Len(s) : Sound(f[k], r) /\ Cancelled(m, f[k], Had(k))}
<1>1. CancelEach(m, s, chosen) = f[Len(s)]
  BY DEF CancelEach, Turns, Turn
<1>2. Turns(f, m, s, chosen, Len(s))
  <2>1. \E g : Turns(g, m, s, chosen, Len(s))
    BY TurnsExist
  <2>2. QED
    BY <2>1
<1> HIDE DEF f
<1>3. /\ f[0] = m
      /\ \A k \in 1 .. Len(s) : f[k] = Turn(f[k-1], s[k], chosen)
  BY <1>2 DEF Turns
<1>4. 0 \in T
  <2>1. Had(0) = {}
    OBVIOUS
  <2>2. Cancelled(m, m, {})
    BY DEF Cancelled
  <2> HIDE DEF Had
  <2>3. f[0] = m /\ 0 \in 0 .. Len(s)
    BY <1>3
  <2>4. QED
    BY <2>1, <2>2, <2>3
<1>5. ASSUME NEW k \in 1 .. Len(s), k - 1 \in T PROVE k \in T
  <2> DEFINE e == s[k]
             g == f[k-1]
  <2>1. Sound(g, r) /\ Cancelled(m, g, Had(k-1)) /\ f[k] = Turn(g, e, chosen) /\ e \in Events
    BY <1>3, <1>5
  <2>2. \A x : x \in Had(k) <=> x \in Had(k-1) \/ (x = e /\ x \in chosen)
    <3>1. ASSUME NEW j \in 1 .. k, j # k PROVE j \in 1 .. k - 1
      BY <3>1
    <3>2. QED
      BY <3>1
  <2>3. e \notin Had(k-1)
    BY DEF Once
  <2> HIDE DEF Had
  <2>4. CASE e \notin chosen
    <3>1. Had(k) = Had(k-1)
      BY <2>2, <2>4
    <3>2. f[k] = g
      BY <2>1, <2>4 DEF Turn
    <3>3. QED
      BY <2>1, <3>1, <3>2
  <2>5. CASE e \in chosen
    <3>1. Allocated(g, e)
      BY <2>1, <2>3, <2>5 DEF Cancelled, Allocated
    <3> HIDE DEF e, g
    <3>2. Sound(f[k], r) /\ Lost(g, f[k], e)
      <4> DEFINE h == event_cancel(g, e)
      <4>1. Sound(h, r) /\ Lost(g, h, e)
        BY <2>1, <3>1, CancelSound
      <4>2. f[k] = h
        BY <2>1, <2>5 DEF Turn
      <4> HIDE DEF h
      <4>3. QED
        BY <4>1, <4>2
    <3>3. Cancelled(m, f[k], Had(k))
      BY <2>1, <2>2, <2>5, <3>2 DEF Cancelled, Lost
    <3>4. QED
      BY <3>2, <3>3
  <2>6. QED
    BY <2>4, <2>5
<1>6. Len(s) \in T
  <2>1. Len(s) \in Nat
    OBVIOUS
  <2> HIDE DEF T
  <2>2. 0 .. Len(s) \subseteq T
    BY <1>4, <1>5, <2>1, UpTo
  <2>3. QED
    BY <2>1, <2>2
<1>7. Had(Len(s)) = {e \in chosen : In(e, s)}
  BY DEF In
<1>8. QED
  BY <1>1, <1>6, <1>7

\* n is m with no more events in any list, and simple_list() is at rest.
Fewer(m, n) ==
  /\ n.there = m.there /\ n.static = NoLoop
  /\ \A o \in Owners, x \in Events : In(x, n.list[o]) => In(x, m.list[o])

Empty(m, o) == \A e \in Events : ~ In(e, m.list[o])

\* The events of a sound list.
LEMMA ListedAre ==
  ASSUME NEW m, NEW r, Sound(m, r), NEW o \in Owners
  PROVE  /\ m \in Mem /\ m.list[o] \in Seq(Events) /\ Once(m.list[o])
         /\ \A e : In(e, m.list[o]) <=> e \in ToSet(m.list[o])
         /\ \A e : In(e, m.list[o]) => /\ e \in Events /\ Allocated(m, e) /\ m.event[e].obj
                                       /\ m.event[e].own = o
         /\ Empty(m, o) <=> m.list[o] = <<>>
<1>1. m \in Mem /\ m.list[o] \in Seq(Events) /\ Once(m.list[o])
  BY MemParts DEF Sound, ListsSound
<1>2. \A e : In(e, m.list[o]) <=> e \in ToSet(m.list[o])
  BY <1>1 DEF In, ToSet
<1>3. \A e : In(e, m.list[o]) => e \in Events
  BY <1>1 DEF In
<1>4. \A e \in Events : In(e, m.list[o]) => m.event[e].obj /\ m.event[e].own = o
  BY DEF Sound, ListsSound
<1>5. \A e \in Events : In(e, m.list[o]) => Allocated(m, e)
  BY <1>4 DEF Sound, EventsSound, Allocated
<1>6. Empty(m, o) <=> m.list[o] = <<>>
  BY <1>1, EmptyWhenNothingIn DEF Empty
<1>7. QED
  BY <1>1, <1>2, <1>3, <1>4, <1>5, <1>6

\* CancelQueued leaves the list of the owner the running event at most.
LEMMA CancelQueuedSound ==
  ASSUME NEW m, NEW r, Sound(m, r), m.static = NoLoop, NEW o \in Owners
  PROVE  LET n == CancelQueued(m, o) IN
         /\ Sound(n, r) /\ Fewer(m, n)
         /\ \A e \in Events : In(e, n.list[o]) => e = r
<1> DEFINE s == m.list[o]
           Q == QueuedEvents(m, o)
           n == CancelEach(m, s, Q)
           C == {e \in Q : In(e, s)}
<1>1. s \in Seq(Events) /\ Once(s) /\ \A k \in 1 .. Len(s) : s[k] \in Q => Allocated(m, s[k])
  <2>1. s \in Seq(Events) /\ Once(s)
    BY ListedAre
  <2>2. \A k \in 1 .. Len(s) : In(s[k], s)
    BY DEF In
  <2>3. QED
    BY <2>1, <2>2, ListedAre
<1>2. Sound(n, r) /\ Cancelled(m, n, C)
  BY <1>1, CancelEachSound
<1> HIDE DEF n
<1>3. Fewer(m, n)
  BY <1>2 DEF Cancelled, Fewer
<1>4. ASSUME NEW e \in Events, In(e, n.list[o]) PROVE e = r
  <2>1. In(e, s) /\ e \notin C /\ m.event[e] = n.event[e]
    BY <1>2, <1>4 DEF Cancelled
  <2>2. m.event[e].st # "queued"
    BY <2>1, ListedAre DEF QueuedEvents
  <2>3. Allocated(m, e)
    BY <2>1, ListedAre
  <2>4. m.event[e].st = "running"
    BY <2>2, <2>3, MemParts DEF Allocated, Sound
  <2>5. QED
    BY <2>4 DEF Sound, EventsSound
<1>5. QED
  BY <1>2, <1>3, <1>4 DEF CancelQueued, n

\* The list of an owner goes once nothing is in it.
LEMMA ListFreedSound ==
  ASSUME NEW m, NEW r, Sound(m, r), NEW o \in Owners, Empty(m, o)
  PROVE  LET n == ListFreed(m, o) IN
         Sound(n, r) /\ Fewer(m, n) /\ Empty(n, o)
<1> DEFINE n == ListFreed(m, o)
<1>1. /\ n \in Mem
      /\ n.event = m.event /\ n.there = m.there
      /\ n.static = NoLoop /\ n.fault = m.fault
      /\ n.list[o] = <<>> /\ \A p \in Owners \ {o} : n.list[p] = m.list[p]
      /\ n.has[o] = FALSE /\ \A p \in Owners \ {o} : n.has[p] = m.has[p]
  BY ListFreedIs DEF Sound
<1>2. m.list[o] = <<>>
  BY ListedAre
<1> HIDE DEF n
<1>3. \A p \in Owners : n.list[p] = m.list[p]
  BY <1>1, <1>2
<1>4. ListsSound(n)
  BY <1>1, <1>3 DEF Sound, ListsSound
<1>5. EventsSound(n, r)
  BY <1>1 DEF Sound, EventsSound
<1>6. OwnersSound(n)
  <2>1. \A p \in n.there \cap FreesEmptyList : n.has[p] <=> n.list[p] # <<>>
    BY <1>1, <1>2, <1>3 DEF Sound, OwnersSound, FreesEmptyList
  <2>2. \A p \in Objs : Len(n.list[p]) <= 1
    BY <1>3 DEF Sound, OwnersSound, Owners
  <2>3. QED
    BY <2>1, <2>2 DEF OwnersSound
<1>7. Sound(n, r) /\ Fewer(m, n)
  BY <1>1, <1>3, <1>4, <1>5, <1>6 DEF Sound, Fewer
<1>8. Empty(n, o)
  BY <1>3 DEF Empty
<1>9. QED
  BY <1>7, <1>8 DEF n

\* Owners without events go.
LEMMA OwnersGoneSound ==
  ASSUME NEW m, NEW r, Sound(m, r), NEW S \in SUBSET Owners, \A o \in S : Empty(m, o)
  PROVE  LET n == [m EXCEPT !.there = @ \ S] IN
         /\ Sound(n, r) /\ n.static = m.static
<1> DEFINE n == [m EXCEPT !.there = m.there \ S]
<1>1. m \in Mem /\ m.there \ S \in SUBSET Owners
  BY MemParts DEF Sound
<1>2. /\ n \in Mem
      /\ n.event = m.event /\ n.there = m.there \ S /\ n.list = m.list /\ n.has = m.has
      /\ n.static = m.static /\ n.fault = m.fault
  BY <1>1, TherePut
<1> HIDE DEF n
<1>3. ListsSound(n)
  BY <1>2 DEF Sound, ListsSound
<1>4. EventsSound(n, r)
  <2>1. ASSUME NEW e \in Events, m.event[e].obj PROVE m.event[e].own \notin S
    <3>1. m.event[e].own \in Owners => In(e, m.list[m.event[e].own])
      BY <2>1 DEF Sound, ListsSound
    <3>2. QED
      BY <3>1 DEF Empty
  <2>2. QED
    BY <1>2, <2>1 DEF Sound, EventsSound
<1>5. OwnersSound(n)
  BY <1>2 DEF Sound, OwnersSound
<1>6. QED
  BY <1>2, <1>3, <1>4, <1>5 DEF Sound, n

\* extract_char_final leaves a character no events when none is running.
LEMMA CharFinalSound ==
  ASSUME NEW m, Sound(m, None), m.static = NoLoop, NEW o \in Owners
  PROVE  LET n == CharFinal(m, o) IN
         Sound(n, None) /\ Fewer(m, n) /\ Empty(n, o)
<1> DEFINE c == CancelQueued(m, o)
           n == ListFreed(c, o)
<1>1. /\ Sound(c, None) /\ Fewer(m, c)
      /\ \A e \in Events : In(e, c.list[o]) => e = None
  BY CancelQueuedSound
<1> HIDE DEF c
<1>2. Empty(c, o)
  BY <1>1, NoneAssumption DEF Empty
<1>3. Sound(n, None) /\ Fewer(c, n) /\ Empty(n, o)
  BY <1>1, <1>2, ListFreedSound
<1> HIDE DEF n
<1>4. Fewer(m, n)
  BY <1>1, <1>3 DEF Fewer
<1>5. QED
  BY <1>3, <1>4 DEF CharFinal, n, c

\* clear_region_event_list leaves a region no events unless it runs under one of them.
LEMMA RegionClearedSound ==
  ASSUME NEW m, NEW r, Sound(m, r), m.static = NoLoop, NEW o \in Owners,
         r \in Events => m.event[r].own # o
  PROVE  LET n == clear_region_event_list(m, o) IN
         Sound(n, r) /\ n.static = NoLoop /\ Empty(n, o)
<1> DEFINE c == CancelQueued(m, o)
           d == ListFreed(c, o)
           n == IF c.has[o] THEN d ELSE c
<1>1. /\ Sound(c, r) /\ Fewer(m, c)
      /\ \A e \in Events : In(e, c.list[o]) => e = r
  BY CancelQueuedSound
<1> HIDE DEF c
<1>2. Empty(c, o)
  <2>1. ASSUME NEW e \in Events, In(e, c.list[o]) PROVE FALSE
    <3>1. e = r /\ In(e, m.list[o])
      BY <1>1, <2>1 DEF Fewer
    <3>2. m.event[e].own = o
      BY <3>1, ListedAre
    <3>3. QED
      BY <3>1, <3>2
  <2>2. QED
    BY <2>1 DEF Empty
<1>3. Sound(d, r) /\ Fewer(c, d) /\ Empty(d, o)
  BY <1>1, <1>2, ListFreedSound
<1> HIDE DEF d
<1>4. Sound(n, r) /\ n.static = NoLoop /\ Empty(n, o)
  BY <1>1, <1>2, <1>3 DEF Fewer
<1> HIDE DEF n
<1>5. QED
  BY <1>4 DEF clear_region_event_list, n, d, c

\* close_socket cancels all events of a descriptor, and it goes.
LEMMA DescClosedSound ==
  ASSUME NEW m, NEW r, Sound(m, r), NEW o \in Owners
  PROVE  LET n == DescClosed(m, o) IN
         Sound(n, r) /\ n.static = NoLoop
<1> DEFINE s == m.list[o]
           C == {e \in ToSet(s) : In(e, s)}
           c == CancelEach(m, s, ToSet(s))
           d == ListFreed(c, o)
           n == [d EXCEPT !.there = @ \ {o}]
<1>1. s \in Seq(Events) /\ Once(s) /\ \A k \in 1 .. Len(s) : s[k] \in ToSet(s) => Allocated(m, s[k])
  <2>1. s \in Seq(Events) /\ Once(s)
    BY ListedAre
  <2>2. \A k \in 1 .. Len(s) : In(s[k], s)
    BY DEF In
  <2>3. QED
    BY <2>1, <2>2, ListedAre
<1>2. Sound(c, r) /\ Cancelled(m, c, C)
  BY <1>1, CancelEachSound
<1> HIDE DEF c
<1>3. Empty(c, o)
  <2>1. ASSUME NEW e \in Events, In(e, c.list[o]) PROVE FALSE
    <3>1. In(e, s) /\ e \notin C
      BY <1>2, <2>1 DEF Cancelled
    <3>2. e \in ToSet(s)
      BY <3>1, ListedAre
    <3>3. QED
      BY <3>1, <3>2
  <2>2. QED
    BY <2>1 DEF Empty
<1>4. Sound(d, r) /\ Fewer(c, d) /\ Empty(d, o)
  BY <1>2, <1>3, ListFreedSound
<1> HIDE DEF d
<1>5. Sound(n, r) /\ n.static = d.static
  <2>1. {o} \in SUBSET Owners /\ \A p \in {o} : Empty(d, p)
    BY <1>4
  <2>2. QED
    BY <1>4, <2>1, OwnersGoneSound
<1>6. d.static = NoLoop
  BY <1>4 DEF Fewer
<1> HIDE DEF n
<1>7. QED
  BY <1>5, <1>6 DEF DescClosed, n, d, c

\* The loop of simple_list() may stand anywhere.
LEMMA StaticSound ==
  ASSUME NEW m, NEW r, Sound(m, r),
         NEW x \in [list : Owners \cup {Temp, None}, at : Events \cup {None}]
  PROVE  LET n == [m EXCEPT !.static = x] IN
         /\ Sound(n, r) /\ n.static = x /\ n.list = m.list /\ n.event = m.event
         /\ n.there = m.there
<1> DEFINE n == [m EXCEPT !.static = x]
<1>1. /\ n \in Mem
      /\ n.event = m.event /\ n.there = m.there /\ n.list = m.list /\ n.has = m.has
      /\ n.static = x /\ n.fault = m.fault
  BY StaticPut DEF Sound
<1> HIDE DEF n
<1>2. ListsSound(n) /\ EventsSound(n, r) /\ OwnersSound(n)
  BY <1>1 DEF Sound, ListsSound, EventsSound, OwnersSound
<1>3. QED
  BY <1>1, <1>2 DEF Sound, n

\* The first call of simple_list() for a list.
LEMMA LoopStarts ==
  ASSUME NEW m, NEW r, Sound(m, r), m.static = NoLoop, NEW o \in Owners
  PROVE  SimpleList(m, o) =
           [m EXCEPT !.static = IF m.list[o] = <<>> THEN NoLoop
                                ELSE [list |-> o, at |-> m.list[o][1]]]
<1>1. m.static.list # o
  BY NoneAssumption DEF NoLoop
<1>2. m.list[o] \in Seq(Events)
  BY ListedAre
<1>3. 1 > Len(m.list[o]) <=> m.list[o] = <<>>
  BY <1>2
<1>4. QED
  BY <1>1, <1>3 DEF SimpleList

\* simple_list() is at rest at the end of a list.
LEMMA LoopEnds ==
  ASSUME NEW m, NEW r, Sound(m, r), m.static = NoLoop, NEW o \in Owners, m.list[o] = <<>>
  PROVE  \E n : /\ CancelRound([m |-> m, on |-> TRUE], o) = [m |-> n, on |-> FALSE]
                /\ Sound(n, r) /\ n.static = NoLoop /\ n.list = m.list
<1> DEFINE n == [m EXCEPT !.static = NoLoop]
<1>1. NoLoop \in [list : Owners \cup {Temp, None}, at : Events \cup {None}]
  BY DEF NoLoop
<1>2. Sound(n, r) /\ n.static = NoLoop /\ n.list = m.list
  BY <1>1, StaticSound
<1>3. SimpleList(m, o) = n
  BY LoopStarts
<1> HIDE DEF n
<1>4. CancelRound([m |-> m, on |-> TRUE], o) = [m |-> n, on |-> FALSE]
  BY <1>2, <1>3 DEF CancelRound, NoLoop
<1>5. QED
  BY <1>2, <1>4

\* The first round of a loop over the one event of an object empties its list, so that
\* simple_list() is at rest.
LEMMA LoopCancels ==
  ASSUME NEW m, NEW r, Sound(m, r), m.static = NoLoop, NEW o \in Objs, m.list[o] # <<>>
  PROVE  \E c : /\ CancelRound([m |-> m, on |-> TRUE], o) = [m |-> c, on |-> TRUE]
                /\ Sound(c, r) /\ c.static = NoLoop /\ c.list[o] = <<>>
<1> DEFINE e == m.list[o][1]
           x == [list |-> o, at |-> e]
           n == [m EXCEPT !.static = x]
           c == event_cancel(n, e)
<1>1. o \in Owners /\ o \in FreesEmptyList
  BY KindsAssumption DEF Owners, FreesEmptyList
<1>2. /\ m.list[o] \in Seq(Events) /\ Len(m.list[o]) = 1 /\ e \in Events
      /\ \A y : In(y, m.list[o]) <=> y = e
  <2>1. m.list[o] \in Seq(Events) /\ Len(m.list[o]) <= 1
    BY <1>1, ListedAre DEF Sound, OwnersSound
  <2>2. Len(m.list[o]) = 1
    <3> DEFINE k == Len(m.list[o])
    <3>1. k # 0 /\ k \in Nat /\ k <= 1
      BY <2>1, EmptyWhenNothingIn
    <3> HIDE DEF k
    <3>2. k = 1
      BY <3>1
    <3>3. QED
      BY <3>2 DEF k
  <2>3. QED
    BY <2>1, <2>2 DEF In
<1>3. x \in [list : Owners \cup {Temp, None}, at : Events \cup {None}]
  BY <1>1, <1>2
<1>4. Sound(n, r) /\ n.static = x /\ n.list = m.list /\ n.event = m.event
  <2> HIDE DEF x, e
  <2>1. QED
    BY <1>3, StaticSound
<1>5. SimpleList(m, o) = n
  BY <1>1, LoopStarts
<1> HIDE DEF n
<1>6. Allocated(n, e)
  BY <1>1, <1>2, <1>4, ListedAre
<1>7. Sound(c, r) /\ Lost(n, c, e)
  BY <1>2, <1>4, <1>6, CancelSound
<1>8. n.static.at = e /\ ~n.fault /\ e # None
  BY <1>2, <1>4, NoneAssumption DEF Sound
<1>9. CancelRound([m |-> m, on |-> TRUE], o) = [m |-> c, on |-> ~c.fault]
  BY <1>5, <1>8 DEF CancelRound
<1> HIDE DEF c, e, x
<1>10. Empty(c, o)
  BY <1>1, <1>2, <1>4, <1>7 DEF Lost, Empty
<1>11. c.list[o] = <<>>
  BY <1>1, <1>7, <1>10, ListedAre
<1>12. c.static = NoLoop
  BY <1>1, <1>4, <1>7, <1>11 DEF Lost
<1>13. ~c.fault
  BY <1>7 DEF Sound
<1>14. CancelRound([m |-> m, on |-> TRUE], o) = [m |-> c, on |-> TRUE]
  BY <1>9, <1>13
<1>15. QED
  BY <1>7, <1>11, <1>12, <1>14

\* The rounds of CancelLoop.
Rounds(f, m, l, n) ==
  f = [k \in 0 .. n |->
         IF k = 0 THEN [m |-> [m EXCEPT !.static = NoLoop], on |-> TRUE]
         ELSE IF f[k-1].on THEN CancelRound(f[k-1], l) ELSE f[k-1]]

\* There are rounds, and the first three of them.
LEMMA RoundsExist ==
  ASSUME NEW m, NEW l, NEW n \in {1, 2}
  PROVE  \E f : Rounds(f, m, l, n)
<1> DEFINE a == [m |-> [m EXCEPT !.static = NoLoop], on |-> TRUE]
           R(run) == IF run.on THEN CancelRound(run, l) ELSE run
           f == [k \in 0 .. n |-> IF k = 0 THEN a ELSE IF k = 1 THEN R(a) ELSE R(R(a))]
<1> HIDE DEF a, R
<1>1. f[0] = a /\ f[1] = R(a) /\ (n = 2 => f[2] = R(R(a)))
  OBVIOUS
<1>2. ASSUME NEW k \in 0 .. n PROVE f[k] = IF k = 0 THEN a ELSE R(f[k-1])
  <2>1. CASE k = 0
    BY <1>1, <2>1
  <2>2. CASE k = 1
    BY <1>1, <2>2
  <2>3. CASE k = 2 /\ n = 2
    BY <1>1, <2>3
  <2>4. QED
    BY <2>1, <2>2, <2>3
<1>3. f = [k \in 0 .. n |-> f[k]]
  OBVIOUS
<1> HIDE DEF f
<1>4. f = [k \in 0 .. n |-> IF k = 0 THEN a ELSE R(f[k-1])]
  BY <1>2, <1>3
<1>5. Rounds(f, m, l, n)
  BY <1>4 DEF Rounds, R, a
<1>6. QED
  BY <1>5

\* extract_obj leaves an object with one event none, and simple_list() at rest.
LEMMA CancelLoopSound ==
  ASSUME NEW m, NEW r, Sound(m, r), m.static = NoLoop, NEW o \in Objs
  PROVE  LET n == CancelLoop(m, o) IN
         Sound(n, r) /\ n.static = NoLoop /\ Empty(n, o)
<1> DEFINE last == Len(m.list[o]) + 1
           f == CHOOSE f : Rounds(f, m, o, last)
           z == [m EXCEPT !.static = NoLoop]
<1>1. o \in Owners
  BY DEF Owners
<1>2. m.list[o] \in Seq(Events) /\ Len(m.list[o]) <= 1
  BY <1>1, ListedAre DEF Sound, OwnersSound
<1>3. CancelLoop(m, o) = f[last].m
  BY DEF CancelLoop, Rounds
<1>4. last \in {1, 2} /\ (last = 1 <=> m.list[o] = <<>>)
  BY <1>2
<1> HIDE DEF last
<1>5. Rounds(f, m, o, last)
  <2>1. \E g : Rounds(g, m, o, last)
    BY <1>4, RoundsExist
  <2>2. QED
    BY <2>1
<1> HIDE DEF f
<1>6. Sound(z, r) /\ z.static = NoLoop /\ z.list = m.list
  <2>1. NoLoop \in [list : Owners \cup {Temp, None}, at : Events \cup {None}]
    BY DEF NoLoop
  <2>2. QED
    BY <2>1, StaticSound
<1>7. /\ f[1] = CancelRound([m |-> z, on |-> TRUE], o)
      /\ last = 2 => f[2] = IF f[1].on THEN CancelRound(f[1], o) ELSE f[1]
  <2>1. \A k \in 0 .. last :
          f[k] = IF k = 0 THEN [m |-> z, on |-> TRUE]
                 ELSE IF f[k-1].on THEN CancelRound(f[k-1], o) ELSE f[k-1]
    BY <1>5 DEF Rounds
  <2> HIDE DEF z
  <2>2. f[0] = [m |-> z, on |-> TRUE]
    <3>1. 0 \in 0 .. last
      BY <1>4
    <3>2. QED
      BY <2>1, <3>1
  <2>3. 1 \in 0 .. last /\ 1 - 1 = 0 /\ (last = 2 => 2 \in 0 .. last) /\ 2 - 1 = 1
    BY <1>4
  <2>4. f[1] = IF f[0].on THEN CancelRound(f[0], o) ELSE f[0]
    BY <2>1, <2>3
  <2>5. last = 2 => f[2] = IF f[1].on THEN CancelRound(f[1], o) ELSE f[1]
    BY <2>1, <2>3
  <2>6. QED
    BY <2>2, <2>4, <2>5
<1> HIDE DEF z
<1>8. CASE m.list[o] = <<>>
  <2>1. PICK n : /\ f[1] = [m |-> n, on |-> FALSE]
                 /\ Sound(n, r) /\ n.static = NoLoop /\ n.list = z.list
    <3>1. Sound(z, r) /\ z.static = NoLoop /\ z.list[o] = <<>>
      BY <1>6, <1>8
    <3>2. \E n : /\ CancelRound([m |-> z, on |-> TRUE], o) = [m |-> n, on |-> FALSE]
                 /\ Sound(n, r) /\ n.static = NoLoop /\ n.list = z.list
      BY <1>1, <3>1, LoopEnds
    <3>3. QED
      BY <1>7, <3>2
  <2>2. Empty(n, o)
    BY <1>1, <1>6, <1>8, <2>1, ListedAre
  <2>3. CancelLoop(m, o) = n
    BY <1>3, <1>4, <1>8, <2>1
  <2>4. QED
    BY <2>1, <2>2, <2>3
<1>9. CASE m.list[o] # <<>>
  <2>1. z.list[o] # <<>>
    BY <1>6, <1>9
  <2>2. PICK c : /\ f[1] = [m |-> c, on |-> TRUE]
                 /\ Sound(c, r) /\ c.static = NoLoop /\ c.list[o] = <<>>
    BY <1>6, <1>7, <2>1, LoopCancels
  <2>3. f[2] = CancelRound([m |-> c, on |-> TRUE], o)
    BY <1>4, <1>7, <1>9, <2>2
  <2>4. PICK n : /\ f[2] = [m |-> n, on |-> FALSE]
                 /\ Sound(n, r) /\ n.static = NoLoop /\ n.list = c.list
    <3>1. Sound(c, r) /\ c.static = NoLoop /\ c.list[o] = <<>>
      BY <2>2
    <3>2. \E n : /\ CancelRound([m |-> c, on |-> TRUE], o) = [m |-> n, on |-> FALSE]
                 /\ Sound(n, r) /\ n.static = NoLoop /\ n.list = c.list
      BY <1>1, <3>1, LoopEnds
    <3>3. QED
      BY <2>3, <3>2
  <2>5. Empty(n, o)
    BY <1>1, <2>2, <2>4, ListedAre
  <2>6. CancelLoop(m, o) = n
    BY <1>3, <1>4, <1>9, <2>4
  <2>7. QED
    BY <2>4, <2>5, <2>6
<1>10. QED
  BY <1>8, <1>9

\* extract_obj frees an object whose one event is cancelled.
LEMMA ObjFreedSound ==
  ASSUME NEW m, NEW r, Sound(m, r), m.static = NoLoop, NEW o \in Objs
  PROVE  LET n == ObjFreed(m, o) IN
         Sound(n, r) /\ n.static = NoLoop
<1> DEFINE c == CancelLoop(m, o)
           d == ListFreed(c, o)
           n == [d EXCEPT !.there = @ \ {o}]
<1>1. o \in Owners
  BY DEF Owners
<1>2. Sound(c, r) /\ Empty(c, o)
  BY CancelLoopSound
<1> HIDE DEF c
<1>3. Sound(d, r) /\ Fewer(c, d) /\ Empty(d, o)
  BY <1>1, <1>2, ListFreedSound
<1> HIDE DEF d
<1>4. Sound(n, r) /\ n.static = d.static
  <2>1. {o} \in SUBSET Owners /\ \A p \in {o} : Empty(d, p)
    BY <1>1, <1>3
  <2>2. QED
    BY <1>3, <2>1, OwnersGoneSound
<1>5. d.static = NoLoop
  BY <1>3 DEF Fewer
<1> HIDE DEF n
<1>6. QED
  BY <1>4, <1>5 DEF ObjFreed, n, d, c

-----------------------------------------------------------------------------
(* Lemmas: the parts of the steps.                                         *)

\* m when S are there and o has another list.
OwnerChanged(m, S, o, b, s) == [m EXCEPT !.there = S, !.has[o] = b, !.list[o] = s]

\* An owner comes, goes or changes its list.
LEMMA OwnerPut ==
  ASSUME NEW m \in Mem, NEW S \in SUBSET Owners, NEW o \in Owners, NEW b \in BOOLEAN,
         NEW s \in Seq(Events)
  PROVE  LET n == OwnerChanged(m, S, o, b, s) IN
         /\ n \in Mem
         /\ n.event = m.event /\ n.there = S /\ n.static = m.static /\ n.fault = m.fault
         /\ n.list[o] = s /\ n.has[o] = b /\ OtherLists(n, m, o)
  BY DEF Mem, OwnerChanged, OtherLists

\* attach_mud_event to an owner that is there.
LEMMA AttachSound ==
  ASSUME NEW m, NEW r, Sound(m, r), NEW e \in Events, ~Allocated(m, e),
         NEW o \in m.there, NEW id \in Ids \cup {None}, o \in Objs => m.list[o] = <<>>
  PROVE  LET n == Attached(m, o, id, e) IN
         Sound(n, r) /\ n.static = m.static
<1> DEFINE v == [st |-> "queued", obj |-> TRUE, own |-> o, vnum |-> o \in ByVnum, id |-> id]
           k == [m EXCEPT !.event[e] = v]
           s == Append(m.list[o], e)
           n == OwnerChanged(k, m.there, o, TRUE, s)
<1>1. /\ m \in Mem /\ ~m.fault /\ ListsSound(m) /\ EventsSound(m, r) /\ OwnersSound(m)
      /\ o \in Owners /\ m.there \in SUBSET Owners
  BY MemParts DEF Sound
<1>2. v \in EventType
  BY <1>1 DEF EventType
<1>3. /\ v.st = "queued" /\ v.obj = TRUE /\ v.own = o
      /\ o \in ByVnum => v.vnum
  OBVIOUS
<1> HIDE DEF v
<1>4. /\ k \in Mem /\ WithEvents(k, m)
      /\ k.event[e] = v /\ \A x \in Events \ {e} : k.event[x] = m.event[x]
  BY <1>1, <1>2, EventPut
<1>5. ~m.event[e].obj /\ e # r
  BY <1>1 DEF Allocated, EventsSound
<1>6. ~ In(e, m.list[o])
  BY <1>1, <1>5 DEF ListsSound
<1>7. /\ s \in Seq(Events) /\ s # <<>> /\ Len(s) = Len(m.list[o]) + 1 /\ Once(s)
      /\ \A x : In(x, s) <=> In(x, m.list[o]) \/ x = e
  BY <1>1, <1>6, ListedAre, AppendOnce
<1>8. Attached(m, o, id, e) = n
  <2>1. k = NewEvent(m, o, id, e)
    BY DEF NewEvent, v
  <2>2. k.there = m.there /\ k.list = m.list
    BY <1>4 DEF WithEvents
  <2> HIDE DEF k
  <2>3. [k EXCEPT !.there = m.there] = k
    BY <1>4, <2>2 DEF Mem
  <2>4. n = [k EXCEPT !.has[o] = TRUE, !.list[o] = s]
    BY <1>4, <2>2, <2>3 DEF Mem, OwnerChanged
  <2>5. QED
    BY <2>1, <2>2, <2>4 DEF Attached
<1> HIDE DEF s, k
<1>9. /\ n \in Mem
      /\ n.event = k.event /\ n.there = m.there /\ n.static = k.static /\ n.fault = k.fault
      /\ n.list[o] = s /\ n.has[o] = TRUE /\ OtherLists(n, k, o)
  <2>1. /\ k \in Mem /\ m.there \in SUBSET Owners /\ o \in Owners /\ TRUE \in BOOLEAN
        /\ s \in Seq(Events)
    BY <1>1, <1>4, <1>7
  <2>2. QED
    BY <2>1, OwnerPut
<1> HIDE DEF n
<1>10. /\ n \in Mem /\ n.there = m.there /\ n.static = m.static /\ ~n.fault
       /\ n.event[e] = v /\ \A x \in Events \ {e} : n.event[x] = m.event[x]
       /\ n.list[o] = s /\ \A p \in Owners \ {o} : n.list[p] = m.list[p]
       /\ n.has[o] = TRUE /\ \A p \in Owners \ {o} : n.has[p] = m.has[p]
  BY <1>1, <1>4, <1>9 DEF WithEvents, OtherLists
<1>11. ListsSound(n)
  <2>1. ASSUME NEW p \in Owners PROVE Once(n.list[p])
    <3>1. CASE p = o
      BY <1>7, <1>10, <3>1
    <3>2. CASE p # o
      BY <1>1, <1>10, <3>2 DEF ListsSound
    <3>3. QED
      BY <3>1, <3>2
  <2>2. ASSUME NEW p \in Owners, NEW x \in Events
        PROVE  In(x, n.list[p]) <=> n.event[x].obj /\ n.event[x].own = p
    <3>1. In(x, m.list[p]) <=> m.event[x].obj /\ m.event[x].own = p
      BY <1>1 DEF ListsSound
    <3>2. CASE p = o
      BY <1>3, <1>5, <1>7, <1>10, <3>1, <3>2
    <3>3. CASE p # o
      BY <1>3, <1>5, <1>10, <3>1, <3>3
    <3>4. QED
      BY <3>2, <3>3
  <2>3. QED
    BY <2>1, <2>2 DEF ListsSound
<1>12. EventsSound(n, r)
  BY <1>1, <1>3, <1>5, <1>10 DEF EventsSound
<1>13. OwnersSound(n)
  <2>1. ASSUME NEW p \in n.there \cap FreesEmptyList
        PROVE  n.has[p] <=> n.list[p] # <<>>
    <3>1. p \in Owners
      BY <2>1 DEF FreesEmptyList
    <3>2. QED
      BY <1>1, <1>7, <1>10, <2>1, <3>1 DEF OwnersSound
  <2>2. ASSUME NEW p \in Objs PROVE Len(n.list[p]) <= 1
    <3>1. CASE p = o
      BY <1>7, <1>10, <3>1
    <3>2. CASE p # o
      BY <1>1, <1>10, <3>2 DEF OwnersSound, Owners
    <3>3. QED
      BY <3>1, <3>2
  <2>3. QED
    BY <2>1, <2>2 DEF OwnersSound
<1>14. Sound(n, r) /\ n.static = m.static
  BY <1>10, <1>11, <1>12, <1>13 DEF Sound
<1>15. QED
  BY <1>8, <1>14

\* An event is taken from the queue or goes back into it.
LEMMA StateSound ==
  ASSUME NEW m, NEW r, Sound(m, r), NEW e \in Events, Allocated(m, e),
         NEW st \in {"queued", "running"},
         NEW t, st = "running" <=> e = t, \A x \in Events \ {e} : x = r <=> x = t
  PROVE  LET n == InState(m, e, st) IN
         Sound(n, t) /\ n.static = m.static
<1> DEFINE n == InState(m, e, st)
<1>1. m \in Mem /\ ~m.fault /\ ListsSound(m) /\ EventsSound(m, r) /\ OwnersSound(m)
  BY DEF Sound
<1>2. /\ n \in Mem /\ WithEvents(n, m)
      /\ n.event[e].st = st /\ n.event[e].obj = m.event[e].obj
      /\ n.event[e].own = m.event[e].own /\ n.event[e].vnum = m.event[e].vnum
      /\ OtherEvents(n, m, e)
  BY <1>1, StatePut
<1> HIDE DEF n
<1>3. ListsSound(n)
  BY <1>1, <1>2 DEF ListsSound, WithEvents, OtherEvents
<1>4. EventsSound(n, t)
  BY <1>1, <1>2 DEF EventsSound, WithEvents, OtherEvents
<1>5. OwnersSound(n)
  BY <1>1, <1>2 DEF OwnersSound, WithEvents, OtherEvents
<1>6. QED
  BY <1>1, <1>2, <1>3, <1>4, <1>5 DEF Sound, WithEvents, n

\* What extract_pending_chars leaves after each character: f[k] after the first k.
Goings(f, m, order, n) ==
  f = [k \in 0 .. n |-> IF k = 0 THEN m ELSE CharFinal(f[k-1], order[k])]

\* There are such goings.
LEMMA GoingsExist ==
  ASSUME NEW m, NEW order, NEW n \in Nat
  PROVE  \E f : Goings(f, m, order, n)
<1> DEFINE T == {k \in 0 .. n : \E f : Goings(f, m, order, k)}
<1>1. 0 \in T
  <2> DEFINE f == [k \in 0 .. 0 |-> m]
  <2>1. f = [k \in 0 .. 0 |-> IF k = 0 THEN m ELSE CharFinal(f[k-1], order[k])]
    OBVIOUS
  <2>2. Goings(f, m, order, 0)
    BY <2>1 DEF Goings
  <2>3. QED
    BY <2>2
<1>2. ASSUME NEW r \in 1 .. n, r - 1 \in T PROVE r \in T
  <2>1. PICK f : Goings(f, m, order, r - 1)
    BY <1>2
  <2>2. f = [k \in 0 .. r - 1 |-> IF k = 0 THEN m ELSE CharFinal(f[k-1], order[k])]
    BY <2>1 DEF Goings
  <2> DEFINE g == [k \in 0 .. r |-> IF k < r THEN f[k] ELSE CharFinal(f[r-1], order[r])]
  <2>3. ASSUME NEW k \in 0 .. r
        PROVE  g[k] = IF k = 0 THEN m ELSE CharFinal(g[k-1], order[k])
    <3>1. CASE k = 0
      BY <2>2, <3>1
    <3>2. CASE k # 0
      <4>1. k - 1 \in 0 .. r /\ k - 1 < r /\ g[k-1] = f[k-1]
        BY <3>2
      <4>2. CASE k = r
        BY <2>2, <3>2, <4>1, <4>2
      <4>3. CASE k # r
        <5>1. k \in 0 .. r - 1 /\ k < r
          BY <4>3
        <5>2. f[k] = CharFinal(f[k-1], order[k])
          BY <2>2, <3>2, <5>1
        <5>3. QED
          BY <3>2, <4>1, <5>1, <5>2
      <4>4. QED
        BY <4>2, <4>3
    <3>3. QED
      BY <3>1, <3>2
  <2>4. g = [k \in 0 .. r |-> g[k]]
    OBVIOUS
  <2> HIDE DEF g
  <2>5. g = [k \in 0 .. r |-> IF k = 0 THEN m ELSE CharFinal(g[k-1], order[k])]
    BY <2>3, <2>4
  <2>6. Goings(g, m, order, r)
    BY <2>5 DEF Goings
  <2>7. QED
    BY <2>6
<1> HIDE DEF T
<1>3. 0 .. n \subseteq T
  BY <1>1, <1>2, UpTo
<1>4. n \in T
  BY <1>3
<1>5. QED
  BY <1>4 DEF T

\* Whoever has gone has no events left.
LEMMA AllGone ==
  ASSUME NEW m, Sound(m, None), m.static = NoLoop, NEW n \in Nat,
         NEW order \in [1 .. n -> Owners], NEW f, Goings(f, m, order, n)
  PROVE  /\ Sound(f[n], None) /\ f[n].static = NoLoop
         /\ \A k \in 1 .. n : Empty(f[n], order[k])
<1> DEFINE Fine(k) == /\ Sound(f[k], None) /\ f[k].static = NoLoop
                      /\ \A j \in 1 .. k : Empty(f[k], order[j])
           T == {k \in 0 .. n : Fine(k)}
<1>1. /\ f[0] = m
      /\ \A k \in 1 .. n : f[k] = CharFinal(f[k-1], order[k])
  BY DEF Goings
<1>2. Fine(0)
  BY <1>1
<1>3. ASSUME NEW k \in 1 .. n, Fine(k-1) PROVE Fine(k)
  <2> DEFINE g == f[k-1]
             o == order[k]
             h == CharFinal(g, o)
  <2>1. Sound(g, None) /\ g.static = NoLoop /\ o \in Owners /\ f[k] = h
    BY <1>1, <1>3
  <2>2. \A j \in 1 .. k - 1 : Empty(g, order[j])
    BY <1>3
  <2>3. \A j \in 1 .. k : j = k \/ j \in 1 .. k - 1
    OBVIOUS
  <2> HIDE DEF g, o
  <2>4. Sound(h, None) /\ Fewer(g, h) /\ Empty(h, o)
    BY <2>1, CharFinalSound
  <2> HIDE DEF h
  <2>5. ASSUME NEW j \in 1 .. k PROVE Empty(h, order[j])
    <3>1. order[j] \in Owners
      OBVIOUS
    <3>2. CASE j = k
      BY <2>4, <3>2 DEF o
    <3>3. CASE j # k
      <4>1. Empty(g, order[j])
        BY <2>2, <2>3, <3>3
      <4>2. QED
        BY <2>4, <3>1, <4>1 DEF Fewer, Empty
    <3>4. QED
      BY <3>2, <3>3
  <2>6. QED
    BY <2>1, <2>4, <2>5 DEF Fewer
<1> HIDE DEF Fine
<1>4. 0 \in T /\ \A k \in 1 .. n : k - 1 \in T => k \in T
  <2>1. \A k \in 1 .. n : k - 1 \in 0 .. n /\ k \in 0 .. n
    OBVIOUS
  <2>2. QED
    BY <1>2, <1>3, <2>1
<1> HIDE DEF T
<1>5. 0 .. n \subseteq T
  BY <1>4, UpTo
<1>6. n \in T
  BY <1>5
<1>7. QED
  BY <1>6 DEF T, Fine

-----------------------------------------------------------------------------
(* Every step keeps the inductive invariant.                               *)

\* A step leaves a sound mem with simple_list() at rest, and the pending characters are
\* finitely many still.
LEMMA SoundStep ==
  ASSUME IInv, NEW n, NEW r \in Events \cup {None}, Sound(n, r), n.static = NoLoop,
         mem' = n, running' = r, pending' \subseteq Chars, IsFiniteSet(pending')
  PROVE  IInv'
  BY DEF IInv, Sound, Mem, ListsSound, EventsSound, OwnersSound

\* The step leaves a sound mem with simple_list() at rest, and changes nothing else.
LEMMA OnlyMem ==
  ASSUME IInv, Sound(mem', running), mem'.static = NoLoop, UNCHANGED <<running, pending>>
  PROVE  IInv'
  BY DEF IInv, Sound, Mem, ListsSound, EventsSound, OwnersSound

\* attach_mud_event, when nothing is attached to a vnum of no room or region and no
\* second event to an object.
LEMMA AttachStep ==
  ASSUME IInv, Risks = {}, NEW o \in Owners, NEW e \in Events, attach_mud_event(o, e)
  PROVE  IInv'
<1>1. /\ Sound(mem, running) /\ mem.static = NoLoop /\ ~Allocated(mem, e)
      /\ o \in mem.there /\ (o \in Objs => mem.list[o] = <<>>)
      /\ UNCHANGED <<running, pending>>
  BY DEF IInv, attach_mud_event
<1>2. PICK id \in Ids \cup {None} : mem' = Attached(mem, o, id, e)
  BY DEF attach_mud_event
<1> DEFINE n == Attached(mem, o, id, e)
<1>3. Sound(n, running) /\ n.static = mem.static
  BY <1>1, AttachSound
<1> HIDE DEF n
<1>4. mem' = n
  BY <1>2 DEF n
<1>5. QED
  BY <1>1, <1>3, <1>4, OnlyMem

\* Find returns events of the list.
LEMMA FindIs ==
  ASSUME NEW m, NEW r, Sound(m, r), NEW o \in Owners, NEW id, NEW e \in Find(m, o, id)
  PROVE  e \in Events /\ Allocated(m, e)
<1>1. m.list[o] \in Seq(Events)
  BY ListedAre
<1>2. In(e, m.list[o])
  BY <1>1 DEF Find, In
<1>3. QED
  BY <1>2, ListedAre

\* event_cancel_specific
LEMMA SpecificStep ==
  ASSUME IInv, NEW o \in Owners, NEW id \in Ids, event_cancel_specific(o, id)
  PROVE  IInv'
<1> DEFINE m == [mem EXCEPT !.static = NoLoop]
<1>1. Sound(mem, running) /\ mem.static = NoLoop /\ UNCHANGED <<running, pending>>
  BY DEF IInv, event_cancel_specific
<1>2. PICK e \in Find(mem, o, id) : mem' = event_cancel(m, e)
  BY DEF event_cancel_specific
<1>3. Sound(m, running) /\ m.static = NoLoop /\ m.event = mem.event
  <2>1. NoLoop \in [list : Owners \cup {Temp, None}, at : Events \cup {None}]
    BY DEF NoLoop
  <2>2. QED
    BY <1>1, <2>1, StaticSound
<1> HIDE DEF m
<1>4. e \in Events /\ Allocated(m, e)
  BY <1>1, <1>2, <1>3, FindIs DEF Allocated
<1> DEFINE n == event_cancel(m, e)
<1>5. Sound(n, running) /\ Lost(m, n, e)
  BY <1>3, <1>4, CancelSound
<1> HIDE DEF n
<1>6. mem' = n
  BY <1>2 DEF n
<1>7. QED
  BY <1>1, <1>3, <1>5, <1>6, OnlyMem DEF Lost

\* change_event_duration, change_event_svariables
LEMMA ChangeStep ==
  ASSUME IInv, NEW o \in Owners, NEW id \in Ids, NEW new \in Events, change_event(o, id, new)
  PROVE  IInv'
<1>1. /\ Sound(mem, running) /\ mem.static = NoLoop /\ UNCHANGED <<running, pending>>
      /\ o \in mem.there /\ o \in Chars
  BY DEF IInv, change_event
<1>2. PICK old \in Find(mem, o, id) :
        LET m == IF mem.event[old].st = "queued" THEN event_cancel(mem, old) ELSE mem IN
        \/ /\ ~Allocated(m, new)
           /\ mem' = [Attached(m, o, id, new) EXCEPT !.static = NoLoop]
        \/ mem' = [m EXCEPT !.static = NoLoop]
  BY DEF change_event
<1> DEFINE c == event_cancel(mem, old)
           m == IF mem.event[old].st = "queued" THEN c ELSE mem
           d == Attached(m, o, id, new)
<1>3. old \in Events /\ Allocated(mem, old)
  BY <1>1, <1>2, FindIs
<1>4. Sound(c, running) /\ Lost(mem, c, old)
  BY <1>1, <1>3, CancelSound
<1>5. \/ ~Allocated(m, new) /\ mem' = [d EXCEPT !.static = NoLoop]
      \/ mem' = [m EXCEPT !.static = NoLoop]
  BY <1>2
<1> HIDE DEF c
<1>6. Sound(m, running) /\ m.there = mem.there
  BY <1>1, <1>4 DEF Lost
<1> HIDE DEF m
<1>7. ASSUME ~Allocated(m, new) PROVE Sound(d, running)
  <2>1. o \in m.there /\ o \notin Objs /\ id \in Ids \cup {None}
    BY <1>1, <1>6, KindsAssumption
  <2>2. QED
    BY <1>6, <1>7, <2>1, AttachSound
<1> HIDE DEF d
<1>8. ASSUME NEW x, Sound(x, running), mem' = [x EXCEPT !.static = NoLoop]
      PROVE  IInv'
  <2>1. NoLoop \in [list : Owners \cup {Temp, None}, at : Events \cup {None}]
    BY DEF NoLoop
  <2> DEFINE n == [x EXCEPT !.static = NoLoop]
  <2>2. Sound(n, running) /\ n.static = NoLoop
    BY <1>8, <2>1, StaticSound
  <2>3. mem' = n
    BY <1>8
  <2> HIDE DEF n
  <2>4. QED
    BY <1>1, <2>2, <2>3, OnlyMem
<1>9. QED
  BY <1>5, <1>6, <1>7, <1>8

\* A death leaves the character the running event at most.
LEMMA DieStep ==
  ASSUME IInv, NEW o \in Owners, Die(o)
  PROVE  IInv' /\ \A e \in Events : In(e, mem'.list[o]) => e = running
<1> DEFINE c == CancelQueued(mem, o)
           n == [c EXCEPT !.static = NoLoop]
<1>1. /\ Sound(mem, running) /\ mem.static = NoLoop /\ UNCHANGED <<running, pending>>
      /\ mem' = n
  BY DEF IInv, Die, clear_char_event_list
<1>2. Sound(c, running) /\ \A e \in Events : In(e, c.list[o]) => e = running
  BY <1>1, CancelQueuedSound
<1> HIDE DEF c
<1>3. Sound(n, running) /\ n.static = NoLoop /\ n.list = c.list
  <2>1. NoLoop \in [list : Owners \cup {Temp, None}, at : Events \cup {None}]
    BY DEF NoLoop
  <2>2. QED
    BY <1>2, <2>1, StaticSound
<1> HIDE DEF n
<1>4. QED
  BY <1>1, <1>2, <1>3, OnlyMem

\* event_process takes an event from the queue.
LEMMA FireStep ==
  ASSUME IInv, NEW e \in Events, Fire(e)
  PROVE  IInv'
<1> DEFINE n == InState(mem, e, "running")
<1>1. /\ Sound(mem, None) /\ mem.static = NoLoop /\ Allocated(mem, e)
      /\ mem' = n /\ running' = e /\ pending' = pending
  BY DEF IInv, Fire, Allocated, InState
<1>2. ("running" = "running" <=> e = e) /\ \A x \in Events \ {e} : x = None <=> x = e
  BY NoneAssumption
<1>3. Sound(n, e) /\ n.static = mem.static
  BY <1>1, <1>2, StateSound
<1> HIDE DEF n
<1>4. pending' \subseteq Chars /\ IsFiniteSet(pending')
  BY <1>1 DEF IInv
<1>5. QED
  BY <1>1, <1>3, <1>4, SoundStep

\* The running event is allocated.
LEMMA RunningIs ==
  ASSUME IInv, running # None
  PROVE  running \in Events /\ mem.event[running].st = "running" /\ Allocated(mem, running)
  BY DEF IInv, Sound, EventsSound, Allocated

\* event_process puts the event back into the queue.
LEMMA RequeueStep ==
  ASSUME IInv, Requeue
  PROVE  IInv'
<1> DEFINE n == InState(mem, running, "queued")
<1>1. /\ Sound(mem, running) /\ mem.static = NoLoop /\ running \in Events
      /\ Allocated(mem, running)
  BY RunningIs DEF IInv, Requeue
<1>2. mem' = n /\ running' = None /\ pending' = pending
  BY <1>1 DEF Requeue, InState
<1>3. /\ ("queued" = "running" <=> running = None)
      /\ \A x \in Events \ {running} : x = running <=> x = None
  BY <1>1, NoneAssumption
<1>4. Sound(n, None) /\ n.static = mem.static
  BY <1>1, <1>3, StateSound
<1> HIDE DEF n
<1>5. pending' \subseteq Chars /\ IsFiniteSet(pending')
  BY <1>2 DEF IInv
<1>6. QED
  BY <1>1, <1>2, <1>4, <1>5, SoundStep

\* event_process frees the event with what it carries.
LEMMA FinishStep ==
  ASSUME IInv, Finish
  PROVE  IInv'
<1> DEFINE d == free_mud_event(mem, running)
           f == IF mem.event[running].obj THEN d ELSE mem
           n == [f EXCEPT !.event[running] = Freed]
<1>1. /\ Sound(mem, running) /\ mem.static = NoLoop /\ running \in Events
      /\ Allocated(mem, running)
  BY RunningIs DEF IInv, Finish
<1>2. mem' = n /\ running' = None /\ pending' = pending
  BY <1>1 DEF Finish
<1>3. Sound(f, running) /\ f.static = NoLoop /\ ~f.event[running].obj
  <2>1. CASE mem.event[running].obj
    <3>1. Sound(d, running) /\ Lost(mem, d, running) /\ ~d.event[running].obj
      BY <1>1, <2>1, FreeMudSound
    <3> HIDE DEF d
    <3>2. QED
      BY <1>1, <2>1, <3>1 DEF Lost
  <2>2. CASE ~mem.event[running].obj
    BY <1>1, <2>2
  <2>3. QED
    BY <2>1, <2>2
<1> HIDE DEF f
<1>4. Sound(n, None) /\ WithEvents(n, f)
  <2>1. /\ Freed \in EventType /\ ~Freed.obj
        /\ (Freed.st = "running" <=> running = None)
        /\ OnlyRunner(running, running, None)
    BY <1>1, NoneAssumption DEF Freed, EventType, OnlyRunner
  <2>2. n = [f EXCEPT !.event[running] = Freed]
    BY DEF n
  <2> HIDE DEF n
  <2>3. Sound(n, None) /\ WithEvents(n, f) /\ OtherEvents(n, f, running)
    BY <1>1, <1>3, <2>1, <2>2, EmptyPut
  <2>4. QED
    BY <2>3
<1> HIDE DEF n
<1>5. n.static = NoLoop
  BY <1>3, <1>4 DEF WithEvents
<1>6. pending' \subseteq Chars /\ IsFiniteSet(pending')
  BY <1>2 DEF IInv
<1>7. QED
  BY <1>2, <1>4, <1>5, <1>6, SoundStep

\* extract_char
LEMMA ExtractStep ==
  ASSUME IInv, NEW o \in Owners, extract_char(o)
  PROVE  IInv'
<1>1. mem' = mem /\ running' = running
  BY DEF extract_char
<1>2. pending' \subseteq Chars /\ IsFiniteSet(pending')
  BY FS_AddElement DEF IInv, extract_char
<1>3. running \in Events \cup {None} /\ Sound(mem, running) /\ mem.static = NoLoop
  BY DEF IInv
<1>4. QED
  BY <1>1, <1>2, <1>3, SoundStep

\* extract_pending_chars, whatever the order.
LEMMA PendingStep ==
  ASSUME IInv, extract_pending_chars
  PROVE  IInv'
<1>1. /\ Sound(mem, None) /\ mem.static = NoLoop /\ running' = None /\ pending' = {}
      /\ pending \subseteq Owners
  BY DEF IInv, extract_pending_chars, Owners
<1> DEFINE n == Cardinality(pending)
<1>2. n \in Nat
  BY FS_CardinalityType DEF IInv
<1> HIDE DEF n
<1>3. PICK menu \in SUBSET pending, order \in [1 .. n -> pending] :
        LET f == CHOOSE f : Goings(f, mem, order, Len(order)) IN
        /\ ToSet(order) = pending
        /\ mem' = [f[Len(order)] EXCEPT !.there = @ \ (pending \ menu)]
  BY DEF extract_pending_chars, Goings, n
<1> DEFINE f == CHOOSE f : Goings(f, mem, order, Len(order))
           g == f[n]
           d == [g EXCEPT !.there = @ \ (pending \ menu)]
<1>4. Len(order) = n /\ order \in [1 .. n -> Owners] /\ DOMAIN order = 1 .. n
  BY <1>1, <1>2
<1>5. ToSet(order) = pending /\ mem' = d
  BY <1>3, <1>4
<1>6. Goings(f, mem, order, n)
  <2>1. \E h : Goings(h, mem, order, n)
    BY <1>2, GoingsExist
  <2>2. QED
    BY <1>4, <2>1
<1> HIDE DEF f
<1>7. Sound(g, None) /\ g.static = NoLoop /\ \A k \in 1 .. n : Empty(g, order[k])
  BY <1>1, <1>2, <1>4, <1>6, AllGone
<1> HIDE DEF g
<1>8. Sound(d, None) /\ d.static = g.static
  <2>1. pending \ menu \in SUBSET Owners
    BY <1>1
  <2>2. \A o \in pending \ menu : Empty(g, o)
    BY <1>4, <1>5, <1>7 DEF ToSet
  <2>3. QED
    BY <1>7, <2>1, <2>2, OwnersGoneSound
<1> HIDE DEF d
<1>9. IsFiniteSet({})
  BY FS_EmptySet
<1>10. QED
  BY <1>1, <1>5, <1>7, <1>8, <1>9, SoundStep

\* close_socket
LEMMA CloseStep ==
  ASSUME IInv, NEW o \in Owners, close_socket(o)
  PROVE  IInv'
<1> DEFINE n == DescClosed(mem, o)
<1>1. Sound(mem, running) /\ mem' = n /\ UNCHANGED <<running, pending>>
  BY DEF IInv, close_socket
<1>2. Sound(n, running) /\ n.static = NoLoop
  BY <1>1, DescClosedSound
<1> HIDE DEF n
<1>3. QED
  BY <1>1, <1>2, OnlyMem

\* free_region_table_data
LEMMA ReloadStep ==
  ASSUME IInv, NEW o \in Owners, ReloadRegion(o)
  PROVE  IInv'
<1> DEFINE c == clear_region_event_list(mem, o)
           n == [c EXCEPT !.there = @ \ {o}]
<1>1. /\ Sound(mem, running) /\ mem.static = NoLoop /\ mem' = n
      /\ running \in Events => mem.event[running].own # o
      /\ UNCHANGED <<running, pending>>
  BY NoneAssumption DEF IInv, ReloadRegion, NotUnderOwnCallback
<1>2. Sound(c, running) /\ c.static = NoLoop /\ Empty(c, o)
  BY <1>1, RegionClearedSound
<1> HIDE DEF c
<1>3. Sound(n, running) /\ n.static = c.static
  <2>1. {o} \in SUBSET Owners /\ \A p \in {o} : Empty(c, p)
    BY <1>2
  <2>2. QED
    BY <1>2, <2>1, OwnersGoneSound
<1> HIDE DEF n
<1>4. QED
  BY <1>1, <1>2, <1>3, OnlyMem

\* Owners whose list is empty come and go.
LEMMA OwnerChangedSound ==
  ASSUME NEW m, NEW r, Sound(m, r), NEW S \in SUBSET Owners, NEW o \in Owners,
         NEW b \in BOOLEAN, m.there \ {o} = S \ {o}, m.list[o] = <<>>,
         o \in S \cap FreesEmptyList => b = FALSE
  PROVE  LET n == OwnerChanged(m, S, o, b, <<>>) IN
         Sound(n, r) /\ n.static = m.static
<1> DEFINE n == OwnerChanged(m, S, o, b, <<>>)
<1>1. m \in Mem /\ ~m.fault /\ ListsSound(m) /\ EventsSound(m, r) /\ OwnersSound(m)
  BY DEF Sound
<1>2. <<>> \in Seq(Events)
  OBVIOUS
<1>3. /\ n \in Mem
      /\ n.event = m.event /\ n.there = S /\ n.static = m.static /\ n.fault = m.fault
      /\ n.list[o] = <<>> /\ n.has[o] = b /\ OtherLists(n, m, o)
  <2> DEFINE s == <<>>
  <2>1. m \in Mem /\ s \in Seq(Events) /\ n = OwnerChanged(m, S, o, b, s)
    BY <1>1, <1>2
  <2> HIDE DEF n, s
  <2>2. /\ n \in Mem
        /\ n.event = m.event /\ n.there = S /\ n.static = m.static /\ n.fault = m.fault
        /\ n.list[o] = s /\ n.has[o] = b /\ OtherLists(n, m, o)
    BY <2>1, OwnerPut
  <2>3. QED
    BY <2>2 DEF s
<1> HIDE DEF n
<1>4. \A p \in Owners : n.list[p] = m.list[p]
  BY <1>3 DEF OtherLists
<1>5. ListsSound(n)
  BY <1>1, <1>3, <1>4 DEF ListsSound
<1>6. EventsSound(n, r)
  <2>1. Empty(m, o)
    BY ListedAre
  <2>2. \A e \in Events : m.event[e].obj => m.event[e].own # o
    BY <1>1, <2>1 DEF Empty, ListsSound
  <2>3. QED
    BY <1>1, <1>3, <2>2 DEF EventsSound
<1>7. OwnersSound(n)
  <2>1. ASSUME NEW p \in n.there \cap FreesEmptyList
        PROVE  n.has[p] <=> n.list[p] # <<>>
    <3>1. CASE p = o
      BY <1>3, <2>1, <3>1
    <3>2. CASE p # o
      <4>1. p \in m.there /\ p \in Owners \ {o}
        BY <1>3, <2>1, <3>2 DEF FreesEmptyList
      <4>2. QED
        BY <1>1, <1>3, <2>1, <4>1 DEF OwnersSound, OtherLists
    <3>3. QED
      BY <3>1, <3>2
  <2>2. \A p \in Objs : Len(n.list[p]) <= 1
    BY <1>1, <1>4 DEF OwnersSound, Owners
  <2>3. QED
    BY <2>1, <2>2 DEF OwnersSound
<1>8. QED
  BY <1>1, <1>3, <1>5, <1>6, <1>7 DEF Sound, n

\* delete_room, when no room is deleted with an event queued.
LEMMA DeleteStep ==
  ASSUME IInv, Risks = {}, NEW o \in Owners, delete_room(o)
  PROVE  IInv'
<1> DEFINE n == OwnerChanged(mem, mem.there \ {o}, o, FALSE, <<>>)
<1>1. /\ Sound(mem, running) /\ mem.static = NoLoop /\ mem.list[o] = <<>>
      /\ UNCHANGED <<running, pending>>
  BY DEF IInv, delete_room
<1>2. mem' = n
  BY <1>1 DEF delete_room, clear_room_event_list, OwnerChanged
<1>3. Sound(n, running) /\ n.static = mem.static
  <2>1. /\ mem.there \ {o} \in SUBSET Owners
        /\ mem.there \ {o} = (mem.there \ {o}) \ {o}
        /\ o \notin mem.there \ {o}
    BY <1>1, MemParts DEF Sound
  <2>2. QED
    BY <1>1, <2>1, OwnerChangedSound
<1> HIDE DEF n
<1>4. QED
  BY <1>1, <1>2, <1>3, OnlyMem

\* extract_obj
LEMMA ObjStep ==
  ASSUME IInv, NEW o \in Owners, extract_obj(o)
  PROVE  IInv'
<1> DEFINE n == ObjFreed(mem, o)
<1>1. /\ Sound(mem, running) /\ mem.static = NoLoop /\ o \in Objs /\ mem' = n
      /\ UNCHANGED <<running, pending>>
  BY DEF IInv, extract_obj
<1>2. Sound(n, running) /\ n.static = NoLoop
  BY <1>1, ObjFreedSound
<1> HIDE DEF n
<1>3. QED
  BY <1>1, <1>2, OnlyMem

\* A new owner, without events.
LEMMA AppearStep ==
  ASSUME IInv, NEW o \in Owners, Appear(o)
  PROVE  IInv'
<1> DEFINE b == o \in Descs
           n == OwnerChanged(mem, mem.there \cup {o}, o, b, <<>>)
<1>1. /\ Sound(mem, running) /\ mem.static = NoLoop /\ o \notin mem.there
      /\ UNCHANGED <<running, pending>>
  BY DEF IInv, Appear
<1>2. mem.list[o] = <<>>
  <2>1. Empty(mem, o)
    BY <1>1 DEF Sound, ListsSound, EventsSound, Empty
  <2>2. QED
    BY <1>1, <2>1, ListedAre
<1>3. mem' = n
  <2>1. mem' = [mem EXCEPT !.there = @ \cup {o}, !.has[o] = b]
    BY DEF Appear
  <2>2. mem \in Mem
    BY <1>1 DEF Sound
  <2> HIDE DEF b
  <2>3. QED
    BY <1>2, <2>1, <2>2 DEF Mem, OwnerChanged
<1>4. Sound(n, running) /\ n.static = mem.static
  <2>1. /\ mem.there \cup {o} \in SUBSET Owners /\ b \in BOOLEAN
        /\ mem.there \ {o} = (mem.there \cup {o}) \ {o}
        /\ o \in (mem.there \cup {o}) \cap FreesEmptyList => b = FALSE
    BY <1>1, MemParts DEF Sound, FreesEmptyList
  <2> HIDE DEF b
  <2>2. QED
    BY <1>1, <1>2, <2>1, OwnerChangedSound
<1> HIDE DEF n
<1>5. QED
  BY <1>1, <1>3, <1>4, OnlyMem

\* No list, no event, no loop.
LEMMA InitSound == Init => IInv
<1> SUFFICES ASSUME Init PROVE IInv
  OBVIOUS
<1>1. /\ \A e \in Events : mem.event[e] = Freed
      /\ \A o \in Owners : mem.list[o] = <<>> /\ mem.has[o] = FALSE
      /\ mem.static = NoLoop /\ ~mem.fault /\ mem.there = Rooms \cup Regions
      /\ running = None /\ pending = {}
  BY DEF Init
<1>2. mem \in Mem
  <2>1. Freed \in EventType
    BY DEF Freed, EventType
  <2>2. NoLoop \in [list : Owners \cup {Temp, None}, at : Events \cup {None}]
    BY DEF NoLoop
  <2>3. <<>> \in Seq(Events) /\ Rooms \cup Regions \in SUBSET Owners
    BY DEF Owners
  <2>4. /\ [e \in Events |-> Freed] \in [Events -> EventType]
        /\ [o \in Owners \cup {Temp} |-> <<>>] \in [Owners \cup {Temp} -> Seq(Events)]
        /\ [o \in Owners |-> FALSE] \in [Owners -> BOOLEAN]
    BY <2>1, <2>3
  <2>5. QED
    BY <2>2, <2>3, <2>4 DEF Init, Mem
<1>3. ListsSound(mem)
  BY <1>1 DEF ListsSound, Once, In, Freed
<1>4. EventsSound(mem, running)
  BY <1>1, NoneAssumption DEF EventsSound, Freed
<1>5. OwnersSound(mem)
  <2>1. \A o \in Objs : mem.list[o] = <<>>
    BY <1>1 DEF Owners
  <2>2. QED
    BY <1>1, <2>1 DEF OwnersSound, FreesEmptyList
<1>6. IsFiniteSet({})
  BY FS_EmptySet
<1>7. QED
  BY <1>1, <1>2, <1>3, <1>4, <1>5, <1>6 DEF IInv, Sound

\* Every step keeps the inductive invariant, when the three risky situations stay away.
LEMMA Steps ==
  ASSUME Risks = {}, IInv, [Next]_vars
  PROVE  IInv'
<1>1. ASSUME NEW o \in Owners, NEW e \in Events, attach_mud_event(o, e) PROVE IInv'
  BY <1>1, AttachStep
<1>2. ASSUME NEW o \in Owners, Die(o) PROVE IInv'
  BY <1>2, DieStep
<1>3. ASSUME NEW o \in Owners, extract_char(o) PROVE IInv'
  BY <1>3, ExtractStep
<1>4. ASSUME NEW o \in Owners, close_socket(o) PROVE IInv'
  BY <1>4, CloseStep
<1>5. ASSUME NEW o \in Owners, ReloadRegion(o) PROVE IInv'
  BY <1>5, ReloadStep
<1>6. ASSUME NEW o \in Owners, delete_room(o) PROVE IInv'
  BY <1>6, DeleteStep
<1>7. ASSUME NEW o \in Owners, extract_obj(o) PROVE IInv'
  BY <1>7, ObjStep
<1>8. ASSUME NEW o \in Owners, Appear(o) PROVE IInv'
  BY <1>8, AppearStep
<1>9. ASSUME NEW o \in Owners, NEW id \in Ids, event_cancel_specific(o, id) PROVE IInv'
  BY <1>9, SpecificStep
<1>10. ASSUME NEW o \in Owners, NEW id \in Ids, NEW e \in Events, change_event(o, id, e)
       PROVE  IInv'
  BY <1>10, ChangeStep
<1>11. ASSUME NEW e \in Events, Fire(e) PROVE IInv'
  BY <1>11, FireStep
<1>12. CASE Requeue
  BY <1>12, RequeueStep
<1>13. CASE Finish
  BY <1>13, FinishStep
<1>14. CASE extract_pending_chars
  BY <1>14, PendingStep
<1>15. CASE UNCHANGED vars
  BY <1>15, OnlyMem DEF vars, IInv
<1>16. QED
  BY <1>1, <1>2, <1>3, <1>4, <1>5, <1>6, <1>7, <1>8, <1>9, <1>10, <1>11, <1>12, <1>13,
     <1>14, <1>15 DEF Next

-----------------------------------------------------------------------------
(* The theorems.                                                           *)

\* Lists and events stay sound, for any owners, events and ids.
THEOREM Inductive == ASSUME Risks = {} PROVE Spec => []IInv
<1>1. Init => IInv
  BY InitSound
<1>2. IInv /\ [Next]_vars => IInv'
  BY Steps
<1>3. QED
  BY <1>1, <1>2, PTL DEF Spec

\* No path of mud_event.c, event_cancel() or event_process() touches an event, a node or a
\* vnum that another has freed.
THEOREM NoUseAfterFreeHolds == ASSUME Risks = {} PROVE Spec => []NoUseAfterFree
<1>1. IInv => NoUseAfterFree
  BY DEF IInv, Sound, NoUseAfterFree
<1>2. QED
  BY <1>1, Inductive, PTL

\* The invariant says that owners and events agree.
LEMMA Agreement == IInv => OwnersAndEventsAgree
<1> SUFFICES ASSUME IInv PROVE OwnersAndEventsAgree
  OBVIOUS
<1>1. Sound(mem, running) /\ mem.static = NoLoop
  BY DEF IInv
<1>2. mem \in Mem
  BY <1>1 DEF Sound
<1>3. TypeOK
  <2>1. mem \in MemType
    BY <1>1, <1>2 DEF Mem, MemType
  <2>2. QED
    BY <2>1 DEF IInv, TypeOK
<1>4. ListsExact
  <2>1. ASSUME NEW o \in Owners
        PROVE  /\ IsInjective(mem.list[o])
               /\ \A e \in ToSet(mem.list[o]) :
                    Allocated(mem, e) /\ mem.event[e].obj /\ mem.event[e].own = o
    <3>1. mem.list[o] \in Seq(Events) /\ Once(mem.list[o])
      BY <1>1, ListedAre
    <3>2. IsInjective(mem.list[o])
      BY <3>1 DEF IsInjective, Once
    <3>3. QED
      BY <1>1, <3>2, ListedAre
  <2>2. ASSUME NEW e \in Events, mem.event[e].obj, mem.event[e].own \in mem.there
        PROVE  e \in ToSet(mem.list[mem.event[e].own])
    <3> DEFINE o == mem.event[e].own
    <3>1. o \in Owners
      BY <1>2, <2>2, MemParts
    <3>2. In(e, mem.list[o])
      BY <1>1, <2>2, <3>1 DEF Sound, ListsSound
    <3> HIDE DEF o
    <3>3. e \in ToSet(mem.list[o])
      BY <1>1, <3>1, <3>2, ListedAre
    <3>4. QED
      BY <3>3 DEF o
  <2>3. QED
    BY <2>1, <2>2 DEF ListsExact
<1>5. NullWhenEmpty
  BY <1>1 DEF Sound, OwnersSound, NullWhenEmpty
<1>6. RunningIsKept
  BY RunningIs DEF RunningIsKept
<1>7. NoOrphans
  BY <1>1 DEF Sound, EventsSound, NoOrphans
<1>8. QED
  BY <1>3, <1>4, <1>5, <1>6, <1>7 DEF OwnersAndEventsAgree

\* The list of an owner and its events agree after every step, and no event outlives what
\* its pStruct points at.
THEOREM OwnersAndEventsAgreeHolds == ASSUME Risks = {} PROVE Spec => []OwnersAndEventsAgree
<1>1. QED
  BY Agreement, Inductive, PTL

\* raw_kill leaves the character the event under whose callback it died, at most.
THEOREM DeathLeavesTheRunningHolds == ASSUME Risks = {} PROVE Spec => DeathLeavesTheRunning
<1>1. IInv /\ [Next]_vars
        => [\A o \in Chars : Die(o) => ToSet(mem'.list[o]) \subseteq {running}]_vars
  <2> SUFFICES ASSUME IInv, [Next]_vars, NEW o \in Chars, Die(o)
               PROVE  ToSet(mem'.list[o]) \subseteq {running}
    OBVIOUS
  <2>1. o \in Owners
    BY DEF Owners
  <2>2. IInv' /\ \A e \in Events : In(e, mem'.list[o]) => e = running
    BY <2>1, DieStep
  <2>3. Sound(mem', running')
    BY <2>2 DEF IInv
  <2>4. \A e \in ToSet(mem'.list[o]) : In(e, mem'.list[o]) /\ e \in Events
    BY <2>1, <2>3, ListedAre
  <2>5. QED
    BY <2>2, <2>4
<1>2. QED
  BY <1>1, Inductive, PTL DEF Spec, DeathLeavesTheRunning

-----------------------------------------------------------------------------
(***************************************************************************)
(* The rename: the invariants of PlayerRename, for any tables and any      *)
(* files, whichever steps fail, however often the connection goes, and     *)
(* with a crash anywhere.                                                  *)
(***************************************************************************)

\* Where files may have changed, and where nothing is decided yet.
Changing == {"move", "update", "memory", "rewrite", "introduce", "index", "verify", "commit"}
Pending  == (Forward \ {"finish"}) \cup Undo
AfterUpdate == {"update", "memory", "rewrite", "introduce", "index", "verify", "commit",
                "finish"}

\* The transaction: outside one the connection sees what is committed; the commit has
\* all tables; and a rollback that counts as good has ended the transaction.
TransactionInv ==
  /\ db \in {{}, Tables}
  /\ ~open => view = db
  /\ pc \in Forward \cup {"rollback"} => (open => ctx.started)
  /\ pc \in AfterUpdate => ctx.attempted
  /\ pc = "commit" /\ open => view = Tables
  /\ pc = "finish" => db = Tables
  /\ db # {} => ctx.attempted /\ pc \in Undo \cup {"finish", "done"}
  /\ pc \in Undo \ {"rollback"} => (ctx.ok => ~open)
  /\ pc \in Undo \ {"rollback", "check_db"} => (ctx.ok => db = {})

\* Memory follows the rename forward and back; caches change at the very end.
MemoryInv ==
  /\ pc \in {"rewrite", "introduce", "index", "verify", "commit", "finish"} => memory = "new"
  /\ pc \in {"undo_index", "undo_intros", "undo_pfile", "unlink_new", "undo_aux",
             "check_files", "discard"} => memory = "old"
  /\ caches = "new" => report = "ok"

\* Nothing is touched before all of it has snapshots, and none goes before the end.
FilesInv ==
  /\ pc \in Changing => Snapshots \subseteq snaps
  /\ pc \in Pending => Snapshots \subseteq snaps \/ FilesAre("old")
  /\ pc \in {"commit", "finish"} => FilesAre("new")
  /\ pc = "discard" => (ctx.ok => FilesAre("old"))

\* What is so once the rename has reported.
ReportInv ==
  /\ report = "none" <=> pc # "done"
  /\ report = "ok" => EverythingIs("new")
  /\ report = "undone" => EverythingIs("old") /\ ~open
  /\ report = "unproven" => OldIsOnDisk

RenameInv == RenameTypeOK /\ TransactionInv /\ MemoryInv /\ FilesInv /\ ReportInv

\* A step of the rename keeps the types.
LEMMA TypeStep ==
  ASSUME RenameTypeOK, [RenameNext]_renameVars
  PROVE  RenameTypeOK'
<1> USE DEF At, Goto, disk, server, heap, RenameTypeOK,
            Forward, Undo
<1>1. CASE Plan
  BY <1>1 DEF Plan
<1>2. CASE Begin
  BY <1>2 DEF Begin, Ctx
<1>3. CASE Lock
  BY <1>3 DEF Lock
<1>4. CASE Backup
  BY <1>4 DEF Backup, BackedUp, Snapshots
<1>5. CASE MoveAux
  BY <1>5 DEF MoveAux, Ctx, Names
<1>6. CASE MovePfile
  <2>1. pfile' \in [Names -> Names \cup {"none"}]
    BY <1>6 DEF MovePfile, Names
  <2>2. ctx' \in Ctx
    BY <1>6 DEF MovePfile, Ctx
  <2>3. QED
    BY <1>6, <2>1, <2>2 DEF MovePfile
<1>7. CASE Update
  BY <1>7 DEF Update, AfterUpdates
<1>8. CASE ChangeMemory
  BY <1>8 DEF ChangeMemory, Ctx, Names
<1>9. CASE RewritePfile
  BY <1>9 DEF RewritePfile, Ctx, Names
<1>10. CASE Introduce
  <2>1. ASSUME NEW i \in Intros \ ctx.changed,
               intros' = [intros EXCEPT ![i] = "new"],
               ctx' = [ctx EXCEPT !.changed = ctx.changed \cup {i}], Goto("introduce")
        PROVE  RenameTypeOK'
    <3>1. intros' \in [Intros -> Names]
      BY <2>1 DEF Names
    <3>2. ctx' \in Ctx
      BY <2>1 DEF Ctx
    <3>3. QED
      BY <1>10, <2>1, <3>1, <3>2 DEF Introduce
  <2>2. CASE ctx.changed = Intros /\ Goto("index") /\ UNCHANGED <<intros, ctx>>
    BY <1>10, <2>2 DEF Introduce
  <2>3. QED
    BY <1>10, <2>1, <2>2 DEF Introduce
<1>11. CASE SaveIndex
  BY <1>11 DEF SaveIndex, Ctx, Names
<1>12. CASE Verify
  BY <1>12 DEF Verify, Visible
<1>13. CASE Commit
  BY <1>13 DEF Commit, Ctx
<1>14. CASE CommitUnheard
  BY <1>14 DEF CommitUnheard
<1>15. CASE FinishRename
  BY <1>15 DEF FinishRename, Ctx, Names
<1>16. CASE Fail
  BY <1>16 DEF Fail
<1>17. CASE Rollback
  BY <1>17 DEF Rollback, Noted, Ctx
<1>18. CASE CheckDb
  BY <1>18 DEF CheckDb, RolledBack, Visible, Noted, Ctx
<1>19. CASE UndoMemory
  BY <1>19 DEF UndoMemory, Ctx, Names
<1>20. CASE UndoIndex
  BY <1>20 DEF UndoIndex, Noted, Ctx, Names
<1>21. CASE UndoIntros
  <2>1. intros' \in [Intros -> Names]
    BY <1>21 DEF UndoIntros, Names
  <2>2. ctx' \in Ctx
    BY <1>21 DEF UndoIntros, Noted, Ctx
  <2>3. QED
    BY <1>21, <2>1, <2>2 DEF UndoIntros
<1>22. CASE UndoPfile
  BY <1>22 DEF UndoPfile, Noted, Ctx, Names
<1>23. CASE UnlinkNew
  BY <1>23 DEF UnlinkNew, Noted, Ctx, Names
<1>24. CASE UndoAux
  <2>1. aux' \in [Aux -> Names]
    BY <1>24 DEF UndoAux, Names
  <2>2. ctx' \in Ctx
    BY <1>24 DEF UndoAux, Noted, Ctx
  <2>3. QED
    BY <1>24, <2>1, <2>2 DEF UndoAux
<1>25. CASE CheckFiles
  BY <1>25 DEF CheckFiles, Noted, Ctx
<1>26. CASE Discard
  BY <1>26 DEF Discard, MayDiscard, Ctx
<1>27. CASE Disconnect
  BY <1>27 DEF Disconnect
<1>28. CASE Crash
  BY <1>28 DEF Crash
<1>29. CASE UNCHANGED renameVars
  BY <1>29 DEF renameVars
<1>30. QED
  BY <1>1, <1>2, <1>3, <1>4, <1>5, <1>6, <1>7, <1>8, <1>9, <1>10, <1>11, <1>12, <1>13,
     <1>14, <1>15, <1>16, <1>17, <1>18, <1>19, <1>20, <1>21, <1>22, <1>23, <1>24, <1>25,
     <1>26, <1>27, <1>28, <1>29 DEF RenameNext, GoForward, GoBack

\* A step keeps the transaction sound.
LEMMA TransactionStep ==
  ASSUME RenameTypeOK, TransactionInv, [RenameNext]_renameVars
  PROVE  TransactionInv'
<1> USE DEF At, Goto, disk, server, heap, TransactionInv,
            RenameTypeOK, Ctx, Forward, Undo, AfterUpdate
<1>1. CASE Plan
  BY <1>1 DEF Plan
<1>2. CASE Begin
  BY <1>2 DEF Begin
<1>3. CASE Lock
  BY <1>3 DEF Lock
<1>4. CASE Backup
  BY <1>4 DEF Backup, BackedUp
<1>5. CASE MoveAux
  BY <1>5 DEF MoveAux
<1>6. CASE MovePfile
  BY <1>6 DEF MovePfile
<1>7. CASE Update
  BY <1>7 DEF Update, AfterUpdates
<1>8. CASE ChangeMemory
  BY <1>8 DEF ChangeMemory
<1>9. CASE RewritePfile
  BY <1>9 DEF RewritePfile
<1>10. CASE Introduce
  BY <1>10 DEF Introduce
<1>11. CASE SaveIndex
  BY <1>11 DEF SaveIndex
<1>12. CASE Verify
  BY <1>12 DEF Verify, Visible
<1>13. CASE Commit
  BY <1>13 DEF Commit
<1>14. CASE CommitUnheard
  BY <1>14 DEF CommitUnheard
<1>15. CASE FinishRename
  BY <1>15 DEF FinishRename
<1>16. CASE Fail
  BY <1>16 DEF Fail
<1>17. CASE Rollback
  BY <1>17 DEF Rollback, Noted
<1>18. CASE CheckDb
  BY <1>18 DEF CheckDb, RolledBack, Visible, Noted
<1>19. CASE UndoMemory
  BY <1>19 DEF UndoMemory
<1>20. CASE UndoIndex
  BY <1>20 DEF UndoIndex, Noted
<1>21. CASE UndoIntros
  BY <1>21 DEF UndoIntros, Noted
<1>22. CASE UndoPfile
  BY <1>22 DEF UndoPfile, Noted
<1>23. CASE UnlinkNew
  BY <1>23 DEF UnlinkNew, Noted
<1>24. CASE UndoAux
  BY <1>24 DEF UndoAux, Noted
<1>25. CASE CheckFiles
  BY <1>25 DEF CheckFiles, Noted
<1>26. CASE Discard
  BY <1>26 DEF Discard, MayDiscard
<1>27. CASE Disconnect
  BY <1>27 DEF Disconnect
<1>28. CASE Crash
  BY <1>28 DEF Crash
<1>29. CASE UNCHANGED renameVars
  BY <1>29 DEF renameVars
<1>30. QED
  BY <1>1, <1>2, <1>3, <1>4, <1>5, <1>6, <1>7, <1>8, <1>9, <1>10, <1>11, <1>12, <1>13,
     <1>14, <1>15, <1>16, <1>17, <1>18, <1>19, <1>20, <1>21, <1>22, <1>23, <1>24, <1>25,
     <1>26, <1>27, <1>28, <1>29 DEF RenameNext, GoForward, GoBack

\* A step keeps memory and the caches in step.
LEMMA MemoryStep ==
  ASSUME RenameTypeOK, MemoryInv, ReportInv, [RenameNext]_renameVars
  PROVE  MemoryInv'
<1> USE DEF At, Goto, disk, server, heap, MemoryInv,
            RenameTypeOK, Ctx, Forward, Undo, ReportInv
<1>1. CASE Plan
  BY <1>1 DEF Plan
<1>2. CASE Begin
  BY <1>2 DEF Begin
<1>3. CASE Lock
  BY <1>3 DEF Lock
<1>4. CASE Backup
  BY <1>4 DEF Backup, BackedUp
<1>5. CASE MoveAux
  BY <1>5 DEF MoveAux
<1>6. CASE MovePfile
  BY <1>6 DEF MovePfile
<1>7. CASE Update
  BY <1>7 DEF Update, AfterUpdates
<1>8. CASE ChangeMemory
  BY <1>8 DEF ChangeMemory
<1>9. CASE RewritePfile
  BY <1>9 DEF RewritePfile
<1>10. CASE Introduce
  BY <1>10 DEF Introduce
<1>11. CASE SaveIndex
  BY <1>11 DEF SaveIndex
<1>12. CASE Verify
  BY <1>12 DEF Verify, Visible
<1>13. CASE Commit
  BY <1>13 DEF Commit
<1>14. CASE CommitUnheard
  BY <1>14 DEF CommitUnheard
<1>15. CASE FinishRename
  BY <1>15 DEF FinishRename
<1>16. CASE Fail
  BY <1>16 DEF Fail
<1>17. CASE Rollback
  BY <1>17 DEF Rollback, Noted
<1>18. CASE CheckDb
  BY <1>18 DEF CheckDb, RolledBack, Visible, Noted
<1>19. CASE UndoMemory
  BY <1>19 DEF UndoMemory
<1>20. CASE UndoIndex
  BY <1>20 DEF UndoIndex, Noted
<1>21. CASE UndoIntros
  BY <1>21 DEF UndoIntros, Noted
<1>22. CASE UndoPfile
  BY <1>22 DEF UndoPfile, Noted
<1>23. CASE UnlinkNew
  BY <1>23 DEF UnlinkNew, Noted
<1>24. CASE UndoAux
  BY <1>24 DEF UndoAux, Noted
<1>25. CASE CheckFiles
  BY <1>25 DEF CheckFiles, Noted
<1>26. CASE Discard
  BY <1>26 DEF Discard, MayDiscard
<1>27. CASE Disconnect
  BY <1>27 DEF Disconnect
<1>28. CASE Crash
  BY <1>28 DEF Crash
<1>29. CASE UNCHANGED renameVars
  BY <1>29 DEF renameVars
<1>30. QED
  BY <1>1, <1>2, <1>3, <1>4, <1>5, <1>6, <1>7, <1>8, <1>9, <1>10, <1>11, <1>12, <1>13,
     <1>14, <1>15, <1>16, <1>17, <1>18, <1>19, <1>20, <1>21, <1>22, <1>23, <1>24, <1>25,
     <1>26, <1>27, <1>28, <1>29 DEF RenameNext, GoForward, GoBack

\* A step keeps a snapshot of whatever it changes.
LEMMA FilesStep ==
  ASSUME RenameTypeOK, FilesInv, [RenameNext]_renameVars
  PROVE  FilesInv'
<1> USE DEF At, Goto, disk, server, heap, FilesInv,
            RenameTypeOK, Ctx, Forward, Undo, Pending, Changing,
            FilesAre, Names, Snapshots
<1>1. CASE Plan
  BY <1>1 DEF Plan
<1>2. CASE Begin
  BY <1>2 DEF Begin
<1>3. CASE Lock
  BY <1>3 DEF Lock
<1>4. CASE Backup
  BY <1>4 DEF Backup, BackedUp
<1>5. CASE MoveAux
  BY <1>5 DEF MoveAux
<1>6. CASE MovePfile
  BY <1>6 DEF MovePfile
<1>7. CASE Update
  BY <1>7 DEF Update, AfterUpdates
<1>8. CASE ChangeMemory
  BY <1>8 DEF ChangeMemory
<1>9. CASE RewritePfile
  BY <1>9 DEF RewritePfile
<1>10. CASE Introduce
  BY <1>10 DEF Introduce
<1>11. CASE SaveIndex
  BY <1>11 DEF SaveIndex
<1>12. CASE Verify
  BY <1>12 DEF Verify, Visible
<1>13. CASE Commit
  BY <1>13 DEF Commit
<1>14. CASE CommitUnheard
  BY <1>14 DEF CommitUnheard
<1>15. CASE FinishRename
  BY <1>15 DEF FinishRename
<1>16. CASE Fail
  BY <1>16 DEF Fail
<1>17. CASE Rollback
  BY <1>17 DEF Rollback, Noted
<1>18. CASE CheckDb
  BY <1>18 DEF CheckDb, RolledBack, Visible, Noted
<1>19. CASE UndoMemory
  BY <1>19 DEF UndoMemory
<1>20. CASE UndoIndex
  BY <1>20 DEF UndoIndex, Noted
<1>21. CASE UndoIntros
  BY <1>21 DEF UndoIntros, Noted
<1>22. CASE UndoPfile
  BY <1>22 DEF UndoPfile, Noted
<1>23. CASE UnlinkNew
  BY <1>23 DEF UnlinkNew, Noted
<1>24. CASE UndoAux
  BY <1>24 DEF UndoAux, Noted
<1>25. CASE CheckFiles
  BY <1>25 DEF CheckFiles, Noted
<1>26. CASE Discard
  BY <1>26 DEF Discard, MayDiscard
<1>27. CASE Disconnect
  BY <1>27 DEF Disconnect
<1>28. CASE Crash
  BY <1>28 DEF Crash
<1>29. CASE UNCHANGED renameVars
  BY <1>29 DEF renameVars
<1>30. QED
  BY <1>1, <1>2, <1>3, <1>4, <1>5, <1>6, <1>7, <1>8, <1>9, <1>10, <1>11, <1>12, <1>13,
     <1>14, <1>15, <1>16, <1>17, <1>18, <1>19, <1>20, <1>21, <1>22, <1>23, <1>24, <1>25,
     <1>26, <1>27, <1>28, <1>29 DEF RenameNext, GoForward, GoBack

\* A step reports what is so.
LEMMA ReportStep ==
  ASSUME RenameTypeOK, ReportInv, TransactionInv, MemoryInv, FilesInv, [RenameNext]_renameVars
  PROVE  ReportInv'
<1> USE DEF At, Goto, disk, server, heap, ReportInv,
            RenameTypeOK, Ctx, Forward, Undo, EverythingIs,
            FilesAre, OldIsOnDisk, Names
<1>1. CASE Plan
  BY <1>1 DEF Plan
<1>2. CASE Begin
  BY <1>2 DEF Begin
<1>3. CASE Lock
  BY <1>3 DEF Lock
<1>4. CASE Backup
  BY <1>4 DEF Backup, BackedUp
<1>5. CASE MoveAux
  BY <1>5 DEF MoveAux
<1>6. CASE MovePfile
  BY <1>6 DEF MovePfile
<1>7. CASE Update
  BY <1>7 DEF Update, AfterUpdates
<1>8. CASE ChangeMemory
  BY <1>8 DEF ChangeMemory
<1>9. CASE RewritePfile
  BY <1>9 DEF RewritePfile
<1>10. CASE Introduce
  BY <1>10 DEF Introduce
<1>11. CASE SaveIndex
  BY <1>11 DEF SaveIndex
<1>12. CASE Verify
  BY <1>12 DEF Verify, Visible
<1>13. CASE Commit
  BY <1>13 DEF Commit
<1>14. CASE CommitUnheard
  BY <1>14 DEF CommitUnheard
<1>15. CASE FinishRename
  <2>1. pc' = "done" /\ report' = "ok"
    BY <1>15 DEF FinishRename
  <2>2. db' = Tables /\ memory' = "new" /\ caches' = "new"
    BY <1>15 DEF FinishRename, TransactionInv, MemoryInv
  <2>3. FilesAre("new")'
    BY <1>15 DEF FinishRename, FilesInv
  <2>4. QED
    BY <2>1, <2>2, <2>3
<1>16. CASE Fail
  BY <1>16 DEF Fail
<1>17. CASE Rollback
  BY <1>17 DEF Rollback, Noted
<1>18. CASE CheckDb
  BY <1>18 DEF CheckDb, RolledBack, Visible, Noted
<1>19. CASE UndoMemory
  BY <1>19 DEF UndoMemory
<1>20. CASE UndoIndex
  BY <1>20 DEF UndoIndex, Noted
<1>21. CASE UndoIntros
  BY <1>21 DEF UndoIntros, Noted
<1>22. CASE UndoPfile
  BY <1>22 DEF UndoPfile, Noted
<1>23. CASE UnlinkNew
  BY <1>23 DEF UnlinkNew, Noted
<1>24. CASE UndoAux
  BY <1>24 DEF UndoAux, Noted
<1>25. CASE CheckFiles
  BY <1>25 DEF CheckFiles, Noted
<1>26. CASE Discard
  <2>1. pc' = "done" /\ report' = IF ctx.ok THEN "undone" ELSE "unproven"
    BY <1>26 DEF Discard
  <2>2. CASE ctx.ok
    <3>1. FilesAre("old") /\ memory = "old" /\ caches = "old" /\ db = {} /\ ~open
      BY <1>26, <2>2 DEF Discard, FilesInv, MemoryInv, TransactionInv
    <3>2. UNCHANGED <<pfile, aux, intros, index, memory, caches, db, open>>
      BY <1>26 DEF Discard
    <3>3. EverythingIs("old")' /\ ~open'
      BY <3>1, <3>2
    <3>4. QED
      BY <2>1, <2>2, <3>3
  <2>3. CASE ~ctx.ok
    <3>1. OldIsOnDisk
      BY <1>26 DEF Discard, FilesInv, Pending, Snapshots
    <3>2. UNCHANGED <<pfile, intros, index, snaps>>
      BY <1>26, <2>3 DEF Discard, MayDiscard
    <3>3. QED
      BY <2>1, <2>3, <3>1, <3>2
  <2>4. QED
    BY <2>2, <2>3
<1>27. CASE Disconnect
  BY <1>27 DEF Disconnect
<1>28. CASE Crash
  BY <1>28 DEF Crash
<1>29. CASE UNCHANGED renameVars
  BY <1>29 DEF renameVars
<1>30. QED
  BY <1>1, <1>2, <1>3, <1>4, <1>5, <1>6, <1>7, <1>8, <1>9, <1>10, <1>11, <1>12, <1>13,
     <1>14, <1>15, <1>16, <1>17, <1>18, <1>19, <1>20, <1>21, <1>22, <1>23, <1>24, <1>25,
     <1>26, <1>27, <1>28, <1>29 DEF RenameNext, GoForward, GoBack

-----------------------------------------------------------------------------
\* The rename keeps the inductive invariant, whatever fails and in whichever order.
THEOREM RenameInductive == RenameSpec => []RenameInv
<1>1. RenameInit => RenameInv
  <2> SUFFICES ASSUME RenameInit PROVE RenameInv
    OBVIOUS
  <2>1. RenameTypeOK
    <3>1. pfile \in [Names -> Names \cup {"none"}]
      BY DEF RenameInit, Names
    <3>2. ctx \in Ctx
      BY DEF RenameInit, Ctx
    <3>3. QED
      BY <3>1, <3>2 DEF RenameInit, RenameTypeOK, Forward, Names
  <2>2. TransactionInv
    BY DEF RenameInit, TransactionInv, Forward, Undo, AfterUpdate
  <2>3. MemoryInv /\ ReportInv
    BY DEF RenameInit, MemoryInv, ReportInv
  <2>4. FilesInv
    BY DEF RenameInit, FilesInv, Forward, Undo, Pending, Changing, FilesAre,
           Names
  <2>5. QED
    BY <2>1, <2>2, <2>3, <2>4 DEF RenameInv
<1>2. RenameInv /\ [RenameNext]_renameVars => RenameInv'
  BY TypeStep, TransactionStep, MemoryStep, FilesStep, ReportStep DEF RenameInv
<1>3. QED
  BY <1>1, <1>2, PTL DEF RenameSpec

\* What rename_player_everywhere tells the administrator is so, for any tables and files
\* and any failures on the way forward and back.
THEOREM ReportsAreTrue == RenameSpec => []ReportIsTrue
<1>1. RenameInv => ReportIsTrue
  BY DEF RenameInv, ReportInv, ReportIsTrue
<1>2. QED
  BY <1>1, RenameInductive, PTL

\* Until the database commits, every old file is in place or in a snapshot
\* (rename_create_backups before rename_move_files).
THEOREM NothingIsLost == RenameSpec => []NothingLost
<1>1. RenameInv => NothingLost
  <2> SUFFICES ASSUME RenameInv, db = {} PROVE OldIsOnDisk
    BY DEF NothingLost
  <2>1. CASE pc \in Pending
    <3>1. FilesAre("old") => OldIsOnDisk
      BY DEF FilesAre, OldIsOnDisk
    <3>2. Snapshots \subseteq snaps => OldIsOnDisk
      BY DEF Snapshots, OldIsOnDisk
    <3>3. QED
      BY <2>1, <3>1, <3>2 DEF RenameInv, FilesInv
  <2>2. CASE pc = "finish"
    BY <2>2, TablesAssumption DEF RenameInv, TransactionInv
  <2>3. CASE pc = "done"
    <3>1. report \in {"ok", "undone", "unproven"}
      BY <2>3 DEF RenameInv, RenameTypeOK, ReportInv
    <3>2. report # "ok"
      BY TablesAssumption DEF RenameInv, ReportInv, EverythingIs
    <3>3. report = "undone" => OldIsOnDisk
      BY DEF RenameInv, ReportInv, EverythingIs, FilesAre, OldIsOnDisk
    <3>4. QED
      BY <3>1, <3>2, <3>3 DEF RenameInv, ReportInv
  <2>4. QED
    BY <2>1, <2>2, <2>3 DEF RenameInv, RenameTypeOK, Pending, Forward
<1>2. QED
  BY <1>1, RenameInductive, PTL

\* The COMMIT of rename_player_everywhere takes all tables at once, and comes after every
\* file has the new name.
THEOREM TheCommitIsLast == RenameSpec => []CommitIsLast
<1>1. RenameInv => CommitIsLast
  <2> SUFFICES ASSUME RenameInv PROVE CommitIsLast
    OBVIOUS
  <2>1. db \in {{}, Tables}
    BY DEF RenameInv, TransactionInv
  <2>2. ASSUME db # {}, pc \in Forward \cup {"done"}, report # "unproven"
        PROVE  FilesAre("new")
    <3>1. CASE pc = "finish"
      BY <3>1 DEF RenameInv, FilesInv
    <3>2. CASE pc = "done"
      <4>1. report = "ok"
        BY <2>2, <3>2 DEF RenameInv, RenameTypeOK, ReportInv, EverythingIs
      <4>2. QED
        BY <4>1 DEF RenameInv, ReportInv, EverythingIs
    <3>3. QED
      BY <2>2, <3>1, <3>2 DEF RenameInv, TransactionInv, Forward, Undo
  <2>3. QED
    BY <2>1, <2>2 DEF CommitIsLast
<1>2. QED
  BY <1>1, RenameInductive, PTL
=============================================================================
