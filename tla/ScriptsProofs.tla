---------------------------- MODULE ScriptsProofs -----------------------------
(***************************************************************************)
(* The invariants of the scripts, for any owners and triggers, any depth   *)
(* of drivers and any length of scripts.                                   *)
(*                                                                         *)
(* The four properties need one another: a wait leads to its owner because *)
(* whoever is freed is freed with all triggers, a trigger is not run twice *)
(* because a frame's trigger is busy until it is freed, and a driver stops *)
(* in time because the flag stays set as long as a frame relies on it.     *)
(***************************************************************************)
EXTENDS Scripts, FiniteSetTheorems, WellFoundedInduction, SequenceTheorems, TLAPS

\* Who is in the game, and what the editor made of the array of rooms.
ThingsPart ==
  /\ alive \subseteq Mobs \cup Objs
  /\ pending \subseteq alive \cap Mobs
  /\ world \in Seq(Rooms) /\ IsInjective(world)

\* A trigger has one owner, and the owner is in the game.
ScriptsPart ==
  /\ script \in [Owners -> SUBSET Trigs]
  /\ \A o, p \in Owners : \A t \in script[o] : t \in script[p] => o = p
  /\ \A o \in Owners : script[o] # {} => Exists(o)
  /\ isRandom \in [Trigs -> BOOLEAN]
  /\ types \in [Owners -> BOOLEAN]
  /\ stuck \subseteq Trigs

\* The wait e of t is for one with t in the scripts scr, by pointer or place in wld.
LeadsToOwner(e, t, scr, wld) ==
  \/ e = Lost
  \/ \E o \in Mobs \cup Objs : e = [go |-> o, at |-> 0] /\ t \in scr[o]
  \/ \E i \in DOMAIN wld : e = [go |-> None, at |-> i] /\ t \in scr[wld[i]]

\* Who waits is busy, and who is busy is attached: a new trigger is neither.
WaitsPart ==
  /\ busy \in [Trigs -> BOOLEAN]
  /\ wait \in [Trigs -> [go : Mobs \cup Objs \cup {None}, at : Nat \cup {-1}]]
  /\ \A t \in Trigs : wait[t] # NoWait => busy[t] /\ LeadsToOwner(wait[t], t, script, world)
  /\ \A t \in Trigs : busy[t] => \E o \in Owners : t \in script[o]

\* Where a driver is while another one runs under it.
Within == {"command", "spell"}

\* The calls under the top one wait for a command, and no two have one trigger.
Nested(stk) ==
  /\ stk \in Seq(Frame)
  /\ \A k \in 1 .. Len(stk) : k # Len(stk) => stk[k].pc \in Within
  /\ \A k, j \in 1 .. Len(stk) :
       stk[k].freed = "no" /\ stk[j].trig = stk[k].trig => j = k

\* The flag prg is set for the calls that are to return.
Told(stk, prg) ==
  /\ prg \in BOOLEAN
  /\ \A k \in 1 .. Len(stk) : stk[k].freed = "flagged" => prg = TRUE
  /\ Len(stk) > 0 /\ stk[Len(stk)].pc = "line" => prg = FALSE

\* The triggers of the other calls are attached, busy, and wait for nothing.
Owned(stk, scr, bsy, wt) ==
  \A k \in 1 .. Len(stk) : stk[k].freed = "no" =>
    /\ stk[k].trig \in scr[stk[k].owner]
    /\ bsy[stk[k].trig] = TRUE
    /\ wt[stk[k].trig] = NoWait

\* A trigger that was freed under its call is attached nowhere again.
Gone(stk, scr) ==
  \A k \in 1 .. Len(stk) : stk[k].freed # "no" => \A o \in Owners : stk[k].trig \notin scr[o]

CallsPart ==
  /\ Nested(stack) /\ Told(stack, purged)
  /\ Owned(stack, script, busy, wait) /\ Gone(stack, script)
  /\ leaks \in 0 .. MaxLeaks
  /\ depth = Len(stack) + leaks /\ depth <= MaxScriptDepth + 1
  /\ crashed \in (Causes \cup {"moved", "spell"}) \ {"flagged"}

RunBy(stk, t) == \E k \in DOMAIN stk : stk[k].trig = t /\ stk[k].freed = "no"

\* A trigger that is busy waits, goes with its owner, or is run.
BusyPart ==
  \A o \in Owners : \A t \in script[o] \ stuck :
    busy[t] => wait[t] # NoWait \/ o \in pending \/ RunBy(stack, t)

\* The lists of the registry: what comes later than a later one is later still.
Ordered(reg) ==
  /\ reg \subseteq Owners \X Owners
  /\ \A o, p \in Owners : <<o, p>> \in reg =>
       KindOf(o) = KindOf(p) /\ <<o, o>> \in reg /\ <<p, p>> \in reg
  /\ \A o, p, q \in Owners : <<o, p>> \in reg /\ <<p, q>> \in reg => <<o, q>> \in reg
  /\ \A o, p \in Owners : <<o, o>> \in reg /\ <<p, p>> \in reg /\ KindOf(o) = KindOf(p) =>
       /\ <<o, p>> \in reg \/ <<p, o>> \in reg
       /\ <<o, p>> \in reg /\ <<p, o>> \in reg => o = p

\* The iteration of the type k over the lists reg, which is to return n next.
Iterates(reg, k, n, todo, done) ==
  /\ n \in Owners \cup {None}
  /\ n # None => KindOf(n) = k /\ <<n, n>> \in reg
  /\ \A o \in todo : n # None /\ <<n, o>> \in reg
  /\ \A o \in done : n # None => <<n, o>> \notin reg

RegistryPart ==
  /\ Ordered(registry)
  /\ Iterates(registry, sweep, next, due, visited)
  /\ \A o \in Owners : Registered(o) <=> script[o] # {} /\ types[o]
  /\ sweep \in 0 .. 3 /\ visiting \in Owners \cup {None} /\ visited \subseteq Owners

IInv == ThingsPart /\ ScriptsPart /\ WaitsPart /\ CallsPart /\ BusyPart /\ RegistryPart

-----------------------------------------------------------------------------
(* Lemmas: the registry.                                                   *)

\* There are finitely many owners.
LEMMA OwnersFinite == IsFiniteSet(Owners)
<1>1. IsFiniteSet(Rooms)
  <2>1. Len(RoomOrder) \in Nat /\ DOMAIN RoomOrder = 1 .. Len(RoomOrder)
    BY ScriptsAssumption, LenProperties
  <2>2. RoomOrder \in Surjection(1 .. Len(RoomOrder), Rooms)
    BY ScriptsAssumption, <2>1 DEF Surjection, Rooms, ToSet
  <2>3. IsFiniteSet(1 .. Len(RoomOrder))
    BY <2>1, FS_Interval
  <2>4. QED
    BY <2>2, <2>3, FS_Surjection
<1>2. IsFiniteSet(Mobs \cup Objs)
  BY ScriptsAssumption, FS_Union
<1>3. QED
  BY <1>1, <1>2, FS_Union DEF Owners

\* Of some owners on one list, one comes before the others.
LEMMA FirstExists ==
  ASSUME Ordered(registry), NEW k, NEW S, S \subseteq ListOf(k), S # {}
  PROVE  FirstOf(S) \in S /\ \A o \in S : <<FirstOf(S), o>> \in registry
<1> DEFINE Behind(o) == {p \in S : <<o, p>> \notin registry}
           T == {Behind(o) : o \in S}
<1>1. S \subseteq Owners /\ \A o \in S : KindOf(o) = k /\ <<o, o>> \in registry
  BY DEF ListOf, Registered
<1>2. T \subseteq FiniteSubsetsOf(Owners)
  <2>1. FiniteSubsetsOf(Owners) = SUBSET Owners
    BY OwnersFinite, FS_FiniteSubsetsOfFinite
  <2>2. ASSUME NEW o \in S PROVE Behind(o) \in SUBSET Owners
    BY <1>1
  <2> HIDE DEF Behind
  <2>3. QED
    BY <2>1, <2>2
<1>3. PICK least \in T : \A B \in T : <<B, least>> \notin StrictSubsetOrdering(Owners)
  <2>1. T # {}
    OBVIOUS
  <2>2. IsWellFoundedOn(StrictSubsetOrdering(Owners), FiniteSubsetsOf(Owners))
    BY FS_StrictSubsetOrderingWellFounded
  <2> HIDE DEF T
  <2>3. QED
    BY <1>2, <2>1, <2>2, WFMin, Zenon
<1>4. PICK o \in S : least = Behind(o)
  BY <1>3
<1>5. \A p \in S : <<o, p>> \in registry
  <2> SUFFICES ASSUME NEW p \in S, <<o, p>> \notin registry PROVE FALSE
    OBVIOUS
  <2>1. <<p, o>> \in registry
    BY <1>1 DEF Ordered
  <2>2. Behind(p) \subseteq Behind(o)
    BY <1>1, <2>1 DEF Ordered
  <2>3. p \in Behind(o) /\ p \notin Behind(p)
    BY <1>1
  <2>4. Behind(p) \in T
    OBVIOUS
  <2>5. Behind(p) \subseteq Owners /\ Behind(o) \subseteq Owners
    BY <1>1
  <2> HIDE DEF Behind, T
  <2>6. <<Behind(p), Behind(o)>> \in StrictSubsetOrdering(Owners)
    BY <2>2, <2>3, <2>5 DEF StrictSubsetOrdering
  <2>7. QED
    BY <1>3, <1>4, <2>4, <2>6
<1>6. S \subseteq From(o)
  BY <1>1, <1>5 DEF From
<1>7. FirstOf(S) = CHOOSE q \in S : S \subseteq From(q)
  BY DEF FirstOf
<1>8. FirstOf(S) \in S /\ S \subseteq From(FirstOf(S))
  <2> HIDE DEF T, Behind
  <2>1. \E q \in S : S \subseteq From(q)
    BY <1>6
  <2>2. QED
    BY <1>7, <2>1, Zenon
<1>9. QED
  BY <1>8 DEF From

\* Who follows in the list once the owners in out have left it.
LEMMA NextWithoutSound ==
  ASSUME Ordered(registry), Iterates(registry, sweep, next, due, visited), NEW out
  PROVE  LET n == NextWithout(out) IN
         /\ n \in Owners \cup {None}
         /\ n # None => next # None /\ <<next, n>> \in registry /\ n \notin out
         /\ \A o \in Owners \ out :
              next # None /\ <<next, o>> \in registry => n # None /\ <<n, o>> \in registry
<1>1. CASE next = None
  BY <1>1 DEF NextWithout
<1>2. CASE next # None
  <2> DEFINE S == From(next) \ out
  <2>1. next \in Owners /\ NextWithout(out) = FirstOf(S)
    BY <1>2 DEF NextWithout, Iterates
  <2>2. S \subseteq ListOf(KindOf(next))
    BY <2>1 DEF From, ListOf, Registered, Ordered
  <2>3. \A o : o \in S <=> o \in Owners \ out /\ <<next, o>> \in registry
    BY DEF From
  <2> HIDE DEF S
  <2>4. CASE S = {}
    <3>1. NextWithout(out) = None
      BY <2>1, <2>4 DEF FirstOf
    <3>2. QED
      BY <2>3, <2>4, <3>1
  <2>5. CASE S # {}
    <3>1. FirstOf(S) \in S /\ \A o \in S : <<FirstOf(S), o>> \in registry
      BY <2>2, <2>5, FirstExists
    <3>2. FirstOf(S) # None
      BY <2>3, <3>1, ScriptsAssumption
    <3>3. QED
      BY <1>2, <2>1, <2>3, <3>1, <3>2
  <2>6. QED
    BY <2>4, <2>5
<1>3. QED
  BY <1>1, <1>2

\* The registry after dg_random_registry_sync(): some have left it, one may be new.
LEMMA SyncedSound ==
  ASSUME Ordered(registry), Iterates(registry, sweep, next, due, visited),
         NEW out, NEW in \in SUBSET Owners,
         \A o, p \in in : o = p, \A o \in in : Registered(o) => o \in out,
         Synced(out, in), visited' = visited, sweep' = sweep
  PROVE  /\ Ordered(registry')
         /\ Iterates(registry', sweep', next', due', visited')
         /\ \A o \in Owners : Registered(o)' <=> o \in in \/ (Registered(o) /\ o \notin out)
<1>1. \A o, p \in Owners : <<o, p>> \in registry' <=>
        \/ <<o, p>> \in registry /\ o \notin out /\ p \notin out
        \/ /\ o \in in /\ KindOf(p) = KindOf(o)
           /\ p = o \/ (<<p, p>> \in registry /\ p \notin out)
  BY DEF Synced
<1>2. registry' \subseteq Owners \X Owners
  BY DEF Synced, Ordered
<1>3. next' = NextWithout(out) /\ due' = due \ out
  BY DEF Synced
<1>4. \A o \in in : <<o, o>> \in registry => o \in out
  BY DEF Registered
<1>5. Ordered(registry')
  <2>1. ASSUME NEW o \in Owners, NEW p \in Owners, <<o, p>> \in registry'
        PROVE  KindOf(o) = KindOf(p) /\ <<o, o>> \in registry' /\ <<p, p>> \in registry'
    BY <1>1, <2>1 DEF Ordered
  <2>2. ASSUME NEW o \in Owners, NEW p \in Owners, NEW q \in Owners,
               <<o, p>> \in registry', <<p, q>> \in registry'
        PROVE  <<o, q>> \in registry'
    BY <1>1, <1>4, <2>1, <2>2 DEF Ordered
  <2>3. ASSUME NEW o \in Owners, NEW p \in Owners,
               <<o, o>> \in registry', <<p, p>> \in registry', KindOf(o) = KindOf(p)
        PROVE  /\ <<o, p>> \in registry' \/ <<p, o>> \in registry'
               /\ <<o, p>> \in registry' /\ <<p, o>> \in registry' => o = p
    BY <1>1, <1>4, <2>3 DEF Ordered
  <2>4. QED
    BY <1>2, <2>1, <2>2, <2>3 DEF Ordered
<1>6. \A o \in Owners : Registered(o)' <=> o \in in \/ (Registered(o) /\ o \notin out)
  BY <1>1 DEF Registered
<1>7. Iterates(registry', sweep', next', due', visited')
  <2> DEFINE n == NextWithout(out)
  <2>1. /\ n \in Owners \cup {None}
        /\ n # None => next # None /\ <<next, n>> \in registry /\ n \notin out
        /\ \A o \in Owners \ out :
             next # None /\ <<next, o>> \in registry => n # None /\ <<n, o>> \in registry
    BY NextWithoutSound
  <2> HIDE DEF n
  <2>2. ASSUME n # None
        PROVE  next \in Owners /\ KindOf(n) = sweep /\ <<n, n>> \in registry /\ n \notin in
    BY <2>1, <2>2, <1>4 DEF Iterates, Ordered
  <2>3. n # None => <<n, n>> \in registry'
    BY <1>1, <2>1, <2>2
  <2>4. ASSUME NEW o \in due \ out PROVE n # None /\ <<n, o>> \in registry'
    <3>1. next # None /\ <<next, o>> \in registry /\ o \in Owners
      BY DEF Iterates, Ordered
    <3>2. n # None /\ <<n, o>> \in registry
      BY <2>1, <3>1
    <3>3. QED
      BY <1>1, <2>1, <3>1, <3>2
  <2>5. ASSUME NEW o \in visited, n # None, <<n, o>> \in registry' PROVE FALSE
    <3>1. o \in Owners /\ next \in Owners /\ n \in Owners
      BY <1>2, <2>1, <2>2, <2>5
    <3>2. <<n, o>> \in registry
      BY <1>1, <2>2, <2>5, <3>1
    <3>3. <<next, o>> \in registry
      BY <2>1, <2>5, <3>1, <3>2 DEF Ordered
    <3>4. QED
      BY <2>1, <2>5, <3>3 DEF Iterates
  <2>6. QED
    BY <1>3, <2>1, <2>2, <2>3, <2>4, <2>5 DEF Iterates, n
<1>8. QED
  BY <1>5, <1>6, <1>7

-----------------------------------------------------------------------------
(* Lemmas: what the parts of the invariant say of the properties.          *)

\* A wait that is known to lead to its owner does.
LEMMA LedHasOwner ==
  ASSUME ThingsPart, ScriptsPart, NEW t \in Trigs, wait[t] # NoWait, wait[t] # Lost,
         LeadsToOwner(wait[t], t, script, world)
  PROVE  LET o == OwnerOf(wait[t]) IN
         o \in Owners /\ o # None /\ t \in script[o] /\ Exists(o)
<1>1. Rooms \subseteq Owners /\ None \notin Owners /\ Mobs \cup Objs \subseteq Owners
  BY ScriptsAssumption DEF Owners
<1>2. CASE \E o \in Mobs \cup Objs : wait[t] = [go |-> o, at |-> 0] /\ t \in script[o]
  <2>1. PICK o \in Mobs \cup Objs : wait[t] = [go |-> o, at |-> 0] /\ t \in script[o]
    BY <1>2
  <2>2. wait[t].go = o /\ o # None
    BY <1>1, <2>1
  <2>3. OwnerOf(wait[t]) = o
    BY <2>2 DEF OwnerOf
  <2>4. QED
    BY <1>1, <2>1, <2>3 DEF ScriptsPart
<1>3. CASE \E i \in DOMAIN world : wait[t] = [go |-> None, at |-> i] /\ t \in script[world[i]]
  <2>1. PICK i \in DOMAIN world : wait[t] = [go |-> None, at |-> i] /\ t \in script[world[i]]
    BY <1>3
  <2>2. wait[t].go = None /\ wait[t].at = i
    BY <2>1
  <2>3. OwnerOf(wait[t]) = world[i]
    BY <2>1, <2>2 DEF OwnerOf
  <2>4. world[i] \in Rooms
    BY <2>1, ElementOfSeq, LenProperties DEF ThingsPart
  <2>5. QED
    BY <1>1, <2>1, <2>3, <2>4 DEF ScriptsPart
<1>4. QED
  BY <1>2, <1>3 DEF LeadsToOwner

\* The invariant implies the type invariant.
LEMMA IInvTypeOK == IInv => TypeOK
<1> SUFFICES ASSUME IInv PROVE TypeOK
  OBVIOUS
<1>1. alive \subseteq Mobs \cup Objs /\ pending \subseteq alive \cap Mobs
  BY DEF IInv, ThingsPart
<1>2. world \in Seq(Rooms) /\ IsInjective(world)
  BY DEF IInv, ThingsPart
<1>3. /\ script \in [Owners -> SUBSET Trigs]
      /\ \A o, p \in Owners : o # p => script[o] \cap script[p] = {}
      /\ isRandom \in [Trigs -> BOOLEAN] /\ types \in [Owners -> BOOLEAN]
           /\ stuck \subseteq Trigs
  BY DEF IInv, ScriptsPart
<1>4. /\ busy \in [Trigs -> BOOLEAN]
      /\ wait \in [Trigs -> [go : Mobs \cup Objs \cup {None}, at : Nat \cup {-1}]]
  BY DEF IInv, WaitsPart
<1>5. /\ stack \in Seq(Frame) /\ purged \in BOOLEAN /\ leaks \in 0 .. MaxLeaks
      /\ crashed \in Causes \cup {"moved", "spell"}
  BY DEF IInv, CallsPart, Nested, Told
<1>6. depth \in 0 .. MaxScriptDepth + 1
  <2>1. Len(stack) \in Nat
    BY <1>5, LenProperties
  <2>2. QED
    BY <2>1, <1>5, ScriptsAssumption DEF IInv, CallsPart
<1>7. /\ registry \subseteq Owners \X Owners /\ sweep \in 0 .. 3
      /\ {next, visiting} \subseteq Owners \cup {None} /\ visited \subseteq Owners
  BY DEF IInv, RegistryPart, Ordered, Iterates
<1>8. due \subseteq Owners
  BY <1>7 DEF IInv, RegistryPart, Iterates
<1>9. QED
  BY <1>1, <1>2, <1>3, <1>4, <1>5, <1>6, <1>7, <1>8 DEF TypeOK

\* The invariant implies that what is said of busy triggers is true.
LEMMA IInvBusy == IInv => BusyMeansRunning
<1> SUFFICES ASSUME IInv PROVE BusyMeansRunning
  OBVIOUS
<1>1. \A o \in Owners : \A t \in script[o] \ stuck : busy[t] =>
       \/ Waiting(t) \/ o \in pending
       \/ \E k \in DOMAIN stack : stack[k].trig = t /\ stack[k].freed = "no"
  BY DEF IInv, BusyPart, RunBy, Waiting
<1>2. \A k \in DOMAIN stack : stack[k].freed = "no" =>
       /\ busy[stack[k].trig] /\ ~Waiting(stack[k].trig)
       /\ \A j \in DOMAIN stack : stack[j].trig = stack[k].trig => j = k
  <2>1. DOMAIN stack = 1 .. Len(stack)
    BY LenProperties DEF IInv, CallsPart, Nested
  <2>2. QED
    BY <2>1 DEF IInv, CallsPart, Nested, Owned, Waiting
<1>3. depth = Len(stack) + leaks
  BY DEF IInv, CallsPart
<1>4. QED
  BY <1>1, <1>2, <1>3 DEF BusyMeansRunning

\* The invariant implies that waits lead to their owners.
LEMMA IInvWaits == IInv => WaitSound
<1> SUFFICES ASSUME IInv, NEW t \in Trigs, Waiting(t), wait[t] # Lost
             PROVE  LET o == OwnerOf(wait[t]) IN
                    o # None /\ t \in script[o] /\ Exists(o) /\ busy[t]
  BY DEF WaitSound
<1>1. busy[t] /\ wait[t] # NoWait /\ LeadsToOwner(wait[t], t, script, world)
  BY DEF IInv, WaitsPart, Waiting
<1>2. QED
  BY <1>1, LedHasOwner DEF IInv

\* The invariant implies that the registry and its iteration are sound.
LEMMA IInvRegistry == IInv => RegistrySound
<1> SUFFICES ASSUME IInv PROVE RegistrySound
  OBVIOUS
<1>1. \A o \in Owners : Registered(o) <=> script[o] # {} /\ types[o]
  BY DEF IInv, RegistryPart
<1>2. \A o, p \in Owners : Registered(o) /\ Registered(p) /\ KindOf(o) = KindOf(p) =>
       /\ <<o, p>> \in registry \/ <<p, o>> \in registry
       /\ <<o, p>> \in registry /\ <<p, o>> \in registry => o = p
  BY DEF IInv, RegistryPart, Ordered, Registered
<1>3. next # None => KindOf(next) = sweep /\ Registered(next)
  BY DEF IInv, RegistryPart, Iterates, Registered
<1>4. due \subseteq Ahead /\ Ahead \cap visited = {}
  BY DEF IInv, RegistryPart, Ordered, Iterates, Ahead, From
<1>5. QED
  BY <1>1, <1>2, <1>3, <1>4 DEF RegistrySound

\* The invariant holds when the world has been booted.
LEMMA InitIInv == Init => IInv
<1> SUFFICES ASSUME Init PROVE IInv
  OBVIOUS
<1> USE ScriptsAssumption DEF Init
<1>1. ThingsPart
  BY DEF ThingsPart
<1>2. ScriptsPart
  BY DEF ScriptsPart
<1>3. WaitsPart
  <2>1. NoWait \in [go : Mobs \cup Objs \cup {None}, at : Nat \cup {-1}]
    BY DEF NoWait
  <2>2. QED
    BY <2>1 DEF WaitsPart
<1>4. CallsPart
  <2>1. /\ Nested(stack) /\ Told(stack, purged)
        /\ Owned(stack, script, busy, wait) /\ Gone(stack, script)
    <3>1. stack \in Seq(Frame) /\ Len(stack) = 0
      BY EmptySeq
    <3>2. ~ (Len(stack) > 0) /\ \A k \in 1 .. Len(stack) : FALSE
      BY <3>1
    <3>3. purged = FALSE
      OBVIOUS
    <3> HIDE DEF Init
    <3>4. QED
      BY <3>1, <3>2, <3>3 DEF Nested, Told, Owned, Gone
  <2>2. leaks \in 0 .. MaxLeaks /\ depth = Len(stack) + leaks /\ depth <= MaxScriptDepth + 1
    OBVIOUS
  <2>3. crashed \in (Causes \cup {"moved", "spell"}) \ {"flagged"}
    BY DEF Causes
  <2>4. QED
    BY <2>1, <2>2, <2>3 DEF CallsPart
<1>5. BusyPart
  BY DEF BusyPart
<1>6. RegistryPart
  BY DEF RegistryPart, Ordered, Iterates, Registered
<1>7. QED
  BY <1>1, <1>2, <1>3, <1>4, <1>5, <1>6 DEF IInv

-----------------------------------------------------------------------------
(* Lemmas: the calls on the stack.                                         *)

\* Marking changes only how the triggers of some calls were freed.
LEMMA MarkedProperties ==
  ASSUME NEW stk \in Seq(Frame), NEW T, NEW cause \in Causes
  PROVE  /\ Marked(stk, T, cause) \in Seq(Frame)
         /\ Len(Marked(stk, T, cause)) = Len(stk)
         /\ \A k \in 1 .. Len(stk) :
              /\ Marked(stk, T, cause)[k].trig = stk[k].trig
              /\ Marked(stk, T, cause)[k].owner = stk[k].owner
              /\ Marked(stk, T, cause)[k].pc = stk[k].pc
              /\ Marked(stk, T, cause)[k].left = stk[k].left
              /\ Marked(stk, T, cause)[k].freed =
                   IF stk[k].trig \in T THEN cause ELSE stk[k].freed
<1> DEFINE m == Marked(stk, T, cause)
<1>1. Len(stk) \in Nat /\ DOMAIN stk = 1 .. Len(stk)
        /\ \A k \in 1 .. Len(stk) : stk[k] \in Frame
  BY LenProperties, ElementOfSeq
<1>2. m = [k \in 1 .. Len(stk) |->
             IF stk[k].trig \in T THEN [stk[k] EXCEPT !.freed = cause] ELSE stk[k]]
  BY <1>1 DEF Marked
<1>3. \A k \in 1 .. Len(stk) :
        m[k] = IF stk[k].trig \in T THEN [stk[k] EXCEPT !.freed = cause] ELSE stk[k]
  BY <1>2
<1>4. \A k \in 1 .. Len(stk) : m[k] \in Frame
  BY <1>1, <1>3 DEF Frame
<1>5. m \in [1 .. Len(stk) -> Frame]
  BY <1>2, <1>4
<1>6. m \in Seq(Frame) /\ Len(m) = Len(stk)
  BY <1>1, <1>5
<1>7. \A k \in 1 .. Len(stk) :
        /\ m[k].trig = stk[k].trig /\ m[k].owner = stk[k].owner
        /\ m[k].pc = stk[k].pc /\ m[k].left = stk[k].left
        /\ m[k].freed = IF stk[k].trig \in T THEN cause ELSE stk[k].freed
  BY <1>1, <1>3 DEF Frame
<1>8. QED
  BY <1>6, <1>7

\* A call that returns leaves those under it as they are.
LEMMA FrontProperties ==
  ASSUME NEW stk \in Seq(Frame), stk # <<>>
  PROVE  /\ Front(stk) \in Seq(Frame)
         /\ Len(Front(stk)) = Len(stk) - 1 /\ Len(stk) \in Nat \ {0}
         /\ \A k \in 1 .. Len(stk) - 1 : Front(stk)[k] = stk[k]
<1>1. Len(stk) \in Nat \ {0} /\ \A k \in 1 .. Len(stk) : stk[k] \in Frame
  BY EmptySeq, ElementOfSeq
<1>2. Front(stk) = SubSeq(stk, 1, Len(stk) - 1)
  BY DEF Front
<1>3. Len(stk) - 1 \in Int /\ \A i \in 1 .. Len(stk) - 1 : stk[i] \in Frame
  BY <1>1
<1>4. /\ Front(stk) \in Seq(Frame)
      /\ Len(Front(stk)) = IF 1 <= Len(stk) - 1 THEN (Len(stk) - 1) - 1 + 1 ELSE 0
      /\ \A i \in 1 .. (Len(stk) - 1) - 1 + 1 : Front(stk)[i] = stk[1 + i - 1]
  BY <1>2, <1>3, SubSeqProperties
<1>5. \A i \in 1 .. Len(stk) - 1 : 1 + i - 1 = i /\ i \in 1 .. (Len(stk) - 1) - 1 + 1
  BY <1>1
<1>6. QED
  <2>0. /\ Len(stk) \in Nat /\ Len(stk) # 0
        /\ Len(Front(stk)) = IF 1 <= Len(stk) - 1 THEN (Len(stk) - 1) - 1 + 1 ELSE 0
    BY <1>1, <1>4, Zenon
  <2>9. \A m \in Nat : m # 0 => (IF 1 <= m - 1 THEN (m - 1) - 1 + 1 ELSE 0) = m - 1
    OBVIOUS
  <2>1. Len(Front(stk)) = Len(stk) - 1
    BY <2>0, <2>9, Zenon
  <2>2. \A k \in 1 .. Len(stk) - 1 : Front(stk)[k] = stk[k]
    BY <1>4, <1>5
  <2>3. QED
    BY <1>1, <1>4, <2>1, <2>2

\* Another frame in the place of the top.
LEMMA TopWithProperties ==
  ASSUME stack \in Seq(Frame), stack # <<>>, NEW g \in Frame
  PROVE  /\ TopWith(g) \in Seq(Frame)
         /\ Len(TopWith(g)) = Len(stack) /\ Len(stack) \in Nat \ {0}
         /\ \A k \in 1 .. Len(stack) :
              TopWith(g)[k] = IF k = Len(stack) THEN g ELSE stack[k]
<1>1. Len(stack) \in Nat \ {0}
  BY EmptySeq
<1>2. Len(stack) \in 1 .. Len(stack)
  BY <1>1
<1>3. QED
  BY <1>1, <1>2, ExceptSeq DEF TopWith

\* The call on top.
LEMMA TopProperties ==
  ASSUME stack \in Seq(Frame), stack # <<>>
  PROVE  /\ Top = stack[Len(stack)] /\ Top \in Frame
         /\ Len(stack) \in Nat \ {0} /\ Len(stack) \in DOMAIN stack
<1>1. Len(stack) \in Nat \ {0} /\ DOMAIN stack = 1 .. Len(stack)
  BY EmptySeq, LenProperties
<1>2. QED
  BY <1>1, ElementOfSeq DEF Top, Last

\* The calls stk change to s2: none is new, and none that has its trigger loses it
\* or gets another; of those under the top one, nothing else changes.
Continues(stk, s2) ==
  /\ s2 \in Seq(Frame)
  /\ Len(s2) <= Len(stk)
  /\ \A k \in 1 .. Len(s2) :
       /\ s2[k].trig = stk[k].trig /\ s2[k].owner = stk[k].owner
       /\ k # Len(stk) => s2[k].pc = stk[k].pc
       /\ s2[k].freed = "no" => stk[k].freed = "no"

\* Calls that go on are nested as before.
LEMMA ContinuesNested ==
  ASSUME NEW stk, Nested(stk), NEW s2, Continues(stk, s2)
  PROVE  Nested(s2)
<1>1. Len(stk) \in Nat /\ Len(s2) \in Nat /\ Len(s2) <= Len(stk)
  BY LenProperties DEF Nested, Continues
<1>2. \A k \in 1 .. Len(s2) : k \in 1 .. Len(stk) /\ (k # Len(s2) => k # Len(stk))
  BY <1>1
<1>3. \A k \in 1 .. Len(s2) : k # Len(s2) => s2[k].pc \in Within
  BY <1>2 DEF Nested, Continues
<1>4. ASSUME NEW k \in 1 .. Len(s2), s2[k].freed = "no",
             NEW j \in 1 .. Len(s2), s2[j].trig = s2[k].trig
      PROVE  j = k
  <2>1. stk[k].freed = "no" /\ stk[j].trig = stk[k].trig
    BY <1>4 DEF Continues
  <2>2. QED
    BY <2>1, <1>2 DEF Nested
<1>5. QED
  BY <1>3, <1>4 DEF Nested, Continues

-----------------------------------------------------------------------------
(* Lemmas: triggers that are freed.                                        *)

\* T leaves a part of one script at most.
Whole(T) ==
  \A o, p \in Owners :
    /\ script[o] \cap T # {} /\ ~ (script[o] \subseteq T)
    /\ script[p] \cap T # {} /\ ~ (script[p] \subseteq T)
    => o = p

\* Triggers of one owner leave a part of its script at most.
LEMMA WholeOfOne ==
  ASSUME ScriptsPart, NEW o \in Owners, NEW T, T \subseteq script[o]
  PROVE  T \subseteq Trigs /\ Whole(T)
BY DEF ScriptsPart, Whole

\* Freeing all triggers of some owners leaves no part of a script.
LEMMA WholeOfMany ==
  ASSUME ScriptsPart, NEW S, S \subseteq Owners
  PROVE  LET T == UNION {script[o] : o \in S} IN
         /\ T \subseteq Trigs /\ Whole(T)
         /\ \A o \in Owners : IF o \in S THEN script[o] \subseteq T ELSE script[o] \cap T = {}
<1> DEFINE T == UNION {script[o] : o \in S}
<1>1. \A t : t \in T <=> \E o \in S : t \in script[o]
  OBVIOUS
<1> HIDE DEF T
<1>2. \A o \in Owners : IF o \in S THEN script[o] \subseteq T ELSE script[o] \cap T = {}
  BY <1>1 DEF ScriptsPart
<1>3. T \subseteq Trigs
  BY <1>1 DEF ScriptsPart
<1>4. Whole(T)
  BY <1>2 DEF Whole
<1>5. QED
  BY <1>2, <1>3, <1>4 DEF T

\* The scripts, the registry and what is busy after extract_trigger() of all of T.
LEMMA ExtractedSound ==
  ASSUME ScriptsPart, WaitsPart, RegistryPart, NEW T, T \subseteq Trigs, Whole(T),
         Extracted(T), sweep' = sweep, visiting' \in Owners \cup {None}
  PROVE  /\ script' \in [Owners -> SUBSET Trigs]
         /\ \A o \in Owners : script'[o] = script[o] \ T
         /\ isRandom' \in [Trigs -> BOOLEAN] /\ types' \in [Owners -> BOOLEAN]
         /\ stuck' = stuck \ T
         /\ busy' \in [Trigs -> BOOLEAN]
         /\ \A t \in Trigs : busy'[t] <=> busy[t] /\ t \notin T
         /\ RegistryPart'
<1>1. /\ script \in [Owners -> SUBSET Trigs] /\ types \in [Owners -> BOOLEAN]
      /\ isRandom \in [Trigs -> BOOLEAN] /\ busy \in [Trigs -> BOOLEAN]
  BY DEF ScriptsPart, WaitsPart
<1>2. script' \in [Owners -> SUBSET Trigs] /\ \A o \in Owners : script'[o] = script[o] \ T
  BY <1>1 DEF Extracted
<1>3. isRandom' \in [Trigs -> BOOLEAN] /\ stuck' = stuck \ T
  BY <1>1 DEF Extracted
<1>4. busy' \in [Trigs -> BOOLEAN] /\ \A t \in Trigs : busy'[t] <=> busy[t] /\ t \notin T
  BY <1>1 DEF Extracted
<1>5. /\ types' \in [Owners -> BOOLEAN]
      /\ \A o \in Owners : script[o] \cap T = {} => (types'[o] <=> types[o])
      /\ \A o \in Owners : script[o] \cap T # {} /\ types'[o] => ~ (script[o] \subseteq T)
  <2>1. types' = TypesWithout(T)
    BY DEF Extracted
  <2>2. types' = [o \in Owners |->
          IF script[o] \cap T = {} THEN types[o] ELSE \E t \in script[o] \ T : isRandom[t]]
    BY <2>1 DEF TypesWithout
  <2>3. \A o \in Owners : types'[o] =
          IF script[o] \cap T = {} THEN types[o] ELSE \E t \in script[o] \ T : isRandom[t]
    BY <2>2
  <2>4. types' \in [Owners -> BOOLEAN]
    BY <1>1, <2>2
  <2>5. QED
    BY <2>3, <2>4
<1> DEFINE hit == {o \in Owners : script[o] \cap T # {}}
           out == {o \in hit : Registered(o) /\ ~types'[o]}
           in == {o \in hit : ~Registered(o) /\ types'[o]}
<1>6. Synced(out, in) /\ visited' = visited
  BY DEF Extracted
<1>7. \A o, p \in in : o = p
  BY <1>5 DEF Whole
<1>8. \A o \in Owners : /\ o \in hit <=> script[o] \cap T # {}
                        /\ o \in out <=> o \in hit /\ Registered(o) /\ ~types'[o]
                        /\ o \in in <=> o \in hit /\ ~Registered(o) /\ types'[o]
  OBVIOUS
<1>9. in \in SUBSET Owners /\ \A o \in in : Registered(o) => o \in out
  OBVIOUS
<1> HIDE DEF in, out, hit
<1>10. /\ Ordered(registry')
       /\ Iterates(registry', sweep', next', due', visited')
       /\ \A o \in Owners : Registered(o)' <=> o \in in \/ (Registered(o) /\ o \notin out)
  <2>1. sweep' = sweep
    OBVIOUS
  <2>2. QED
    BY <2>1, <1>6, <1>7, <1>9, SyncedSound DEF RegistryPart
<1>11. ASSUME NEW o \in Owners
       PROVE  Registered(o)' <=> script'[o] # {} /\ types'[o]
  <2>1. Registered(o) <=> script[o] # {} /\ types[o]
    BY DEF RegistryPart
  <2>2. CASE o \in hit
    BY <2>1, <2>2, <1>2, <1>5, <1>8, <1>10
  <2>3. CASE o \notin hit
    <3>1. script'[o] = script[o] /\ (types'[o] <=> types[o])
      BY <2>3, <1>2, <1>5, <1>8
    <3>2. QED
      BY <2>1, <2>3, <3>1, <1>8, <1>10
  <2>4. QED
    BY <2>2, <2>3
<1>12. RegistryPart'
  BY <1>6, <1>10, <1>11 DEF RegistryPart
<1>13. QED
  BY <1>2, <1>3, <1>4, <1>5, <1>12

\* The waits that a step leaves or changes: those of the triggers in T end, the others
\* lead to their owners in the scripts scr and the array wld.
Rewaits(T, scr, wld, wt) ==
  /\ wt \in [Trigs -> [go : Mobs \cup Objs \cup {None}, at : Nat \cup {-1}]]
  /\ \A t \in T : wt[t] = NoWait
  /\ \A t \in Trigs \ T : wt[t] = NoWait <=> wait[t] = NoWait
  /\ \A t \in Trigs \ T : wt[t] # NoWait => LeadsToOwner(wt[t], t, scr, wld)

\* The calls stk change to s2 as the triggers in T are freed.
Outlive(stk, s2, T) ==
  /\ Continues(stk, s2)
  /\ \A k \in 1 .. Len(s2) : s2[k].freed = "no" <=> stk[k].freed = "no" /\ s2[k].trig \notin T

\* Freeing the triggers T keeps the invariant: their waits end, the calls that had them
\* are told or marked, and whoever leaves the game leaves without a script.
LEMMA ExtractStep ==
  ASSUME IInv, NEW T, T \subseteq Trigs, Whole(T), Extracted(T),
         sweep' = sweep, visiting' \in Owners \cup {None}, ThingsPart',
         \A o \in Owners : script'[o] # {} => Exists(o)',
         \A o \in pending : o \in pending' \/ script[o] \subseteq T,
         Rewaits(T, script', world', wait'),
         Outlive(stack, stack', T), Told(stack', purged'),
         \A t \in Trigs \ T : RunBy(stack, t) => RunBy(stack', t),
         depth' = Len(stack') + leaks, UNCHANGED <<leaks, crashed>>
  PROVE  IInv'
<1>1. /\ script' \in [Owners -> SUBSET Trigs]
      /\ \A o \in Owners : script'[o] = script[o] \ T
      /\ isRandom' \in [Trigs -> BOOLEAN] /\ types' \in [Owners -> BOOLEAN]
      /\ stuck' = stuck \ T
      /\ busy' \in [Trigs -> BOOLEAN]
      /\ \A t \in Trigs : busy'[t] <=> busy[t] /\ t \notin T
      /\ RegistryPart'
  BY ExtractedSound DEF IInv
<1>2. ScriptsPart'
  <2>1. \A o, p \in Owners : \A t \in script'[o] : t \in script'[p] => o = p
    BY <1>1 DEF IInv, ScriptsPart
  <2>2. stuck' \subseteq Trigs
    BY <1>1 DEF IInv, ScriptsPart
  <2>3. QED
    BY <1>1, <2>1, <2>2 DEF ScriptsPart
<1>3. WaitsPart'
  <2>1. wait' \in [Trigs -> [go : Mobs \cup Objs \cup {None}, at : Nat \cup {-1}]]
    BY DEF Rewaits
  <2>2. ASSUME NEW t \in Trigs, wait'[t] # NoWait
        PROVE  busy'[t] /\ LeadsToOwner(wait'[t], t, script', world')
    <3>1. t \notin T /\ wait[t] # NoWait /\ LeadsToOwner(wait'[t], t, script', world')
      BY <2>2 DEF Rewaits
    <3>2. busy[t]
      BY <3>1 DEF IInv, WaitsPart
    <3>3. QED
      BY <1>1, <3>1, <3>2
  <2>3. ASSUME NEW t \in Trigs, busy'[t]
        PROVE  \E o \in Owners : t \in script'[o]
    <3>1. busy[t] /\ t \notin T
      BY <1>1, <2>3
    <3>2. PICK o \in Owners : t \in script[o]
      BY <3>1 DEF IInv, WaitsPart
    <3>3. QED
      BY <1>1, <3>1, <3>2
  <2>4. QED
    BY <1>1, <2>1, <2>2, <2>3 DEF WaitsPart
<1>4. CallsPart'
  <2>1. Nested(stack')
    BY ContinuesNested DEF IInv, CallsPart, Outlive
  <2>2. Owned(stack', script', busy', wait')
    <3> SUFFICES ASSUME NEW k \in 1 .. Len(stack'), stack'[k].freed = "no"
                 PROVE  /\ stack'[k].trig \in script'[stack'[k].owner]
                        /\ busy'[stack'[k].trig] = TRUE
                        /\ wait'[stack'[k].trig] = NoWait
      BY DEF Owned
    <3>1. Len(stack) \in Nat /\ Len(stack') \in Nat /\ Len(stack') <= Len(stack)
      BY LenProperties DEF IInv, CallsPart, Nested, Outlive, Continues
    <3>2. k \in 1 .. Len(stack)
      BY <3>1
    <3>3. /\ stack'[k].trig = stack[k].trig /\ stack'[k].owner = stack[k].owner
          /\ stack[k].freed = "no" /\ stack[k].trig \notin T
      BY DEF Outlive, Continues
    <3>4. stack[k] \in Frame
      BY <3>2, ElementOfSeq DEF IInv, CallsPart, Nested
    <3>5. stack[k].trig \in Trigs /\ stack[k].owner \in Owners
      BY <3>4 DEF Frame
    <3>6. /\ stack[k].trig \in script[stack[k].owner]
          /\ busy[stack[k].trig] = TRUE /\ wait[stack[k].trig] = NoWait
      BY <3>2, <3>3 DEF IInv, CallsPart, Owned
    <3>7. wait'[stack[k].trig] = NoWait
      BY <3>3, <3>5, <3>6 DEF Rewaits
    <3>8. busy'[stack[k].trig] = TRUE
      BY <1>1, <3>3, <3>5, <3>6
    <3>9. QED
      BY <1>1, <3>3, <3>5, <3>6, <3>7, <3>8
  <2>3. depth' <= MaxScriptDepth + 1
    <3>1. /\ Len(stack) \in Nat /\ Len(stack') \in Nat /\ Len(stack') <= Len(stack)
          /\ leaks \in Nat /\ MaxScriptDepth \in Nat
          /\ depth = Len(stack) + leaks /\ depth <= MaxScriptDepth + 1
      BY LenProperties, ScriptsAssumption DEF IInv, CallsPart, Nested, Outlive, Continues
    <3>2. QED
      BY <3>1
  <2>4. /\ leaks' \in 0 .. MaxLeaks /\ depth' = Len(stack') + leaks'
        /\ crashed' \in (Causes \cup {"moved", "spell"}) \ {"flagged"}
    BY DEF IInv, CallsPart
  <2>5. Gone(stack', script')
    <3> SUFFICES ASSUME NEW k \in 1 .. Len(stack'), stack'[k].freed # "no", NEW o \in Owners
                 PROVE  stack'[k].trig \notin script'[o]
      BY DEF Gone
    <3>1. Len(stack) \in Nat /\ Len(stack') \in Nat /\ Len(stack') <= Len(stack)
      BY LenProperties DEF IInv, CallsPart, Nested, Outlive, Continues
    <3>2. k \in 1 .. Len(stack)
      BY <3>1
    <3>3. /\ stack'[k].trig = stack[k].trig
          /\ stack[k].freed # "no" \/ stack'[k].trig \in T
      BY DEF Outlive, Continues
    <3>4. QED
      BY <1>1, <3>2, <3>3 DEF IInv, CallsPart, Gone
  <2>6. QED
    BY <2>1, <2>2, <2>3, <2>4, <2>5 DEF CallsPart
<1>5. BusyPart'
  <2> SUFFICES ASSUME NEW o \in Owners, NEW t \in script'[o] \ stuck', busy'[t]
               PROVE  wait'[t] # NoWait \/ o \in pending' \/ RunBy(stack', t)
    BY DEF BusyPart
  <2>1. t \in script[o] \ stuck /\ t \in Trigs /\ t \notin T
    BY <1>1
  <2>2. busy[t]
    BY <1>1, <2>1
  <2>3. wait[t] # NoWait \/ o \in pending \/ RunBy(stack, t)
    BY <2>1, <2>2 DEF IInv, BusyPart
  <2>4. wait[t] # NoWait => wait'[t] # NoWait
    BY <2>1 DEF Rewaits
  <2>5. o \in pending => o \in pending'
    BY <2>1
  <2>6. RunBy(stack, t) => RunBy(stack', t)
    BY <2>1
  <2>7. QED
    BY <2>3, <2>4, <2>5, <2>6
<1>6. QED
  BY <1>1, <1>2, <1>3, <1>4, <1>5 DEF IInv

\* The waits of the triggers that stay still lead to their owners.
LEMMA WaitsEnd ==
  ASSUME ThingsPart, ScriptsPart, WaitsPart, NEW T, T \subseteq Trigs, wait' = Waits(T),
         \A o \in Owners : script'[o] = script[o] \ T, world' = world
  PROVE  Rewaits(T, script', world', wait')
<1>1. wait \in [Trigs -> [go : Mobs \cup Objs \cup {None}, at : Nat \cup {-1}]]
  BY DEF WaitsPart
<1>2. \A t \in Trigs : wait'[t] = IF t \in T THEN NoWait ELSE wait[t]
  BY DEF Waits
<1>3. wait' \in [Trigs -> [go : Mobs \cup Objs \cup {None}, at : Nat \cup {-1}]]
  <2>1. NoWait \in [go : Mobs \cup Objs \cup {None}, at : Nat \cup {-1}]
    BY DEF NoWait
  <2>2. QED
    BY <1>1, <2>1 DEF Waits
<1>4. ASSUME NEW t \in Trigs \ T, wait[t] # NoWait
      PROVE  LeadsToOwner(wait[t], t, script', world')
  <2>1. LeadsToOwner(wait[t], t, script, world)
    BY <1>4 DEF WaitsPart
  <2>2. \A o \in Owners : t \in script[o] => t \in script'[o]
    OBVIOUS
  <2>3. Mobs \cup Objs \subseteq Owners /\ \A i \in DOMAIN world : world[i] \in Owners
    BY ElementOfSeq, LenProperties DEF Owners, ThingsPart
  <2>4. QED
    BY <2>1, <2>2, <2>3 DEF LeadsToOwner
<1>5. QED
  BY <1>2, <1>3, <1>4 DEF Rewaits

-----------------------------------------------------------------------------
(* Lemmas: triggers that are attached or run.                              *)

\* Attaching a new trigger to an owner in the game keeps the invariant.
LEMMA AttachStep ==
  ASSUME IInv, NEW o \in Owners, NEW t \in Trigs, Exists(o), Attach(o, t),
         UNCHANGED <<things, depth, purged, crashed, leaks, sweep, visiting>>,
         Outlive(stack, stack', {}), Len(stack') = Len(stack), Told(stack', purged),
         \A u \in Trigs : RunBy(stack, u) => RunBy(stack', u)
  PROVE  IInv'
<1>0. UNCHANGED <<alive, pending, world>>
  BY DEF things
<1>1. /\ script \in [Owners -> SUBSET Trigs] /\ types \in [Owners -> BOOLEAN]
      /\ isRandom \in [Trigs -> BOOLEAN] /\ busy \in [Trigs -> BOOLEAN]
  BY DEF IInv, ScriptsPart, WaitsPart
<1>2. /\ script' \in [Owners -> SUBSET Trigs]
      /\ \A p \in Owners : script'[p] = IF p = o THEN script[p] \cup {t} ELSE script[p]
      /\ UNCHANGED <<isRandom, busy, wait, stuck, visited>>
  BY <1>1 DEF Attach
<1>3. /\ types' \in [Owners -> BOOLEAN]
      /\ \A p \in Owners \ {o} : types'[p] <=> types[p]
      /\ types[o] => types'[o]
  <2>1. types' = [types EXCEPT ![o] = types[o] \/ isRandom[t]]
    BY DEF Attach
  <2>2. types'[o] = (types[o] \/ isRandom[t])
    BY <1>1, <2>1
  <2>3. types' \in [Owners -> BOOLEAN] /\ \A p \in Owners \ {o} : types'[p] = types[p]
    BY <1>1, <2>1
  <2>4. QED
    BY <2>2, <2>3
<1>4. \A p \in Owners : t \notin script[p]
  BY DEF Attach, Attached
<1>5. ThingsPart'
  BY <1>0 DEF IInv, ThingsPart
<1>6. ScriptsPart'
  <2>1. \A p, q \in Owners : \A u \in script'[p] : u \in script'[q] => p = q
    BY <1>2, <1>4 DEF IInv, ScriptsPart
  <2>2. \A p \in Owners : script'[p] # {} => Exists(p)'
    BY <1>0, <1>2 DEF IInv, ScriptsPart, Exists
  <2>3. isRandom' \in [Trigs -> BOOLEAN] /\ stuck' \subseteq Trigs
    BY <1>2 DEF IInv, ScriptsPart
  <2>4. QED
    BY <1>2, <1>3, <2>1, <2>2, <2>3 DEF ScriptsPart
<1>7. WaitsPart'
  <2>1. Mobs \cup Objs \subseteq Owners /\ \A i \in DOMAIN world : world[i] \in Owners
    BY ElementOfSeq, LenProperties DEF IInv, Owners, ThingsPart
  <2>2. \A p \in Owners : script[p] \subseteq script'[p]
    BY <1>2
  <2>3. ASSUME NEW u \in Trigs, wait'[u] # NoWait
        PROVE  busy'[u] /\ LeadsToOwner(wait'[u], u, script', world')
    <3>1. busy[u] /\ LeadsToOwner(wait[u], u, script, world)
      BY <1>2, <2>3 DEF IInv, WaitsPart
    <3>2. LeadsToOwner(wait[u], u, script', world)
      BY <2>1, <2>2, <3>1 DEF LeadsToOwner
    <3>3. QED
      BY <1>0, <1>2, <3>1, <3>2
  <2>4. \A u \in Trigs : busy'[u] => \E p \in Owners : u \in script'[p]
    BY <1>2, <2>2 DEF IInv, WaitsPart
  <2>5. busy' \in [Trigs -> BOOLEAN]
    BY <1>1, <1>2
  <2>6. wait' \in [Trigs -> [go : Mobs \cup Objs \cup {None}, at : Nat \cup {-1}]]
    BY <1>2 DEF IInv, WaitsPart
  <2>7. QED
    BY <2>3, <2>4, <2>5, <2>6 DEF WaitsPart
<1>8. CallsPart'
  <2>1. Nested(stack')
    BY ContinuesNested DEF IInv, CallsPart, Outlive
  <2>2. Owned(stack', script', busy', wait')
    <3> SUFFICES ASSUME NEW k \in 1 .. Len(stack'), stack'[k].freed = "no"
                 PROVE  /\ stack'[k].trig \in script'[stack'[k].owner]
                        /\ busy'[stack'[k].trig] = TRUE
                        /\ wait'[stack'[k].trig] = NoWait
      BY DEF Owned
    <3>1. k \in 1 .. Len(stack)
      OBVIOUS
    <3>2. /\ stack'[k].trig = stack[k].trig /\ stack'[k].owner = stack[k].owner
          /\ stack[k].freed = "no"
      BY DEF Outlive, Continues
    <3>3. stack[k] \in Frame
      BY <3>1, ElementOfSeq DEF IInv, CallsPart, Nested
    <3>4. stack[k].owner \in Owners
      BY <3>3 DEF Frame
    <3>5. /\ stack[k].trig \in script[stack[k].owner]
          /\ busy[stack[k].trig] = TRUE /\ wait[stack[k].trig] = NoWait
      BY <3>1, <3>2 DEF IInv, CallsPart, Owned
    <3>6. QED
      BY <1>2, <3>2, <3>4, <3>5
  <2>3. /\ leaks' \in 0 .. MaxLeaks
        /\ depth' = Len(stack') + leaks' /\ depth' <= MaxScriptDepth + 1
        /\ crashed' \in (Causes \cup {"moved", "spell"}) \ {"flagged"}
    BY DEF IInv, CallsPart
  <2>4. Told(stack', purged')
    OBVIOUS
  <2>5. Gone(stack', script')
    <3> SUFFICES ASSUME NEW k \in 1 .. Len(stack'), stack'[k].freed # "no", NEW p \in Owners
                 PROVE  stack'[k].trig \notin script'[p]
      BY DEF Gone
    <3>1. k \in 1 .. Len(stack) /\ stack[k].freed # "no" /\ stack'[k].trig = stack[k].trig
      BY DEF Outlive, Continues
    <3>2. stack[k].trig # t
      <4>1. DOMAIN stack = 1 .. Len(stack)
        BY LenProperties DEF IInv, CallsPart, Nested
      <4>2. QED
        BY <3>1, <4>1 DEF Attach
    <3>3. QED
      BY <1>2, <3>1, <3>2 DEF IInv, CallsPart, Gone
  <2>6. QED
    BY <2>1, <2>2, <2>3, <2>4, <2>5 DEF CallsPart
<1>9. BusyPart'
  <2> SUFFICES ASSUME NEW p \in Owners, NEW u \in script'[p] \ stuck', busy'[u]
               PROVE  wait'[u] # NoWait \/ p \in pending' \/ RunBy(stack', u)
    BY DEF BusyPart
  <2>1. busy[u] /\ u \in Trigs
    BY <1>2
  <2>2. u # t
    BY <1>4, <2>1 DEF IInv, WaitsPart
  <2>3. u \in script[p] \ stuck
    BY <1>2, <2>2
  <2>4. wait[u] # NoWait \/ p \in pending \/ RunBy(stack, u)
    BY <2>1, <2>3 DEF IInv, BusyPart
  <2>5. QED
    BY <1>0, <1>2, <2>1, <2>4
<1>10. RegistryPart'
  <2> DEFINE in == IF types'[o] THEN {o} ELSE {}
  <2>1. Synced({o}, in) /\ visited' = visited
    BY DEF Attach
  <2>2. in \in SUBSET Owners /\ in \subseteq {o} /\ (o \in in <=> types'[o])
    OBVIOUS
  <2>3. (\A p, q \in in : p = q) /\ (\A p \in in : Registered(p) => p \in {o})
    BY <2>2
  <2> HIDE DEF in
  <2>4. sweep' = sweep
    OBVIOUS
  <2>5. /\ Ordered(registry')
        /\ Iterates(registry', sweep', next', due', visited')
        /\ \A p \in Owners : Registered(p)' <=> p \in in \/ (Registered(p) /\ p \notin {o})
    BY <2>1, <2>2, <2>3, <2>4, SyncedSound DEF IInv, RegistryPart
  <2>6. ASSUME NEW p \in Owners
        PROVE  Registered(p)' <=> script'[p] # {} /\ types'[p]
    <3>1. Registered(p) <=> script[p] # {} /\ types[p]
      BY DEF IInv, RegistryPart
    <3>2. CASE p = o
      BY <3>2, <1>2, <2>2, <2>5
    <3>3. CASE p # o
      <4>1. p \notin in /\ script'[p] = script[p] /\ (types'[p] <=> types[p])
        BY <3>3, <1>2, <1>3, <2>2
      <4>2. QED
        BY <3>1, <3>3, <4>1, <2>5
    <3>4. QED
      BY <3>2, <3>3
  <2>7. sweep' \in 0 .. 3 /\ visiting' \in Owners \cup {None} /\ visited' \subseteq Owners
    BY <2>1 DEF IInv, RegistryPart
  <2>8. QED
    BY <2>5, <2>6, <2>7 DEF RegistryPart
<1>11. QED
  BY <1>5, <1>6, <1>7, <1>8, <1>9, <1>10 DEF IInv

\* A driver starts: the calls under it, stk, are told anew what to look at, and the
\* trigger is run by it alone.
LEMMA EnterStep ==
  ASSUME IInv, NEW o \in Owners, NEW t \in script[o], NEW stk,
         Outlive(stack, stk, {}), Len(stk) = Len(stack),
         \A k \in 1 .. Len(stk) : stk[k].pc \in Within /\ stk[k].trig # t,
         \A u \in Trigs : RunBy(stack, u) => RunBy(stk, u),
         Enter(o, t, stk),
         wait' \in [Trigs -> [go : Mobs \cup Objs \cup {None}, at : Nat \cup {-1}]],
         wait'[t] = NoWait, \A u \in Trigs \ {t} : wait'[u] = wait[u],
         UNCHANGED things, sweep' = sweep, visiting' \in Owners \cup {None}
  PROVE  IInv'
<1>0. UNCHANGED <<alive, pending, world>>
  BY DEF things
<1>1. UNCHANGED <<script, isRandom, types, stuck, crashed, leaks, registry, next, due, visited>>
  BY DEF Enter
<1>2. t \in Trigs
  BY DEF IInv, ScriptsPart
<1>3. busy' \in [Trigs -> BOOLEAN] /\ busy'[t] = TRUE
        /\ \A u \in Trigs \ {t} : busy'[u] = busy[u]
  <2>1. busy' = [busy EXCEPT ![t] = TRUE] /\ busy \in [Trigs -> BOOLEAN]
    BY DEF Enter, IInv, WaitsPart
  <2>2. QED
    BY <1>2, <2>1
<1>4. ThingsPart' /\ ScriptsPart'
  BY <1>0, <1>1 DEF IInv, ThingsPart, ScriptsPart, Exists
<1>5. RegistryPart'
  BY <1>1 DEF IInv, RegistryPart, Registered
<1>6. WaitsPart'
  <2>1. ASSUME NEW u \in Trigs, wait'[u] # NoWait
        PROVE  busy'[u] /\ LeadsToOwner(wait'[u], u, script', world')
    <3>1. u # t /\ wait'[u] = wait[u]
      BY <2>1
    <3>2. busy[u] /\ LeadsToOwner(wait[u], u, script, world)
      BY <2>1, <3>1 DEF IInv, WaitsPart
    <3>3. QED
      BY <1>0, <1>1, <1>3, <3>1, <3>2
  <2>2. ASSUME NEW u \in Trigs, busy'[u] PROVE \E p \in Owners : u \in script'[p]
    <3>1. CASE u = t
      BY <3>1, <1>1
    <3>2. CASE u # t
      BY <3>2, <2>2, <1>1, <1>3 DEF IInv, WaitsPart
    <3>3. QED
      BY <3>1, <3>2
  <2>3. QED
    BY <1>3, <2>1, <2>2 DEF WaitsPart
<1> DEFINE calls == [k \in DOMAIN stk |->
             IF stk[k].freed = "flagged" THEN [stk[k] EXCEPT !.freed = "reset"] ELSE stk[k]]
           f == [trig |-> t, owner |-> o, pc |-> "line", left |-> MaxLines, freed |-> "no"]
           n == Len(stk)
<1>7. /\ stk \in Seq(Frame) /\ n \in Nat /\ DOMAIN stk = 1 .. n
      /\ \A k \in 1 .. n : stk[k] \in Frame
  BY LenProperties, ElementOfSeq DEF Outlive, Continues
<1>8. /\ calls \in Seq(Frame) /\ Len(calls) = n
      /\ \A k \in 1 .. n : /\ calls[k].trig = stk[k].trig /\ calls[k].owner = stk[k].owner
                           /\ calls[k].pc = stk[k].pc
                           /\ calls[k].freed = IF stk[k].freed = "flagged" THEN "reset"
                                              ELSE stk[k].freed
  <2>1. \A k \in 1 .. n :
          calls[k] = IF stk[k].freed = "flagged" THEN [stk[k] EXCEPT !.freed = "reset"]
                     ELSE stk[k]
    BY <1>7
  <2>2. \A k \in 1 .. n : calls[k] \in Frame
    BY <1>7, <2>1 DEF Frame, Causes
  <2>3. calls \in [1 .. n -> Frame]
    BY <1>7, <2>2
  <2>4. calls \in Seq(Frame) /\ Len(calls) = n
    BY <1>7, <2>3
  <2>5. QED
    BY <1>7, <2>1, <2>4 DEF Frame
<1>9. f \in Frame
  BY <1>2, ScriptsAssumption DEF Frame, Causes, Points
<1>10. stack' = Append(calls, f)
  BY DEF Enter
<1> HIDE DEF calls
<1>11. /\ stack' \in Seq(Frame) /\ Len(stack') = n + 1
       /\ \A k \in 1 .. n : stack'[k] = calls[k]
       /\ stack'[n + 1] = f
  BY <1>8, <1>9, <1>10, AppendProperties
<1>12. /\ f.trig = t /\ f.owner = o /\ f.pc = "line" /\ f.freed = "no"
  OBVIOUS
<1> HIDE DEF f
<1>13. \A k \in 1 .. n : stk[k].trig # t
  OBVIOUS
<1>14. CallsPart'
  <2>1. Nested(stk)
    BY ContinuesNested DEF IInv, CallsPart, Outlive
  <2>2. \A k \in 1 .. n + 1 : k \in 1 .. n \/ k = n + 1
    BY <1>7
  <2>3. Nested(stack')
    <3>1. \A k \in 1 .. n + 1 : k # n + 1 => stack'[k].pc \in Within
      BY <1>8, <1>11, <2>2
    <3>2. ASSUME NEW k \in 1 .. n + 1, NEW j \in 1 .. n + 1,
                 stack'[k].freed = "no", stack'[j].trig = stack'[k].trig
          PROVE  j = k
      <4>1. CASE k = n + 1
        <5>1. j \in 1 .. n => calls[j].trig = t /\ stk[j].trig = t
          BY <4>1, <3>2, <1>8, <1>11, <1>12
        <5>2. j \in 1 .. n => FALSE
          BY <5>1, <1>13
        <5>3. QED
          BY <2>2, <4>1, <5>2
      <4>2. CASE k \in 1 .. n
        <5>1. stk[k].freed = "no" /\ stk[k].trig # t /\ stack'[k].trig = stk[k].trig
          BY <4>2, <3>2, <1>8, <1>11, <1>13
        <5>2. j \in 1 .. n
          BY <5>1, <3>2, <1>11, <1>12, <2>2
        <5>3. stk[j].trig = stk[k].trig
          BY <5>1, <5>2, <3>2, <1>8, <1>11
        <5>4. QED
          BY <4>2, <5>1, <5>2, <5>3, <2>1 DEF Nested
      <4>3. QED
        BY <2>2, <4>1, <4>2
    <3>3. QED
      BY <1>11, <3>1, <3>2 DEF Nested
  <2>4. purged' = FALSE /\ depth' = depth + 1 /\ depth <= MaxScriptDepth
    BY DEF Enter
  <2>5. Told(stack', purged')
    <3>1. \A k \in 1 .. n + 1 : stack'[k].freed # "flagged"
      BY <1>8, <1>11, <1>12, <2>2
    <3>2. QED
      BY <1>11, <2>4, <3>1 DEF Told
  <2>6. Owned(stack', script', busy', wait')
    <3> SUFFICES ASSUME NEW k \in 1 .. n + 1, stack'[k].freed = "no"
                 PROVE  /\ stack'[k].trig \in script'[stack'[k].owner]
                        /\ busy'[stack'[k].trig] = TRUE
                        /\ wait'[stack'[k].trig] = NoWait
      BY <1>11 DEF Owned
    <3>1. CASE k = n + 1
      BY <3>1, <1>1, <1>3, <1>11, <1>12
    <3>2. CASE k \in 1 .. n
      <4>1. /\ stack'[k].trig = stk[k].trig /\ stack'[k].owner = stk[k].owner
            /\ stk[k].freed = "no" /\ stk[k].trig # t
        BY <3>2, <1>8, <1>11, <1>13
      <4>2. /\ stk[k].trig = stack[k].trig /\ stk[k].owner = stack[k].owner
            /\ stack[k].freed = "no" /\ k \in 1 .. Len(stack)
        BY <3>2, <4>1 DEF Outlive, Continues
      <4>3. /\ stack[k].trig \in script[stack[k].owner]
            /\ busy[stack[k].trig] = TRUE /\ wait[stack[k].trig] = NoWait
        BY <4>2 DEF IInv, CallsPart, Owned
      <4>4. stk[k].trig \in Trigs
        BY <3>2, <1>7 DEF Frame
      <4>5. QED
        BY <1>1, <1>3, <4>1, <4>2, <4>3, <4>4
    <3>3. QED
      BY <2>2, <3>1, <3>2
  <2>7. depth' = Len(stack') + leaks' /\ depth' <= MaxScriptDepth + 1
    <3>1. depth = n + leaks /\ leaks' = leaks /\ leaks \in Nat /\ MaxScriptDepth \in Nat
      BY <1>1, ScriptsAssumption DEF IInv, CallsPart
    <3>2. QED
      BY <1>7, <1>11, <2>4, <3>1
  <2>8. leaks' \in 0 .. MaxLeaks /\ crashed' \in (Causes \cup {"moved", "spell"}) \ {"flagged"}
    BY <1>1 DEF IInv, CallsPart
  <2>9. Gone(stack', script')
    <3> SUFFICES ASSUME NEW k \in 1 .. n + 1, stack'[k].freed # "no", NEW p \in Owners
                 PROVE  stack'[k].trig \notin script[p]
      BY <1>1, <1>11 DEF Gone
    <3>1. k \in 1 .. n
      BY <2>2, <1>11, <1>12
    <3>2. stk[k].freed # "no" /\ stack'[k].trig = stk[k].trig
      BY <3>1, <1>8, <1>11
    <3>3. stack[k].freed # "no" /\ stk[k].trig = stack[k].trig /\ k \in 1 .. Len(stack)
      BY <3>1, <3>2 DEF Outlive, Continues
    <3>4. QED
      BY <3>2, <3>3 DEF IInv, CallsPart, Gone
  <2>10. QED
    BY <2>3, <2>5, <2>6, <2>7, <2>8, <2>9 DEF CallsPart
<1>15. BusyPart'
  <2> SUFFICES ASSUME NEW p \in Owners, NEW u \in script'[p] \ stuck', busy'[u]
               PROVE  wait'[u] # NoWait \/ p \in pending' \/ RunBy(stack', u)
    BY DEF BusyPart
  <2>1. u \in Trigs /\ u \in script[p] \ stuck
    BY <1>1 DEF IInv, ScriptsPart
  <2>2. DOMAIN stack' = 1 .. n + 1
    BY <1>11, LenProperties
  <2>3. CASE u = t
    <3>1. n + 1 \in DOMAIN stack'
      BY <1>7, <2>2
    <3>2. QED
      BY <2>3, <3>1, <1>11, <1>12 DEF RunBy
  <2>4. CASE u # t
    <3>1. wait[u] # NoWait \/ p \in pending \/ RunBy(stack, u)
      BY <2>1, <2>4, <1>3 DEF IInv, BusyPart
    <3>2. ASSUME RunBy(stack, u) PROVE RunBy(stack', u)
      <4>1. PICK k \in DOMAIN stk : stk[k].trig = u /\ stk[k].freed = "no"
        BY <2>1, <3>2 DEF RunBy
      <4>2. k \in 1 .. n /\ k \in DOMAIN stack'
        BY <1>7, <2>2
      <4>3. stack'[k].trig = u /\ stack'[k].freed = "no"
        BY <4>1, <4>2, <1>8, <1>11
      <4>4. QED
        BY <4>2, <4>3 DEF RunBy
    <3>3. QED
      BY <1>0, <2>1, <2>4, <3>1, <3>2
  <2>5. QED
    BY <2>3, <2>4
<1>16. QED
  BY <1>4, <1>5, <1>6, <1>14, <1>15 DEF IInv

\* The calls stk under a trigger that is to be fired: each waits for a command.
Under(stk) ==
  /\ Outlive(stack, stk, {}) /\ Len(stk) = Len(stack)
  /\ \A k \in 1 .. Len(stk) : /\ stk[k].pc \in Within
                              /\ stk[k].freed = "flagged" => purged = TRUE
  /\ \A u \in Trigs : RunBy(stack, u) => RunBy(stk, u)

\* Too deep, the scripts of an owner go, and the calls that have them are marked.
LEMMA TooDeepStep ==
  ASSUME IInv, NEW o \in Owners, NEW stk, Under(stk), EnterTooDeep(o, stk),
         UNCHANGED things, sweep' = sweep, visiting' \in Owners \cup {None}
  PROVE  IInv'
<1> DEFINE T == script[o]
<1>0. UNCHANGED <<alive, pending, world>>
  BY DEF things
<1>1. T \subseteq Trigs /\ Whole(T)
  BY WholeOfOne DEF IInv
<1>2. /\ Extracted(T) /\ wait' = Waits(T) /\ stack' = Marked(stk, T, "deep")
      /\ UNCHANGED <<depth, purged, crashed, leaks>>
  BY DEF EnterTooDeep, Extract
<1> HIDE DEF T
<1>3. script' \in [Owners -> SUBSET Trigs] /\ \A p \in Owners : script'[p] = script[p] \ T
  BY <1>1, <1>2, ExtractedSound DEF IInv
<1>4. ThingsPart' /\ \A p \in Owners : script'[p] # {} => Exists(p)'
  BY <1>0, <1>3 DEF IInv, ThingsPart, ScriptsPart, Exists
<1>5. Rewaits(T, script', world', wait')
  BY <1>0, <1>1, <1>2, <1>3, WaitsEnd DEF IInv
<1>6. stk \in Seq(Frame) /\ Len(stk) = Len(stack) /\ Len(stk) \in Nat
        /\ DOMAIN stk = 1 .. Len(stk)
  BY LenProperties DEF Under, Outlive, Continues
<1>7. /\ stack' \in Seq(Frame) /\ Len(stack') = Len(stk)
      /\ \A k \in 1 .. Len(stk) :
           /\ stack'[k].trig = stk[k].trig /\ stack'[k].owner = stk[k].owner
           /\ stack'[k].pc = stk[k].pc
           /\ stack'[k].freed = IF stk[k].trig \in T THEN "deep" ELSE stk[k].freed
  BY <1>2, <1>6, MarkedProperties DEF Causes
<1>8. \A k \in 1 .. Len(stk) :
        /\ stk[k].trig = stack[k].trig /\ stk[k].owner = stack[k].owner
        /\ k # Len(stack) => stk[k].pc = stack[k].pc
        /\ stk[k].freed = "no" <=> stack[k].freed = "no"
  BY DEF Under, Outlive, Continues
<1>9. Outlive(stack, stack', T)
  <2>1. \A k \in 1 .. Len(stk) :
          /\ stack'[k].trig = stack[k].trig /\ stack'[k].owner = stack[k].owner
          /\ k # Len(stack) => stack'[k].pc = stack[k].pc
    BY <1>7, <1>8
  <2>2. \A k \in 1 .. Len(stk) :
          stack'[k].freed = "no" <=> stack[k].freed = "no" /\ stack'[k].trig \notin T
    BY <1>7, <1>8
  <2>3. stack' \in Seq(Frame) /\ Len(stack') = Len(stk) /\ Len(stack') <= Len(stack)
    BY <1>6, <1>7
  <2>4. Continues(stack, stack')
    BY <2>1, <2>2, <2>3 DEF Continues
  <2>5. QED
    BY <2>2, <2>3, <2>4 DEF Outlive
<1>10. Told(stack', purged')
  <2>1. purged' \in BOOLEAN /\ purged' = purged
    BY <1>2 DEF IInv, CallsPart, Told
  <2>2. \A k \in 1 .. Len(stk) : /\ stk[k].pc \in Within
                                 /\ stk[k].freed = "flagged" => purged = TRUE
    BY DEF Under
  <2>3. \A k \in 1 .. Len(stk) : /\ stack'[k].pc \in Within
                                 /\ stack'[k].freed = "flagged" => purged = TRUE
    BY <1>7, <2>2
  <2>4. QED
    BY <1>6, <1>7, <2>1, <2>3 DEF Told, Within
<1>11. ASSUME NEW u \in Trigs \ T, RunBy(stack, u) PROVE RunBy(stack', u)
  <2>1. PICK k \in DOMAIN stk : stk[k].trig = u /\ stk[k].freed = "no"
    BY <1>11 DEF Under, RunBy
  <2>2. DOMAIN stack' = 1 .. Len(stk)
    BY <1>7, LenProperties
  <2>3. k \in DOMAIN stack' /\ stack'[k].trig = u /\ stack'[k].freed = "no"
    BY <1>6, <1>7, <2>1, <2>2
  <2>4. QED
    BY <2>3 DEF RunBy
<1>12. depth' = Len(stack') + leaks
  BY <1>2, <1>6, <1>7 DEF IInv, CallsPart
<1>13. \A p \in pending : p \in pending' \/ script[p] \subseteq T
  BY <1>0
<1>14. UNCHANGED <<leaks, crashed>>
  BY <1>2
<1>15. QED
  BY <1>1, <1>2, <1>4, <1>5, <1>9, <1>10, <1>11, <1>12, <1>13, <1>14, ExtractStep

\* A trigger that is fired is run, or goes with its script.
LEMMA FireStep ==
  ASSUME IInv, NEW o \in Owners, NEW t \in Trigs, NEW stk, Under(stk), Fire(o, t, stk),
         UNCHANGED things, sweep' = sweep, visiting' \in Owners \cup {None}
  PROVE  IInv'
<1>1. t \in script[o] /\ ~busy[t]
  BY DEF Fire, Ready
<1>2. ASSUME Enter(o, t, stk), UNCHANGED wait PROVE IInv'
  <2>1. \A k \in 1 .. Len(stk) : stk[k].pc \in Within
    BY DEF Under
  <2>2. ASSUME NEW k \in 1 .. Len(stk), stk[k].trig = t PROVE FALSE
    <3>1. k \in 1 .. Len(stack) /\ stack[k].trig = t
      BY <2>2 DEF Under, Outlive, Continues
    <3>2. stack[k].freed = "no" => busy[t] = TRUE
      BY <3>1 DEF IInv, CallsPart, Owned
    <3>3. stack[k].freed # "no" => t \notin script[o]
      BY <3>1 DEF IInv, CallsPart, Gone
    <3>4. QED
      BY <1>1, <3>2, <3>3
  <2>3. wait[t] = NoWait
    BY <1>1 DEF IInv, WaitsPart
  <2>4. wait' \in [Trigs -> [go : Mobs \cup Objs \cup {None}, at : Nat \cup {-1}]]
    BY <1>2 DEF IInv, WaitsPart
  <2>5. /\ Outlive(stack, stk, {}) /\ Len(stk) = Len(stack)
        /\ \A u \in Trigs : RunBy(stack, u) => RunBy(stk, u)
    BY DEF Under
  <2>6. \A k \in 1 .. Len(stk) : stk[k].pc \in Within /\ stk[k].trig # t
    BY <2>1, <2>2
  <2>7. wait'[t] = NoWait /\ \A u \in Trigs \ {t} : wait'[u] = wait[u]
    BY <1>2, <2>3
  <2>8. QED
    BY <1>1, <1>2, <2>4, <2>5, <2>6, <2>7, EnterStep
<1>3. ASSUME EnterTooDeep(o, stk) PROVE IInv'
  BY <1>3, TooDeepStep
<1>4. QED
  BY <1>2, <1>3 DEF Fire

-----------------------------------------------------------------------------
(* Lemmas: the lines of a script.                                          *)

\* A driver returns: its trigger t is not busy any more, or waits, or is stuck, or goes
\* with its owner.
LEMMA ReturnStep ==
  ASSUME IInv, stack # <<>>, stack' = Front(stack), UNCHANGED <<purged, crashed>>,
         UNCHANGED <<things, script, isRandom, types, registry, iteration>>,
         busy' \in [Trigs -> BOOLEAN],
         wait' \in [Trigs -> [go : Mobs \cup Objs \cup {None}, at : Nat \cup {-1}]],
         NEW t, t = Top.trig,
         \A u \in Trigs \ {t} : busy'[u] = busy[u] /\ wait'[u] = wait[u],
         busy'[t] => busy[t],
         wait'[t] # NoWait => busy'[t] /\ LeadsToOwner(wait'[t], t, script, world),
         stuck \subseteq stuck', stuck' \subseteq Trigs,
         leaks' \in 0 .. MaxLeaks, depth' = Len(stack') + leaks', depth' <= depth,
         \A o \in Owners : t \in script[o] /\ busy'[t] =>
           wait'[t] # NoWait \/ t \in stuck' \/ o \in pending
  PROVE  IInv'
<1>0. UNCHANGED <<alive, pending, world>> /\ UNCHANGED <<sweep, next, visiting, due, visited>>
  BY DEF things, iteration
<1> DEFINE n == Len(stack)
<1>1. stack \in Seq(Frame)
  BY DEF IInv, CallsPart, Nested
<1>2. /\ n \in Nat \ {0} /\ stack' \in Seq(Frame) /\ Len(stack') = n - 1
      /\ \A k \in 1 .. n - 1 : stack'[k] = stack[k]
  BY <1>1, FrontProperties
<1>3. t = stack[n].trig /\ t \in Trigs
  BY <1>1, TopProperties DEF Frame
<1>4. ThingsPart'
  BY <1>0 DEF IInv, ThingsPart
<1>5. ScriptsPart'
  BY <1>0 DEF IInv, ScriptsPart, Exists
<1>6. RegistryPart'
  BY <1>0 DEF IInv, RegistryPart, Registered
<1>7. WaitsPart'
  <2>1. ASSUME NEW u \in Trigs, wait'[u] # NoWait
        PROVE  busy'[u] /\ LeadsToOwner(wait'[u], u, script', world')
    <3>1. CASE u = t
      BY <3>1, <2>1, <1>0
    <3>2. CASE u # t
      BY <3>2, <2>1, <1>0 DEF IInv, WaitsPart
    <3>3. QED
      BY <3>1, <3>2
  <2>2. ASSUME NEW u \in Trigs, busy'[u] PROVE \E o \in Owners : u \in script'[o]
    <3>1. busy[u]
      BY <2>2
    <3>2. QED
      BY <3>1 DEF IInv, WaitsPart
  <2>3. QED
    BY <2>1, <2>2 DEF WaitsPart
<1>8. CallsPart'
  <2>1. Nested(stack) /\ Told(stack, purged) /\ Owned(stack, script, busy, wait)
          /\ Gone(stack, script)
    BY DEF IInv, CallsPart
  <2>2. \A k \in 1 .. n - 1 : k \in 1 .. n /\ k # n
    BY <1>2
  <2>3. n \in 1 .. n /\ (n - 1 > 0 => n - 1 \in 1 .. n - 1)
    BY <1>2
  <2>4. Nested(stack')
    <3>1. \A k \in 1 .. n - 1 : stack'[k].pc \in Within
      BY <1>2, <2>1, <2>2 DEF Nested
    <3>2. \A k, j \in 1 .. n - 1 :
            stack'[k].freed = "no" /\ stack'[j].trig = stack'[k].trig => j = k
      <4> SUFFICES ASSUME NEW k \in 1 .. n - 1, NEW j \in 1 .. n - 1,
                          stack'[k].freed = "no", stack'[j].trig = stack'[k].trig
                   PROVE  j = k
        OBVIOUS
      <4>1. stack[k].freed = "no" /\ stack[j].trig = stack[k].trig
        BY <1>2
      <4>2. k \in 1 .. n /\ j \in 1 .. n
        BY <2>2
      <4>3. QED
        BY <2>1, <4>1, <4>2 DEF Nested
    <3>3. QED
      BY <1>2, <3>1, <3>2 DEF Nested
  <2>5. Told(stack', purged')
    <3>1. purged' \in BOOLEAN /\ \A k \in 1 .. n - 1 : stack'[k].freed = "flagged" => purged' = TRUE
      BY <1>2, <2>1, <2>2 DEF Told
    <3>2. n - 1 > 0 => stack'[n - 1].pc \in Within
      <4>1. ASSUME n - 1 > 0 PROVE stack[n - 1].pc \in Within
        BY <2>1, <2>2, <2>3, <4>1 DEF Nested
      <4>2. QED
        BY <1>2, <2>3, <4>1
    <3>3. QED
      BY <1>2, <3>1, <3>2 DEF Told, Within
  <2>6. Owned(stack', script', busy', wait')
    <3> SUFFICES ASSUME NEW k \in 1 .. n - 1, stack'[k].freed = "no"
                 PROVE  /\ stack'[k].trig \in script'[stack'[k].owner]
                        /\ busy'[stack'[k].trig] = TRUE
                        /\ wait'[stack'[k].trig] = NoWait
      BY <1>2 DEF Owned
    <3>1. stack'[k] = stack[k] /\ k \in 1 .. n /\ k # n
      BY <1>2, <2>2
    <3>2. stack[k].trig # t
      BY <1>3, <2>1, <2>3, <3>1 DEF Nested
    <3>3. stack[k] \in Frame
      BY <1>1, <3>1, ElementOfSeq
    <3>4. stack[k].trig \in Trigs
      BY <3>3 DEF Frame
    <3>5. QED
      BY <2>1, <3>1, <3>2, <3>4 DEF Owned
  <2>7. Gone(stack', script')
    BY <1>2, <2>1, <2>2 DEF Gone
  <2>8. depth' <= MaxScriptDepth + 1
    <3>1. /\ depth = Len(stack) + leaks /\ depth <= MaxScriptDepth + 1
          /\ leaks \in 0 .. MaxLeaks
      BY DEF IInv, CallsPart
    <3>2. MaxScriptDepth \in Nat /\ depth \in Int /\ depth' \in Int
      BY <1>2, <3>1, ScriptsAssumption
    <3>3. QED
      BY <3>1, <3>2
  <2>9. crashed' \in (Causes \cup {"moved", "spell"}) \ {"flagged"}
    BY DEF IInv, CallsPart
  <2>10. QED
    BY <2>4, <2>5, <2>6, <2>7, <2>8, <2>9 DEF CallsPart
<1>9. BusyPart'
  <2> SUFFICES ASSUME NEW o \in Owners, NEW u \in script[o] \ stuck', busy'[u]
               PROVE  wait'[u] # NoWait \/ o \in pending \/ RunBy(stack', u)
    BY <1>0 DEF BusyPart
  <2>1. u \in Trigs
    BY DEF IInv, ScriptsPart
  <2>2. CASE u = t
    BY <2>2
  <2>3. CASE u # t
    <3>1. wait[u] # NoWait \/ o \in pending \/ RunBy(stack, u)
      BY <2>1, <2>3 DEF IInv, BusyPart
    <3>2. ASSUME RunBy(stack, u) PROVE RunBy(stack', u)
      <4>1. PICK k \in DOMAIN stack : stack[k].trig = u /\ stack[k].freed = "no"
        BY <3>2 DEF RunBy
      <4>2. DOMAIN stack = 1 .. n /\ DOMAIN stack' = 1 .. n - 1
        BY <1>1, <1>2, LenProperties
      <4>3. k # n
        BY <4>1, <1>3, <2>3
      <4>4. k \in DOMAIN stack'
        BY <1>2, <4>2, <4>3
      <4>5. stack'[k] = stack[k]
        BY <1>2, <4>2, <4>4
      <4>6. QED
        BY <4>1, <4>4, <4>5 DEF RunBy
    <3>3. QED
      BY <2>1, <2>3, <3>1, <3>2
  <2>4. QED
    BY <2>2, <2>3
<1>10. QED
  BY <1>4, <1>5, <1>6, <1>7, <1>8, <1>9 DEF IInv

\* A driver that runs has a frame on top.
LEMMA RunningTop ==
  ASSUME IInv, Running
  PROVE  /\ stack \in Seq(Frame) /\ stack # <<>>
         /\ Top = stack[Len(stack)] /\ Top \in Frame /\ Top.trig \in Trigs
              /\ Top.owner \in Owners
         /\ Len(stack) \in Nat \ {0} /\ Len(stack) \in 1 .. Len(stack)
         /\ Front(stack) \in Seq(Frame) /\ Len(Front(stack)) = Len(stack) - 1
         /\ depth \in Int /\ leaks \in Nat /\ depth = Len(stack) + leaks
         /\ Top.pc = "line" => purged = FALSE /\ Top.freed # "flagged"
         /\ Top.freed = "no" =>
              Top.trig \in script[Top.owner] /\ busy[Top.trig] = TRUE /\ wait[Top.trig] = NoWait
<1>1. stack \in Seq(Frame) /\ stack # <<>>
  BY DEF Running, IInv, CallsPart, Nested
<1>2. Top = stack[Len(stack)] /\ Top \in Frame /\ Len(stack) \in Nat \ {0}
  BY <1>1, TopProperties
<1>3. Top.trig \in Trigs /\ Top.owner \in Owners /\ Len(stack) \in 1 .. Len(stack)
  BY <1>2 DEF Frame
<1>4. Front(stack) \in Seq(Frame) /\ Len(Front(stack)) = Len(stack) - 1
  BY <1>1, FrontProperties
<1>5. depth \in Int /\ leaks \in Nat /\ depth = Len(stack) + leaks
  BY <1>2 DEF IInv, CallsPart
<1>6. Top.pc = "line" => purged = FALSE /\ Top.freed # "flagged"
  BY <1>2, <1>3 DEF IInv, CallsPart, Told
<1>7. Top.freed = "no" =>
        Top.trig \in script[Top.owner] /\ busy[Top.trig] = TRUE /\ wait[Top.trig] = NoWait
  BY <1>2, <1>3 DEF IInv, CallsPart, Owned
<1>8. QED
  BY <1>1, <1>2, <1>3, <1>4, <1>5, <1>6, <1>7

\* The end of a script, an argument of wait that does not parse, and a while without a
\* done keep the invariant.
LEMMA EndStep ==
  ASSUME IInv, End \/ ScriptWaitFails \/ ScriptWhileFails
  PROVE  IInv'
<1>1. Running /\ Top.freed = "no"
  BY DEF End, ScriptWaitFails, ScriptWhileFails, Line, AtLine
<1>2. PICK t : t = Top.trig
  OBVIOUS
<1>3. /\ stack # <<>> /\ t \in Trigs /\ Len(stack) \in Nat /\ Len(Front(stack)) = Len(stack) - 1
      /\ depth \in Int /\ leaks \in Nat /\ depth = Len(stack) + leaks /\ wait[t] = NoWait
           /\ busy[t] = TRUE
  BY <1>1, <1>2, RunningTop
<1>4. /\ busy \in [Trigs -> BOOLEAN] /\ stuck \subseteq Trigs /\ leaks \in 0 .. MaxLeaks
      /\ wait \in [Trigs -> [go : Mobs \cup Objs \cup {None}, at : Nat \cup {-1}]]
      /\ MaxLeaks \in Nat
  BY ScriptsAssumption DEF IInv, WaitsPart, ScriptsPart, CallsPart
<1>5. CASE End
  <2>1. busy' = [busy EXCEPT ![t] = FALSE] /\ stack' = Front(stack) /\ depth' = depth - 1
    BY <1>5, <1>2 DEF End, Return
  <2>2. UNCHANGED <<things, script, isRandom, types, wait, stuck, purged, crashed, leaks,
                    registry, iteration>>
    BY <1>5 DEF End
  <2>3. /\ busy' \in [Trigs -> BOOLEAN] /\ busy'[t] = FALSE
        /\ \A u \in Trigs \ {t} : busy'[u] = busy[u] /\ wait'[u] = wait[u]
    BY <1>3, <1>4, <2>1, <2>2
  <2>4. depth' = Len(stack') + leaks' /\ depth' <= depth
    BY <1>3, <2>1, <2>2
  <2>5. QED
    BY <1>2, <1>3, <1>4, <2>1, <2>2, <2>3, <2>4, ReturnStep
<1>6. CASE ScriptWaitFails
  <2>1. stack' = Front(stack) /\ depth' = depth - 1 /\ stuck' = stuck \cup {t}
    BY <1>6, <1>2 DEF ScriptWaitFails, Return
  <2>2. UNCHANGED <<things, script, isRandom, types, busy, wait, purged, crashed, leaks,
                    registry, iteration>>
    BY <1>6 DEF ScriptWaitFails
  <2>3. depth' = Len(stack') + leaks' /\ depth' <= depth
    BY <1>3, <2>1, <2>2
  <2>4. QED
    BY <1>2, <1>3, <1>4, <2>1, <2>2, <2>3, ReturnStep
<1>7. CASE ScriptWhileFails
  <2>1. stack' = Front(stack) /\ leaks' = leaks + 1 /\ leaks < MaxLeaks
          /\ stuck' = stuck \cup {t}
    BY <1>7, <1>2 DEF ScriptWhileFails
  <2>2. UNCHANGED <<things, script, isRandom, types, busy, wait, depth, purged, crashed,
                    registry, iteration>>
    BY <1>7 DEF ScriptWhileFails
  <2>3. Len(stack') = Len(stack) - 1 /\ leaks' = leaks + 1 /\ depth' = depth
    BY <1>3, <2>1, <2>2
  <2>4. leaks' \in 0 .. MaxLeaks
    BY <1>4, <2>1
  <2>5. depth' = Len(stack') + leaks' /\ depth' <= depth
    BY <1>3, <2>3
  <2>6. QED
    BY <1>2, <1>3, <1>4, <2>1, <2>2, <2>4, <2>5, ReturnStep
<1>8. QED
  BY <1>5, <1>6, <1>7

\* The wait event of an owner in the game leads to it.
LEMMA WaitOfLeads ==
  ASSUME ThingsPart, NEW o \in Owners, Exists(o), NEW t, t \in script[o]
  PROVE  /\ WaitOf(o) \in [go : Mobs \cup Objs \cup {None}, at : Nat \cup {-1}]
         /\ WaitOf(o) # NoWait
         /\ LeadsToOwner(WaitOf(o), t, script, world)
<1>1. DOMAIN world = 1 .. Len(world) /\ Len(world) \in Nat
  BY LenProperties DEF ThingsPart
<1>2. CASE o \in Rooms
  <2>1. o \notin alive
    BY <1>2, ScriptsAssumption DEF ThingsPart
  <2>2. \E i \in DOMAIN world : world[i] = o
    BY <2>1 DEF Exists, ToSet
  <2>3. PICK i \in DOMAIN world : i = (CHOOSE j \in DOMAIN world : world[j] = o) /\ world[i] = o
    BY <2>2
  <2>4. WaitOf(o) = [go |-> None, at |-> i]
    BY <1>2, <2>3 DEF WaitOf
  <2>5. i \in Nat /\ i # -1
    BY <1>1
  <2>6. WaitOf(o) \in [go : Mobs \cup Objs \cup {None}, at : Nat \cup {-1}]
          /\ WaitOf(o) # NoWait
    BY <2>4, <2>5 DEF NoWait
  <2>7. LeadsToOwner(WaitOf(o), t, script, world)
    BY <2>3, <2>4 DEF LeadsToOwner
  <2>8. QED
    BY <2>6, <2>7
<1>3. CASE o \in Mobs \cup Objs
  <2>1. WaitOf(o) = [go |-> o, at |-> 0] /\ o # None
    BY <1>3, ScriptsAssumption DEF WaitOf
  <2>2. QED
    BY <1>3, <2>1 DEF NoWait, LeadsToOwner
<1>4. QED
  BY <1>2, <1>3 DEF Owners

\* process_wait() keeps the invariant.
LEMMA WaitStep ==
  ASSUME IInv, ScriptWait
  PROVE  IInv'
<1>1. Running /\ Top.freed = "no"
  BY DEF ScriptWait, Line, AtLine
<1>2. PICK t, o : t = Top.trig /\ o = Top.owner
  OBVIOUS
<1>3. /\ stack # <<>> /\ t \in Trigs /\ Len(stack) \in Nat /\ Len(Front(stack)) = Len(stack) - 1
      /\ depth \in Int /\ leaks \in Nat /\ depth = Len(stack) + leaks /\ busy[t] = TRUE
      /\ o \in Owners /\ t \in script[o]
  BY <1>1, <1>2, RunningTop
<1>4. /\ busy \in [Trigs -> BOOLEAN] /\ stuck \subseteq Trigs /\ leaks \in 0 .. MaxLeaks
      /\ wait \in [Trigs -> [go : Mobs \cup Objs \cup {None}, at : Nat \cup {-1}]]
  BY DEF IInv, WaitsPart, ScriptsPart, CallsPart
<1>5. PICK e : e = WaitOf(o)
  OBVIOUS
<1>6. /\ e \in [go : Mobs \cup Objs \cup {None}, at : Nat \cup {-1}]
      /\ e # NoWait /\ LeadsToOwner(e, t, script, world)
  <2>1. Exists(o) /\ ThingsPart
    BY <1>3 DEF IInv, ScriptsPart
  <2>2. QED
    BY <1>3, <1>5, <2>1, WaitOfLeads
<1>7. /\ wait' = [wait EXCEPT ![t] = e] /\ stack' = Front(stack) /\ depth' = depth - 1
      /\ UNCHANGED <<things, script, isRandom, types, busy, stuck, purged, crashed, leaks,
                     registry, iteration>>
  BY <1>2, <1>5 DEF ScriptWait, Return
<1>8. /\ wait' \in [Trigs -> [go : Mobs \cup Objs \cup {None}, at : Nat \cup {-1}]]
      /\ wait'[t] = e /\ \A u \in Trigs \ {t} : busy'[u] = busy[u] /\ wait'[u] = wait[u]
  BY <1>3, <1>4, <1>6, <1>7
<1>9. depth' = Len(stack') + leaks' /\ depth' <= depth
  BY <1>3, <1>7
<1>10. QED
  BY <1>2, <1>3, <1>4, <1>6, <1>7, <1>8, <1>9, ReturnStep

\* The step f of the driver on top, whose calls below stay as they are.
LEMMA TopChanges ==
  ASSUME IInv, Running, NEW f \in Frame,
         f.trig = Top.trig, f.owner = Top.owner, f.freed = Top.freed
  PROVE  /\ TopWith(f) \in Seq(Frame) /\ Len(TopWith(f)) = Len(stack)
         /\ \A k \in 1 .. Len(stack) :
              /\ TopWith(f)[k].trig = stack[k].trig /\ TopWith(f)[k].owner = stack[k].owner
              /\ TopWith(f)[k].freed = stack[k].freed
              /\ TopWith(f)[k].pc = IF k = Len(stack) THEN f.pc ELSE stack[k].pc
         /\ Outlive(stack, TopWith(f), {})
         /\ \A u \in Trigs : RunBy(stack, u) => RunBy(TopWith(f), u)
<1> DEFINE n == Len(stack)
           s == TopWith(f)
<1>1. stack \in Seq(Frame) /\ stack # <<>> /\ Top = stack[n] /\ n \in Nat \ {0}
  BY RunningTop
<1>2. s \in Seq(Frame) /\ Len(s) = n /\ \A k \in 1 .. n : s[k] = IF k = n THEN f ELSE stack[k]
  BY <1>1, TopWithProperties
<1>3. \A k \in 1 .. n : k # n => stack[k].pc \in Within
  BY DEF IInv, CallsPart, Nested
<1> HIDE DEF s
<1>4. \A k \in 1 .. n :
        /\ s[k].trig = stack[k].trig /\ s[k].owner = stack[k].owner
        /\ s[k].freed = stack[k].freed
        /\ s[k].pc = IF k = n THEN f.pc ELSE stack[k].pc
  BY <1>1, <1>2, <1>3
<1>5. Outlive(stack, s, {})
  BY <1>1, <1>2, <1>3, <1>4 DEF Outlive, Continues
<1>6. \A u \in Trigs : RunBy(stack, u) => RunBy(s, u)
  <2>1. DOMAIN stack = 1 .. n /\ DOMAIN s = 1 .. n
    BY <1>1, <1>2, LenProperties
  <2>2. QED
    BY <1>4, <2>1 DEF RunBy
<1>7. QED
  BY <1>2, <1>4, <1>5, <1>6 DEF s

\* The calls change, and nothing else but who crashed.
LEMMA CallsStep ==
  ASSUME IInv, UNCHANGED <<things, triggers, registry, iteration>>, CallsPart',
         \A u \in Trigs : RunBy(stack, u) => RunBy(stack', u)
  PROVE  IInv'
<1>1. /\ UNCHANGED <<alive, pending, world>>
      /\ UNCHANGED <<script, isRandom, types, busy, wait, stuck>>
      /\ UNCHANGED <<sweep, next, visiting, due, visited>>
  BY DEF things, triggers, iteration
<1>2. ThingsPart' /\ ScriptsPart' /\ WaitsPart'
  BY <1>1 DEF IInv, ThingsPart, ScriptsPart, WaitsPart, Exists
<1>3. RegistryPart'
  BY <1>1 DEF IInv, RegistryPart, Registered
<1>4. BusyPart'
  BY <1>1 DEF IInv, BusyPart, ScriptsPart
<1>5. QED
  BY <1>2, <1>3, <1>4 DEF IInv

\* Following a freed pointer is no case the flag was set for.
LEMMA UseFreedStep ==
  ASSUME IInv, UseFreed
  PROVE  IInv'
<1>1. Running /\ Top.pc = "line" /\ crashed' = Top.freed
  BY DEF UseFreed
<1>2. UNCHANGED <<things, triggers, stack, depth, purged, leaks, registry, iteration>>
  BY DEF UseFreed
<1>3. UNCHANGED <<script, busy, wait>>
  BY <1>2 DEF triggers
<1>4. Top.freed \in Causes /\ Top.freed # "flagged"
  BY <1>1, RunningTop DEF Frame
<1>5. CallsPart'
  BY <1>1, <1>2, <1>3, <1>4 DEF IInv, CallsPart
<1>6. \A u \in Trigs : RunBy(stack, u) => RunBy(stack', u)
  BY <1>2
<1>7. QED
  BY <1>2, <1>5, <1>6, CallsStep

\* The driver on top goes to its next line.
LEMMA ToLineStep ==
  ASSUME IInv, Running, purged = FALSE, stack' = TopWith([Top EXCEPT !.pc = "line"]),
         UNCHANGED <<things, triggers, depth, purged, crashed, leaks, registry, iteration>>
  PROVE  IInv'
<1>1. PICK f : f = [Top EXCEPT !.pc = "line"]
  OBVIOUS
<1>2. f \in Frame /\ f.trig = Top.trig /\ f.owner = Top.owner /\ f.freed = Top.freed
  BY <1>1, RunningTop DEF Frame, Points
<1>3. /\ stack' \in Seq(Frame) /\ Len(stack') = Len(stack)
      /\ \A k \in 1 .. Len(stack) :
           /\ stack'[k].trig = stack[k].trig /\ stack'[k].owner = stack[k].owner
           /\ stack'[k].freed = stack[k].freed
      /\ Outlive(stack, stack', {})
      /\ \A u \in Trigs : RunBy(stack, u) => RunBy(stack', u)
  BY <1>1, <1>2, TopChanges
<1>4. UNCHANGED <<script, busy, wait>>
  BY DEF triggers
<1>5. Nested(stack')
  BY <1>3, ContinuesNested DEF IInv, CallsPart, Outlive
<1>6. Told(stack', purged')
  BY <1>3 DEF IInv, CallsPart, Told
<1>7. Owned(stack', script', busy', wait') /\ Gone(stack', script')
  <2>1. Owned(stack', script', busy', wait')
    BY <1>3, <1>4 DEF IInv, CallsPart, Owned
  <2>2. Gone(stack', script')
    BY <1>3, <1>4 DEF IInv, CallsPart, Gone
  <2>3. QED
    BY <2>1, <2>2
<1>8. CallsPart'
  BY <1>3, <1>5, <1>6, <1>7 DEF IInv, CallsPart
<1>9. QED
  BY <1>3, <1>8, CallsStep

\* The end of a command: the driver goes on, or returns when its owner is gone.
LEMMA DoneStep ==
  ASSUME IInv, CommandDone
  PROVE  IInv'
<1>1. Running
  BY DEF CommandDone
<1>2. PICK t, o : t = Top.trig /\ o = Top.owner
  OBVIOUS
<1>3. /\ stack \in Seq(Frame) /\ stack # <<>> /\ t \in Trigs /\ Len(stack) \in Nat \ {0}
      /\ Top \in Frame /\ Top = stack[Len(stack)] /\ Len(stack) \in 1 .. Len(stack)
      /\ Len(Front(stack)) = Len(stack) - 1
      /\ depth \in Int /\ leaks \in Nat /\ depth = Len(stack) + leaks
  BY <1>1, <1>2, RunningTop
<1>4. /\ busy \in [Trigs -> BOOLEAN] /\ stuck \subseteq Trigs /\ leaks \in 0 .. MaxLeaks
      /\ wait \in [Trigs -> [go : Mobs \cup Objs \cup {None}, at : Nat \cup {-1}]]
  BY DEF IInv, WaitsPart, ScriptsPart, CallsPart
<1>5. /\ UNCHANGED <<things, script, isRandom, types, busy, wait, purged, crashed, leaks,
                     registry, iteration>>
      /\ stuck' = IF purged /\ Top.freed = "no" /\ o \notin pending
                  THEN stuck \cup {t} ELSE stuck
  BY <1>2 DEF CommandDone
<1>6. CASE purged = TRUE
  <2>1. stack' = Front(stack) /\ depth' = depth - 1
    BY <1>6 DEF CommandDone, Return
  <2>2. stuck \subseteq stuck' /\ stuck' \subseteq Trigs
    BY <1>3, <1>4, <1>5
  <2>3. ASSUME NEW p \in Owners, t \in script[p] PROVE t \in stuck' \/ p \in pending
    <3>1. Top.freed = "no"
      BY <1>2, <1>3, <2>3 DEF IInv, CallsPart, Gone
    <3>2. t \in script[o] /\ o \in Owners
      BY <1>1, <1>2, <3>1, RunningTop
    <3>3. p = o
      BY <2>3, <3>2 DEF IInv, ScriptsPart
    <3>4. QED
      BY <1>5, <1>6, <3>1, <3>3
  <2>4. depth' = Len(stack') + leaks' /\ depth' <= depth
    BY <1>3, <1>5, <2>1
  <2>5. wait[t] # NoWait => busy[t] /\ LeadsToOwner(wait[t], t, script, world)
    BY <1>3 DEF IInv, WaitsPart
  <2>6. QED
    BY <1>2, <1>3, <1>4, <1>5, <2>1, <2>2, <2>3, <2>4, <2>5, ReturnStep
<1>7. CASE purged = FALSE
  <2>1. stack' = TopWith([Top EXCEPT !.pc = "line"]) /\ depth' = depth /\ stuck' = stuck
    BY <1>5, <1>7 DEF CommandDone
  <2>2. QED
    BY <1>1, <1>5, <1>7, <2>1, ToLineStep DEF triggers
<1>8. purged \in BOOLEAN
  BY DEF IInv, CallsPart, Told
<1>9. QED
  BY <1>6, <1>7, <1>8

\* The end of a spell: what it follows may be freed, but then the driver did not look.
LEMMA SpellDoneStep ==
  ASSUME IInv, SpellDone
  PROVE  IInv'
<1>1. Running
  BY DEF SpellDone
<1>2. UNCHANGED <<things, script, isRandom, types, wait, stuck, purged, leaks, registry, iteration>>
  BY DEF SpellDone
<1>3. CASE Top.freed # "no"
  <2>1. /\ crashed' = IF Top.freed = "flagged" THEN "spell" ELSE Top.freed
        /\ UNCHANGED <<busy, stack, depth>>
    BY <1>3 DEF SpellDone
  <2>2. Top.freed \in Causes
    BY <1>1, RunningTop DEF Frame
  <2>3. CallsPart'
    BY <1>2, <2>1, <2>2 DEF IInv, CallsPart
  <2>4. UNCHANGED triggers
    BY <1>2, <2>1 DEF triggers
  <2>5. \A u \in Trigs : RunBy(stack, u) => RunBy(stack', u)
    BY <2>1
  <2>6. QED
    BY <1>2, <2>3, <2>4, <2>5, CallsStep
<1>4. CASE Top.freed = "no" /\ purged = TRUE
  <2>1. PICK t : t = Top.trig
    OBVIOUS
  <2>2. /\ stack # <<>> /\ t \in Trigs /\ Len(stack) \in Nat /\ Len(Front(stack)) = Len(stack) - 1
        /\ depth \in Int /\ leaks \in Nat /\ depth = Len(stack) + leaks /\ wait[t] = NoWait
        /\ busy[t] = TRUE
    BY <1>1, <1>4, <2>1, RunningTop
  <2>3. /\ busy \in [Trigs -> BOOLEAN] /\ stuck \subseteq Trigs /\ leaks \in 0 .. MaxLeaks
        /\ wait \in [Trigs -> [go : Mobs \cup Objs \cup {None}, at : Nat \cup {-1}]]
    BY DEF IInv, WaitsPart, ScriptsPart, CallsPart
  <2>4. /\ busy' = [busy EXCEPT ![t] = FALSE] /\ stack' = Front(stack) /\ depth' = depth - 1
        /\ crashed' = crashed
    BY <1>4, <2>1 DEF SpellDone, Return
  <2>5. /\ busy' \in [Trigs -> BOOLEAN] /\ busy'[t] = FALSE
        /\ \A u \in Trigs \ {t} : busy'[u] = busy[u] /\ wait'[u] = wait[u]
    BY <1>2, <2>2, <2>3, <2>4
  <2>6. depth' = Len(stack') + leaks' /\ depth' <= depth
    BY <1>2, <2>2, <2>4
  <2>7. QED
    BY <1>2, <2>1, <2>2, <2>3, <2>4, <2>5, <2>6, ReturnStep
<1>5. CASE Top.freed = "no" /\ purged = FALSE
  <2>1. /\ stack' = TopWith([Top EXCEPT !.pc = "line"])
        /\ UNCHANGED <<busy, depth, crashed>>
    BY <1>5 DEF SpellDone
  <2>2. UNCHANGED triggers
    BY <1>2, <2>1 DEF triggers
  <2>3. QED
    BY <1>1, <1>2, <1>5, <2>1, <2>2, ToLineStep
<1>6. purged \in BOOLEAN
  BY DEF IInv, CallsPart, Told
<1>7. QED
  BY <1>3, <1>4, <1>5, <1>6

\* A line that attaches a trigger keeps the invariant.
LEMMA ScriptAttachStep ==
  ASSUME IInv, NEW o \in Owners, NEW t \in Trigs, ScriptAttach(o, t)
  PROVE  IInv'
<1>1. Running /\ Top.pc = "line" /\ Top.left > 0 /\ Exists(o) /\ Attach(o, t)
  BY DEF ScriptAttach, Line, AtLine
<1>2. UNCHANGED <<things, depth, purged, crashed, leaks, sweep, visiting>>
  BY DEF ScriptAttach
<1>3. PICK f : f = [Top EXCEPT !.left = @ - 1]
  OBVIOUS
<1>4. stack' = TopWith(f)
  BY <1>3 DEF ScriptAttach, NextLine
<1>5. Top \in Frame /\ purged = FALSE /\ Len(stack) \in Nat \ {0}
        /\ Top.left - 1 \in 0 .. MaxLines
  <2>1. Top \in Frame /\ purged = FALSE /\ Len(stack) \in Nat \ {0}
    BY <1>1, RunningTop
  <2>2. Top.left \in 0 .. MaxLines /\ MaxLines \in Nat
    BY <2>1, ScriptsAssumption DEF Frame
  <2>3. QED
    BY <1>1, <2>1, <2>2
<1>6. f \in Frame /\ f.trig = Top.trig /\ f.owner = Top.owner /\ f.freed = Top.freed
  BY <1>3, <1>5 DEF Frame
<1>7. /\ stack' \in Seq(Frame) /\ Len(stack') = Len(stack)
      /\ \A k \in 1 .. Len(stack) : stack'[k].freed = stack[k].freed
      /\ Outlive(stack, stack', {})
      /\ \A u \in Trigs : RunBy(stack, u) => RunBy(stack', u)
  BY <1>1, <1>4, <1>6, TopChanges
<1>8. Told(stack', purged)
  BY <1>5, <1>7 DEF IInv, CallsPart, Told
<1>9. QED
  BY <1>1, <1>2, <1>7, <1>8, AttachStep

\* A command that fires a trigger keeps the invariant.
LEMMA CommandStep ==
  ASSUME IInv, NEW o \in Owners, NEW t \in Trigs, NEW kind \in Within,
         ScriptCommand(o, t, kind)
  PROVE  IInv'
<1>1. Running /\ Top.left > 0 /\ UNCHANGED <<things, sweep, visiting>>
  BY DEF ScriptCommand
<1>2. PICK f : f = [Top EXCEPT !.left = @ - 1, !.pc = kind]
  OBVIOUS
<1>3. PICK stk : stk = TopWith(f)
  OBVIOUS
<1>4. Fire(o, t, stk)
  BY <1>2, <1>3 DEF ScriptCommand
<1>5. Top \in Frame /\ Len(stack) \in Nat \ {0} /\ Top.left - 1 \in 0 .. MaxLines
  <2>1. Top \in Frame /\ Len(stack) \in Nat \ {0}
    BY <1>1, RunningTop
  <2>2. Top.left \in 0 .. MaxLines /\ MaxLines \in Nat
    BY <2>1, ScriptsAssumption DEF Frame
  <2>3. QED
    BY <1>1, <2>1, <2>2
<1>6. /\ f \in Frame /\ f.trig = Top.trig /\ f.owner = Top.owner /\ f.freed = Top.freed
      /\ f.pc \in Within
  BY <1>2, <1>5 DEF Frame, Points, Within
<1>7. /\ Len(stk) = Len(stack)
      /\ \A k \in 1 .. Len(stack) : stk[k].pc \in Within /\ stk[k].freed = stack[k].freed
      /\ Outlive(stack, stk, {})
      /\ \A u \in Trigs : RunBy(stack, u) => RunBy(stk, u)
  <2>1. \A k \in 1 .. Len(stack) : k # Len(stack) => stack[k].pc \in Within
    BY DEF IInv, CallsPart, Nested
  <2>2. QED
    BY <1>1, <1>3, <1>6, <2>1, TopChanges
<1>8. Under(stk)
  BY <1>7 DEF Under, IInv, CallsPart, Told
<1>9. visiting' \in Owners \cup {None}
  BY <1>1 DEF IInv, RegistryPart
<1>10. QED
  BY <1>1, <1>4, <1>8, <1>9, FireStep

\* The calls whose triggers T are freed by the driver on top are marked.
LEMMA TopMarked ==
  ASSUME IInv, Running, NEW f \in Frame,
         f.trig = Top.trig, f.owner = Top.owner, f.freed = Top.freed,
         NEW T, NEW cause \in Causes \ {"no"}
  PROVE  LET m == Marked(TopWith(f), T, cause) IN
         /\ m \in Seq(Frame) /\ Len(m) = Len(stack)
         /\ \A k \in 1 .. Len(stack) :
              /\ m[k].trig = stack[k].trig /\ m[k].owner = stack[k].owner
              /\ m[k].pc = IF k = Len(stack) THEN f.pc ELSE stack[k].pc
              /\ m[k].freed = IF stack[k].trig \in T THEN cause ELSE stack[k].freed
         /\ Outlive(stack, m, T)
         /\ \A u \in Trigs \ T : RunBy(stack, u) => RunBy(m, u)
<1> DEFINE s == TopWith(f)
           m == Marked(s, T, cause)
           n == Len(stack)
<1>1. /\ s \in Seq(Frame) /\ Len(s) = n
      /\ \A k \in 1 .. n :
           /\ s[k].trig = stack[k].trig /\ s[k].owner = stack[k].owner
           /\ s[k].freed = stack[k].freed
           /\ s[k].pc = IF k = n THEN f.pc ELSE stack[k].pc
  BY TopChanges
<1> HIDE DEF s
<1>2. /\ m \in Seq(Frame) /\ Len(m) = Len(s)
      /\ \A k \in 1 .. Len(s) :
           /\ m[k].trig = s[k].trig /\ m[k].owner = s[k].owner /\ m[k].pc = s[k].pc
           /\ m[k].freed = IF s[k].trig \in T THEN cause ELSE s[k].freed
  BY <1>1, MarkedProperties
<1> HIDE DEF m
<1>3. \A k \in 1 .. n :
        /\ m[k].trig = stack[k].trig /\ m[k].owner = stack[k].owner
        /\ m[k].pc = IF k = n THEN f.pc ELSE stack[k].pc
        /\ m[k].freed = IF stack[k].trig \in T THEN cause ELSE stack[k].freed
  BY <1>1, <1>2
<1>4. \A k \in 1 .. n : k # n => stack[k].pc \in Within
  BY DEF IInv, CallsPart, Nested
<1>5. \A k \in 1 .. n : m[k].freed = "no" <=> stack[k].freed = "no" /\ m[k].trig \notin T
  BY <1>3
<1>6. n \in Nat /\ Len(m) = n /\ Len(m) <= n
  BY <1>1, <1>2, RunningTop
<1>7. Continues(stack, m)
  BY <1>2, <1>3, <1>4, <1>5, <1>6 DEF Continues
<1>8. Outlive(stack, m, T)
  BY <1>5, <1>6, <1>7 DEF Outlive
<1>9. ASSUME NEW u \in Trigs \ T, RunBy(stack, u) PROVE RunBy(m, u)
  <2>1. DOMAIN stack = 1 .. n /\ DOMAIN m = 1 .. n
    BY <1>2, <1>6, RunningTop, LenProperties
  <2>2. PICK k \in 1 .. n : stack[k].trig = u /\ stack[k].freed = "no"
    BY <1>9, <2>1 DEF RunBy
  <2>3. m[k].trig = u /\ m[k].freed = "no"
    BY <1>3, <2>2
  <2>4. QED
    BY <2>1, <2>2, <2>3 DEF RunBy
<1>10. QED
  BY <1>2, <1>3, <1>6, <1>8, <1>9 DEF m, s

\* A script that detaches triggers, those of its own script too, keeps the invariant.
LEMMA DetachStep ==
  ASSUME IInv, NEW o \in Owners, NEW T, T \subseteq script[o], ScriptDetach(o, T)
  PROVE  IInv'
<1>1. Running /\ Top.pc = "line" /\ Top.freed = "no" /\ Top.left > 0 /\ Extracted(T)
        /\ wait' = Waits(T)
  BY DEF ScriptDetach, Line, AtLine, Extract
<1>2. UNCHANGED <<things, crashed, leaks, sweep, visiting>> /\ purged' = LosesAll(o, T)
  BY DEF ScriptDetach
<1>3. T \subseteq Trigs /\ Whole(T)
  BY WholeOfOne DEF IInv
<1>4. script' \in [Owners -> SUBSET Trigs] /\ \A p \in Owners : script'[p] = script[p] \ T
  <2>1. visiting' \in Owners \cup {None}
    BY <1>2 DEF IInv, RegistryPart
  <2>2. QED
    BY <1>1, <1>2, <1>3, <2>1, ExtractedSound DEF IInv
<1>5. UNCHANGED <<alive, pending, world>>
  BY <1>2 DEF things
<1>6. ThingsPart' /\ \A p \in Owners : script'[p] # {} => Exists(p)'
  BY <1>4, <1>5 DEF IInv, ThingsPart, ScriptsPart, Exists
<1>7. Rewaits(T, script', world', wait')
  BY <1>1, <1>3, <1>4, <1>5, WaitsEnd DEF IInv
<1>8. PICK f : f = [Top EXCEPT !.left = @ - 1]
  OBVIOUS
<1>9. PICK cause : cause = IF purged' THEN "flagged" ELSE "detach"
  OBVIOUS
<1>10. PICK m : m = Marked(TopWith(f), T, cause)
  OBVIOUS
<1>11. IF purged' THEN stack' = Front(m) /\ depth' = depth - 1 ELSE stack' = m /\ depth' = depth
  BY <1>8, <1>9, <1>10 DEF ScriptDetach, NextLine, Return
<1>12. /\ Top \in Frame /\ purged = FALSE /\ Len(stack) \in Nat \ {0}
       /\ Top = stack[Len(stack)] /\ Top.trig \in script[Top.owner]
       /\ depth \in Int /\ leaks \in Nat /\ depth = Len(stack) + leaks
  BY <1>1, RunningTop
<1>13. f \in Frame /\ f.trig = Top.trig /\ f.owner = Top.owner /\ f.freed = Top.freed
         /\ f.pc = Top.pc
  <2>1. Top.left \in 0 .. MaxLines /\ MaxLines \in Nat
    BY <1>12, ScriptsAssumption DEF Frame
  <2>2. Top.left - 1 \in 0 .. MaxLines
    BY <1>1, <2>1
  <2>3. QED
    BY <1>8, <1>12, <2>2 DEF Frame
<1>14. cause \in Causes \ {"no"}
  BY <1>9 DEF Causes
<1>15. /\ m \in Seq(Frame) /\ Len(m) = Len(stack)
       /\ \A k \in 1 .. Len(stack) :
            /\ m[k].trig = stack[k].trig
            /\ m[k].pc = IF k = Len(stack) THEN f.pc ELSE stack[k].pc
            /\ m[k].freed = IF stack[k].trig \in T THEN cause ELSE stack[k].freed
       /\ Outlive(stack, m, T)
       /\ \A u \in Trigs \ T : RunBy(stack, u) => RunBy(m, u)
  BY <1>1, <1>10, <1>13, <1>14, TopMarked
<1>16. \A k \in 1 .. Len(stack) : stack[k].freed # "flagged"
  BY <1>12 DEF IInv, CallsPart, Told
<1>17. \A p \in pending : p \in pending' \/ script[p] \subseteq T
  BY <1>5
<1>18. UNCHANGED <<leaks, crashed>> /\ sweep' = sweep /\ visiting' \in Owners \cup {None}
  BY <1>2 DEF IInv, RegistryPart
<1>19. CASE purged' = FALSE
  <2>1. stack' = m /\ depth' = depth /\ cause = "detach"
    BY <1>9, <1>11, <1>19
  <2>2. Told(stack', purged')
    BY <1>15, <1>16, <1>19, <2>1 DEF Told
  <2>3. depth' = Len(stack') + leaks
    BY <1>12, <1>15, <2>1
  <2>4. QED
    BY <1>1, <1>3, <1>6, <1>7, <1>15, <1>17, <1>18, <2>1, <2>2, <2>3, ExtractStep
<1>20. CASE purged' = TRUE
  <2> DEFINE n == Len(stack)
  <2>1. stack' = Front(m) /\ depth' = depth - 1 /\ T = script[Top.owner]
    BY <1>2, <1>11, <1>20 DEF LosesAll
  <2>2. m # <<>>
    BY <1>12, <1>15, EmptySeq
  <2>3. /\ stack' \in Seq(Frame) /\ Len(stack') = n - 1
        /\ \A k \in 1 .. n - 1 : stack'[k] = m[k]
    BY <1>15, <2>1, <2>2, FrontProperties
  <2>4. \A k \in 1 .. n - 1 : k \in 1 .. n /\ k # n
    BY <1>12
  <2>5. Outlive(stack, stack', T)
    <3>1. n - 1 <= n
      BY <1>12
    <3>2. \A k \in 1 .. n - 1 : stack'[k] = m[k] /\ k \in 1 .. Len(m)
      BY <1>15, <2>3, <2>4
    <3>3. Continues(stack, stack')
      BY <1>15, <2>3, <3>1, <3>2 DEF Outlive, Continues
    <3>4. QED
      BY <1>15, <2>3, <3>2, <3>3 DEF Outlive
  <2>6. Told(stack', purged')
    <3>1. n - 1 > 0 => n - 1 \in 1 .. n - 1
      BY <1>12
    <3>2. n - 1 > 0 => stack'[n - 1].pc \in Within
      <4>1. \A k \in 1 .. n : k # n => stack[k].pc \in Within
        BY DEF IInv, CallsPart, Nested
      <4>2. QED
        BY <1>15, <2>3, <2>4, <3>1, <4>1
    <3>3. QED
      BY <1>20, <2>3, <3>2 DEF Told, Within
  <2>7. ASSUME NEW u \in Trigs \ T, RunBy(stack, u) PROVE RunBy(stack', u)
    <3>1. DOMAIN m = 1 .. n /\ DOMAIN stack' = 1 .. n - 1
      BY <1>15, <2>3, LenProperties
    <3>2. PICK k \in 1 .. n : m[k].trig = u /\ m[k].freed = "no"
      <4>1. RunBy(m, u)
        BY <1>15, <2>7
      <4>2. QED
        BY <3>1, <4>1 DEF RunBy
    <3>3. k # n
      BY <1>12, <1>15, <2>1, <3>2
    <3>4. k \in 1 .. n - 1
      BY <1>12, <3>3
    <3>5. QED
      BY <2>3, <3>1, <3>2, <3>4 DEF RunBy
  <2>8. depth' = Len(stack') + leaks
    BY <1>12, <2>1, <2>3
  <2>9. QED
    BY <1>1, <1>3, <1>6, <1>7, <1>17, <1>18, <2>5, <2>6, <2>7, <2>8, ExtractStep
<1>21. QED
  BY <1>2, <1>19, <1>20 DEF LosesAll

\* A script that purges keeps the invariant.
LEMMA PurgeStep ==
  ASSUME IInv, NEW V, V \subseteq alive, ScriptPurge(V)
  PROVE  IInv'
<1> DEFINE T == UNION {script[v] : v \in V \cap Objs}
<1>1. /\ Running /\ Top.pc = "line" /\ Top.left > 0 /\ Extracted(T) /\ wait' = Waits(T)
      /\ pending' = pending \cup (V \cap Mobs) /\ alive' = alive \ (V \cap Objs)
      /\ purged' = (Top.owner \in V)
      /\ UNCHANGED <<world, depth, crashed, leaks, sweep, visiting>>
  BY DEF ScriptPurge, Line, AtLine, Extract
<1>2. PICK f : f = [Top EXCEPT !.left = @ - 1, !.pc = "purge"]
  OBVIOUS
<1>3. PICK cause : cause = IF purged' THEN "flagged" ELSE "purge"
  OBVIOUS
<1>4. stack' = Marked(TopWith(f), T, cause)
  BY <1>2, <1>3 DEF ScriptPurge
<1>5. /\ T \subseteq Trigs /\ Whole(T)
      /\ \A o \in Owners :
           IF o \in V \cap Objs THEN script[o] \subseteq T ELSE script[o] \cap T = {}
  <2>1. V \cap Objs \subseteq Owners
    BY DEF Owners
  <2>2. QED
    BY <2>1, WholeOfMany DEF IInv
<1> HIDE DEF T
<1>6. visiting' \in Owners \cup {None} /\ sweep' = sweep /\ world' = world
  BY <1>1 DEF IInv, RegistryPart
<1>7. script' \in [Owners -> SUBSET Trigs] /\ \A p \in Owners : script'[p] = script[p] \ T
  BY <1>1, <1>5, <1>6, ExtractedSound DEF IInv
<1>8. ThingsPart'
  BY <1>1, ScriptsAssumption DEF IInv, ThingsPart
<1>9. ASSUME NEW p \in Owners, script'[p] # {} PROVE Exists(p)'
  <2>1. script[p] # {} /\ p \notin V \cap Objs
    BY <1>5, <1>7, <1>9
  <2>2. Exists(p)
    BY <2>1 DEF IInv, ScriptsPart
  <2>3. QED
    BY <1>1, <2>1, <2>2 DEF Exists
<1>10. Rewaits(T, script', world', wait')
  BY <1>1, <1>5, <1>7, WaitsEnd DEF IInv
<1>11. /\ Top \in Frame /\ purged = FALSE /\ Len(stack) \in Nat \ {0}
       /\ Len(stack) \in 1 .. Len(stack) /\ depth = Len(stack) + leaks
  BY <1>1, RunningTop
<1>12. /\ f \in Frame /\ f.trig = Top.trig /\ f.owner = Top.owner /\ f.freed = Top.freed
       /\ f.pc = "purge"
  <2>1. Top.left \in 0 .. MaxLines /\ MaxLines \in Nat
    BY <1>11, ScriptsAssumption DEF Frame
  <2>2. Top.left - 1 \in 0 .. MaxLines
    BY <1>1, <2>1
  <2>3. QED
    BY <1>2, <1>11, <2>2 DEF Frame, Points
<1>13. cause \in Causes \ {"no"}
  BY <1>3 DEF Causes
<1>14. /\ Len(stack') = Len(stack)
       /\ \A k \in 1 .. Len(stack) :
            /\ stack'[k].pc = IF k = Len(stack) THEN f.pc ELSE stack[k].pc
            /\ stack'[k].freed = IF stack[k].trig \in T THEN cause ELSE stack[k].freed
       /\ Outlive(stack, stack', T)
       /\ \A u \in Trigs \ T : RunBy(stack, u) => RunBy(stack', u)
  BY <1>1, <1>4, <1>12, <1>13, TopMarked
<1>15. Told(stack', purged')
  <2>1. \A k \in 1 .. Len(stack) : stack[k].freed # "flagged"
    BY <1>11 DEF IInv, CallsPart, Told
  <2>2. purged' \in BOOLEAN
    BY <1>1
  <2>3. \A k \in 1 .. Len(stack) : stack'[k].freed = "flagged" => purged' = TRUE
    BY <1>3, <1>14, <2>1, <2>2
  <2>4. stack'[Len(stack)].pc = "purge"
    BY <1>11, <1>12, <1>14
  <2>5. QED
    BY <1>14, <2>2, <2>3, <2>4 DEF Told
<1>16. depth' = Len(stack') + leaks /\ UNCHANGED <<leaks, crashed>>
  BY <1>1, <1>11, <1>14
<1>17. \A p \in pending : p \in pending' \/ script[p] \subseteq T
  BY <1>1
<1>18. QED
  BY <1>1, <1>5, <1>6, <1>8, <1>9, <1>10, <1>14, <1>15, <1>16, <1>17, ExtractStep

-----------------------------------------------------------------------------
(* Lemmas: what the game does between scripts.                             *)

\* Between scripts the stack is empty.
LEMMA EmptyStack ==
  ASSUME IInv, stack = <<>>
  PROVE  /\ stack \in Seq(Frame) /\ Len(stack) = 0 /\ \A k \in 1 .. Len(stack) : FALSE
         /\ \A T : Outlive(stack, stack, T)
         /\ Told(stack, purged) /\ Under(stack)
         /\ depth = Len(stack) + leaks
         /\ \A u : ~RunBy(stack, u)
<1>1. stack \in Seq(Frame) /\ Len(stack) = 0
  BY EmptySeq
<1>2. \A k \in 1 .. Len(stack) : FALSE
  BY <1>1
<1>3. \A T : Outlive(stack, stack, T)
  BY <1>1, <1>2 DEF Outlive, Continues
<1>4. Told(stack, purged) /\ depth = Len(stack) + leaks
  BY DEF IInv, CallsPart
<1>5. \A u : ~RunBy(stack, u)
  <2>1. DOMAIN stack = 1 .. Len(stack)
    BY <1>1, LenProperties
  <2>2. QED
    BY <1>2, <2>1 DEF RunBy
<1>6. Under(stack)
  BY <1>2, <1>3 DEF Under
<1>7. QED
  BY <1>1, <1>2, <1>3, <1>4, <1>5, <1>6

\* Who is loaded or marked changes no script.
LEMMA LoadStep ==
  ASSUME IInv, (\E o \in Mobs \cup Objs : Load(o)) \/ (\E m \in Mobs : ExtractChar(m))
  PROVE  IInv'
<1>1. /\ UNCHANGED <<world, triggers, driver, registry, iteration>>
      /\ alive \subseteq alive' /\ pending \subseteq pending'
      /\ alive' \subseteq Mobs \cup Objs /\ pending' \subseteq alive' \cap Mobs
  <2>1. alive \subseteq Mobs \cup Objs /\ pending \subseteq alive \cap Mobs
    BY DEF IInv, ThingsPart
  <2>2. QED
    BY <2>1 DEF Load, ExtractChar
<1>2. /\ UNCHANGED <<script, isRandom, types, busy, wait, stuck>>
      /\ UNCHANGED <<stack, depth, purged, crashed, leaks>>
      /\ UNCHANGED <<sweep, next, visiting, due, visited>>
  BY <1>1 DEF triggers, driver, iteration
<1>3. ThingsPart'
  BY <1>1 DEF IInv, ThingsPart
<1>4. ScriptsPart'
  BY <1>1, <1>2 DEF IInv, ScriptsPart, Exists
<1>5. WaitsPart'
  BY <1>1, <1>2 DEF IInv, WaitsPart
<1>6. CallsPart'
  BY <1>2 DEF IInv, CallsPart
<1>7. BusyPart'
  BY <1>1, <1>2 DEF IInv, BusyPart
<1>8. RegistryPart'
  BY <1>1, <1>2 DEF IInv, RegistryPart, Registered
<1>9. QED
  BY <1>3, <1>4, <1>5, <1>6, <1>7, <1>8 DEF IInv

\* The game attaches a trigger.
LEMMA GameAttachStep ==
  ASSUME IInv, NEW o \in Owners, NEW t \in Trigs, GameAttach(o, t)
  PROVE  IInv'
<1>1. stack = <<>> /\ Exists(o) /\ Attach(o, t) /\ UNCHANGED <<things, driver, sweep, visiting>>
  BY DEF GameAttach, Idle
<1>2. UNCHANGED <<stack, depth, purged, crashed, leaks>>
  BY <1>1 DEF driver
<1>3. Outlive(stack, stack', {}) /\ Told(stack', purged) /\ Len(stack') = Len(stack)
  BY <1>1, <1>2, EmptyStack
<1>4. \A u \in Trigs : RunBy(stack, u) => RunBy(stack', u)
  BY <1>2
<1>5. QED
  BY <1>1, <1>2, <1>3, <1>4, AttachStep

\* Triggers are freed between scripts: T leaves what the new scripts hold.
LEMMA FreedBetween ==
  ASSUME IInv, stack = <<>>, NEW T, T \subseteq Trigs, Whole(T), Extracted(T),
         UNCHANGED <<driver, sweep, visiting>>, ThingsPart',
         \A o \in Owners : script[o] # {} => Exists(o)' \/ script[o] \subseteq T,
         \A o \in pending : o \in pending' \/ script[o] \subseteq T,
         Rewaits(T, [o \in Owners |-> script[o] \ T], world', wait')
  PROVE  IInv'
<1>1. UNCHANGED <<stack, depth, purged, crashed, leaks>>
  BY DEF driver
<1>2. visiting' \in Owners \cup {None} /\ sweep' = sweep
  BY DEF IInv, RegistryPart
<1>3. script' = [o \in Owners |-> script[o] \ T]
  BY DEF Extracted
<1>4. \A o \in Owners : script'[o] # {} => Exists(o)'
  BY <1>3
<1>5. Rewaits(T, script', world', wait')
  BY <1>3
<1>6. /\ Outlive(stack, stack', T) /\ Told(stack', purged')
      /\ depth' = Len(stack') + leaks /\ UNCHANGED <<leaks, crashed>>
  BY <1>1, EmptyStack
<1>7. \A t \in Trigs \ T : RunBy(stack, t) => RunBy(stack', t)
  BY <1>1
<1>8. QED
  BY <1>2, <1>4, <1>5, <1>6, <1>7, ExtractStep

\* The game detaches triggers of one owner.
LEMMA GameDetachStep ==
  ASSUME IInv, NEW o \in Owners, NEW T, T \subseteq script[o], GameDetach(T)
  PROVE  IInv'
<1>1. /\ stack = <<>> /\ Extracted(T) /\ wait' = Waits(T)
      /\ UNCHANGED <<things, driver, sweep, visiting>>
  BY DEF GameDetach, Idle, Extract
<1>2. UNCHANGED <<alive, pending, world>>
  BY <1>1 DEF things
<1>3. T \subseteq Trigs /\ Whole(T)
  BY WholeOfOne DEF IInv
<1>4. ThingsPart' /\ \A p \in Owners : script[p] # {} => Exists(p)'
  BY <1>2 DEF IInv, ThingsPart, ScriptsPart, Exists
<1>5. script' = [p \in Owners |-> script[p] \ T]
  BY <1>1 DEF Extracted
<1>6. Rewaits(T, script', world', wait')
  BY <1>1, <1>2, <1>3, <1>5, WaitsEnd DEF IInv
<1>7. QED
  BY <1>1, <1>2, <1>3, <1>4, <1>5, <1>6, FreedBetween

\* Who leaves the game leaves it with all triggers.
LEMMA LeaveStep ==
  ASSUME IInv, stack = <<>>, NEW V, V \subseteq alive, Leave(V),
         (pending' = {} /\ V = pending) \/ (pending' = pending /\ V \subseteq Objs)
  PROVE  IInv'
<1> DEFINE T == UNION {script[v] : v \in V}
<1>1. /\ Extracted(T) /\ wait' = Waits(T) /\ alive' = alive \ V
      /\ UNCHANGED <<world, driver, sweep, visiting>>
  BY DEF Leave, Extract
<1>2. alive \subseteq Mobs \cup Objs /\ pending \subseteq alive \cap Mobs /\ V \subseteq Owners
  BY DEF IInv, ThingsPart, Owners
<1>3. /\ T \subseteq Trigs /\ Whole(T)
      /\ \A o \in Owners : IF o \in V THEN script[o] \subseteq T ELSE script[o] \cap T = {}
  BY <1>2, WholeOfMany DEF IInv
<1> HIDE DEF T
<1>4. ThingsPart'
  <2>1. alive' \subseteq Mobs \cup Objs /\ pending' \subseteq alive' \cap Mobs
    BY <1>1, <1>2, ScriptsAssumption
  <2>2. QED
    BY <1>1, <2>1 DEF IInv, ThingsPart
<1>5. \A p \in Owners : script[p] # {} => Exists(p)' \/ script[p] \subseteq T
  BY <1>1, <1>3 DEF IInv, ScriptsPart, Exists
<1>6. \A p \in pending : p \in pending' \/ script[p] \subseteq T
  BY <1>2, <1>3
<1>7. script' = [p \in Owners |-> script[p] \ T]
  BY <1>1 DEF Extracted
<1>8. Rewaits(T, script', world', wait')
  BY <1>1, <1>3, <1>7, WaitsEnd DEF IInv
<1>9. QED
  BY <1>1, <1>3, <1>4, <1>5, <1>6, <1>7, <1>8, FreedBetween

\* trigedit_save() keeps the invariant.
LEMMA TrigEditStep ==
  ASSUME IInv, NEW t \in Trigs, TrigEdit(t)
  PROVE  IInv'
<1>1. /\ stack = <<>>
      /\ isRandom' = [isRandom EXCEPT ![t] = ~@] /\ busy' = [busy EXCEPT ![t] = FALSE]
      /\ wait' = [wait EXCEPT ![t] = NoWait] /\ stuck' = stuck \ {t}
      /\ UNCHANGED <<things, script, types, driver, registry, iteration>>
  BY DEF TrigEdit, Idle
<1>2. /\ UNCHANGED <<alive, pending, world>>
      /\ UNCHANGED <<stack, depth, purged, crashed, leaks>>
      /\ UNCHANGED <<sweep, next, visiting, due, visited>>
  BY <1>1 DEF things, driver, iteration
<1>3. /\ busy \in [Trigs -> BOOLEAN] /\ isRandom \in [Trigs -> BOOLEAN]
      /\ wait \in [Trigs -> [go : Mobs \cup Objs \cup {None}, at : Nat \cup {-1}]]
      /\ NoWait \in [go : Mobs \cup Objs \cup {None}, at : Nat \cup {-1}]
  BY DEF IInv, ScriptsPart, WaitsPart, NoWait
<1>4. /\ isRandom' \in [Trigs -> BOOLEAN] /\ busy' \in [Trigs -> BOOLEAN]
      /\ wait' \in [Trigs -> [go : Mobs \cup Objs \cup {None}, at : Nat \cup {-1}]]
      /\ busy'[t] = FALSE /\ wait'[t] = NoWait
      /\ \A u \in Trigs \ {t} : busy'[u] = busy[u] /\ wait'[u] = wait[u]
  BY <1>1, <1>3
<1>5. ThingsPart'
  BY <1>2 DEF IInv, ThingsPart
<1>6. ScriptsPart'
  BY <1>1, <1>2, <1>4 DEF IInv, ScriptsPart, Exists
<1>7. WaitsPart'
  <2>1. ASSUME NEW u \in Trigs, wait'[u] # NoWait
        PROVE  busy'[u] /\ LeadsToOwner(wait'[u], u, script', world')
    <3>1. u # t
      BY <1>4, <2>1
    <3>2. QED
      BY <3>1, <2>1, <1>1, <1>2, <1>4 DEF IInv, WaitsPart
  <2>2. ASSUME NEW u \in Trigs, busy'[u] PROVE \E o \in Owners : u \in script'[o]
    <3>1. u # t
      BY <1>4, <2>2
    <3>2. QED
      BY <3>1, <2>2, <1>1, <1>4 DEF IInv, WaitsPart
  <2>3. QED
    BY <1>4, <2>1, <2>2 DEF WaitsPart
<1>8. CallsPart'
  <2>1. \A k \in 1 .. Len(stack) : FALSE
    BY <1>1, EmptyStack
  <2>2. Owned(stack', script', busy', wait') /\ Gone(stack', script')
    BY <1>2, <2>1 DEF Owned, Gone
  <2>3. QED
    BY <1>2, <2>2 DEF IInv, CallsPart
<1>9. BusyPart'
  <2> SUFFICES ASSUME NEW o \in Owners, NEW u \in script[o] \ stuck', busy'[u]
               PROVE  wait'[u] # NoWait \/ o \in pending \/ RunBy(stack, u)
    BY <1>1, <1>2 DEF BusyPart
  <2>1. u \in Trigs
    BY DEF IInv, ScriptsPart
  <2>2. u # t
    BY <1>4
  <2>3. u \notin stuck /\ busy[u] /\ wait'[u] = wait[u]
    BY <1>1, <1>4, <2>1, <2>2
  <2>4. QED
    BY <2>3 DEF IInv, BusyPart
<1>10. RegistryPart'
  BY <1>1, <1>2 DEF IInv, RegistryPart, Registered
<1>11. QED
  BY <1>5, <1>6, <1>7, <1>8, <1>9, <1>10 DEF IInv

\* A wait is over: its driver goes on for the owner, or follows freed memory.
LEMMA WaitFiresStep ==
  ASSUME IInv, NEW t \in Trigs, WaitFires(t)
  PROVE  IInv'
<1>1. stack = <<>> /\ wait[t] # NoWait
  BY DEF WaitFires, Idle, Waiting
<1>2. PICK o : o = OwnerOf(wait[t])
  OBVIOUS
<1>3. Under(stack) /\ Len(stack) = 0 /\ \A k \in 1 .. Len(stack) : FALSE
  BY <1>1, EmptyStack
<1>4. visiting \in Owners \cup {None}
  BY DEF IInv, RegistryPart
<1>5. ASSUME o # None PROVE o \in Owners /\ t \in script[o]
  <2>1. Lost.go = None /\ Lost.at = 0
    BY DEF Lost
  <2>2. 0 \notin DOMAIN world
    BY LenProperties DEF IInv, ThingsPart
  <2>3. OwnerOf(Lost) = None
    BY <2>1, <2>2 DEF OwnerOf
  <2>4. wait[t] # Lost
    BY <1>2, <1>5, <2>3
  <2>5. LeadsToOwner(wait[t], t, script, world)
    BY <1>1 DEF IInv, WaitsPart
  <2>6. QED
    BY <1>1, <1>2, <2>4, <2>5, LedHasOwner DEF IInv
<1>6. ASSUME o # None, Enter(o, t, stack), wait' = [wait EXCEPT ![t] = NoWait],
             UNCHANGED <<things, sweep, visiting>>
      PROVE  IInv'
  <2>1. /\ wait \in [Trigs -> [go : Mobs \cup Objs \cup {None}, at : Nat \cup {-1}]]
        /\ NoWait \in [go : Mobs \cup Objs \cup {None}, at : Nat \cup {-1}]
    BY DEF IInv, WaitsPart, NoWait
  <2>2. /\ wait' \in [Trigs -> [go : Mobs \cup Objs \cup {None}, at : Nat \cup {-1}]]
        /\ wait'[t] = NoWait /\ \A u \in Trigs \ {t} : wait'[u] = wait[u]
    BY <1>6, <2>1
  <2>3. Outlive(stack, stack, {}) /\ \A k \in 1 .. Len(stack) : stack[k].pc \in Within
          /\ stack[k].trig # t
    BY <1>3 DEF Under
  <2>4. UNCHANGED things /\ sweep' = sweep /\ visiting' \in Owners \cup {None}
    BY <1>4, <1>6
  <2>5. o \in Owners /\ t \in script[o]
    BY <1>5, <1>6
  <2>6. \A u \in Trigs : RunBy(stack, u) => RunBy(stack, u)
    OBVIOUS
  <2>7. QED
    BY <1>6, <2>2, <2>3, <2>4, <2>5, <2>6, EnterStep
<1>7. ASSUME o # None, EnterTooDeep(o, stack), UNCHANGED <<things, sweep, visiting>>
      PROVE  IInv'
  BY <1>3, <1>4, <1>5, <1>7, TooDeepStep
<1>8. ASSUME crashed' = "moved",
             UNCHANGED <<things, triggers, stack, depth, purged, leaks, registry, iteration>>
      PROVE  IInv'
  <2>1. UNCHANGED <<script, busy, wait>>
    BY <1>8 DEF triggers
  <2>2. CallsPart'
    BY <1>8, <2>1 DEF IInv, CallsPart
  <2>3. \A u \in Trigs : RunBy(stack, u) => RunBy(stack', u)
    BY <1>8
  <2>4. QED
    BY <1>8, <2>2, <2>3, CallsStep
<1>9. QED
  BY <1>2, <1>6, <1>7, <1>8 DEF WaitFires

\* What the iteration does changes no trigger.
LEMMA IterationStep ==
  ASSUME IInv, UNCHANGED <<things, triggers, driver, registry>>,
         Iterates(registry, sweep', next', due', visited'),
         sweep' \in 0 .. 3, visiting' \in Owners \cup {None}, visited' \subseteq Owners
  PROVE  IInv'
<1>1. /\ UNCHANGED <<alive, pending, world>>
      /\ UNCHANGED <<script, isRandom, types, busy, wait, stuck>>
      /\ UNCHANGED <<stack, depth, purged, crashed, leaks>>
  BY DEF things, triggers, driver
<1>2. ThingsPart' /\ ScriptsPart' /\ WaitsPart'
  BY <1>1 DEF IInv, ThingsPart, ScriptsPart, WaitsPart, Exists
<1>3. CallsPart' /\ BusyPart'
  BY <1>1 DEF IInv, CallsPart, BusyPart
<1>4. RegistryPart'
  BY <1>1 DEF IInv, RegistryPart, Registered
<1>5. QED
  BY <1>2, <1>3, <1>4 DEF IInv

\* The iteration of a type begins with the first of its list.
LEMMA BeginStep ==
  ASSUME IInv, NEW k \in 0 .. 3, Begin(k)
  PROVE  IInv'
<1>1. /\ sweep' = k /\ next' = FirstOf(ListOf(k)) /\ due' = ListOf(k) /\ visited' = {}
      /\ UNCHANGED <<things, triggers, driver, registry>> /\ visiting' = visiting
  BY DEF Begin
<1>2. Ordered(registry)
  BY DEF IInv, RegistryPart
<1>3. Iterates(registry, sweep', next', due', visited')
  <2>1. CASE ListOf(k) = {}
    BY <1>1, <2>1 DEF FirstOf, Iterates
  <2>2. CASE ListOf(k) # {}
    <3>1. PICK n : n = FirstOf(ListOf(k))
      OBVIOUS
    <3>2. n \in ListOf(k) /\ \A o \in ListOf(k) : <<n, o>> \in registry
      BY <1>2, <2>2, <3>1, FirstExists
    <3>3. n \in Owners /\ KindOf(n) = k /\ <<n, n>> \in registry /\ n # None
      BY <3>2, ScriptsAssumption DEF ListOf, Registered
    <3>4. QED
      BY <1>1, <3>1, <3>2, <3>3 DEF Iterates
  <2>3. QED
    BY <2>1, <2>2
<1>4. visiting \in Owners \cup {None}
  BY DEF IInv, RegistryPart
<1>5. QED
  BY <1>1, <1>3, <1>4, IterationStep

\* The iteration returns an owner, and stands at the one after it.
LEMMA VisitStep ==
  ASSUME IInv, Visit
  PROVE  IInv'
<1>1. /\ next # None /\ visiting' = next /\ next' = After(next)
      /\ due' = due \ {next} /\ visited' = visited \cup {next}
      /\ UNCHANGED <<things, triggers, driver, registry>> /\ sweep' = sweep
  BY DEF Visit
<1>2. Ordered(registry) /\ Iterates(registry, sweep, next, due, visited)
  BY DEF IInv, RegistryPart
<1>3. next \in Owners /\ sweep \in 0 .. 3 /\ visited \subseteq Owners
  BY <1>1 DEF IInv, RegistryPart, Iterates
<1>4. next' = NextWithout({next})
  BY <1>1 DEF After, NextWithout
<1>5. PICK n : n = NextWithout({next})
  OBVIOUS
<1>6. /\ n \in Owners \cup {None}
      /\ n # None => <<next, n>> \in registry /\ n # next
      /\ \A o \in Owners \ {next} :
           <<next, o>> \in registry => n # None /\ <<n, o>> \in registry
  BY <1>1, <1>2, <1>5, NextWithoutSound
<1>7. n # None => n \in Owners /\ KindOf(n) = sweep /\ <<n, n>> \in registry
  BY <1>1, <1>2, <1>3, <1>6, ScriptsAssumption DEF Ordered, Iterates
<1>8. ASSUME NEW o \in due \ {next} PROVE n # None /\ <<n, o>> \in registry
  <2>1. <<next, o>> \in registry /\ registry \subseteq Owners \X Owners
    BY <1>2 DEF Ordered, Iterates
  <2>2. QED
    BY <1>6, <2>1
<1>9. ASSUME NEW o \in visited \cup {next}, n # None, <<n, o>> \in registry PROVE FALSE
  <2>1. o \in Owners /\ <<next, n>> \in registry /\ n \in Owners
    BY <1>3, <1>6, <1>7, <1>9
  <2>2. <<next, o>> \in registry
    BY <1>2, <1>3, <1>9, <2>1 DEF Ordered
  <2>3. o = next
    BY <1>1, <1>2, <1>9, <2>2 DEF Iterates
  <2>4. n = next
    BY <1>2, <1>3, <1>9, <2>1, <2>3 DEF Ordered
  <2>5. QED
    BY <1>6, <1>9, <2>4
<1>10. Iterates(registry, sweep', next', due', visited')
  BY <1>1, <1>4, <1>5, <1>6, <1>7, <1>8, <1>9 DEF Iterates
<1>11. QED
  BY <1>1, <1>3, <1>10, IterationStep

\* The steps of the sweep keep the invariant.
LEMMA SweepStep ==
  ASSUME IInv, Sweep
  PROVE  IInv'
<1>1. CASE Visit
  BY <1>1, VisitStep
<1>2. ASSUME NEW t \in Trigs, RandomFires(t) PROVE IInv'
  <2>1. PICK o : o = visiting
    OBVIOUS
  <2>2. /\ stack = <<>> /\ Fire(o, t, stack) /\ visiting' = None /\ UNCHANGED <<things, sweep>>
        /\ o # None
    BY <1>2, <2>1 DEF RandomFires, Sweeping
  <2>3. o \in Owners
    BY <2>1, <2>2 DEF IInv, RegistryPart
  <2>4. Under(stack)
    BY <2>2, EmptyStack
  <2>5. QED
    BY <2>2, <2>3, <2>4, FireStep
<1>3. CASE NoneFires
  BY <1>3, IterationStep DEF NoneFires, IInv, RegistryPart
<1>4. CASE SweepOn
  <2>1. Follow(sweep) \in 0 .. 3
    BY DEF Follow, IInv, RegistryPart
  <2>2. PICK k : k = Follow(sweep)
    OBVIOUS
  <2>3. Begin(k) /\ k \in 0 .. 3
    BY <1>4, <2>1, <2>2 DEF SweepOn
  <2>4. QED
    BY <2>3, BeginStep
<1>5. QED
  BY <1>1, <1>2, <1>3, <1>4 DEF Sweep

-----------------------------------------------------------------------------
(* Lemmas: the room editor.                                                *)

\* In t, what is in s from place p on has moved up for e.
MovedUp(t, s, e, p) ==
  /\ Len(t) = Len(s) + 1
  /\ \A i \in 1 .. Len(s) + 1 :
       t[i] = IF i < p THEN s[i] ELSE IF i = p THEN e ELSE s[i - 1]

\* Inserting into a sequence moves up what is behind it.
LEMMA InsertAtProperties ==
  ASSUME NEW S, NEW s \in Seq(S), NEW e \in S, NEW p \in 1 .. Len(s) + 1
  PROVE  InsertAt(s, p, e) \in Seq(S) /\ MovedUp(InsertAt(s, p, e), s, e, p)
<1> DEFINE front == SubSeq(s, 1, p - 1) \o <<e>>
           back == SubSeq(s, p, Len(s))
<1>1. /\ front \in Seq(S) /\ Len(front) = p
      /\ \A i \in 1 .. p : front[i] = IF i < p THEN s[i] ELSE e
  OBVIOUS
<1>2. /\ back \in Seq(S) /\ Len(back) = Len(s) - p + 1
      /\ \A i \in 1 .. Len(s) - p + 1 : back[i] = s[p + i - 1]
  OBVIOUS
<1>3. InsertAt(s, p, e) = front \o back
  BY DEF InsertAt
<1> HIDE DEF front, back
<1>4. /\ front \o back \in Seq(S) /\ Len(front \o back) = Len(front) + Len(back)
      /\ \A i \in 1 .. Len(front) + Len(back) :
           (front \o back)[i] = IF i <= Len(front) THEN front[i] ELSE back[i - Len(front)]
  BY <1>1, <1>2, ConcatProperties, Zenon
<1>5. ASSUME NEW i \in 1 .. Len(s) + 1
      PROVE  InsertAt(s, p, e)[i] = IF i < p THEN s[i] ELSE IF i = p THEN e ELSE s[i - 1]
  <2>1. i \in 1 .. Len(front) + Len(back)
    BY <1>1, <1>2
  <2>2. CASE i <= p
    BY <1>1, <1>3, <1>4, <2>1, <2>2
  <2>3. CASE ~ (i <= p)
    <3>1. i - p \in 1 .. Len(s) - p + 1 /\ p + (i - p) - 1 = i - 1
      BY <2>3
    <3>2. back[i - p] = s[i - 1]
      BY <1>2, <3>1
    <3>3. QED
      BY <1>1, <1>3, <1>4, <2>1, <2>3, <3>2
  <2>4. QED
    BY <2>2, <2>3
<1>6. InsertAt(s, p, e) \in Seq(S) /\ Len(InsertAt(s, p, e)) = Len(s) + 1
  BY <1>1, <1>2, <1>3, <1>4
<1>7. QED
  BY <1>5, <1>6 DEF MovedUp

\* Removing from a sequence moves down what is behind it.
LEMMA RemoveAtProperties ==
  ASSUME NEW S, NEW s \in Seq(S), NEW p \in 1 .. Len(s)
  PROVE  /\ RemoveAt(s, p) \in Seq(S)
         /\ Len(RemoveAt(s, p)) = Len(s) - 1
         /\ \A i \in 1 .. Len(s) - 1 : RemoveAt(s, p)[i] = IF i < p THEN s[i] ELSE s[i + 1]
<1> DEFINE front == SubSeq(s, 1, p - 1)
           back == SubSeq(s, p + 1, Len(s))
<1>1. /\ front \in Seq(S) /\ Len(front) = p - 1
      /\ \A i \in 1 .. p - 1 : front[i] = s[i]
  OBVIOUS
<1>2. /\ back \in Seq(S) /\ Len(back) = Len(s) - p
      /\ \A i \in 1 .. Len(s) - p : back[i] = s[p + i]
  OBVIOUS
<1>3. RemoveAt(s, p) = front \o back
  BY DEF RemoveAt
<1> HIDE DEF front, back
<1>4. /\ front \o back \in Seq(S) /\ Len(front \o back) = Len(front) + Len(back)
      /\ \A i \in 1 .. Len(front) + Len(back) :
           (front \o back)[i] = IF i <= Len(front) THEN front[i] ELSE back[i - Len(front)]
  BY <1>1, <1>2, ConcatProperties, Zenon
<1>5. ASSUME NEW i \in 1 .. Len(s) - 1
      PROVE  RemoveAt(s, p)[i] = IF i < p THEN s[i] ELSE s[i + 1]
  <2>1. i \in 1 .. Len(front) + Len(back)
    BY <1>1, <1>2
  <2>2. CASE i < p
    <3>1. i \in 1 .. p - 1 /\ i <= Len(front)
      BY <1>1, <2>2
    <3>2. QED
      BY <1>1, <1>3, <1>4, <2>1, <2>2, <3>1
  <2>3. CASE ~ (i < p)
    <3>1. /\ ~ (i <= Len(front)) /\ i - Len(front) \in 1 .. Len(s) - p
          /\ p + (i - Len(front)) = i + 1
      BY <1>1, <2>3
    <3>2. back[i - Len(front)] = s[i + 1]
      BY <1>2, <3>1
    <3>3. QED
      BY <1>3, <1>4, <2>1, <2>3, <3>1, <3>2
  <2>4. QED
    BY <2>2, <2>3
<1>6. QED
  BY <1>1, <1>2, <1>3, <1>4, <1>5

\* The room at place i of world[] is still there in w, or its new place is told, or its
\* triggers are all in T.
Places(w, told, T) ==
  \A i \in DOMAIN world :
    \/ i \in DOMAIN w /\ w[i] = world[i]
    \/ \E j \in told : w[j] = world[i]
    \/ script[world[i]] \subseteq T

\* A wait that is told of a new place leads to its room as before.
LEMMA WaitsMoved ==
  ASSUME WaitsPart, NEW w, NEW told \in SUBSET DOMAIN w, DOMAIN w \subseteq Nat \ {0},
         \A i \in DOMAIN w : w[i] \in Owners,
         Mobs \cup Objs \subseteq Owners,
         NEW T, T \subseteq Trigs, Places(w, told, T), NEW moved,
         NEW scr, \A o \in Owners : script[o] \ T \subseteq scr[o],
         NEW wt, \A t \in Trigs :
           wt[t] = IF t \in T THEN NoWait ELSE WaitsIn(w, told, moved)[t],
         wt = [t \in Trigs |-> wt[t]]
  PROVE  Rewaits(T, scr, w, wt)
<1> DEFINE Type == [go : Mobs \cup Objs \cup {None}, at : Nat \cup {-1}]
<1>1. NoWait \in Type /\ Lost \in Type /\ Lost # NoWait
  BY DEF NoWait, Lost
<1>2. ASSUME NEW t \in Trigs \ T
      PROVE  /\ wt[t] \in Type /\ (wt[t] = NoWait <=> wait[t] = NoWait)
             /\ wt[t] # NoWait => LeadsToOwner(wt[t], t, scr, w)
  <2>1. wait[t] \in Type /\ (wait[t] # NoWait => LeadsToOwner(wait[t], t, script, world))
    BY DEF WaitsPart
  <2>2. wt[t] = IF wait[t].go # None \/ wait[t] = NoWait THEN wait[t]
                ELSE IF \E i \in told : t \in script[w[i]]
                THEN [go |-> None, at |-> CHOOSE i \in told : t \in script[w[i]]]
                ELSE IF moved THEN Lost ELSE wait[t]
    BY DEF WaitsIn, Waiting
  <2>3. CASE wait[t] = NoWait
    BY <2>1, <2>2, <2>3
  <2>4. CASE wait[t].go # None /\ wait[t] # NoWait
    <3>1. wt[t] = wait[t]
      BY <2>2, <2>4
    <3>2. PICK o \in Mobs \cup Objs : wait[t] = [go |-> o, at |-> 0] /\ t \in script[o]
      <4>1. wait[t] # Lost
        BY <2>4 DEF Lost
      <4>2. ASSUME NEW i \in DOMAIN world, wait[t] = [go |-> None, at |-> i] PROVE FALSE
        BY <2>4, <4>2
      <4>3. QED
        BY <2>1, <2>4, <4>1, <4>2 DEF LeadsToOwner
    <3>3. t \in scr[o]
      BY <3>2
    <3>4. QED
      BY <2>1, <3>1, <3>2, <3>3 DEF LeadsToOwner
  <2>5. CASE wait[t].go = None /\ wait[t] # NoWait
    <3>1. CASE \E i \in told : t \in script[w[i]]
      <4>1. PICK j \in told : j = (CHOOSE i \in told : t \in script[w[i]]) /\ t \in script[w[j]]
        BY <3>1
      <4>2. wt[t] = [go |-> None, at |-> j]
        BY <2>2, <2>5, <3>1, <4>1
      <4>3. j \in Nat \ {0} /\ j \in DOMAIN w /\ w[j] \in Owners
        OBVIOUS
      <4>4. wt[t] \in Type /\ wt[t] # NoWait
        BY <4>2, <4>3 DEF NoWait
      <4>5. t \in scr[w[j]]
        BY <4>1, <4>3
      <4>6. QED
        BY <2>5, <4>2, <4>3, <4>4, <4>5 DEF LeadsToOwner
    <3>2. CASE ~ (\E i \in told : t \in script[w[i]]) /\ (moved \/ wait[t] = Lost)
      <4>1. wt[t] = Lost
        BY <2>2, <2>5, <3>2
      <4>2. QED
        BY <1>1, <2>5, <4>1 DEF LeadsToOwner
    <3>3. CASE ~ (\E i \in told : t \in script[w[i]]) /\ ~moved /\ wait[t] # Lost
      <4>1. wt[t] = wait[t]
        BY <2>2, <2>5, <3>3
      <4>2. ASSUME NEW o \in Mobs \cup Objs, wait[t] = [go |-> o, at |-> 0] PROVE FALSE
        <5>1. wait[t].go = o /\ o # None
          BY <4>2, ScriptsAssumption
        <5>2. QED
          BY <2>5, <5>1
      <4>3. PICK i \in DOMAIN world : wait[t] = [go |-> None, at |-> i]
              /\ t \in script[world[i]]
        BY <2>1, <2>5, <3>3, <4>2 DEF LeadsToOwner
      <4>4. i \in DOMAIN w /\ w[i] = world[i]
        BY <3>3, <4>3 DEF Places
      <4>5. t \in scr[w[i]]
        BY <4>3, <4>4
      <4>6. QED
        BY <2>1, <2>5, <4>1, <4>3, <4>4, <4>5 DEF LeadsToOwner
    <3>4. QED
      BY <3>1, <3>2, <3>3
  <2>6. QED
    BY <2>3, <2>4, <2>5
<1>3. \A t \in T : wt[t] = NoWait
  OBVIOUS
<1>4. wt \in [Trigs -> Type]
  BY <1>1, <1>2, <1>3
<1>5. QED
  BY <1>2, <1>3, <1>4 DEF Rewaits

\* A room is added, and the waits of those behind it are told.
LEMMA AddRoomStep ==
  ASSUME IInv, NEW r \in Rooms, NEW p \in 1 .. Len(world) + 1, NEW moved, AddRoom(r, p, moved)
  PROVE  IInv'
<1> DEFINE n == Len(world)
           told == p + 1 .. n + 1
<1>1. /\ stack = <<>> /\ r \notin ToSet(world) /\ world' = InsertAt(world, p, r)
      /\ wait' = WaitsIn(world', told, moved)
      /\ UNCHANGED <<alive, pending, script, isRandom, types, busy, stuck, driver, registry,
                     iteration>>
  BY DEF AddRoom, Idle
<1>2. world \in Seq(Rooms) /\ IsInjective(world) /\ n \in Nat /\ DOMAIN world = 1 .. n
  BY LenProperties DEF IInv, ThingsPart
<1>3. PICK w : w = InsertAt(world, p, r)
  OBVIOUS
<1>4. /\ w \in Seq(Rooms) /\ Len(w) = n + 1
      /\ \A i \in 1 .. n + 1 :
           w[i] = IF i < p THEN world[i] ELSE IF i = p THEN r ELSE world[i - 1]
  <2>1. world \in Seq(Rooms) /\ p \in 1 .. Len(world) + 1 /\ r \in Rooms
    BY <1>2
  <2>2. w \in Seq(Rooms) /\ MovedUp(w, world, r, p)
    BY <1>3, <2>1, InsertAtProperties, Zenon
  <2>3. QED
    BY <2>2 DEF MovedUp
<1>5. DOMAIN w = 1 .. n + 1 /\ \A i \in 1 .. n + 1 : w[i] \in Rooms
  BY <1>4, LenProperties, ElementOfSeq
<1>6. \A i \in 1 .. n : IF i < p THEN w[i] = world[i] ELSE i + 1 \in told /\ w[i + 1] = world[i]
  <2> SUFFICES ASSUME NEW i \in 1 .. n
               PROVE  IF i < p THEN w[i] = world[i] ELSE i + 1 \in told /\ w[i + 1] = world[i]
    OBVIOUS
  <2>1. i \in 1 .. n + 1 /\ i + 1 \in 1 .. n + 1 /\ (i + 1) - 1 = i
    BY <1>2
  <2>2. CASE i < p
    BY <1>4, <2>1, <2>2
  <2>3. CASE ~ (i < p)
    <3>1. ~ (i + 1 < p) /\ i + 1 # p /\ i + 1 \in told
      BY <1>2, <2>3
    <3>2. QED
      BY <1>4, <2>1, <2>3, <3>1
  <2>4. QED
    BY <2>2, <2>3
<1>7. IsInjective(w)
  <2>1. \A i \in 1 .. n : world[i] # r
    BY <1>1, <1>2 DEF ToSet
  <2>2. \A i, j \in 1 .. n : world[i] = world[j] => i = j
    BY <1>2 DEF IsInjective
  <2>3. \A i \in 1 .. n + 1 : /\ i < p => i \in 1 .. n /\ w[i] = world[i]
                              /\ i = p => w[i] = r
                              /\ i > p => i - 1 \in 1 .. n /\ w[i] = world[i - 1]
    BY <1>2, <1>4
  <2> SUFFICES ASSUME NEW i \in 1 .. n + 1, NEW j \in 1 .. n + 1, w[i] = w[j], i # j
               PROVE  FALSE
    BY <1>5 DEF IsInjective
  <2>4. i # p /\ j # p
    BY <1>2, <2>1, <2>3
  <2>5. CASE i < p
    <3>1. j > p
      BY <2>2, <2>3, <2>4, <2>5
    <3>2. i = j - 1
      BY <2>2, <2>3, <2>5, <3>1
    <3>3. QED
      BY <2>5, <3>1, <3>2
  <2>6. CASE i > p
    <3>1. CASE j > p
      <4>1. i - 1 = j - 1
        BY <2>2, <2>3, <2>6, <3>1
      <4>2. QED
        BY <4>1
    <3>2. CASE j < p
      <4>1. i - 1 = j
        BY <2>2, <2>3, <2>6, <3>2
      <4>2. QED
        BY <2>6, <3>2, <4>1
    <3>3. QED
      BY <2>4, <3>1, <3>2
  <2>7. QED
    BY <2>4, <2>5, <2>6
<1>8. ThingsPart'
  BY <1>1, <1>3, <1>4, <1>7 DEF IInv, ThingsPart
<1>9. ToSet(world) \subseteq ToSet(w)
  BY <1>2, <1>5, <1>6 DEF ToSet
<1>10. ScriptsPart'
  BY <1>1, <1>3, <1>9 DEF IInv, ScriptsPart, Exists
<1>11. Rewaits({}, script, w, wait')
  <2>1. told \in SUBSET DOMAIN w /\ DOMAIN w \subseteq Nat \ {0}
    BY <1>2, <1>5
  <2>2. Places(w, told, {})
    BY <1>2, <1>5, <1>6 DEF Places
  <2>3. wait' = WaitsIn(w, told, moved)
    BY <1>1, <1>3
  <2> HIDE DEF told
  <2>4. wait' = [t \in Trigs |-> wait'[t]]
    BY <2>3 DEF WaitsIn
  <2>5. \A t \in Trigs : wait'[t] = IF t \in {} THEN NoWait ELSE WaitsIn(w, told, moved)[t]
    BY <2>3
  <2>6. (\A i \in DOMAIN w : w[i] \in Owners) /\ Mobs \cup Objs \subseteq Owners
    BY <1>5 DEF Owners
  <2>7. \A o \in Owners : script[o] \ {} \subseteq script[o]
    OBVIOUS
  <2>8. QED
    BY <2>1, <2>2, <2>4, <2>5, <2>6, <2>7, WaitsMoved DEF IInv
<1>12. WaitsPart'
  <2>1. ASSUME NEW t \in Trigs, wait'[t] # NoWait
        PROVE  busy'[t] /\ LeadsToOwner(wait'[t], t, script', world')
    <3>1. wait[t] # NoWait /\ LeadsToOwner(wait'[t], t, script, w)
      BY <1>11, <2>1 DEF Rewaits
    <3>2. QED
      BY <1>1, <1>3, <3>1 DEF IInv, WaitsPart
  <2>2. wait' \in [Trigs -> [go : Mobs \cup Objs \cup {None}, at : Nat \cup {-1}]]
    BY <1>11 DEF Rewaits
  <2>3. QED
    BY <1>1, <2>1, <2>2 DEF IInv, WaitsPart
<1>13. CallsPart'
  <2>1. UNCHANGED <<stack, depth, purged, crashed, leaks>>
    BY <1>1 DEF driver
  <2>2. \A k \in 1 .. Len(stack) : FALSE
    BY <1>1, EmptyStack
  <2>3. Owned(stack', script', busy', wait')
    BY <2>1, <2>2 DEF Owned
  <2>4. QED
    BY <1>1, <2>1, <2>3 DEF IInv, CallsPart
<1>14. BusyPart'
  <2> SUFFICES ASSUME NEW o \in Owners, NEW t \in script[o] \ stuck, busy[t]
               PROVE  wait'[t] # NoWait \/ o \in pending \/ RunBy(stack, t)
    BY <1>1 DEF BusyPart, driver
  <2>1. t \in Trigs
    BY DEF IInv, ScriptsPart
  <2>2. QED
    BY <1>11, <2>1 DEF IInv, BusyPart, Rewaits
<1>15. RegistryPart'
  BY <1>1 DEF IInv, RegistryPart, Registered, iteration
<1>16. QED
  BY <1>8, <1>10, <1>12, <1>13, <1>14, <1>15 DEF IInv

\* A room is deleted with its script, and the waits of those behind it are told.
LEMMA DeleteRoomStep ==
  ASSUME IInv, NEW p \in DOMAIN world, DeleteRoom(p)
  PROVE  IInv'
<1> DEFINE n == Len(world)
           T == script[world[p]]
           told == p .. n - 1
<1>1. /\ stack = <<>> /\ n > 1 /\ world' = RemoveAt(world, p) /\ Extracted(T)
      /\ wait' = [t \in Trigs |-> IF t \in T THEN NoWait ELSE WaitsIn(world', told, FALSE)[t]]
      /\ UNCHANGED <<alive, pending, driver, sweep, visiting>>
  BY DEF DeleteRoom, Idle
<1>2. world \in Seq(Rooms) /\ IsInjective(world) /\ n \in Nat /\ DOMAIN world = 1 .. n
        /\ p \in 1 .. n
  BY LenProperties DEF IInv, ThingsPart
<1>3. PICK w : w = RemoveAt(world, p)
  OBVIOUS
<1>4. /\ w \in Seq(Rooms) /\ Len(w) = n - 1
      /\ \A i \in 1 .. n - 1 : w[i] = IF i < p THEN world[i] ELSE world[i + 1]
  BY <1>2, <1>3, RemoveAtProperties
<1>5. DOMAIN w = 1 .. n - 1 /\ \A i \in 1 .. n - 1 : w[i] \in Rooms
  BY <1>4, LenProperties, ElementOfSeq
<1>6. \A i \in 1 .. n : /\ i < p => i \in 1 .. n - 1 /\ w[i] = world[i]
                        /\ i > p => i - 1 \in told /\ i - 1 \in 1 .. n - 1
                             /\ w[i - 1] = world[i]
  <2> SUFFICES ASSUME NEW i \in 1 .. n
               PROVE  /\ i < p => i \in 1 .. n - 1 /\ w[i] = world[i]
                      /\ i > p => i - 1 \in told /\ i - 1 \in 1 .. n - 1 /\ w[i - 1] = world[i]
    OBVIOUS
  <2>1. CASE i < p
    <3>1. i \in 1 .. n - 1
      BY <1>2, <2>1
    <3>2. QED
      BY <1>4, <2>1, <3>1
  <2>2. CASE i > p
    <3>1. i - 1 \in told /\ i - 1 \in 1 .. n - 1 /\ ~ (i - 1 < p) /\ (i - 1) + 1 = i
      BY <1>2, <2>2
    <3>2. QED
      BY <1>4, <2>2, <3>1
  <2>3. CASE i = p
    BY <1>2, <2>3
  <2>4. QED
    BY <1>2, <2>1, <2>2, <2>3
<1>7. IsInjective(w)
  <2>1. \A i, j \in 1 .. n : world[i] = world[j] => i = j
    BY <1>2 DEF IsInjective
  <2> SUFFICES ASSUME NEW i \in 1 .. n - 1, NEW j \in 1 .. n - 1, w[i] = w[j]
               PROVE  i = j
    BY <1>5 DEF IsInjective
  <2>2. PICK a \in 1 .. n : a = (IF i < p THEN i ELSE i + 1) /\ w[i] = world[a]
    BY <1>2, <1>4
  <2>3. PICK b \in 1 .. n : b = (IF j < p THEN j ELSE j + 1) /\ w[j] = world[b]
    BY <1>2, <1>4
  <2>4. a = b
    BY <2>1, <2>2, <2>3
  <2>5. QED
    BY <1>2, <2>2, <2>3, <2>4
<1>8. ThingsPart'
  BY <1>1, <1>3, <1>4, <1>7 DEF IInv, ThingsPart
<1>9. world[p] \in Owners /\ (\A i \in DOMAIN w : w[i] \in Owners)
        /\ Mobs \cup Objs \subseteq Owners
  <2>1. world[p] \in Rooms
    BY <1>2, ElementOfSeq
  <2>2. QED
    BY <1>5, <2>1 DEF Owners
<1>10. T \subseteq Trigs /\ Whole(T)
  BY <1>9, WholeOfOne DEF IInv
<1>11. T = script[world[p]]
  OBVIOUS
<1> HIDE DEF T
<1>12. ASSUME NEW o \in Owners, script[o] # {} PROVE Exists(o)' \/ script[o] \subseteq T
  <2>1. o \in alive \/ \E i \in 1 .. n : o = world[i]
    BY <1>2, <1>12 DEF IInv, ScriptsPart, Exists, ToSet
  <2>2. o \in alive => Exists(o)'
    BY <1>1 DEF Exists
  <2>3. ASSUME NEW i \in 1 .. n, o = world[i], i # p PROVE o \in ToSet(w)
    <3>1. i < p \/ i > p
      BY <1>2, <2>3
    <3>2. QED
      BY <1>5, <1>6, <2>3, <3>1 DEF ToSet
  <2>4. o \in ToSet(w) => Exists(o)'
    BY <1>1, <1>3 DEF Exists
  <2>5. QED
    BY <1>11, <2>1, <2>2, <2>3, <2>4
<1>13. Rewaits(T, [o \in Owners |-> script[o] \ T], w, wait')
  <2>1. told \in SUBSET DOMAIN w /\ DOMAIN w \subseteq Nat \ {0}
    BY <1>2, <1>5
  <2>2. Places(w, told, T)
    <3> SUFFICES ASSUME NEW i \in 1 .. n
                 PROVE  \/ i \in DOMAIN w /\ w[i] = world[i]
                        \/ \E j \in told : w[j] = world[i]
                        \/ script[world[i]] \subseteq T
      BY <1>2 DEF Places
    <3>1. i < p \/ i > p \/ i = p
      BY <1>2
    <3>2. QED
      BY <1>5, <1>6, <1>11, <3>1
  <2>3. wait' = [t \in Trigs |-> IF t \in T THEN NoWait ELSE WaitsIn(w, told, FALSE)[t]]
    BY <1>1, <1>3, <1>11
  <2> HIDE DEF told
  <2>4. /\ wait' = [t \in Trigs |-> wait'[t]]
        /\ \A t \in Trigs : wait'[t] = IF t \in T THEN NoWait ELSE WaitsIn(w, told, FALSE)[t]
    BY <2>3
  <2>5. PICK scr : scr = [o \in Owners |-> script[o] \ T]
    OBVIOUS
  <2>6. \A o \in Owners : script[o] \ T \subseteq scr[o]
    BY <2>5
  <2>7. Rewaits(T, scr, w, wait')
    BY <1>9, <1>10, <2>1, <2>2, <2>4, <2>6, WaitsMoved DEF IInv
  <2>8. QED
    BY <2>5, <2>7
<1>14. Rewaits(T, [o \in Owners |-> script[o] \ T], world', wait')
  BY <1>1, <1>3, <1>13
<1>15. \A o \in pending : o \in pending' \/ script[o] \subseteq T
  BY <1>1
<1>16. Extracted(T)
  BY <1>1, <1>11
<1>17. QED
  BY <1>1, <1>8, <1>10, <1>12, <1>14, <1>15, <1>16, FreedBetween

-----------------------------------------------------------------------------
(* The theorems.                                                           *)

\* Every step keeps the invariant.
LEMMA NextIInv == IInv /\ [Next]_vars => IInv'
<1> SUFFICES ASSUME IInv, [Next]_vars PROVE IInv'
  OBVIOUS
<1>1. ASSUME RunLine PROVE IInv'
  <2>1. CASE UseFreed
    BY <2>1, UseFreedStep
  <2>2. CASE End \/ ScriptWaitFails \/ ScriptWhileFails
    BY <2>2, EndStep
  <2>3. ASSUME NEW o \in Owners, NEW t \in Trigs, ScriptAttach(o, t) PROVE IInv'
    BY <2>3, ScriptAttachStep
  <2>4. ASSUME NEW o \in Owners, NEW T \in {script[o]} \cup {{t} : t \in script[o]},
               ScriptDetach(o, T)
        PROVE  IInv'
    <3>1. T \subseteq script[o]
      OBVIOUS
    <3>2. QED
      BY <2>4, <3>1, DetachStep
  <2>5. CASE ScriptWait
    BY <2>5, WaitStep
  <2>6. ASSUME NEW V \in SUBSET alive, ScriptPurge(V) PROVE IInv'
    BY <2>6, PurgeStep
  <2>7. ASSUME NEW o \in Owners, NEW t \in Trigs, NEW kind \in {"command", "spell"},
               ScriptCommand(o, t, kind)
        PROVE  IInv'
    BY <2>7, CommandStep DEF Within
  <2>8. CASE CommandDone \/ SpellDone
    BY <2>8, DoneStep, SpellDoneStep
  <2>9. QED
    BY <1>1, <2>1, <2>2, <2>3, <2>4, <2>5, <2>6, <2>7, <2>8 DEF RunLine
<1>2. ASSUME PlayGame PROVE IInv'
  <2>1. CASE (\E o \in Mobs \cup Objs : Load(o)) \/ (\E m \in Mobs : ExtractChar(m))
    BY <2>1, LoadStep
  <2>2. ASSUME NEW o \in Owners, NEW t \in Trigs, GameAttach(o, t) PROVE IInv'
    BY <2>2, GameAttachStep
  <2>3. ASSUME NEW o \in Owners, NEW T \in {script[o]} \cup {{t} : t \in script[o]},
               GameDetach(T)
        PROVE  IInv'
    <3>1. T \subseteq script[o]
      OBVIOUS
    <3>2. QED
      BY <2>3, <3>1, GameDetachStep
  <2>4. ASSUME NEW v \in Objs, ExtractObj(v) PROVE IInv'
    <3>1. stack = <<>> /\ {v} \subseteq alive /\ {v} \subseteq Objs /\ Leave({v})
            /\ pending' = pending
      BY <2>4 DEF ExtractObj, Idle
    <3>2. QED
      BY <3>1, LeaveStep
  <2>5. CASE ExtractPending
    <3>1. PICK V : V = pending
      OBVIOUS
    <3>2. stack = <<>> /\ V \subseteq alive /\ Leave(V) /\ pending' = {}
      BY <2>5, <3>1 DEF ExtractPending, Idle, IInv, ThingsPart
    <3>3. pending' = {} /\ V = pending
      BY <3>1, <3>2
    <3>4. QED
      BY <3>2, <3>3, LeaveStep
  <2>6. ASSUME NEW o \in Owners, NEW t \in Trigs, GameFires(o, t) PROVE IInv'
    <3>1. /\ stack = <<>> /\ Fire(o, t, stack) /\ UNCHANGED things /\ sweep' = sweep
          /\ visiting' \in Owners \cup {None}
      BY <2>6 DEF GameFires, Idle, IInv, RegistryPart
    <3>2. Under(stack)
      BY <3>1, EmptyStack
    <3>3. QED
      BY <3>1, <3>2, FireStep
  <2>7. ASSUME NEW t \in Editable, TrigEdit(t) PROVE IInv'
    BY <2>7, ScriptsAssumption, TrigEditStep
  <2>8. CASE SweepBegin
    <3>1. Begin(1)
      BY <2>8 DEF SweepBegin
    <3>2. QED
      BY <3>1, BeginStep
  <2>9. ASSUME NEW r \in Rooms, NEW p \in 1 .. Len(world) + 1, NEW moved \in BOOLEAN,
               AddRoom(r, p, moved)
        PROVE  IInv'
    BY <2>9, AddRoomStep
  <2>10. ASSUME NEW p \in DOMAIN world, DeleteRoom(p) PROVE IInv'
    BY <2>10, DeleteRoomStep
  <2>11. QED
    BY <1>2, <2>1, <2>2, <2>3, <2>4, <2>5, <2>6, <2>7, <2>8, <2>9, <2>10 DEF PlayGame
<1>3. ASSUME UNCHANGED vars PROVE IInv'
  <2>1. /\ UNCHANGED <<things, triggers, registry, iteration>>
        /\ UNCHANGED <<stack, depth, purged, crashed, leaks>>
    BY <1>3 DEF vars, driver
  <2>2. UNCHANGED <<script, busy, wait>>
    BY <2>1 DEF triggers
  <2>3. CallsPart'
    BY <2>1, <2>2 DEF IInv, CallsPart
  <2>4. \A u \in Trigs : RunBy(stack, u) => RunBy(stack', u)
    BY <2>1
  <2>5. QED
    BY <2>1, <2>3, <2>4, CallsStep
<1>4. QED
  BY <1>1, <1>2, <1>3, SweepStep, WaitFiresStep DEF Next

\* At every moment of every behaviour the things, scripts, waits, calls, what is busy
\* and the registry agree.
THEOREM Invariance == Spec => []IInv
<1>1. Init => IInv
  BY InitIInv
<1>2. IInv /\ [Next]_vars => IInv'
  BY NextIInv
<1>3. QED
  BY <1>1, <1>2, PTL DEF Spec

\* A driver whose script was extracted under it with the flag set never follows a freed
\* pointer, but for the spell of dg_cast or dg_affect: after every other command
\* script_driver() needs no more than its look at dg_owner_purged.
THEOREM NeverUsesFlagged == Spec => []FreedNotUsed
<1>1. IInv => FreedNotUsed
  <2> SUFFICES ASSUME IInv PROVE TypeOK /\ crashed # "flagged"
    BY DEF FreedNotUsed
  <2>1. TypeOK
    BY IInvTypeOK
  <2>2. crashed # "flagged"
    BY DEF IInv, CallsPart
  <2>3. QED
    BY <2>1, <2>2
<1>2. QED
  BY <1>1, Invariance, PTL

\* A busy trigger is run once, waits, goes with its owner, or is one of the stuck; and
\* the depth of script_driver() counts its calls.
THEOREM BusyIsRunning == Spec => []BusyMeansRunning
BY IInvBusy, Invariance, PTL

\* The wait event of a trigger leads to the owner it is attached to, or to an array of
\* rooms that realloc() has left.
THEOREM WaitsLead == Spec => []WaitSound
BY IInvWaits, Invariance, PTL

\* The registry of random owners is what dg_random_registry_validate() checks, and an
\* iteration misses none that stay and visits none twice.
THEOREM RegistryIsSound == Spec => []RegistrySound
BY IInvRegistry, Invariance, PTL

===============================================================================
