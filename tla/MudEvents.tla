------------------------------ MODULE MudEvents -------------------------------
(***************************************************************************)
(* Mud events: the events src/mud_event.c ties to a character, a           *)
(* descriptor, a region, a room or an object.  Every owner keeps a list of *)
(* its events, every event points back at its owner, and either may go     *)
(* first: events fire and end (event_process), are cancelled, or are       *)
(* cleared when their owner dies, disconnects, is extracted or reloaded.   *)
(*                                                                         *)
(* All memory that these paths share is in mem, and each operator below    *)
(* takes a mem to the next one; an access to freed memory sets mem.fault.  *)
(* An event struct is an element of Events, which the allocator hands out  *)
(* again after free().  Time is left out: any queued event may be the next *)
(* to fire (EventQueue says which one does).                               *)
(***************************************************************************)
EXTENDS Naturals, FiniteSets, SequencesExt

CONSTANTS
  Events,        \* the event structs the allocator can hand out
  Chars, Descs, Regions, Rooms, Objs,   \* the owners, by kind
  Ids,           \* the kinds of event (iId) a character can have
  None,
  Risks          \* the risky situations that may come up, of those below

\* Situations the code has paths for that end in freed memory: a room deleted
\* with an event queued, an object extracted with two, a vnum of no room.
AllRisks == {"delete_room", "extract_obj", "attach_nowhere"}

Owners == Chars \cup Descs \cup Regions \cup Rooms \cup Objs

\* room->events and region->events are found through real_room, real_region.
ByVnum == Regions \cup Rooms

\* Whose list is freed with its last event.
FreesEmptyList == Owners \ Descs

ASSUME NoneAssumption  == None \notin Owners \cup Events \cup Ids
ASSUME RisksAssumption == Risks \subseteq AllRisks

\* No owner is of two of these kinds.
ASSUME KindsAssumption ==
  /\ Descs \cap (Chars \cup ByVnum \cup Objs) = {}
  /\ Chars \cap (ByVnum \cup Objs) = {}
  /\ ByVnum \cap Objs = {}

VARIABLES
  mem,        \* see MemType
  running,    \* the event whose callback is on the stack, or None
  pending     \* the characters flagged NOTDEADYET

vars == <<mem, running, pending>>

Temp == "temp_list"

EventType == [st : {"free", "queued", "running"},  \* "queued": q_el is not NULL
              obj : BOOLEAN,                       \* event_obj is not NULL
              own : Owners \cup {None},            \* pStruct
              vnum : BOOLEAN,                      \* pStruct is a copied vnum, allocated
              id : Ids \cup {None}]

Freed  == [st |-> "free", obj |-> FALSE, own |-> None, vnum |-> FALSE, id |-> None]
NoLoop == [list |-> None, at |-> None]

MemType == [event : [Events -> EventType],
            there : SUBSET Owners,                 \* allocated, or found by vnum
            list : [Owners \cup {Temp} -> Seq(Events)],
            has : [Owners -> BOOLEAN],             \* owner->events is not NULL
            static : {NoLoop},                     \* every step ends its simple_list() loop
            fault : BOOLEAN]

Allocated(m, e) == m.event[e].st # "free"

Fault(m) == [m EXCEPT !.fault = TRUE]

-----------------------------------------------------------------------------
(* lists.c, as far as these paths depend on it (see Lists).                *)

\* remove_from_list(e, o->events); a NULL list or a missing e is only logged.
Removed(m, o, e) == [m EXCEPT !.list[o] = RemoveFirst(@, e)]

\* free_list(o->events); o->events = NULL: it resets simple_list().
ListFreed(m, o) ==
  [m EXCEPT !.list[o] = <<>>, !.has[o] = FALSE, !.static = NoLoop]

\* One simple_list(l) call.  It returns static.at, None at the end.  A node
\* that was freed under the loop is read all the same.
SimpleList(m, l) ==
  LET s == m.list[l]
      here == {i \in DOMAIN s : s[i] = m.static.at}
      To(i) == [m EXCEPT !.static = IF i > Len(s) THEN NoLoop ELSE [list |-> l, at |-> s[i]]]
  IN  IF m.static.list # l THEN To(1)
      ELSE IF here = {} THEN Fault(m)
      ELSE To(1 + CHOOSE i \in here : TRUE)

-----------------------------------------------------------------------------
(* One event.                                                              *)

\* What free_mud_event leaves of e's data: the vnum is freed, event_obj NULL.
DataFreed(m, e) == [m EXCEPT !.event[e].obj = FALSE, !.event[e].vnum = FALSE]

\* Mutant: the event stays in its owner's list.
FreedListed(m, e) == IF m.event[e].own \in m.there THEN DataFreed(m, e) ELSE Fault(m)

\* free_mud_event: the event leaves its owner's list, an emptied list goes, the
\* data is freed.  An owner found by its vnum may be gone by now.
free_mud_event(m, e) ==
  LET o == m.event[e].own
      r == Removed(m, o, e)
      f == IF o \in FreesEmptyList /\ m.has[o] /\ r.list[o] = <<>>
           THEN ListFreed(r, o) ELSE r
  IN  CASE o \in ByVnum /\ ~m.event[e].vnum -> Fault(m)
        [] o \in ByVnum /\ o \notin m.there -> DataFreed(m, e)
        [] o \in m.there -> DataFreed(f, e)
        [] OTHER -> Fault(m)

\* event_cancel: what the event carries is released; the struct as well, unless
\* the event is running and event_process() is still to free it.
event_cancel(m, e) ==
  IF ~Allocated(m, e) THEN Fault(m)
  ELSE LET f == IF m.event[e].obj THEN free_mud_event(m, e) ELSE m IN
       IF m.event[e].st = "queued" THEN [f EXCEPT !.event[e] = Freed] ELSE f

\* The event that new_mud_event and event_create make.
NewEvent(m, o, id, e) ==
  [m EXCEPT !.event[e] = [st |-> "queued", obj |-> TRUE, own |-> o,
                          vnum |-> o \in ByVnum, id |-> id]]

\* attach_mud_event: to an owner that exists, at the end of its list; for a room
\* or region that does not, the copied vnum is freed and the event cancelled.
Attached(m, o, id, e) ==
  LET n == NewEvent(m, o, id, e) IN
  IF o \in m.there THEN [n EXCEPT !.has[o] = TRUE, !.list[o] = Append(@, e)]
  ELSE event_cancel([n EXCEPT !.event[e].vnum = FALSE], e)

\* The first event with this id in the character's list, as the loops of
\* event_cancel_specific and change_event_duration find it.
Find(m, o, id) ==
  LET s == m.list[o] IN
  {s[i] : i \in {k \in DOMAIN s : /\ m.event[s[k]].id = id
                                  /\ \A j \in 1 .. k - 1 : m.event[s[j]].id # id}}

-----------------------------------------------------------------------------
(* All events of one owner.                                                *)

\* Mutant: the walk is lost after the first event.
FirstQueued(m, o) ==
  LET s == m.list[o] IN
  {s[i] : i \in {k \in DOMAIN s : \A j \in 1 .. k : m.event[s[j]].st = "queued" <=> j = k}}

\* The first pass: the events that are queued and not running.
QueuedEvents(m, o) == {e \in ToSet(m.list[o]) : m.event[e].st = "queued"}

\* The second pass, over what the first one chose of the events s.
CancelEach(m, s, chosen) ==
  LET after[k \in 0 .. Len(s)] ==       \* when the first k have had their turn
        IF k = 0 THEN m
        ELSE IF s[k] \in chosen THEN event_cancel(after[k-1], s[k]) ELSE after[k-1]
  IN  after[Len(s)]

CancelQueued(m, o) == CancelEach(m, m.list[o], QueuedEvents(m, o))

\* clear_char_event_list: collect, then cancel.
clear_char_event_list(m, o) == [CancelQueued(m, o) EXCEPT !.static = NoLoop]

\* One round of a loop over simple_list(l) that cancels what it gets.  A run is
\* a mem and whether the loop goes on.
CancelRound(run, l) ==
  LET n == SimpleList(run.m, l)
      e == n.static.at IN
  IF n.fault \/ e = None THEN [m |-> n, on |-> FALSE]
  ELSE LET c == event_cancel(n, e) IN [m |-> c, on |-> ~c.fault]

CancelLoop(m, l) ==
  LET last == Len(m.list[l]) + 1
      round[k \in 0 .. last] ==
        IF k = 0 THEN [m |-> [m EXCEPT !.static = NoLoop], on |-> TRUE]
        ELSE IF round[k-1].on THEN CancelRound(round[k-1], l) ELSE round[k-1]
  IN  round[last].m

\* clear_room_event_list: the second pass walks temp_list with simple_list().
clear_room_event_list(m, o) ==
  IF m.list[o] = <<>> THEN m
  ELSE [CancelLoop([m EXCEPT !.list[Temp] =
                      SelectSeq(m.list[o], LAMBDA e : e \in QueuedEvents(m, o))], Temp)
          EXCEPT !.list[Temp] = <<>>, !.static = NoLoop]

\* clear_region_event_list: first event until empty; one that is running is
\* only taken off the list, which goes in the end.
clear_region_event_list(m, o) ==
  LET c == CancelQueued(m, o) IN IF c.has[o] THEN ListFreed(c, o) ELSE c

\* close_socket: first event until empty, then the list and the descriptor go.
DescClosed(m, o) ==
  [ListFreed(CancelEach(m, m.list[o], ToSet(m.list[o])), o) EXCEPT !.there = @ \ {o}]

\* extract_char_final: two passes, then what is left of the list.
CharFinal(m, o) == ListFreed(CancelQueued(m, o), o)

\* extract_obj: the list is walked with simple_list() while events leave it.
ObjFreed(m, o) ==
  LET c == CancelLoop(m, o) IN [ListFreed(c, o) EXCEPT !.there = @ \ {o}]

-----------------------------------------------------------------------------
(* The steps.  Code outside the queue runs between callbacks and in them;  *)
(* close_socket, a reload and extract_pending_chars run outside them.      *)

attach_mud_event(o, e) ==
  /\ ~Allocated(mem, e)
  /\ o \in mem.there \cup ByVnum
  /\ o \in mem.there \/ "attach_nowhere" \in Risks
  /\ o \in Objs => mem.list[o] = <<>> \/ "extract_obj" \in Risks
  /\ \E id \in IF o \in Chars THEN Ids ELSE {None} :
       mem' = Attached(mem, o, id, e)
  /\ UNCHANGED <<running, pending>>

\* The simple_list() loop that finds the event is closed before it is cancelled.
event_cancel_specific(o, id) ==
  /\ o \in mem.there \cap Chars
  /\ \E e \in Find(mem, o, id) :
       /\ mem.event[e].st = "queued"
       /\ mem' = event_cancel([mem EXCEPT !.static = NoLoop], e)
  /\ UNCHANGED <<running, pending>>

\* change_event_duration and change_event_svariables: the old event goes, unless
\* it is running, and a new one is attached, if attach_mud_event can create it.
change_event(o, id, new) ==
  /\ o \in mem.there \cap Chars
  /\ \E old \in Find(mem, o, id) :
       LET m == IF mem.event[old].st = "queued" THEN event_cancel(mem, old) ELSE mem IN
       \/ /\ ~Allocated(m, new)
          /\ mem' = [Attached(m, o, id, new) EXCEPT !.static = NoLoop]
       \/ mem' = [m EXCEPT !.static = NoLoop]  \* refused: too many events, or no can_stun
  /\ UNCHANGED <<running, pending>>

\* raw_kill: a character dies, perhaps under the callback of one of its events.
Die(o) ==
  /\ o \in mem.there \cap Chars
  /\ mem.list[o] # <<>>
  /\ mem' = clear_char_event_list(mem, o)
  /\ UNCHANGED <<running, pending>>

\* event_process takes an event from the queue and calls it.
Fire(e) ==
  /\ running = None
  /\ mem.event[e].st = "queued"
  /\ mem' = [mem EXCEPT !.event[e].st = "running"]
  /\ running' = e
  /\ UNCHANGED pending

\* The callback asks for another run ...
Requeue ==
  /\ running # None
  /\ mem' = IF Allocated(mem, running) THEN [mem EXCEPT !.event[running].st = "queued"]
            ELSE Fault(mem)
  /\ running' = None
  /\ UNCHANGED pending

\* ... or not: the event is freed with what it still carries.
Finish ==
  /\ running # None
  /\ LET f == IF mem.event[running].obj THEN free_mud_event(mem, running) ELSE mem IN
     mem' = IF Allocated(mem, running) THEN [f EXCEPT !.event[running] = Freed]
            ELSE Fault(mem)
  /\ running' = None
  /\ UNCHANGED pending

\* Mutant: the character is freed at once.
ExtractNow(o) ==
  /\ o \in (mem.there \cap Chars) \ pending
  /\ mem' = [CharFinal(mem, o) EXCEPT !.there = @ \ {o}]
  /\ UNCHANGED <<running, pending>>

\* extract_char flags the character; a second call changes nothing.
extract_char(o) ==
  /\ o \in (mem.there \cap Chars) \ pending
  /\ pending' = pending \cup {o}
  /\ UNCHANGED <<mem, running>>

\* extract_pending_chars, at the end of the heartbeat: all flagged characters at
\* once.  A player with a descriptor goes to the menu and is not freed.
extract_pending_chars ==
  /\ running = None
  /\ pending # {}
  /\ \E menu \in SUBSET pending, order \in [1 .. Cardinality(pending) -> pending] :
       LET gone[k \in 0 .. Len(order)] ==    \* when the first k have gone
             IF k = 0 THEN mem ELSE CharFinal(gone[k-1], order[k])
       IN  /\ ToSet(order) = pending
           /\ mem' = [gone[Len(order)] EXCEPT !.there = @ \ (pending \ menu)]
  /\ pending' = {}
  /\ UNCHANGED running

close_socket(o) ==
  /\ running = None
  /\ o \in mem.there \cap Descs
  /\ mem' = DescClosed(mem, o)
  /\ UNCHANGED <<running, pending>>

\* The callbacks of room and region events (event_countdown, event_tracks,
\* event_check_occupied) run no commands, so none takes its own owner away.
NotUnderOwnCallback(o) == running # None => mem.event[running].own # o

\* free_region_table_data.
ReloadRegion(o) ==
  /\ o \in mem.there \cap Regions
  /\ NotUnderOwnCallback(o)
  /\ mem' = [clear_region_event_list(mem, o) EXCEPT !.there = @ \ {o}]
  /\ UNCHANGED <<running, pending>>

delete_room(o) ==
  /\ o \in mem.there \cap Rooms
  /\ NotUnderOwnCallback(o)
  /\ mem.list[o] = <<>> \/ "delete_room" \in Risks
  /\ mem' = [clear_room_event_list(mem, o) EXCEPT !.there = @ \ {o}, !.has[o] = FALSE,
                                                  !.list[o] = <<>>]
  /\ UNCHANGED <<running, pending>>

extract_obj(o) ==
  /\ o \in mem.there \cap Objs
  /\ mem' = ObjFreed(mem, o)
  /\ UNCHANGED <<running, pending>>

\* A connection, a loaded character or object, a created room, a region reload.
\* A descriptor gets its list at once (init_descriptor).
Appear(o) ==
  /\ o \in Owners \ mem.there
  /\ mem' = [mem EXCEPT !.there = @ \cup {o}, !.has[o] = (o \in Descs)]
  /\ UNCHANGED <<running, pending>>

Init ==
  /\ mem = [event |-> [e \in Events |-> Freed],
            there |-> Rooms \cup Regions,
            list |-> [o \in Owners \cup {Temp} |-> <<>>],
            has |-> [o \in Owners |-> FALSE],
            static |-> NoLoop,
            fault |-> FALSE]
  /\ running = None
  /\ pending = {}

Next ==
  \/ \E o \in Owners :
       \/ \E e \in Events : attach_mud_event(o, e)
       \/ Die(o) \/ extract_char(o) \/ close_socket(o) \/ ReloadRegion(o)
       \/ delete_room(o) \/ extract_obj(o) \/ Appear(o)
       \/ \E id \in Ids : \/ event_cancel_specific(o, id)
                          \/ \E e \in Events : change_event(o, id, e)
  \/ \E e \in Events : Fire(e)
  \/ Requeue \/ Finish \/ extract_pending_chars

Spec == Init /\ [][Next]_vars

-----------------------------------------------------------------------------
(* Properties.                                                             *)

\* Every variable has its type.
TypeOK ==
  /\ mem \in MemType
  /\ running \in Events \cup {None}
  /\ pending \subseteq Chars

\* Memory safety of event teardown: no path reads, cancels or frees an event,
\* a list node or a vnum that another path has already freed.
NoUseAfterFree == ~mem.fault

\* A list has no event twice, and each of its events is allocated, carries a mud
\* event and names that owner; and a queued mud event whose owner is there is in
\* its owner's list, where a death, an extraction or a disconnection finds it.
ListsExact ==
  /\ \A o \in Owners :
       /\ IsInjective(mem.list[o])
       /\ \A e \in ToSet(mem.list[o]) :
            Allocated(mem, e) /\ mem.event[e].obj /\ mem.event[e].own = o
  /\ \A e \in Events :
       LET o == mem.event[e].own IN
       mem.event[e].st = "queued" /\ mem.event[e].obj /\ o \in mem.there
         => e \in ToSet(mem.list[o])

\* An owner other than a descriptor has a list exactly while it has events, so
\* that the test "events == NULL" means what its callers take it for.
NullWhenEmpty ==
  \A o \in mem.there \cap FreesEmptyList : mem.has[o] <=> mem.list[o] # <<>>

\* An event struct is not freed while event_process() has it on the stack.
RunningIsKept == running # None => mem.event[running].st = "running"

\* No mud event outlives its character, descriptor or object: what pStruct
\* points at is allocated as long as the event is.
NoOrphans ==
  \A e \in Events :
    Allocated(mem, e) /\ mem.event[e].obj /\ mem.event[e].own \notin ByVnum
      => mem.event[e].own \in mem.there

\* The two representations of "o has this event" agree at every step of a
\* teardown, a cancellation or a callback: owner lists, the events themselves,
\* the NULL list that stands for none, and the owner that is still there.
OwnersAndEventsAgree ==
  TypeOK /\ ListsExact /\ NullWhenEmpty /\ RunningIsKept /\ NoOrphans

\* A death leaves the character at most the one event whose callback killed it.
DeathLeavesTheRunning ==
  [][\A o \in Chars : Die(o) => ToSet(mem'.list[o]) \subseteq {running}]_vars
=============================================================================
