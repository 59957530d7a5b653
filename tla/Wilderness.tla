------------------------------ MODULE Wilderness ------------------------------
(***************************************************************************)
(* Places and rooms of the wilderness.                                     *)
(*                                                                         *)
(* The map has millions of places and a pool of a few thousand rooms.  A   *)
(* place has a room while somebody is there: src/wilderness/wilderness.c   *)
(* finds the room that stands for it or lends one out, and an event, every *)
(* ten seconds, takes back a room that nobody and nothing is in.  Walkers, *)
(* spells, ships, drivers and code that only wants to look at a place all  *)
(* draw on the pool, some of them with scripts between the choice of a     *)
(* room and the arrival in it, when another may have been given the room.  *)
(*                                                                         *)
(* A command that runs scripts half way is a frame on stack; what the      *)
(* scripts do is any of the other actions.  Terrain, regions and texts of  *)
(* the rooms are left out; which places are neighbours, too: a walker may  *)
(* step anywhere.                                                          *)
(***************************************************************************)
EXTENDS Naturals, Sequences, FiniteSets

CONSTANTS
  Chars, Ships, Vehicles,
  Things,    \* what may be in a room: objects, room spells, events of the room
  Pool,      \* the numbers of the rooms of the pool that exist
  First,     \* WILD_DYNAMIC_ROOM_VNUM_START
  Fixed,     \* the rooms of the wilderness that builders made
  Encounters, \* those of them that an encounter region moves about
  Places,
  PlaceOf,   \* where each of the fixed rooms is at first
  Origin,    \* the place a mover's coordinates are before it has been anywhere
  City,      \* a room outside the wilderness
  None,      \* NOWHERE
  MaxDepth,  \* bound: commands on the stack
  MaxBodies, \* bound: how many there are in the world at once
  Risks      \* the risky situations that may come up

Rooms  == Pool \cup Fixed
Movers == Chars \cup Ships \cup Vehicles
Bodies == Movers \cup Things

\* A script that runs inside a move forces somebody to sail a ship.  An encounter
\* room moves with a hull in it, or finds no place that is free in 128 tries.
AllRisks == {"script_sails", "encounter_hits"}

ASSUME WildernessAssumption ==
  /\ Chars \cap (Ships \cup Vehicles \cup Things) = {} /\ Ships \cap (Vehicles \cup Things) = {}
  /\ Vehicles \cap Things = {}
  /\ Pool \subseteq Nat /\ First \in Nat
  /\ \A r \in Pool : First <= r
  /\ Pool \cap Fixed = {}
  /\ PlaceOf \in [Fixed -> Places] /\ Origin \in Places
  /\ \A r, s \in Fixed : PlaceOf[r] = PlaceOf[s] => r = s
  /\ Encounters \subseteq Fixed
  /\ City \notin Rooms /\ None \notin Rooms \cup {City} \cup Places
  /\ MaxDepth \in Nat /\ MaxBodies \in Nat
  /\ Risks \subseteq AllRisks

\* No number of the pool is skipped: a gap ends the search for a place.
NoGaps == \A r \in Pool : First .. r \subseteq Pool

VARIABLES
  w,       \* the rooms and who is where: see World
  mapped,  \* vessel_dynamic_room_configured
  stack    \* the commands whose scripts are running, the innermost first

vars == <<w, mapped, stack>>

World == [coords   : [Rooms -> Places \cup {None}],
          occupied : SUBSET Pool,                            \* ROOM_OCCUPIED
          checks   : SUBSET Pool,                            \* eCHECK_OCCUPIED queued
          where    : [Bodies -> Rooms \cup {City, None}],    \* IN_ROOM
          at       : [Movers -> Places]]                     \* X_LOC and Y_LOC

Frame == [who : Chars, to : Rooms \cup {City}, place : Places, from : Rooms \cup {City},
          phase : {"leaving", "entering", "going"}]

Lowest(S) == CHOOSE r \in S : \A q \in S : r <= q

-----------------------------------------------------------------------------
(* Finding, lending and marking a room.                                    *)

\* Mutant: the coordinates are compared without the fixed rooms.
FindDynamic(g, p) ==
  LET dynamic == {r \in g.occupied : g.coords[r] = p /\ First .. r \subseteq Pool}
  IN  IF dynamic # {} THEN Lowest(dynamic) ELSE None

\* The fixed room of a place, or the room in use that stands for it.
find_room_by_coordinates(g, p) ==
  LET fixed   == {r \in Fixed : g.coords[r] = p}
      dynamic == {r \in g.occupied : g.coords[r] = p /\ First .. r \subseteq Pool}
  IN  IF fixed # {} THEN CHOOSE r \in fixed : TRUE
      ELSE IF dynamic # {} THEN Lowest(dynamic) ELSE None

\* Mutant: any room nobody is in is taken to be free.
AvailableEmpty(g) ==
  LET free == {r \in Pool : \A m \in Movers : g.where[m] # r}
  IN  IF free = {} THEN None ELSE Lowest(free)

find_available_wilderness_room(g) ==
  IF Pool \ g.occupied = {} THEN None ELSE Lowest(Pool \ g.occupied)

assign_wilderness_room(g, r, p) ==
  IF r = None THEN g ELSE [g EXCEPT !.coords[r] = p]

mark_wilderness_room_occupied(g, r) ==
  IF r \in Pool THEN [g EXCEPT !.occupied = @ \cup {r}, !.checks = @ \cup {r}] ELSE g

\* The idiom of every caller: the room of p, or a free one, which becomes p's.
Reached(g, p) ==
  LET found == find_room_by_coordinates(g, p)
      r     == IF found # None THEN found ELSE find_available_wilderness_room(g)
  IN  [room |-> r,
       w    |-> IF found # None THEN g ELSE assign_wilderness_room(g, r, p)]

char_from_room(g, c) == [g EXCEPT !.where[c] = None]

\* Mutant: the room is taken as it was chosen.
ToRoomUnasked(g, c, r) ==
  IF r = None THEN g
  ELSE [mark_wilderness_room_occupied(g, r) EXCEPT !.where[c] = r]

\* A room that is not where the character is to be was lent to somebody else
\* meanwhile: another is found.  With none left the character stays NOWHERE.
char_to_room(g, c, r) ==
  LET again == IF r \in Rooms /\ g.at[c] # g.coords[r] THEN Reached(g, g.at[c])
               ELSE [room |-> r, w |-> g]
  IN  IF again.room = None THEN g
      ELSE [mark_wilderness_room_occupied(again.w, again.room)
              EXCEPT !.where[c] = again.room]

\* c leaves its room for r, where its coordinates are p.
Moved(g, c, p, r) ==
  char_to_room([char_from_room(g, c) EXCEPT !.at[c] = p], c, r)

CoordsIn(g, c, r) == IF r \in Rooms THEN g.coords[r] ELSE g.at[c]

-----------------------------------------------------------------------------
(* Coming, leaving, teleports.                                             *)

Init ==
  /\ w = [coords   |-> [r \in Rooms |-> IF r \in Fixed THEN PlaceOf[r] ELSE None],
          occupied |-> {}, checks |-> {},
          where    |-> [b \in Bodies |-> None],
          at       |-> [m \in Movers |-> Origin]]
  /\ mapped = {}
  /\ stack = <<>>

Here(c) == w.where[c] # None

\* One more may come.
MayCome(b) == ~Here(b) /\ Cardinality({d \in Bodies : Here(d)}) < MaxBodies

\* wild_mobile_loader: a mobile is loaded at a place.
wild_mobile_loader(c, p) ==
  /\ MayCome(c)
  /\ LET reached == Reached(w, p) IN
     w' = IF reached.room = None THEN w
          ELSE Moved(reached.w, c, reached.w.coords[reached.room], reached.room)
  /\ UNCHANGED <<mapped, stack>>

\* A player enters, or a mobile is loaded, in a room outside the wilderness.
Enter(c) ==
  /\ MayCome(c)
  /\ w' = char_to_room(w, c, City)
  /\ UNCHANGED <<mapped, stack>>

\* extract_char_final, at the end of a pulse: the next c is another one.
Leave(c) ==
  /\ Here(c) /\ stack = <<>>
  /\ w' = [char_from_room(w, c) EXCEPT !.at[c] = Origin]
  /\ UNCHANGED <<mapped, stack>>

\* A spell or a script brings c to where d is: somebody, or a corpse.
Summon(c, d) ==
  /\ c # d /\ Here(c) /\ Here(d)
  /\ w' = Moved(w, c, CoordsIn(w, c, w.where[d]), w.where[d])
  /\ UNCHANGED <<mapped, stack>>

\* get_direction_vnum, select_hunt_coords and others: the room of a place is
\* looked at, and nobody is put there.
Probe(p) ==
  /\ w' = Reached(w, p).w
  /\ UNCHANGED <<mapped, stack>>

-----------------------------------------------------------------------------
(* Walking, and the goto of the staff.                                     *)

Push(f) == Len(stack) < MaxDepth /\ stack' = <<f>> \o stack

\* do_simple_move chooses the room, then runs the leave triggers.
Walk(c, p) ==
  /\ w.where[c] \in Rooms /\ p # w.at[c]
  /\ LET reached == Reached(w, p) IN
       /\ reached.room # None
       /\ w' = reached.w
       /\ Push([who |-> c, to |-> reached.room, place |-> p, from |-> w.where[c],
                phase |-> "leaving"])
  /\ UNCHANGED mapped

\* The other exits: between the city and the rooms builders made.  The walker's
\* coordinates will be those of the room.
WalkFixed(c, r) ==
  /\ Here(c) /\ w.where[c] # r
  /\ Push([who |-> c, to |-> r, place |-> IF r = City THEN Origin ELSE w.coords[r], from |-> w.where[c],
           phase |-> "leaving"])
  /\ UNCHANGED <<w, mapped>>

\* do_goto with coordinates: the act() that announces it may run scripts.
Goto(c, p) ==
  /\ Here(c)
  /\ LET reached == Reached(w, p) IN
       /\ reached.room # None
       /\ w' = reached.w
       /\ Push([who |-> c, to |-> reached.room, place |-> p, from |-> w.where[c],
                phase |-> "going"])
  /\ UNCHANGED mapped

Top == stack[1]

\* A trigger, a spell or the terrain keeps the walker where he is; or, at the
\* end, nothing sends him back.
StayOrDone ==
  /\ stack # <<>> /\ Top.phase \in {"leaving", "entering"}
  /\ stack' = Tail(stack)
  /\ UNCHANGED <<w, mapped>>

\* c goes to r, and the one it rides, or who rides it, to the room c is in then.
Together(g, c, mount, p, q, r) ==
  LET h == Moved(g, c, p, r)
  IN  IF mount = c \/ h.where[mount] = h.where[c] THEN h
      ELSE Moved(h, mount, q, h.where[c])

Mounts(c, room) == {c} \cup {m \in Chars : w.where[m] = room}

\* The move itself.  Then the entry triggers run.
Arrive ==
  /\ stack # <<>> /\ Top.phase = "leaving" /\ Here(Top.who)
  /\ \E mount \in Mounts(Top.who, w.where[Top.who]) :
       w' = Together(w, Top.who, mount, Top.place, Top.place, Top.to)
  /\ stack' = <<[Top EXCEPT !.phase = "entering"]>> \o Tail(stack)
  /\ UNCHANGED mapped

\* An entry trigger sends the walker back to the room he came from.
TurnBack ==
  /\ stack # <<>> /\ Top.phase = "entering" /\ Here(Top.who)
  /\ \E mount \in Mounts(Top.who, w.where[Top.who]) :
       w' = Together(w, Top.who, mount, CoordsIn(w, Top.who, Top.from),
                     CoordsIn(w, mount, Top.from), Top.from)
  /\ stack' = Tail(stack)
  /\ UNCHANGED mapped

\* The coordinates are read off the room, whatever it stands for by now.
GotoArrives ==
  /\ stack # <<>> /\ Top.phase = "going" /\ Here(Top.who)
  /\ w' = Moved(w, Top.who, w.coords[Top.to], Top.to)
  /\ stack' = Tail(stack)
  /\ UNCHANGED mapped

-----------------------------------------------------------------------------
(* Things, ships and vehicles.                                             *)

\* Dropped, left behind as a corpse, cast.
Drop(o, c) ==
  /\ MayCome(o) /\ Here(c)
  /\ w' = [w EXCEPT !.where[o] = w.where[c]]
  /\ UNCHANGED <<mapped, stack>>

\* Taken, decayed, extracted, over.
Vanish(o) ==
  /\ w.where[o] # None
  /\ w' = [w EXCEPT !.where[o] = None]
  /\ UNCHANGED <<mapped, stack>>

Remembered(m, r) == m \cup ({r} \cap Pool)

\* get_or_allocate_wilderness_room: prefers a released room that still has the
\* coordinates, then one no ship has used.
get_or_allocate(g, m, p) ==
  LET found  == find_room_by_coordinates(g, p)
      cached == {r \in m \ g.occupied : g.coords[r] = p}
      unused == Pool \ (g.occupied \cup m)
      r      == IF unused # {} THEN Lowest(unused) ELSE find_available_wilderness_room(g)
  IN  IF found # None THEN [room |-> found, w |-> g, mapped |-> Remembered(m, found)]
      ELSE IF cached # {} THEN [room |-> Lowest(cached), w |-> g, mapped |-> m]
      ELSE [room |-> r, w |-> assign_wilderness_room(g, r, p), mapped |-> Remembered(m, r)]

Hull(g, s, r) == mark_wilderness_room_occupied([g EXCEPT !.where[s] = r], r)

MaySail == stack = <<>> \/ "script_sails" \in Risks

\* vessel_place_hull_object: a ship is made or restored.
PlaceHull(s, p) ==
  /\ MayCome(s) /\ MaySail
  /\ LET got == get_or_allocate(w, mapped, p) IN
       /\ w' = IF got.room = None THEN got.w ELSE Hull([got.w EXCEPT !.at[s] = p], s, got.room)
       /\ mapped' = got.mapped
  /\ UNCHANGED stack

\* update_ship_wilderness_position: the terrain it leaves is looked up between
\* the choice of the room and the hull's arrival there.
SailTo(s, p) ==
  /\ w.where[s] # None /\ MaySail
  /\ LET got  == get_or_allocate(w, mapped, p)
         left == get_or_allocate(got.w, got.mapped, w.at[s]) IN
     \/ /\ got.room # None
        /\ w' = Hull([left.w EXCEPT !.at[s] = p], s, got.room)
        /\ mapped' = left.mapped
     \/ /\ w' = got.w                        \* no room, or the terrain refuses
        /\ mapped' = got.mapped
  /\ UNCHANGED stack

\* do_vehiclecreate: in the room its maker is in.
MakeVehicle(v, c) ==
  /\ MayCome(v) /\ w.where[c] \in Rooms
  /\ w' = [w EXCEPT !.where[v] = w.where[c], !.at[v] = w.coords[w.where[c]]]
  /\ UNCHANGED <<mapped, stack>>

\* One who rides v follows it, in whichever room it was mounted or left.
Follows(g, c, v) ==
  IF g.where[c] = g.where[v] THEN g ELSE Moved(g, c, g.at[v], g.where[v])

\* move_vehicle and do_drive: the vehicle goes to the room of the next place,
\* then those who ride it, c and d.
Drive(v, c, d, p) ==
  /\ w.where[v] # None /\ Here(c) /\ Here(d) /\ p # w.at[v]
  /\ LET reached == Reached(w, p)
         g       == [reached.w EXCEPT !.where[v] = reached.room, !.at[v] = p] IN
       /\ reached.room # None
       /\ w' = Follows(Follows(g, c, v), d, v)
  /\ UNCHANGED <<mapped, stack>>

-----------------------------------------------------------------------------
(* The check, and the rooms that move.                                      *)

Empty(r) == \A b \in Bodies \ Vehicles : w.where[b] # r

\* event_check_occupied, between two commands: a room that is not empty is
\* looked at again ten seconds later.
event_check_occupied(r) ==
  /\ r \in w.checks /\ stack = <<>> /\ Empty(r)
  /\ w' = [w EXCEPT !.occupied = @ \ {r}, !.checks = @ \ {r}]
  /\ UNCHANGED <<mapped, stack>>

\* eENCOUNTER_REG_RESET, each minute: an encounter room nobody is in is moved to
\* where no room is in use.
EncounterReset(r, p) ==
  /\ stack = <<>> /\ \A c \in Chars : w.where[c] # r
  /\ \/ find_room_by_coordinates(w, p) = None /\ \A s \in Ships : w.where[s] # r
     \/ "encounter_hits" \in Risks
  /\ w' = [w EXCEPT !.coords[r] = p]
  /\ UNCHANGED <<mapped, stack>>

Next ==
  \/ \E c \in Chars : Enter(c) \/ Leave(c)
  \/ \E c \in Chars, p \in Places : wild_mobile_loader(c, p) \/ Walk(c, p) \/ Goto(c, p)
  \/ \E c \in Chars, d \in Chars \cup Things : Summon(c, d)
  \/ \E c \in Chars, r \in Fixed \cup {City} : WalkFixed(c, r)
  \/ \E p \in Places : Probe(p)
  \/ StayOrDone \/ Arrive \/ TurnBack \/ GotoArrives
  \/ \E o \in Things, c \in Chars : Drop(o, c)
  \/ \E o \in Things : Vanish(o)
  \/ \E s \in Ships, p \in Places : PlaceHull(s, p) \/ SailTo(s, p)
  \/ \E v \in Vehicles, c \in Chars : MakeVehicle(v, c)
  \/ \E v \in Vehicles, c, d \in Chars, p \in Places : Drive(v, c, d, p)
  \/ \E r \in Encounters, p \in Places : EncounterReset(r, p)
  \/ \E r \in Pool : event_check_occupied(r)

Spec == Init /\ [][Next]_vars

-----------------------------------------------------------------------------
(* Properties.                                                             *)

\* Every variable has its type.
TypeOK ==
  /\ w \in World
  /\ mapped \subseteq Pool
  /\ stack \in Seq(Frame) /\ Len(stack) <= MaxDepth

\* A room of the pool that holds somebody or something is flagged, so it is lent
\* to nobody else, and is looked at again, so it comes back; and who is in a
\* room of the wilderness is at its place.  Callers choose rooms, run scripts, and
\* arrive in what may have become another's room (char_to_room,
\* mark_wilderness_room_occupied, event_check_occupied).  The types come first.
LiveRoomKept ==
  /\ TypeOK
  /\ w.occupied = w.checks
  /\ \A b \in Bodies \ Vehicles : w.where[b] \in Pool => w.where[b] \in w.occupied
  /\ \A b \in Chars \cup Ships : w.where[b] \in Rooms => w.coords[w.where[b]] = w.at[b]

\* Those who are at one place meet: two walkers, a walker and a ship, are in one
\* room, however each of them came there (find_room_by_coordinates before
\* find_available_wilderness_room, at every caller).
MeetAtPlace ==
  \A a, b \in Chars \cup Ships :
    (w.where[a] \in Rooms /\ w.where[b] \in Rooms /\ w.at[a] = w.at[b])
      => w.where[a] = w.where[b]

\* What lies in a room of the pool lies at one place until somebody moves it: the
\* room is never lent for another place meanwhile.
ThingsStayInPlace ==
  [][\A o \in Things :
       (w.where[o] \in Pool /\ w'.where[o] = w.where[o])
         => w'.coords[w.where[o]] = w.coords[w.where[o]]]_vars

\* wilderness.c: "Callers that place persistent objects must mark the room ...
\* or the allocator can reuse a live room".  move_vehicle does not.
VehicleStaysInPlace ==
  \A v \in Vehicles : w.where[v] \in Rooms => w.coords[w.where[v]] = w.at[v]
=============================================================================
