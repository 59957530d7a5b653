--------------------------- MODULE WildernessProofs ---------------------------
(***************************************************************************)
(* The invariants of the wilderness, for any places, any pool of rooms and *)
(* anybody, however deep commands run scripts inside one another.          *)
(*                                                                         *)
(* They come in three layers.  What the allocator never does needs no      *)
(* hypothesis.  That all are where their coordinates say needs a pool      *)
(* without gaps and encounter rooms that move to free places.  That those  *)
(* at one place meet needs, on top, that no ship sails inside a move.      *)
(***************************************************************************)
EXTENDS Wilderness, WellFoundedInduction, SequenceTheorems, TLAPS

\* The rooms that stand for a place and for no other.
InUse(g) == g.occupied \cup Fixed

\* What is in use is checked, and covers everybody and everything but vehicles.
RoomsInv(g) ==
  /\ g \in World
  /\ g.occupied = g.checks
  /\ \A b \in Bodies \ Vehicles : g.where[b] \in Pool => g.where[b] \in g.occupied
  /\ \A r \in InUse(g) : g.coords[r] \in Places
  /\ \A s \in Ships : g.where[s] # City

\* Who is in a room of the wilderness is at its place.
AtTheirPlaces(g) ==
  \A b \in Chars \cup Ships : g.where[b] \in Rooms => g.coords[g.where[b]] = g.at[b]

\* No two rooms in use stand for one place.
OneRoomEach(g) ==
  \A r, s \in InUse(g) : g.coords[r] = g.coords[s] => r = s

\* Nobody but c moves.
OnlyMoves(g, h, c) == \A b \in Bodies \ {c} : h.where[b] = g.where[b]

\* r stands, or once stood, for a place.
Placed(g, r) == r \in Rooms => g.coords[r] \in Places

\* A free room of a place that no room in use stands for.
Alone(g, r) ==
  r \in Pool \ g.occupied => \A s \in InUse(g) : g.coords[s] # g.coords[r]

\* What is more, every search for a free room comes up with this one.
Chosen(g, r) ==
  /\ Alone(g, r)
  /\ r \in Pool \ g.occupied => \A q \in Pool \ g.occupied : r <= q

Typed  == mapped \subseteq Pool /\ stack \in Seq(Frame) /\ Len(stack) <= MaxDepth
PlacedFrames ==
  \A i \in 1 .. Len(stack) :
    /\ Placed(w, stack[i].to) /\ Placed(w, stack[i].from)
    /\ stack[i].phase = "going" => stack[i].to \in Rooms
ChosenFrames ==
  \A i \in 1 .. Len(stack) : Chosen(w, stack[i].to) /\ Chosen(w, stack[i].from)

\* h comes after g: what is in use stays in use, for the same place.
Later(g, h) ==
  /\ g.occupied \subseteq h.occupied
  /\ \A r \in InUse(g) : h.coords[r] = g.coords[r]
  /\ \A r \in Rooms : Placed(g, r) => Placed(h, r)

StaysChosen(g, h) == \A r \in Pool : Chosen(g, r) => Chosen(h, r)

\* h is g but for the room r, which was free or stood for p before, and now does.
Lent(g, h, r, p) ==
  /\ r \in Rooms \cup {None}
  /\ h \in World /\ h.occupied = g.occupied /\ h.checks = g.checks
  /\ h.where = g.where /\ h.at = g.at
  /\ r # None => h.coords[r] = p
  /\ \A q \in Rooms : q # r \/ q \in InUse(g) => h.coords[q] = g.coords[q]

\* Everything there is to prove, each layer under the hypotheses it needs.
CalmEncounters == NoGaps /\ "encounter_hits" \notin Risks
CalmSeas       == NoGaps /\ Risks = {}

IInv == RoomsInv(w) /\ Typed /\ PlacedFrames
MeetInv == OneRoomEach(w) /\ ChosenFrames
Inv == IInv /\ (CalmEncounters => AtTheirPlaces(w)) /\ (CalmSeas => MeetInv)

-----------------------------------------------------------------------------
(* Lemmas: numbers, and the operators that find, lend and mark a room.      *)

\* The lowest number of a set of numbers is in it.
LEMMA LowestIsLeast ==
  ASSUME NEW S, S \subseteq Nat, S # {}
  PROVE  Lowest(S) \in S /\ \A q \in S : Lowest(S) <= q
<1> DEFINE R == OpToRel(<, Nat)
<1>1. IsWellFoundedOn(R, Nat)
  BY NatLessThanWellFounded, Zenon
<1>2. \A a, b \in Nat : a < b => <<a, b>> \in R
  BY DEF OpToRel
<1> HIDE DEF R
<1>3. PICK r \in S : \A q \in S : ~ (<<q, r>> \in R)
  BY <1>1, WFMin, Zenon
<1>4. ASSUME NEW q \in S PROVE r <= q
  <2>1. r \in Nat /\ q \in Nat
    OBVIOUS
  <2>2. ~ (q < r)
    BY <1>2, <1>3, <2>1
  <2>3. QED
    BY <2>1, <2>2
<1>5. QED
  BY <1>4 DEF Lowest

\* Who is what.
LEMMA Kinds ==
  /\ Chars \cup Ships \cup Things = Bodies \ Vehicles
  /\ Chars \cup Ships \cup Vehicles = Movers
  /\ Movers \subseteq Bodies
  /\ Chars \cap Ships = {}
BY WildernessAssumption DEF Bodies, Movers

\* The fields of a world.
LEMMA Fields ==
  ASSUME NEW g \in World
  PROVE  /\ g.coords \in [Rooms -> Places \cup {None}]
         /\ g.occupied \subseteq Pool /\ g.checks \subseteq Pool
         /\ g.where \in [Bodies -> Rooms \cup {City, None}]
         /\ g.at \in [Movers -> Places]
BY DEF World

\* What a lookup finds is in use and stands for the place; without gaps it finds the
\* room of every place that has one.
LEMMA FindFinds ==
  ASSUME NEW g, RoomsInv(g), NEW p \in Places
  PROVE  LET found == find_room_by_coordinates(g, p) IN
         /\ found # None => found \in InUse(g) /\ g.coords[found] = p
         /\ NoGaps /\ found = None => \A r \in InUse(g) : g.coords[r] # p
<1> DEFINE fixed   == {r \in Fixed : g.coords[r] = p}
           dynamic == {r \in g.occupied : g.coords[r] = p /\ First .. r \subseteq Pool}
           found   == find_room_by_coordinates(g, p)
<1>1. found = IF fixed # {} THEN CHOOSE r \in fixed : TRUE
              ELSE IF dynamic # {} THEN Lowest(dynamic) ELSE None
  BY DEF find_room_by_coordinates
<1>2. dynamic \subseteq Nat /\ g.occupied \subseteq Pool
  BY WildernessAssumption, Fields DEF RoomsInv
<1>3. dynamic # {} => Lowest(dynamic) \in dynamic
  <2> HIDE DEF dynamic
  <2>1. QED
    BY <1>2, LowestIsLeast
<1>4. None \notin fixed /\ None \notin dynamic
  BY <1>2, WildernessAssumption DEF Rooms
<1>5. found # None => found \in fixed \cup dynamic
  <2> HIDE DEF fixed, dynamic, found
  <2>1. QED
    BY <1>1, <1>3
<1>6. found = None => fixed = {} /\ dynamic = {}
  <2> HIDE DEF fixed, dynamic, found
  <2>1. QED
    BY <1>1, <1>3, <1>4
<1>7. NoGaps => \A r \in g.occupied : First .. r \subseteq Pool
  BY <1>2 DEF NoGaps
<1>8. QED
  BY <1>5, <1>6, <1>7 DEF InUse

\* Lending a room changes what it stands for and nothing else.
LEMMA AssignFields ==
  ASSUME NEW g \in World, NEW r \in Rooms, NEW p \in Places
  PROVE  LET h == assign_wilderness_room(g, r, p) IN
         /\ h \in World
         /\ h.coords = [g.coords EXCEPT ![r] = p]
         /\ h.occupied = g.occupied /\ h.checks = g.checks
         /\ h.where = g.where /\ h.at = g.at
<1>1. r # None
  BY WildernessAssumption
<1>2. assign_wilderness_room(g, r, p) = [g EXCEPT !.coords[r] = p]
  BY <1>1 DEF assign_wilderness_room
<1>3. QED
  BY <1>2 DEF World

\* Marking a room flags it and has it checked, and nothing else.
LEMMA MarkFields ==
  ASSUME NEW g \in World, NEW r
  PROVE  LET h == mark_wilderness_room_occupied(g, r) IN
         /\ h \in World
         /\ h.occupied = g.occupied \cup ({r} \cap Pool)
         /\ h.checks = g.checks \cup ({r} \cap Pool)
         /\ h.coords = g.coords /\ h.where = g.where /\ h.at = g.at
<1>1. CASE r \in Pool
  BY <1>1 DEF mark_wilderness_room_occupied, World
<1>2. CASE r \notin Pool
  BY <1>2 DEF mark_wilderness_room_occupied, World
<1>3. QED
  BY <1>1, <1>2

\* A free room, if there is one, the lowest.
LEMMA AvailableRoom ==
  ASSUME NEW g, RoomsInv(g)
  PROVE  LET r == find_available_wilderness_room(g) IN
         r # None => r \in Pool \ g.occupied /\ \A q \in Pool \ g.occupied : r <= q
<1> DEFINE free == Pool \ g.occupied
<1>1. free \subseteq Nat
  BY WildernessAssumption
<1>2. find_available_wilderness_room(g) = IF free = {} THEN None ELSE Lowest(free)
  BY DEF find_available_wilderness_room
<1> HIDE DEF free
<1>3. free # {} => Lowest(free) \in free /\ \A q \in free : Lowest(free) <= q
  BY <1>1, LowestIsLeast
<1>4. QED
  BY <1>2, <1>3 DEF free

\* The idiom of the callers comes up with the room of p, or a free one, which becomes p's.
LEMMA ReachedRoom ==
  ASSUME NEW g, RoomsInv(g), NEW p \in Places
  PROVE  LET h == Reached(g, p).w
             r == Reached(g, p).room IN
         /\ Lent(g, h, r, p)
         /\ NoGaps => Chosen(h, r)
<1> DEFINE h     == Reached(g, p).w
           r     == Reached(g, p).room
           found == find_room_by_coordinates(g, p)
           free  == find_available_wilderness_room(g)
<1>1. /\ r = IF found # None THEN found ELSE free
      /\ h = IF found # None THEN g ELSE assign_wilderness_room(g, r, p)
  BY DEF Reached
<1>2. /\ found # None => found \in InUse(g) /\ g.coords[found] = p
      /\ NoGaps /\ found = None => \A q \in InUse(g) : g.coords[q] # p
  BY FindFinds
<1>3. free # None => free \in Pool \ g.occupied /\ \A q \in Pool \ g.occupied : free <= q
  BY AvailableRoom
<1>4. /\ g \in World /\ g.occupied \subseteq Pool /\ InUse(g) \subseteq Rooms
      /\ Pool \subseteq Rooms /\ Pool \cap Fixed = {}
      /\ g.coords \in [Rooms -> Places \cup {None}]
  BY Fields, WildernessAssumption DEF RoomsInv, InUse, Rooms
<1> HIDE DEF h, r, found, free
<1>5. CASE found # None
  <2>1. h = g /\ r = found /\ r \in InUse(g)
    BY <1>1, <1>2, <1>5
  <2>2. Chosen(h, r)
    BY <2>1, <1>4 DEF Chosen, Alone, InUse
  <2>3. QED
    BY <2>1, <2>2, <1>2, <1>4, <1>5 DEF h, r, Lent
<1>6. CASE found = None /\ free = None
  <2>1. h = g /\ r = None
    BY <1>1, <1>6 DEF assign_wilderness_room
  <2>2. r \notin Pool
    BY <2>1, WildernessAssumption DEF Rooms
  <2>3. QED
    BY <2>1, <2>2, <1>4 DEF h, r, Lent, Chosen, Alone
<1>7. CASE found = None /\ free # None
  <2>1. r = free /\ r \in Pool \ g.occupied /\ r \in Rooms /\ r \notin InUse(g)
    BY <1>1, <1>3, <1>4, <1>7 DEF InUse
  <2>2. h = assign_wilderness_room(g, r, p)
    BY <1>1, <1>7
  <2>3. /\ h \in World
        /\ h.coords = [g.coords EXCEPT ![r] = p]
        /\ h.occupied = g.occupied /\ h.checks = g.checks
        /\ h.where = g.where /\ h.at = g.at
    BY <2>1, <2>2, <1>4, AssignFields
  <2>4. h.coords[r] = p /\ \A q \in Rooms : q # r => h.coords[q] = g.coords[q]
    BY <2>1, <2>3, <1>4
  <2>5. NoGaps => Chosen(h, r)
    <3>1. InUse(h) = InUse(g)
      BY <2>3 DEF InUse
    <3>2. QED
      BY <3>1, <2>1, <2>3, <2>4, <1>2, <1>3, <1>4, <1>7 DEF Chosen, Alone
  <2>6. QED
    BY <2>1, <2>3, <2>4, <2>5 DEF h, r, Lent
<1>8. QED
  BY <1>5, <1>6, <1>7

\* A free room that is lent leaves every layer of the invariant as it was.
LEMMA LentSound ==
  ASSUME NEW g, RoomsInv(g), NEW h, NEW r, NEW p \in Places, Lent(g, h, r, p)
  PROVE  /\ RoomsInv(h)
         /\ Later(g, h)
         /\ AtTheirPlaces(g) => AtTheirPlaces(h)
         /\ OneRoomEach(g) => OneRoomEach(h)
<1>1. /\ g \in World /\ g.occupied \subseteq Pool /\ InUse(g) \subseteq Rooms
      /\ g.where \in [Bodies -> Rooms \cup {City, None}]
      /\ None \notin Rooms
  BY Fields, WildernessAssumption DEF RoomsInv, InUse, Rooms
<1>2. InUse(h) = InUse(g)
  BY DEF InUse, Lent
<1>3. RoomsInv(h)
  BY <1>1, <1>2 DEF RoomsInv, Lent
<1>4. Later(g, h)
  <2>1. \A q \in Rooms : Placed(g, q) => Placed(h, q)
    BY <1>1 DEF Placed, Lent
  <2>2. QED
    BY <2>1, <1>1 DEF Later, Lent
<1>5. AtTheirPlaces(g) => AtTheirPlaces(h)
  <2>1. \A b \in Chars \cup Ships : g.where[b] \in Rooms => g.where[b] \in InUse(g)
    <3>1. Chars \cup Ships \subseteq Bodies \ Vehicles
      BY Kinds
    <3>2. QED
      BY <3>1 DEF RoomsInv, InUse, Rooms
  <2>2. QED
    BY <2>1 DEF AtTheirPlaces, Lent
<1>6. OneRoomEach(g) => OneRoomEach(h)
  BY <1>1, <1>2 DEF OneRoomEach, Lent
<1>7. QED
  BY <1>3, <1>4, <1>5, <1>6

\* What was chosen before a lookup is chosen after it.
LEMMA ReachedSound ==
  ASSUME NEW g, RoomsInv(g), NEW p \in Places
  PROVE  LET h == Reached(g, p).w IN
         /\ RoomsInv(h)
         /\ Later(g, h)
         /\ AtTheirPlaces(g) => AtTheirPlaces(h)
         /\ OneRoomEach(g) => OneRoomEach(h)
         /\ NoGaps => StaysChosen(g, h)
<1> DEFINE h == Reached(g, p).w
           r == Reached(g, p).room
<1>1. Lent(g, h, r, p) /\ (NoGaps => Chosen(h, r))
  BY ReachedRoom
<1>2. g.occupied \subseteq Pool /\ InUse(g) \subseteq Rooms
  BY Fields DEF RoomsInv, InUse, Rooms
<1> HIDE DEF h, r
<1>3. InUse(h) = InUse(g)
  BY <1>1 DEF InUse, Lent
<1>4. NoGaps => StaysChosen(g, h)
  <2> SUFFICES ASSUME NoGaps, NEW q \in Pool, Chosen(g, q) PROVE Chosen(h, q)
    BY DEF StaysChosen
  <2>1. CASE q = r
    BY <2>1, <1>1
  <2>2. CASE q # r
    BY <2>2, <1>1, <1>2, <1>3 DEF Chosen, Alone, Lent, Rooms
  <2>3. QED
    BY <2>1, <2>2
<1>5. QED
  BY <1>1, <1>4, LentSound DEF h

\* Later is transitive, and so is StaysChosen.
LEMMA LaterTransitive ==
  ASSUME NEW f, NEW g, NEW h
  PROVE  /\ Later(f, g) /\ Later(g, h) => Later(f, h)
         /\ StaysChosen(f, g) /\ StaysChosen(g, h) => StaysChosen(f, h)
<1>1. ASSUME Later(f, g), Later(g, h) PROVE Later(f, h)
  <2>1. \A r \in InUse(f) : r \in InUse(g)
    BY <1>1 DEF Later, InUse
  <2>2. QED
    BY <1>1, <2>1 DEF Later
<1>2. ASSUME StaysChosen(f, g), StaysChosen(g, h) PROVE StaysChosen(f, h)
  BY <1>2 DEF StaysChosen
<1>3. QED
  BY <1>1, <1>2

\* A room is marked for one who stands at its place: the layers stay, and a room that
\* was chosen comes into use with no other room for its place.
LEMMA MarkSound ==
  ASSUME NEW g, RoomsInv(g), NEW r \in Rooms, Placed(g, r)
  PROVE  LET h == mark_wilderness_room_occupied(g, r) IN
         /\ RoomsInv(h)
         /\ Later(g, h)
         /\ r \in InUse(h)
         /\ AtTheirPlaces(g) => AtTheirPlaces(h)
         /\ OneRoomEach(g) /\ Alone(g, r) => OneRoomEach(h)
         /\ Chosen(g, r) => StaysChosen(g, h)
<1> DEFINE h == mark_wilderness_room_occupied(g, r)
<1>1. /\ h \in World
      /\ h.occupied = g.occupied \cup ({r} \cap Pool)
      /\ h.checks = g.checks \cup ({r} \cap Pool)
      /\ h.coords = g.coords /\ h.where = g.where /\ h.at = g.at
  BY MarkFields DEF RoomsInv
<1> HIDE DEF h
<1>2. InUse(h) = InUse(g) \cup {r}
  BY <1>1 DEF InUse, Rooms
<1>3. RoomsInv(h)
  BY <1>1, <1>2 DEF RoomsInv, Placed
<1>4. Later(g, h)
  BY <1>1 DEF Later, Placed
<1>5. AtTheirPlaces(g) => AtTheirPlaces(h)
  BY <1>1 DEF AtTheirPlaces
<1>6. CASE r \in InUse(g)
  <2>1. InUse(h) = InUse(g) /\ h.occupied = g.occupied
    BY <1>1, <1>2, <1>6, WildernessAssumption DEF InUse
  <2>2. (OneRoomEach(g) => OneRoomEach(h)) /\ StaysChosen(g, h)
    BY <2>1, <1>1 DEF OneRoomEach, StaysChosen, Chosen, Alone
  <2>3. QED
    BY <2>2, <1>1, <1>2, <1>3, <1>4, <1>5 DEF h
<1>7. CASE r \notin InUse(g)
  <2>1. r \in Pool \ g.occupied
    BY <1>7 DEF InUse, Rooms
  <2>2. OneRoomEach(g) /\ Alone(g, r) => OneRoomEach(h)
    BY <2>1, <1>1, <1>2 DEF Alone, OneRoomEach
  <2>3. ASSUME Chosen(g, r), NEW q \in Pool, Chosen(g, q), q \notin h.occupied PROVE FALSE
    <3>1. q \in Pool \ g.occupied /\ q # r
      BY <2>3, <1>1, <2>1
    <3>2. q <= r /\ r <= q
      BY <3>1, <2>1, <2>3 DEF Chosen
    <3>3. QED
      BY <3>1, <3>2, <2>1, WildernessAssumption
  <2>4. Chosen(g, r) => StaysChosen(g, h)
    BY <2>3 DEF StaysChosen, Chosen, Alone
  <2>5. QED
    BY <2>2, <2>4, <1>1, <1>2, <1>3, <1>4, <1>5 DEF h
<1>8. QED
  BY <1>6, <1>7

\* Somebody moves, and no room changes.
LEMMA SameRooms ==
  ASSUME NEW g, RoomsInv(g), NEW h \in World,
         h.coords = g.coords, h.occupied = g.occupied, h.checks = g.checks,
         \A b \in Bodies \ Vehicles : h.where[b] \in Pool => h.where[b] \in g.occupied,
         \A s \in Ships : h.where[s] # City
  PROVE  /\ RoomsInv(h)
         /\ Later(g, h)
         /\ OneRoomEach(g) => OneRoomEach(h)
         /\ StaysChosen(g, h)
         /\ (\A b \in Chars \cup Ships : h.where[b] \in Rooms =>
               \/ h.coords[h.where[b]] = h.at[b]
               \/ h.where[b] = g.where[b] /\ h.at[b] = g.at[b])
            => (AtTheirPlaces(g) => AtTheirPlaces(h))
<1>1. InUse(h) = InUse(g)
  BY DEF InUse
<1>2. RoomsInv(h)
  BY <1>1 DEF RoomsInv
<1>3. Later(g, h) /\ StaysChosen(g, h)
  BY <1>1 DEF Later, Placed, StaysChosen, Chosen, Alone
<1>4. OneRoomEach(g) => OneRoomEach(h)
  BY <1>1 DEF OneRoomEach
<1>5. QED
  BY <1>2, <1>3, <1>4 DEF AtTheirPlaces

\* One who is at the place of a room in use, and somewhere else or nowhere, is put there.
LEMMA PutSound ==
  ASSUME NEW g, RoomsInv(g), NEW c \in Chars \cup Ships, NEW r \in InUse(g),
         g.coords[r] = g.at[c]
  PROVE  LET h == [g EXCEPT !.where[c] = r] IN
         /\ RoomsInv(h)
         /\ h.where = [g.where EXCEPT ![c] = r]
         /\ h.occupied = g.occupied /\ h.coords = g.coords /\ h.at = g.at
         /\ Later(g, h)
         /\ AtTheirPlaces(g) => AtTheirPlaces(h)
         /\ OneRoomEach(g) => OneRoomEach(h)
         /\ StaysChosen(g, h)
<1> DEFINE h == [g EXCEPT !.where[c] = r]
<1>1. c \in Bodies \ Vehicles /\ Chars \cup Ships \subseteq Bodies
  BY Kinds
<1>2. /\ g \in World /\ g.occupied \subseteq Pool /\ r \in Rooms /\ r # City
      /\ g.where \in [Bodies -> Rooms \cup {City, None}]
  BY Fields, WildernessAssumption DEF RoomsInv, InUse, Rooms
<1>3. /\ h \in World
      /\ h.where = [g.where EXCEPT ![c] = r]
      /\ h.occupied = g.occupied /\ h.checks = g.checks
      /\ h.coords = g.coords /\ h.at = g.at
  BY <1>1, <1>2 DEF World
<1> HIDE DEF h
<1>4. \A b \in Bodies \ Vehicles : h.where[b] \in Pool => h.where[b] \in g.occupied
  BY <1>2, <1>3, WildernessAssumption DEF RoomsInv, InUse
<1>5. \A s \in Ships : h.where[s] # City
  BY <1>1, <1>2, <1>3 DEF RoomsInv
<1>6. \A b \in Chars \cup Ships : h.where[b] \in Rooms =>
        \/ h.coords[h.where[b]] = h.at[b]
        \/ h.where[b] = g.where[b] /\ h.at[b] = g.at[b]
  BY <1>1, <1>2, <1>3
<1>7. /\ RoomsInv(h) /\ Later(g, h)
      /\ AtTheirPlaces(g) => AtTheirPlaces(h)
      /\ OneRoomEach(g) => OneRoomEach(h)
      /\ StaysChosen(g, h)
  BY <1>3, <1>4, <1>5, <1>6, SameRooms
<1>8. QED
  BY <1>3, <1>7 DEF h

\* One who is nowhere, wherever his coordinates are, is no hindrance.
LEMMA LeftSound ==
  ASSUME NEW g, RoomsInv(g), NEW c \in Chars, NEW p \in Places
  PROVE  LET h == [char_from_room(g, c) EXCEPT !.at[c] = p] IN
         /\ RoomsInv(h)
         /\ h.where = [g.where EXCEPT ![c] = None] /\ h.where[c] = None
         /\ h.at = [g.at EXCEPT ![c] = p]
         /\ Later(g, h)
         /\ AtTheirPlaces(g) => AtTheirPlaces(h)
         /\ OneRoomEach(g) => OneRoomEach(h)
         /\ StaysChosen(g, h)
<1> DEFINE h == [char_from_room(g, c) EXCEPT !.at[c] = p]
<1>1. /\ g \in World /\ c \in Bodies /\ c \in Movers /\ Chars \cup Ships \subseteq Movers
      /\ Movers \subseteq Bodies
      /\ g.where \in [Bodies -> Rooms \cup {City, None}]
      /\ g.at \in [Movers -> Places]
      /\ None \notin Rooms \cup {City}
  BY Fields, Kinds, WildernessAssumption DEF RoomsInv
<1>2. /\ h \in World
      /\ h.where = [g.where EXCEPT ![c] = None] /\ h.at = [g.at EXCEPT ![c] = p]
      /\ h.occupied = g.occupied /\ h.checks = g.checks /\ h.coords = g.coords
  BY <1>1 DEF char_from_room, World
<1> HIDE DEF h
<1>3. \A b \in Bodies \ Vehicles : h.where[b] \in Pool => h.where[b] \in g.occupied
  BY <1>1, <1>2 DEF RoomsInv, Rooms
<1>4. \A s \in Ships : h.where[s] # City
  BY <1>1, <1>2 DEF RoomsInv
<1>5. \A b \in Chars \cup Ships : h.where[b] \in Rooms =>
        \/ h.coords[h.where[b]] = h.at[b]
        \/ h.where[b] = g.where[b] /\ h.at[b] = g.at[b]
  BY <1>1, <1>2
<1>6. h.where[c] = None
  BY <1>1, <1>2
<1>7. /\ RoomsInv(h) /\ Later(g, h)
      /\ AtTheirPlaces(g) => AtTheirPlaces(h)
      /\ OneRoomEach(g) => OneRoomEach(h)
      /\ StaysChosen(g, h)
  BY <1>2, <1>3, <1>4, <1>5, SameRooms
<1>8. QED
  BY <1>2, <1>6, <1>7 DEF h

\* A thing is put where somebody is, or away.
LEMMA ThingSound ==
  ASSUME NEW g, RoomsInv(g), NEW o \in Things, NEW r \in InUse(g) \cup {City, None}
  PROVE  LET h == [g EXCEPT !.where[o] = r] IN
         /\ RoomsInv(h)
         /\ Later(g, h)
         /\ AtTheirPlaces(g) => AtTheirPlaces(h)
         /\ OneRoomEach(g) => OneRoomEach(h)
         /\ StaysChosen(g, h)
<1> DEFINE h == [g EXCEPT !.where[o] = r]
<1>1. /\ g \in World /\ o \in Bodies /\ Chars \cup Ships \subseteq Bodies
      /\ o \notin Chars \cup Ships
      /\ g.occupied \subseteq Pool
      /\ g.where \in [Bodies -> Rooms \cup {City, None}]
      /\ None \notin Rooms \cup {City} /\ City \notin Rooms /\ Pool \cap Fixed = {}
  BY Fields, WildernessAssumption DEF RoomsInv, Bodies, Movers
<1>2. r \in Rooms \cup {City, None} /\ (r \in Pool => r \in g.occupied)
  BY <1>1 DEF InUse, Rooms
<1>3. /\ h \in World
      /\ h.where = [g.where EXCEPT ![o] = r] /\ h.at = g.at
      /\ h.occupied = g.occupied /\ h.checks = g.checks /\ h.coords = g.coords
  BY <1>1, <1>2 DEF World
<1> HIDE DEF h
<1>4. \A b \in Bodies \ Vehicles : h.where[b] \in Pool => h.where[b] \in g.occupied
  BY <1>1, <1>2, <1>3 DEF RoomsInv
<1>5. \A b \in Chars \cup Ships : h.where[b] = g.where[b] /\ h.at[b] = g.at[b]
  BY <1>1, <1>3
<1>6. \A s \in Ships : h.where[s] # City
  BY <1>5 DEF RoomsInv
<1>7. /\ RoomsInv(h) /\ Later(g, h) /\ StaysChosen(g, h)
      /\ OneRoomEach(g) => OneRoomEach(h)
  BY <1>3, <1>4, <1>5, <1>6, SameRooms
<1>8. AtTheirPlaces(g) => AtTheirPlaces(h)
  BY <1>3, <1>5 DEF AtTheirPlaces
<1>9. QED
  BY <1>3, <1>6, <1>7, <1>8 DEF h

\* A vehicle goes to any room, wherever its coordinates are.
LEMMA VehicleSound ==
  ASSUME NEW g, RoomsInv(g), NEW v \in Vehicles, NEW r \in Rooms, NEW p \in Places
  PROVE  LET h == [g EXCEPT !.where[v] = r, !.at[v] = p] IN
         /\ RoomsInv(h)
         /\ Later(g, h)
         /\ AtTheirPlaces(g) => AtTheirPlaces(h)
         /\ OneRoomEach(g) => OneRoomEach(h)
         /\ StaysChosen(g, h)
<1> DEFINE h == [g EXCEPT !.where[v] = r, !.at[v] = p]
<1>1. /\ g \in World /\ v \in Movers /\ v \in Bodies /\ Chars \cup Ships \subseteq Movers
      /\ Chars \cup Ships \subseteq Bodies /\ v \notin Chars \cup Ships
      /\ g.where \in [Bodies -> Rooms \cup {City, None}]
      /\ g.at \in [Movers -> Places]
  BY Fields, WildernessAssumption DEF RoomsInv, Bodies, Movers
<1>2. /\ h \in World
      /\ h.where = [g.where EXCEPT ![v] = r] /\ h.at = [g.at EXCEPT ![v] = p]
      /\ h.occupied = g.occupied /\ h.checks = g.checks /\ h.coords = g.coords
  BY <1>1 DEF World
<1> HIDE DEF h
<1>3. \A b \in Bodies \ Vehicles : h.where[b] \in Pool => h.where[b] \in g.occupied
  BY <1>1, <1>2 DEF RoomsInv
<1>4. \A b \in Chars \cup Ships : h.where[b] = g.where[b] /\ h.at[b] = g.at[b]
  BY <1>1, <1>2
<1>5. \A s \in Ships : h.where[s] # City
  BY <1>4 DEF RoomsInv
<1>6. /\ RoomsInv(h) /\ Later(g, h) /\ StaysChosen(g, h)
      /\ OneRoomEach(g) => OneRoomEach(h)
  BY <1>2, <1>3, <1>4, <1>5, SameRooms
<1>7. AtTheirPlaces(g) => AtTheirPlaces(h)
  BY <1>2, <1>4 DEF AtTheirPlaces
<1>8. QED
  BY <1>2, <1>6, <1>7 DEF h

\* Marking a room for one who stands at its place, and putting him there.
LEMMA SettleSound ==
  ASSUME NEW g, RoomsInv(g), NEW c \in Chars \cup Ships, NEW r \in Rooms,
         g.coords[r] = g.at[c]
  PROVE  LET h == [mark_wilderness_room_occupied(g, r) EXCEPT !.where[c] = r] IN
         /\ RoomsInv(h)
         /\ Later(g, h)
         /\ h.where = [g.where EXCEPT ![c] = r] /\ h.coords = g.coords /\ h.at = g.at
         /\ r \in InUse(h)
         /\ AtTheirPlaces(g) => AtTheirPlaces(h)
         /\ OneRoomEach(g) /\ Alone(g, r) => OneRoomEach(h)
         /\ Chosen(g, r) => StaysChosen(g, h)
<1> DEFINE m == mark_wilderness_room_occupied(g, r)
           h == [m EXCEPT !.where[c] = r]
<1>1. Placed(g, r)
  BY Fields, Kinds DEF RoomsInv, Placed
<1>2. /\ RoomsInv(m) /\ Later(g, m) /\ r \in InUse(m)
      /\ AtTheirPlaces(g) => AtTheirPlaces(m)
      /\ OneRoomEach(g) /\ Alone(g, r) => OneRoomEach(m)
      /\ Chosen(g, r) => StaysChosen(g, m)
  BY <1>1, MarkSound
<1>3. m.coords = g.coords /\ m.where = g.where /\ m.at = g.at
  BY MarkFields DEF RoomsInv
<1> HIDE DEF m
<1>4. /\ RoomsInv(h) /\ Later(m, h)
      /\ h.where = [m.where EXCEPT ![c] = r]
      /\ h.occupied = m.occupied /\ h.coords = m.coords /\ h.at = m.at
      /\ AtTheirPlaces(m) => AtTheirPlaces(h)
      /\ OneRoomEach(m) => OneRoomEach(h)
      /\ StaysChosen(m, h)
  BY <1>2, <1>3, PutSound
<1>5. r \in InUse(h)
  BY <1>2, <1>4 DEF InUse
<1> HIDE DEF h
<1>6. /\ Later(g, h)
      /\ OneRoomEach(g) /\ Alone(g, r) => OneRoomEach(h)
      /\ Chosen(g, r) => StaysChosen(g, h)
  BY <1>2, <1>4, LaterTransitive
<1>7. QED
  BY <1>2, <1>3, <1>4, <1>5, <1>6 DEF h, m

\* One who is nowhere goes to r, or, if r became the room of another place, to the room
\* of the place he is to be at; if he comes anywhere, the room is in use.
LEMMA CharToRoomSound ==
  ASSUME NEW g, RoomsInv(g), NEW c \in Chars, NEW r \in Rooms \cup {City, None},
         g.where[c] = None
  PROVE  LET h == char_to_room(g, c, r) IN
         /\ RoomsInv(h)
         /\ Later(g, h)
         /\ h.where[c] \in InUse(h) \cup {City, None}
         /\ h.at = g.at
         /\ OnlyMoves(g, h, c)
         /\ AtTheirPlaces(g) => AtTheirPlaces(h)
         /\ NoGaps /\ OneRoomEach(g) /\ Chosen(g, r) => OneRoomEach(h) /\ StaysChosen(g, h)
<1> DEFINE h     == char_to_room(g, c, r)
           p     == g.at[c]
           lent  == r \in Rooms /\ p # g.coords[r]
           again == IF lent THEN Reached(g, p) ELSE [room |-> r, w |-> g]
<1>1. /\ g \in World /\ c \in Bodies /\ c \in Chars \cup Ships /\ p \in Places
      /\ g.where \in [Bodies -> Rooms \cup {City, None}]
      /\ g.occupied \subseteq Pool
      /\ None \notin Rooms \cup {City} /\ City \notin Rooms
  BY Fields, Kinds, WildernessAssumption DEF RoomsInv
<1>2. h = IF again.room = None THEN g
          ELSE [mark_wilderness_room_occupied(again.w, again.room)
                  EXCEPT !.where[c] = again.room]
  BY DEF char_to_room
<1>3. Later(g, g) /\ StaysChosen(g, g)
  BY DEF Later, StaysChosen
<1> HIDE DEF h, p
<1>4. CASE again.room = None
  <2>1. h = g
    BY <1>2, <1>4
  <2>2. QED
    BY <2>1, <1>1, <1>3 DEF h, OnlyMoves
<1>5. CASE ~lent /\ r = City
  <2>1. r \notin Pool /\ r # None
    BY <1>1, <1>5 DEF Rooms
  <2>2. h = [g EXCEPT !.where[c] = City]
    BY <1>2, <1>5, <2>1 DEF mark_wilderness_room_occupied
  <2>3. /\ h \in World
        /\ h.where = [g.where EXCEPT ![c] = City]
        /\ h.occupied = g.occupied /\ h.checks = g.checks
        /\ h.coords = g.coords /\ h.at = g.at
    BY <2>2, <1>1 DEF World
  <2>4. \A b \in Bodies \ Vehicles : h.where[b] \in Pool => h.where[b] \in g.occupied
    BY <2>3, <1>1 DEF RoomsInv, Rooms
  <2>5. /\ \A s \in Ships : h.where[s] # City
        /\ \A b \in Chars \cup Ships : h.where[b] \in Rooms => h.where[b] = g.where[b]
    BY <2>3, <1>1, Kinds DEF RoomsInv
  <2>6. /\ RoomsInv(h) /\ Later(g, h) /\ StaysChosen(g, h)
        /\ AtTheirPlaces(g) => AtTheirPlaces(h)
        /\ OneRoomEach(g) => OneRoomEach(h)
    BY <2>3, <2>4, <2>5, SameRooms
  <2>7. QED
    BY <2>3, <2>6, <1>1 DEF h, OnlyMoves
<1>6. CASE ~lent /\ r \in Rooms
  <2>1. g.coords[r] = g.at[c]
    BY <1>6 DEF p
  <2>2. h = [mark_wilderness_room_occupied(g, r) EXCEPT !.where[c] = r]
    BY <1>1, <1>2, <1>6
  <2>3. /\ RoomsInv(h) /\ Later(g, h)
        /\ h.where = [g.where EXCEPT ![c] = r] /\ h.at = g.at
        /\ r \in InUse(h)
        /\ AtTheirPlaces(g) => AtTheirPlaces(h)
        /\ OneRoomEach(g) /\ Chosen(g, r) => OneRoomEach(h) /\ StaysChosen(g, h)
    BY <1>1, <1>6, <2>1, <2>2, SettleSound DEF Chosen
  <2>4. QED
    BY <1>1, <2>3 DEF h, OnlyMoves
<1>7. CASE lent /\ again.room # None
  <2> DEFINE a == Reached(g, p).w
             q == Reached(g, p).room
  <2>1. h = [mark_wilderness_room_occupied(a, q) EXCEPT !.where[c] = q]
    BY <1>2, <1>7
  <2>2. /\ q \in Rooms /\ a.where = g.where /\ a.at = g.at /\ a.coords[q] = p
        /\ NoGaps => Chosen(a, q)
    BY <1>1, <1>7, ReachedRoom DEF Lent
  <2>3. /\ RoomsInv(a) /\ Later(g, a)
        /\ AtTheirPlaces(g) => AtTheirPlaces(a)
        /\ OneRoomEach(g) => OneRoomEach(a)
        /\ NoGaps => StaysChosen(g, a)
    BY <1>1, ReachedSound
  <2> HIDE DEF a, q
  <2>4. a.coords[q] = a.at[c]
    BY <2>2 DEF p
  <2>5. /\ RoomsInv(h) /\ Later(a, h)
        /\ h.where = [a.where EXCEPT ![c] = q] /\ h.at = a.at
        /\ q \in InUse(h)
        /\ AtTheirPlaces(a) => AtTheirPlaces(h)
        /\ OneRoomEach(a) /\ Chosen(a, q) => OneRoomEach(h) /\ StaysChosen(a, h)
    BY <2>1, <2>2, <2>3, <2>4, <1>1, SettleSound DEF Chosen
  <2>6. /\ Later(g, h)
        /\ NoGaps /\ OneRoomEach(g) => OneRoomEach(h) /\ StaysChosen(g, h)
    BY <2>2, <2>3, <2>5, LaterTransitive
  <2>7. QED
    BY <2>2, <2>3, <2>5, <2>6, <1>1 DEF h, OnlyMoves
<1>8. QED
  BY <1>4, <1>5, <1>6, <1>7

\* c leaves its room for r.
LEMMA MovedSound ==
  ASSUME NEW g, RoomsInv(g), NEW c \in Chars, NEW p \in Places,
         NEW r \in Rooms \cup {City, None}
  PROVE  LET h == Moved(g, c, p, r) IN
         /\ RoomsInv(h)
         /\ Later(g, h)
         /\ h.where[c] \in InUse(h) \cup {City, None}
         /\ h.at = [g.at EXCEPT ![c] = p]
         /\ OnlyMoves(g, h, c)
         /\ AtTheirPlaces(g) => AtTheirPlaces(h)
         /\ NoGaps /\ OneRoomEach(g) /\ Chosen(g, r) => OneRoomEach(h) /\ StaysChosen(g, h)
<1> DEFINE f == [char_from_room(g, c) EXCEPT !.at[c] = p]
           h == Moved(g, c, p, r)
<1>1. /\ RoomsInv(f) /\ Later(g, f) /\ StaysChosen(g, f)
      /\ f.where = [g.where EXCEPT ![c] = None] /\ f.where[c] = None
      /\ f.at = [g.at EXCEPT ![c] = p]
      /\ AtTheirPlaces(g) => AtTheirPlaces(f)
      /\ OneRoomEach(g) => OneRoomEach(f)
  BY LeftSound
<1>2. h = char_to_room(f, c, r)
  BY DEF Moved
<1> HIDE DEF f, h
<1>3. Chosen(g, r) => Chosen(f, r)
  <2>1. f.occupied \subseteq Pool
    BY <1>1, Fields DEF RoomsInv
  <2>2. QED
    BY <2>1, <1>1 DEF StaysChosen, Chosen, Alone
<1>4. /\ RoomsInv(h) /\ Later(f, h)
      /\ h.where[c] \in InUse(h) \cup {City, None}
      /\ h.at = f.at
      /\ OnlyMoves(f, h, c)
      /\ AtTheirPlaces(f) => AtTheirPlaces(h)
      /\ NoGaps /\ OneRoomEach(f) /\ Chosen(f, r) => OneRoomEach(h) /\ StaysChosen(f, h)
  <2>1. RoomsInv(f) /\ f.where[c] = None
    BY <1>1
  <2>2. QED
    BY <2>1, <1>2, CharToRoomSound
<1>5. /\ Later(g, h)
      /\ NoGaps /\ OneRoomEach(g) /\ Chosen(g, r) => OneRoomEach(h) /\ StaysChosen(g, h)
  BY <1>1, <1>3, <1>4, LaterTransitive
<1>6. OnlyMoves(g, h, c)
  <2>1. g.where \in [Bodies -> Rooms \cup {City, None}]
    BY Fields DEF RoomsInv
  <2>2. QED
    BY <2>1, <1>1, <1>4 DEF OnlyMoves
<1>7. QED
  BY <1>1, <1>4, <1>5, <1>6 DEF h

\* The walker and the one it rides, or who rides it, move together.
LEMMA TogetherSound ==
  ASSUME NEW g, RoomsInv(g), NEW c \in Chars, NEW mount \in Chars,
         NEW p \in Places, NEW q \in Places, NEW r \in Rooms \cup {City, None}
  PROVE  LET h == Together(g, c, mount, p, q, r) IN
         /\ RoomsInv(h)
         /\ Later(g, h)
         /\ AtTheirPlaces(g) => AtTheirPlaces(h)
         /\ NoGaps /\ OneRoomEach(g) /\ Chosen(g, r) => OneRoomEach(h) /\ StaysChosen(g, h)
<1> DEFINE f == Moved(g, c, p, r)
           h == Together(g, c, mount, p, q, r)
<1>1. /\ RoomsInv(f) /\ Later(g, f)
      /\ f.where[c] \in InUse(f) \cup {City, None}
      /\ AtTheirPlaces(g) => AtTheirPlaces(f)
      /\ NoGaps /\ OneRoomEach(g) /\ Chosen(g, r) => OneRoomEach(f) /\ StaysChosen(g, f)
  BY MovedSound
<1>2. /\ f.where[c] \in Rooms \cup {City, None}
      /\ Chosen(f, f.where[c])
  <2>1. f.occupied \subseteq Pool /\ Pool \cap Fixed = {} /\ {City, None} \cap Pool = {}
    BY <1>1, Fields, WildernessAssumption DEF RoomsInv, Rooms
  <2>2. QED
    BY <1>1, <2>1 DEF InUse, Rooms, Chosen, Alone
<1>3. h = IF mount = c \/ f.where[mount] = f.where[c] THEN f
          ELSE Moved(f, mount, q, f.where[c])
  BY DEF Together
<1> HIDE DEF f, h
<1>4. CASE h = f
  BY <1>1, <1>4 DEF h
<1>5. CASE h = Moved(f, mount, q, f.where[c])
  <2>1. /\ RoomsInv(h) /\ Later(f, h)
        /\ AtTheirPlaces(f) => AtTheirPlaces(h)
        /\ NoGaps /\ OneRoomEach(f) => OneRoomEach(h) /\ StaysChosen(f, h)
    BY <1>1, <1>2, <1>5, MovedSound
  <2>2. QED
    BY <2>1, <1>1, LaterTransitive DEF h
<1>6. QED
  BY <1>3, <1>4, <1>5

\* A ship is lent the room of p, or a free one that stood for p or becomes p's.
LEMMA AllocatedRoom ==
  ASSUME NEW g, RoomsInv(g), NEW m \in SUBSET Pool, NEW p \in Places
  PROVE  LET got == get_or_allocate(g, m, p) IN
         /\ Lent(g, got.w, got.room, p)
         /\ got.mapped \in SUBSET Pool
         /\ NoGaps => Alone(got.w, got.room)
         /\ NoGaps /\ (\E r \in InUse(g) : g.coords[r] = p) => got.w = g
<1> DEFINE found  == find_room_by_coordinates(g, p)
           cached == {r \in m \ g.occupied : g.coords[r] = p}
           unused == Pool \ (g.occupied \cup m)
           free   == IF unused # {} THEN Lowest(unused)
                     ELSE find_available_wilderness_room(g)
           got    == get_or_allocate(g, m, p)
<1>1. /\ g \in World /\ g.occupied \subseteq Pool /\ InUse(g) \subseteq Rooms
      /\ Pool \subseteq Rooms /\ Pool \subseteq Nat /\ Pool \cap Fixed = {}
      /\ g.coords \in [Rooms -> Places \cup {None}] /\ None \notin Rooms
  BY Fields, WildernessAssumption DEF RoomsInv, InUse, Rooms
<1>2. /\ found # None => found \in InUse(g) /\ g.coords[found] = p
      /\ NoGaps /\ found = None => \A r \in InUse(g) : g.coords[r] # p
  BY FindFinds
<1>3. cached # {} => Lowest(cached) \in cached
  <2>1. cached \subseteq Nat
    BY <1>1
  <2> HIDE DEF cached
  <2>2. QED
    BY <2>1, LowestIsLeast
<1>4. free # None => free \in Pool \ g.occupied
  <2>1. unused # {} => Lowest(unused) \in unused
    <3>1. unused \subseteq Nat
      BY <1>1
    <3> HIDE DEF unused
    <3>2. QED
      BY <3>1, LowestIsLeast
  <2>2. find_available_wilderness_room(g) # None =>
          find_available_wilderness_room(g) \in Pool \ g.occupied
    BY AvailableRoom
  <2>3. QED
    BY <2>1, <2>2
<1>5. got = IF found # None
              THEN [room |-> found, w |-> g, mapped |-> Remembered(m, found)]
            ELSE IF cached # {} THEN [room |-> Lowest(cached), w |-> g, mapped |-> m]
            ELSE [room |-> free, w |-> assign_wilderness_room(g, free, p),
                  mapped |-> Remembered(m, free)]
  BY DEF get_or_allocate
<1> HIDE DEF found, free, got
<1>6. CASE found # None
  <2>1. got.room = found /\ got.w = g /\ got.mapped = m \cup ({found} \cap Pool)
    BY <1>5, <1>6 DEF Remembered
  <2>2. QED
    BY <2>1, <1>1, <1>2, <1>6 DEF got, Lent, Alone, InUse
<1>7. CASE found = None /\ cached # {}
  <2>1. got.room = Lowest(cached) /\ got.w = g /\ got.mapped = m
    BY <1>5, <1>7
  <2>2. got.room \in m \ g.occupied /\ g.coords[got.room] = p
    BY <2>1, <1>3, <1>7
  <2> HIDE DEF cached
  <2>3. QED
    BY <2>1, <2>2, <1>1, <1>2, <1>7 DEF got, Lent, Alone
<1>8. CASE found = None /\ cached = {} /\ free = None
  <2>1. got.room = None /\ got.w = g /\ got.mapped = m
    BY <1>1, <1>5, <1>8 DEF Remembered, assign_wilderness_room
  <2>2. QED
    BY <2>1, <1>1 DEF got, Lent, Alone
<1>9. CASE found = None /\ cached = {} /\ free # None
  <2>1. /\ got.room = free /\ got.w = assign_wilderness_room(g, free, p)
        /\ got.mapped = m \cup {free}
        /\ free \in Pool \ g.occupied /\ free \in Rooms
    BY <1>1, <1>4, <1>5, <1>9 DEF Remembered
  <2>2. /\ got.w \in World
        /\ got.w.coords = [g.coords EXCEPT ![free] = p]
        /\ got.w.occupied = g.occupied /\ got.w.checks = g.checks
        /\ got.w.where = g.where /\ got.w.at = g.at
    BY <2>1, <1>1, AssignFields
  <2>3. InUse(got.w) = InUse(g) /\ free \notin InUse(g)
    BY <1>1, <2>1, <2>2 DEF InUse
  <2>4. Lent(g, got.w, got.room, p)
    BY <2>1, <2>2, <2>3, <1>1 DEF Lent
  <2>5. NoGaps => Alone(got.w, got.room)
    BY <2>1, <2>2, <2>3, <1>1, <1>2, <1>9 DEF Alone
  <2>6. QED
    BY <2>1, <2>4, <2>5, <1>2, <1>9 DEF got
<1>10. QED
  BY <1>6, <1>7, <1>8, <1>9

\* A ship comes to a room of its place: as SettleSound, with the ship moved first.
LEMMA HullSound ==
  ASSUME NEW g, RoomsInv(g), NEW s \in Ships, NEW p \in Places, NEW r \in Rooms,
         g.coords[r] \in Places
  PROVE  LET h == Hull([g EXCEPT !.at[s] = p], s, r) IN
         /\ RoomsInv(h)
         /\ Later(g, h)
         /\ AtTheirPlaces(g) /\ g.coords[r] = p => AtTheirPlaces(h)
         /\ OneRoomEach(g) /\ Alone(g, r) => OneRoomEach(h)
<1> DEFINE m == mark_wilderness_room_occupied(g, r)
           h == Hull([g EXCEPT !.at[s] = p], s, r)
<1>1. /\ g \in World /\ s \in Bodies /\ s \in Movers /\ s \in Bodies \ Vehicles
      /\ g.where \in [Bodies -> Rooms \cup {City, None}]
      /\ g.at \in [Movers -> Places]
      /\ r # City
  BY Fields, Kinds, WildernessAssumption DEF RoomsInv
<1>2. /\ RoomsInv(m) /\ Later(g, m) /\ r \in InUse(m)
      /\ OneRoomEach(g) /\ Alone(g, r) => OneRoomEach(m)
  BY MarkSound DEF Placed
<1>3. /\ m \in World
      /\ m.occupied = g.occupied \cup ({r} \cap Pool)
      /\ m.checks = g.checks \cup ({r} \cap Pool)
      /\ m.coords = g.coords /\ m.where = g.where /\ m.at = g.at
  BY <1>1, MarkFields
<1> HIDE DEF m
<1>4. /\ h \in World
      /\ h.where = [g.where EXCEPT ![s] = r] /\ h.at = [g.at EXCEPT ![s] = p]
      /\ h.occupied = m.occupied /\ h.checks = m.checks /\ h.coords = g.coords
  <2> DEFINE f == [[g EXCEPT !.at[s] = p] EXCEPT !.where[s] = r]
  <2>1. /\ f \in World
        /\ f.where = [g.where EXCEPT ![s] = r] /\ f.at = [g.at EXCEPT ![s] = p]
        /\ f.occupied = g.occupied /\ f.checks = g.checks /\ f.coords = g.coords
    BY <1>1 DEF World
  <2>2. h = mark_wilderness_room_occupied(f, r)
    BY DEF Hull
  <2> HIDE DEF f
  <2>3. QED
    BY <2>1, <2>2, <1>3, MarkFields
<1> HIDE DEF h
<1>5. InUse(h) = InUse(m)
  BY <1>4 DEF InUse
<1>6. RoomsInv(h)
  <2>1. \A b \in Bodies \ Vehicles : h.where[b] \in Pool => h.where[b] \in h.occupied
    BY <1>1, <1>2, <1>3, <1>4 DEF RoomsInv
  <2>2. \A t \in Ships : h.where[t] # City
    BY <1>1, <1>4, Kinds DEF RoomsInv
  <2>3. QED
    BY <2>1, <2>2, <1>2, <1>3, <1>4, <1>5 DEF RoomsInv
<1>7. Later(g, h)
  BY <1>2, <1>3, <1>4, <1>5 DEF Later, Placed
<1>8. AtTheirPlaces(g) /\ g.coords[r] = p => AtTheirPlaces(h)
  BY <1>1, <1>4, Kinds DEF AtTheirPlaces
<1>9. OneRoomEach(g) /\ Alone(g, r) => OneRoomEach(h)
  BY <1>2, <1>3, <1>4, <1>5 DEF OneRoomEach
<1>10. QED
  BY <1>6, <1>7, <1>8, <1>9 DEF h

\* One who rides a vehicle follows it to its room.
LEMMA FollowsSound ==
  ASSUME NEW g, RoomsInv(g), NEW c \in Chars, NEW v \in Vehicles,
         g.where[v] \in Rooms
  PROVE  LET h == Follows(g, c, v) IN
         /\ RoomsInv(h)
         /\ Later(g, h)
         /\ h.where[v] = g.where[v]
         /\ AtTheirPlaces(g) => AtTheirPlaces(h)
         /\ NoGaps /\ OneRoomEach(g) /\ Chosen(g, g.where[v]) =>
              OneRoomEach(h) /\ StaysChosen(g, h)
<1> DEFINE h == Follows(g, c, v)
<1>1. c # v /\ v \in Bodies /\ v \in Movers /\ g.at[v] \in Places
  BY Fields, Kinds, WildernessAssumption DEF RoomsInv, Bodies, Movers
<1>2. h = IF g.where[c] = g.where[v] THEN g ELSE Moved(g, c, g.at[v], g.where[v])
  BY DEF Follows
<1> HIDE DEF h
<1>3. CASE h = g
  BY <1>3 DEF h, Later, StaysChosen
<1>4. CASE h = Moved(g, c, g.at[v], g.where[v])
  <2> DEFINE p == g.at[v]
             r == g.where[v]
  <2>1. p \in Places /\ r \in Rooms \cup {City, None} /\ h = Moved(g, c, p, r)
    BY <1>1, <1>4
  <2> HIDE DEF p, r
  <2>2. /\ RoomsInv(h) /\ Later(g, h)
        /\ OnlyMoves(g, h, c)
        /\ AtTheirPlaces(g) => AtTheirPlaces(h)
        /\ NoGaps /\ OneRoomEach(g) /\ Chosen(g, r) => OneRoomEach(h) /\ StaysChosen(g, h)
    BY <2>1, MovedSound
  <2>3. QED
    BY <2>2, <1>1 DEF h, r, OnlyMoves
<1>5. QED
  BY <1>2, <1>3, <1>4

-----------------------------------------------------------------------------
(* The steps.                                                              *)

\* What a step does to the rooms when it respects every layer.
GoodStep ==
  /\ RoomsInv(w)' /\ Later(w, w')
  /\ AtTheirPlaces(w) => AtTheirPlaces(w)'
  /\ NoGaps /\ MeetInv => OneRoomEach(w)' /\ StaysChosen(w, w')

\* The frames after a step are frames from before it, in other phases.
FramesStay ==
  /\ Typed'
  /\ \A i \in 1 .. Len(stack') : \E j \in 1 .. Len(stack) :
       /\ stack'[i].to = stack[j].to /\ stack'[i].from = stack[j].from
       /\ stack'[i].phase \in {stack[j].phase, "entering"}

\* A good step keeps the frames that stay.
LEMMA GoodFrames ==
  ASSUME IInv, GoodStep, FramesStay
  PROVE  IInv' /\ (NoGaps /\ MeetInv => MeetInv')
<1>1. PlacedFrames'
  <2> SUFFICES ASSUME NEW i \in 1 .. Len(stack')
               PROVE  /\ Placed(w', stack'[i].to) /\ Placed(w', stack'[i].from)
                      /\ stack'[i].phase = "going" => stack'[i].to \in Rooms
    BY DEF PlacedFrames
  <2>1. PICK j \in 1 .. Len(stack) :
               /\ stack'[i].to = stack[j].to /\ stack'[i].from = stack[j].from
               /\ stack'[i].phase \in {stack[j].phase, "entering"}
    BY DEF FramesStay
  <2>2. /\ Placed(w, stack[j].to) /\ Placed(w, stack[j].from)
        /\ stack[j].phase = "going" => stack[j].to \in Rooms
    BY DEF IInv, PlacedFrames
  <2>3. QED
    BY <2>1, <2>2 DEF GoodStep, Later, Placed
<1>2. ASSUME NoGaps, MeetInv PROVE ChosenFrames'
  <2> SUFFICES ASSUME NEW i \in 1 .. Len(stack')
               PROVE  Chosen(w', stack'[i].to) /\ Chosen(w', stack'[i].from)
    BY DEF ChosenFrames
  <2>1. PICK j \in 1 .. Len(stack) :
               stack'[i].to = stack[j].to /\ stack'[i].from = stack[j].from
    BY DEF FramesStay
  <2>2. Chosen(w, stack[j].to) /\ Chosen(w, stack[j].from)
    BY <1>2 DEF MeetInv, ChosenFrames
  <2>3. StaysChosen(w, w')
    BY <1>2 DEF GoodStep
  <2>4. \A r : r \notin Pool => Chosen(w', r)
    BY DEF Chosen, Alone
  <2>5. QED
    BY <2>1, <2>2, <2>3, <2>4 DEF StaysChosen
<1>3. QED
  BY <1>1, <1>2 DEF IInv, GoodStep, FramesStay, MeetInv

\* The frames stay when the stack does.
LEMMA StackStays ==
  ASSUME IInv, UNCHANGED <<mapped, stack>>
  PROVE  FramesStay
BY DEF IInv, Typed, FramesStay

\* Where somebody or something is was chosen and stands for a place.
LEMMA HereChosen ==
  ASSUME RoomsInv(w), NEW b \in Chars \cup Things
  PROVE  /\ w.where[b] \in InUse(w) \cup {City, None}
         /\ w.where[b] \in Rooms \cup {City, None}
         /\ Placed(w, w.where[b])
         /\ Chosen(w, w.where[b])
<1>1. /\ b \in Bodies \ Vehicles
      /\ w.where \in [Bodies -> Rooms \cup {City, None}]
      /\ Pool \cap Fixed = {} /\ City \notin Rooms /\ None \notin Rooms
  BY Kinds, Fields, WildernessAssumption DEF RoomsInv
<1>2. w.where[b] \in InUse(w) \cup {City, None}
  BY <1>1 DEF RoomsInv, InUse, Rooms
<1>3. QED
  BY <1>1, <1>2 DEF RoomsInv, Placed, Chosen, Alone, InUse, Rooms

\* The coordinates of a room that stands for a place are a place.
LEMMA CoordsInPlaces ==
  ASSUME RoomsInv(w), NEW c \in Chars, NEW r, Placed(w, r)
  PROVE  CoordsIn(w, c, r) \in Places
BY Fields, Kinds DEF RoomsInv, Placed, CoordsIn

\* Somebody enters a room outside the wilderness.
LEMMA EnterStep ==
  ASSUME IInv, NEW c \in Chars, Enter(c)
  PROVE  GoodStep
<1>1. w.where[c] = None /\ w' = char_to_room(w, c, City)
  BY DEF Enter, MayCome, Here
<1>2. RoomsInv(w)
  BY DEF IInv
<1>3. Chosen(w, City)
  BY WildernessAssumption DEF Chosen, Alone, Rooms
<1>4. /\ RoomsInv(w') /\ Later(w, w')
      /\ AtTheirPlaces(w) => AtTheirPlaces(w')
      /\ NoGaps /\ OneRoomEach(w) /\ Chosen(w, City) => OneRoomEach(w') /\ StaysChosen(w, w')
  BY <1>1, <1>2, CharToRoomSound
<1>5. QED
  BY <1>3, <1>4 DEF GoodStep, MeetInv

\* A mobile is loaded in the room chosen for it.
LEMMA LoaderStep ==
  ASSUME IInv, NEW c \in Chars, NEW p \in Places, wild_mobile_loader(c, p)
  PROVE  GoodStep
<1> DEFINE g == Reached(w, p).w
           r == Reached(w, p).room
<1>1. w' = IF r = None THEN w ELSE Moved(g, c, g.coords[r], r)
  BY DEF wild_mobile_loader
<1>2. RoomsInv(w)
  BY DEF IInv
<1>3. Lent(w, g, r, p) /\ (NoGaps => Chosen(g, r))
  BY <1>2, ReachedRoom
<1>4. /\ RoomsInv(g) /\ Later(w, g)
      /\ AtTheirPlaces(w) => AtTheirPlaces(g)
      /\ OneRoomEach(w) => OneRoomEach(g)
      /\ NoGaps => StaysChosen(w, g)
  BY <1>2, ReachedSound
<1> HIDE DEF g, r
<1>5. CASE w' = w
  BY <1>2, <1>5 DEF GoodStep, MeetInv, Later, StaysChosen
<1>6. CASE r # None /\ w' = Moved(g, c, p, r)
  <2>1. r \in Rooms \cup {City, None}
    BY <1>3 DEF Lent
  <2>2. /\ RoomsInv(w') /\ Later(g, w')
        /\ AtTheirPlaces(g) => AtTheirPlaces(w')
        /\ NoGaps /\ OneRoomEach(g) /\ Chosen(g, r) => OneRoomEach(w') /\ StaysChosen(g, w')
    BY <2>1, <1>4, <1>6, MovedSound
  <2>3. QED
    BY <2>2, <1>3, <1>4, LaterTransitive DEF GoodStep, MeetInv
<1>7. r # None => g.coords[r] = p
  BY <1>3 DEF Lent
<1>8. QED
  BY <1>1, <1>5, <1>6, <1>7

\* Somebody leaves the game.
LEMMA LeaveStep ==
  ASSUME IInv, NEW c \in Chars, Leave(c)
  PROVE  GoodStep
<1>1. w' = [char_from_room(w, c) EXCEPT !.at[c] = Origin] /\ Origin \in Places
  BY WildernessAssumption DEF Leave
<1>2. RoomsInv(w)
  BY DEF IInv
<1>3. /\ RoomsInv(w') /\ Later(w, w') /\ StaysChosen(w, w')
      /\ AtTheirPlaces(w) => AtTheirPlaces(w')
      /\ OneRoomEach(w) => OneRoomEach(w')
  BY <1>1, <1>2, LeftSound
<1>4. QED
  BY <1>3 DEF GoodStep, MeetInv

\* Somebody is brought to where another is.
LEMMA SummonStep ==
  ASSUME IInv, NEW c \in Chars, NEW d \in Chars \cup Things, Summon(c, d)
  PROVE  GoodStep
<1> DEFINE r == w.where[d]
           p == CoordsIn(w, c, r)
<1>1. w' = Moved(w, c, p, r)
  BY DEF Summon
<1>2. RoomsInv(w)
  BY DEF IInv
<1>3. r \in Rooms \cup {City, None} /\ Placed(w, r) /\ Chosen(w, r)
  BY <1>2, HereChosen
<1>4. p \in Places
  BY <1>2, <1>3, CoordsInPlaces
<1> HIDE DEF p, r
<1>5. /\ RoomsInv(w') /\ Later(w, w')
      /\ AtTheirPlaces(w) => AtTheirPlaces(w')
      /\ NoGaps /\ OneRoomEach(w) /\ Chosen(w, r) => OneRoomEach(w') /\ StaysChosen(w, w')
  BY <1>1, <1>2, <1>3, <1>4, MovedSound
<1>6. QED
  BY <1>3, <1>5 DEF GoodStep, MeetInv

\* A place is looked at.
LEMMA ProbeStep ==
  ASSUME IInv, NEW p \in Places, w' = Reached(w, p).w
  PROVE  GoodStep
<1>1. RoomsInv(w)
  BY DEF IInv
<1>2. /\ RoomsInv(w') /\ Later(w, w')
      /\ AtTheirPlaces(w) => AtTheirPlaces(w')
      /\ OneRoomEach(w) => OneRoomEach(w')
      /\ NoGaps => StaysChosen(w, w')
  BY <1>1, ReachedSound
<1>3. QED
  BY <1>2 DEF GoodStep, MeetInv

\* Things come and go.
LEMMA ThingStep ==
  ASSUME IInv, NEW o \in Things,
         Vanish(o) \/ \E c \in Chars : Drop(o, c)
  PROVE  GoodStep
<1>1. RoomsInv(w)
  BY DEF IInv
<1>2. PICK r \in InUse(w) \cup {City, None} : w' = [w EXCEPT !.where[o] = r]
  <2>1. CASE Vanish(o)
    BY <2>1 DEF Vanish
  <2>2. ASSUME NEW c \in Chars, Drop(o, c)
        PROVE  w.where[c] \in InUse(w) \cup {City, None} /\ w' = [w EXCEPT !.where[o] = w.where[c]]
    BY <2>2, <1>1, HereChosen DEF Drop
  <2>3. QED
    BY <2>1, <2>2
<1>3. /\ RoomsInv(w') /\ Later(w, w') /\ StaysChosen(w, w')
      /\ AtTheirPlaces(w) => AtTheirPlaces(w')
      /\ OneRoomEach(w) => OneRoomEach(w')
  BY <1>1, <1>2, ThingSound
<1>4. QED
  BY <1>3 DEF GoodStep, MeetInv

\* A vehicle is made.
LEMMA MakeVehicleStep ==
  ASSUME IInv, NEW v \in Vehicles, NEW c \in Chars, MakeVehicle(v, c)
  PROVE  GoodStep
<1> DEFINE r == w.where[c]
<1>1. RoomsInv(w)
  BY DEF IInv
<1>2. r \in Rooms /\ w' = [w EXCEPT !.where[v] = r, !.at[v] = w.coords[r]]
  BY DEF MakeVehicle
<1>3. w.coords[r] \in Places
  BY <1>1, <1>2, HereChosen DEF Placed
<1> HIDE DEF r
<1>4. /\ RoomsInv(w') /\ Later(w, w') /\ StaysChosen(w, w')
      /\ AtTheirPlaces(w) => AtTheirPlaces(w')
      /\ OneRoomEach(w) => OneRoomEach(w')
  BY <1>1, <1>2, <1>3, VehicleSound
<1>5. QED
  BY <1>4 DEF GoodStep, MeetInv

\* A vehicle drives, and those who ride it follow.
LEMMA DriveStep ==
  ASSUME IInv, NEW v \in Vehicles, NEW c \in Chars, NEW d \in Chars, NEW p \in Places,
         Drive(v, c, d, p)
  PROVE  GoodStep
<1> DEFINE f == Reached(w, p).w
           r == Reached(w, p).room
           g == [f EXCEPT !.where[v] = r, !.at[v] = p]
           h == Follows(g, c, v)
<1>1. r # None /\ w' = Follows(h, d, v)
  BY DEF Drive
<1>2. RoomsInv(w)
  BY DEF IInv
<1>3. Lent(w, f, r, p) /\ (NoGaps => Chosen(f, r))
  BY <1>2, ReachedRoom
<1>4. /\ RoomsInv(f) /\ Later(w, f)
      /\ AtTheirPlaces(w) => AtTheirPlaces(f)
      /\ OneRoomEach(w) => OneRoomEach(f)
      /\ NoGaps => StaysChosen(w, f)
  BY <1>2, ReachedSound
<1> HIDE DEF f, r
<1>5. r \in Rooms
  BY <1>1, <1>3 DEF Lent
<1>6. /\ RoomsInv(g) /\ Later(f, g) /\ StaysChosen(f, g) /\ g.where[v] = r
      /\ AtTheirPlaces(f) => AtTheirPlaces(g)
      /\ OneRoomEach(f) => OneRoomEach(g)
  <2>1. RoomsInv(f) /\ g = [f EXCEPT !.where[v] = r, !.at[v] = p]
    BY <1>4
  <2>2. /\ f.where \in [Bodies -> Rooms \cup {City, None}] /\ v \in Bodies
        /\ f \in World
    BY <2>1, Fields DEF RoomsInv, Bodies, Movers
  <2>3. g.where[v] = r
    BY <2>2 DEF World
  <2> HIDE DEF g
  <2>4. QED
    BY <2>1, <2>3, <1>5, VehicleSound
<1> HIDE DEF g
<1>7. /\ RoomsInv(h) /\ Later(g, h) /\ h.where[v] = r
      /\ AtTheirPlaces(g) => AtTheirPlaces(h)
      /\ NoGaps /\ OneRoomEach(g) /\ Chosen(g, r) => OneRoomEach(h) /\ StaysChosen(g, h)
  BY <1>5, <1>6, FollowsSound
<1> HIDE DEF h
<1>8. /\ RoomsInv(w') /\ Later(h, w')
      /\ AtTheirPlaces(h) => AtTheirPlaces(w')
      /\ NoGaps /\ OneRoomEach(h) /\ Chosen(h, r) => OneRoomEach(w') /\ StaysChosen(h, w')
  <2>1. RoomsInv(h) /\ h.where[v] \in Rooms
    BY <1>5, <1>7
  <2>2. QED
    BY <2>1, <1>1, <1>7, FollowsSound
<1>9. Later(w, w')
  BY <1>4, <1>6, <1>7, <1>8, LaterTransitive
<1>10. ASSUME NoGaps, MeetInv PROVE OneRoomEach(w') /\ StaysChosen(w, w')
  <2>1. \A x, y : Chosen(x, r) /\ StaysChosen(x, y) => (r \in Pool => Chosen(y, r))
    BY DEF StaysChosen
  <2>2. r \notin Pool => Chosen(g, r) /\ Chosen(h, r)
    BY DEF Chosen, Alone
  <2>3. OneRoomEach(f) /\ StaysChosen(w, f) /\ Chosen(f, r)
    BY <1>3, <1>4, <1>10 DEF MeetInv
  <2>4. OneRoomEach(g) /\ StaysChosen(w, g) /\ Chosen(g, r)
    BY <2>1, <2>2, <2>3, <1>6, LaterTransitive
  <2>5. OneRoomEach(h) /\ StaysChosen(w, h) /\ Chosen(h, r)
    BY <2>1, <2>2, <2>4, <1>7, <1>10, LaterTransitive
  <2>6. QED
    BY <2>5, <1>8, <1>10, LaterTransitive
<1>11. QED
  BY <1>4, <1>6, <1>7, <1>8, <1>9, <1>10 DEF GoodStep

\* The frame on top, of a command whose scripts are running.
LEMMA TopFrame ==
  ASSUME IInv, stack # <<>>
  PROVE  /\ Top \in Frame /\ 1 \in 1 .. Len(stack)
         /\ Placed(w, Top.to) /\ Placed(w, Top.from)
         /\ Top.phase = "going" => Top.to \in Rooms
         /\ MeetInv => Chosen(w, Top.to) /\ Chosen(w, Top.from)
<1>1. stack \in Seq(Frame) /\ Len(stack) \in Nat /\ Len(stack) > 0
  BY DEF IInv, Typed
<1>2. 1 \in 1 .. Len(stack)
  BY <1>1
<1>3. Top \in Frame
  BY <1>1, <1>2 DEF Top
<1>4. QED
  BY <1>2, <1>3 DEF Top, IInv, PlacedFrames, MeetInv, ChosenFrames

\* A command ends.
LEMMA PopStays ==
  ASSUME IInv, stack # <<>>, stack' = Tail(stack), UNCHANGED mapped
  PROVE  FramesStay
<1>1. stack \in Seq(Frame) /\ Len(stack) \in Nat /\ Len(stack) > 0
  BY DEF IInv, Typed
<1>2. /\ stack' \in Seq(Frame) /\ Len(stack') = Len(stack) - 1
      /\ \A i \in 1 .. Len(stack') : stack'[i] = stack[i+1]
  BY <1>1
<1>3. \A i \in 1 .. Len(stack') : i + 1 \in 1 .. Len(stack)
  BY <1>1, <1>2
<1>4. Typed'
  BY <1>1, <1>2, WildernessAssumption DEF IInv, Typed
<1>5. QED
  BY <1>2, <1>3, <1>4 DEF FramesStay

\* What is put on top of a stack is first, and the rest follows.
LEMMA PrependProperties ==
  ASSUME NEW S, NEW s \in Seq(S), NEW e \in S
  PROVE  /\ <<e>> \o s \in Seq(S) /\ Len(<<e>> \o s) = Len(s) + 1
         /\ \A i \in 1 .. Len(s) + 1 : (<<e>> \o s)[i] = IF i = 1 THEN e ELSE s[i-1]
<1>1. <<e>> \in Seq(S) /\ Len(<<e>>) = 1 /\ <<e>>[1] = e
  OBVIOUS
<1>2. /\ <<e>> \o s \in Seq(S) /\ Len(<<e>> \o s) = Len(<<e>>) + Len(s)
      /\ \A i \in 1 .. Len(<<e>>) + Len(s) :
           (<<e>> \o s)[i] = IF i <= Len(<<e>>) THEN <<e>>[i] ELSE s[i - Len(<<e>>)]
  BY <1>1, ConcatProperties, Zenon
<1>3. QED
  BY <1>1, <1>2

\* A command goes on to its next phase.
LEMMA NextPhaseStays ==
  ASSUME IInv, stack # <<>>, UNCHANGED mapped,
         stack' = <<[Top EXCEPT !.phase = "entering"]>> \o Tail(stack)
  PROVE  FramesStay
<1> DEFINE f    == [Top EXCEPT !.phase = "entering"]
           rest == Tail(stack)
<1>1. stack \in Seq(Frame) /\ Len(stack) \in Nat /\ Len(stack) > 0
  BY DEF IInv, Typed
<1>2. f \in Frame /\ f.to = Top.to /\ f.from = Top.from /\ f.phase = "entering"
  BY TopFrame DEF Frame
<1>3. /\ rest \in Seq(Frame) /\ Len(rest) = Len(stack) - 1
      /\ \A i \in 1 .. Len(rest) : rest[i] = stack[i+1]
  BY <1>1
<1> HIDE DEF f, rest
<1>4. /\ stack' \in Seq(Frame) /\ Len(stack') = Len(stack)
      /\ \A i \in 1 .. Len(stack') : stack'[i] = IF i = 1 THEN f ELSE stack[i]
  <2>1. stack' = <<f>> \o rest
    BY DEF f, rest
  <2>2. /\ stack' \in Seq(Frame) /\ Len(stack') = Len(rest) + 1
        /\ \A i \in 1 .. Len(rest) + 1 : stack'[i] = IF i = 1 THEN f ELSE rest[i-1]
    <3>1. f \in Frame /\ rest \in Seq(Frame)
      BY <1>2, <1>3
    <3>2. /\ <<f>> \o rest \in Seq(Frame) /\ Len(<<f>> \o rest) = Len(rest) + 1
          /\ \A i \in 1 .. Len(rest) + 1 :
               (<<f>> \o rest)[i] = IF i = 1 THEN f ELSE rest[i-1]
      BY <3>1, PrependProperties
    <3>3. QED
      BY <2>1, <3>2
  <2>3. \A i \in 1 .. Len(stack') : i = 1 \/ i - 1 \in 1 .. Len(rest)
    BY <1>1, <1>3, <2>2
  <2>4. \A i \in 1 .. Len(stack') : i # 1 => rest[i-1] = stack[i]
    BY <1>1, <1>3, <2>3
  <2>5. Len(stack') = Len(stack)
    BY <1>1, <1>3, <2>2
  <2>6. \A i \in 1 .. Len(stack') : stack'[i] = IF i = 1 THEN f ELSE stack[i]
    BY <1>1, <1>3, <2>2, <2>4
  <2>7. QED
    BY <2>2, <2>5, <2>6
<1>5. Typed'
  BY <1>4 DEF IInv, Typed
<1>6. \A i \in 1 .. Len(stack') :
        /\ stack'[i].to = stack[i].to /\ stack'[i].from = stack[i].from
        /\ stack'[i].phase \in {stack[i].phase, "entering"}
  BY <1>2, <1>4 DEF Top
<1>7. QED
  BY <1>4, <1>5, <1>6 DEF FramesStay

\* A command begins, with a room that was chosen for it.
LEMMA PushGood ==
  ASSUME IInv, GoodStep, NEW f \in Frame, Push(f), UNCHANGED mapped,
         Placed(w', f.to), Placed(w', f.from), f.phase = "going" => f.to \in Rooms,
         NoGaps /\ MeetInv => Chosen(w', f.to) /\ Chosen(w', f.from)
  PROVE  IInv' /\ (NoGaps /\ MeetInv => MeetInv')
<1>1. stack \in Seq(Frame) /\ Len(stack) \in Nat /\ Len(stack) < MaxDepth
  BY DEF IInv, Typed, Push
<1>2. /\ stack' \in Seq(Frame) /\ Len(stack') = Len(stack) + 1
      /\ \A i \in 1 .. Len(stack') : stack'[i] = IF i = 1 THEN f ELSE stack[i-1]
  BY <1>1, PrependProperties DEF Push
<1>3. Typed'
  BY <1>1, <1>2, WildernessAssumption DEF IInv, Typed
<1>4. \A i \in 1 .. Len(stack') : i = 1 \/ i - 1 \in 1 .. Len(stack)
  BY <1>1, <1>2
<1>5. PlacedFrames'
  <2>1. \A i \in 1 .. Len(stack) :
          /\ Placed(w', stack[i].to) /\ Placed(w', stack[i].from)
          /\ stack[i].phase = "going" => stack[i].to \in Rooms
    BY DEF IInv, PlacedFrames, GoodStep, Later, Placed
  <2>2. SUFFICES ASSUME NEW i \in 1 .. Len(stack')
                 PROVE  /\ Placed(w', stack'[i].to) /\ Placed(w', stack'[i].from)
                        /\ stack'[i].phase = "going" => stack'[i].to \in Rooms
    BY DEF PlacedFrames
  <2>3. CASE i = 1
    BY <2>3, <1>2
  <2>4. CASE i # 1
    BY <2>1, <2>4, <1>2, <1>4
  <2>5. QED
    BY <2>3, <2>4
<1>6. ASSUME NoGaps, MeetInv PROVE ChosenFrames'
  <2>1. \A r : r \notin Pool => Chosen(w', r)
    BY DEF Chosen, Alone
  <2>2. \A i \in 1 .. Len(stack) : Chosen(w', stack[i].to) /\ Chosen(w', stack[i].from)
    BY <2>1, <1>6 DEF MeetInv, ChosenFrames, GoodStep, StaysChosen
  <2>3. SUFFICES ASSUME NEW i \in 1 .. Len(stack')
                 PROVE  Chosen(w', stack'[i].to) /\ Chosen(w', stack'[i].from)
    BY DEF ChosenFrames
  <2>4. CASE i = 1
    BY <2>4, <1>2, <1>6
  <2>5. CASE i # 1
    BY <2>2, <2>5, <1>2, <1>4
  <2>6. QED
    BY <2>4, <2>5
<1>7. QED
  BY <1>3, <1>5, <1>6 DEF IInv, GoodStep, MeetInv

\* A walker, or one of the staff, chooses the room of a place, and scripts run.
LEMMA SetOutStep ==
  ASSUME IInv, NEW c \in Chars, NEW p \in Places, Walk(c, p) \/ Goto(c, p)
  PROVE  GoodStep /\ IInv' /\ (NoGaps /\ MeetInv => MeetInv')
<1> DEFINE r == Reached(w, p).room
           from == w.where[c]
<1>1. /\ w' = Reached(w, p).w /\ r # None /\ from \in Rooms \cup {City}
      /\ UNCHANGED mapped
      /\ \E phase \in {"leaving", "going"} :
           Push([who |-> c, to |-> r, place |-> p, from |-> from, phase |-> phase])
  <2>1. CASE Walk(c, p)
    BY <2>1 DEF Walk
  <2>2. CASE Goto(c, p)
    <3>1. from \in Rooms \cup {City, None} /\ from # None
      BY <2>2, HereChosen DEF Goto, Here, IInv
    <3>2. QED
      BY <2>2, <3>1 DEF Goto
  <2>3. QED
    BY <2>1, <2>2
<1>2. RoomsInv(w)
  BY DEF IInv
<1>3. Lent(w, w', r, p) /\ (NoGaps => Chosen(w', r))
  BY <1>1, <1>2, ReachedRoom
<1>4. GoodStep
  BY <1>1, ProbeStep
<1>5. Placed(w, from) /\ Chosen(w, from)
  BY <1>2, HereChosen
<1> HIDE DEF r, from
<1>6. PICK phase \in {"leaving", "going"} :
             Push([who |-> c, to |-> r, place |-> p, from |-> from, phase |-> phase])
  BY <1>1
<1> DEFINE f == [who |-> c, to |-> r, place |-> p, from |-> from, phase |-> phase]
<1>7. f \in Frame /\ f.to = r /\ f.from = from /\ r \in Rooms
  BY <1>1, <1>3 DEF Frame, Lent
<1>8. Placed(w', r) /\ Placed(w', from)
  BY <1>1, <1>3, <1>4, <1>5 DEF Placed, Lent, GoodStep, Later
<1>9. NoGaps /\ MeetInv => Chosen(w', r) /\ Chosen(w', from)
  <2>1. from \notin Pool => Chosen(w', from)
    BY DEF Chosen, Alone
  <2>2. QED
    BY <2>1, <1>3, <1>4, <1>5 DEF GoodStep, StaysChosen
<1>10. Push(f)
  BY <1>6
<1> HIDE DEF f
<1>11. QED
  BY <1>1, <1>4, <1>7, <1>8, <1>9, <1>10, PushGood

\* A walker leaves by an exit to a room builders made.
LEMMA WalkFixedStep ==
  ASSUME IInv, NEW c \in Chars, NEW r \in Fixed \cup {City}, WalkFixed(c, r)
  PROVE  GoodStep /\ IInv' /\ (NoGaps /\ MeetInv => MeetInv')
<1> DEFINE from == w.where[c]
           p    == IF r = City THEN Origin ELSE w.coords[r]
           f    == [who |-> c, to |-> r, place |-> p, from |-> from, phase |-> "leaving"]
<1>1. Push(f) /\ UNCHANGED <<w, mapped>> /\ from # None
  BY DEF WalkFixed, Here
<1>2. RoomsInv(w)
  BY DEF IInv
<1>3. GoodStep
  BY <1>1, <1>2 DEF GoodStep, MeetInv, Later, StaysChosen
<1>4. from \in Rooms \cup {City} /\ Placed(w, from) /\ Chosen(w, from)
  BY <1>1, <1>2, HereChosen
<1>5. p \in Places /\ Placed(w, r) /\ Chosen(w, r) /\ r \in Rooms \cup {City}
  BY <1>2, WildernessAssumption DEF RoomsInv, InUse, Placed, Chosen, Alone, Rooms
<1> HIDE DEF from, p
<1>6. f \in Frame /\ f.to = r /\ f.from = from /\ f.phase = "leaving"
  BY <1>4, <1>5 DEF Frame
<1> HIDE DEF f
<1>7. QED
  BY <1>1, <1>3, <1>4, <1>5, <1>6, PushGood

\* Nothing moves, or the walker and its mount do, or one of the staff arrives.
LEMMA CommandStep ==
  ASSUME IInv, StayOrDone \/ Arrive \/ TurnBack \/ GotoArrives
  PROVE  GoodStep /\ FramesStay
<1>1. stack # <<>> /\ UNCHANGED mapped
  BY DEF StayOrDone, Arrive, TurnBack, GotoArrives
<1>2. RoomsInv(w)
  BY DEF IInv
<1>3. /\ Top.who \in Chars /\ Top.place \in Places
      /\ Top.to \in Rooms \cup {City, None} /\ Top.from \in Rooms \cup {City, None}
      /\ Placed(w, Top.to) /\ Placed(w, Top.from)
      /\ Top.phase = "going" => Top.to \in Rooms
      /\ MeetInv => Chosen(w, Top.to) /\ Chosen(w, Top.from)
  BY <1>1, TopFrame DEF Frame
<1>4. CASE StayOrDone
  <2>1. GoodStep
    BY <1>2, <1>4 DEF StayOrDone, GoodStep, MeetInv, Later, StaysChosen
  <2>2. QED
    BY <2>1, <1>1, <1>4, PopStays DEF StayOrDone
<1>5. CASE Arrive
  <2>1. PICK mount \in Chars :
               w' = Together(w, Top.who, mount, Top.place, Top.place, Top.to)
    BY <1>3, <1>5 DEF Arrive, Mounts
  <2>2. /\ RoomsInv(w') /\ Later(w, w')
        /\ AtTheirPlaces(w) => AtTheirPlaces(w')
        /\ NoGaps /\ OneRoomEach(w) /\ Chosen(w, Top.to) => OneRoomEach(w') /\ StaysChosen(w, w')
    BY <2>1, <1>2, <1>3, TogetherSound
  <2>3. QED
    BY <2>2, <1>1, <1>3, <1>5, NextPhaseStays DEF Arrive, GoodStep, MeetInv
<1>6. CASE TurnBack
  <2>1. PICK mount \in Chars :
               w' = Together(w, Top.who, mount, CoordsIn(w, Top.who, Top.from),
                             CoordsIn(w, mount, Top.from), Top.from)
    BY <1>3, <1>6 DEF TurnBack, Mounts
  <2>2. CoordsIn(w, Top.who, Top.from) \in Places /\ CoordsIn(w, mount, Top.from) \in Places
    BY <1>2, <1>3, CoordsInPlaces
  <2>3. /\ RoomsInv(w') /\ Later(w, w')
        /\ AtTheirPlaces(w) => AtTheirPlaces(w')
        /\ NoGaps /\ OneRoomEach(w) /\ Chosen(w, Top.from) => OneRoomEach(w') /\ StaysChosen(w, w')
    BY <2>1, <2>2, <1>2, <1>3, TogetherSound
  <2>4. QED
    BY <2>3, <1>1, <1>3, <1>6, PopStays DEF TurnBack, GoodStep, MeetInv
<1>7. CASE GotoArrives
  <2> DEFINE p == w.coords[Top.to]
  <2>1. w' = Moved(w, Top.who, p, Top.to)
    BY <1>7 DEF GotoArrives
  <2>2. p \in Places
    BY <1>3, <1>7 DEF GotoArrives, Placed
  <2> HIDE DEF p
  <2>3. /\ RoomsInv(w') /\ Later(w, w')
        /\ AtTheirPlaces(w) => AtTheirPlaces(w')
        /\ NoGaps /\ OneRoomEach(w) /\ Chosen(w, Top.to) => OneRoomEach(w') /\ StaysChosen(w, w')
    BY <2>1, <2>2, <1>2, <1>3, MovedSound
  <2>4. QED
    BY <2>3, <1>1, <1>3, <1>7, PopStays DEF GotoArrives, GoodStep, MeetInv
<1>8. QED
  BY <1>4, <1>5, <1>6, <1>7

\* A ship is made, or restored.
LEMMA PlaceHullStep ==
  ASSUME IInv, NEW s \in Ships, NEW p \in Places, PlaceHull(s, p)
  PROVE  /\ RoomsInv(w)' /\ Later(w, w') /\ mapped' \subseteq Pool
         /\ AtTheirPlaces(w) => AtTheirPlaces(w)'
         /\ NoGaps /\ OneRoomEach(w) => OneRoomEach(w)'
<1> DEFINE g == get_or_allocate(w, mapped, p).w
           r == get_or_allocate(w, mapped, p).room
<1>1. /\ w' = IF r = None THEN g ELSE Hull([g EXCEPT !.at[s] = p], s, r)
      /\ mapped' = get_or_allocate(w, mapped, p).mapped
  BY DEF PlaceHull
<1>2. RoomsInv(w) /\ mapped \in SUBSET Pool
  BY DEF IInv, Typed
<1>3. /\ Lent(w, g, r, p) /\ mapped' \in SUBSET Pool
      /\ NoGaps => Alone(g, r)
  BY <1>1, <1>2, AllocatedRoom
<1> HIDE DEF g, r
<1>4. /\ RoomsInv(g) /\ Later(w, g)
      /\ AtTheirPlaces(w) => AtTheirPlaces(g)
      /\ OneRoomEach(w) => OneRoomEach(g)
  BY <1>2, <1>3, LentSound
<1>5. CASE r = None
  BY <1>1, <1>3, <1>4, <1>5
<1>6. CASE r # None
  <2>1. r \in Rooms /\ g.coords[r] = p
    BY <1>3, <1>6 DEF Lent
  <2>2. /\ RoomsInv(w') /\ Later(g, w')
        /\ AtTheirPlaces(g) /\ g.coords[r] = p => AtTheirPlaces(w')
        /\ OneRoomEach(g) /\ Alone(g, r) => OneRoomEach(w')
    BY <2>1, <1>1, <1>4, <1>6, HullSound
  <2>3. Later(w, w')
    BY <2>2, <1>4, LaterTransitive
  <2>4. QED
    BY <2>1, <2>2, <2>3, <1>3, <1>4
<1>7. QED
  BY <1>5, <1>6

\* A ship sails.  The place it leaves has the ship's own room, so looking up the terrain
\* there lends out no room, not the one chosen for the ship either.
LEMMA SailStep ==
  ASSUME IInv, NEW s \in Ships, NEW p \in Places, SailTo(s, p)
  PROVE  /\ RoomsInv(w)' /\ Later(w, w') /\ mapped' \subseteq Pool
         /\ NoGaps /\ AtTheirPlaces(w) => AtTheirPlaces(w)'
         /\ NoGaps /\ AtTheirPlaces(w) /\ OneRoomEach(w) => OneRoomEach(w)'
<1> DEFINE got  == get_or_allocate(w, mapped, p)
           left == get_or_allocate(got.w, got.mapped, w.at[s])
           g    == got.w
           r    == got.room
           h    == left.w
           q    == left.room
<1>1. \/ /\ r # None
         /\ w' = Hull([h EXCEPT !.at[s] = p], s, r)
         /\ mapped' = left.mapped
      \/ w' = g /\ mapped' = got.mapped
  BY DEF SailTo
<1>2. /\ RoomsInv(w) /\ mapped \in SUBSET Pool
  BY DEF IInv, Typed
<1>3. /\ w.at[s] \in Places /\ w.where[s] \in Rooms
      /\ w.where[s] \in InUse(w)
  BY <1>2, Fields, Kinds DEF RoomsInv, SailTo, InUse, Rooms
<1>4. /\ Lent(w, g, r, p) /\ got.mapped \in SUBSET Pool
      /\ NoGaps => Alone(g, r)
  BY <1>2, AllocatedRoom
<1>5. /\ RoomsInv(g) /\ Later(w, g)
      /\ AtTheirPlaces(w) => AtTheirPlaces(g)
      /\ OneRoomEach(w) => OneRoomEach(g)
  <2> HIDE DEF got, g, r
  <2>1. QED
    BY <1>2, <1>4, LentSound
<1>6. /\ Lent(g, h, q, w.at[s]) /\ left.mapped \in SUBSET Pool
      /\ NoGaps /\ (\E x \in InUse(g) : g.coords[x] = w.at[s]) => h = g
  <2> HIDE DEF got
  <2>1. QED
    BY <1>3, <1>4, <1>5, AllocatedRoom
<1> HIDE DEF got, left, g, h, r, q
<1>7. /\ RoomsInv(h) /\ Later(g, h)
  BY <1>3, <1>5, <1>6, LentSound
<1>8. NoGaps /\ AtTheirPlaces(w) => h = g
  <2>1. g.coords[w.where[s]] = w.coords[w.where[s]] /\ w.where[s] \in InUse(g)
    BY <1>3, <1>5 DEF Later, InUse
  <2>2. AtTheirPlaces(w) => w.coords[w.where[s]] = w.at[s]
    BY <1>3 DEF AtTheirPlaces
  <2>3. QED
    BY <2>1, <2>2, <1>6
<1>9. CASE w' = g /\ mapped' = got.mapped
  BY <1>4, <1>5, <1>9
<1>10. CASE r # None /\ w' = Hull([h EXCEPT !.at[s] = p], s, r) /\ mapped' = left.mapped
  <2>1. r \in Rooms /\ g.coords[r] = p
    BY <1>4, <1>10 DEF Lent
  <2>2. h.coords[r] \in Places
    BY <2>1, <1>7 DEF Later, Placed
  <2>3. /\ RoomsInv(w') /\ Later(h, w')
        /\ AtTheirPlaces(h) /\ h.coords[r] = p => AtTheirPlaces(w')
        /\ OneRoomEach(h) /\ Alone(h, r) => OneRoomEach(w')
    BY <2>1, <2>2, <1>7, <1>10, HullSound
  <2>4. Later(w, w')
    BY <2>3, <1>5, <1>7, LaterTransitive
  <2>5. QED
    BY <2>1, <2>3, <2>4, <1>4, <1>5, <1>6, <1>8, <1>10
<1>11. QED
  BY <1>1, <1>9, <1>10

\* The rooms of the pool that are in use go on standing for their places.
PlacesKept == \A r \in w.occupied : w'.coords[r] = w.coords[r]

\* What every step does: it keeps each layer, under the hypotheses the layer needs.
LayersKept ==
  /\ IInv' /\ PlacesKept
  /\ CalmEncounters /\ AtTheirPlaces(w) => AtTheirPlaces(w)'
  /\ CalmSeas /\ AtTheirPlaces(w) /\ MeetInv => MeetInv'

\* The steps that respect every layer without hypotheses keep them.
LEMMA GoodKeeps ==
  ASSUME GoodStep, IInv', NoGaps /\ MeetInv => MeetInv'
  PROVE  LayersKept
BY DEF GoodStep, LayersKept, PlacesKept, Later, InUse, CalmSeas

\* A ship's steps: no frame waits in calm seas.
LEMMA ShipKeeps ==
  ASSUME IInv, NEW s \in Ships, NEW p \in Places, PlaceHull(s, p) \/ SailTo(s, p)
  PROVE  LayersKept
<1>1. MaySail /\ UNCHANGED stack
  BY DEF PlaceHull, SailTo
<1>2. /\ RoomsInv(w)' /\ Later(w, w') /\ mapped' \subseteq Pool
      /\ NoGaps /\ AtTheirPlaces(w) => AtTheirPlaces(w)'
      /\ NoGaps /\ AtTheirPlaces(w) /\ OneRoomEach(w) => OneRoomEach(w)'
  BY PlaceHullStep, SailStep
<1>3. IInv'
  <2>1. Typed'
    BY <1>1, <1>2 DEF IInv, Typed
  <2>2. PlacedFrames'
    <3>1. stack \in Seq(Frame)
      BY DEF IInv, Typed
    <3>2. \A i \in 1 .. Len(stack) :
            /\ Placed(w', stack[i].to) /\ Placed(w', stack[i].from)
            /\ stack[i].phase = "going" => stack[i].to \in Rooms
      BY <1>2 DEF IInv, PlacedFrames, Later, Placed
    <3>3. QED
      BY <3>2, <1>1 DEF PlacedFrames
  <2>3. QED
    BY <2>1, <2>2, <1>2 DEF IInv
<1>4. ASSUME CalmSeas PROVE ChosenFrames'
  <2>1. stack' = <<>>
    BY <1>1, <1>4 DEF MaySail, CalmSeas
  <2>2. Len(stack') = 0
    BY <2>1
  <2>3. QED
    BY <2>2 DEF ChosenFrames
<1>5. PlacesKept
  BY <1>2 DEF PlacesKept, Later, InUse
<1>6. QED
  BY <1>2, <1>3, <1>4, <1>5 DEF LayersKept, CalmEncounters, CalmSeas, MeetInv

\* With no command on the stack no frame waits.
LEMMA NoFrames ==
  ASSUME IInv, stack = <<>>, UNCHANGED <<mapped, stack>>, RoomsInv(w)'
  PROVE  IInv' /\ ChosenFrames'
<1>1. Len(stack') = 0
  OBVIOUS
<1>2. Typed'
  BY DEF IInv, Typed
<1>3. QED
  BY <1>1, <1>2 DEF IInv, PlacedFrames, ChosenFrames

\* The check takes back a room nobody and nothing but vehicles is in.
LEMMA CheckKeeps ==
  ASSUME IInv, NEW r \in Pool, event_check_occupied(r)
  PROVE  LayersKept
<1>1. /\ stack = <<>> /\ Empty(r) /\ UNCHANGED <<mapped, stack>>
      /\ w' = [w EXCEPT !.occupied = @ \ {r}, !.checks = @ \ {r}]
  BY DEF event_check_occupied
<1>2. RoomsInv(w) /\ w \in World
  BY DEF IInv, RoomsInv
<1>3. /\ w' \in World
      /\ w'.coords = w.coords /\ w'.where = w.where /\ w'.at = w.at
      /\ w'.occupied = w.occupied \ {r} /\ w'.checks = w.checks \ {r}
  BY <1>1, <1>2 DEF World
<1>4. InUse(w') \subseteq InUse(w)
  BY <1>3 DEF InUse
<1>5. RoomsInv(w')
  BY <1>1, <1>2, <1>3, <1>4 DEF RoomsInv, Empty
<1>6. /\ AtTheirPlaces(w) => AtTheirPlaces(w')
      /\ OneRoomEach(w) => OneRoomEach(w')
      /\ PlacesKept
  BY <1>3, <1>4 DEF AtTheirPlaces, OneRoomEach, PlacesKept
<1>7. IInv' /\ ChosenFrames'
  BY <1>1, <1>5, NoFrames
<1>8. QED
  BY <1>6, <1>7 DEF LayersKept, MeetInv

\* A room of an encounter moves, with nobody in it, to a place that is free.
LEMMA EncounterKeeps ==
  ASSUME IInv, NEW r \in Encounters, NEW p \in Places, EncounterReset(r, p)
  PROVE  LayersKept
<1>1. /\ stack = <<>> /\ UNCHANGED <<mapped, stack>>
      /\ w' = [w EXCEPT !.coords[r] = p]
      /\ \A c \in Chars : w.where[c] # r
      /\ \/ find_room_by_coordinates(w, p) = None /\ \A s \in Ships : w.where[s] # r
         \/ "encounter_hits" \in Risks
  BY DEF EncounterReset
<1>2. /\ RoomsInv(w) /\ w \in World /\ w.occupied \subseteq Pool
      /\ w.coords \in [Rooms -> Places \cup {None}]
      /\ r \in Fixed /\ r \in Rooms /\ r \notin Pool /\ None \notin Places
  BY Fields, WildernessAssumption DEF IInv, RoomsInv, Rooms
<1>3. /\ w' \in World /\ w'.coords = [w.coords EXCEPT ![r] = p]
      /\ w'.where = w.where /\ w'.at = w.at
      /\ w'.occupied = w.occupied /\ w'.checks = w.checks
  BY <1>1, <1>2 DEF World
<1>4. InUse(w') = InUse(w) /\ InUse(w) \subseteq Rooms /\ r \in InUse(w)
  BY <1>2, <1>3 DEF InUse, Rooms
<1>5. RoomsInv(w')
  BY <1>2, <1>3, <1>4 DEF RoomsInv
<1>6. PlacesKept
  BY <1>2, <1>3 DEF PlacesKept, Rooms
<1>7. ASSUME CalmEncounters PROVE AtTheirPlaces(w) => AtTheirPlaces(w')
  <2>1. \A b \in Chars \cup Ships : w.where[b] # r
    BY <1>1, <1>7 DEF CalmEncounters
  <2>2. QED
    BY <2>1, <1>2, <1>3 DEF AtTheirPlaces
<1>8. ASSUME CalmSeas PROVE OneRoomEach(w) => OneRoomEach(w')
  <2>1. NoGaps /\ find_room_by_coordinates(w, p) = None
    BY <1>1, <1>8 DEF CalmSeas
  <2>2. \A q \in InUse(w) : w.coords[q] # p
    BY <2>1, <1>2, FindFinds
  <2>3. QED
    BY <2>2, <1>2, <1>3, <1>4 DEF OneRoomEach
<1>9. IInv' /\ ChosenFrames'
  BY <1>1, <1>5, NoFrames
<1>10. QED
  BY <1>6, <1>7, <1>8, <1>9 DEF LayersKept, MeetInv

\* At first nobody is anywhere, and the fixed rooms stand for their places.
LEMMA InitGood ==
  ASSUME Init
  PROVE  Inv
<1>1. /\ w.coords = [r \in Rooms |-> IF r \in Fixed THEN PlaceOf[r] ELSE None]
      /\ w.occupied = {} /\ w.checks = {}
      /\ w.where = [b \in Bodies |-> None]
      /\ w.at = [m \in Movers |-> Origin]
      /\ mapped = {} /\ stack = <<>>
  BY DEF Init
<1>2. w \in World
  BY WildernessAssumption DEF Init, World
<1>3. /\ Fixed \subseteq Rooms /\ None \notin Rooms \cup {City}
      /\ Ships \subseteq Bodies /\ Chars \subseteq Bodies /\ None \notin Pool
  BY WildernessAssumption DEF Rooms, Bodies, Movers
<1>4. RoomsInv(w)
  <2>1. \A r \in InUse(w) : w.coords[r] \in Places
    BY <1>1, <1>3, WildernessAssumption DEF InUse
  <2>2. QED
    BY <2>1, <1>1, <1>2, <1>3 DEF RoomsInv
<1>5. AtTheirPlaces(w)
  BY <1>1, <1>3 DEF AtTheirPlaces
<1>6. OneRoomEach(w)
  BY <1>1, <1>3, WildernessAssumption DEF OneRoomEach, InUse
<1>7. Typed /\ Len(stack) = 0
  BY <1>1, WildernessAssumption DEF Typed
<1>8. PlacedFrames /\ ChosenFrames
  BY <1>7 DEF PlacedFrames, ChosenFrames
<1>9. QED
  BY <1>4, <1>5, <1>6, <1>7, <1>8 DEF Inv, IInv, MeetInv

\* Every step keeps the layers.
LEMMA StepKeeps ==
  ASSUME IInv, [Next]_vars
  PROVE  LayersKept
<1>1. CASE UNCHANGED vars
  <2>1. UNCHANGED w /\ UNCHANGED <<mapped, stack>>
    BY <1>1 DEF vars
  <2>2. GoodStep
    BY <2>1 DEF GoodStep, IInv, MeetInv, Later, StaysChosen
  <2>3. QED
    BY <2>1, <2>2, StackStays, GoodFrames, GoodKeeps
<1>2. ASSUME GoodStep, UNCHANGED <<mapped, stack>> PROVE LayersKept
  BY <1>2, StackStays, GoodFrames, GoodKeeps
<1>3. ASSUME NEW c \in Chars, Enter(c) \/ Leave(c) PROVE LayersKept
  <2>1. UNCHANGED <<mapped, stack>>
    BY <1>3 DEF Enter, Leave
  <2>2. QED
    BY <2>1, <1>2, <1>3, EnterStep, LeaveStep
<1>4. ASSUME NEW c \in Chars, NEW p \in Places, wild_mobile_loader(c, p) PROVE LayersKept
  <2>1. UNCHANGED <<mapped, stack>>
    BY <1>4 DEF wild_mobile_loader
  <2>2. QED
    BY <2>1, <1>2, <1>4, LoaderStep
<1>5. ASSUME NEW c \in Chars, NEW p \in Places, Walk(c, p) \/ Goto(c, p) PROVE LayersKept
  BY <1>5, SetOutStep, GoodKeeps
<1>6. ASSUME NEW c \in Chars, NEW d \in Chars \cup Things, Summon(c, d) PROVE LayersKept
  <2>1. UNCHANGED <<mapped, stack>>
    BY <1>6 DEF Summon
  <2>2. QED
    BY <2>1, <1>2, <1>6, SummonStep
<1>7. ASSUME NEW c \in Chars, NEW r \in Fixed \cup {City}, WalkFixed(c, r) PROVE LayersKept
  BY <1>7, WalkFixedStep, GoodKeeps
<1>8. ASSUME NEW p \in Places, Probe(p) PROVE LayersKept
  <2>1. UNCHANGED <<mapped, stack>> /\ w' = Reached(w, p).w
    BY <1>8 DEF Probe
  <2>2. QED
    BY <2>1, <1>2, ProbeStep
<1>9. ASSUME StayOrDone \/ Arrive \/ TurnBack \/ GotoArrives PROVE LayersKept
  BY <1>9, CommandStep, GoodFrames, GoodKeeps
<1>10. ASSUME NEW o \in Things, Vanish(o) \/ \E c \in Chars : Drop(o, c) PROVE LayersKept
  <2>1. UNCHANGED <<mapped, stack>>
    BY <1>10 DEF Vanish, Drop
  <2>2. QED
    BY <2>1, <1>2, <1>10, ThingStep
<1>11. ASSUME NEW s \in Ships, NEW p \in Places, PlaceHull(s, p) \/ SailTo(s, p) PROVE LayersKept
  BY <1>11, ShipKeeps
<1>12. ASSUME NEW v \in Vehicles, NEW c \in Chars, MakeVehicle(v, c) PROVE LayersKept
  <2>1. UNCHANGED <<mapped, stack>>
    BY <1>12 DEF MakeVehicle
  <2>2. QED
    BY <2>1, <1>2, <1>12, MakeVehicleStep
<1>13. ASSUME NEW v \in Vehicles, NEW c \in Chars, NEW d \in Chars, NEW p \in Places,
              Drive(v, c, d, p)
       PROVE  LayersKept
  <2>1. UNCHANGED <<mapped, stack>>
    BY <1>13 DEF Drive
  <2>2. QED
    BY <2>1, <1>2, <1>13, DriveStep
<1>14. ASSUME NEW r \in Encounters, NEW p \in Places, EncounterReset(r, p) PROVE LayersKept
  BY <1>14, EncounterKeeps
<1>15. ASSUME NEW r \in Pool, event_check_occupied(r) PROVE LayersKept
  BY <1>15, CheckKeeps
<1>16. CASE Next
  BY <1>3, <1>4, <1>5, <1>6, <1>7, <1>8, <1>9, <1>10, <1>11, <1>12, <1>13, <1>14, <1>15, <1>16
     DEF Next
<1>17. QED
  BY <1>1, <1>16

-----------------------------------------------------------------------------
(* The theorems.                                                           *)

\* The inductive invariant: what the allocator never does, and what follows with a
\* whole pool, with encounters that find free places and with calm seas.
THEOREM Invariance == Spec => []Inv
<1>1. Inv /\ [Next]_vars => Inv'
  <2>1. CalmSeas => CalmEncounters
    BY DEF CalmSeas, CalmEncounters
  <2>2. QED
    BY <2>1, StepKeeps DEF Inv, LayersKept
<1>2. QED
  BY <1>1, InitGood, PTL DEF Spec

\* Whatever risks come up: what lies in a room of the pool lies at one place until it is
\* moved (find_available_wilderness_room lends out no room that is in use).
THEOREM ThingsStay == Spec => ThingsStayInPlace
<1> DEFINE Stay == \A o \in Things :
                     (w.where[o] \in Pool /\ w'.where[o] = w.where[o])
                       => w'.coords[w.where[o]] = w.coords[w.where[o]]
<1>1. ASSUME Inv, [Next]_vars PROVE Stay
  <2>1. \A o \in Things : w.where[o] \in Pool => w.where[o] \in w.occupied
    <3>1. Things \subseteq Bodies \ Vehicles
      BY Kinds
    <3>2. QED
      BY <3>1, <1>1 DEF Inv, IInv, RoomsInv
  <2>2. PlacesKept
    BY <1>1, StepKeeps DEF Inv, LayersKept
  <2>3. QED
    BY <2>1, <2>2 DEF PlacesKept
<1>2. Inv /\ [Next]_vars => Stay
  BY <1>1
<1> HIDE DEF Stay
<1>3. Spec => [][Stay]_vars
  BY <1>2, Invariance, PTL DEF Spec
<1>4. QED
  BY <1>3 DEF Stay, ThingsStayInPlace

\* With a whole pool and encounters that find free places, whoever is in a room is at
\* its place, and every room of the pool that holds somebody is flagged and checked.
THEOREM RoomsAreKept ==
  ASSUME CalmEncounters
  PROVE  Spec => []LiveRoomKept
<1>1. Inv => LiveRoomKept
  <2>1. Inv => TypeOK
    BY DEF Inv, IInv, RoomsInv, Typed, TypeOK
  <2>2. QED
    BY <2>1 DEF Inv, IInv, RoomsInv, AtTheirPlaces, LiveRoomKept
<1>2. QED
  BY <1>1, Invariance, PTL

\* With no ship that sails inside another's move, those at one place meet.
THEOREM ThoseAtAPlaceMeet ==
  ASSUME CalmSeas
  PROVE  Spec => []MeetAtPlace
<1>1. ASSUME Inv PROVE MeetAtPlace
  <2>1. RoomsInv(w) /\ AtTheirPlaces(w) /\ OneRoomEach(w)
    BY <1>1 DEF Inv, IInv, MeetInv, CalmSeas, CalmEncounters
  <2>2. \A b \in Chars \cup Ships : w.where[b] \in Rooms => w.where[b] \in InUse(w)
    <3>1. Chars \cup Ships \subseteq Bodies \ Vehicles
      BY Kinds
    <3>2. QED
      BY <2>1, <3>1 DEF RoomsInv, InUse, Rooms
  <2>3. QED
    BY <2>1, <2>2 DEF AtTheirPlaces, OneRoomEach, MeetAtPlace
<1>2. QED
  BY <1>1, Invariance, PTL
=============================================================================
