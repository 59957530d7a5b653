-------------------------------- MODULE Fights --------------------------------
(***************************************************************************)
(* Who fights whom, and how the dead leave the world.                      *)
(*                                                                         *)
(* src/combat/fight.c keeps every fighter on combat_list and gives each an *)
(* eCOMBAT_ROUND event; src/handler.c only flags an extracted character    *)
(* (NOTDEADYET) and takes all of them out at the end of the pulse, because *)
(* any code on the stack may still hold a pointer to one.  The pieces meet *)
(* when a round kills, when the killed one was somebody's target, when a   *)
(* player quits in mid fight and comes back.                               *)
(*                                                                         *)
(* A round runs as two steps, its start and its return; what perform_violence *)
(* calls in between (blows, deaths, scripts, commands) is any of the other *)
(* actions.  Rooms, positions and dice are left out: where the code asks   *)
(* for one, both answers are possible.  Memory of a mobile is reused: an   *)
(* element of Mobs is a struct the allocator hands out again.              *)
(***************************************************************************)
EXTENDS Naturals, FiniteSets, SequencesExt

CONSTANTS
  Mobs, Players,
  None,
  Dexterities,  \* what GET_DEX_BONUS can be of everyone: spells change it
  Initiatives,  \* what roll_initiative can return for a character
  Scenarios,    \* bound: see Scenario
  Risks         \* the risky situations that may come up

Chars == Mobs \cup Players

\* GUARDING, HUNTING and last_attacker.
AllKinds == {"guarding", "hunting", "last_attacker"}

\* What a behaviour follows: fights, references to others, or both.
Scenario == [fighters : SUBSET Chars,    \* who is ever awake, GET_POS > POS_STUNNED
             kinds    : SUBSET AllKinds]

\* The one command that cancels every event of a fighter: wizard's "unaffect".  And an
\* event queue at its limit, which takes no round of a new fight.
AllRisks == {"unaffect_fighter", "event_limit"}

ASSUME FightsAssumption ==
  /\ None \notin Chars
  /\ Mobs \cap Players = {}
  /\ Dexterities \subseteq [Chars -> Nat]
  /\ Initiatives \in [Chars -> SUBSET Nat]
  /\ Scenarios \subseteq Scenario
  /\ Risks \subseteq AllRisks

VARIABLES
  scenario,            \* never changes
  characterList,       \* character_list: everyone in the world
  menu,                \* players at the menu, their struct still allocated
  pending,             \* flagged NOTDEADYET
  extractionsPending,  \* extractions_pending
  dead,                \* at POS_DEAD
  f,                   \* the fights: see FightType
  ref,                 \* ref[k][c]: whom c refers to as k
  running              \* whose event_combat_round is on the stack

vars == <<scenario, characterList, menu, pending, extractionsPending, dead, f, ref, running>>

Fighters == scenario.fighters
Kinds    == scenario.kinds

Entry == [who : Chars, init : Nat]   \* GET_INITIATIVE matters while listed

FightType == [combat   : Seq(Entry),                          \* combat_list
              fighting : [Chars -> Chars \cup {None}],        \* FIGHTING
              round    : [Chars -> {"none", "queued", "running"}]]  \* eCOMBAT_ROUND

InWorld   == ToSet(characterList)
Allocated == InWorld \cup menu

-----------------------------------------------------------------------------
(* combat_list and the round event.                                        *)

\* The walk of set_fighting goes on past d.
ActsAfter(c, i, dex, d) == i > d.init \/ (i = d.init /\ dex[c] < dex[d.who])

\* Mutant: a newcomer goes to the end of the order.
AtEnd(combat, c, i, dex) == Append(combat, [who |-> c, init |-> i])

\* c before the first fighter that does not precede it.
Inserted(combat, c, i, dex) ==
  LET stop == {k \in DOMAIN combat : ~ActsAfter(c, i, dex, combat[k])}
      at   == CHOOSE k \in 1 .. Len(combat) + 1 :
                /\ k \in stop \/ (stop = {} /\ k = Len(combat) + 1)
                /\ \A j \in stop : k <= j
  IN  InsertAt(combat, at, [who |-> c, init |-> i])

\* Mutant: the fight starts and no round is scheduled.
SetFightingNoRound(g, c, v, i, dex, made) ==
  IF c = v \/ g.fighting[c] # None \/ g.round[c] # "none" THEN g
  ELSE [g EXCEPT !.combat = Inserted(g.combat, c, i, dex), !.fighting[c] = v]

\* set_fighting: refused to one who fights, or whose last round is still around.  made:
\* whose round attach_mud_event can create; the others fight without one.
set_fighting(g, c, v, i, dex, made) ==
  IF c = v \/ g.fighting[c] # None \/ g.round[c] # "none" THEN g
  ELSE [g EXCEPT !.combat = Inserted(g.combat, c, i, dex), !.fighting[c] = v,
                 !.round[c] = IF c \in made THEN "queued" ELSE "none"]

\* event_cancel_specific and clear_char_event_list: a running event stays.
RoundCancelled(g, c) ==
  [g EXCEPT !.round[c] = IF @ = "queued" THEN "none" ELSE @]

\* The elements of s at the positions in I, in their order.
Kept(s, I) ==
  LET at == CHOOSE h \in [1 .. Cardinality(I) -> I] :
              \A i, j \in DOMAIN h : i < j => h[i] < h[j]
  IN  [k \in 1 .. Cardinality(I) |-> s[at[k]]]

Order(g) == [k \in DOMAIN g.combat |-> g.combat[k].who]

\* The fights of all in K end.  None of these calls looks at what another leaves.
FightsOver(g, K) ==
  [g EXCEPT !.combat = Kept(@, {k \in DOMAIN @ : @[k].who \notin K}),
            !.fighting = [c \in Chars |-> IF c \in K THEN None ELSE @[c]],
            !.round = [c \in Chars |->
                         IF c \in K /\ @[c] = "queued" THEN "none" ELSE @[c]]]

stop_fighting(g, c) == FightsOver(g, {c})

\* The loops over combat_list that stop everyone who fights one of S.
StopAllOn(g, S) == FightsOver(g, {c \in ToSet(Order(g)) : g.fighting[c] \in S})

\* Everyone's references of kind k to a member of S become NULL.
Forget(r, k, S) ==
  IF k \notin Kinds THEN r
  ELSE [r EXCEPT ![k] = [c \in Chars |->
                           IF c \in InWorld /\ @[c] \in S THEN None ELSE @[c]]]

SetRef(r, k, c, v) == IF k \in Kinds THEN [r EXCEPT ![k][c] = v] ELSE r

Hunting(c) == IF "hunting" \in Kinds THEN ref["hunting"][c] ELSE None

-----------------------------------------------------------------------------
(* Coming and going.                                                       *)

Init ==
  /\ scenario \in Scenarios
  /\ characterList = <<>>
  /\ menu = {}
  /\ pending = {}
  /\ extractionsPending = 0
  /\ dead = {}
  /\ f = [combat |-> <<>>, fighting |-> [c \in Chars |-> None],
          round |-> [c \in Chars |-> "none"]]
  /\ ref = [k \in Kinds |-> [c \in Chars |-> None]]
  /\ running = None

\* read_mobile: a mobile enters at the head of character_list.
read_mobile(m) ==
  /\ m \in Mobs \ InWorld
  /\ characterList' = <<m>> \o characterList
  /\ UNCHANGED <<scenario, menu, pending, extractionsPending, dead, f, ref, running>>

\* enter_player_game, from a fresh login or from the menu.  reset_char clears
\* HUNTING, FIGHTING and the rest, and leaves last_attacker.
enter_player_game(p) ==
  /\ p \in Players \ InWorld
  /\ running = None
  /\ characterList' = <<p>> \o characterList
  /\ menu' = menu \ {p}
  /\ f' = [f EXCEPT !.fighting[p] = None]
  /\ ref' = SetRef(ref, "hunting", p, None)
  /\ UNCHANGED <<scenario, pending, extractionsPending, dead, running>>

\* A player disconnects at the menu: free_char.
LeaveMenu(p) ==
  /\ p \in menu
  /\ running = None
  /\ menu' = menu \ {p}
  /\ ref' = [k \in Kinds |-> [ref[k] EXCEPT ![p] = None]]
  /\ UNCHANGED <<scenario, characterList, pending, extractionsPending, dead, f, running>>

\* extract_char: flag it and count it, once.
Flag(c) ==
  /\ pending' = pending \cup {c}
  /\ extractionsPending' = IF c \in pending THEN extractionsPending
                           ELSE extractionsPending + 1

\* quit, purge, a script, a spent summoning: c leaves without dying.
extract_char(c) ==
  /\ c \in InWorld
  /\ Flag(c)
  /\ UNCHANGED <<scenario, characterList, menu, dead, f, ref, running>>

-----------------------------------------------------------------------------
(* Blows and deaths.                                                       *)

\* Both sides of a blow, for those who are awake.  opening: the attacker only
\* starts a fight with somebody who has none.
Engage(a, v, able, opening, i, j, dex, made) ==
  LET g == IF a \in able /\ (opening => f.fighting[v] = None)
           THEN set_fighting(f, a, v, i, dex, made) ELSE f
  IN  IF v \in able THEN set_fighting(g, v, a, j, dex, made) ELSE g

\* Whose rounds can be created.
MadeOf(S) == IF "event_limit" \in Risks THEN SUBSET S ELSE {S}

\* hit(): neither is looked at for NOTDEADYET, only for POS_DEAD.
hit(a, v) ==
  /\ {a, v} \subseteq InWorld \ dead
  /\ a # v
  /\ \E able \in SUBSET ({a, v} \cap Fighters), i \in Initiatives[a], j \in Initiatives[v],
        dex \in Dexterities, made \in MadeOf({a, v}) :
       f' = Engage(a, v, able, FALSE, i, j, dex, made)
  /\ UNCHANGED <<scenario, characterList, menu, pending, extractionsPending, dead,
                 ref, running>>

\* damage(): returns when either is being extracted; remembers the attacker.  A
\* struck mobile with nobody to hunt hunts the player who struck it, or the one
\* whose pet did (h).
damage(a, v) ==
  /\ {a, v} \subseteq InWorld \ pending
  /\ a # v
  /\ \E able \in SUBSET ({a, v} \cap Fighters), i \in Initiatives[a], j \in Initiatives[v],
        dex \in Dexterities, made \in MadeOf({a, v}) :
       f' = Engage(a, v, able, TRUE, i, j, dex, made)
  /\ \E h \in {None} \cup (IF a \in Players THEN {a} ELSE Players \cap InWorld) :
       ref' = LET r == SetRef(ref, "last_attacker", v, a) IN
              IF h # None /\ v \in Mobs /\ Hunting(v) = None
              THEN SetRef(r, "hunting", v, h) ELSE r
  /\ UNCHANGED <<scenario, characterList, menu, pending, extractionsPending, dead,
                 running>>

\* A script sends a mobile that does not fight after anybody.
do_mhunt(m, v) ==
  /\ m \in Mobs
  /\ {m, v} \subseteq InWorld
  /\ "hunting" \in Kinds
  /\ f.fighting[m] = None
  /\ ref' = SetRef(ref, "hunting", m, v)
  /\ UNCHANGED <<scenario, characterList, menu, pending, extractionsPending, dead, f,
                 running>>

\* do_guard: a player guards another, or a pet.
do_guard(c, v) ==
  /\ c \in Players
  /\ {c, v} \subseteq InWorld
  /\ c # v
  /\ "guarding" \in Kinds
  /\ ref' = SetRef(ref, "guarding", c, v)
  /\ UNCHANGED <<scenario, characterList, menu, pending, extractionsPending, dead, f,
                 running>>

\* stop_fighting from a spell, a script, a peaceful room or a refused order.
Disengage(c) ==
  /\ c \in InWorld
  /\ f' = stop_fighting(f, c)
  /\ UNCHANGED <<scenario, characterList, menu, pending, extractionsPending, dead,
                 ref, running>>

\* perform_flee: the one who flees stops, and those who fought him.
perform_flee(c) ==
  /\ c \in InWorld
  /\ f.fighting[c] # None
  /\ f' = StopAllOn(stop_fighting(f, c), {c})
  /\ UNCHANGED <<scenario, characterList, menu, pending, extractionsPending, dead,
                 ref, running>>

\* raw_kill: every fight with the dead stops, then all its events go.
DeathStops(v) == RoundCancelled(StopAllOn(stop_fighting(f, v), {v}), v)

\* die and raw_kill.  A mobile is extracted; a player wakes up elsewhere.
die(v) ==
  /\ v \in InWorld \ pending
  /\ f' = DeathStops(v)
  /\ ref' = SetRef(Forget(Forget(ref, "guarding", {v}), "hunting", {v}), "guarding", v, None)
  /\ IF v \in Mobs THEN Flag(v) /\ dead' = dead \cup {v}
     ELSE UNCHANGED <<pending, extractionsPending, dead>>
  /\ UNCHANGED <<scenario, characterList, menu, running>>

\* "unaffect": clear_char_event_list takes the round event with the others.
unaffect(v) ==
  /\ v \in InWorld
  /\ f.round[v] = "queued"
  /\ f.fighting[v] # None => "unaffect_fighter" \in Risks
  /\ f' = RoundCancelled(f, v)
  /\ UNCHANGED <<scenario, characterList, menu, pending, extractionsPending, dead,
                 ref, running>>

-----------------------------------------------------------------------------
(* The combat round.                                                       *)

Fires(c) == running = None /\ f.round[c] = "queued"

\* Mutant: a round without a fight is queued again like the others.
RoundRequeued(g, c) == [g EXCEPT !.round[c] = "queued"]

RoundFreed(g, c) == [g EXCEPT !.round[c] = "none"]

\* A round that returns 0 at once.  A character being extracted is left as it
\* is; one without a fight, with a dead opponent or one elsewhere stops.  The
\* running event outlives stop_fighting and is freed when it returns.
RoundGivesUp(c) ==
  /\ Fires(c)
  /\ f' = RoundFreed(IF c \in pending THEN f ELSE stop_fighting(f, c), c)
  /\ UNCHANGED <<scenario, characterList, menu, pending, extractionsPending, dead,
                 ref, running>>

\* The checks at the head of event_combat_round.
MayAct(c) ==
  /\ c \notin pending
  /\ f.fighting[c] # None
  /\ f.fighting[c] \notin dead

RoundStarts(c) ==
  /\ Fires(c)
  /\ MayAct(c)
  /\ f' = [f EXCEPT !.round[c] = "running"]
  /\ running' = c
  /\ UNCHANGED <<scenario, characterList, menu, pending, extractionsPending, dead, ref>>

\* "return 2 RL_SEC", whatever became of the fight: event_process queues it again.
RoundReturns(c) ==
  /\ running = c
  /\ f' = [f EXCEPT !.round[c] = "queued"]
  /\ running' = None
  /\ UNCHANGED <<scenario, characterList, menu, pending, extractionsPending, dead, ref>>

-----------------------------------------------------------------------------
(* The end of the pulse.                                                   *)

\* Mutant: the loop ends one character early.
DoomedShort ==
  {characterList[k] : k \in {j \in DOMAIN characterList :
     /\ characterList[j] \in pending
     /\ Cardinality({i \in 1 .. j : characterList[i] \in pending}) < extractionsPending}}

\* The flagged ones the loop of extract_pending_chars reaches before its count
\* is spent.
Doomed ==
  {characterList[k] : k \in {j \in DOMAIN characterList :
     /\ characterList[j] \in pending
     /\ Cardinality({i \in 1 .. j : characterList[i] \in pending}) <= extractionsPending}}

\* prepare_pending_extraction_references: the fights against those who leave.
FightsReleased == StopAllOn(f, pending)

RefsReleased ==
  Forget(Forget(Forget(ref, "last_attacker", pending), "guarding", pending), "hunting", pending)

\* Mutant: the round events of those who leave are not cancelled.
FinalRoundKept(g, K) ==
  [FightsOver(g, K) EXCEPT !.round = g.round]

\* extract_char_final, of all in K: they stop fighting and their events are cancelled.
extract_char_final(g, K) ==
  [FightsOver(g, K) EXCEPT !.round = [c \in Chars |-> IF c \in K THEN "none" ELSE @[c]]]

\* What c still refers to: a freed struct to nobody, a player at the menu to all
\* but the one he guarded.
FinalRefs(r, gone, toMenu) ==
  [k \in Kinds |-> [c \in Chars |->
     IF c \in gone \ toMenu \/ (c \in gone /\ k = "guarding") THEN None ELSE r[k][c]]]

\* extract_pending_chars, at the end of every heartbeat: no callback is running.
extract_pending_chars ==
  /\ running = None
  /\ extractionsPending > 0
  /\ \E toMenu \in SUBSET (Doomed \cap Players) :   \* those with a descriptor
       /\ menu' = menu \cup toMenu
       /\ ref' = FinalRefs(RefsReleased, Doomed, toMenu)
  /\ f' = extract_char_final(FightsReleased, Doomed)
  /\ characterList' =
       Kept(characterList, {k \in DOMAIN characterList : characterList[k] \notin Doomed})
  /\ pending' = pending \ Doomed
  /\ dead' = dead \ Doomed
  /\ extractionsPending' = 0
  /\ UNCHANGED <<scenario, running>>

Next ==
  \/ \E m \in Mobs : read_mobile(m)
  \/ \E p \in Players : enter_player_game(p) \/ LeaveMenu(p)
  \/ \E a, v \in Chars : hit(a, v) \/ damage(a, v) \/ do_guard(a, v) \/ do_mhunt(a, v)
  \/ \E c \in Chars : \/ extract_char(c)
                      \/ Disengage(c)
                      \/ perform_flee(c)
                      \/ die(c)
                      \/ unaffect(c)
                      \/ RoundGivesUp(c)
                      \/ RoundStarts(c)
                      \/ RoundReturns(c)
  \/ extract_pending_chars

Spec == Init /\ [][Next]_vars

\* Every due event is run in its pulse (EventQueue: EventsFireOnTime), its
\* callback returns, and the pulse ends with extract_pending_chars.
Fairness ==
  /\ \A c \in Chars : SF_vars(RoundGivesUp(c) \/ RoundStarts(c))
  /\ \A c \in Chars : WF_vars(RoundReturns(c))
  /\ SF_vars(extract_pending_chars)

FairSpec == Spec /\ Fairness

-----------------------------------------------------------------------------
(* Properties.                                                             *)

\* Every variable has its type; at most one round is on the stack.
TypeOK ==
  /\ scenario \in Scenarios
  /\ characterList \in Seq(Chars) /\ IsInjective(characterList)
  /\ menu \subseteq Players \ InWorld
  /\ pending \subseteq InWorld
  /\ extractionsPending \in Nat
  /\ dead \subseteq Mobs \cap pending
  /\ f \in FightType
  /\ ref \in [Kinds -> [Chars -> Chars \cup {None}]]
  /\ running \in Chars \cup {None}
  /\ \A c \in Chars : f.round[c] = "running" <=> running = c

\* combat_list holds exactly the characters with an opponent, each once: code
\* that walks the list finds all who fight, code that looks at FIGHTING finds
\* nobody the list has lost (set_fighting, stop_fighting).
FightersListed ==
  /\ IsInjective(Order(f))
  /\ ToSet(Order(f)) = {c \in Chars : f.fighting[c] # None}

\* combat_list is in the order of initiative, the lowest first, whoever left and
\* came back in between and whoever's dexterity changed (set_fighting).
InitiativeOrder ==
  \A j, k \in DOMAIN f.combat : j < k => f.combat[j].init <= f.combat[k].init

\* Both, after any order of starting, stopping, fleeing, dying and leaving, the
\* loops over combat_list that take others out of it included.
CombatListSound == TypeOK /\ FightersListed /\ InitiativeOrder

\* A fighter has a round event, queued or running, so the fight goes on: every
\* way to stop, die, flee and start again leaves the two together
\* (set_fighting's attach, stop_fighting's cancel, "return 2 RL_SEC").
FighterHasRound ==
  \A c \in Chars \ pending : f.fighting[c] # None => f.round[c] # "none"

\* Nobody in the world fights, guards or hunts a character that has left it: the
\* prepass of extract_pending_chars and die() reach every such pointer.
NoDanglingReference ==
  \A c \in InWorld :
    /\ f.fighting[c] \in InWorld \cup {None}
    /\ \A k \in Kinds \ {"last_attacker"} : ref[k][c] \in InWorld \cup {None}

\* One who has left the world is on no list and has no event queued.
CleanlyGone ==
  \A c \in Chars \ InWorld :
    f.fighting[c] = None /\ f.round[c] = "none" /\ c \notin ToSet(Order(f))

\* extractions_pending is the number of flagged characters, so the loop that
\* stops at zero has taken all of them out.
CountIsExact == extractionsPending = Cardinality(pending)

\* All three, at every step, so that a new character in the same memory starts
\* clean (extract_char_final, prepare_pending_extraction_references).
LeftNothingBehind == NoDanglingReference /\ CleanlyGone /\ CountIsExact

\* handler.c: "Clear last_attacker references to this character".  Not so for a
\* player at the menu, whose last_attacker the walk of character_list misses.
LastAttackerKnown ==
  "last_attacker" \in Kinds =>
    \A c \in InWorld : ref["last_attacker"][c] \in InWorld \cup {None}

\* Whoever is flagged is out of the world when the pulse ends.
ExtractionHappens == \A c \in Chars : c \in pending ~> c \notin pending

\* A fighter gets its round again and again, or its fight is over; and a round
\* that outlives its fight, which keeps the character from a new one (see
\* set_fighting), is gone when it has fired.
RoundsKeepComing ==
  \A c \in Chars :
    /\ f.fighting[c] # None ~> (running = c \/ f.fighting[c] = None)
    /\ (f.fighting[c] = None /\ f.round[c] # "none")
         ~> (f.round[c] = "none" \/ f.fighting[c] # None)
=============================================================================
