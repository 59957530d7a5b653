------------------------------ MODULE Scripts -------------------------------
(***************************************************************************)
(* DG scripts: the triggers attached to mobiles, objects and rooms         *)
(* (src/dgscript/dg_handler.c), the driver that runs them and lets them    *)
(* wait (dg_scripts.c), the registry of the owners whose triggers fire at  *)
(* random, and the room editor that moves rooms under waiting triggers     *)
(* (olc/genwld.c).                                                         *)
(*                                                                         *)
(* Everything runs in the game's one thread, but a command of a script     *)
(* can fire triggers of others, so drivers nest: the stack has one frame   *)
(* for each call of script_driver().  A frame keeps pointers to its        *)
(* trigger, its script and its owner over every command.  A line of a      *)
(* script is any line: what a script says is data.                         *)
(*                                                                         *)
(* The pointers a frame or a wait event keeps to what has been freed are   *)
(* marked, so that identities can be used again; following one is the      *)
(* end of the behaviour (crashed).                                         *)
(***************************************************************************)
EXTENDS Integers, FiniteSets, SequencesExt

CONSTANTS
  Mobs, Objs,      \* mobiles and objects
  RoomOrder,       \* the rooms in the order of their numbers
  Trigs,           \* triggers
  RandomTrigs,     \* those of type random, until trigedit changes it
  Homes,           \* the owners each is attached to
  Editable,        \* those whose type trigedit changes
  None,            \* no owner
  MaxScriptDepth,  \* MAX_SCRIPT_DEPTH
  MaxLines,        \* bounds the lines a driver runs before it returns
  MaxLeaks         \* bounds the whiles without a done that are run

Rooms == ToSet(RoomOrder)
Owners == Mobs \cup Objs \cup Rooms

ASSUME ScriptsAssumption ==
  /\ IsFiniteSet(Mobs) /\ IsFiniteSet(Objs)
  /\ RoomOrder \in Seq(Rooms) /\ IsInjective(RoomOrder)
  /\ Mobs \cap Objs = {} /\ Rooms \cap (Mobs \cup Objs) = {}
  /\ MaxScriptDepth \in Nat
  /\ MaxLines \in Nat \ {0}
  /\ MaxLeaks \in Nat
  /\ RandomTrigs \subseteq Trigs /\ Editable \subseteq Trigs
  /\ Homes \in [Trigs -> SUBSET Owners]
  /\ None \notin Owners

VARIABLES
  alive,     \* the mobiles and objects in the game
  pending,   \* the mobiles with MOB_NOTDEADYET
  world,     \* the array of rooms
  script,    \* the set of TRIGGERS(SCRIPT(owner)); an owner without has no script
  isRandom,  \* the type of a trigger has MTRIG_RANDOM
  types,     \* SCRIPT_TYPES of an owner has it
  busy,      \* GET_TRIG_DEPTH is not 0
  wait,      \* GET_TRIG_WAIT and the wait_event_data it points to
  stack,     \* the calls of script_driver()
  depth,     \* its static counter
  purged,    \* dg_owner_purged
  registry,  \* the lists of dg_random_heads: <<o, p>> if p is o or comes after it
  sweep,     \* the type that is being iterated, or 0
  next,      \* dg_random_iteration_next
  visiting,  \* the owner the iteration just returned
  due,       \* the owners still to be visited
  visited,   \* the owners that have been
  crashed,   \* why something freed was used
  stuck,     \* the triggers whose driver returned without ending them
  leaks      \* the calls that stayed counted in depth

things == <<alive, pending, world>>
triggers == <<script, isRandom, types, busy, wait, stuck>>
driver == <<stack, depth, purged, crashed, leaks>>
iteration == <<sweep, next, visiting, due, visited>>
vars == <<things, triggers, driver, registry, iteration>>

\* MOB_TRIGGER, OBJ_TRIGGER and WLD_TRIGGER
KindOf(o) == IF o \in Mobs THEN 1 ELSE IF o \in Objs THEN 2 ELSE 3
KindSet == 1 .. 3

Exists(o) == o \in alive \cup ToSet(world)
Attached == UNION {script[o] : o \in Owners}

\* A wait event's owner: by pointer, or by the place of a room in world[]; place
\* 0 is memory that world[] has left.
NoWait == [go |-> None, at |-> -1]
Lost == [go |-> None, at |-> 0]
WaitOf(o) ==
  IF o \in Rooms THEN [go |-> None, at |-> CHOOSE i \in DOMAIN world : world[i] = o]
  ELSE [go |-> o, at |-> 0]
Waiting(t) == wait[t] # NoWait

\* The owner a wait event leads to.
OwnerOf(e) == IF e.go # None THEN e.go ELSE IF e.at \in DOMAIN world THEN world[e.at] ELSE None

\* What has freed the trigger of a frame: a step that sets dg_owner_purged for it
\* (flagged), one that does not, or that flag cleared again by another driver.
Causes == {"no", "flagged", "reset", "detach", "purge", "deep"}
Points == {"line", "command", "spell", "purge"}
Frame == [trig : Trigs, owner : Owners, pc : Points, left : 0 .. MaxLines, freed : Causes]
Top == Last(stack)
TopWith(f) == [stack EXCEPT ![Len(stack)] = f]
Idle == stack = <<>> /\ sweep = 0 /\ crashed = "no"
Running == stack # <<>> /\ crashed = "no"

TypeOK ==
  /\ alive \subseteq Mobs \cup Objs
  /\ pending \subseteq alive \cap Mobs
  /\ world \in Seq(Rooms) /\ IsInjective(world)
  /\ script \in [Owners -> SUBSET Trigs]
  /\ \A o, p \in Owners : o # p => script[o] \cap script[p] = {}
  /\ isRandom \in [Trigs -> BOOLEAN]
  /\ types \in [Owners -> BOOLEAN]
  /\ busy \in [Trigs -> BOOLEAN]
  /\ wait \in [Trigs -> [go : Mobs \cup Objs \cup {None}, at : Nat \cup {-1}]]
  /\ stack \in Seq(Frame)
  /\ depth \in 0 .. MaxScriptDepth + 1
  /\ purged \in BOOLEAN
  /\ registry \subseteq Owners \X Owners
  /\ sweep \in 0 .. 3
  /\ {next, visiting} \subseteq Owners \cup {None}
  /\ due \cup visited \subseteq Owners
  /\ crashed \in Causes \cup {"moved", "spell"}
  /\ stuck \subseteq Trigs
  /\ leaks \in 0 .. MaxLeaks

\* The world has been booted; zone resets load what is in it.
Init ==
  /\ alive = {} /\ pending = {} /\ world = RoomOrder
  /\ script = [o \in Owners |-> {}]
  /\ isRandom = [t \in Trigs |-> t \in RandomTrigs]
  /\ types = [o \in Owners |-> FALSE]
  /\ busy = [t \in Trigs |-> FALSE]
  /\ wait = [t \in Trigs |-> NoWait]
  /\ stack = <<>> /\ depth = 0 /\ purged = FALSE
  /\ registry = {}
  /\ sweep = 0 /\ next = None /\ visiting = None /\ due = {} /\ visited = {}
  /\ crashed = "no" /\ stuck = {} /\ leaks = 0

-----------------------------------------------------------------------------
(* The registry of random owners: a doubly linked list for each type.      *)

Registered(o) == <<o, o>> \in registry

ListOf(k) == {o \in Owners : KindOf(o) = k /\ Registered(o)}

\* o and those that follow it
From(o) == {p \in Owners : <<o, p>> \in registry}

FirstOf(S) == IF S = {} THEN None ELSE CHOOSE o \in S : S \subseteq From(o)

\* random_next of o
After(o) == FirstOf(From(o) \ {o})

\* Mutant: the iteration keeps its pointer.
NextKept(out) == next

\* dg_random_registry_remove(): the iteration's next owner steps aside.
NextWithout(out) == IF next = None THEN None ELSE FirstOf(From(next) \ out)

\* dg_random_registry_sync(): who becomes eligible (one at most) is put first.
Synced(out, in) ==
  /\ LET stay == {l \in registry : {l[1], l[2]} \cap out = {}}
     IN  registry' = stay \cup {l \in in \X Owners :
           /\ KindOf(l[2]) = KindOf(l[1])
           /\ l[2] = l[1] \/ <<l[2], l[2]>> \in stay}
  /\ next' = NextWithout(out)
  /\ due' = due \ out

-----------------------------------------------------------------------------
(* Attaching and extracting triggers.                                      *)

\* add_trigger(), after dg_script_bind_owner() has registered the script anew:
\* an owner that was registered is put first again.
Attach(o, t) ==
  /\ o \in Homes[t]
  /\ t \notin Attached /\ \A k \in DOMAIN stack : stack[k].trig # t
  /\ script' = [script EXCEPT ![o] = @ \cup {t}]
  /\ types' = [types EXCEPT ![o] = @ \/ isRandom[t]]
  /\ Synced({o}, IF types'[o] THEN {o} ELSE {})
  /\ UNCHANGED <<isRandom, busy, wait, stuck, visited>>

\* Mutant: extract_trigger() leaves the wait event.
WaitsKept(T) == wait

\* event_cancel() for each of them
Waits(T) == [t \in Trigs |-> IF t \in T THEN NoWait ELSE wait[t]]

\* A script that keeps some triggers learns its types again.
TypesWithout(T) == [o \in Owners |->
  IF script[o] \cap T = {} THEN types[o] ELSE \E t \in script[o] \ T : isRandom[t]]

\* remove_trigger() and extract_script(): the triggers are freed; a script that
\* keeps none is freed with them.
Extracted(T) ==
  /\ script' = [o \in Owners |-> script[o] \ T]
  /\ types' = TypesWithout(T)
  /\ busy' = [t \in Trigs |-> busy[t] /\ t \notin T]
  /\ stuck' = stuck \ T
  /\ LET hit == {o \in Owners : script[o] \cap T # {}}
     IN  Synced({o \in hit : Registered(o) /\ ~types'[o]}, {o \in hit : ~Registered(o) /\ types'[o]})
  /\ UNCHANGED <<isRandom, visited>>

Extract(T) == Extracted(T) /\ wait' = Waits(T)

\* The frames whose triggers are freed.
Marked(stk, T, cause) ==
  [k \in DOMAIN stk |-> IF stk[k].trig \in T THEN [stk[k] EXCEPT !.freed = cause] ELSE stk[k]]

-----------------------------------------------------------------------------
(* script_driver()                                                         *)

\* The driver starts, under the calls of stk: anew, or after a wait.
Enter(o, t, stk) ==
  /\ depth <= MaxScriptDepth
  /\ depth' = depth + 1
  /\ busy' = [busy EXCEPT ![t] = TRUE]
  /\ purged' = FALSE
  /\ LET calls == [k \in DOMAIN stk |->
           IF stk[k].freed = "flagged" THEN [stk[k] EXCEPT !.freed = "reset"] ELSE stk[k]]
     IN  stack' = Append(calls, [trig |-> t, owner |-> o, pc |-> "line", left |-> MaxLines, freed |-> "no"])
  /\ UNCHANGED <<script, isRandom, types, stuck, crashed, leaks, registry, next, due, visited>>

\* It is nested too deep: the owner's script goes.
EnterTooDeep(o, stk) ==
  /\ depth > MaxScriptDepth
  /\ Extract(script[o])
  /\ stack' = Marked(stk, script[o], "deep")
  /\ UNCHANGED <<depth, purged, crashed, leaks>>

\* Mutant: TRIGGER_CHECK without the depth.
ReadyAgain(o, t) == t \in script[o]

\* TRIGGER_CHECK
Ready(o, t) == t \in script[o] /\ ~busy[t]

Fire(o, t, stk) ==
  /\ Ready(o, t)
  /\ \/ Enter(o, t, stk) /\ UNCHANGED wait
     \/ EnterTooDeep(o, stk)

\* The driver returns.
Return(stk) == stack' = Front(stk) /\ depth' = depth - 1

\* What follows a freed pointer.
UseFreed ==
  /\ Running /\ Top.pc = "line" /\ Top.freed # "no"
  /\ crashed' = Top.freed
  /\ UNCHANGED <<things, triggers, stack, depth, purged, leaks, registry, iteration>>

AtLine == Running /\ Top.pc = "line" /\ Top.freed = "no"
Line == AtLine /\ Top.left > 0
NextLine == TopWith([Top EXCEPT !.left = @ - 1])

\* The script ends, or halts: the depth of the trigger goes back to 0.
End ==
  /\ AtLine
  /\ busy' = [busy EXCEPT ![Top.trig] = FALSE]
  /\ Return(stack)
  /\ UNCHANGED <<things, script, isRandom, types, wait, stuck, purged, crashed, leaks, registry, iteration>>

\* process_attach()
ScriptAttach(o, t) ==
  /\ Line /\ Exists(o)
  /\ Attach(o, t)
  /\ stack' = NextLine
  /\ UNCHANGED <<things, depth, purged, crashed, leaks, sweep, visiting>>

\* process_detach(): only a script that loses its last trigger tells its driver.
LosesAll(o, T) == Top.owner = o /\ T = script[o]

ScriptDetach(o, T) ==
  /\ Line /\ T # {}
  /\ Extract(T)
  /\ purged' = LosesAll(o, T)
  /\ LET stk == Marked(NextLine, T, IF purged' THEN "flagged" ELSE "detach") IN
       IF purged' THEN Return(stk) ELSE stack' = stk /\ UNCHANGED depth
  /\ UNCHANGED <<things, crashed, leaks, sweep, visiting>>

\* process_wait()
ScriptWait ==
  /\ Line
  /\ wait' = [wait EXCEPT ![Top.trig] = WaitOf(Top.owner)]
  /\ Return(stack)
  /\ UNCHANGED <<things, script, isRandom, types, busy, stuck, purged, crashed, leaks, registry, iteration>>

\* A wait whose argument does not parse: the driver returns all the same.
ScriptWaitFails ==
  /\ Line
  /\ Return(stack)
  /\ stuck' = stuck \cup {Top.trig}
  /\ UNCHANGED <<things, script, isRandom, types, busy, wait, purged, crashed, leaks, registry, iteration>>

\* A while without its done: the driver returns and stays counted.
ScriptWhileFails ==
  /\ Line /\ leaks < MaxLeaks
  /\ stack' = Front(stack)
  /\ stuck' = stuck \cup {Top.trig}
  /\ leaks' = leaks + 1
  /\ UNCHANGED <<things, script, isRandom, types, busy, wait, depth, purged, crashed, registry, iteration>>

\* mpurge, opurge and wpurge: one, or all there but the owner.  A mobile is only
\* marked.
ScriptPurge(V) ==
  /\ Line /\ V # {} /\ (Top.owner \in V => V = {Top.owner})
  /\ pending' = pending \cup (V \cap Mobs)
  /\ alive' = alive \ (V \cap Objs)
  /\ purged' = (Top.owner \in V)
  /\ LET T == UNION {script[v] : v \in V \cap Objs} IN
       /\ Extract(T)
       /\ stack' = Marked(TopWith([Top EXCEPT !.left = @ - 1, !.pc = "purge"]), T,
                          IF purged' THEN "flagged" ELSE "purge")
  /\ UNCHANGED <<world, depth, crashed, leaks, sweep, visiting>>

\* Any other command; it may fire triggers, one after the other.  So may the spell of
\* dg_cast or dg_affect.
ScriptCommand(o, t, kind) ==
  /\ Running /\ Top.pc \in {"line", kind} /\ Top.left > 0
  /\ Top.pc = "line" => Top.freed = "no"
  /\ Fire(o, t, TopWith([Top EXCEPT !.left = @ - 1, !.pc = kind]))
  /\ UNCHANGED <<things, sweep, visiting>>

\* Mutant: the driver does not look at the flag.
CommandDoneBlind ==
  /\ Running /\ Top.pc \in {"command", "purge"}
  /\ stack' = TopWith([Top EXCEPT !.pc = "line"])
  /\ UNCHANGED <<things, triggers, depth, purged, crashed, leaks, registry, iteration>>

\* The command is over, and its driver looks whether its owner is gone.
CommandDone ==
  /\ Running /\ Top.pc \in {"command", "purge"}
  /\ IF purged THEN Return(stack)
     ELSE stack' = TopWith([Top EXCEPT !.pc = "line"]) /\ UNCHANGED depth
  /\ stuck' = IF purged /\ Top.freed = "no" /\ Top.owner \notin pending
              THEN stuck \cup {Top.trig} ELSE stuck
  /\ UNCHANGED <<things, script, isRandom, types, busy, wait, purged, crashed, leaks, registry, iteration>>

\* The spell is over.  The head of the driver's loop reads its trigger, which may be
\* freed, before the flag; a flag that was not for it ends the script like a halt.
SpellDone ==
  /\ Running /\ Top.pc = "spell"
  /\ \/ /\ Top.freed # "no"
        /\ crashed' = IF Top.freed = "flagged" THEN "spell" ELSE Top.freed
        /\ UNCHANGED <<busy, stack, depth>>
     \/ /\ Top.freed = "no" /\ purged
        /\ busy' = [busy EXCEPT ![Top.trig] = FALSE]
        /\ Return(stack)
        /\ UNCHANGED crashed
     \/ /\ Top.freed = "no" /\ ~purged
        /\ stack' = TopWith([Top EXCEPT !.pc = "line"])
        /\ UNCHANGED <<busy, depth, crashed>>
  /\ UNCHANGED <<things, script, isRandom, types, wait, stuck, purged, leaks, registry, iteration>>

RunLine ==
  \/ UseFreed
  \/ End
  \/ \E o \in Owners, t \in Trigs : ScriptAttach(o, t)
  \/ \E o \in Owners : \E T \in {script[o]} \cup {{t} : t \in script[o]} : ScriptDetach(o, T)
  \/ ScriptWait
  \/ ScriptWaitFails
  \/ ScriptWhileFails
  \/ \E V \in SUBSET alive : ScriptPurge(V)
  \/ \E o \in Owners, t \in Trigs, kind \in {"command", "spell"} : ScriptCommand(o, t, kind)
  \/ CommandDone \/ SpellDone

-----------------------------------------------------------------------------
(* What the game does between scripts.                                     *)

\* reset_zone() loads, and attaches what the prototypes or its commands say;
\* staff can attach and detach too.
Load(o) ==
  /\ Idle /\ o \in (Mobs \cup Objs) \ alive
  /\ alive' = alive \cup {o}
  /\ UNCHANGED <<pending, world, triggers, driver, registry, iteration>>

GameAttach(o, t) ==
  /\ Idle /\ Exists(o)
  /\ Attach(o, t)
  /\ UNCHANGED <<things, driver, sweep, visiting>>

GameDetach(T) ==
  /\ Idle /\ T # {}
  /\ Extract(T)
  /\ UNCHANGED <<things, driver, sweep, visiting>>

\* extract_char() and extract_obj() by the game, and extract_pending_chars() at
\* the end of the pulse.
ExtractChar(m) ==
  /\ Idle /\ m \in alive \cap Mobs
  /\ pending' = pending \cup {m}
  /\ UNCHANGED <<alive, world, triggers, driver, registry, iteration>>

Leave(V) ==
  /\ alive' = alive \ V
  /\ Extract(UNION {script[v] : v \in V})
  /\ UNCHANGED <<world, driver, sweep, visiting>>

ExtractObj(v) == Idle /\ v \in alive \cap Objs /\ Leave({v}) /\ UNCHANGED pending
ExtractPending == Idle /\ pending # {} /\ Leave(pending) /\ pending' = {}

\* A trigger of dg_triggers.c.
GameFires(o, t) ==
  /\ Idle
  /\ Fire(o, t, stack)
  /\ UNCHANGED <<things, sweep, visiting>>

\* trig_wait_event(): the owner is not looked for, it is used.
WaitFires(t) ==
  /\ Idle /\ Waiting(t)
  /\ LET o == OwnerOf(wait[t]) IN
       \/ /\ o # None
          /\ Enter(o, t, stack)
          /\ wait' = [wait EXCEPT ![t] = NoWait]
          /\ UNCHANGED <<things, sweep, visiting>>
       \/ /\ o # None
          /\ EnterTooDeep(o, stack)
          /\ UNCHANGED <<things, sweep, visiting>>
       \/ /\ o = None
          /\ crashed' = "moved"
          /\ UNCHANGED <<things, triggers, stack, depth, purged, leaks, registry, iteration>>

\* trigedit_save(): a live trigger becomes the prototype again; the types of its
\* owner are not made again.
TrigEdit(t) ==
  /\ Idle
  /\ isRandom' = [isRandom EXCEPT ![t] = ~@]
  /\ busy' = [busy EXCEPT ![t] = FALSE]
  /\ wait' = [wait EXCEPT ![t] = NoWait]
  /\ stuck' = stuck \ {t}
  /\ UNCHANGED <<things, script, types, driver, registry, iteration>>

\* Mutant: after the rooms, the mobiles again.
FollowAgain(k) == (k % 3) + 1

\* script_trigger_check(): mobiles, objects, then rooms.
Follow(k) == (k + 1) % 4

Begin(k) ==
  /\ sweep' = k /\ next' = FirstOf(ListOf(k))
  /\ due' = ListOf(k)
  /\ visited' = {}
  /\ UNCHANGED <<things, triggers, driver, registry, visiting>>

SweepBegin == Idle /\ Begin(1)

Sweeping == sweep # 0 /\ stack = <<>> /\ crashed = "no"

\* dg_random_registry_iteration_next()
Visit ==
  /\ Sweeping /\ visiting = None /\ next # None
  /\ visiting' = next /\ next' = After(next)
  /\ due' = due \ {next} /\ visited' = visited \cup {next}
  /\ UNCHANGED <<things, triggers, driver, registry, sweep>>

\* random_mtrigger(), random_otrigger() and random_wtrigger(): at most one fires.
RandomFires(t) ==
  /\ Sweeping /\ visiting # None /\ isRandom[t]
  /\ Fire(visiting, t, stack)
  /\ visiting' = None
  /\ UNCHANGED <<things, sweep>>

NoneFires ==
  /\ Sweeping /\ visiting # None
  /\ visiting' = None
  /\ UNCHANGED <<things, triggers, driver, registry, sweep, next, due, visited>>

\* dg_random_registry_iteration_end(), and the next type.
SweepOn == Sweeping /\ visiting = None /\ next = None /\ Begin(Follow(sweep))

-----------------------------------------------------------------------------
(* The room editor.                                                        *)

Number(r) == CHOOSE i \in DOMAIN RoomOrder : RoomOrder[i] = r

\* The waits after world[] has become w: those of the rooms at the places in told
\* are told (update_wait_events()); the others keep an address, which is freed
\* memory once realloc() has moved the array.
WaitsIn(w, told, moved) == [t \in Trigs |->
  IF wait[t].go # None \/ ~Waiting(t) THEN wait[t]
  ELSE IF \E i \in told : t \in script[w[i]]
  THEN [go |-> None, at |-> CHOOSE i \in told : t \in script[w[i]]]
  ELSE IF moved THEN Lost ELSE wait[t]]

\* add_room() of a new number, at place p: the rooms behind it move up.
AddRoom(r, p, moved) ==
  /\ Idle /\ r \notin ToSet(world)
  /\ \A i \in DOMAIN world : i < p <=> Number(world[i]) < Number(r)
  /\ world' = InsertAt(world, p, r)
  /\ wait' = WaitsIn(world', p + 1 .. Len(world) + 1, moved)
  /\ UNCHANGED <<alive, pending, script, isRandom, types, busy, stuck, driver, registry, iteration>>

\* delete_room() of the room at place p: its script goes, and the rooms behind it
\* move down; an array that shrinks stays where it is.
DeleteRoom(p) ==
  /\ Idle /\ Len(world) > 1
  /\ LET gone == script[world[p]] IN
       /\ world' = RemoveAt(world, p)
       /\ Extracted(gone)
       /\ wait' = [t \in Trigs |-> IF t \in gone THEN NoWait
                                   ELSE WaitsIn(world', p .. Len(world) - 1, FALSE)[t]]
  /\ UNCHANGED <<alive, pending, driver, sweep, visiting>>

PlayGame ==
  \/ \E o \in Mobs \cup Objs : Load(o)
  \/ \E o \in Owners, t \in Trigs : GameAttach(o, t)
  \/ \E o \in Owners : \E T \in {script[o]} \cup {{t} : t \in script[o]} : GameDetach(T)
  \/ \E m \in Mobs : ExtractChar(m)
  \/ \E v \in Objs : ExtractObj(v)
  \/ ExtractPending
  \/ \E o \in Owners, t \in Trigs : GameFires(o, t)
  \/ \E t \in Editable : TrigEdit(t)
  \/ SweepBegin
  \/ \E r \in Rooms, p \in 1 .. Len(world) + 1, moved \in BOOLEAN : AddRoom(r, p, moved)
  \/ \E p \in DOMAIN world : DeleteRoom(p)

Sweep ==
  \/ Visit
  \/ \E t \in Trigs : RandomFires(t)
  \/ NoneFires
  \/ SweepOn

Next == PlayGame \/ Sweep \/ RunLine \/ \E t \in Trigs : WaitFires(t)

Spec == Init /\ [][Next]_vars

\* The thread goes on with what it runs.
FairSpec == Spec /\ WF_vars(RunLine) /\ WF_vars(Sweep)

-----------------------------------------------------------------------------
(* Properties.                                                             *)

\* The flag dg_owner_purged is enough for what it is set for: a driver whose
\* script was extracted under it never follows a freed pointer, at whatever depth
\* and whatever the calls between.  (It is set for the owner of the innermost
\* driver and for its whole script only, and is not cleared by a new driver.)  It is
\* not looked at in time after the spell of dg_cast or dg_affect, which is named: the
\* head of the loop reads GET_TRIG_DEPTH(trig) first.
FreedNotUsed == TypeOK /\ crashed # "flagged"

\* A trigger that is busy is run, waits, or goes with its owner: otherwise
\* TRIGGER_CHECK refuses it for ever.  It is run once at a time.  The driver's
\* depth counts the calls, so that the limit is about nesting.  (Drivers return
\* without ending their trigger on an error, or on a flag that was not for them.)
BusyMeansRunning ==
  /\ \A o \in Owners : \A t \in script[o] \ stuck : busy[t] =>
       Waiting(t) \/ o \in pending \/ \E k \in DOMAIN stack : stack[k].trig = t /\ stack[k].freed = "no"
  /\ \A k \in DOMAIN stack : stack[k].freed = "no" =>
       /\ busy[stack[k].trig] /\ ~Waiting(stack[k].trig)
       /\ \A j \in DOMAIN stack : stack[j].trig = stack[k].trig => j = k
  /\ depth = Len(stack) + leaks

\* A waiting trigger is attached, busy, and its event leads to its owner, which
\* is in the game, over edits of the array of rooms, detaching and purging; or
\* the array has moved, and its address is freed memory.
WaitSound ==
  \A t \in Trigs : Waiting(t) /\ wait[t] # Lost =>
    LET o == OwnerOf(wait[t]) IN o # None /\ t \in script[o] /\ Exists(o) /\ busy[t]

\* dg_random_registry_validate(): the registry has each owner whose script is of
\* random type, once, and no script that has been freed; its iteration stands at
\* one of them, has visited none of those ahead, and misses none it began with.
Ahead == IF next = None THEN {} ELSE From(next)

RegistrySound ==
  /\ \A o \in Owners : Registered(o) <=> script[o] # {} /\ types[o]
  /\ \A o, p \in Owners : Registered(o) /\ Registered(p) /\ KindOf(o) = KindOf(p) =>
       /\ <<o, p>> \in registry \/ <<p, o>> \in registry
       /\ <<o, p>> \in registry /\ <<p, o>> \in registry => o = p
  /\ next # None => KindOf(next) = sweep /\ Registered(next)
  /\ due \subseteq Ahead /\ Ahead \cap visited = {}

\* script_trigger_check() comes to its end, whatever the scripts it runs attach,
\* detach and purge.
SweepEnds == sweep # 0 ~> (sweep = 0 \/ crashed # "no")

\* dg_scripts.c:788: "Reaching this callback therefore proves the owner remains
\* valid without scanning every character, object, or room."
OwnerRemainsValid == \A t \in Trigs : Waiting(t) => OwnerOf(wait[t]) # None
=============================================================================
