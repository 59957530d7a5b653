----------------------------- MODULE Persistence -----------------------------
(***************************************************************************)
(* The autosave: work spread over the pulses of the game loop.             *)
(*                                                                         *)
(* Every minute src/comm.c takes a snapshot of the players and saves, one  *)
(* operation a pulse, each character, its pets and its last-online record, *)
(* the artifacts, and in an autosave minute also the dirty players' objects *)
(* (Crash_save_incremental) and the dirty houses (House_save_incremental). *)
(* Six tasks take turns; one that fails waits for RetryPulses.  The last   *)
(* two keep their place in static variables - a pointer to a descriptor,   *)
(* an index into house_control[] - between which descriptors come and go,  *)
(* addresses are reused and houses are built and torn down.                *)
(*                                                                         *)
(* What is saved is abstracted to the sets of what has changed since.      *)
(* Failures of the database and changes of the two lists are bounded in    *)
(* number: what the properties ask is whether the saving recovers.         *)
(***************************************************************************)
EXTENDS Naturals, FiniteSets, SequencesExt

CONSTANTS
  Players,
  Descs,        \* addresses of descriptors
  Houses,
  None,
  PulsesPerMinute,  \* 60 * PASSES_PER_SEC
  AutosaveTime,     \* CONFIG_AUTOSAVE_TIME, in minutes
  RetryPulses,  \* PERSISTENCE_RETRY_PULSES
  MaxIncidents, \* bound: changes of descriptor_list and house_control, and failures
  Broken,       \* players whose character cannot be saved at all
  Risks         \* the risky situations that may come up

\* That the objects of a player cannot be written although the character can.
AllRisks == {"objects_fail"}

ASSUME PersistenceAssumption ==
  /\ None \notin Players
  /\ {PulsesPerMinute, AutosaveTime, RetryPulses} \subseteq Nat \ {0}
  /\ MaxIncidents \in Nat
  /\ Broken \subseteq Players
  /\ Cardinality(Players) <= Cardinality(Descs)
  /\ Risks \subseteq AllRisks

\* enum persistence_task, in the order of the turns.
PlayerTasks == <<"character", "pet", "last_online">>
Tasks == PlayerTasks \o <<"artifact", "crash", "house">>

VARIABLES
  descriptorList,  \* descriptor_list, the newest first
  playing,         \* playing[d]: the character in the game on d, or None
  houseControl,    \* house_control[0 .. num_of_houses - 1]
  dirty,           \* what changed since it was saved: see DirtyType
  sched,           \* persistence_scheduler
  pass,            \* the static variables of the two incremental passes
  clock,           \* heart_pulse since the last autosave minute
  incidents

vars == <<descriptorList, playing, houseControl, dirty, sched, pass, clock, incidents>>

DirtyType ==
  [character : SUBSET Players,
   objects   : SUBSET Players,
   crash     : SUBSET Players,   \* PLR_CRASH, by which the code knows of it
   houses    : SUBSET Houses]    \* ROOM_HOUSE_CRASH

SchedType ==
  [active : BOOLEAN, pending_cycle : BOOLEAN,
   artifact : BOOLEAN, crash : BOOLEAN, house : BOOLEAN,   \* the ..._pending
   player_ids : Seq(Players),
   index : [ToSet(PlayerTasks) -> Nat],
   next_task : DOMAIN Tasks,
   retry : [DOMAIN Tasks -> 0 .. RetryPulses]]             \* pulses to wait

PassType == [next_d : Descs \cup {None}, descs_left : Nat,
             next_house : Nat, houses_left : Nat]

Linked == {playing[d] : d \in ToSet(descriptorList)} \ {None}

\* After a copyover, which hands the players over to the new process: each has
\* a descriptor (copyover_recover).
Init ==
  /\ descriptorList = SubSeq(SetToSeq(Descs), 1, Cardinality(Players))
  /\ playing = [d \in Descs |->
       IF d \in ToSet(descriptorList)
       THEN SetToSeq(Players)[CHOOSE k \in DOMAIN descriptorList : descriptorList[k] = d]
       ELSE None]
  /\ houseControl = SetToSeq(Houses)
  /\ dirty = [character |-> {}, objects |-> {}, crash |-> {}, houses |-> {}]
  /\ sched = [active |-> FALSE, pending_cycle |-> FALSE,
              artifact |-> FALSE, crash |-> FALSE, house |-> FALSE,
              player_ids |-> <<>>, index |-> [t \in ToSet(PlayerTasks) |-> 0],
              next_task |-> 1, retry |-> [k \in DOMAIN Tasks |-> 0]]
  /\ pass = [next_d |-> None, descs_left |-> 0, next_house |-> 0, houses_left |-> 0]
  /\ clock = 0
  /\ incidents = 0

-----------------------------------------------------------------------------
(* The game, between two heartbeats.                                       *)

Incident == incidents < MaxIncidents /\ incidents' = incidents + 1

\* new_descriptor: at the head, at any address that is free.
Connect(d) ==
  /\ d \notin ToSet(descriptorList)
  /\ Incident
  /\ descriptorList' = <<d>> \o descriptorList
  /\ UNCHANGED <<playing, houseControl, dirty, sched, pass, clock>>

\* CON_PLAYING: from the menu, or back to a character that lost its link.
Enter(d, p) ==
  /\ d \in ToSet(descriptorList)
  /\ playing[d] = None
  /\ p \notin Linked
  /\ playing' = [playing EXCEPT ![d] = p]
  /\ UNCHANGED <<descriptorList, houseControl, dirty, sched, pass, clock, incidents>>

\* do_quit: everything is saved, and the descriptor is at the menu.
Quit(d) ==
  /\ d \in ToSet(descriptorList)
  /\ playing[d] # None
  /\ Incident
  /\ playing' = [playing EXCEPT ![d] = None]
  /\ dirty' = [dirty EXCEPT !.character = @ \ {playing[d]}, !.objects = @ \ {playing[d]},
                            !.crash = @ \ {playing[d]}]
  /\ UNCHANGED <<descriptorList, houseControl, sched, pass, clock>>

\* close_socket: the descriptor is freed, a character left without link is saved.
close_socket(d) ==
  /\ d \in ToSet(descriptorList)
  /\ Incident
  /\ descriptorList' = SelectSeq(descriptorList, LAMBDA e : e # d)
  /\ playing' = [playing EXCEPT ![d] = None]
  /\ dirty' = [dirty EXCEPT !.character = @ \ {playing[d]}]
  /\ UNCHANGED <<houseControl, sched, pass, clock>>

\* obj_to_char, obj_from_char: p's objects change, and PLR_CRASH tells of it.
PlayerChanges(p) ==
  /\ p \in Linked
  /\ dirty' = [dirty EXCEPT !.character = @ \cup {p}, !.objects = @ \cup {p},
                            !.crash = @ \cup {p}]
  /\ UNCHANGED <<descriptorList, playing, houseControl, sched, pass, clock, incidents>>

\* obj_to_room, obj_from_room in a house.
HouseChanges(h) ==
  /\ h \in ToSet(houseControl)
  /\ dirty' = [dirty EXCEPT !.houses = @ \cup {h}]
  /\ UNCHANGED <<descriptorList, playing, houseControl, sched, pass, clock, incidents>>

hcontrol_build_house(h) ==
  /\ h \notin ToSet(houseControl)
  /\ Incident
  /\ houseControl' = Append(houseControl, h)
  /\ UNCHANGED <<descriptorList, playing, dirty, sched, pass, clock>>

\* hcontrol_destroy_house: the later houses move down by one.
hcontrol_destroy_house(h) ==
  /\ h \in ToSet(houseControl)
  /\ Incident
  /\ houseControl' = SelectSeq(houseControl, LAMBDA g : g # h)
  /\ dirty' = [dirty EXCEPT !.houses = @ \ {h}]
  /\ UNCHANGED <<descriptorList, playing, sched, pass, clock>>

-----------------------------------------------------------------------------
(* A cycle.                                                                *)

\* Those a snapshot takes: persistence_descriptor_eligible, in list order.
Eligible == SelectSeq([k \in DOMAIN descriptorList |-> playing[descriptorList[k]]],
                      LAMBDA p : p # None)

\* Mutant: the places in the snapshot are those of the last cycle.
BegunInPlace(s, include) ==
  [s EXCEPT !.active = TRUE, !.pending_cycle = FALSE, !.artifact = TRUE,
            !.crash = include, !.house = include, !.player_ids = Eligible,
            !.next_task = 1, !.retry = [k \in DOMAIN Tasks |-> 0]]

\* persistence_begin_cycle, when there is memory for the snapshot.
Begun(s, include) ==
  [s EXCEPT !.active = TRUE, !.pending_cycle = FALSE, !.artifact = TRUE,
            !.crash = include, !.house = include, !.player_ids = Eligible,
            !.index = [t \in ToSet(PlayerTasks) |-> 0], !.next_task = 1,
            !.retry = [k \in DOMAIN Tasks |-> 0]]

\* Mutant: the wish for the objects and houses is dropped while a cycle is active.
ScheduledLate(s, include, mem) ==
  CASE s.active  -> [s EXCEPT !.pending_cycle = TRUE]
    [] ~s.active -> IF mem THEN Begun(s, include) ELSE [s EXCEPT !.pending_cycle = TRUE]

\* persistence_schedule_minute: while a cycle is active another is noted.
Scheduled(s, include, mem) ==
  CASE s.active  -> [s EXCEPT !.pending_cycle = TRUE,
                              !.crash = @ \/ include, !.house = @ \/ include]
    [] ~s.active -> IF mem THEN Begun(s, include) ELSE [s EXCEPT !.pending_cycle = TRUE]

Complete(s) ==
  /\ \A t \in ToSet(PlayerTasks) : s.index[t] >= Len(s.player_ids)
  /\ ~s.artifact /\ ~s.crash /\ ~s.house

\* The end of persistence_scheduler_step.
Ended(s, mem) ==
  LET idle == [s EXCEPT !.active = FALSE, !.player_ids = <<>>]
  IN  CASE ~Complete(s)                              -> s
        [] Complete(s) /\ s.pending_cycle /\ mem     -> Begun(idle, FALSE)
        [] Complete(s) /\ ~(s.pending_cycle /\ mem)  -> idle

-----------------------------------------------------------------------------
(* One task, on r = [s, pass, dirty, result].                              *)

\* persistence_run_player_task: on to the next player when this one is saved or
\* gone; a failure is tried again.
PlayerTask(r, t, unhurt) ==
  LET i  == r.s.index[t] + 1
      p  == r.s.player_ids[i]
      ok == unhurt /\ (t = "character" => p \notin Broken)
  IN  CASE i > Len(r.s.player_ids) -> [r EXCEPT !.result = "complete"]
        [] i <= Len(r.s.player_ids) /\ p \notin Linked ->
             [r EXCEPT !.s.index[t] = i, !.result = "progress"]
        [] i <= Len(r.s.player_ids) /\ p \in Linked /\ ok ->
             [r EXCEPT !.s.index[t] = i, !.result = "progress",
                       !.dirty.character = IF t = "character" THEN @ \ {p} ELSE @]
        [] i <= Len(r.s.player_ids) /\ p \in Linked /\ ~ok -> [r EXCEPT !.result = "failure"]

\* Where the walk of a ring of n goes on after the k-th of its steps from at.
StepOf(at, k, n) == ((at - 1 + k) % n) + 1

\* The number of the first of left steps from at that comes to one of S, or 0.
FirstHit(at, left, n, S) ==
  LET hits == {k \in 1 .. left : StepOf(at, k - 1, n) \in S}
  IN  IF hits = {} THEN 0 ELSE CHOOSE k \in hits : \A j \in hits : k <= j

\* Mutant: PLR_CRASH goes before the outcome is known.
SavedObjectsFirst(d, p, ok, objsOk) ==
  [d EXCEPT !.character = IF ok THEN @ \ {p} ELSE @,
            !.objects   = IF objsOk THEN @ \ {p} ELSE @,
            !.crash     = @ \ {p}]

\* Crash_save_single: PLR_CRASH goes when the character was saved, whatever
\* became of the objects.
SavedObjects(d, p, ok, objsOk) ==
  [d EXCEPT !.character = IF ok THEN @ \ {p} ELSE @,
            !.objects   = IF objsOk THEN @ \ {p} ELSE @,
            !.crash     = IF ok \/ objsOk THEN @ \ {p} ELSE @]

\* Where Crash_save_incremental takes up its walk: at the descriptor it kept, if
\* something at that address is still on the list, or at the head.
Where(ps) ==
  IF ps.descs_left > 0 /\ ps.next_d \in ToSet(descriptorList)
  THEN <<CHOOSE k \in DOMAIN descriptorList : descriptorList[k] = ps.next_d, ps.descs_left>>
  ELSE <<1, Len(descriptorList)>>

\* Crash_save_incremental(1): on to the next player with PLR_CRASH.
CrashPass(r, unhurt, objsOk) ==
  LET n    == Len(descriptorList)
      at   == Where(r.pass)[1]
      left == Where(r.pass)[2]
      k    == FirstHit(at, left, n, {i \in 1 .. n : playing[descriptorList[i]] \in r.dirty.crash})
      hit  == descriptorList[StepOf(at, k - 1, n)]
      ok   == unhurt /\ playing[hit] \notin Broken
      r1   == [r EXCEPT !.dirty = SavedObjects(@, playing[hit], ok, objsOk)]
  IN  CASE n = 0 \/ k = 0 ->
             [r EXCEPT !.pass.next_d = None, !.pass.descs_left = 0, !.result = "complete"]
        [] n > 0 /\ k > 0 /\ ~ok ->
             [r1 EXCEPT !.pass.next_d = hit, !.pass.descs_left = left - k + 1,
                        !.result = "failure"]
        [] n > 0 /\ k > 0 /\ ok /\ left = k ->
             [r1 EXCEPT !.pass.next_d = None, !.pass.descs_left = 0, !.result = "complete"]
        [] n > 0 /\ k > 0 /\ ok /\ left > k ->
             [r1 EXCEPT !.pass.next_d = descriptorList[StepOf(at, k, n)],
                        !.pass.descs_left = left - k, !.result = "progress"]

\* House_save_incremental(1): on to the next house with ROOM_HOUSE_CRASH.
HousePass(r, ok) ==
  LET n    == Len(houseControl)
      anew == r.pass.houses_left = 0 \/ r.pass.next_house >= n
      at   == IF anew THEN 1 ELSE r.pass.next_house + 1
      left == IF anew THEN n ELSE r.pass.houses_left
      k    == FirstHit(at, left, n, {i \in 1 .. n : houseControl[i] \in r.dirty.houses})
      hit  == StepOf(at, k - 1, n)
      r1   == [r EXCEPT !.dirty.houses = IF ok THEN @ \ {houseControl[hit]} ELSE @]
  IN  CASE n = 0 \/ k = 0 ->
             [r EXCEPT !.pass.next_house = 0, !.pass.houses_left = 0, !.result = "complete"]
        [] n > 0 /\ k > 0 /\ ~ok ->
             [r1 EXCEPT !.pass.next_house = hit - 1, !.pass.houses_left = left - k + 1,
                        !.result = "failure"]
        [] n > 0 /\ k > 0 /\ ok /\ left = k ->
             [r1 EXCEPT !.pass.next_house = 0, !.pass.houses_left = 0, !.result = "complete"]
        [] n > 0 /\ k > 0 /\ ok /\ left > k ->
             [r1 EXCEPT !.pass.next_house = StepOf(at, k, n) - 1, !.pass.houses_left = left - k,
                        !.result = "progress"]

\* persistence_run_task.  Only the operation that meets bad fails.
RunTask(r, t, bad, objsOk) ==
  LET ok == t # bad
  IN  CASE t \in ToSet(PlayerTasks) ->
             PlayerTask(r, t, ok)
        [] t = "artifact" ->
             IF r.s.artifact THEN [r EXCEPT !.s.artifact = FALSE, !.result = "progress"]
             ELSE [r EXCEPT !.result = "complete"]
        [] t = "crash" ->
             IF ~r.s.crash THEN [r EXCEPT !.result = "complete"]
             ELSE LET q == CrashPass(r, ok, objsOk)
                  IN  [q EXCEPT !.s.crash = q.result # "complete"]
        [] t = "house" ->
             IF ~r.s.house THEN [r EXCEPT !.result = "complete"]
             ELSE LET q == HousePass(r, ok) IN [q EXCEPT !.s.house = q.result # "complete"]

Following(k) == (k % Len(Tasks)) + 1

\* One attempt of the loop: the task whose turn it is, unless it waits.
Attempt(r, bad, objsOk) ==
  LET k == r.s.next_task
      q == IF r.s.retry[k] = 0 THEN RunTask(r, Tasks[k], bad, objsOk) ELSE r
  IN  [q EXCEPT !.s.next_task = Following(k),
                !.s.retry[k] = IF q.result = "failure" THEN RetryPulses ELSE @]

Done(r) == r.result \in {"progress", "failure"}

\* The loop of persistence_scheduler_step: through all tasks, as far as the first
\* that made progress or failed; the next time starts after that one, or, when
\* there was none, one further than this time.
Stepped(r, bad, objsOk) ==
  LET q == FoldLeft(LAMBDA p, i : IF Done(p) THEN p ELSE Attempt(p, bad, objsOk), r, Tasks)
  IN  IF Done(q) THEN q ELSE [q EXCEPT !.s.next_task = Following(@)]

\* A pulse later, a task that waits has one less to wait.
Waited(s) == [s EXCEPT !.retry = [k \in DOMAIN Tasks |-> IF @[k] > 0 THEN @[k] - 1 ELSE 0]]

NextPulse == (clock + 1) % (PulsesPerMinute * AutosaveTime)

\* heartbeat: on a minute the request first, then a step of the scheduler.  bad is
\* the task whose save fails in this pulse, mem whether a snapshot gets memory.
Heartbeat(bad, mem, objsOk) ==
  LET pulse   == NextPulse
      s       == IF pulse % PulsesPerMinute = 0 THEN Scheduled(Waited(sched), pulse = 0, mem)
                 ELSE Waited(sched)
      r       == [s |-> s, pass |-> pass, dirty |-> dirty, result |-> "idle"]
      stepped == Stepped(r, bad, objsOk)
      failed  == bad # "none" \/ ~mem
  IN  /\ bad # "none" => s.active /\ stepped.result = "failure"
      /\ IF failed THEN Incident ELSE UNCHANGED incidents
      /\ clock' = pulse
      /\ IF s.active
         THEN /\ sched' = Ended(stepped.s, mem)
              /\ pass' = stepped.pass
              /\ dirty' = stepped.dirty
         ELSE /\ sched' = s
              /\ UNCHANGED <<pass, dirty>>
      /\ ~mem => ~sched'.active /\ sched'.pending_cycle
      /\ UNCHANGED <<descriptorList, playing, houseControl>>

\* What may go wrong within the bound.
MayFail(S) == IF incidents < MaxIncidents THEN S ELSE {}

Next ==
  \/ \E d \in Descs : Connect(d) \/ Quit(d) \/ close_socket(d)
  \/ \E d \in Descs, p \in Players : Enter(d, p)
  \/ \E p \in Players : PlayerChanges(p)
  \/ \E h \in Houses : HouseChanges(h) \/ hcontrol_build_house(h) \/ hcontrol_destroy_house(h)
  \/ \E bad \in {"none"} \cup MayFail(ToSet(Tasks)), mem \in {TRUE} \cup MayFail({FALSE}),
        objsOk \in BOOLEAN :
       /\ objsOk \/ bad = "crash" \/ "objects_fail" \in Risks
       /\ Heartbeat(bad, mem, objsOk)

Spec == Init /\ [][Next]_vars

\* The game loop runs heartbeats, and nothing else moves the clock.
Fairness == WF_clock(clock' = NextPulse)

FairSpec == Spec /\ Fairness

-----------------------------------------------------------------------------
(* Properties.                                                             *)

TypeOK ==
  /\ descriptorList \in Seq(Descs) /\ IsInjective(descriptorList)
  /\ playing \in [Descs -> Players \cup {None}]
  /\ \A d, e \in Descs : playing[d] = playing[e] /\ playing[d] # None => d = e
  /\ houseControl \in Seq(Houses) /\ IsInjective(houseControl)
  /\ dirty \in DirtyType
  /\ sched \in SchedType
  /\ pass \in PassType
  /\ clock \in 0 .. PulsesPerMinute * AutosaveTime - 1
  /\ incidents \in 0 .. MaxIncidents

\* What changes of a player who stays linked is saved, whoever came and went in
\* the cycle, was in the snapshot or not, and whatever failed for a while: one
\* cycle's places never leak into the next, and no failure stops the cycles.  Every
\* variable has its type.
CharactersSaved ==
  /\ []TypeOK
  /\ \A p \in Players \ Broken : p \in dirty.character ~> (p \notin dirty.character \/ p \notin Linked)

\* The objects of a player who stays linked are saved although the pointer at
\* which the walk of the descriptors goes on may be stale, or a new descriptor's.
ObjectsSaved ==
  \A p \in Players : p \in dirty.objects ~> (p \notin dirty.objects \/ p \notin Linked)

\* A house that changed is saved although houses are built and torn down between
\* the steps of the walk, which keeps an index.
HousesSaved == \A h \in Houses : h \in dirty.houses ~> h \notin dirty.houses

\* "Failed work is retried" (docs/development/perfmon_help.txt): as long as a
\* player's objects are not saved, PLR_CRASH says so.
FailedWorkIsRetried == dirty.objects \subseteq dirty.crash

\* "At most one character, pet, last-online, artifact, crash-object, or house unit
\* per pulse" (docs/development/perfmon_help.txt).
OneUnitPerPulse ==
  [][UNCHANGED <<descriptorList, playing, houseControl>> =>
       Cardinality(dirty.crash \ dirty'.crash) + Cardinality(dirty.houses \ dirty'.houses) <= 1]_vars
=============================================================================
