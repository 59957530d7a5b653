------------------------------ MODULE EventQueue ------------------------------
(***************************************************************************)
(* The timed-event queue of src/dgscript/dg_event.c: the bucketed priority *)
(* queue (queue_enq, queue_deq, queue_head, queue_key), event_create,      *)
(* event_cancel, event_process, event_free_all and event_init, driven by   *)
(* the heartbeat of game_loop() in src/comm.c.                             *)
(*                                                                         *)
(* The server is single-threaded, but a callback that event_process() runs *)
(* may itself create events, cancel other events and cancel the very event *)
(* that is running.  event_process() is therefore split at its callbacks:  *)
(* between Dequeue and Return the callback may take Create and Cancel      *)
(* steps.                                                                  *)
(*                                                                         *)
(* An event struct is an element of Events; a free()d struct may be        *)
(* returned by a later allocation, so identities are reused.  A payload is *)
(* what event_obj points at: mud_event_data, an object with a cleanup hook,*)
(* or plain malloc()ed data.                                               *)
(***************************************************************************)
EXTENDS Integers, FiniteSets, SequencesExt

CONSTANTS
  Events,        \* the event structs the allocator can hand out
  NoEvent,       \* no callback is running
  NumQueues,     \* NUM_EVENT_QUEUES
  MaxEvents,     \* MAX_EVENTS
  LongMax,       \* LONG_MAX
  Delays,        \* the values of 'when' and of a callback's result
  MaxPulse       \* bound: the run of the clock that is explored

ASSUME NoEventAssumption   == NoEvent \notin Events
ASSUME EventsAssumption    == IsFiniteSet(Events)
ASSUME NumQueuesAssumption == NumQueues \in Nat \ {0}
ASSUME MaxEventsAssumption == MaxEvents \in Nat
ASSUME DelaysAssumption    == Delays \subseteq Int /\ \A d \in Delays : d <= LongMax
ASSUME ClockAssumption     == /\ LongMax \in Nat
                              /\ MaxPulse \in Nat
                              /\ MaxPulse < LongMax

VARIABLES
  pulse,        \* the global pulse counter
  ready,        \* event_q # NULL
  bucket,       \* event_q: one list of events per bucket, head first
  key,          \* the key of the event's last queue element
  live,         \* the event structs that are allocated
  queued,       \* the events whose q_el # NULL
  kind,         \* which of the three kinds of payload the event carries
  obj,          \* whether event_obj is non-NULL
  unfreed,      \* history: payloads handed over with the event, less free()s
  processing,   \* processing_events
  running,      \* the event whose callback is on the stack, or NoEvent
  total_events

queue == <<bucket, key, queued>>
vars  == <<pulse, ready, queue, live, kind, obj, unfreed, processing, running,
           total_events>>

Kinds == {"mud", "hook", "plain"}

Buckets == 0 .. NumQueues - 1

\* Which bucket a key belongs to (key % NUM_EVENT_QUEUES in queue_enq and
\* queue_deq, pulse % NUM_EVENT_QUEUES in queue_key and queue_head).
BucketOf(k) == k % NumQueues

-----------------------------------------------------------------------------
(* The priority queue.                                                     *)

\* Mutant: the new element is always appended.
AppendPoint(s, p, k) == p = Len(s) + 1

\* Where queue_enq, scanning from the tail, puts a new element with key k: just
\* behind the last element whose key is smaller, at the front if there is none.
InsertionPoint(s, p, k) ==
  /\ p > 1 => key[s[p-1]] < k
  /\ \A i \in p .. Len(s) : key[s[i]] >= k

queue_enq(e, k) ==
  LET s == bucket[BucketOf(k)] IN
  /\ \E p \in {q \in 1 .. Len(s) + 1 : InsertionPoint(s, q, k)} :
       bucket' = [bucket EXCEPT ![BucketOf(k)] = InsertAt(s, p, e)]
  /\ key' = [key EXCEPT ![e] = k]
  /\ queued' = queued \cup {e}

queue_deq(e) ==
  LET s == bucket[BucketOf(key[e])] IN
  /\ \E i \in 1 .. Len(s) :
       /\ s[i] = e
       /\ bucket' = [bucket EXCEPT ![BucketOf(key[e])] = RemoveAt(s, i)]
  /\ queued' = queued \ {e}
  /\ UNCHANGED key

\* The smallest key in the bucket of the current pulse, LONG_MAX if it is empty.
queue_key ==
  LET s == bucket[BucketOf(pulse)] IN
  IF s = <<>> THEN LongMax ELSE key[s[1]]

-----------------------------------------------------------------------------
(* The event interface.                                                    *)

\* 'when' pulses from now, capped instead of overflowing.
TargetTime(when) ==
  IF when > LongMax - pulse THEN LongMax ELSE when + pulse

\* event_create "makes sure it's in the future".
FutureDelay(when) == IF when < 1 THEN 1 ELSE when

\* Mutant: a path that frees the struct forgets the counter.
NotDiscounted == total_events

\* The free()s of one event struct: the counter never goes below zero.
Discounted == IF total_events - 1 < 0 THEN 0 ELSE total_events - 1

\* Code outside the queue runs between two heartbeats and inside callbacks.
UserCodeRuns == processing => running # NoEvent

event_init ==
  /\ ~ready
  /\ ready' = TRUE
  /\ bucket' = [b \in Buckets |-> <<>>]
  /\ UNCHANGED <<pulse, key, queued, live, kind, obj, unfreed, processing,
                 running, total_events>>

\* event_create_named_with_cleanup; a mud event is marked by its creator.  The
\* call fails, and changes nothing, without a queue or at MAX_EVENTS.
event_create(e, k, hasObj, when) ==
  /\ UserCodeRuns
  /\ ready
  /\ total_events < MaxEvents
  /\ e \in Events \ live
  /\ queue_enq(e, TargetTime(FutureDelay(when)))
  /\ live' = live \cup {e}
  /\ kind' = [kind EXCEPT ![e] = k]
  /\ obj' = [obj EXCEPT ![e] = hasObj]
  /\ unfreed' = [unfreed EXCEPT ![e] = IF hasObj THEN @ + 1 ELSE @]
  /\ total_events' = total_events + 1
  /\ UNCHANGED <<pulse, ready, processing, running>>

\* event_cancel of a queued event: everything is released (cleanup_event_obj
\* calls the hook, free_mud_event or free, one of them exactly).
CancelQueued(e) ==
  /\ e \in queued
  /\ queue_deq(e)
  /\ unfreed' = [unfreed EXCEPT ![e] = IF obj[e] THEN @ - 1 ELSE @]
  /\ obj' = [obj EXCEPT ![e] = FALSE]
  /\ live' = live \ {e}
  /\ total_events' = Discounted

\* Mutant: the struct of the running event is freed under event_process().
CancelRunningFrees(e) ==
  /\ e \notin queued
  /\ unfreed' = [unfreed EXCEPT ![e] = IF obj[e] THEN @ - 1 ELSE @]
  /\ obj' = [obj EXCEPT ![e] = FALSE]
  /\ live' = live \ {e}
  /\ total_events' = Discounted
  /\ UNCHANGED queue

\* Mutant: event_obj keeps pointing at the freed mud_event_data.
CancelRunningKeepsObj(e) ==
  /\ e \notin queued
  /\ kind[e] = "mud" /\ obj[e]
  /\ unfreed' = [unfreed EXCEPT ![e] = @ - 1]
  /\ UNCHANGED <<queue, live, total_events, obj>>

\* event_cancel of an event without q_el: the struct is left to event_process,
\* and only a mud event gives up its payload.
CancelRunning(e) ==
  /\ e \notin queued
  /\ kind[e] = "mud" /\ obj[e]
  /\ unfreed' = [unfreed EXCEPT ![e] = @ - 1]
  /\ obj' = [obj EXCEPT ![e] = FALSE]
  /\ UNCHANGED <<queue, live, total_events>>

event_cancel(e) ==
  /\ UserCodeRuns
  /\ e \in live
  /\ CancelQueued(e) \/ CancelRunning(e)
  /\ UNCHANGED <<pulse, ready, kind, processing, running>>

\* Mutant: the heartbeat is skipped while no event can be created.
TickUnlessFull ==
  /\ ~processing
  /\ pulse < MaxPulse /\ total_events < MaxEvents
  /\ pulse' = pulse + 1
  /\ processing' = ready
  /\ UNCHANGED <<ready, queue, live, kind, obj, unfreed, running, total_events>>

\* heartbeat(++pulse) enters event_process().
Tick ==
  /\ ~processing
  /\ pulse < MaxPulse
  /\ pulse' = pulse + 1
  /\ processing' = ready
  /\ UNCHANGED <<ready, queue, live, kind, obj, unfreed, running, total_events>>

\* The loop of event_process() takes the head of the bucket of this pulse
\* (queue_head) and calls its function.
Dequeue ==
  /\ processing /\ running = NoEvent
  /\ pulse >= queue_key
  /\ LET e == bucket[BucketOf(pulse)][1] IN queue_deq(e) /\ running' = e
  /\ UNCHANGED <<pulse, ready, live, kind, obj, unfreed, processing, total_events>>

\* The callback returns a positive delay: the event is queued again.
ReturnAgain(delay) ==
  /\ running # NoEvent
  /\ delay > 0
  /\ queue_enq(running, TargetTime(delay))
  /\ running' = NoEvent
  /\ UNCHANGED <<pulse, ready, live, kind, obj, unfreed, processing, total_events>>

\* The callback returns zero: event_process() frees the payload of a mud event
\* unless it is gone already; other callbacks have freed their own.
ReturnDone ==
  /\ running # NoEvent
  /\ unfreed' = [unfreed EXCEPT ![running] = IF obj[running] THEN @ - 1 ELSE @]
  /\ live' = live \ {running}
  /\ total_events' = Discounted
  /\ running' = NoEvent
  /\ UNCHANGED <<pulse, ready, queue, kind, obj, processing>>

\* Mutant: one event for each heartbeat, whatever else is due.
EndProcessEarly ==
  /\ processing /\ running = NoEvent
  /\ processing' = FALSE
  /\ UNCHANGED <<pulse, ready, queue, live, kind, obj, unfreed, running, total_events>>

\* Nothing is due any more: event_process() returns.
EndProcess ==
  /\ processing /\ running = NoEvent
  /\ pulse < queue_key
  /\ processing' = FALSE
  /\ UNCHANGED <<pulse, ready, queue, live, kind, obj, unfreed, running, total_events>>

\* event_free_all: refused while event_process() is active.
event_free_all ==
  /\ ~processing
  /\ ready
  /\ ready' = FALSE
  /\ bucket' = [b \in Buckets |-> <<>>]
  /\ unfreed' = [e \in Events |-> IF e \in queued /\ obj[e] THEN unfreed[e] - 1
                                                            ELSE unfreed[e]]
  /\ obj' = [e \in Events |-> obj[e] /\ e \notin queued]
  /\ live' = live \ queued
  /\ queued' = {}
  /\ total_events' = total_events - Cardinality(queued)
  /\ UNCHANGED <<pulse, key, kind, processing, running>>

-----------------------------------------------------------------------------

Init ==
  /\ pulse = 0
  /\ ready = FALSE
  /\ bucket = [b \in Buckets |-> <<>>]
  /\ key = [e \in Events |-> 0]
  /\ live = {} /\ queued = {}
  /\ kind = [e \in Events |-> "plain"]
  /\ obj = [e \in Events |-> FALSE]
  /\ unfreed = [e \in Events |-> 0]
  /\ processing = FALSE
  /\ running = NoEvent
  /\ total_events = 0

Create == \E e \in Events, k \in Kinds, hasObj \in BOOLEAN, when \in Delays :
            event_create(e, k, hasObj, when)
Cancel == \E e \in Events : event_cancel(e)
Return == ReturnDone \/ \E delay \in Delays : ReturnAgain(delay)

Next ==
  \/ event_init
  \/ event_free_all
  \/ Create
  \/ Cancel
  \/ Tick
  \/ Dequeue
  \/ Return
  \/ EndProcess

Spec == Init /\ [][Next]_vars

\* game_loop() keeps calling heartbeat(), event_process() keeps looping, and
\* callbacks return.  Nobody is obliged to create or cancel anything.
Fairness ==
  /\ WF_vars(Tick)
  /\ WF_vars(Dequeue)
  /\ WF_vars(Return)
  /\ WF_vars(EndProcess)

FairSpec == Spec /\ Fairness

-----------------------------------------------------------------------------
(* Properties.                                                             *)

\* Every variable has its type.
TypeOK ==
  /\ pulse \in 0 .. MaxPulse
  /\ ready \in BOOLEAN
  /\ bucket \in [Buckets -> Seq(Events)]
  /\ key \in [Events -> 0 .. LongMax]
  /\ live \subseteq Events /\ queued \subseteq Events
  /\ kind \in [Events -> Kinds]
  /\ obj \in [Events -> BOOLEAN]
  /\ unfreed \in [Events -> Int]
  /\ processing \in BOOLEAN
  /\ running \in Events \cup {NoEvent}
  /\ total_events \in Int

\* An event is in the lists exactly when its q_el says so, once, and in the
\* bucket in which queue_deq and queue_key will look for it.
InItsBucket ==
  /\ \A b \in Buckets : \A i \in 1 .. Len(bucket[b]) :
       /\ bucket[b][i] \in queued
       /\ BucketOf(key[bucket[b][i]]) = b
  /\ \A e \in queued : \E i \in 1 .. Len(bucket[BucketOf(key[e])]) :
       bucket[BucketOf(key[e])][i] = e

\* No list holds an event twice: queue_deq takes away the only occurrence.
OncePerBucket ==
  \A b \in Buckets : \A i, j \in 1 .. Len(bucket[b]) :
    bucket[b][i] = bucket[b][j] => i = j

\* Each bucket is sorted, so that its head is its earliest event, whatever
\* callbacks inserted and removed while the loop was running.
Sorted ==
  \A b \in Buckets : \A i, j \in 1 .. Len(bucket[b]) :
    i <= j => key[bucket[b][i]] <= key[bucket[b][j]]

\* What queue_head, queue_key and queue_deq rely on, whatever callbacks insert,
\* cancel and re-queue while event_process() empties a bucket: the lists and
\* q_el agree, each event is there once, and the head of a bucket is its earliest.
QueueSound == InItsBucket /\ OncePerBucket /\ Sorted

\* event_process() leaves nothing behind: between heartbeats no event is due or
\* overdue, and inside the loop none is overdue.  Only the bucket of the current
\* pulse is ever looked at, so an overdue event would wait NUM_EVENT_QUEUES
\* pulses more.
NoOverdue ==
  \A e \in queued : IF processing THEN key[e] >= pulse ELSE key[e] > pulse

\* A NULL q_el means "its callback is running" and nothing else, which is what
\* event_cancel() concludes from it; the running event's struct stays allocated
\* until event_process() has finished with it.
UnqueuedIsRunning ==
  /\ live = queued \cup (IF running = NoEvent THEN {} ELSE {running})
  /\ running \notin queued
  /\ running # NoEvent => processing

\* No payload is freed twice and none is lost, on any path: normal return,
\* re-queueing, cancellation of a queued event, of the running event by its own
\* callback, and event_free_all().
PayloadBalance ==
  \A e \in Events : unfreed[e] = IF e \in live /\ obj[e] THEN 1 ELSE 0

\* The resource counter is exact, so its limit is a limit on allocated events
\* and the code's reset of a negative counter is never needed.
CounterExact ==
  /\ total_events = Cardinality(live)
  /\ total_events <= MaxEvents

\* Inside one call of event_process() no event's function is entered at a pulse
\* other than its own, and so none is entered twice in one pulse.
FiresOnTime ==
  [][\A e \in Events : running' = e /\ running # e => key[e] = pulse]_vars

\* The abstract schedule: who waits for which pulse, and who executes.
Schedule == INSTANCE EventSchedule WITH
  Times <- 0 .. LongMax, now <- pulse, due <- [e \in queued |-> key[e]], executing <- running

\* The bucketed queue implements the schedule.
ImplementsSchedule == Schedule!Spec

\* Every call of event_process() comes to an end, however many events its
\* callbacks create, cancel and ask to be queued again.
PulseCompletes == processing ~> ~processing

\* An event whose time comes is run, unless it is cancelled before.
Served ==
  \A e \in Events :
    (e \in queued /\ key[e] <= MaxPulse) ~> (e \notin queued)

===============================================================================
