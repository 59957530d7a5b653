----------------------------- MODULE PubSubQueue -----------------------------
(***************************************************************************)
(* The message queue of src/pubsub: one FIFO per priority, messages shared *)
(* between the nodes of their recipients by a reference count, delivery in *)
(* passes with a batch limit and a retry limit.                            *)
(*                                                                         *)
(* A pass is modelled one node at a time, as the loops of the code go; the *)
(* server has one thread and handlers do not queue, so nothing else happens *)
(* during a pass.  A message is the memory it lives in: an element of Msgs *)
(* is handed out again once it is freed.  Today's callers send with one    *)
(* priority; the queue takes any.                                          *)
(***************************************************************************)
EXTENDS Naturals, FiniteSets, SequencesExt

CONSTANTS
  Players,
  Msgs,        \* bounds the messages allocated at a time
  Critical,    \* priorities are Low = 1 .. Critical
  MaxSize,     \* PUBSUB_QUEUE_MAX_SIZE
  Batch,       \* PUBSUB_QUEUE_BATCH_SIZE
  MaxRetries,  \* PUBSUB_QUEUE_MAX_RETRIES
  Risks        \* the risky situations that may come up

Low == 1
Prios == Low .. Critical

\* publish: pubsub_publish finds a subscriber.  leave: a recipient leaves the game.
\* unheard: nobody gets an audio message.
AllRisks == {"publish", "leave", "unheard"}

ASSUME PubSubAssumption ==
  /\ Critical \in Nat \ {0}
  /\ MaxSize \in Nat \ {0}
  /\ Batch \in Nat \ {0}
  /\ MaxRetries \in Nat \ {0}
  /\ IsFiniteSet(Players)
  /\ Risks \subseteq AllRisks

VARIABLES
  inGame,     \* the players in the game
  enabled,    \* pubsub_queue_processing
  live,       \* the messages allocated
  refs,       \* reference_count
  queue,      \* the five lists, by priority
  count,      \* critical_count .. low_count
  total,      \* total_queued
  pass        \* the pass under way, see PassType

vars == <<inGame, enabled, live, refs, queue, count, total, pass>>

Node == [msg : Msgs, who : Players, tries : 0 .. MaxRetries - 1]

\* pri, done, here: the loops' priority, processed, and the part of it counted by
\* the call of process_priority under way.  writing: the players in an editor.
\* tried, again and last are what the properties look at: the nodes taken in this
\* pass, whether the last one had been taken before, and what became of it.
PassType == [mode : {"idle", "batch", "all"}, pri : Prios, done : Nat, here : Nat,
             writing : SUBSET Players, tried : SUBSET (Msgs \X Players),
             again : BOOLEAN, last : {"none", "delivered", "failed", "kept", "uncounted"}]

Idle == [mode |-> "idle", pri |-> Critical, done |-> 0, here |-> 0,
         writing |-> {}, tried |-> {}, again |-> FALSE, last |-> "none"]

Nodes == UNION {ToSet(queue[p]) : p \in Prios}

\* The places of the five lists that are taken.
Slots == UNION {{p} \X (1 .. Len(queue[p])) : p \in Prios}

\* A copy of m for w waits in the list of priority p.
Holds(p, m, w) == \E n \in ToSet(queue[p]) : n.msg = m /\ n.who = w

-----------------------------------------------------------------------------
(* Queueing.                                                               *)

Init ==
  /\ inGame = {}
  /\ enabled = TRUE
  /\ live = {}
  /\ refs = [m \in Msgs |-> 0]
  /\ queue = [p \in Prios |-> <<>>]
  /\ count = [p \in Prios |-> 0]
  /\ total = 0
  /\ pass = Idle

Enter(w) ==
  /\ pass.mode = "idle"
  /\ w \notin inGame
  /\ inGame' = inGame \cup {w}
  /\ UNCHANGED <<enabled, live, refs, queue, count, total, pass>>

\* extract_char_final frees the character and does not look at the queue.
Leave(w) ==
  /\ pass.mode = "idle"
  /\ w \in inGame
  /\ (\E n \in Nodes : n.who = w) => "leave" \in Risks
  /\ inGame' = inGame \ {w}
  /\ UNCHANGED <<enabled, live, refs, queue, count, total, pass>>

\* Mutant: the limit is checked one too late.
RoomBut1 == IF enabled THEN (MaxSize + 1) - total ELSE 0

\* How many more nodes pubsub_queue_message takes.
Room == IF enabled THEN MaxSize - total ELSE 0

Accepted(audience) ==
  SubSeq(audience, 1, IF Room < Len(audience) THEN Room ELSE Len(audience))

\* enqueue_by_priority
AtTail(s, t) == s \o t

\* pubsub_queue_message for each of the audience in turn, until it is full.
Queued(m, p, audience) ==
  LET taken == Accepted(audience)
      fresh == [k \in 1 .. Len(taken) |-> [msg |-> m, who |-> taken[k], tries |-> 0]]
  IN  /\ queue' = [queue EXCEPT ![p] = AtTail(@, fresh)]
      /\ count' = [count EXCEPT ![p] = @ + Len(taken)]
      /\ total' = total + Len(taken)
      /\ refs' = [refs EXCEPT ![m] = Len(taken)]

\* Everyone in earshot, in the order of character_list.
Audiences(S) == {a \in UNION {[1 .. k -> S] : k \in 0 .. Cardinality(S)} : IsInjective(a)}

\* A message nobody takes stays allocated: nothing refers to it.
pubsub_publish_wilderness_audio(m, p, audience) ==
  /\ pass.mode = "idle"
  /\ m \notin live
  /\ Len(Accepted(audience)) = 0 => "unheard" \in Risks
  /\ Queued(m, p, audience)
  /\ live' = live \cup {m}
  /\ UNCHANGED <<inGame, enabled, pass>>

\* pubsub_publish queues in the same way and then frees the message, whoever holds it.
pubsub_publish(m, p, audience) ==
  /\ pass.mode = "idle"
  /\ m \notin live
  /\ Len(Accepted(audience)) > 0 => "publish" \in Risks
  /\ Queued(m, p, audience)
  /\ UNCHANGED <<inGame, enabled, live, pass>>

\* pubsubqueue start and stop.
SetProcessing(on) ==
  /\ pass.mode = "idle"
  /\ enabled' = on
  /\ UNCHANGED <<inGame, live, refs, queue, count, total, pass>>

-----------------------------------------------------------------------------
(* A pass.                                                                 *)

\* process_batch from the heartbeat, or process_all from the command.
StartPass(mode) ==
  /\ pass.mode = "idle"
  /\ enabled
  /\ total > 0     \* a pass over empty queues changes nothing
  /\ \E w \in SUBSET inGame : pass' = [Idle EXCEPT !.mode = mode, !.writing = w]
  /\ UNCHANGED <<inGame, enabled, live, refs, queue, count, total>>

\* Mutant: the inner loops stop one node early.
MayTakeShort(ps) == ps.done + ps.here < Batch - 1

\* The loop over one priority may take another node: process_batch counts over
\* all priorities, process_priority for itself.
MayTake(ps) == IF ps.mode = "batch" THEN ps.done + ps.here < Batch ELSE ps.here < Batch

\* Mutant: nobody counts the tries.
TriesForever(n) == TRUE

MayRetry(n) == n.tries + 1 < MaxRetries

Retried(n) == [n EXCEPT !.tries = (@ + 1) % MaxRetries]

\* dequeue_by_priority, retry_count++, enqueue_by_priority, total_queued++.
Requeued(n, p) ==
  /\ queue' = [queue EXCEPT ![p] = AtTail(Tail(@), <<Retried(n)>>)]
  /\ UNCHANGED <<live, refs, count, total>>

\* Mutant: the message goes with the first of its nodes.
FreedWithFirst(n, p) ==
  /\ queue' = [queue EXCEPT ![p] = Tail(@)]
  /\ count' = [count EXCEPT ![p] = @ - 1]
  /\ total' = total - 1
  /\ refs' = [refs EXCEPT ![n.msg] = @ - 1]
  /\ live' = live \ {n.msg}

\* dequeue_by_priority and free_queue_node: the last node frees the message.
Freed(n, p) ==
  /\ queue' = [queue EXCEPT ![p] = Tail(@)]
  /\ count' = [count EXCEPT ![p] = @ - 1]
  /\ total' = total - 1
  /\ refs' = [refs EXCEPT ![n.msg] = @ - 1]
  /\ live' = IF refs[n.msg] <= 1 THEN live \ {n.msg} ELSE live

\* What becomes of the pass when its next node was delivered, failed, ...
Noted(n, outcome) ==
  LET key == <<n.msg, n.who>>
  IN  [pass EXCEPT !.here = IF outcome = "delivered" THEN @ + 1 ELSE @,
                   !.tried = @ \cup {key},
                   !.again = key \in pass.tried,
                   !.last = outcome]

\* One turn of the inner loop.  process_batch does not count the failure of a
\* player who stays unavailable, process_priority does.
Take ==
  LET p == pass.pri IN
  /\ pass.mode # "idle"
  /\ queue[p] # <<>>
  /\ MayTake(pass)
  /\ LET n == Head(queue[p])
         away == n.who \in pass.writing
     IN  \/ /\ ~away
            /\ Freed(n, p)
            /\ pass' = Noted(n, "delivered")
         \/ /\ MayRetry(n)             \* unavailable, or the handler fails
            /\ Requeued(n, p)
            /\ pass' = Noted(n, "kept")
         \/ /\ ~MayRetry(n)
            /\ Freed(n, p)
            /\ pass' = Noted(n, IF away /\ pass.mode = "batch" THEN "uncounted" ELSE "failed")
  /\ UNCHANGED <<inGame, enabled>>

\* The inner loop ends; the outer one goes on, or the pass is over.
NextPriority ==
  LET p == pass.pri
      sum == pass.done + pass.here
  IN  /\ pass.mode # "idle"
      /\ queue[p] = <<>> \/ ~MayTake(pass)
      /\ pass' = IF p = Low \/ sum >= Batch THEN Idle
                 ELSE [pass EXCEPT !.pri = p - 1, !.done = sum, !.here = 0]
      /\ UNCHANGED <<inGame, enabled, live, refs, queue, count, total>>

Next ==
  \/ \E w \in Players : Enter(w) \/ Leave(w)
  \/ \E m \in Msgs, p \in Prios : \E a \in Audiences(inGame) :
       pubsub_publish_wilderness_audio(m, p, a) \/ pubsub_publish(m, p, a)
  \/ \E on \in BOOLEAN : SetProcessing(on)
  \/ \E mode \in {"batch", "all"} : StartPass(mode)
  \/ Take
  \/ NextPriority

Spec == Init /\ [][Next]_vars

\* A pass is a call that runs to its end; the heartbeat makes one every third
\* second for as long as the server runs.
Fairness == WF_vars(Take \/ NextPriority) /\ SF_vars(StartPass("batch"))

FairSpec == Spec /\ Fairness

-----------------------------------------------------------------------------
(* Properties.                                                             *)

\* Every variable has its type.
TypeOK ==
  /\ inGame \subseteq Players
  /\ enabled \in BOOLEAN
  /\ live \subseteq Msgs
  /\ refs \in [Msgs -> Nat]
  /\ queue \in [Prios -> Seq(Node)]
  /\ count \in [Prios -> Nat]
  /\ total \in Nat
  /\ pass \in PassType

\* The counters say how many nodes there are: a node that goes back to its list
\* is counted in as often as it was counted out (dequeue_by_priority and the two
\* retry branches), so the queue neither fills up by itself nor overflows.
CountersExact ==
  /\ \A p \in Prios : count[p] = Len(queue[p])
  /\ total = Cardinality(Slots)
  /\ total <= MaxSize

\* Every queued node has a message that is allocated and a player who is in the
\* game, and reference_count is the number of its nodes (free_queue_node).
NodesAreSound ==
  /\ TypeOK
  /\ \A n \in Nodes : n.msg \in live /\ n.who \in inGame
  /\ \A m \in live : refs[m] = Cardinality({n \in Nodes : n.msg = m})

\* pubsub.c: "Message will be freed when queue processing completes": what is
\* allocated has a node that will free it.
NothingLeaks == \A m \in live : \E n \in Nodes : n.msg = m

\* Nothing of a lower priority is looked at while something higher is queued,
\* retries included (process_all, process_batch).
UrgentFirst ==
  pass.mode # "idle" => \A p \in Prios : p > pass.pri => queue[p] = <<>>

\* A pass of the heartbeat delivers no more than the batch, one of the command
\* less than two (processed is compared after a whole priority).
BatchBound ==
  /\ pass.mode = "batch" => pass.done + pass.here <= Batch
  /\ pass.mode = "all" => pass.done + pass.here < 2 * Batch

\* Both: what a pass may take next, and when it has to stop.
PassDiscipline == UrgentFirst /\ BatchBound

\* pubsub_queue.c: "Player not available, re-queue for later".  Later is in the
\* same pass.
RetryIsLater == ~pass.again

\* pubsub_queue.c: "Same processing logic as process_priority": every message
\* given up is counted as failed.
DropsAreCounted == pass.last # "uncounted"

\* A pass comes to an end, whoever cannot be reached: the server is not stuck in
\* the loop that puts nodes back on the list it takes them from.
PassEnds == pass.mode # "idle" ~> pass.mode = "idle"

\* Whatever is queued with the highest priority is delivered or given up while
\* the queue is processed, new messages and retries notwithstanding.  Steady
\* urgent traffic may keep the lower priorities waiting for ever.  And every pass
\* ends.
QueueDrains ==
  /\ PassEnds
  /\ \A m \in Msgs, w \in Players :
       Holds(Critical, m, w) ~> (~enabled \/ ~Holds(Critical, m, w))
=============================================================================
