-------------------------- MODULE PubSubQueueProofs ---------------------------
(***************************************************************************)
(* The invariants of the message queue, for any players, any number of     *)
(* messages and priorities, any sizes of queue and batch, any retry limit. *)
(*                                                                         *)
(* The counters, and what a pass may take, need no hypothesis.  That the   *)
(* messages of the nodes are allocated needs that pubsub_publish finds no  *)
(* subscriber, that their players are there that nobody waited for leaves. *)
(***************************************************************************)
EXTENDS PubSubQueue, FiniteSetTheorems, SequenceTheorems, TLAPS

QueueTyped ==
  /\ inGame \subseteq Players /\ enabled \in BOOLEAN /\ live \subseteq Msgs
  /\ queue \in [Prios -> Seq(Node)]
  /\ count \in [Prios -> Nat] /\ total \in Nat

SizesExact ==
  /\ \A p \in Prios : count[p] = Len(queue[p])
  /\ IsFiniteSet(Slots) /\ total = Cardinality(Slots)
  /\ total <= MaxSize

\* A pass goes on to another priority only below the batch limit.
PassInv ==
  /\ pass \in PassType
  /\ pass.mode # "idle" => pass.done < Batch
  /\ pass.mode = "batch" => pass.done + pass.here <= Batch
  /\ pass.mode = "all" => pass.here <= Batch

QueueInv == QueueTyped /\ SizesExact /\ PassInv /\ UrgentFirst

\* What follows is said of any lists, to speak of them before and after a step.
Lists == [Prios -> Seq(Node)]
NodesIn(lists) == UNION {ToSet(lists[p]) : p \in Prios}

\* x and y are of one message for one player.
Same(x, y) == x.msg = y.msg /\ x.who = y.who

\* No two nodes are.
Apart(lists) ==
  \A p, q \in Prios : \A i \in 1 .. Len(lists[p]), j \in 1 .. Len(lists[q]) :
    Same(lists[p][i], lists[q][j]) => p = q /\ i = j

NodesOf(m) == {n \in Nodes : n.msg = m}

RefsExact ==
  /\ refs \in [Msgs -> Nat]
  /\ \A n \in Nodes : n.msg \in live
  /\ \A m \in live : IsFiniteSet(NodesOf(m)) /\ refs[m] = Cardinality(NodesOf(m))

MessagesInv == Apart(queue) /\ RefsExact
PlayersInv  == \A n \in Nodes : n.who \in inGame

\* Each layer under the hypotheses it needs.
IInv ==
  /\ QueueInv
  /\ "publish" \notin Risks => MessagesInv
  /\ "leave" \notin Risks => PlayersInv
  /\ Risks \cap {"publish", "unheard"} = {} => NothingLeaks

-----------------------------------------------------------------------------
(* Lemmas: the nodes, their places, and how many there are.                *)

\* A place that is taken is one of a list.
LEMMA SlotsAre ==
  \A p, i : <<p, i>> \in Slots <=> p \in Prios /\ i \in 1 .. Len(queue[p])
BY DEF Slots

\* The k places of a list after the first a.
Stretch(p, a, k) == {p} \X (a + 1 .. a + k)

\* They are k.
LEMMA SlotsCounted ==
  ASSUME NEW p, NEW a \in Nat, NEW k \in Nat
  PROVE  IsFiniteSet(Stretch(p, a, k)) /\ Cardinality(Stretch(p, a, k)) = k
<1> DEFINE T == {p} \X (a + 1 .. a + k)
           f == [i \in 1 .. k |-> <<p, a + i>>]
<1>1. f \in [1 .. k -> T]
  OBVIOUS
<1>2. \A i, j \in 1 .. k : f[i] = f[j] => i = j
  OBVIOUS
<1>3. ASSUME NEW t \in T PROVE \E i \in 1 .. k : f[i] = t
  <2>1. PICK b \in a + 1 .. a + k : t = <<p, b>>
    OBVIOUS
  <2>2. b - a \in 1 .. k /\ a + (b - a) = b
    OBVIOUS
  <2>3. QED
    BY <2>1, <2>2
<1> HIDE DEF f, T
<1>4. f \in Bijection(1 .. k, T)
  BY <1>1, <1>2, <1>3 DEF Bijection, Injection, Surjection, IsInjective
<1>5. ExistsBijection(1 .. k, T)
  BY <1>4 DEF ExistsBijection
<1>6. IsFiniteSet(T) /\ Cardinality(T) = k
  BY <1>5, FS_CountingElements, FS_NatBijection
<1>7. QED
  BY <1>6 DEF T, Stretch

\* A list grows by k nodes at its end.
LEMMA SlotsGrow ==
  ASSUME QueueTyped, IsFiniteSet(Slots), NEW p \in Prios, NEW k \in Nat,
         queue' \in [Prios -> Seq(Node)],
         Len(queue'[p]) = Len(queue[p]) + k,
         \A q \in Prios \ {p} : Len(queue'[q]) = Len(queue[q])
  PROVE  IsFiniteSet(Slots') /\ Cardinality(Slots') = Cardinality(Slots) + k
<1> DEFINE a == Len(queue[p])
           T == Stretch(p, a, k)
<1>1. a \in Nat
  BY DEF QueueTyped
<1>2. IsFiniteSet(T) /\ Cardinality(T) = k
  BY <1>1, SlotsCounted
<1>3. 1 .. a + k = (1 .. a) \cup (a + 1 .. a + k)
  BY <1>1
<1>4. Slots' = Slots \cup T
  <2>1. \A q \in Prios : {q} \X (1 .. Len(queue'[q])) =
          ({q} \X (1 .. Len(queue[q]))) \cup (IF q = p THEN T ELSE {})
    BY <1>3 DEF Stretch
  <2>2. QED
    BY <2>1 DEF Slots
<1>5. Slots \cap T = {}
  <2>1. (1 .. a) \cap (a + 1 .. a + k) = {}
    BY <1>1
  <2>2. QED
    BY <2>1 DEF Slots, Stretch
<1> HIDE DEF T
<1>6. /\ IsFiniteSet(Slots \cup T)
      /\ Cardinality(Slots \cup T) = Cardinality(Slots) + Cardinality(T) - Cardinality(Slots \cap T)
  BY <1>2, FS_Union
<1>7. Cardinality(Slots) \in Nat /\ Cardinality(Slots \cap T) = 0
  BY <1>5, FS_CardinalityType, FS_EmptySet
<1>8. QED
  BY <1>2, <1>4, <1>6, <1>7

\* A list loses a node.
LEMMA SlotsShrink ==
  ASSUME QueueTyped, IsFiniteSet(Slots), NEW p \in Prios, queue[p] # <<>>,
         queue' \in [Prios -> Seq(Node)],
         Len(queue'[p]) = Len(queue[p]) - 1,
         \A q \in Prios \ {p} : Len(queue'[q]) = Len(queue[q])
  PROVE  /\ IsFiniteSet(Slots') /\ Cardinality(Slots') = Cardinality(Slots) - 1
         /\ Cardinality(Slots) >= 1
<1> DEFINE a == Len(queue[p])
           x == <<p, a>>
<1>1. a \in Nat /\ a > 0
  BY DEF QueueTyped
<1>2. x \in Slots
  BY <1>1, SlotsAre
<1>3. 1 .. a - 1 = (1 .. a) \ {a}
  BY <1>1
<1>4. Slots' = Slots \ {x}
  <2>1. \A q \in Prios : {q} \X (1 .. Len(queue'[q])) = ({q} \X (1 .. Len(queue[q]))) \ {x}
    BY <1>3
  <2>2. QED
    BY <2>1 DEF Slots
<1> HIDE DEF x
<1>5. /\ IsFiniteSet(Slots \ {x})
      /\ Cardinality(Slots \ {x}) = Cardinality(Slots) - 1
  BY <1>2, FS_RemoveElement
<1>6. Cardinality(Slots) \in Nat /\ Cardinality(Slots \ {x}) \in Nat
  BY <1>5, FS_CardinalityType
<1>7. QED
  BY <1>4, <1>5, <1>6

\* The first of the audience are of the audience, once each, and there is room for them.
LEMMA AcceptedFit ==
  ASSUME QueueTyped, total <= MaxSize, NEW a \in Audiences(inGame)
  PROVE  /\ Accepted(a) \in Seq(inGame)
         /\ total + Len(Accepted(a)) <= MaxSize
         /\ \A i, j \in 1 .. Len(Accepted(a)) : Accepted(a)[i] = Accepted(a)[j] => i = j
<1> DEFINE r == Room
           k == IF r < Len(a) THEN r ELSE Len(a)
<1>1. IsFiniteSet(inGame) /\ Cardinality(inGame) \in Nat
  BY PubSubAssumption, FS_Subset, FS_CardinalityType DEF QueueTyped
<1>2. PICK n \in 0 .. Cardinality(inGame) : a \in [1 .. n -> inGame] /\ IsInjective(a)
  BY DEF Audiences
<1>3. n \in Nat /\ a \in Seq(inGame) /\ Len(a) = n
  BY <1>1, <1>2
<1>4. \A i, j \in 1 .. n : a[i] = a[j] => i = j
  BY <1>2, <1>3 DEF IsInjective
<1>5. r \in Nat /\ total + r <= MaxSize
  BY PubSubAssumption DEF Room, QueueTyped
<1>6. Accepted(a) = SubSeq(a, 1, k)
  BY DEF Accepted
<1> HIDE DEF r
<1>7. k \in 0 .. n /\ k <= r
  BY <1>3, <1>5
<1> HIDE DEF k
<1>8. /\ SubSeq(a, 1, k) \in Seq(inGame) /\ Len(SubSeq(a, 1, k)) = k
      /\ \A i \in 1 .. k : SubSeq(a, 1, k)[i] = a[i]
  BY <1>3, <1>7
<1> DEFINE t == SubSeq(a, 1, k)
<1>9. t \in Seq(inGame) /\ Len(t) = k /\ \A i \in 1 .. k : t[i] = a[i]
  BY <1>8
<1>10. Accepted(a) = t
  BY <1>6
<1> HIDE DEF t
<1>11. total + k <= MaxSize
  BY <1>3, <1>5, <1>7, PubSubAssumption DEF QueueTyped
<1>12. \A i, j \in 1 .. k : t[i] = t[j] => i = j
  BY <1>3, <1>4, <1>7, <1>9
<1>13. QED
  BY <1>9, <1>10, <1>11, <1>12

Fresh(m, a) == [k \in 1 .. Len(Accepted(a)) |-> [msg |-> m, who |-> Accepted(a)[k], tries |-> 0]]

\* What pubsub_queue_message does to the lists.
LEMMA QueuedLists ==
  ASSUME QueueTyped, total <= MaxSize, NEW m \in Msgs, NEW p \in Prios,
         NEW a \in Audiences(inGame), Queued(m, p, a)
  PROVE  LET s == queue[p]
             k == Len(Accepted(a)) IN
         /\ k \in Nat /\ total + k <= MaxSize
         /\ queue' \in [Prios -> Seq(Node)]
         /\ \A q \in Prios \ {p} : queue'[q] = queue[q]
         /\ Len(queue'[p]) = Len(s) + k
         /\ \A i \in 1 .. Len(s) : queue'[p][i] = s[i]
         /\ \A i \in Len(s) + 1 .. Len(s) + k :
              queue'[p][i] = [msg |-> m, who |-> Accepted(a)[i - Len(s)], tries |-> 0]
<1> DEFINE s == queue[p]
           k == Len(Accepted(a))
           f == Fresh(m, a)
<1>1. Accepted(a) \in Seq(inGame) /\ total + k <= MaxSize /\ k \in Nat
  BY AcceptedFit
<1>2. f \in Seq(Node) /\ Len(f) = k
  <2>1. \A i \in 1 .. k : Accepted(a)[i] \in Players
    BY <1>1 DEF QueueTyped
  <2>2. \A i \in 1 .. k : [msg |-> m, who |-> Accepted(a)[i], tries |-> 0] \in Node
    BY <2>1, PubSubAssumption DEF Node
  <2>3. QED
    BY <1>1, <2>2 DEF Fresh
<1>3. \A i \in 1 .. k : f[i] = [msg |-> m, who |-> Accepted(a)[i], tries |-> 0]
  BY DEF Fresh
<1>4. s \in Seq(Node)
  BY DEF QueueTyped
<1>5. queue' = [queue EXCEPT ![p] = s \o f]
  BY DEF Queued, AtTail, Fresh
<1> HIDE DEF f
<1>6. /\ s \o f \in Seq(Node) /\ Len(s \o f) = Len(s) + Len(f)
      /\ \A i \in 1 .. Len(s) + Len(f) :
           (s \o f)[i] = IF i <= Len(s) THEN s[i] ELSE f[i - Len(s)]
  BY <1>2, <1>4, ConcatProperties, Zenon
<1>7. /\ queue' \in [Prios -> Seq(Node)] /\ queue'[p] = s \o f
      /\ \A q \in Prios \ {p} : queue'[q] = queue[q]
  BY <1>5, <1>6 DEF QueueTyped
<1>8. ASSUME NEW i \in Len(s) + 1 .. Len(s) + k
      PROVE  (s \o f)[i] = [msg |-> m, who |-> Accepted(a)[i - Len(s)], tries |-> 0]
  <2>1. i \in 1 .. Len(s) + Len(f) /\ ~(i <= Len(s)) /\ i - Len(s) \in 1 .. k
    BY <1>1, <1>2, <1>4, <1>8
  <2>2. (s \o f)[i] = f[i - Len(s)]
    BY <1>6, <2>1
  <2>3. QED
    BY <1>3, <2>1, <2>2
<1>9. \A i \in 1 .. Len(s) : (s \o f)[i] = s[i]
  BY <1>2, <1>4, <1>6
<1>10. QED
  BY <1>1, <1>2, <1>6, <1>7, <1>8, <1>9

\* A node is taken off the front of a list.
LEMMA FreedLists ==
  ASSUME QueueTyped, NEW p \in Prios, queue[p] # <<>>, NEW n, Freed(n, p)
  PROVE  /\ queue' \in [Prios -> Seq(Node)]
         /\ \A q \in Prios \ {p} : queue'[q] = queue[q]
         /\ Len(queue'[p]) = Len(queue[p]) - 1
         /\ \A i \in 1 .. Len(queue[p]) - 1 : queue'[p][i] = queue[p][i + 1]
<1>1. queue[p] \in Seq(Node)
  BY DEF QueueTyped
<1>2. /\ Tail(queue[p]) \in Seq(Node) /\ Len(Tail(queue[p])) = Len(queue[p]) - 1
      /\ \A i \in 1 .. Len(queue[p]) - 1 : Tail(queue[p])[i] = queue[p][i + 1]
  BY <1>1
<1>3. queue' = [queue EXCEPT ![p] = Tail(queue[p])]
  BY DEF Freed
<1>4. QED
  BY <1>2, <1>3 DEF QueueTyped

\* A node that may be tried again is a node.
LEMMA RetriedIsNode ==
  ASSUME NEW n \in Node, MayRetry(n)
  PROVE  Retried(n) \in Node /\ Retried(n).msg = n.msg /\ Retried(n).who = n.who
<1>1. n.tries \in Nat /\ MaxRetries \in Nat /\ MaxRetries > 0
  BY PubSubAssumption DEF Node
<1>2. (n.tries + 1) % MaxRetries \in 0 .. MaxRetries - 1
  BY <1>1
<1>3. QED
  BY <1>2 DEF Retried, Node

\* A node is moved from the front of a list to its end.
LEMMA RequeuedLists ==
  ASSUME QueueTyped, NEW p \in Prios, queue[p] # <<>>, MayRetry(Head(queue[p])),
         Requeued(Head(queue[p]), p)
  PROVE  LET s == queue[p] IN
         /\ queue' \in [Prios -> Seq(Node)]
         /\ \A q \in Prios \ {p} : queue'[q] = queue[q]
         /\ Len(queue'[p]) = Len(s)
         /\ \A i \in 1 .. Len(s) - 1 : queue'[p][i] = s[i + 1]
         /\ queue'[p][Len(s)] = Retried(s[1])
<1> DEFINE s == queue[p]
           n == Retried(Head(s))
           t == Tail(s)
<1>1. s \in Seq(Node) /\ Len(s) \in Nat /\ Len(s) > 0 /\ Head(s) = s[1] /\ s[1] \in Node
  BY DEF QueueTyped
<1>2. n \in Node
  BY <1>1, RetriedIsNode
<1>3. t \in Seq(Node) /\ Len(t) = Len(s) - 1 /\ \A i \in 1 .. Len(s) - 1 : t[i] = s[i + 1]
  BY <1>1
<1>4. queue' = [queue EXCEPT ![p] = t \o <<n>>]
  BY DEF Requeued, AtTail
<1>5. n = Retried(s[1])
  BY <1>1
<1> HIDE DEF n, t
<1>6. t \o <<n>> = Append(t, n)
  BY <1>2, <1>3
<1>7. /\ Append(t, n) \in Seq(Node) /\ Len(Append(t, n)) = Len(s)
      /\ \A i \in 1 .. Len(s) - 1 : Append(t, n)[i] = t[i]
      /\ Append(t, n)[Len(s)] = n
  BY <1>1, <1>2, <1>3
<1>8. /\ queue' \in [Prios -> Seq(Node)] /\ queue'[p] = Append(t, n)
      /\ \A q \in Prios \ {p} : queue'[q] = queue[q]
  BY <1>4, <1>6, <1>7 DEF QueueTyped
<1>9. QED
  BY <1>3, <1>5, <1>7, <1>8

-----------------------------------------------------------------------------
(* The counters and the passes.                                            *)

\* Messages that are queued are counted, in their list and in all.
LEMMA QueuedSizes ==
  ASSUME QueueTyped, SizesExact, NEW m \in Msgs, NEW p \in Prios,
         NEW a \in Audiences(inGame), Queued(m, p, a)
  PROVE  /\ queue' \in [Prios -> Seq(Node)]
         /\ count' \in [Prios -> Nat] /\ total' \in Nat
         /\ SizesExact'
<1> DEFINE k == Len(Accepted(a))
<1>1. /\ k \in Nat /\ total + k <= MaxSize
      /\ queue' \in [Prios -> Seq(Node)]
      /\ \A q \in Prios \ {p} : queue'[q] = queue[q]
      /\ Len(queue'[p]) = Len(queue[p]) + k
  BY QueuedLists DEF SizesExact
<1>2. count' = [count EXCEPT ![p] = @ + k] /\ total' = total + k
  BY DEF Queued
<1> HIDE DEF k
<1>3. IsFiniteSet(Slots') /\ Cardinality(Slots') = Cardinality(Slots) + k
  BY <1>1, SlotsGrow DEF SizesExact
<1>4. QED
  BY <1>1, <1>2, <1>3 DEF SizesExact, QueueTyped

\* A node that is freed is counted out.
LEMMA FreedSizes ==
  ASSUME QueueTyped, SizesExact, NEW p \in Prios, queue[p] # <<>>, NEW n, Freed(n, p)
  PROVE  /\ queue' \in [Prios -> Seq(Node)]
         /\ count' \in [Prios -> Nat] /\ total' \in Nat
         /\ SizesExact'
<1>1. /\ queue' \in [Prios -> Seq(Node)]
      /\ \A q \in Prios \ {p} : queue'[q] = queue[q]
      /\ Len(queue'[p]) = Len(queue[p]) - 1
  BY FreedLists
<1>2. count' = [count EXCEPT ![p] = @ - 1] /\ total' = total - 1
  BY DEF Freed
<1>3. /\ IsFiniteSet(Slots') /\ Cardinality(Slots') = Cardinality(Slots) - 1
      /\ Cardinality(Slots) >= 1
  BY <1>1, SlotsShrink DEF SizesExact
<1>4. Len(queue[p]) \in Nat /\ Len(queue[p]) > 0
  BY DEF QueueTyped
<1>5. QED
  BY <1>1, <1>2, <1>3, <1>4, PubSubAssumption DEF SizesExact, QueueTyped

\* A node that is put back is counted as before.
LEMMA RequeuedSizes ==
  ASSUME QueueTyped, SizesExact, NEW p \in Prios, queue[p] # <<>>,
         MayRetry(Head(queue[p])), Requeued(Head(queue[p]), p)
  PROVE  /\ queue' \in [Prios -> Seq(Node)]
         /\ count' \in [Prios -> Nat] /\ total' \in Nat
         /\ SizesExact'
<1>1. /\ queue' \in [Prios -> Seq(Node)]
      /\ \A q \in Prios \ {p} : queue'[q] = queue[q]
      /\ Len(queue'[p]) = Len(queue[p])
  BY RequeuedLists
<1>2. count' = count /\ total' = total
  BY DEF Requeued
<1>3. 0 \in Nat /\ Len(queue'[p]) = Len(queue[p]) + 0
  BY <1>1 DEF QueueTyped
<1>4. IsFiniteSet(Slots') /\ Cardinality(Slots') = Cardinality(Slots) + 0
  BY <1>1, <1>3, SlotsGrow DEF SizesExact
<1>5. Cardinality(Slots) \in Nat
  BY FS_CardinalityType DEF SizesExact
<1>6. \A q \in Prios : count'[q] = Len(queue'[q])
  BY <1>1, <1>2 DEF SizesExact
<1>7. IsFiniteSet(Slots') /\ total' = Cardinality(Slots') /\ total' <= MaxSize
  BY <1>2, <1>4, <1>5 DEF SizesExact
<1>8. QED
  BY <1>1, <1>2, <1>6, <1>7 DEF SizesExact, QueueTyped

\* What may become of the node that is taken.
LEMMA TakeCases ==
  ASSUME Take
  PROVE  LET p == pass.pri
             n == Head(queue[p]) IN
         /\ pass.mode # "idle" /\ queue[p] # <<>> /\ MayTake(pass)
         /\ UNCHANGED <<inGame, enabled>>
         /\ \/ Freed(n, p)
            \/ MayRetry(n) /\ Requeued(n, p)
         /\ \E outcome \in {"delivered", "kept", "uncounted", "failed"} : pass' = Noted(n, outcome)
<1> DEFINE p == pass.pri
           n == Head(queue[p])
           away == n.who \in pass.writing
<1>1. /\ pass.mode # "idle" /\ queue[p] # <<>> /\ MayTake(pass)
      /\ UNCHANGED <<inGame, enabled>>
      /\ \/ /\ Freed(n, p)
            /\ pass' = Noted(n, "delivered")
         \/ /\ MayRetry(n)
            /\ Requeued(n, p)
            /\ pass' = Noted(n, "kept")
         \/ /\ Freed(n, p)
            /\ pass' = Noted(n, IF away /\ pass.mode = "batch" THEN "uncounted" ELSE "failed")
  BY Zenon DEF Take
<1> HIDE DEF p, n, away
<1>2. QED
  BY <1>1 DEF p, n

\* A pass takes a node: no more than it may, and only of its own list.
LEMMA TakePass ==
  ASSUME QueueInv, Take
  PROVE  PassInv' /\ UrgentFirst'
<1> DEFINE p == pass.pri
           n == Head(queue[p])
<1>1. /\ pass.mode \in {"batch", "all"} /\ queue[p] # <<>> /\ MayTake(pass)
      /\ Freed(n, p) \/ (MayRetry(n) /\ Requeued(n, p))
      /\ \E outcome \in {"delivered", "kept", "uncounted", "failed"} : pass' = Noted(n, outcome)
  <2>1. pass.mode \in {"idle", "batch", "all"}
    BY DEF QueueInv, PassInv, PassType
  <2>2. QED
    BY <2>1, TakeCases
<1>2. pass \in PassType /\ p \in Prios
  BY DEF QueueInv, PassInv, PassType
<1>3. n \in Node
  BY <1>1, <1>2 DEF QueueInv, QueueTyped
<1>4. \A q \in Prios \ {p} : queue'[q] = queue[q]
  BY <1>1, <1>2, FreedLists, RequeuedLists DEF QueueInv
<1> HIDE DEF n, p
<1>5. PICK outcome \in {"delivered", "kept", "uncounted", "failed"} : pass' = Noted(n, outcome)
  BY <1>1
<1>6. /\ pass'.mode = pass.mode /\ pass'.pri = pass.pri /\ pass'.done = pass.done
      /\ pass'.here \in {pass.here, pass.here + 1}
      /\ pass' \in PassType
  <2> DEFINE here  == IF outcome = "delivered" THEN pass.here + 1 ELSE pass.here
             tried == pass.tried \cup {<<n.msg, n.who>>}
             again == <<n.msg, n.who>> \in pass.tried
  <2>1. pass' = [pass EXCEPT !.here = here, !.tried = tried, !.again = again, !.last = outcome]
    BY <1>5 DEF Noted
  <2>2. /\ here \in {pass.here, pass.here + 1} /\ here \in Nat
        /\ tried \subseteq Msgs \X Players /\ again \in BOOLEAN
    BY <1>2, <1>3 DEF PassType, Node
  <2> HIDE DEF here, tried, again
  <2>3. QED
    BY <1>2, <2>1, <2>2 DEF PassType
<1>7. PassInv'
  BY <1>1, <1>2, <1>6, PubSubAssumption DEF QueueInv, PassInv, MayTake, PassType
<1>8. UrgentFirst'
  BY <1>1, <1>2, <1>4, <1>6, PubSubAssumption DEF QueueInv, UrgentFirst, Prios, Low, p
<1>9. QED
  BY <1>7, <1>8

\* A pass goes on to the next priority, with nothing left in this one, or ends.
LEMMA NextPriorityPass ==
  ASSUME QueueInv, NextPriority
  PROVE  PassInv' /\ UrgentFirst'
<1> DEFINE p   == pass.pri
           sum == pass.done + pass.here
<1>1. /\ pass.mode \in {"batch", "all"} /\ (queue[p] = <<>> \/ ~MayTake(pass))
      /\ UNCHANGED queue
      /\ pass' = IF p = Low \/ sum >= Batch THEN Idle
                 ELSE [pass EXCEPT !.pri = p - 1, !.done = sum, !.here = 0]
  BY DEF NextPriority, QueueInv, PassInv, PassType
<1>2. pass \in PassType /\ p \in Prios /\ pass.done \in Nat /\ pass.here \in Nat
  BY DEF QueueInv, PassInv, PassType
<1>3. CASE pass' = Idle
  BY <1>3, PubSubAssumption DEF Idle, PassInv, PassType, UrgentFirst, Prios, Low
<1>4. CASE p # Low /\ sum < Batch /\ pass' = [pass EXCEPT !.pri = p - 1, !.done = sum, !.here = 0]
  <2>1. p - 1 \in Prios
    BY <1>2, <1>4, PubSubAssumption DEF Prios, Low
  <2>2. /\ pass'.mode = pass.mode /\ pass'.pri = p - 1 /\ pass'.done = sum /\ pass'.here = 0
        /\ pass' \in PassType
    <3> DEFINE r == p - 1
    <3>1. r \in Prios /\ sum \in Nat /\ pass' = [pass EXCEPT !.pri = r, !.done = sum, !.here = 0]
      BY <1>2, <1>4, <2>1
    <3> HIDE DEF r, p, sum
    <3>2. /\ pass'.mode = pass.mode /\ pass'.pri = r /\ pass'.done = sum /\ pass'.here = 0
          /\ pass' \in PassType
      BY <1>2, <3>1 DEF PassType
    <3>3. QED
      BY <3>2 DEF r
  <2>3. PassInv'
    BY <1>2, <1>4, <2>2, PubSubAssumption DEF PassInv
  <2>4. queue[p] = <<>>
    BY <1>1, <1>2, <1>4, PubSubAssumption DEF MayTake
  <2>5. UrgentFirst'
    BY <1>1, <1>2, <2>2, <2>4, PubSubAssumption DEF QueueInv, UrgentFirst, Prios, Low
  <2>6. QED
    BY <2>3, <2>5
<1>5. QED
  BY <1>1, <1>2, <1>3, <1>4, PubSubAssumption

\* Every step keeps the counters exact and the pass in its discipline.
LEMMA QueueStep ==
  ASSUME QueueInv, [Next]_vars
  PROVE  QueueInv'
<1>1. CASE UNCHANGED <<queue, count, total, pass>> /\ inGame' \subseteq Players
           /\ enabled' \in BOOLEAN /\ live' \subseteq Msgs
  <2>1. Slots' = Slots
    BY <1>1 DEF Slots
  <2>2. QED
    BY <1>1, <2>1 DEF QueueInv, QueueTyped, SizesExact, PassInv, UrgentFirst
<1>2. CASE UNCHANGED vars
  BY <1>1, <1>2 DEF vars, QueueInv, QueueTyped
<1>3. ASSUME NEW w \in Players, Enter(w) \/ Leave(w) PROVE QueueInv'
  BY <1>1, <1>3 DEF Enter, Leave, QueueInv, QueueTyped
<1>4. ASSUME NEW m \in Msgs, NEW p \in Prios, NEW a \in Audiences(inGame),
             pubsub_publish_wilderness_audio(m, p, a) \/ pubsub_publish(m, p, a)
      PROVE  QueueInv'
  <2>1. /\ Queued(m, p, a) /\ pass.mode = "idle" /\ UNCHANGED <<inGame, enabled, pass>>
        /\ live' \subseteq Msgs
    BY <1>4 DEF pubsub_publish_wilderness_audio, pubsub_publish, QueueInv, QueueTyped
  <2>2. /\ queue' \in [Prios -> Seq(Node)]
        /\ count' \in [Prios -> Nat] /\ total' \in Nat
        /\ SizesExact'
    BY <2>1, QueuedSizes DEF QueueInv
  <2>3. QED
    BY <2>1, <2>2 DEF QueueInv, QueueTyped, PassInv, UrgentFirst
<1>5. ASSUME NEW on \in BOOLEAN, SetProcessing(on) PROVE QueueInv'
  BY <1>1, <1>5 DEF SetProcessing, QueueInv, QueueTyped
<1>6. ASSUME NEW mode \in {"batch", "all"}, StartPass(mode) PROVE QueueInv'
  <2>1. PICK x \in SUBSET inGame : pass' = [Idle EXCEPT !.mode = mode, !.writing = x]
    BY <1>6 DEF StartPass
  <2>2. UNCHANGED <<inGame, enabled, live, queue, count, total>>
    BY <1>6 DEF StartPass
  <2>3. /\ pass' \in PassType /\ pass'.done = 0 /\ pass'.here = 0 /\ pass'.pri = Critical
    <3>1. Critical \in Prios /\ x \subseteq Players
      BY PubSubAssumption DEF Prios, Low, QueueInv, QueueTyped
    <3>2. pass' = [Idle EXCEPT !.mode = mode, !.writing = x]
      BY <2>1
    <3>3. Idle \in PassType /\ Idle.done = 0 /\ Idle.here = 0 /\ Idle.pri = Critical
      BY <3>1 DEF Idle, PassType
    <3>4. QED
      BY <3>1, <3>2, <3>3 DEF PassType
  <2>4. PassInv' /\ UrgentFirst'
    BY <2>3, PubSubAssumption DEF PassInv, UrgentFirst, Prios
  <2>5. Slots' = Slots
    BY <2>2 DEF Slots
  <2>6. QED
    BY <2>2, <2>4, <2>5 DEF QueueInv, QueueTyped, SizesExact
<1>7. CASE Take
  <2> DEFINE p == pass.pri
             n == Head(queue[p])
  <2>1. /\ queue[p] # <<>> /\ UNCHANGED <<inGame, enabled>>
        /\ Freed(n, p) \/ (MayRetry(n) /\ Requeued(n, p))
    BY <1>7, TakeCases
  <2>2. p \in Prios /\ QueueTyped /\ SizesExact
    BY DEF QueueInv, PassInv, PassType
  <2>3. live' \subseteq Msgs
    BY <2>1, <2>2 DEF Freed, Requeued, QueueTyped
  <2>4. /\ queue' \in [Prios -> Seq(Node)]
        /\ count' \in [Prios -> Nat] /\ total' \in Nat
        /\ SizesExact'
    <3> HIDE DEF p
    <3>1. CASE Freed(n, p)
      BY <3>1, <2>1, <2>2, FreedSizes
    <3>2. CASE MayRetry(n) /\ Requeued(n, p)
      BY <3>2, <2>1, <2>2, RequeuedSizes
    <3>3. QED
      BY <2>1, <3>1, <3>2
  <2>5. QED
    BY <1>7, <2>1, <2>2, <2>3, <2>4, TakePass DEF QueueInv, QueueTyped
<1>8. CASE NextPriority
  <2>1. UNCHANGED <<inGame, enabled, live, queue, count, total>>
    BY <1>8 DEF NextPriority
  <2>2. Slots' = Slots
    BY <2>1 DEF Slots
  <2>3. QED
    BY <1>8, <2>1, <2>2, NextPriorityPass DEF QueueInv, QueueTyped, SizesExact
<1>9. QED
  BY <1>2, <1>3, <1>4, <1>5, <1>6, <1>7, <1>8 DEF Next

-----------------------------------------------------------------------------
(* The nodes and their messages.                                           *)

\* A node is in some place of some list.
LEMMA NodesAndPlaces ==
  ASSUME NEW lists \in Lists
  PROVE  /\ \A n : n \in NodesIn(lists) <=>
              \E p \in Prios : \E i \in 1 .. Len(lists[p]) : lists[p][i] = n
         /\ NodesIn(lists) \subseteq Node
<1>1. \A p \in Prios : lists[p] \in Seq(Node) /\ DOMAIN lists[p] = 1 .. Len(lists[p])
  BY DEF Lists
<1>2. \A p \in Prios : ToSet(lists[p]) = {lists[p][i] : i \in 1 .. Len(lists[p])}
  BY <1>1 DEF ToSet
<1>3. \A n : n \in NodesIn(lists) <=> \E p \in Prios : n \in ToSet(lists[p])
  BY DEF NodesIn
<1>4. \A n : n \in NodesIn(lists) <=>
        \E p \in Prios : \E i \in 1 .. Len(lists[p]) : lists[p][i] = n
  <2>1. \A p \in Prios : \A n :
          n \in ToSet(lists[p]) <=> \E i \in 1 .. Len(lists[p]) : lists[p][i] = n
    BY <1>2
  <2>2. QED
    BY <1>3, <2>1
<1>5. \A p \in Prios : \A i \in 1 .. Len(lists[p]) : lists[p][i] \in Node
  BY <1>1
<1>6. QED
  BY <1>4, <1>5

\* The first of a list goes.
LEMMA FrontGoes ==
  ASSUME NEW u \in Lists, NEW v \in Lists, NEW p \in Prios, u[p] # <<>>,
         \A q \in Prios \ {p} : v[q] = u[q],
         Len(v[p]) = Len(u[p]) - 1,
         \A i \in 1 .. Len(u[p]) - 1 : v[p][i] = u[p][i + 1]
  PROVE  /\ u[p][1] \in NodesIn(u)
         /\ NodesIn(v) \subseteq NodesIn(u)
         /\ Apart(u) => Apart(v) /\ NodesIn(v) = NodesIn(u) \ {u[p][1]}
<1> DEFINE n == u[p][1]
<1>1. \A q \in Prios : u[q] \in Seq(Node) /\ Len(u[q]) \in Nat /\ v[q] \in Seq(Node) /\ Len(v[q]) \in Nat
  BY DEF Lists
<1>2. Len(u[p]) > 0
  BY <1>1
<1>3. n \in NodesIn(u)
  BY <1>1, <1>2, NodesAndPlaces
\* Where the node in a place of v was before.
<1> DEFINE was(q, i) == IF q = p THEN i + 1 ELSE i
<1>4. \A q \in Prios : \A i \in 1 .. Len(v[q]) :
        /\ was(q, i) \in 1 .. Len(u[q]) /\ v[q][i] = u[q][was(q, i)]
        /\ q = p => was(q, i) # 1
  BY <1>1
<1>5. NodesIn(v) \subseteq NodesIn(u)
  BY <1>4, NodesAndPlaces
<1>6. ASSUME Apart(u) PROVE Apart(v)
  <2>1. \A q \in Prios : \A i, j : i \in Nat /\ j \in Nat /\ was(q, i) = was(q, j) => i = j
    OBVIOUS
  <2> HIDE DEF was
  <2>2. SUFFICES ASSUME NEW q \in Prios, NEW r \in Prios,
                        NEW i \in 1 .. Len(v[q]), NEW j \in 1 .. Len(v[r]),
                        Same(v[q][i], v[r][j])
                 PROVE  q = r /\ i = j
    BY DEF Apart
  <2>3. Same(u[q][was(q, i)], u[r][was(r, j)])
    BY <1>4, <2>2 DEF Same
  <2>4. q = r /\ was(q, i) = was(r, j)
    BY <1>4, <1>6, <2>3 DEF Apart
  <2>5. QED
    BY <2>1, <2>4
<1>7. ASSUME Apart(u) PROVE NodesIn(v) = NodesIn(u) \ {n}
  <2>1. ASSUME NEW x \in NodesIn(v) PROVE x # n
    <3>1. PICK q \in Prios : \E i \in 1 .. Len(v[q]) : v[q][i] = x
      BY NodesAndPlaces
    <3>2. PICK i \in 1 .. Len(v[q]) : v[q][i] = x
      BY <3>1
    <3>3. was(q, i) \in 1 .. Len(u[q]) /\ x = u[q][was(q, i)] /\ (q = p => was(q, i) # 1)
      BY <1>4, <3>2
    <3>4. x = n => Same(u[q][was(q, i)], u[p][1])
      BY <3>3 DEF Same
    <3>5. 1 \in 1 .. Len(u[p])
      BY <1>1, <1>2
    <3> HIDE DEF was
    <3>6. QED
      BY <1>7, <3>3, <3>4, <3>5 DEF Apart
  <2>2. ASSUME NEW x \in NodesIn(u), x # n PROVE x \in NodesIn(v)
    <3>1. PICK q \in Prios : \E i \in 1 .. Len(u[q]) : u[q][i] = x
      BY NodesAndPlaces
    <3>2. PICK i \in 1 .. Len(u[q]) : u[q][i] = x
      BY <3>1
    <3>3. CASE q # p
      BY <3>2, <3>3, NodesAndPlaces
    <3>4. CASE q = p
      <4>1. i - 1 \in 1 .. Len(v[p]) /\ v[p][i - 1] = x
        BY <3>2, <3>4, <2>2, <1>1
      <4>2. QED
        BY <4>1, NodesAndPlaces
    <3>5. QED
      BY <3>3, <3>4
  <2>3. QED
    BY <1>5, <2>1, <2>2
<1>8. QED
  BY <1>3, <1>5, <1>6, <1>7

\* The first of a list goes to its end, a try older.
LEMMA FrontMoves ==
  ASSUME NEW u \in Lists, NEW v \in Lists, NEW p \in Prios, u[p] # <<>>,
         \A q \in Prios \ {p} : v[q] = u[q],
         Len(v[p]) = Len(u[p]),
         \A i \in 1 .. Len(u[p]) - 1 : v[p][i] = u[p][i + 1],
         Same(v[p][Len(u[p])], u[p][1])
  PROVE  LET n == u[p][1]
             r == v[p][Len(u[p])] IN
         /\ n \in NodesIn(u) /\ r \in NodesIn(v)
         /\ NodesIn(v) \subseteq NodesIn(u) \cup {r}
         /\ Apart(u) => /\ Apart(v)
                        /\ NodesIn(v) = (NodesIn(u) \ {n}) \cup {r}
                        /\ r \notin NodesIn(u) \ {n}
<1> DEFINE n == u[p][1]
           l == Len(u[p])
           r == v[p][l]
<1>1. \A q \in Prios : u[q] \in Seq(Node) /\ Len(u[q]) \in Nat /\ v[q] \in Seq(Node) /\ Len(v[q]) \in Nat
  BY DEF Lists
<1>2. l > 0 /\ l \in Nat
  BY <1>1
<1>3. n \in NodesIn(u) /\ r \in NodesIn(v)
  BY <1>1, <1>2, NodesAndPlaces
<1> DEFINE was(q, i) == IF q = p THEN (IF i = l THEN 1 ELSE i + 1) ELSE i
<1>4. \A q \in Prios : \A i \in 1 .. Len(v[q]) :
        /\ was(q, i) \in 1 .. Len(u[q])
        /\ Same(v[q][i], u[q][was(q, i)])
        /\ (q = p /\ i = l) \/ (v[q][i] = u[q][was(q, i)] /\ (q = p => was(q, i) # 1))
  BY <1>1, <1>2 DEF Same
<1>5. NodesIn(v) \subseteq NodesIn(u) \cup {r}
  BY <1>4, NodesAndPlaces
<1>6. ASSUME Apart(u) PROVE Apart(v)
  <2>1. \A q \in Prios : \A i, j \in 1 .. Len(v[q]) : was(q, i) = was(q, j) => i = j
    BY <1>1, <1>2
  <2> HIDE DEF was
  <2>2. SUFFICES ASSUME NEW q \in Prios, NEW t \in Prios,
                        NEW i \in 1 .. Len(v[q]), NEW j \in 1 .. Len(v[t]),
                        Same(v[q][i], v[t][j])
                 PROVE  q = t /\ i = j
    BY DEF Apart
  <2>3. Same(u[q][was(q, i)], u[t][was(t, j)])
    BY <1>4, <2>2 DEF Same
  <2>4. q = t /\ was(q, i) = was(t, j)
    BY <1>4, <1>6, <2>3 DEF Apart
  <2>5. QED
    BY <2>1, <2>4
<1>7. ASSUME Apart(u) PROVE \A x \in NodesIn(u) : Same(x, n) => x = n
  <2>1. 1 \in 1 .. Len(u[p])
    BY <1>1, <1>2
  <2>2. QED
    BY <1>7, <2>1, NodesAndPlaces DEF Apart
<1>8. ASSUME Apart(u) PROVE NodesIn(v) \subseteq (NodesIn(u) \ {n}) \cup {r}
  <2>1. SUFFICES ASSUME NEW x \in NodesIn(v), x # r PROVE x \in NodesIn(u) /\ x # n
    OBVIOUS
  <2>2. PICK q \in Prios : \E i \in 1 .. Len(v[q]) : v[q][i] = x
    BY NodesAndPlaces
  <2>3. PICK i \in 1 .. Len(v[q]) : v[q][i] = x
    BY <2>2
  <2>4. was(q, i) \in 1 .. Len(u[q]) /\ x = u[q][was(q, i)] /\ (q = p => was(q, i) # 1)
    BY <1>4, <2>1, <2>3
  <2>5. x = n => Same(u[q][was(q, i)], u[p][1])
    BY <2>4 DEF Same
  <2>6. 1 \in 1 .. Len(u[p])
    BY <1>1, <1>2
  <2> HIDE DEF was
  <2>7. x # n
    BY <1>8, <2>4, <2>5, <2>6 DEF Apart
  <2>8. QED
    BY <1>5, <2>1, <2>7
<1>9. NodesIn(u) \ {n} \subseteq NodesIn(v)
  <2>1. SUFFICES ASSUME NEW x \in NodesIn(u), x # n PROVE x \in NodesIn(v)
    OBVIOUS
  <2>2. PICK q \in Prios : \E i \in 1 .. Len(u[q]) : u[q][i] = x
    BY NodesAndPlaces
  <2>3. PICK i \in 1 .. Len(u[q]) : u[q][i] = x
    BY <2>2
  <2>4. CASE q # p
    BY <2>3, <2>4, NodesAndPlaces
  <2>5. CASE q = p
    <3>1. i - 1 \in 1 .. Len(v[p]) /\ v[p][i - 1] = x
      BY <2>1, <2>3, <2>5, <1>1
    <3>2. QED
      BY <3>1, NodesAndPlaces
  <2>6. QED
    BY <2>4, <2>5
<1> HIDE DEF n, r
<1>10. ASSUME Apart(u) PROVE r \notin NodesIn(u) \ {n}
  BY <1>7, <1>10 DEF r, l, n
<1>11. QED
  BY <1>3, <1>5, <1>6, <1>8, <1>9, <1>10 DEF n, r, l

\* The nodes pubsub_queue_message makes.
FreshNodes(m, a) == {Fresh(m, a)[i] : i \in 1 .. Len(Accepted(a))}

\* They are of the message and of players in the game, one for each who is accepted.
LEMMA FreshCounted ==
  ASSUME QueueTyped, total <= MaxSize, NEW m, NEW a \in Audiences(inGame)
  PROVE  /\ IsFiniteSet(FreshNodes(m, a))
         /\ Cardinality(FreshNodes(m, a)) = Len(Accepted(a))
         /\ \A n \in FreshNodes(m, a) : n.msg = m /\ n.who \in inGame
<1> DEFINE k == Len(Accepted(a))
           f == Fresh(m, a)
           T == FreshNodes(m, a)
<1>1. /\ Accepted(a) \in Seq(inGame) /\ k \in Nat
      /\ \A i, j \in 1 .. k : Accepted(a)[i] = Accepted(a)[j] => i = j
  BY AcceptedFit
<1>2. \A i \in 1 .. k : f[i] = [msg |-> m, who |-> Accepted(a)[i], tries |-> 0]
  BY DEF Fresh
<1>3. T = {f[i] : i \in 1 .. k} /\ DOMAIN f = 1 .. k /\ f = [i \in 1 .. k |-> f[i]]
  BY DEF FreshNodes, Fresh
<1>4. \A i \in 1 .. k : Accepted(a)[i] \in inGame
  BY <1>1
<1>5. \A n \in T : n.msg = m /\ n.who \in inGame
  BY <1>2, <1>3, <1>4
<1>6. ASSUME NEW i \in 1 .. k PROVE f[i].who = Accepted(a)[i]
  <2>1. f[i] = [msg |-> m, who |-> Accepted(a)[i], tries |-> 0]
    BY <1>2
  <2> HIDE DEF f
  <2>2. QED
    BY <2>1
<1> HIDE DEF f, T, k
<1>7. \A i, j \in 1 .. k : f[i] = f[j] => i = j
  BY <1>1, <1>6
<1>8. f \in Bijection(1 .. k, T)
  BY <1>3, <1>7 DEF Bijection, Injection, Surjection, IsInjective
<1>9. ExistsBijection(1 .. k, T)
  BY <1>8 DEF ExistsBijection
<1>10. IsFiniteSet(T) /\ Cardinality(T) = k
  BY <1>1, <1>9, FS_CountingElements, FS_NatBijection
<1>11. QED
  BY <1>5, <1>10 DEF T, k

\* Queueing adds them, and of a message nobody holds no node is there twice.
LEMMA QueuedNodes ==
  ASSUME QueueTyped, total <= MaxSize, NEW m \in Msgs, NEW p \in Prios,
         NEW a \in Audiences(inGame), Queued(m, p, a)
  PROVE  /\ Nodes' = Nodes \cup FreshNodes(m, a)
         /\ Apart(queue) /\ (\A n \in Nodes : n.msg # m) => Apart(queue')
<1> DEFINE k == Len(Accepted(a))
           l == Len(queue[p])
<1>1. /\ k \in Nat /\ queue' \in Lists
      /\ \A q \in Prios \ {p} : queue'[q] = queue[q]
      /\ Len(queue'[p]) = l + k
      /\ \A i \in 1 .. l : queue'[p][i] = queue[p][i]
      /\ \A i \in l + 1 .. l + k :
           queue'[p][i] = [msg |-> m, who |-> Accepted(a)[i - l], tries |-> 0]
  BY QueuedLists DEF Lists
<1>2. queue \in Lists /\ l \in Nat
  BY DEF QueueTyped, Lists
<1>3. Nodes = NodesIn(queue) /\ Nodes' = NodesIn(queue')
  BY DEF Nodes, NodesIn
<1>4. \A i \in l + 1 .. l + k : i - l \in 1 .. k
  BY <1>1, <1>2
<1>5. \A i \in l + 1 .. l + k : queue'[p][i] = Fresh(m, a)[i - l]
  BY <1>1, <1>4 DEF Fresh
<1>6. Nodes' \subseteq Nodes \cup FreshNodes(m, a)
  <2>1. SUFFICES ASSUME NEW n \in NodesIn(queue') PROVE n \in NodesIn(queue) \cup FreshNodes(m, a)
    BY <1>3
  <2>2. PICK q \in Prios : \E i \in 1 .. Len(queue'[q]) : queue'[q][i] = n
    BY <1>1, NodesAndPlaces
  <2>3. PICK i \in 1 .. Len(queue'[q]) : queue'[q][i] = n
    BY <2>2
  <2>4. CASE q # p
    BY <1>1, <1>2, <2>3, <2>4, NodesAndPlaces
  <2>5. CASE q = p /\ i <= l
    <3>1. i \in 1 .. l /\ queue[p][i] = n
      BY <1>1, <1>2, <2>3, <2>5
    <3>2. QED
      BY <1>2, <3>1, NodesAndPlaces
  <2>6. CASE q = p /\ i > l
    <3>1. i \in l + 1 .. l + k
      BY <1>1, <1>2, <2>3, <2>6
    <3>2. n = Fresh(m, a)[i - l] /\ i - l \in 1 .. k
      BY <1>4, <1>5, <2>3, <2>6, <3>1
    <3>3. QED
      BY <3>2 DEF FreshNodes
  <2>7. QED
    BY <1>1, <1>2, <2>4, <2>5, <2>6
<1>7. Nodes \subseteq Nodes'
  <2>1. SUFFICES ASSUME NEW n \in NodesIn(queue) PROVE n \in NodesIn(queue')
    BY <1>3
  <2>2. PICK q \in Prios : \E i \in 1 .. Len(queue[q]) : queue[q][i] = n
    BY <1>2, NodesAndPlaces
  <2>3. PICK i \in 1 .. Len(queue[q]) : queue[q][i] = n
    BY <2>2
  <2>4. i \in 1 .. Len(queue'[q]) /\ queue'[q][i] = n
    BY <1>1, <1>2, <2>3
  <2>5. QED
    BY <1>1, <2>4, NodesAndPlaces
<1>8. FreshNodes(m, a) \subseteq Nodes'
  <2>1. SUFFICES ASSUME NEW i \in 1 .. k PROVE Fresh(m, a)[i] \in NodesIn(queue')
    BY <1>3 DEF FreshNodes
  <2>2. l + i \in l + 1 .. l + k /\ (l + i) - l = i /\ l + i \in 1 .. Len(queue'[p])
    BY <1>1, <1>2
  <2>3. queue'[p][l + i] = Fresh(m, a)[i]
    BY <1>5, <2>2
  <2>4. QED
    BY <1>1, <2>2, <2>3, NodesAndPlaces
<1>9. ASSUME Apart(queue), \A n \in Nodes : n.msg # m PROVE Apart(queue')
  <2> DEFINE new(q, i) == q = p /\ i > l
  <2>1. SUFFICES ASSUME NEW q \in Prios, NEW r \in Prios,
                        NEW i \in 1 .. Len(queue'[q]), NEW j \in 1 .. Len(queue'[r]),
                        Same(queue'[q][i], queue'[r][j])
                 PROVE  q = r /\ i = j
    BY DEF Apart
  <2>2. \A t \in Prios : \A h \in 1 .. Len(queue'[t]) :
          \/ ~new(t, h) /\ h \in 1 .. Len(queue[t]) /\ queue'[t][h] = queue[t][h]
          \/ /\ new(t, h) /\ h \in l + 1 .. l + k
             /\ queue'[t][h].msg = m /\ queue'[t][h].who = Accepted(a)[h - l]
    <3>1. SUFFICES ASSUME NEW t \in Prios, NEW h \in 1 .. Len(queue'[t])
                   PROVE  \/ ~new(t, h) /\ h \in 1 .. Len(queue[t]) /\ queue'[t][h] = queue[t][h]
                          \/ /\ new(t, h) /\ h \in l + 1 .. l + k
                             /\ queue'[t][h].msg = m /\ queue'[t][h].who = Accepted(a)[h - l]
      OBVIOUS
    <3>2. CASE t # p
      BY <1>1, <3>2
    <3>3. CASE t = p /\ h \in 1 .. l
      BY <1>1, <1>2, <3>3
    <3>4. CASE t = p /\ h \in l + 1 .. l + k
      <4>1. queue'[t][h] = [msg |-> m, who |-> Accepted(a)[h - l], tries |-> 0]
        BY <1>1, <3>4
      <4>2. new(t, h)
        BY <1>1, <1>2, <3>4
      <4>3. QED
        BY <3>4, <4>1, <4>2
    <3>5. QED
      BY <1>1, <1>2, <3>2, <3>3, <3>4
  <2>3. \A t \in Prios : \A h \in 1 .. Len(queue[t]) : queue[t][h].msg # m
    BY <1>2, <1>3, <1>9, NodesAndPlaces
  <2> HIDE DEF new
  <2>4. \A t \in Prios : \A h \in 1 .. Len(queue'[t]) : new(t, h) => queue'[t][h].msg = m
    BY <2>2
  <2>5. \A t \in Prios : \A h \in 1 .. Len(queue'[t]) : ~new(t, h) => queue'[t][h].msg # m
    BY <2>2, <2>3
  <2>6. new(q, i) <=> new(r, j)
    BY <2>1, <2>4, <2>5 DEF Same
  <2>7. CASE ~new(q, i)
    <3>1. /\ i \in 1 .. Len(queue[q]) /\ j \in 1 .. Len(queue[r])
          /\ queue'[q][i] = queue[q][i] /\ queue'[r][j] = queue[r][j]
      BY <2>2, <2>6, <2>7
    <3>2. Same(queue[q][i], queue[r][j])
      BY <2>1, <3>1
    <3>3. QED
      BY <1>9, <3>1, <3>2 DEF Apart
  <2>8. CASE new(q, i)
    <3>1. /\ i \in l + 1 .. l + k /\ queue'[q][i].who = Accepted(a)[i - l]
          /\ j \in l + 1 .. l + k /\ queue'[r][j].who = Accepted(a)[j - l]
      BY <2>2, <2>6, <2>8
    <3>2. q = r
      BY <2>6, <2>8 DEF new
    <3>3. Accepted(a)[i - l] = Accepted(a)[j - l]
      BY <2>1, <3>1 DEF Same
    <3>4. i - l \in 1 .. k /\ j - l \in 1 .. k
      BY <1>4, <3>1
    <3>5. i - l = j - l
      BY <3>3, <3>4, AcceptedFit
    <3>6. QED
      BY <1>2, <3>1, <3>2, <3>5
  <2>9. QED
    BY <2>7, <2>8
<1>10. QED
  BY <1>6, <1>7, <1>8, <1>9

\* The node that is delivered or given up goes, and its message with the last.
LEMMA FreedNodes ==
  ASSUME QueueTyped, NEW p \in Prios, queue[p] # <<>>, Freed(Head(queue[p]), p)
  PROVE  LET n == Head(queue[p]) IN
         /\ Nodes' \subseteq Nodes
         /\ MessagesInv => MessagesInv'
         /\ MessagesInv /\ NothingLeaks => NothingLeaks'
<1>1. PICK n : n = Head(queue[p])
  OBVIOUS
<1>2. n = queue[p][1] /\ queue \in Lists
  BY <1>1 DEF QueueTyped, Lists
<1>3. /\ queue' \in Lists
      /\ \A q \in Prios \ {p} : queue'[q] = queue[q]
      /\ Len(queue'[p]) = Len(queue[p]) - 1
      /\ \A i \in 1 .. Len(queue[p]) - 1 : queue'[p][i] = queue[p][i + 1]
  BY FreedLists DEF Lists
<1>4. /\ n \in NodesIn(queue)
      /\ NodesIn(queue') \subseteq NodesIn(queue)
      /\ Apart(queue) => Apart(queue') /\ NodesIn(queue') = NodesIn(queue) \ {n}
  BY <1>2, <1>3, FrontGoes
<1>5. Nodes = NodesIn(queue) /\ Nodes' = NodesIn(queue')
  BY DEF Nodes, NodesIn
<1>6. /\ refs' = [refs EXCEPT ![n.msg] = @ - 1]
      /\ live' = IF refs[n.msg] <= 1 THEN live \ {n.msg} ELSE live
  BY <1>1 DEF Freed
<1>7. n \in Node
  BY <1>2, <1>4, NodesAndPlaces
<1>8. ASSUME MessagesInv PROVE MessagesInv' /\ (NothingLeaks => NothingLeaks')
  <2> DEFINE m == n.msg
  <2>1. Apart(queue') /\ Nodes' = Nodes \ {n} /\ n \in Nodes
    BY <1>4, <1>5, <1>8 DEF MessagesInv
  <2>2. /\ m \in Msgs /\ m \in live
        /\ IsFiniteSet(NodesOf(m)) /\ refs[m] = Cardinality(NodesOf(m)) /\ refs[m] \in Nat
    BY <1>7, <1>8, <2>1 DEF MessagesInv, RefsExact, Node
  <2>3. n \in NodesOf(m) /\ NodesOf(m)' = NodesOf(m) \ {n}
    BY <2>1 DEF NodesOf
  <2>4. \A o : o # m => NodesOf(o)' = NodesOf(o)
    BY <2>1 DEF NodesOf
  <2> HIDE DEF m
  <2>5. IsFiniteSet(NodesOf(m)') /\ Cardinality(NodesOf(m)') = refs[m] - 1
    BY <2>2, <2>3, FS_RemoveElement
  <2>6. refs[m] >= 1 /\ refs[m] - 1 \in Nat
    BY <2>2, <2>5, FS_CardinalityType
  <2>7. refs[m] = 1 => NodesOf(m)' = {}
    BY <2>5, FS_EmptySet
  <2>8. refs[m] > 1 => NodesOf(m)' # {}
    BY <2>2, <2>5, FS_EmptySet
  <2>9. /\ refs' \in [Msgs -> Nat] /\ refs'[m] = refs[m] - 1
        /\ \A o \in Msgs : o # m => refs'[o] = refs[o]
    BY <1>6, <1>8, <2>2, <2>6 DEF MessagesInv, RefsExact, m
  <2>10. live' = IF refs[m] <= 1 THEN live \ {m} ELSE live
    BY <1>6 DEF m
  <2>11. ASSUME NEW o \in live', o # m
         PROVE  o \in live /\ IsFiniteSet(NodesOf(o)') /\ refs'[o] = Cardinality(NodesOf(o)')
    <3>1. o \in live /\ o \in Msgs
      BY <1>8, <2>10, <2>11 DEF QueueTyped
    <3>2. QED
      BY <1>8, <2>4, <2>9, <2>11, <3>1 DEF MessagesInv, RefsExact
  <2>12. \A x \in Nodes' : x.msg \in live'
    <3>1. SUFFICES ASSUME NEW x \in Nodes' PROVE x.msg \in live'
      OBVIOUS
    <3>2. x.msg \in live
      BY <1>8, <2>1, <3>1 DEF MessagesInv, RefsExact
    <3>3. x.msg = m => x \in NodesOf(m)'
      BY <3>1 DEF NodesOf
    <3>4. QED
      BY <2>2, <2>6, <2>7, <2>10, <3>2, <3>3
  <2>13. MessagesInv'
    BY <2>1, <2>5, <2>9, <2>11, <2>12 DEF MessagesInv, RefsExact
  <2>14. ASSUME NothingLeaks PROVE NothingLeaks'
    <3>1. SUFFICES ASSUME NEW o \in live' PROVE \E x \in Nodes' : x.msg = o
      BY DEF NothingLeaks
    <3>2. CASE o = m
      <4>1. NodesOf(m)' # {}
        BY <2>2, <2>8, <2>10, <3>1, <3>2
      <4>2. QED
        BY <3>2, <4>1 DEF NodesOf
    <3>3. CASE o # m
      <4>1. PICK x \in Nodes : x.msg = o
        BY <2>11, <2>14, <3>1, <3>3 DEF NothingLeaks
      <4>2. x # n
        BY <3>3, <4>1 DEF m
      <4>3. QED
        BY <2>1, <4>1, <4>2
    <3>4. QED
      BY <3>2, <3>3
  <2>15. QED
    BY <2>13, <2>14
<1>9. QED
  BY <1>1, <1>4, <1>5, <1>8

\* The node that is put back takes the place of the one that was tried.
LEMMA RequeuedNodes ==
  ASSUME QueueTyped, NEW p \in Prios, queue[p] # <<>>, MayRetry(Head(queue[p])),
         Requeued(Head(queue[p]), p)
  PROVE  /\ \A x \in Nodes' : \E y \in Nodes : Same(x, y)
         /\ MessagesInv => MessagesInv'
         /\ MessagesInv /\ NothingLeaks => NothingLeaks'
<1> DEFINE n == queue[p][1]
           r == queue'[p][Len(queue[p])]
<1>1. n = Head(queue[p]) /\ queue \in Lists
  BY DEF QueueTyped, Lists
<1>2. /\ queue' \in Lists
      /\ \A q \in Prios \ {p} : queue'[q] = queue[q]
      /\ Len(queue'[p]) = Len(queue[p])
      /\ \A i \in 1 .. Len(queue[p]) - 1 : queue'[p][i] = queue[p][i + 1]
      /\ r = Retried(n)
  BY RequeuedLists DEF Lists
<1>3. n \in Node
  BY DEF QueueTyped
<1>4. MayRetry(n)
  BY <1>1
<1>5. Same(r, n)
  BY <1>2, <1>3, <1>4, RetriedIsNode DEF Same
<1>6. /\ n \in NodesIn(queue) /\ r \in NodesIn(queue')
      /\ NodesIn(queue') \subseteq NodesIn(queue) \cup {r}
      /\ Apart(queue) => /\ Apart(queue')
                         /\ NodesIn(queue') = (NodesIn(queue) \ {n}) \cup {r}
                         /\ r \notin NodesIn(queue) \ {n}
  BY <1>1, <1>2, <1>5, FrontMoves
<1>7. Nodes = NodesIn(queue) /\ Nodes' = NodesIn(queue')
  BY DEF Nodes, NodesIn
<1>8. UNCHANGED <<live, refs>>
  BY DEF Requeued
<1> HIDE DEF n, r
<1>9. \A x \in Nodes' : \E y \in Nodes : Same(x, y)
  BY <1>5, <1>6, <1>7 DEF Same
<1>10. ASSUME MessagesInv PROVE MessagesInv' /\ (NothingLeaks => NothingLeaks')
  <2>1. /\ Apart(queue') /\ n \in Nodes /\ r \in Nodes'
        /\ Nodes' = (Nodes \ {n}) \cup {r} /\ r \notin Nodes \ {n}
    BY <1>6, <1>7, <1>10 DEF MessagesInv
  <2>2. r.msg = n.msg
    BY <1>5 DEF Same
  <2>3. ASSUME NEW o \in live
        PROVE  IsFiniteSet(NodesOf(o)') /\ Cardinality(NodesOf(o)') = Cardinality(NodesOf(o))
    <3>1. IsFiniteSet(NodesOf(o))
      BY <1>10 DEF MessagesInv, RefsExact
    <3>2. CASE o # n.msg
      <4>1. NodesOf(o)' = NodesOf(o)
        BY <2>1, <2>2, <3>2 DEF NodesOf
      <4>2. QED
        BY <3>1, <4>1
    <3>3. CASE o = n.msg
      <4> DEFINE T == NodesOf(o) \ {n}
      <4>1. NodesOf(o)' = T \cup {r} /\ n \in NodesOf(o) /\ r \notin T
        BY <2>1, <2>2, <3>3 DEF NodesOf
      <4>2. IsFiniteSet(T) /\ Cardinality(T) = Cardinality(NodesOf(o)) - 1
        BY <3>1, <4>1, FS_RemoveElement
      <4> HIDE DEF T
      <4>3. IsFiniteSet(T \cup {r}) /\ Cardinality(T \cup {r}) = Cardinality(T) + 1
        BY <4>1, <4>2, FS_AddElement
      <4>4. Cardinality(T) \in Nat /\ Cardinality(NodesOf(o)) \in Nat
        BY <3>1, <4>2, FS_CardinalityType
      <4>5. QED
        BY <4>1, <4>2, <4>3, <4>4
    <3>4. QED
      BY <3>2, <3>3
  <2>4. \A x \in Nodes' : x.msg \in live
    BY <1>10, <2>1, <2>2 DEF MessagesInv, RefsExact
  <2>5. MessagesInv'
    BY <1>8, <1>10, <2>1, <2>3, <2>4 DEF MessagesInv, RefsExact
  <2>6. NothingLeaks => NothingLeaks'
    BY <1>8, <2>1, <2>2 DEF NothingLeaks
  <2>7. QED
    BY <2>5, <2>6
<1>11. QED
  BY <1>9, <1>10

\* Nothing that the nodes, the messages and the players depend on changes.
LEMMA NodesStay ==
  ASSUME UNCHANGED queue
  PROVE  /\ Nodes' = Nodes /\ \A m : NodesOf(m)' = NodesOf(m)
         /\ UNCHANGED <<live, refs>> => /\ MessagesInv => MessagesInv'
                                        /\ NothingLeaks => NothingLeaks'
<1>1. Nodes' = Nodes
  BY DEF Nodes
<1>2. \A m : NodesOf(m)' = NodesOf(m)
  BY <1>1 DEF NodesOf
<1>3. ASSUME UNCHANGED <<live, refs>>, MessagesInv PROVE MessagesInv'
  <2>1. RefsExact'
    BY <1>1, <1>2, <1>3 DEF MessagesInv, RefsExact
  <2>2. QED
    BY <1>3, <2>1 DEF MessagesInv, Apart
<1>4. ASSUME UNCHANGED <<live, refs>>, NothingLeaks PROVE NothingLeaks'
  BY <1>1, <1>4 DEF NothingLeaks
<1>5. QED
  BY <1>1, <1>2, <1>3, <1>4

\* The nodes of a message that is queued are counted; no other message is touched.
LEMMA QueuedMessages ==
  ASSUME QueueTyped, total <= MaxSize, MessagesInv, NEW m \in Msgs, m \notin live,
         NEW p \in Prios, NEW a \in Audiences(inGame), Queued(m, p, a)
  PROVE  /\ live' = live \cup {m} => MessagesInv'
         /\ UNCHANGED live /\ Len(Accepted(a)) = 0 => MessagesInv' /\ Nodes' = Nodes
         /\ Len(Accepted(a)) > 0 => NodesOf(m)' # {}
<1> DEFINE F == FreshNodes(m, a)
           k == Len(Accepted(a))
<1>1. \A n \in Nodes : n.msg # m
  BY DEF MessagesInv, RefsExact
<1>2. Apart(queue') /\ Nodes' = Nodes \cup F
  BY <1>1, QueuedNodes DEF MessagesInv
<1>3. /\ IsFiniteSet(F) /\ Cardinality(F) = k
      /\ \A n \in F : n.msg = m
  BY FreshCounted
<1>4. k \in Nat
  BY AcceptedFit
<1>5. refs' = [refs EXCEPT ![m] = k]
  BY DEF Queued
<1> HIDE DEF F, k
<1>6. NodesOf(m)' = F /\ \A o : o # m => NodesOf(o)' = NodesOf(o)
  BY <1>1, <1>2, <1>3 DEF NodesOf
<1>7. /\ refs' \in [Msgs -> Nat] /\ refs'[m] = k
      /\ \A o \in Msgs : o # m => refs'[o] = refs[o]
  BY <1>4, <1>5 DEF MessagesInv, RefsExact
<1>8. \A o \in live : o \in Msgs /\ o # m
  BY DEF QueueTyped
<1>9. \A o \in live : IsFiniteSet(NodesOf(o)') /\ refs'[o] = Cardinality(NodesOf(o)')
  BY <1>6, <1>7, <1>8 DEF MessagesInv, RefsExact
<1>10. \A n \in Nodes : n.msg \in live
  BY DEF MessagesInv, RefsExact
<1>11. ASSUME live' = live \cup {m} PROVE MessagesInv'
  <2>1. \A n \in Nodes' : n.msg \in live'
    BY <1>2, <1>3, <1>10, <1>11
  <2>2. \A o \in live' : IsFiniteSet(NodesOf(o)') /\ refs'[o] = Cardinality(NodesOf(o)')
    BY <1>3, <1>6, <1>7, <1>9, <1>11
  <2>3. QED
    BY <1>2, <1>7, <2>1, <2>2 DEF MessagesInv, RefsExact
<1>12. ASSUME UNCHANGED live, k = 0 PROVE MessagesInv' /\ Nodes' = Nodes
  <2>1. F = {}
    BY <1>3, <1>12, FS_EmptySet
  <2>2. Nodes' = Nodes
    BY <1>2, <2>1
  <2>3. RefsExact'
    BY <1>7, <1>9, <1>10, <1>12, <2>2 DEF RefsExact
  <2>4. QED
    BY <1>2, <2>2, <2>3 DEF MessagesInv
<1>13. k > 0 => NodesOf(m)' # {}
  BY <1>3, <1>6, FS_EmptySet
<1>14. QED
  BY <1>11, <1>12, <1>13 DEF k

\* The reference counts stay exact where pubsub_publish finds no subscriber, and
\* nothing is left allocated for ever where somebody hears every audio message.
LEMMA MessagesStep ==
  ASSUME "publish" \notin Risks, QueueInv, MessagesInv, [Next]_vars
  PROVE  /\ MessagesInv'
         /\ "unheard" \notin Risks /\ NothingLeaks => NothingLeaks'
<1>1. CASE UNCHANGED <<queue, live, refs>>
  BY <1>1, NodesStay
<1>2. CASE UNCHANGED vars
  BY <1>1, <1>2 DEF vars
<1>3. ASSUME NEW w \in Players, Enter(w) \/ Leave(w)
      PROVE  UNCHANGED <<queue, live, refs>>
  BY <1>3 DEF Enter, Leave
<1>4. QueueTyped /\ total <= MaxSize
  BY DEF QueueInv, SizesExact
<1>5. ASSUME NEW m \in Msgs, NEW p \in Prios, NEW a \in Audiences(inGame),
             pubsub_publish_wilderness_audio(m, p, a)
      PROVE  MessagesInv' /\ ("unheard" \notin Risks /\ NothingLeaks => NothingLeaks')
  <2>1. /\ Queued(m, p, a) /\ m \notin live /\ live' = live \cup {m}
        /\ "unheard" \notin Risks => Len(Accepted(a)) # 0
    BY <1>5 DEF pubsub_publish_wilderness_audio
  <2>2. MessagesInv' /\ (Len(Accepted(a)) > 0 => NodesOf(m)' # {})
    BY <1>4, <2>1, QueuedMessages
  <2>3. Nodes \subseteq Nodes'
    BY <1>4, <2>1, QueuedNodes
  <2>4. Len(Accepted(a)) \in Nat
    BY <1>4, AcceptedFit
  <2>5. "unheard" \notin Risks => \E n \in Nodes' : n.msg = m
    BY <2>1, <2>2, <2>4 DEF NodesOf
  <2>6. QED
    BY <2>1, <2>2, <2>3, <2>5 DEF NothingLeaks
<1>6. ASSUME NEW m \in Msgs, NEW p \in Prios, NEW a \in Audiences(inGame),
             pubsub_publish(m, p, a)
      PROVE  MessagesInv' /\ (NothingLeaks => NothingLeaks')
  <2>1. /\ Queued(m, p, a) /\ m \notin live /\ UNCHANGED live
        /\ ~(Len(Accepted(a)) > 0)
    BY <1>6 DEF pubsub_publish
  <2>2. Len(Accepted(a)) \in Nat
    BY <1>4, AcceptedFit
  <2>3. MessagesInv' /\ Nodes' = Nodes
    BY <1>4, <2>1, <2>2, QueuedMessages
  <2>4. QED
    BY <2>1, <2>3 DEF NothingLeaks
<1>7. ASSUME NEW on \in BOOLEAN, SetProcessing(on) PROVE UNCHANGED <<queue, live, refs>>
  BY <1>7 DEF SetProcessing
<1>8. ASSUME NEW mode \in {"batch", "all"}, StartPass(mode) PROVE UNCHANGED <<queue, live, refs>>
  BY <1>8 DEF StartPass
<1>9. CASE Take
  <2> DEFINE p == pass.pri
  <2>1. /\ queue[p] # <<>>
        /\ Freed(Head(queue[p]), p) \/ (MayRetry(Head(queue[p])) /\ Requeued(Head(queue[p]), p))
    BY <1>9, TakeCases
  <2>2. p \in Prios
    BY DEF QueueInv, PassInv, PassType
  <2> HIDE DEF p
  <2>3. CASE Freed(Head(queue[p]), p)
    BY <1>4, <2>1, <2>2, <2>3, FreedNodes
  <2>4. CASE MayRetry(Head(queue[p])) /\ Requeued(Head(queue[p]), p)
    BY <1>4, <2>1, <2>2, <2>4, RequeuedNodes
  <2>5. QED
    BY <2>1, <2>3, <2>4
<1>10. CASE NextPriority
  BY <1>1, <1>10 DEF NextPriority
<1>11. QED
  BY <1>1, <1>2, <1>3, <1>5, <1>6, <1>7, <1>8, <1>9, <1>10 DEF Next

\* The nodes are of players in the game where nobody leaves who has one.
LEMMA PlayersStep ==
  ASSUME "leave" \notin Risks, QueueInv, PlayersInv, [Next]_vars
  PROVE  PlayersInv'
<1>1. CASE UNCHANGED <<queue, inGame>>
  BY <1>1, NodesStay DEF PlayersInv
<1>2. CASE UNCHANGED vars
  BY <1>1, <1>2 DEF vars
<1>3. ASSUME NEW w \in Players, Enter(w) PROVE PlayersInv'
  BY <1>3, NodesStay DEF Enter, PlayersInv
<1>4. ASSUME NEW w \in Players, Leave(w) PROVE PlayersInv'
  BY <1>4, NodesStay DEF Leave, PlayersInv
<1>5. QueueTyped /\ total <= MaxSize
  BY DEF QueueInv, SizesExact
<1>6. ASSUME NEW m \in Msgs, NEW p \in Prios, NEW a \in Audiences(inGame),
             pubsub_publish_wilderness_audio(m, p, a) \/ pubsub_publish(m, p, a)
      PROVE  PlayersInv'
  <2>1. Queued(m, p, a) /\ UNCHANGED inGame
    BY <1>6 DEF pubsub_publish_wilderness_audio, pubsub_publish
  <2>2. Nodes' = Nodes \cup FreshNodes(m, a)
    BY <1>5, <2>1, QueuedNodes
  <2>3. \A n \in FreshNodes(m, a) : n.who \in inGame
    BY <1>5, FreshCounted
  <2>4. QED
    BY <2>1, <2>2, <2>3 DEF PlayersInv
<1>7. ASSUME NEW on \in BOOLEAN, SetProcessing(on) PROVE UNCHANGED <<queue, inGame>>
  BY <1>7 DEF SetProcessing
<1>8. ASSUME NEW mode \in {"batch", "all"}, StartPass(mode) PROVE UNCHANGED <<queue, inGame>>
  BY <1>8 DEF StartPass
<1>9. CASE Take
  <2> DEFINE p == pass.pri
  <2>1. /\ queue[p] # <<>> /\ UNCHANGED inGame
        /\ Freed(Head(queue[p]), p) \/ (MayRetry(Head(queue[p])) /\ Requeued(Head(queue[p]), p))
    BY <1>9, TakeCases
  <2>2. p \in Prios
    BY DEF QueueInv, PassInv, PassType
  <2> HIDE DEF p
  <2>3. CASE Freed(Head(queue[p]), p)
    <3>1. Nodes' \subseteq Nodes
      BY <1>5, <2>1, <2>2, <2>3, FreedNodes
    <3>2. QED
      BY <2>1, <3>1 DEF PlayersInv
  <2>4. CASE MayRetry(Head(queue[p])) /\ Requeued(Head(queue[p]), p)
    <3>1. \A x \in Nodes' : \E y \in Nodes : Same(x, y)
      BY <1>5, <2>1, <2>2, <2>4, RequeuedNodes
    <3>2. QED
      BY <2>1, <3>1 DEF PlayersInv, Same
  <2>5. QED
    BY <2>1, <2>3, <2>4
<1>10. CASE NextPriority
  BY <1>1, <1>10 DEF NextPriority
<1>11. QED
  BY <1>1, <1>2, <1>3, <1>4, <1>6, <1>7, <1>8, <1>9, <1>10 DEF Next

-----------------------------------------------------------------------------
(* The theorems.                                                           *)

\* At start nothing is queued.
LEMMA Initially == Init => IInv
<1> SUFFICES ASSUME Init PROVE IInv
  OBVIOUS
<1>1. \A p \in Prios : queue[p] = <<>> /\ count[p] = 0
  BY DEF Init
<1>2. Slots = {} /\ Nodes = {}
  <2>1. \A p \in Prios : {p} \X (1 .. Len(queue[p])) = {} /\ ToSet(queue[p]) = {}
    BY <1>1 DEF ToSet
  <2>2. QED
    BY <2>1 DEF Slots, Nodes
<1>3. IsFiniteSet(Slots) /\ Cardinality(Slots) = 0
  BY <1>2, FS_EmptySet
<1>4. QueueTyped
  BY DEF Init, QueueTyped
<1>5. SizesExact
  BY <1>1, <1>3, PubSubAssumption DEF Init, SizesExact
<1>6. PassInv /\ UrgentFirst
  BY PubSubAssumption DEF Init, PassInv, UrgentFirst, Idle, PassType, Prios, Low
<1>7. MessagesInv
  <2>1. Apart(queue)
    BY <1>1 DEF Apart
  <2>2. RefsExact
    BY <1>2 DEF Init, RefsExact
  <2>3. QED
    BY <2>1, <2>2 DEF MessagesInv
<1>8. PlayersInv /\ NothingLeaks
  BY <1>2 DEF Init, PlayersInv, NothingLeaks
<1>9. QED
  BY <1>4, <1>5, <1>6, <1>7, <1>8 DEF IInv, QueueInv

\* The layers of the invariant, each under its hypotheses, hold in every state.
THEOREM Invariance == Spec => []IInv
<1>1. IInv /\ [Next]_vars => IInv'
  <2> SUFFICES ASSUME IInv, [Next]_vars PROVE IInv'
    OBVIOUS
  <2>1. QueueInv /\ QueueInv'
    BY QueueStep DEF IInv
  <2>2. ASSUME "publish" \notin Risks
        PROVE  MessagesInv' /\ ("unheard" \notin Risks => NothingLeaks')
    BY <2>1, <2>2, MessagesStep DEF IInv
  <2>3. ASSUME "leave" \notin Risks PROVE PlayersInv'
    BY <2>1, <2>3, PlayersStep DEF IInv
  <2>4. QED
    BY <2>1, <2>2, <2>3 DEF IInv
<1>2. QED
  BY Initially, <1>1, PTL DEF Spec

\* critical_count .. low_count and total_queued count the queued nodes, and no more
\* are queued than PUBSUB_QUEUE_MAX_SIZE, whatever happens (pubsub_queue_message,
\* dequeue_by_priority and the retry branches).
THEOREM CountersAreExact == Spec => []CountersExact
<1>1. IInv => CountersExact
  BY DEF IInv, QueueInv, SizesExact, CountersExact
<1>2. QED
  BY Invariance, <1>1, PTL

\* Of the lists a pass has left behind nothing is there any more, and it delivers
\* within its bound, whatever happens (process_all, process_batch, process_priority).
THEOREM PassesAreDisciplined == Spec => []PassDiscipline
<1>1. IInv => PassDiscipline
  <2> SUFFICES ASSUME IInv PROVE PassDiscipline
    OBVIOUS
  <2>1. pass.done \in Nat /\ pass.here \in Nat /\ PassInv /\ UrgentFirst
    BY DEF IInv, QueueInv, PassInv, PassType
  <2>2. BatchBound
    BY <2>1, PubSubAssumption DEF PassInv, BatchBound
  <2>3. QED
    BY <2>1, <2>2 DEF PassDiscipline
<1>2. QED
  BY Invariance, <1>1, PTL

\* Where pubsub_publish finds no subscriber and nobody leaves who has a node, a
\* queued node has its message and its player, and reference_count is the number
\* of nodes of the message (free_queue_node).
THEOREM QueuedNodesAreSound ==
  ASSUME "publish" \notin Risks, "leave" \notin Risks
  PROVE  Spec => []NodesAreSound
<1>1. IInv => NodesAreSound
  <2> SUFFICES ASSUME IInv PROVE NodesAreSound
    OBVIOUS
  <2>1. QueueTyped /\ PassInv /\ MessagesInv /\ PlayersInv
    BY DEF IInv, QueueInv
  <2>2. TypeOK
    BY <2>1 DEF QueueTyped, PassInv, MessagesInv, RefsExact, TypeOK
  <2>3. \A n \in Nodes : n.msg \in live /\ n.who \in inGame
    BY <2>1 DEF MessagesInv, RefsExact, PlayersInv
  <2>4. \A m \in live : refs[m] = Cardinality({n \in Nodes : n.msg = m})
    BY <2>1 DEF MessagesInv, RefsExact, NodesOf
  <2>5. QED
    BY <2>2, <2>3, <2>4 DEF NodesAreSound
<1>2. QED
  BY Invariance, <1>1, PTL

\* Where moreover every audio message finds a listener there is room for, whatever
\* is allocated is freed with the last of its nodes: there is one.
THEOREM NothingIsLeaked ==
  ASSUME "publish" \notin Risks, "unheard" \notin Risks
  PROVE  Spec => []NothingLeaks
<1>1. IInv => NothingLeaks
  BY DEF IInv
<1>2. QED
  BY Invariance, <1>1, PTL
=============================================================================
