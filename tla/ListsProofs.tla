------------------------------ MODULE ListsProofs ------------------------------
(***************************************************************************)
(* The lists, for any containers, nodes, values and iterators: every list  *)
(* is linked in both directions and counted, no node is in two, no         *)
(* iterator stands in freed memory, simple_list() has returned what it     *)
(* passed, and the lists are the sequences that ListSpec promises.         *)
(*                                                                         *)
(* Chain reads a list along its links.  The proofs do not: they keep, for  *)
(* a heap, the sequence of the nodes of each list (Sound), say what each   *)
(* operator does to these sequences, and show once that Chain finds them.  *)
(***************************************************************************)
EXTENDS Lists, FiniteSetTheorems, FunctionTheorems, WellFoundedInduction, SequenceTheorems, TLAPS

\* What is allocated, for any contents.
ItemType == [next : Nodes \cup {NULL}, prev : Nodes \cup {NULL}, content : Contents \cup {NULL}]
ListType == [first : Nodes \cup {NULL}, last : Nodes \cup {NULL},
             size : 0 .. SizeMod - 1, iters : 0 .. SizeMod - 1]
HeapType == [alive : SUBSET AllLists, used : SUBSET Nodes,
             list : [AllLists -> ListType], item : [Nodes -> ItemType]]

\* c is what the container x and the items say that its list is, and nothing twice.
Linked(x, items, c) ==
  /\ x.first = IF Len(c) = 0 THEN NULL ELSE c[1]
  /\ x.last = IF Len(c) = 0 THEN NULL ELSE c[Len(c)]
  /\ x.size = Len(c)
  /\ \A k \in 1 .. Len(c) :
       /\ items[c[k]].next = IF k = Len(c) THEN NULL ELSE c[k+1]
       /\ items[c[k]].prev = IF k = 1 THEN NULL ELSE c[k-1]
  /\ \A j, k \in 1 .. Len(c) : c[j] = c[k] => j = k

\* The node n is a member of c.
In(n, c) == \E k \in 1 .. Len(c) : c[k] = n

\* ch has the sequence of the nodes of every list of the heap h.
Sound(h, ch) ==
  /\ h \in HeapType /\ ch \in [AllLists -> Seq(Nodes)]
  /\ \A l \in AllLists : Linked(h.list[l], h.item, ch[l])
  /\ \A l, m \in AllLists, n \in Nodes : In(n, ch[l]) /\ In(n, ch[m]) => l = m
  /\ \A n \in Nodes : n \in h.used <=> \E l \in AllLists : In(n, ch[l])
  /\ \A l \in AllLists \ h.alive : h.list[l] = NoItems
  /\ Registry \in h.alive

-----------------------------------------------------------------------------
(* Lemmas: sequences.                                                      *)

\* RemoveAt takes position p away and moves what follows one place forward.
LEMMA RemoveAtProperties ==
  ASSUME NEW S, NEW s \in Seq(S), NEW p \in 1 .. Len(s)
  PROVE  /\ RemoveAt(s, p) \in Seq(S)
         /\ Len(RemoveAt(s, p)) = Len(s) - 1
         /\ \A i \in 1 .. Len(s) - 1 :
              RemoveAt(s, p)[i] = IF i < p THEN s[i] ELSE s[i+1]
<1> DEFINE front == SubSeq(s, 1, p-1)
           back  == SubSeq(s, p+1, Len(s))
<1>1. /\ front \in Seq(S) /\ Len(front) = p - 1
      /\ \A i \in 1 .. p-1 : front[i] = s[i]
  OBVIOUS
<1>2. /\ back \in Seq(S) /\ Len(back) = Len(s) - p
      /\ \A i \in 1 .. Len(s) - p : back[i] = s[p + i]
  OBVIOUS
<1>3. RemoveAt(s, p) = front \o back
  BY DEF RemoveAt
<1> HIDE DEF front, back
<1>4. /\ front \o back \in Seq(S)
      /\ Len(front \o back) = Len(front) + Len(back)
      /\ \A i \in 1 .. Len(front) + Len(back) :
           (front \o back)[i] = IF i <= Len(front) THEN front[i]
                                ELSE back[i - Len(front)]
  BY <1>1, <1>2, ConcatProperties, Zenon
<1>5. ASSUME NEW i \in 1 .. Len(s) - 1, i >= p
      PROVE  (front \o back)[i] = s[i+1]
  <2>1. (front \o back)[i] = back[i - (p - 1)]
    BY <1>1, <1>2, <1>4, <1>5
  <2>2. i - (p - 1) \in 1 .. Len(s) - p
    BY <1>5
  <2>3. QED
    BY <2>1, <2>2, <1>2
<1>6. Len(front \o back) = Len(s) - 1
  BY <1>1, <1>2, <1>4
<1>7. ASSUME NEW i \in 1 .. Len(s) - 1, i < p
      PROVE  (front \o back)[i] = s[i]
  <2>1. i \in 1 .. p-1 /\ i <= Len(front)
    BY <1>1, <1>7
  <2>2. (front \o back)[i] = front[i]
    BY <1>1, <1>2, <1>4, <2>1
  <2>3. QED
    BY <1>1, <2>1, <2>2
<1>8. \A i \in 1 .. Len(s) - 1 :
        (front \o back)[i] = IF i < p THEN s[i] ELSE s[i+1]
  <2> HIDE DEF front, back
  <2>1. TAKE i \in 1 .. Len(s) - 1
  <2>2. i < p \/ i >= p
    OBVIOUS
  <2>3. CASE i < p
    BY <2>3, <1>7
  <2>4. CASE i >= p
    <3>1. ~(i < p)
      BY <2>4
    <3>2. QED
      BY <2>4, <3>1, <1>5, Zenon
  <2>5. QED
    BY <2>2, <2>3, <2>4
<1>9. QED
  BY <1>3, <1>4, <1>6, <1>8, Zenon


\* A set of numbers has a lowest one.
LEMMA LowestExists ==
  ASSUME NEW S, S \subseteq Nat, S # {}
  PROVE  \E r \in S : \A q \in S : r <= q
<1> DEFINE R == OpToRel(<, Nat)
<1>1. IsWellFoundedOn(R, Nat)
  BY NatLessThanWellFounded, Zenon
<1>2. \A a, b \in Nat : a < b => <<a, b>> \in R
  BY DEF OpToRel
<1> HIDE DEF R
<1>3. PICK r \in S : \A q \in S : ~ (<<q, r>> \in R)
  BY <1>1, WFMin, Zenon
<1>4. ASSUME NEW q \in S PROVE r <= q
  <2>1. r \in Nat /\ q \in Nat /\ ~ (q < r)
    BY <1>2, <1>3
  <2>2. QED
    BY <2>1
<1>5. QED
  BY <1>4

\* A sequence of nodes without repetitions is no longer than there are nodes.
LEMMA ShortEnough ==
  ASSUME NEW c \in Seq(Nodes), \A j, k \in 1 .. Len(c) : c[j] = c[k] => j = k
  PROVE  Cardinality(Nodes) \in Nat /\ Len(c) <= Cardinality(Nodes)
<1>1. IsFiniteSet(Nodes)
  BY SizeAssumption
<1>2. c \in Injection(1 .. Len(c), Nodes)
  BY Fun_IsInj
<1>3. Cardinality(1 .. Len(c)) <= Cardinality(Nodes)
  BY <1>1, <1>2, FS_Injection
<1>4. Cardinality(1 .. Len(c)) = Len(c)
  <2>1. 1 \in Int /\ Len(c) \in Int /\ Len(c) \in Nat
    OBVIOUS
  <2>2. Cardinality(1 .. Len(c)) = IF 1 > Len(c) THEN 0 ELSE Len(c) - 1 + 1
    BY <2>1, FS_Interval, Zenon
  <2>3. QED
    BY <2>1, <2>2
<1>5. QED
  BY <1>1, <1>3, <1>4, FS_CardinalityType

-----------------------------------------------------------------------------
(* Lemmas: Chain finds the sequence of a list.                             *)

\* f is the walk along the links of l in the heap h.
IsWalk(f, h, l) ==
  f = [k \in 1 .. Cardinality(Nodes) |->
         IF k = 1 THEN h.list[l].first
         ELSE IF f[k-1] = NULL THEN NULL ELSE h.item[f[k-1]].next]

\* There is but one.
LEMMA OneWalk ==
  ASSUME NEW h, NEW l, NEW f, NEW g, IsWalk(f, h, l), IsWalk(g, h, l),
         Cardinality(Nodes) \in Nat
  PROVE  f = g
<1> DEFINE D == {k \in 1 .. Cardinality(Nodes) : f[k] # g[k]}
<1>1. SUFFICES ASSUME D # {} PROVE FALSE
  BY DEF IsWalk
<1>2. PICK k \in D : \A q \in D : k <= q
  <2>1. D \subseteq Nat
    OBVIOUS
  <2> HIDE DEF D
  <2>2. QED
    BY <1>1, <2>1, LowestExists
<1>3. k \in 1 .. Cardinality(Nodes) /\ f[k] # g[k]
  BY <1>2
<1>4. CASE k = 1
  BY <1>3, <1>4 DEF IsWalk
<1>5. CASE k # 1
  <2>1. k - 1 \in 1 .. Cardinality(Nodes) /\ ~ (k <= k - 1)
    BY <1>3, <1>5
  <2>2. f[k-1] = g[k-1]
    BY <1>2, <2>1
  <2>3. QED
    BY <1>3, <1>5, <2>2 DEF IsWalk
<1>6. QED
  BY <1>4, <1>5

\* The sequence that the links of l stand for is its chain.
LEMMA ChainIs ==
  ASSUME NEW h, NEW l, NEW c \in Seq(Nodes), Linked(h.list[l], h.item, c)
  PROVE  Chain(h, l) = c
<1> DEFINE M == Cardinality(Nodes)
           g == [k \in 1 .. M |-> IF k <= Len(c) THEN c[k] ELSE NULL]
<1>1. M \in Nat /\ Len(c) \in Nat /\ Len(c) <= M
  BY ShortEnough DEF Linked
<1>2. \A k \in 1 .. Len(c) : c[k] \in Nodes /\ c[k] # NULL
  BY NullAssumption
<1>3. IsWalk(g, h, l)
  <2>1. ASSUME NEW k \in 1 .. M
        PROVE  g[k] = IF k = 1 THEN h.list[l].first
                      ELSE IF g[k-1] = NULL THEN NULL ELSE h.item[g[k-1]].next
    <3>1. CASE k = 1
      BY <1>1, <3>1 DEF Linked
    <3>2. CASE k # 1
      <4>1. k - 1 \in 1 .. M
        BY <1>1, <3>2
      <4>2. CASE k - 1 > Len(c)
        BY <1>1, <3>2, <4>1, <4>2
      <4>3. CASE k - 1 <= Len(c)
        <5>1. k - 1 \in 1 .. Len(c) /\ g[k-1] = c[k-1] /\ g[k-1] # NULL
          BY <1>1, <1>2, <4>1, <4>3
        <5>2. h.item[c[k-1]].next = IF k - 1 = Len(c) THEN NULL ELSE c[k]
          BY <1>1, <5>1 DEF Linked
        <5>3. QED
          BY <1>1, <3>2, <5>1, <5>2
      <4>4. QED
        BY <1>1, <4>2, <4>3
    <3>3. QED
      BY <3>1, <3>2
  <2>2. g = [k \in 1 .. M |-> g[k]]
    OBVIOUS
  <2> HIDE DEF g
  <2>3. QED
    BY <2>1, <2>2 DEF IsWalk
<1> DEFINE nth == CHOOSE f : IsWalk(f, h, l)
<1>4. nth = g
  <2>1. IsWalk(nth, h, l)
    BY <1>3
  <2>2. QED
    BY <1>1, <1>3, <2>1, OneWalk
<1>5. Chain(h, l) = [k \in {j \in 1 .. M : nth[j] # NULL} |-> nth[k]]
  BY DEF Chain, IsWalk
<1>6. {j \in 1 .. M : g[j] # NULL} = 1 .. Len(c)
  BY <1>1, <1>2
<1>7. Chain(h, l) = [k \in 1 .. Len(c) |-> g[k]]
  BY <1>4, <1>5, <1>6
<1>8. \A k \in 1 .. Len(c) : g[k] = c[k]
  BY <1>1
<1>9. c = [k \in 1 .. Len(c) |-> c[k]]
  OBVIOUS
<1>10. QED
  BY <1>7, <1>8, <1>9

\* The sequences of a sound heap are its chains.
LEMMA SoundChains ==
  ASSUME NEW h, NEW ch, Sound(h, ch)
  PROVE  \A l \in AllLists : Chain(h, l) = ch[l] /\ ch[l] \in Seq(Nodes)
BY ChainIs DEF Sound

-----------------------------------------------------------------------------
(* Lemmas: what the operators do to the sequences of a heap.               *)

\* A list whose nodes keep their links stays linked.
LEMMA StaysLinked ==
  ASSUME NEW x, NEW y, NEW items, NEW news, NEW c \in Seq(Nodes), Linked(x, items, c),
         y.first = x.first, y.last = x.last, y.size = x.size,
         \A k \in 1 .. Len(c) : /\ news[c[k]].next = items[c[k]].next
                                /\ news[c[k]].prev = items[c[k]].prev
  PROVE  Linked(y, news, c)
BY DEF Linked

\* The members of a list of a sound heap are allocated, and the ends as it says.
LEMMA SoundMembers ==
  ASSUME NEW h, NEW ch, Sound(h, ch), NEW l \in AllLists
  PROVE  /\ ch[l] \in Seq(Nodes) /\ Len(ch[l]) \in Nat
         /\ \A k \in 1 .. Len(ch[l]) : ch[l][k] \in Nodes /\ ch[l][k] \in h.used
         /\ l \notin h.alive => ch[l] = <<>>
<1>1. ch[l] \in Seq(Nodes) /\ Len(ch[l]) \in Nat /\ Linked(h.list[l], h.item, ch[l])
  BY DEF Sound
<1>2. \A k \in 1 .. Len(ch[l]) : ch[l][k] \in Nodes /\ ch[l][k] \in h.used
  BY <1>1 DEF Sound, In
<1>3. ASSUME l \notin h.alive PROVE ch[l] = <<>>
  <2>1. h.list[l].size = 0
    BY <1>3 DEF Sound, NoItems
  <2>2. Len(ch[l]) = 0
    BY <1>1, <2>1 DEF Linked
  <2>3. QED
    BY <1>1, <2>2, EmptySeq
<1>4. QED
  BY <1>1, <1>2, <1>3

\* The fields of a heap after add_to_list.
LEMMA AddFields ==
  ASSUME NEW h \in HeapType, NEW l \in AllLists, NEW n \in Nodes, NEW v \in Contents,
         h.list[l].last # n, h.list[l].size + 1 < SizeMod
  PROVE  LET g    == add_to_list(h, l, v, n)
             last == h.list[l].last IN
         /\ g \in HeapType
         /\ g.alive = h.alive /\ g.used = h.used \cup {n}
         /\ g.item[n] = [next |-> NULL, prev |-> last, content |-> v]
         /\ \A m \in Nodes \ {n} :
              /\ g.item[m].next = IF m = last THEN n ELSE h.item[m].next
              /\ g.item[m].prev = h.item[m].prev
              /\ g.item[m].content = h.item[m].content
         /\ \A m \in AllLists \ {l} : g.list[m] = h.list[m]
         /\ g.list[l].first = IF h.list[l].first = NULL THEN n ELSE h.list[l].first
         /\ g.list[l].last = n
         /\ g.list[l].size = h.list[l].size + 1
         /\ g.list[l].iters = h.list[l].iters
<1> DEFINE x      == h.list[l]
           last   == x.last
           linked == IF last = NULL THEN h.item ELSE [h.item EXCEPT ![last].next = n]
           items  == [linked EXCEPT ![n] = [next |-> NULL, prev |-> last, content |-> v]]
           y      == [first |-> IF x.first = NULL THEN n ELSE x.first, last |-> n,
                      size |-> (x.size + 1) % SizeMod, iters |-> x.iters]
           lists  == [h.list EXCEPT ![l] = y]
           g      == [alive |-> h.alive, used |-> h.used \cup {n},
                      list |-> lists, item |-> items]
<1>1. /\ x \in ListType /\ h.item \in [Nodes -> ItemType] /\ h.list \in [AllLists -> ListType]
      /\ h.alive \subseteq AllLists /\ h.used \subseteq Nodes
  BY DEF HeapType
<1>2. add_to_list(h, l, v, n) = g
  <2>1. add_to_list(h, l, v, n) =
          [h EXCEPT !.used = @ \cup {n}, !.item = items, !.list[l] = y]
    BY DEF add_to_list
  <2> HIDE DEF items, y
  <2>2. h = [alive |-> h.alive, used |-> h.used, list |-> h.list, item |-> h.item]
    BY DEF HeapType
  <2>3. QED
    BY <2>1, <2>2
<1>3. x.size \in 0 .. SizeMod - 1 /\ SizeMod \in Nat /\ (x.size + 1) % SizeMod = x.size + 1
  <2>1. x.size \in 0 .. SizeMod - 1 /\ SizeMod \in Nat
    BY <1>1, SizeAssumption DEF ListType
  <2>2. QED
    BY <2>1
<1>4. /\ y \in ListType
      /\ y.first = IF x.first = NULL THEN n ELSE x.first
      /\ y.last = n /\ y.size = x.size + 1 /\ y.iters = x.iters
  <2> HIDE DEF x
  <2>1. x.size + 1 \in 0 .. SizeMod - 1
    BY <1>3
  <2>2. QED
    BY <1>1, <1>3, <2>1 DEF ListType
<1>5. last \in Nodes \cup {NULL} /\ NULL \notin Nodes
  BY <1>1, NullAssumption DEF ListType
<1>6. /\ linked \in [Nodes -> ItemType]
      /\ \A m \in Nodes : /\ linked[m].next = IF m = last THEN n ELSE h.item[m].next
                          /\ linked[m].prev = h.item[m].prev
                          /\ linked[m].content = h.item[m].content
  <2>1. CASE last = NULL
    BY <1>1, <1>5, <2>1
  <2>2. CASE last # NULL
    BY <1>1, <1>5, <2>2 DEF ItemType
  <2>3. QED
    BY <2>1, <2>2
<1> HIDE DEF linked
<1>7. /\ items \in [Nodes -> ItemType]
      /\ items[n] = [next |-> NULL, prev |-> last, content |-> v]
      /\ \A m \in Nodes \ {n} : items[m] = linked[m]
  BY <1>5, <1>6 DEF ItemType
<1>8. /\ lists \in [AllLists -> ListType] /\ lists[l] = y
      /\ \A m \in AllLists \ {l} : lists[m] = h.list[m]
  BY <1>1, <1>4
<1> HIDE DEF items, lists, y, x
<1>9. g \in HeapType
  BY <1>1, <1>7, <1>8 DEF HeapType
<1>10. QED
  BY <1>2, <1>4, <1>6, <1>7, <1>8, <1>9 DEF x

\* add_to_list appends the node to one list.
LEMMA AddKeeps ==
  ASSUME NEW h, NEW ch, Sound(h, ch), NEW l \in h.alive, NEW n \in Nodes \ h.used,
         NEW v \in Contents
  PROVE  LET g == add_to_list(h, l, v, n) IN
         /\ Sound(g, [ch EXCEPT ![l] = Append(@, n)])
         /\ g.alive = h.alive /\ g.used = h.used \cup {n}
         /\ \A m \in AllLists : g.list[m].iters = h.list[m].iters
         /\ \A m \in Nodes : g.item[m].content = IF m = n THEN v ELSE h.item[m].content
<1> DEFINE g == add_to_list(h, l, v, n)
           c == ch[l]
           d == Append(c, n)
           new == [ch EXCEPT ![l] = d]
           last == h.list[l].last
<1>1. h \in HeapType /\ l \in AllLists /\ ch \in [AllLists -> Seq(Nodes)]
  BY DEF Sound, HeapType
<1>2. c \in Seq(Nodes) /\ Len(c) \in Nat /\ Linked(h.list[l], h.item, c)
  BY <1>1 DEF Sound
<1>3. \A m \in AllLists : \A k \in 1 .. Len(ch[m]) : ch[m][k] \in Nodes /\ ch[m][k] # n
  BY <1>1, SoundMembers
<1>4. /\ d \in Seq(Nodes) /\ Len(d) = Len(c) + 1 /\ d[Len(c) + 1] = n
      /\ \A k \in 1 .. Len(c) : d[k] = c[k]
  BY <1>2, AppendProperties
<1>5. last = IF Len(c) = 0 THEN NULL ELSE c[Len(c)]
  BY <1>2 DEF Linked
<1>6. last # n /\ NULL \notin Nodes
  BY <1>1, <1>2, <1>3, <1>5, NullAssumption
<1>7. h.list[l].size + 1 < SizeMod
  <2>1. \A j, k \in 1 .. Len(d) : d[j] = d[k] => j = k
    BY <1>1, <1>2, <1>3, <1>4 DEF Linked
  <2>2. Len(d) <= Cardinality(Nodes) /\ Cardinality(Nodes) \in Nat
    BY <1>4, <2>1, ShortEnough
  <2>3. QED
    BY <1>2, <1>4, <2>2, SizeAssumption DEF Linked
<1>8. /\ g \in HeapType
      /\ g.alive = h.alive /\ g.used = h.used \cup {n}
      /\ g.item[n] = [next |-> NULL, prev |-> last, content |-> v]
      /\ \A m \in Nodes \ {n} :
           /\ g.item[m].next = IF m = last THEN n ELSE h.item[m].next
           /\ g.item[m].prev = h.item[m].prev
           /\ g.item[m].content = h.item[m].content
      /\ \A m \in AllLists \ {l} : g.list[m] = h.list[m]
      /\ g.list[l].first = IF h.list[l].first = NULL THEN n ELSE h.list[l].first
      /\ g.list[l].last = n
      /\ g.list[l].size = h.list[l].size + 1
      /\ g.list[l].iters = h.list[l].iters
  BY <1>1, <1>6, <1>7, AddFields
<1> HIDE DEF g, d
<1>9. new \in [AllLists -> Seq(Nodes)] /\ new[l] = d /\ \A m \in AllLists \ {l} : new[m] = ch[m]
  BY <1>1, <1>4
<1> HIDE DEF new
<1>10. Linked(g.list[l], g.item, d)
  <2>1. g.list[l].first = IF Len(d) = 0 THEN NULL ELSE d[1]
    <3>1. h.list[l].first = IF Len(c) = 0 THEN NULL ELSE c[1]
      BY <1>2 DEF Linked
    <3>2. Len(c) # 0 => c[1] \in Nodes /\ c[1] = d[1]
      BY <1>1, <1>2, <1>3, <1>4
    <3>3. Len(d) # 0 /\ (Len(c) = 0 => d[1] = n)
      BY <1>2, <1>4
    <3>4. QED
      BY <3>1, <3>2, <3>3, <1>6, <1>8
  <2>2. g.list[l].last = d[Len(d)] /\ Len(d) # 0 /\ g.list[l].size = Len(d)
    BY <1>2, <1>4, <1>8 DEF Linked
  <2>3. ASSUME NEW k \in 1 .. Len(d)
        PROVE  /\ g.item[d[k]].next = IF k = Len(d) THEN NULL ELSE d[k+1]
               /\ g.item[d[k]].prev = IF k = 1 THEN NULL ELSE d[k-1]
    <3>1. CASE k = Len(d)
      <4>1. d[k] = n /\ g.item[n].next = NULL /\ g.item[n].prev = last
        BY <1>4, <1>8, <3>1
      <4>2. Len(c) # 0 => d[k-1] = c[Len(c)]
        BY <1>2, <1>4, <3>1
      <4>3. QED
        BY <1>2, <1>4, <1>5, <3>1, <4>1, <4>2
    <3>2. CASE k # Len(d)
      <4>1. k \in 1 .. Len(c) /\ d[k] = c[k]
        BY <1>2, <1>4, <3>2
      <4>2. c[k] \in Nodes \ {n}
        BY <1>1, <1>3, <4>1
      <4>3. /\ h.item[c[k]].next = IF k = Len(c) THEN NULL ELSE c[k+1]
            /\ h.item[c[k]].prev = IF k = 1 THEN NULL ELSE c[k-1]
        BY <1>2, <4>1 DEF Linked
      <4>4. c[k] = last <=> k = Len(c)
        BY <1>2, <1>5, <4>1 DEF Linked
      <4>5. k # Len(c) => k + 1 \in 1 .. Len(c)
        BY <1>2, <4>1
      <4>6. k # 1 => k - 1 \in 1 .. Len(c)
        BY <1>2, <4>1
      <4>7. g.item[c[k]].next = d[k+1]
        BY <1>2, <1>4, <1>8, <4>2, <4>3, <4>4, <4>5
      <4>8. g.item[c[k]].prev = IF k = 1 THEN NULL ELSE d[k-1]
        BY <1>4, <1>8, <4>2, <4>3, <4>6
      <4>9. QED
        BY <3>2, <4>1, <4>7, <4>8
    <3>3. QED
      BY <3>1, <3>2
  <2>4. \A j, k \in 1 .. Len(d) : d[j] = d[k] => j = k
    BY <1>1, <1>2, <1>3, <1>4 DEF Linked
  <2>5. QED
    BY <2>1, <2>2, <2>3, <2>4 DEF Linked
<1>11. ASSUME NEW m \in AllLists \ {l} PROVE Linked(g.list[m], g.item, new[m])
  <2>1. ch[m] \in Seq(Nodes) /\ Linked(h.list[m], h.item, ch[m])
    BY <1>1 DEF Sound
  <2>2. ASSUME NEW k \in 1 .. Len(ch[m]) PROVE ch[m][k] \in Nodes \ {n} /\ ch[m][k] # last
    <3>1. ch[m][k] \in Nodes \ {n} /\ In(ch[m][k], ch[m])
      BY <1>3, <2>2 DEF In
    <3>2. Len(c) # 0 => In(c[Len(c)], c)
      BY <1>2 DEF In
    <3>3. QED
      BY <1>1, <1>5, <1>6, <3>1, <3>2 DEF Sound
  <2>3. \A k \in 1 .. Len(ch[m]) : /\ g.item[ch[m][k]].next = h.item[ch[m][k]].next
                                   /\ g.item[ch[m][k]].prev = h.item[ch[m][k]].prev
    BY <1>8, <2>2
  <2>4. g.list[m] = h.list[m] /\ new[m] = ch[m]
    BY <1>8, <1>9
  <2>5. QED
    BY <2>1, <2>3, <2>4, StaysLinked
<1>12. \A m \in AllLists, r \in Nodes : In(r, new[m]) <=> In(r, ch[m]) \/ (m = l /\ r = n)
  <2>1. \A r \in Nodes : In(r, d) <=> In(r, c) \/ r = n
    BY <1>2, <1>4 DEF In
  <2>2. QED
    BY <1>9, <2>1
<1>13. \A m \in AllLists : ~In(n, ch[m])
  BY <1>3 DEF In
<1>14. \A k, m \in AllLists, r \in Nodes : In(r, new[k]) /\ In(r, new[m]) => k = m
  BY <1>12, <1>13 DEF Sound
<1>15. \A r \in Nodes : r \in g.used <=> \E m \in AllLists : In(r, new[m])
  BY <1>1, <1>8, <1>12 DEF Sound
<1>16. \A m \in AllLists \ g.alive : g.list[m] = NoItems
  BY <1>8 DEF Sound
<1>17. Registry \in g.alive
  BY <1>8 DEF Sound
<1>18. Sound(g, new)
  BY <1>8, <1>9, <1>10, <1>11, <1>14, <1>15, <1>16, <1>17 DEF Sound
<1>19. QED
  BY <1>8, <1>18 DEF g, new, d

\* The fields of a heap after remove_from_list.
LEMMA RemoveFields ==
  ASSUME NEW h \in HeapType, NEW l \in AllLists, NEW n \in Nodes, h.list[l].size > 0
  PROVE  LET g == remove_from_list(h, l, n)
             x == h.item[n]
             y == h.list[l] IN
         /\ g \in HeapType
         /\ g.alive = h.alive /\ g.used = h.used \ {n}
         /\ \A m \in Nodes \ {n} :
              /\ g.item[m].next = IF m = x.prev THEN x.next ELSE h.item[m].next
              /\ g.item[m].prev = IF m = x.next THEN x.prev ELSE h.item[m].prev
              /\ g.item[m].content = h.item[m].content
         /\ \A m \in AllLists \ {l} : g.list[m] = h.list[m]
         /\ g.list[l].first = IF y.size = 1 THEN NULL ELSE IF y.first = n THEN x.next ELSE y.first
         /\ g.list[l].last  = IF y.size = 1 THEN NULL ELSE IF y.last = n THEN x.prev ELSE y.last
         /\ g.list[l].size = y.size - 1
         /\ g.list[l].iters = y.iters
<1> DEFINE x     == h.item[n]
           y     == h.list[l]
           size  == (y.size - 1) % SizeMod
           first == IF y.first = n THEN x.next ELSE y.first
           last  == IF y.last = n THEN x.prev ELSE y.last
           z     == [first |-> IF size = 0 THEN NULL ELSE first,
                     last |-> IF size = 0 THEN NULL ELSE last,
                     size |-> size, iters |-> y.iters]
           items == [m \in Nodes |->
                       IF m = n THEN NullItem
                       ELSE [next |-> IF m = x.prev THEN x.next ELSE h.item[m].next,
                             prev |-> IF m = x.next THEN x.prev ELSE h.item[m].prev,
                             content |-> h.item[m].content]]
           lists == [h.list EXCEPT ![l] = z]
           g     == [alive |-> h.alive, used |-> h.used \ {n}, list |-> lists, item |-> items]
<1>1. /\ x \in ItemType /\ y \in ListType
      /\ h.item \in [Nodes -> ItemType] /\ h.list \in [AllLists -> ListType]
      /\ h.alive \subseteq AllLists /\ h.used \subseteq Nodes
  BY DEF HeapType
<1>2. remove_from_list(h, l, n) = g
  <2>1. remove_from_list(h, l, n) =
          [h EXCEPT !.used = @ \ {n}, !.item = items, !.list[l] = z]
    BY DEF remove_from_list
  <2> HIDE DEF items, z
  <2>2. h = [alive |-> h.alive, used |-> h.used, list |-> h.list, item |-> h.item]
    BY DEF HeapType
  <2>3. QED
    BY <2>1, <2>2
<1>3. /\ y.size \in 0 .. SizeMod - 1 /\ SizeMod \in Nat
      /\ size = y.size - 1 /\ y.size - 1 \in 0 .. SizeMod - 1
  <2>1. y.size \in 0 .. SizeMod - 1 /\ SizeMod \in Nat
    BY <1>1, SizeAssumption DEF ListType
  <2>2. QED
    BY <2>1
<1> HIDE DEF size
<1>4. /\ z \in ListType
      /\ z.first = IF y.size = 1 THEN NULL ELSE IF y.first = n THEN x.next ELSE y.first
      /\ z.last = IF y.size = 1 THEN NULL ELSE IF y.last = n THEN x.prev ELSE y.last
      /\ z.size = y.size - 1 /\ z.iters = y.iters
  <2> HIDE DEF x, y
  <2>1. /\ first \in Nodes \cup {NULL} /\ last \in Nodes \cup {NULL}
        /\ y.iters \in 0 .. SizeMod - 1
    BY <1>1 DEF ListType, ItemType
  <2>2. QED
    BY <1>3, <2>1 DEF ListType
<1>5. /\ items \in [Nodes -> ItemType]
      /\ \A m \in Nodes \ {n} :
           /\ items[m].next = IF m = x.prev THEN x.next ELSE h.item[m].next
           /\ items[m].prev = IF m = x.next THEN x.prev ELSE h.item[m].prev
           /\ items[m].content = h.item[m].content
  <2> HIDE DEF x
  <2>1. QED
    BY <1>1 DEF ItemType, NullItem
<1>6. /\ lists \in [AllLists -> ListType] /\ lists[l] = z
      /\ \A m \in AllLists \ {l} : lists[m] = h.list[m]
  BY <1>1, <1>4
<1> HIDE DEF items, lists, z, x, y
<1>7. g \in HeapType
  BY <1>1, <1>5, <1>6 DEF HeapType
<1>8. QED
  BY <1>2, <1>4, <1>5, <1>6, <1>7 DEF x, y

\* remove_from_list takes the place of the node out of the sequence of one list.
LEMMA RemoveKeeps ==
  ASSUME NEW h, NEW ch, Sound(h, ch), NEW l \in AllLists, NEW p \in 1 .. Len(ch[l])
  PROVE  LET n == ch[l][p]
             g == remove_from_list(h, l, n) IN
         /\ Sound(g, [ch EXCEPT ![l] = RemoveAt(@, p)])
         /\ g.alive = h.alive /\ g.used = h.used \ {n}
         /\ \A m \in AllLists : g.list[m].iters = h.list[m].iters
         /\ \A m \in Nodes \ {n} : g.item[m].content = h.item[m].content
<1> DEFINE c == ch[l]
           n == c[p]
           g == remove_from_list(h, l, n)
           d == RemoveAt(c, p)
           new == [ch EXCEPT ![l] = d]
           x == h.item[n]
           y == h.list[l]
<1>1. h \in HeapType /\ ch \in [AllLists -> Seq(Nodes)]
  BY DEF Sound
<1>2. c \in Seq(Nodes) /\ Len(c) \in Nat /\ Linked(y, h.item, c) /\ p \in 1 .. Len(c)
  BY <1>1 DEF Sound
<1>3. n \in Nodes /\ y.size > 0 /\ y.size = Len(c) /\ NULL \notin Nodes /\ In(n, c)
  BY <1>2, NullAssumption DEF Linked, In
<1>4. /\ x.next = IF p = Len(c) THEN NULL ELSE c[p+1]
      /\ x.prev = IF p = 1 THEN NULL ELSE c[p-1]
  BY <1>2 DEF Linked
<1>5. /\ g \in HeapType
      /\ g.alive = h.alive /\ g.used = h.used \ {n}
      /\ \A m \in Nodes \ {n} :
           /\ g.item[m].next = IF m = x.prev THEN x.next ELSE h.item[m].next
           /\ g.item[m].prev = IF m = x.next THEN x.prev ELSE h.item[m].prev
           /\ g.item[m].content = h.item[m].content
      /\ \A m \in AllLists \ {l} : g.list[m] = h.list[m]
      /\ g.list[l].first = IF y.size = 1 THEN NULL ELSE IF y.first = n THEN x.next ELSE y.first
      /\ g.list[l].last  = IF y.size = 1 THEN NULL ELSE IF y.last = n THEN x.prev ELSE y.last
      /\ g.list[l].size = y.size - 1
      /\ g.list[l].iters = y.iters
  <2>1. h.list[l].size > 0 /\ n \in Nodes /\ h \in HeapType
    BY <1>1, <1>3
  <2> HIDE DEF n
  <2>2. QED
    BY <2>1, RemoveFields
<1>6. /\ d \in Seq(Nodes) /\ Len(d) = Len(c) - 1
      /\ \A k \in 1 .. Len(c) - 1 : d[k] = IF k < p THEN c[k] ELSE c[k+1]
  BY <1>2, RemoveAtProperties
<1> HIDE DEF g, d, c, n, x, y
<1>7. new \in [AllLists -> Seq(Nodes)] /\ new[l] = d /\ \A m \in AllLists \ {l} : new[m] = ch[m]
  BY <1>1, <1>6
<1> HIDE DEF new
<1>8. /\ \A k \in 1 .. Len(c) : c[k] \in Nodes
      /\ \A j, k \in 1 .. Len(c) : c[j] = c[k] => j = k
  BY <1>2 DEF Linked
<1>9. Linked(g.list[l], g.item, d)
  <2>1. g.list[l].first = IF Len(d) = 0 THEN NULL ELSE d[1]
    <3>1. y.first = c[1]
      BY <1>2 DEF Linked
    <3>2. y.first = n <=> p = 1
      BY <1>2, <1>8, <3>1 DEF n
    <3>3. CASE Len(c) = 1
      BY <1>3, <1>5, <1>6, <3>3
    <3>4. CASE Len(c) # 1
      <4>1. 1 \in 1 .. Len(c) - 1 /\ Len(d) # 0
        BY <1>2, <1>6, <3>4
      <4>2. CASE p = 1
        BY <1>3, <1>4, <1>5, <1>6, <3>2, <3>4, <4>1, <4>2
      <4>3. CASE p # 1
        <5>1. d[1] = c[1]
          BY <1>2, <1>6, <4>1, <4>3
        <5>2. QED
          BY <1>3, <1>5, <3>1, <3>2, <3>4, <4>1, <4>3, <5>1
      <4>4. QED
        BY <4>2, <4>3
    <3>5. QED
      BY <3>3, <3>4
  <2>2. g.list[l].last = IF Len(d) = 0 THEN NULL ELSE d[Len(d)]
    <3>1. y.last = c[Len(c)]
      BY <1>2 DEF Linked
    <3>2. y.last = n <=> p = Len(c)
      BY <1>2, <1>8, <3>1 DEF n
    <3>3. CASE Len(c) = 1
      BY <1>3, <1>5, <1>6, <3>3
    <3>4. CASE Len(c) # 1
      <4>1. Len(c) - 1 \in 1 .. Len(c) - 1 /\ Len(d) # 0 /\ Len(d) = Len(c) - 1
        BY <1>2, <1>6, <3>4
      <4>2. CASE p = Len(c)
        <5>1. d[Len(d)] = c[p-1] /\ p # 1
          BY <1>2, <1>6, <3>4, <4>1, <4>2
        <5>2. QED
          BY <1>3, <1>4, <1>5, <3>2, <3>4, <4>1, <4>2, <5>1
      <4>3. CASE p # Len(c)
        <5>1. d[Len(d)] = c[Len(c)]
          BY <1>2, <1>6, <4>1, <4>3
        <5>2. QED
          BY <1>3, <1>5, <3>1, <3>2, <3>4, <4>1, <4>3, <5>1
      <4>4. QED
        BY <4>2, <4>3
    <3>5. QED
      BY <3>3, <3>4
  <2>3. g.list[l].size = Len(d)
    BY <1>3, <1>5, <1>6
  <2>4. ASSUME NEW k \in 1 .. Len(d)
        PROVE  /\ g.item[d[k]].next = IF k = Len(d) THEN NULL ELSE d[k+1]
               /\ g.item[d[k]].prev = IF k = 1 THEN NULL ELSE d[k-1]
    <3> DEFINE j == IF k < p THEN k ELSE k + 1
    <3>1. j \in 1 .. Len(c) /\ j # p /\ d[k] = c[j] /\ Len(d) = Len(c) - 1
      BY <1>2, <1>6
    <3>2. c[j] \in Nodes \ {n}
      BY <1>2, <1>8, <3>1 DEF n
    <3>3. /\ h.item[c[j]].next = IF j = Len(c) THEN NULL ELSE c[j+1]
          /\ h.item[c[j]].prev = IF j = 1 THEN NULL ELSE c[j-1]
      BY <1>2, <3>1 DEF Linked
    <3>4. c[j] = x.prev <=> j = p - 1
      <4>1. p # 1 => p - 1 \in 1 .. Len(c)
        BY <1>2
      <4>2. QED
        BY <1>2, <1>3, <1>4, <1>8, <3>1, <3>2, <4>1
    <3>5. c[j] = x.next <=> j = p + 1
      <4>1. p # Len(c) => p + 1 \in 1 .. Len(c)
        BY <1>2
      <4>2. QED
        BY <1>2, <1>3, <1>4, <1>8, <3>1, <3>2, <4>1
    <3>6. g.item[c[j]].next = IF k = Len(d) THEN NULL ELSE d[k+1]
      <4>1. g.item[c[j]].next = IF j = p - 1 THEN x.next ELSE h.item[c[j]].next
        BY <1>5, <3>2, <3>4
      <4>2. k # Len(d) => d[k+1] = IF k + 1 < p THEN c[k+1] ELSE c[k+2]
        BY <1>2, <1>6, <3>1
      <4>3. CASE k < p - 1
        <5>1. j = k /\ j # p - 1 /\ j # Len(c) /\ k # Len(d) /\ k + 1 < p
          BY <1>2, <3>1, <4>3
        <5>2. QED
          BY <3>3, <4>1, <4>2, <5>1
      <4>4. CASE k = p - 1
        <5>1. j = p - 1 /\ (k = Len(d) <=> p = Len(c)) /\ k + 2 = p + 1 /\ ~(k + 1 < p)
          BY <1>2, <3>1, <4>4
        <5>2. QED
          BY <1>4, <4>1, <4>2, <5>1
      <4>5. CASE k > p - 1
        <5>1. j = k + 1 /\ j # p - 1 /\ (k = Len(d) <=> j = Len(c)) /\ ~(k + 1 < p) /\ j + 1 = k + 2
          BY <1>2, <3>1, <4>5
        <5>2. QED
          BY <3>3, <4>1, <4>2, <5>1
      <4>6. QED
        BY <1>2, <4>3, <4>4, <4>5
    <3>7. g.item[c[j]].prev = IF k = 1 THEN NULL ELSE d[k-1]
      <4>1. g.item[c[j]].prev = IF j = p + 1 THEN x.prev ELSE h.item[c[j]].prev
        BY <1>5, <3>2, <3>5
      <4>2. k # 1 => d[k-1] = IF k - 1 < p THEN c[k-1] ELSE c[k]
        BY <1>2, <1>6, <3>1
      <4>3. CASE k < p
        <5>1. j = k /\ j # p + 1 /\ k - 1 < p
          BY <1>2, <3>1, <4>3
        <5>2. QED
          BY <3>3, <4>1, <4>2, <5>1
      <4>4. CASE k = p
        <5>1. j = p + 1 /\ k - 1 < p
          BY <1>2, <3>1, <4>4
        <5>2. QED
          BY <1>4, <4>1, <4>2, <4>4, <5>1
      <4>5. CASE k > p
        <5>1. j = k + 1 /\ j # p + 1 /\ j # 1 /\ k # 1 /\ ~(k - 1 < p) /\ j - 1 = k
          BY <1>2, <3>1, <4>5
        <5>2. QED
          BY <3>3, <4>1, <4>2, <5>1
      <4>6. QED
        BY <1>2, <4>3, <4>4, <4>5
    <3>8. QED
      BY <3>1, <3>6, <3>7
  <2>5. \A j, k \in 1 .. Len(d) : d[j] = d[k] => j = k
    <3> SUFFICES ASSUME NEW j \in 1 .. Len(d), NEW k \in 1 .. Len(d), d[j] = d[k] PROVE j = k
      OBVIOUS
    <3> DEFINE q(i) == IF i < p THEN i ELSE i + 1
    <3>1. ASSUME NEW i \in 1 .. Len(d) PROVE q(i) \in 1 .. Len(c) /\ d[i] = c[q(i)]
      <4>1. i \in 1 .. Len(c) - 1 /\ i \in 1 .. Len(c) /\ i + 1 \in 1 .. Len(c)
        BY <1>2, <1>6
      <4>2. d[i] = IF i < p THEN c[i] ELSE c[i+1]
        BY <1>6, <4>1
      <4>3. QED
        BY <4>1, <4>2
    <3>2. q(j) = q(k) => j = k
      BY <1>2, <1>6
    <3> HIDE DEF q
    <3>3. QED
      BY <1>8, <3>1, <3>2
  <2>6. QED
    BY <2>1, <2>2, <2>3, <2>4, <2>5 DEF Linked
<1>10. \A m \in AllLists, r \in Nodes : In(r, new[m]) <=> In(r, ch[m]) /\ r # n
  <2>1. ASSUME NEW r \in Nodes PROVE In(r, d) <=> In(r, c) /\ r # n
    <3>1. ASSUME In(r, d) PROVE In(r, c) /\ r # n
      <4>1. PICK k \in 1 .. Len(d) : d[k] = r
        BY <3>1 DEF In
      <4>2. PICK j \in 1 .. Len(c) : d[k] = c[j] /\ j # p
        <5> DEFINE q == IF k < p THEN k ELSE k + 1
        <5>1. k \in 1 .. Len(c) - 1
          BY <1>6
        <5>2. q \in 1 .. Len(c) /\ q # p /\ d[k] = c[q]
          BY <1>2, <1>6, <5>1
        <5>3. QED
          BY <5>2
      <4>3. QED
        BY <1>2, <1>8, <4>1, <4>2 DEF In, n
    <3>2. ASSUME In(r, c), r # n PROVE In(r, d)
      <4>1. PICK j \in 1 .. Len(c) : c[j] = r
        BY <3>2 DEF In
      <4>2. j # p
        BY <3>2, <4>1 DEF n
      <4>3. \E k \in 1 .. Len(d) : d[k] = c[j]
        <5>1. CASE j < p
          <6>1. j \in 1 .. Len(d) /\ d[j] = c[j]
            BY <1>2, <1>6, <5>1
          <6>2. QED
            BY <6>1
        <5>2. CASE j > p
          <6>1. j - 1 \in 1 .. Len(d) /\ d[j-1] = c[j]
            BY <1>2, <1>6, <5>2
          <6>2. QED
            BY <6>1
        <5>3. QED
          BY <1>2, <4>2, <5>1, <5>2
      <4>4. QED
        BY <4>1, <4>3 DEF In
    <3>3. QED
      BY <3>1, <3>2
  <2>2. \A m \in AllLists \ {l} : ~In(n, ch[m])
    BY <1>3 DEF Sound, c
  <2>3. ASSUME NEW m \in AllLists, NEW r \in Nodes
        PROVE  In(r, new[m]) <=> In(r, ch[m]) /\ r # n
    BY <1>7, <2>1, <2>2 DEF c
  <2>4. QED
    BY <2>3
<1>11. ASSUME NEW m \in AllLists \ {l} PROVE Linked(g.list[m], g.item, new[m])
  <2>1. ch[m] \in Seq(Nodes) /\ Linked(h.list[m], h.item, ch[m])
    BY <1>1 DEF Sound
  <2>2. ASSUME NEW k \in 1 .. Len(ch[m])
        PROVE  ch[m][k] \in Nodes \ {n} /\ ch[m][k] # x.prev /\ ch[m][k] # x.next
    <3>1. ch[m][k] \in Nodes /\ In(ch[m][k], ch[m])
      BY <2>1 DEF In
    <3>2. \A j \in 1 .. Len(c) : c[j] \in Nodes /\ In(c[j], c)
      BY <1>8 DEF In
    <3>3. \A j \in 1 .. Len(c) : ch[m][k] # c[j]
      BY <3>1, <3>2 DEF Sound, c
    <3>4. (p # 1 => p - 1 \in 1 .. Len(c)) /\ (p # Len(c) => p + 1 \in 1 .. Len(c))
      BY <1>2
    <3>5. QED
      BY <1>2, <1>3, <1>4, <3>1, <3>3, <3>4 DEF n
  <2>3. \A k \in 1 .. Len(ch[m]) : /\ g.item[ch[m][k]].next = h.item[ch[m][k]].next
                                   /\ g.item[ch[m][k]].prev = h.item[ch[m][k]].prev
    BY <1>5, <2>2
  <2>4. g.list[m] = h.list[m] /\ new[m] = ch[m]
    BY <1>5, <1>7
  <2>5. QED
    BY <2>1, <2>3, <2>4, StaysLinked
<1>12. \A k, m \in AllLists, r \in Nodes : In(r, new[k]) /\ In(r, new[m]) => k = m
  BY <1>10 DEF Sound
<1>13. \A r \in Nodes : r \in g.used <=> \E m \in AllLists : In(r, new[m])
  BY <1>5, <1>10 DEF Sound
<1>14. \A m \in AllLists \ g.alive : g.list[m] = NoItems
  <2>1. l \in h.alive
    <3>1. c # <<>>
      BY <1>2
    <3>2. QED
      BY <3>1, SoundMembers DEF c
  <2>2. QED
    BY <1>5, <2>1 DEF Sound
<1>15. Registry \in g.alive
  BY <1>5 DEF Sound
<1>16. Sound(g, new)
  BY <1>5, <1>7, <1>9, <1>11, <1>12, <1>13, <1>14, <1>15 DEF Sound
<1>17. \A m \in AllLists : g.list[m].iters = h.list[m].iters
  BY <1>5 DEF y
<1>18. QED
  BY <1>5, <1>16, <1>17 DEF g, new, d, c, n

\* Creating a container: its sequence is empty.
LEMMA CreateKeeps ==
  ASSUME NEW h, NEW ch, Sound(h, ch), NEW l \in AllLists
  PROVE  LET g == [h EXCEPT !.alive = @ \cup {l}] IN
         /\ Sound(g, ch)
         /\ g.alive = h.alive \cup {l} /\ g.used = h.used
         /\ g.list = h.list /\ g.item = h.item
<1> DEFINE g == [h EXCEPT !.alive = @ \cup {l}]
<1>1. h \in HeapType
  BY DEF Sound
<1>2. /\ g \in HeapType /\ g.alive = h.alive \cup {l} /\ g.used = h.used
      /\ g.list = h.list /\ g.item = h.item
  BY <1>1 DEF HeapType
<1> HIDE DEF g
<1>3. Sound(g, ch)
  BY <1>2 DEF Sound
<1>4. QED
  BY <1>2, <1>3 DEF g

\* The reader count of one list goes up or down by one, within its bounds.
LEMMA ReadersKeep ==
  ASSUME NEW h, NEW ch, Sound(h, ch), NEW l \in h.alive, NEW at, NEW d \in {1, -1},
         h.list[l].iters + d \in 0 .. SizeMod - 1
  PROVE  LET g == Readers(h, [list |-> l, at |-> at], d) IN
         /\ Sound(g, ch)
         /\ g.alive = h.alive /\ g.used = h.used /\ g.item = h.item
         /\ \A m \in AllLists : g.list[m].iters = IF m = l THEN h.list[l].iters + d
                                                  ELSE h.list[m].iters
<1> DEFINE g == Readers(h, [list |-> l, at |-> at], d)
           i == h.list[l].iters
           lists == [h.list EXCEPT ![l].iters = (i + d) % SizeMod]
<1>1. h \in HeapType /\ l \in AllLists /\ l # NULL
  BY NullAssumption DEF Sound, HeapType, AllLists
<1>2. g = [h EXCEPT !.list[l].iters = (@ + d) % SizeMod]
  BY <1>1 DEF Readers
<1>3. h = [alive |-> h.alive, used |-> h.used, list |-> h.list, item |-> h.item]
  BY <1>1 DEF HeapType
<1>4. g = [alive |-> h.alive, used |-> h.used, list |-> lists, item |-> h.item]
  BY <1>2, <1>3
<1>5. i \in 0 .. SizeMod - 1 /\ SizeMod \in Nat
  BY <1>1, SizeAssumption DEF HeapType, ListType
<1>6. (i + d) % SizeMod = i + d /\ i + d \in 0 .. SizeMod - 1
  BY <1>5
<1>7. /\ lists \in [AllLists -> ListType]
      /\ \A m \in AllLists \ {l} : lists[m] = h.list[m]
      /\ lists[l].first = h.list[l].first /\ lists[l].last = h.list[l].last
      /\ lists[l].size = h.list[l].size /\ lists[l].iters = i + d
  BY <1>1, <1>6 DEF HeapType, ListType
<1> HIDE DEF g, lists
<1>8. g \in HeapType
  BY <1>1, <1>4, <1>7 DEF HeapType
<1>9. ASSUME NEW m \in AllLists PROVE Linked(g.list[m], g.item, ch[m])
  <2>1. Linked(h.list[m], h.item, ch[m])
    BY DEF Sound
  <2>2. /\ g.list[m].first = h.list[m].first /\ g.list[m].last = h.list[m].last
        /\ g.list[m].size = h.list[m].size /\ g.item = h.item
    BY <1>4, <1>7
  <2>3. QED
    BY <2>1, <2>2 DEF Linked
<1>10. g.alive = h.alive /\ g.used = h.used /\ g.item = h.item /\ g.list = lists
  BY <1>4
<1>11. \A m \in AllLists \ g.alive : g.list[m] = NoItems
  BY <1>7, <1>10 DEF Sound
<1>12. Sound(g, ch)
  BY <1>8, <1>9, <1>10, <1>11 DEF Sound
<1>13. QED
  BY <1>7, <1>10, <1>12 DEF g

\* free_list before it unregisters the list: a container goes with its nodes.
Dropped(h, l, c) ==
  [h EXCEPT !.alive   = @ \ {l},
            !.used    = @ \ ToSet(c),
            !.item    = [m \in Nodes |-> IF m \in ToSet(c) THEN NullItem ELSE @[m]],
            !.list[l] = NoItems]

\* The lists of the others keep their sequences when a container goes with its nodes.
LEMMA DropKeeps ==
  ASSUME NEW h, NEW ch, Sound(h, ch), NEW l \in ListIds
  PROVE  LET g == Dropped(h, l, ch[l]) IN
         /\ Sound(g, [ch EXCEPT ![l] = <<>>])
         /\ g.alive = h.alive \ {l}
         /\ \A m \in AllLists \ {l} : g.list[m] = h.list[m]
         /\ \A m \in Nodes : ~In(m, ch[l]) => g.item[m] = h.item[m]
<1> DEFINE c == ch[l]
           items == [m \in Nodes |-> IF m \in ToSet(c) THEN NullItem ELSE h.item[m]]
           lists == [h.list EXCEPT ![l] = NoItems]
           g == Dropped(h, l, c)
           new == [ch EXCEPT ![l] = <<>>]
<1>1. h \in HeapType /\ l \in AllLists /\ ch \in [AllLists -> Seq(Nodes)] /\ l # Registry
  BY RegistryAssumption DEF Sound, AllLists
<1>2. h = [alive |-> h.alive, used |-> h.used, list |-> h.list, item |-> h.item]
  BY <1>1 DEF HeapType
<1>3. g = [alive |-> h.alive \ {l}, used |-> h.used \ ToSet(c), list |-> lists, item |-> items]
  <2>1. g = [h EXCEPT !.alive = @ \ {l}, !.used = @ \ ToSet(c), !.item = items,
                      !.list[l] = NoItems]
    BY DEF Dropped
  <2> HIDE DEF items, g
  <2>2. QED
    BY <1>2, <2>1
<1>4. c \in Seq(Nodes) /\ \A m : m \in ToSet(c) <=> In(m, c)
  BY <1>1 DEF ToSet, In
<1>5. items \in [Nodes -> ItemType] /\ \A m \in Nodes : ~In(m, c) => items[m] = h.item[m]
  BY <1>1, <1>4 DEF HeapType, ItemType, NullItem
<1>6. /\ lists \in [AllLists -> ListType] /\ lists[l] = NoItems
      /\ \A m \in AllLists \ {l} : lists[m] = h.list[m]
  <2>1. 0 \in 0 .. SizeMod - 1
    BY SizeAssumption, FS_CardinalityType
  <2>2. QED
    BY <1>1, <2>1 DEF HeapType, ListType, NoItems
<1> HIDE DEF items, lists, g, c
<1>7. g \in HeapType
  BY <1>1, <1>3, <1>5, <1>6 DEF HeapType
<1>8. new \in [AllLists -> Seq(Nodes)] /\ new[l] = <<>> /\ \A m \in AllLists \ {l} : new[m] = ch[m]
  BY <1>1
<1> HIDE DEF new
<1>9. g.list = lists /\ g.item = items /\ g.alive = h.alive \ {l} /\ g.used = h.used \ ToSet(c)
  BY <1>3
<1>10. Linked(g.list[l], g.item, new[l])
  BY <1>6, <1>8, <1>9 DEF Linked, NoItems
<1>11. ASSUME NEW m \in AllLists \ {l} PROVE Linked(g.list[m], g.item, new[m])
  <2>1. ch[m] \in Seq(Nodes) /\ Linked(h.list[m], h.item, ch[m])
    BY <1>1 DEF Sound
  <2>2. ASSUME NEW k \in 1 .. Len(ch[m]) PROVE g.item[ch[m][k]] = h.item[ch[m][k]]
    <3>1. ch[m][k] \in Nodes /\ In(ch[m][k], ch[m])
      BY <2>1 DEF In
    <3>2. ~In(ch[m][k], c)
      BY <1>1, <3>1 DEF Sound, c
    <3>3. QED
      BY <1>5, <1>9, <3>1, <3>2
  <2>3. g.list[m] = h.list[m] /\ new[m] = ch[m]
    BY <1>6, <1>8, <1>9
  <2>4. QED
    BY <2>1, <2>2, <2>3, StaysLinked
<1>12. \A m \in AllLists, r \in Nodes : In(r, new[m]) <=> m # l /\ In(r, ch[m])
  BY <1>8 DEF In
<1>13. \A k, m \in AllLists, r \in Nodes : In(r, new[k]) /\ In(r, new[m]) => k = m
  BY <1>12 DEF Sound
<1>14. \A r \in Nodes : r \in g.used <=> \E m \in AllLists : In(r, new[m])
  BY <1>1, <1>4, <1>9, <1>12 DEF Sound, c
<1>15. \A m \in AllLists \ g.alive : g.list[m] = NoItems
  BY <1>6, <1>9 DEF Sound
<1>16. Registry \in g.alive
  BY <1>1, <1>9 DEF Sound
<1>17. Sound(g, new)
  <2>1. \A m \in AllLists : Linked(g.list[m], g.item, new[m])
    BY <1>10, <1>11
  <2>2. QED
    BY <1>7, <1>8, <2>1, <1>13, <1>14, <1>15, <1>16 DEF Sound
<1>18. QED
  BY <1>5, <1>6, <1>9, <1>17 DEF g, new, c

\* find_in_list finds the first of the nodes that hold the value.
LEMMA FindIs ==
  ASSUME NEW h, NEW ch, Sound(h, ch), NEW l \in AllLists, NEW v, NEW n
  PROVE  n \in find_in_list(h, v, l) <=>
           \E k \in 1 .. Len(ch[l]) :
             /\ n = ch[l][k] /\ h.item[n].content = v
             /\ \A j \in 1 .. k - 1 : h.item[ch[l][j]].content # v
<1>1. Chain(h, l) = ch[l] /\ ch[l] \in Seq(Nodes) /\ DOMAIN ch[l] = 1 .. Len(ch[l])
  BY SoundChains
<1>2. QED
  BY <1>1 DEF find_in_list

-----------------------------------------------------------------------------
(* Lemmas: what the operations do to a heap whose registry is exact.       *)

\* The registry has an entry for each list, and one; the lists have the callers' values.
Registered(h, r) ==
  /\ \A k \in 1 .. Len(r) : h.item[r[k]].content \in h.alive \ {Registry}
  /\ \A j, k \in 1 .. Len(r) : h.item[r[j]].content = h.item[r[k]].content => j = k
  /\ \A l \in h.alive \ {Registry} : \E k \in 1 .. Len(r) : h.item[r[k]].content = l

\* A sound heap whose registry is exact, with the callers' values in the other lists.
Good(h, ch) ==
  /\ Sound(h, ch)
  /\ Registered(h, ch[Registry])
  /\ \A l \in ListIds : \A k \in 1 .. Len(ch[l]) : h.item[ch[l][k]].content \in Values

\* In the heap g the nodes but n are as in h.
SameContents(h, g, S) == \A m \in Nodes \ S : g.item[m].content = h.item[m].content

\* create_list.
LEMMA CreateGood ==
  ASSUME NEW h, NEW ch, Good(h, ch), NEW l \in ListIds \ h.alive, NEW n \in Nodes \ h.used
  PROVE  LET g == add_to_list([h EXCEPT !.alive = @ \cup {l}], Registry, l, n) IN
         /\ Good(g, [ch EXCEPT ![Registry] = Append(@, n)])
         /\ g.alive = h.alive \cup {l}
         /\ \A m \in AllLists : g.list[m].iters = h.list[m].iters
         /\ SameContents(h, g, {n})
<1> DEFINE e == [h EXCEPT !.alive = @ \cup {l}]
           g == add_to_list(e, Registry, l, n)
           r == ch[Registry]
           d == Append(r, n)
           new == [ch EXCEPT ![Registry] = d]
<1>1. l \in AllLists /\ l # Registry /\ Registry \in AllLists /\ l \in Contents
  BY RegistryAssumption DEF AllLists, Contents
<1>2. /\ Sound(e, ch)
      /\ e.alive = h.alive \cup {l} /\ e.used = h.used /\ e.list = h.list /\ e.item = h.item
  BY <1>1, CreateKeeps DEF Good
<1> HIDE DEF e
<1>3. Registry \in e.alive /\ n \in Nodes \ e.used
  BY <1>2 DEF Sound
<1>4. /\ Sound(g, new)
      /\ g.alive = e.alive /\ g.used = e.used \cup {n}
      /\ \A m \in AllLists : g.list[m].iters = e.list[m].iters
      /\ \A m \in Nodes : g.item[m].content = IF m = n THEN l ELSE e.item[m].content
  <2>1. Sound(e, ch) /\ Registry \in e.alive /\ n \in Nodes \ e.used /\ l \in Contents
    BY <1>1, <1>2, <1>3
  <2>2. QED
    BY <2>1, AddKeeps
<1>5. \A m \in AllLists : /\ ch[m] \in Seq(Nodes) /\ Len(ch[m]) \in Nat
                          /\ \A k \in 1 .. Len(ch[m]) : ch[m][k] \in Nodes /\ ch[m][k] # n
  BY <1>2, <1>3, SoundMembers
<1>6. /\ d \in Seq(Nodes) /\ Len(d) = Len(r) + 1 /\ d[Len(r) + 1] = n
      /\ \A k \in 1 .. Len(r) : d[k] = r[k]
  BY <1>1, <1>5, AppendProperties
<1> HIDE DEF g, d
<1>7. ch \in [AllLists -> Seq(Nodes)] /\ new[Registry] = d /\ \A m \in ListIds : new[m] = ch[m]
  BY <1>1, RegistryAssumption DEF Good, Sound, AllLists
<1> HIDE DEF new
<1>8. \A m \in AllLists : \A k \in 1 .. Len(ch[m]) :
        g.item[ch[m][k]].content = h.item[ch[m][k]].content
  BY <1>2, <1>4, <1>5
<1>9. /\ g.item[d[Len(d)]].content = l
      /\ \A k \in 1 .. Len(r) : g.item[d[k]].content = h.item[r[k]].content
  BY <1>1, <1>4, <1>5, <1>6, <1>8
<1>10. Registered(g, d)
  <2>1. g.alive \ {Registry} = (h.alive \ {Registry}) \cup {l}
    BY <1>1, <1>2, <1>4
  <2>2. Registered(h, r)
    BY DEF Good
  <2>3. Len(r) \in Nat
    BY <1>1, <1>5
  <2>4. \A k \in 1 .. Len(d) : k = Len(d) \/ k \in 1 .. Len(r)
    BY <1>6, <2>3
  <2>5. \A k \in 1 .. Len(r) : /\ g.item[d[k]].content \in h.alive \ {Registry}
                               /\ g.item[d[k]].content # l
    BY <1>9, <2>2 DEF Registered
  <2>6. \A k \in 1 .. Len(d) : g.item[d[k]].content \in g.alive \ {Registry}
    BY <1>9, <2>1, <2>4, <2>5
  <2>7. \A j, k \in 1 .. Len(d) : g.item[d[j]].content = g.item[d[k]].content => j = k
    BY <1>9, <2>2, <2>4, <2>5 DEF Registered
  <2>8. ASSUME NEW m \in g.alive \ {Registry}
        PROVE  \E k \in 1 .. Len(d) : g.item[d[k]].content = m
    <3>1. CASE m = l
      <4>1. Len(d) \in 1 .. Len(d)
        BY <1>6, <2>3
      <4>2. QED
        BY <1>9, <3>1, <4>1
    <3>2. CASE m # l
      <4>1. PICK k \in 1 .. Len(r) : h.item[r[k]].content = m
        BY <2>1, <2>2, <3>2 DEF Registered
      <4>2. k \in 1 .. Len(d)
        BY <1>6, <2>3
      <4>3. QED
        BY <1>9, <4>1, <4>2
    <3>3. QED
      BY <3>1, <3>2
  <2>9. QED
    BY <2>6, <2>7, <2>8 DEF Registered
<1>11. \A m \in ListIds : \A k \in 1 .. Len(new[m]) : g.item[new[m][k]].content \in Values
  <2>1. \A m \in ListIds : m \in AllLists /\ new[m] = ch[m]
    BY <1>7 DEF AllLists
  <2>2. \A m \in ListIds : \A k \in 1 .. Len(ch[m]) : h.item[ch[m][k]].content \in Values
    BY DEF Good
  <2>3. QED
    BY <1>8, <2>1, <2>2
<1>12. Good(g, new)
  BY <1>4, <1>7, <1>10, <1>11 DEF Good
<1>13. SameContents(h, g, {n})
  BY <1>2, <1>4 DEF SameContents
<1>14. QED
  BY <1>2, <1>4, <1>12, <1>13 DEF g, d, new, e

\* The registry is exact as long as its nodes hold what they did.
LEMMA StaysRegistered ==
  ASSUME NEW h, NEW g, NEW r, Registered(h, r), g.alive = h.alive,
         \A k \in 1 .. Len(r) : g.item[r[k]].content = h.item[r[k]].content
  PROVE  Registered(g, r)
BY DEF Registered

\* add_to_list, for a caller: all but the sequences.
LEMMA AddEffect ==
  ASSUME NEW h, NEW ch, Good(h, ch), NEW l \in ListIds, l \in h.alive,
         NEW n \in Nodes \ h.used, NEW v \in Values
  PROVE  LET g == add_to_list(h, l, v, n) IN
         /\ g.alive = h.alive
         /\ \A m \in AllLists : g.list[m].iters = h.list[m].iters
         /\ SameContents(h, g, {n}) /\ g.item[n].content = v
<1> DEFINE g   == add_to_list(h, l, v, n)
           d   == Append(ch[l], n)
           new == [ch EXCEPT ![l] = d]
<1>1. l \in AllLists /\ l # Registry /\ Registry \in AllLists /\ v \in Contents
  BY RegistryAssumption DEF AllLists, Contents
<1>2. Sound(h, ch) /\ ch \in [AllLists -> Seq(Nodes)]
  BY DEF Good, Sound
<1>3. /\ Sound(g, new)
      /\ g.alive = h.alive /\ g.used = h.used \cup {n}
      /\ \A m \in AllLists : g.list[m].iters = h.list[m].iters
      /\ \A m \in Nodes : g.item[m].content = IF m = n THEN v ELSE h.item[m].content
  <2>1. Sound(h, ch) /\ l \in h.alive /\ n \in Nodes \ h.used /\ v \in Contents
    BY <1>1, <1>2
  <2>2. QED
    BY <2>1, AddKeeps
<1> HIDE DEF g
<1>4. SameContents(h, g, {n}) /\ g.item[n].content = v
  BY <1>3 DEF SameContents
<1>5. QED
  BY <1>3, <1>4 DEF g

\* add_to_list, for a caller: the sequences.
LEMMA AddGood ==
  ASSUME NEW h, NEW ch, Good(h, ch), NEW l \in ListIds, l \in h.alive,
         NEW n \in Nodes \ h.used, NEW v \in Values
  PROVE  Good(add_to_list(h, l, v, n), [ch EXCEPT ![l] = Append(@, n)])
<1> DEFINE g == add_to_list(h, l, v, n)
           d == Append(ch[l], n)
           new == [ch EXCEPT ![l] = d]
<1>1. l \in AllLists /\ l # Registry /\ Registry \in AllLists /\ v \in Contents
  BY RegistryAssumption DEF AllLists, Contents
<1>2. Sound(h, ch) /\ ch \in [AllLists -> Seq(Nodes)]
  BY DEF Good, Sound
<1>3. /\ Sound(g, new)
      /\ g.alive = h.alive /\ g.used = h.used \cup {n}
      /\ \A m \in AllLists : g.list[m].iters = h.list[m].iters
      /\ \A m \in Nodes : g.item[m].content = IF m = n THEN v ELSE h.item[m].content
  <2>1. Sound(h, ch) /\ l \in h.alive /\ n \in Nodes \ h.used /\ v \in Contents
    BY <1>1, <1>2
  <2>2. QED
    BY <2>1, AddKeeps
<1>4. \A m \in AllLists : /\ ch[m] \in Seq(Nodes) /\ Len(ch[m]) \in Nat
                          /\ \A k \in 1 .. Len(ch[m]) : ch[m][k] \in Nodes /\ ch[m][k] # n
  BY <1>2, SoundMembers
<1>5. /\ Len(d) = Len(ch[l]) + 1 /\ d[Len(ch[l]) + 1] = n
      /\ \A k \in 1 .. Len(ch[l]) : d[k] = ch[l][k]
  BY <1>1, <1>4, AppendProperties
<1> HIDE DEF g
<1>6. \A m \in AllLists : \A k \in 1 .. Len(ch[m]) :
        g.item[ch[m][k]].content = h.item[ch[m][k]].content
  BY <1>3, <1>4
<1> HIDE DEF d
<1>7. new[l] = d /\ \A m \in AllLists \ {l} : new[m] = ch[m]
  BY <1>1, <1>2
<1> HIDE DEF new
<1>8. Registered(g, new[Registry])
  <2>1. Registered(h, ch[Registry]) /\ new[Registry] = ch[Registry]
    BY <1>1, <1>7 DEF Good
  <2>2. QED
    BY <1>1, <1>3, <1>6, <2>1, StaysRegistered
<1>9. ASSUME NEW m \in ListIds, NEW k \in 1 .. Len(new[m])
      PROVE  g.item[new[m][k]].content \in Values
  <2>1. m \in AllLists
    BY DEF AllLists
  <2>2. CASE m # l
    BY <1>6, <1>7, <1>9, <2>1, <2>2 DEF Good
  <2>3. CASE m = l
    <3>1. CASE k \in 1 .. Len(ch[l])
      <4>1. h.item[ch[l][k]].content \in Values
        BY <3>1 DEF Good
      <4>2. QED
        BY <1>1, <1>5, <1>6, <1>7, <2>3, <3>1, <4>1
    <3>2. CASE k = Len(ch[l]) + 1
      BY <1>3, <1>5, <1>7, <2>3, <3>2
    <3>3. QED
      BY <1>1, <1>4, <1>5, <1>7, <1>9, <2>3, <3>1, <3>2
  <2>4. QED
    BY <2>2, <2>3
<1>10. Good(g, new)
  BY <1>3, <1>8, <1>9 DEF Good
<1>11. QED
  BY <1>10 DEF g, new, d

\* remove_from_list, for a caller: all but the sequences.
LEMMA RemoveEffect ==
  ASSUME NEW h, NEW ch, Good(h, ch), NEW l \in ListIds, NEW n \in Nodes, In(n, ch[l])
  PROVE  LET g == remove_from_list(h, l, n) IN
         /\ g.alive = h.alive /\ n \notin g.used
         /\ \A m \in AllLists : g.list[m].iters = h.list[m].iters
         /\ SameContents(h, g, {n})
<1> DEFINE g == remove_from_list(h, l, n)
<1>1. Sound(h, ch) /\ l \in AllLists
  BY DEF Good, AllLists
<1>2. PICK p \in 1 .. Len(ch[l]) : n = ch[l][p]
  BY DEF In
<1>3. /\ g.alive = h.alive /\ g.used = h.used \ {n}
      /\ \A m \in AllLists : g.list[m].iters = h.list[m].iters
      /\ \A m \in Nodes \ {n} : g.item[m].content = h.item[m].content
  <2> DEFINE o == ch[l][p]
             f == remove_from_list(h, l, o)
  <2>1. Sound(h, ch) /\ l \in AllLists /\ p \in 1 .. Len(ch[l])
    BY <1>1, <1>2
  <2>2. /\ Sound(f, [ch EXCEPT ![l] = RemoveAt(@, p)])
        /\ f.alive = h.alive /\ f.used = h.used \ {o}
        /\ \A m \in AllLists : f.list[m].iters = h.list[m].iters
        /\ \A m \in Nodes \ {o} : f.item[m].content = h.item[m].content
    BY <2>1, RemoveKeeps
  <2>3. QED
    BY <1>2, <2>2
<1> HIDE DEF g
<1>4. SameContents(h, g, {n})
  BY <1>3 DEF SameContents
<1>5. QED
  BY <1>3, <1>4 DEF g

\* remove_from_list, for a caller, from the place p: the sequences.
LEMMA RemoveGood ==
  ASSUME NEW h, NEW ch, Good(h, ch), NEW l \in ListIds, NEW p \in 1 .. Len(ch[l])
  PROVE  Good(remove_from_list(h, l, ch[l][p]), [ch EXCEPT ![l] = RemoveAt(@, p)])
<1> DEFINE n == ch[l][p]
           g == remove_from_list(h, l, n)
           d == RemoveAt(ch[l], p)
           new == [ch EXCEPT ![l] = d]
<1>1. l \in AllLists /\ l # Registry /\ Registry \in AllLists
  BY RegistryAssumption DEF AllLists
<1>2. Sound(h, ch) /\ ch \in [AllLists -> Seq(Nodes)]
  BY DEF Good, Sound
<1>3. /\ Sound(g, new)
      /\ g.alive = h.alive /\ g.used = h.used \ {n}
      /\ \A m \in AllLists : g.list[m].iters = h.list[m].iters
      /\ \A m \in Nodes \ {n} : g.item[m].content = h.item[m].content
  <2>1. Sound(h, ch) /\ l \in AllLists /\ p \in 1 .. Len(ch[l])
    BY <1>1, <1>2
  <2>2. QED
    BY <2>1, RemoveKeeps
<1>4. /\ ch[l] \in Seq(Nodes) /\ n \in Nodes
      /\ \A m \in AllLists : Len(ch[m]) \in Nat /\ \A k \in 1 .. Len(ch[m]) : ch[m][k] \in Nodes
  BY <1>1, <1>2, SoundMembers
<1>5. /\ Len(d) = Len(ch[l]) - 1
      /\ \A k \in 1 .. Len(ch[l]) - 1 : d[k] = IF k < p THEN ch[l][k] ELSE ch[l][k+1]
  BY <1>4, RemoveAtProperties
<1> HIDE DEF g, d, n
<1>6. new[l] = d /\ \A m \in AllLists \ {l} : new[m] = ch[m]
  BY <1>1, <1>2
<1> HIDE DEF new
<1>7. ASSUME NEW m \in AllLists, NEW k \in 1 .. Len(ch[m]), m # l \/ k # p
      PROVE  g.item[ch[m][k]].content = h.item[ch[m][k]].content
  <2>1. ch[m][k] # n
    <3>1. In(ch[m][k], ch[m]) /\ In(n, ch[l]) /\ ch[m][k] \in Nodes
      BY <1>4 DEF In, n
    <3>2. CASE m # l
      BY <1>1, <1>2, <3>1, <3>2 DEF Sound
    <3>3. CASE m = l
      BY <1>1, <1>2, <1>7, <3>3 DEF Sound, Linked, n
    <3>4. QED
      BY <3>2, <3>3
  <2>2. QED
    BY <1>3, <1>4, <2>1
<1>8. Registered(g, new[Registry])
  <2>1. Registered(h, ch[Registry]) /\ new[Registry] = ch[Registry]
    BY <1>1, <1>6 DEF Good
  <2>2. QED
    BY <1>1, <1>3, <1>7, <2>1, StaysRegistered
<1>9. ASSUME NEW m \in ListIds, NEW k \in 1 .. Len(new[m])
      PROVE  g.item[new[m][k]].content \in Values
  <2>1. m \in AllLists
    BY DEF AllLists
  <2>2. CASE m # l
    BY <1>6, <1>7, <1>9, <2>1, <2>2 DEF Good
  <2>3. CASE m = l
    <3>1. PICK j \in 1 .. Len(ch[l]) : d[k] = ch[l][j] /\ j # p
      BY <1>1, <1>4, <1>5, <1>6, <1>9, <2>3
    <3>2. QED
      <4>1. h.item[ch[l][j]].content \in Values
        BY <3>1 DEF Good
      <4>2. QED
        BY <1>1, <1>6, <1>7, <2>3, <3>1, <4>1
  <2>4. QED
    BY <2>2, <2>3
<1>10. Good(g, new)
  BY <1>3, <1>8, <1>9 DEF Good
<1>11. QED
  BY <1>10 DEF g, new, d, n

\* free_list: the nodes of the list go, and its entry in the registry.
LEMMA FreedGood ==
  ASSUME NEW h, NEW ch, Good(h, ch), NEW l \in ListIds, l \in h.alive
  PROVE  LET g == Freed(h, l) IN
         \E new : /\ Good(g, new) /\ new[l] = <<>>
                  /\ \A m \in ListIds \ {l} : new[m] = ch[m]
                  /\ g.alive = h.alive \ {l}
                  /\ \A m \in AllLists \ {l} : g.list[m].iters = h.list[m].iters
                  /\ \A m \in ListIds \ {l} : \A k \in 1 .. Len(ch[m]) :
                       g.item[ch[m][k]].content = h.item[ch[m][k]].content
<1> DEFINE e == Dropped(h, l, ch[l])
           one == [ch EXCEPT ![l] = <<>>]
           r == ch[Registry]
           found == find_in_list(e, l, Registry)
           n == CHOOSE m \in found : TRUE
           g == remove_from_list(e, Registry, n)
<1>1. l \in AllLists /\ l # Registry /\ Registry \in AllLists
  BY RegistryAssumption DEF AllLists
<1>2. Sound(h, ch) /\ ch \in [AllLists -> Seq(Nodes)] /\ Registered(h, r)
  BY DEF Good, Sound
<1>3. Chain(h, l) = ch[l]
  BY <1>1, <1>2, SoundChains
<1>4. Freed(h, l) = IF found = {} THEN e ELSE g
  BY <1>3 DEF Freed, Dropped
<1>5. /\ Sound(e, one) /\ e.alive = h.alive \ {l}
      /\ \A m \in AllLists \ {l} : e.list[m] = h.list[m]
      /\ \A m \in Nodes : ~In(m, ch[l]) => e.item[m] = h.item[m]
  <2>1. Sound(h, ch) /\ l \in ListIds
    BY <1>2
  <2>2. QED
    BY <2>1, DropKeeps
<1> HIDE DEF e, found
<1>6. one[l] = <<>> /\ one[Registry] = r /\ \A m \in AllLists \ {l} : one[m] = ch[m]
  BY <1>1, <1>2
<1> HIDE DEF one, r
<1>7. /\ r \in Seq(Nodes) /\ Len(r) \in Nat /\ r = ch[Registry]
      /\ \A m \in AllLists : Len(ch[m]) \in Nat /\ \A k \in 1 .. Len(ch[m]) : ch[m][k] \in Nodes
  BY <1>1, <1>2, SoundMembers DEF r
<1>8. ASSUME NEW m \in AllLists \ {l}, NEW k \in 1 .. Len(ch[m])
      PROVE  e.item[ch[m][k]].content = h.item[ch[m][k]].content
  <2>1. ch[m][k] \in Nodes /\ In(ch[m][k], ch[m])
    BY <1>7 DEF In
  <2>2. ~In(ch[m][k], ch[l])
    BY <1>1, <1>2, <2>1 DEF Sound
  <2>3. QED
    BY <1>5, <2>1, <2>2
<1>9. \A k \in 1 .. Len(r) : e.item[r[k]].content = h.item[r[k]].content
  BY <1>1, <1>7, <1>8
<1>10. PICK p \in 1 .. Len(r) : n = r[p] /\ e.item[r[p]].content = l /\ found # {}
  <2>1. \A m : m \in found <=>
                 \E k \in 1 .. Len(r) : /\ m = r[k] /\ e.item[m].content = l
                                        /\ \A j \in 1 .. k - 1 : e.item[r[j]].content # l
    BY <1>1, <1>5, <1>6, FindIs DEF found
  <2>2. PICK k \in 1 .. Len(r) : e.item[r[k]].content = l
    BY <1>1, <1>2, <1>9 DEF Registered
  <2>3. \A j \in 1 .. k - 1 : e.item[r[j]].content # l
    <3>1. \A j \in 1 .. k - 1 : j \in 1 .. Len(r) /\ j # k
      BY <1>7
    <3>2. QED
      BY <1>2, <1>9, <2>2, <3>1 DEF Registered
  <2>4. r[k] \in found
    BY <2>1, <2>2, <2>3
  <2>5. n \in found
    BY <2>4
  <2>6. QED
    BY <2>1, <2>5
<1> DEFINE new == [one EXCEPT ![Registry] = RemoveAt(r, p)]
           d == RemoveAt(r, p)
<1>11. Freed(h, l) = g
  BY <1>4, <1>10
<1>12. /\ Sound(g, new) /\ g.alive = e.alive
       /\ \A m \in AllLists : g.list[m].iters = e.list[m].iters
       /\ \A m \in Nodes \ {n} : g.item[m].content = e.item[m].content
  <2>1. /\ Sound(e, one) /\ Registry \in AllLists /\ p \in 1 .. Len(one[Registry])
        /\ one[Registry] = r /\ n = r[p]
    BY <1>1, <1>5, <1>6, <1>10
  <2> HIDE DEF n
  <2>2. QED
    BY <2>1, RemoveKeeps
<1>13. /\ Len(d) = Len(r) - 1
       /\ \A k \in 1 .. Len(r) - 1 : d[k] = IF k < p THEN r[k] ELSE r[k+1]
  BY <1>7, RemoveAtProperties
<1> HIDE DEF g, d, n
<1>14. /\ new[Registry] = d /\ new[l] = <<>>
       /\ \A m \in ListIds \ {l} : new[m] = ch[m]
  <2>1. one \in [AllLists -> Seq(Nodes)]
    BY <1>5 DEF Sound
  <2>2. QED
    BY <1>1, <1>6, <2>1, RegistryAssumption DEF AllLists, d
<1> HIDE DEF new
<1>15. ASSUME NEW m \in AllLists \ {l}, NEW k \in 1 .. Len(ch[m]), m # Registry \/ k # p
       PROVE  g.item[ch[m][k]].content = h.item[ch[m][k]].content
  <2>1. ch[m][k] # n
    <3>1. In(ch[m][k], ch[m]) /\ In(n, r) /\ ch[m][k] \in Nodes
      BY <1>7, <1>10 DEF In
    <3>2. CASE m # Registry
      BY <1>1, <1>2, <1>7, <3>1, <3>2 DEF Sound
    <3>3. CASE m = Registry
      BY <1>1, <1>2, <1>7, <1>10, <1>15, <3>3 DEF Sound, Linked
    <3>4. QED
      BY <3>2, <3>3
  <2>2. QED
    BY <1>7, <1>8, <1>12, <2>1
<1>16. \A k \in 1 .. Len(r) : k # p => g.item[r[k]].content = h.item[r[k]].content
  BY <1>1, <1>7, <1>15
<1>17. Registered(g, d)
  <2> DEFINE q(i) == IF i < p THEN i ELSE i + 1
  <2>1. \A i \in 1 .. Len(d) : /\ q(i) \in 1 .. Len(r) /\ q(i) # p /\ d[i] = r[q(i)]
                               /\ g.item[d[i]].content = h.item[r[q(i)]].content
    <3>1. \A i \in 1 .. Len(d) : q(i) \in 1 .. Len(r) /\ q(i) # p /\ d[i] = r[q(i)]
      BY <1>7, <1>13
    <3> HIDE DEF q
    <3>2. QED
      BY <1>16, <3>1
  <2>2. \A i, j \in 1 .. Len(d) : q(i) = q(j) => i = j
    BY <1>7, <1>13
  <2>3. \A j \in 1 .. Len(r) : j # p => \E i \in 1 .. Len(d) : q(i) = j
    <3>1. ASSUME NEW j \in 1 .. Len(r), j # p PROVE \E i \in 1 .. Len(d) : q(i) = j
      <4>1. CASE j < p
        <5>1. j \in 1 .. Len(d) /\ q(j) = j
          BY <1>7, <1>13, <4>1
        <5>2. QED
          BY <5>1
      <4>2. CASE j > p
        <5>1. j - 1 \in 1 .. Len(d) /\ q(j - 1) = j
          BY <1>7, <1>13, <4>2
        <5>2. QED
          BY <5>1
      <4>3. QED
        BY <1>7, <3>1, <4>1, <4>2
    <3>2. QED
      BY <3>1
  <2> HIDE DEF q
  <2>4. h.item[r[p]].content = l /\ g.alive = h.alive \ {l}
    BY <1>5, <1>9, <1>10, <1>12
  <2>5. \A i \in 1 .. Len(d) : g.item[d[i]].content \in g.alive \ {Registry}
    <3>1. ASSUME NEW i \in 1 .. Len(d) PROVE g.item[d[i]].content \in g.alive \ {Registry}
      <4>1. PICK j \in 1 .. Len(r) : j # p /\ g.item[d[i]].content = h.item[r[j]].content
        BY <2>1, <3>1
      <4>2. h.item[r[j]].content \in h.alive \ {Registry} /\ h.item[r[j]].content # l
        BY <1>2, <2>4, <4>1 DEF Registered
      <4>3. QED
        BY <2>4, <4>1, <4>2
    <3>2. QED
      BY <3>1
  <2>6. \A i, j \in 1 .. Len(d) : g.item[d[i]].content = g.item[d[j]].content => i = j
    <3>1. SUFFICES ASSUME NEW i \in 1 .. Len(d), NEW j \in 1 .. Len(d),
                          g.item[d[i]].content = g.item[d[j]].content
                   PROVE  i = j
      OBVIOUS
    <3>2. q(i) \in 1 .. Len(r) /\ q(j) \in 1 .. Len(r)
      BY <2>1
    <3>3. h.item[r[q(i)]].content = h.item[r[q(j)]].content
      BY <2>1, <3>1
    <3>4. q(i) = q(j)
      BY <1>2, <3>2, <3>3 DEF Registered
    <3>5. QED
      BY <2>2, <3>4
  <2>7. ASSUME NEW m \in g.alive \ {Registry}
        PROVE  \E i \in 1 .. Len(d) : g.item[d[i]].content = m
    <3>1. PICK j \in 1 .. Len(r) : h.item[r[j]].content = m
      BY <1>2, <2>4 DEF Registered
    <3>2. j # p
      BY <2>4, <3>1
    <3>3. QED
      BY <2>1, <2>3, <3>1, <3>2
  <2>8. QED
    BY <2>5, <2>6, <2>7 DEF Registered
<1>18. \A m \in ListIds \ {l} : \A k \in 1 .. Len(ch[m]) :
         g.item[ch[m][k]].content = h.item[ch[m][k]].content
  BY <1>15, RegistryAssumption DEF AllLists
<1>19. \A m \in ListIds : \A k \in 1 .. Len(new[m]) : g.item[new[m][k]].content \in Values
  <2>1. SUFFICES ASSUME NEW m \in ListIds, NEW k \in 1 .. Len(new[m])
                 PROVE  g.item[new[m][k]].content \in Values
    OBVIOUS
  <2>2. m # l
    BY <1>14
  <2>3. new[m] = ch[m] /\ k \in 1 .. Len(ch[m]) /\ h.item[ch[m][k]].content \in Values
    BY <1>14, <2>2 DEF Good
  <2>4. QED
    BY <1>18, <2>2, <2>3
<1>20. Good(g, new)
  BY <1>12, <1>14, <1>17, <1>19 DEF Good
<1>21. g.alive = h.alive \ {l} /\ \A m \in AllLists \ {l} : g.list[m].iters = h.list[m].iters
  BY <1>5, <1>12
<1>22. QED
  BY <1>11, <1>14, <1>18, <1>20, <1>21

\* An iterator comes or goes.
LEMMA ReadersGood ==
  ASSUME NEW h, NEW ch, Good(h, ch), NEW l \in h.alive, NEW at, NEW d \in {1, -1},
         h.list[l].iters + d \in 0 .. SizeMod - 1
  PROVE  LET g == Readers(h, [list |-> l, at |-> at], d) IN
         /\ Good(g, ch)
         /\ g.alive = h.alive /\ g.used = h.used /\ g.item = h.item
         /\ \A m \in AllLists : g.list[m].iters = IF m = l THEN h.list[l].iters + d
                                                  ELSE h.list[m].iters
<1> DEFINE g == Readers(h, [list |-> l, at |-> at], d)
<1>1. Sound(h, ch)
  BY DEF Good
<1>2. /\ Sound(g, ch)
      /\ g.alive = h.alive /\ g.used = h.used /\ g.item = h.item
      /\ \A m \in AllLists : g.list[m].iters = IF m = l THEN h.list[l].iters + d
                                               ELSE h.list[m].iters
  BY <1>1, ReadersKeep
<1> HIDE DEF g
<1>3. Good(g, ch)
  BY <1>2 DEF Good, Registered
<1>4. QED
  BY <1>2, <1>3 DEF g

-----------------------------------------------------------------------------
(* The inductive invariant.                                                *)

\* The three static variables of simple_list().
StaticType == [loop : BOOLEAN, last : ListIds \cup {NULL}, it : IteratorType]

\* An attached iterator stands in an allocated list, on a member of it or at its end.
Stands(it, h, ch) ==
  it.list # NULL => /\ it.list \in h.alive \ {Registry}
                    /\ it.at # NULL => In(it.at, ch[it.list])

\* The reader count of each list is right, with the iterators its and static variables st.
ReadersOf(its, l) == {i \in Iterators : its[i].list = l}
Counted(h, its, st) ==
  \A l \in h.alive :
    h.list[l].iters = Cardinality(ReadersOf(its, l)) + (IF st.it.list = l THEN 1 ELSE 0)

\* simple_list() has returned the nodes vis, up to the one it stands on.
Passed(st, vis, ch) ==
  IF st.loop
  THEN /\ st.last = st.it.list /\ st.last \in ListIds
       /\ \E k \in 1 .. Len(ch[st.last]) :
            st.it.at = ch[st.last][k] /\ vis = {ch[st.last][j] : j \in 1 .. k}
  ELSE st = Idle /\ vis = {}

\* All of a state: the heap h with the sequences ch, the explicit iterators its,
\* the static variables st and the nodes vis that the current loop has returned.
State(h, ch, its, st, vis) ==
  /\ Good(h, ch)
  /\ its \in [Iterators -> IteratorType] /\ st \in StaticType
  /\ \A i \in Iterators : Stands(its[i], h, ch)
  /\ Stands(st.it, h, ch)
  /\ Counted(h, its, st)
  /\ Passed(st, vis, ch)

\* The invariant says this of the sequences that Chain reads.
Chains(h) == [l \in AllLists |-> Chain(h, l)]
IInv == State(heap, Chains(heap), iter, static, visited)

\* The sequences of a state are its chains.
LEMMA StateChains ==
  ASSUME NEW h, NEW ch, NEW its, NEW st, NEW vis, State(h, ch, its, st, vis)
  PROVE  State(h, Chains(h), its, st, vis) /\ ch = Chains(h)
<1>1. Sound(h, ch) /\ ch \in [AllLists -> Seq(Nodes)]
  BY DEF State, Good, Sound
<1>2. \A l \in AllLists : Chain(h, l) = ch[l]
  BY <1>1, SoundChains
<1>3. ch = Chains(h)
  BY <1>1, <1>2 DEF Chains
<1>4. QED
  BY <1>3

\* What ListSpec calls seq: of each allocated list the contents of its nodes.
ContentsOf(h, c) == [k \in 1 .. Len(c) |-> h.item[c[k]].content]
AbsOf(h, ch) == [l \in ListIds |-> IF l \in h.alive THEN ContentsOf(h, ch[l]) ELSE NULL]

-----------------------------------------------------------------------------
(* Lemmas: readers.                                                        *)

\* There are never more readers than a count can tell.
LEMMA ReaderBound ==
  ASSUME NEW its, NEW l
  PROVE  /\ IsFiniteSet(ReadersOf(its, l)) /\ Cardinality(ReadersOf(its, l)) \in Nat
         /\ SizeMod \in Nat /\ Cardinality(ReadersOf(its, l)) + 1 < SizeMod
<1>1. IsFiniteSet(Iterators) /\ ReadersOf(its, l) \in SUBSET Iterators
  BY SizeAssumption DEF ReadersOf
<1>2. IsFiniteSet(ReadersOf(its, l)) /\ Cardinality(ReadersOf(its, l)) <= Cardinality(Iterators)
  BY <1>1, FS_Subset
<1>3. Cardinality(Iterators) \in Nat /\ Cardinality(ReadersOf(its, l)) \in Nat
  BY <1>1, <1>2, FS_CardinalityType
<1>4. QED
  BY <1>2, <1>3, SizeAssumption

\* One iterator comes to a list, leaves it, or neither.
LEMMA ReadersChange ==
  ASSUME NEW its, NEW new, NEW i \in Iterators,
         \A j \in Iterators \ {i} : new[j] = its[j],
         NEW l
  PROVE  /\ new[i].list # l /\ its[i].list # l =>
              Cardinality(ReadersOf(new, l)) = Cardinality(ReadersOf(its, l))
         /\ new[i].list = l /\ its[i].list # l =>
              Cardinality(ReadersOf(new, l)) = Cardinality(ReadersOf(its, l)) + 1
         /\ new[i].list # l /\ its[i].list = l =>
              Cardinality(ReadersOf(new, l)) = Cardinality(ReadersOf(its, l)) - 1
<1> DEFINE S == ReadersOf(its, l)
           T == ReadersOf(new, l)
<1>1. IsFiniteSet(S) /\ Cardinality(S) \in Nat
  BY ReaderBound
<1>2. CASE new[i].list # l /\ its[i].list # l
  <2>1. S = T
    BY <1>2 DEF ReadersOf
  <2>2. QED
    BY <1>1, <1>2, <2>1
<1>3. CASE new[i].list = l /\ its[i].list # l
  <2>1. T = S \cup {i} /\ i \notin S
    BY <1>3 DEF ReadersOf
  <2>2. Cardinality(S \cup {i}) = Cardinality(S) + 1
    BY <1>1, <2>1, FS_AddElement
  <2>3. QED
    BY <1>1, <1>3, <2>1, <2>2
<1>4. CASE new[i].list # l /\ its[i].list = l
  <2>1. T = S \ {i} /\ i \in S
    BY <1>4 DEF ReadersOf
  <2>2. Cardinality(S \ {i}) = Cardinality(S) - 1
    BY <1>1, <2>1, FS_RemoveElement
  <2>3. Cardinality(T) = Cardinality(S) - 1
    <3> HIDE DEF S, T
    <3>1. QED
      BY <1>1, <2>1, <2>2
  <2>4. QED
    BY <1>4, <2>3
<1>5. QED
  BY <1>2, <1>3, <1>4

\* The reset of simple_list() takes its iterator off the count of its list.
LEMMA ResetGood ==
  ASSUME NEW h, NEW ch, Good(h, ch), Counted(h, iter, static), static \in StaticType,
         IF static.loop THEN static.it.list \in h.alive ELSE static = Idle
  PROVE  LET g == LoopReset(h) IN
         /\ Good(g, ch) /\ Counted(g, iter, Idle)
         /\ g.alive = h.alive /\ g.used = h.used /\ g.item = h.item
<1> DEFINE g == LoopReset(h)
<1>1. h.alive \subseteq AllLists /\ NULL \notin AllLists
  BY NullAssumption DEF Good, Sound, HeapType, AllLists
<1>2. CASE ~static.loop
  BY <1>2 DEF LoopReset
<1>3. CASE static.loop
  <2> DEFINE l == static.it.list
             at == static.it.at
  <2>1. static.it = [list |-> l, at |-> at] /\ l \in h.alive
    BY <1>3 DEF StaticType, IteratorType
  <2>2. /\ h.list[l].iters = Cardinality(ReadersOf(iter, l)) + 1
        /\ Cardinality(ReadersOf(iter, l)) \in Nat /\ SizeMod \in Nat
        /\ Cardinality(ReadersOf(iter, l)) + 1 < SizeMod
    BY <2>1, ReaderBound DEF Counted
  <2>3. h.list[l].iters + (-1) = Cardinality(ReadersOf(iter, l))
    BY <2>2
  <2>4. h.list[l].iters + (-1) \in 0 .. SizeMod - 1
    BY <2>2, <2>3
  <2>5. g = Readers(h, [list |-> l, at |-> at], -1)
    BY <1>3, <2>1 DEF LoopReset
  <2> HIDE DEF l, at
  <2>6. /\ Good(g, ch)
        /\ g.alive = h.alive /\ g.used = h.used /\ g.item = h.item
        /\ \A m \in AllLists : g.list[m].iters = IF m = l THEN h.list[l].iters + (-1)
                                                 ELSE h.list[m].iters
    <3>1. -1 \in {1, -1}
      OBVIOUS
    <3>2. QED
      BY <2>1, <2>4, <2>5, <3>1, ReadersGood
  <2> HIDE DEF g
  <2>7. ASSUME NEW m \in g.alive
        PROVE  g.list[m].iters = Cardinality(ReadersOf(iter, m))
                                 + (IF Idle.it.list = m THEN 1 ELSE 0)
    <3>1. m \in h.alive /\ m # NULL /\ Idle.it.list = NULL /\ m \in AllLists
      BY <1>1, <2>6 DEF Idle, Detached
    <3>2. h.list[m].iters = Cardinality(ReadersOf(iter, m)) + (IF l = m THEN 1 ELSE 0)
      BY <3>1 DEF Counted, l
    <3>3. Cardinality(ReadersOf(iter, m)) \in Nat
      BY ReaderBound
    <3>4. QED
      BY <2>3, <2>6, <3>1, <3>2, <3>3
  <2>8. QED
    BY <2>6, <2>7 DEF Counted, g
<1>4. QED
  BY <1>2, <1>3 DEF StaticType

-----------------------------------------------------------------------------
(* Lemmas: the operations keep the invariant, and do to the sequences what *)
(* ListSpec says.                                                          *)

\* What the lists of the present state hold.
Abs == AbsOf(heap, Chains(heap))

\* What the invariant says of a heap and its chains.
LEMMA StateFacts ==
  ASSUME NEW h, NEW ch, NEW its, NEW st, NEW vis, State(h, ch, its, st, vis)
  PROVE  /\ Good(h, ch) /\ Sound(h, ch) /\ Registry \in h.alive
         /\ h.alive \subseteq AllLists /\ ch \in [AllLists -> Seq(Nodes)]
         /\ h.item \in [Nodes -> ItemType] /\ NULL \notin AllLists
         /\ \A l \in AllLists :
              /\ ch[l] \in Seq(Nodes) /\ Len(ch[l]) \in Nat
              /\ \A k \in 1 .. Len(ch[l]) : ch[l][k] \in Nodes /\ ch[l][k] \in h.used
              /\ l \notin h.alive => ch[l] = <<>> /\ h.list[l].iters = 0
<1>1. Good(h, ch) /\ Sound(h, ch)
  BY DEF State, Good
<1>2. /\ Registry \in h.alive /\ h.alive \subseteq AllLists
      /\ ch \in [AllLists -> Seq(Nodes)] /\ h.item \in [Nodes -> ItemType]
      /\ \A l \in AllLists \ h.alive : h.list[l] = NoItems
  BY <1>1 DEF Sound, HeapType
<1>3. NULL \notin AllLists
  BY NullAssumption DEF AllLists
<1>4. NoItems.iters = 0
  BY DEF NoItems
<1>5. QED
  BY <1>1, <1>2, <1>3, <1>4, SoundMembers

\* The counts of readers stay right where lists come and no iterator moves.
LEMMA CountedStays ==
  ASSUME NEW h, NEW ch, NEW its, NEW st, NEW vis, State(h, ch, its, st, vis),
         NEW g, h.alive \subseteq g.alive, g.alive \subseteq AllLists,
         \A m \in AllLists : g.list[m].iters = h.list[m].iters
  PROVE  Counted(g, its, st)
<1>1. /\ h.alive \subseteq AllLists /\ NULL \notin AllLists
      /\ \A l \in AllLists : l \notin h.alive => h.list[l].iters = 0
  BY StateFacts
<1> SUFFICES ASSUME NEW l \in g.alive
             PROVE  g.list[l].iters = Cardinality(ReadersOf(its, l))
                                      + (IF st.it.list = l THEN 1 ELSE 0)
  BY DEF Counted
<1>2. l \in AllLists
  OBVIOUS
<1>3. CASE l \in h.alive
  BY <1>2, <1>3 DEF State, Counted
<1>4. CASE l \notin h.alive
  <2>1. g.list[l].iters = 0
    BY <1>1, <1>2, <1>4
  <2>2. st.it.list # l /\ \A i \in Iterators : its[i].list # l
    BY <1>1, <1>2, <1>4 DEF State, Stands
  <2>3. ReadersOf(its, l) = {}
    BY <2>2 DEF ReadersOf
  <2>4. Cardinality(ReadersOf(its, l)) = 0
    BY <2>3, FS_EmptySet
  <2>5. QED
    BY <2>1, <2>2, <2>4
<1>5. QED
  BY <1>3, <1>4

\* A state whose lists only grew, at their ends, and whose iterators did not move.
LEMMA Carried ==
  ASSUME NEW h, NEW ch, NEW its, NEW st, NEW vis, State(h, ch, its, st, vis),
         NEW g, NEW new, Good(g, new), h.alive \subseteq g.alive,
         \A m \in AllLists : g.list[m].iters = h.list[m].iters,
         \A m \in ListIds : \A k \in 1 .. Len(ch[m]) :
           k \in 1 .. Len(new[m]) /\ new[m][k] = ch[m][k]
  PROVE  State(g, new, its, st, vis)
<1>1. /\ h.alive \subseteq AllLists /\ NULL \notin AllLists
      /\ \A l \in AllLists : l \notin h.alive => h.list[l].iters = 0
  BY StateFacts
<1>2. AllLists \ {Registry} = ListIds
  BY RegistryAssumption DEF AllLists
<1>3. ASSUME NEW it, Stands(it, h, ch)
      PROVE  Stands(it, g, new)
  <2>1. CASE it.list = NULL
    BY <2>1 DEF Stands
  <2>2. CASE it.list # NULL
    <3>1. it.list \in h.alive \ {Registry} /\ it.list \in ListIds
      BY <1>1, <1>2, <1>3, <2>2 DEF Stands
    <3>2. In(it.at, ch[it.list]) => In(it.at, new[it.list])
      BY <3>1 DEF In
    <3>3. QED
      BY <1>3, <2>2, <3>1, <3>2 DEF Stands
  <2>3. QED
    BY <2>1, <2>2
<1>4. Counted(g, its, st)
  BY CountedStays DEF Good, Sound, HeapType
<1>5. Passed(st, vis, new)
  <2>1. CASE ~st.loop
    BY <2>1 DEF State, Passed
  <2>2. CASE st.loop
    <3> DEFINE l == st.last
    <3>1. l = st.it.list /\ l \in ListIds
      BY <2>2 DEF State, Passed
    <3>2. PICK k \in 1 .. Len(ch[l]) :
            st.it.at = ch[l][k] /\ vis = {ch[l][j] : j \in 1 .. k}
      BY <2>2 DEF State, Passed
    <3>3. Len(ch[l]) \in Nat
      BY <1>1, <3>1, StateFacts DEF AllLists
    <3>4. \A j \in 1 .. k : j \in 1 .. Len(ch[l])
      BY <3>2, <3>3
    <3>5. \A j \in 1 .. k : new[l][j] = ch[l][j]
      BY <3>1, <3>4
    <3>6. k \in 1 .. Len(new[l]) /\ new[l][k] = ch[l][k] /\ {new[l][j] : j \in 1 .. k} = vis
      BY <3>1, <3>2, <3>5
    <3>7. QED
      BY <2>2, <3>1, <3>2, <3>6 DEF Passed
  <2>3. QED
    BY <2>1, <2>2
<1>6. QED
  BY <1>3, <1>4, <1>5 DEF State

\* The sequence of a list depends on its nodes and on what they hold.
LEMMA SameAbs ==
  ASSUME NEW h, NEW ch, NEW g, NEW new, NEW l \in ListIds,
         l \in g.alive <=> l \in h.alive, new[l] = ch[l],
         \A k \in 1 .. Len(ch[l]) : g.item[ch[l][k]].content = h.item[ch[l][k]].content
  PROVE  AbsOf(g, new)[l] = AbsOf(h, ch)[l]
<1>1. ContentsOf(g, new[l]) = ContentsOf(h, ch[l])
  BY DEF ContentsOf
<1>2. QED
  BY <1>1 DEF AbsOf

\* The invariant after a step, from any sequences that fit the new heap.
LEMMA AfterStep ==
  ASSUME NEW new, State(heap', new, iter', static', visited')
  PROVE  IInv' /\ Abs' = AbsOf(heap', new)
<1>1. State(heap', Chains(heap'), iter', static', visited') /\ new = Chains(heap')
  BY StateChains
<1>2. QED
  BY <1>1 DEF IInv, Abs

\* create_list: a new list, empty.
LEMMA CreateStep ==
  ASSUME IInv, NEW l \in ListIds, CreateList(l)
  PROVE  IInv' /\ Abs' = [Abs EXCEPT ![l] = <<>>]
<1> DEFINE ch == Chains(heap)
<1>1. State(heap, ch, iter, static, visited)
  BY DEF IInv
<1> HIDE DEF ch
<1>2. PICK n \in Nodes \ heap.used :
        heap' = add_to_list([heap EXCEPT !.alive = @ \cup {l}], Registry, l, n)
  BY DEF CreateList, FreeNodes
<1> DEFINE new == [ch EXCEPT ![Registry] = Append(@, n)]
<1>3. /\ Good(heap, ch) /\ ch \in [AllLists -> Seq(Nodes)] /\ l \in AllLists /\ l \notin heap.alive
      /\ \A m \in AllLists : \A k \in 1 .. Len(ch[m]) : ch[m][k] \in Nodes /\ ch[m][k] # n
      /\ ch[l] = <<>>
  <2>1. l \in AllLists /\ l \notin heap.alive
    BY DEF CreateList, AllLists
  <2>2. QED
    BY <1>1, <2>1, StateFacts
<1>4. /\ Good(heap', new)
      /\ heap'.alive = heap.alive \cup {l}
      /\ \A m \in AllLists : heap'.list[m].iters = heap.list[m].iters
      /\ SameContents(heap, heap', {n})
  <2> DEFINE g == add_to_list([heap EXCEPT !.alive = @ \cup {l}], Registry, l, n)
  <2>1. Good(heap, ch) /\ l \in ListIds \ heap.alive /\ n \in Nodes \ heap.used
    BY <1>3
  <2>2. /\ Good(g, new)
        /\ g.alive = heap.alive \cup {l}
        /\ \A m \in AllLists : g.list[m].iters = heap.list[m].iters
        /\ SameContents(heap, g, {n})
    BY <2>1, CreateGood
  <2> HIDE DEF g, new
  <2>3. heap' = g
    BY <1>2 DEF g
  <2>4. QED
    BY <2>2, <2>3
<1>5. \A m \in ListIds : m \in AllLists /\ new[m] = ch[m]
  BY <1>3, RegistryAssumption DEF AllLists
<1> HIDE DEF new
<1>6. State(heap', new, iter, static, visited)
  BY <1>1, <1>4, <1>5, Carried
<1>7. State(heap', new, iter', static', visited')
  BY <1>6 DEF CreateList
<1>8. IInv' /\ Abs' = AbsOf(heap', new)
  BY <1>7, AfterStep
<1>9. AbsOf(heap', new) = [AbsOf(heap, ch) EXCEPT ![l] = <<>>]
  <2>1. AbsOf(heap', new)[l] = <<>>
    BY <1>3, <1>4, <1>5 DEF AbsOf, ContentsOf
  <2>2. ASSUME NEW m \in ListIds \ {l}
        PROVE  AbsOf(heap', new)[m] = AbsOf(heap, ch)[m]
    <3>1. /\ m \in ListIds /\ (m \in heap'.alive <=> m \in heap.alive) /\ new[m] = ch[m]
          /\ \A k \in 1 .. Len(ch[m]) :
               heap'.item[ch[m][k]].content = heap.item[ch[m][k]].content
      BY <1>3, <1>4, <1>5, <2>2 DEF SameContents
    <3>2. QED
      BY <3>1, SameAbs
  <2>3. QED
    BY <2>1, <2>2 DEF AbsOf
<1>10. QED
  BY <1>8, <1>9 DEF Abs, ch

\* add_to_list, in any state: the value goes to the end.
LEMMA AddState ==
  ASSUME NEW h, NEW ch, NEW its, NEW st, NEW vis, State(h, ch, its, st, vis),
         NEW l \in ListIds, l \in h.alive, NEW n \in Nodes \ h.used, NEW v \in Values
  PROVE  LET g == add_to_list(h, l, v, n) IN
         \E new : /\ State(g, new, its, st, vis)
                  /\ AbsOf(g, new) = [AbsOf(h, ch) EXCEPT ![l] = Append(@, v)]
<1> DEFINE g   == add_to_list(h, l, v, n)
           d   == Append(ch[l], n)
           new == [ch EXCEPT ![l] = Append(@, n)]
<1>1. State(h, ch, its, st, vis)
  OBVIOUS
<1>3. /\ Good(h, ch) /\ ch \in [AllLists -> Seq(Nodes)] /\ l \in AllLists /\ l \in h.alive
      /\ ch[l] \in Seq(Nodes) /\ Len(ch[l]) \in Nat
      /\ \A m \in AllLists : \A k \in 1 .. Len(ch[m]) : ch[m][k] \in Nodes /\ ch[m][k] # n
  <2>1. l \in AllLists /\ l \in h.alive
    BY DEF AllLists
  <2>2. QED
    BY <1>1, <2>1, StateFacts
<1>4. /\ Good(g, new)
      /\ g.alive = h.alive
      /\ \A m \in AllLists : g.list[m].iters = h.list[m].iters
      /\ SameContents(h, g, {n}) /\ g.item[n].content = v
  <2>1. Good(h, ch)
    BY <1>3
  <2>2. Good(g, new)
    BY <2>1, AddGood
  <2> HIDE DEF new, d
  <2>3. /\ g.alive = h.alive
        /\ \A m \in AllLists : g.list[m].iters = h.list[m].iters
        /\ SameContents(h, g, {n}) /\ g.item[n].content = v
    BY <2>1, AddEffect
  <2>4. QED
    BY <2>2, <2>3
<1> HIDE DEF g
<1>5. /\ Len(d) = Len(ch[l]) + 1 /\ d[Len(ch[l]) + 1] = n
      /\ \A k \in 1 .. Len(ch[l]) : d[k] = ch[l][k]
  BY <1>3, AppendProperties
<1> HIDE DEF d
<1>6. new[l] = d /\ \A m \in ListIds \ {l} : m \in AllLists /\ new[m] = ch[m]
  BY <1>3 DEF AllLists, d
<1> HIDE DEF new
<1>7. \A m \in ListIds : \A k \in 1 .. Len(ch[m]) :
        k \in 1 .. Len(new[m]) /\ new[m][k] = ch[m][k]
  <2>1. \A k \in 1 .. Len(ch[l]) : k \in 1 .. Len(d)
    BY <1>3, <1>5
  <2>2. QED
    BY <1>5, <1>6, <2>1
<1>8. State(g, new, its, st, vis)
  BY <1>1, <1>4, <1>7, Carried
<1>9. \A m \in AllLists : \A k \in 1 .. Len(ch[m]) :
         g.item[ch[m][k]].content = h.item[ch[m][k]].content
  BY <1>3, <1>4 DEF SameContents
<1>10. ContentsOf(g, d) = Append(ContentsOf(h, ch[l]), v)
  <2> DEFINE s == ContentsOf(h, ch[l])
             t == ContentsOf(g, d)
  <2>1. s \in Seq(Contents \cup {NULL}) /\ Len(s) = Len(ch[l])
    <3>1. h.item \in [Nodes -> ItemType]
      BY <1>1, StateFacts
    <3>2. \A k \in 1 .. Len(ch[l]) : h.item[ch[l][k]].content \in Contents \cup {NULL}
      BY <1>3, <3>1 DEF ItemType
    <3>3. QED
      BY <1>3, <3>2 DEF ContentsOf
  <2>2. v \in Contents \cup {NULL}
    BY DEF Contents
  <2>3. /\ Len(Append(s, v)) = Len(s) + 1 /\ Append(s, v)[Len(s) + 1] = v
        /\ \A k \in 1 .. Len(s) : Append(s, v)[k] = s[k]
        /\ Append(s, v) \in Seq(Contents \cup {NULL})
    BY <2>1, <2>2, AppendProperties
  <2>4. \A k \in 1 .. Len(ch[l]) : t[k] = s[k]
    <3>1. \A k \in 1 .. Len(ch[l]) : k \in 1 .. Len(d)
      BY <1>3, <1>5
    <3>2. QED
      BY <1>3, <1>5, <1>9, <3>1 DEF ContentsOf
  <2>5. t[Len(ch[l]) + 1] = v
    <3>1. Len(ch[l]) + 1 \in 1 .. Len(d)
      BY <1>3, <1>5
    <3>2. QED
      BY <1>4, <1>5, <3>1 DEF ContentsOf
  <2>6. t = [k \in 1 .. Len(ch[l]) + 1 |-> t[k]]
    BY <1>5 DEF ContentsOf
  <2>7. Append(s, v) = [k \in 1 .. Len(s) + 1 |-> Append(s, v)[k]]
    <3> DEFINE a == Append(s, v)
    <3>1. a \in Seq(Contents \cup {NULL}) /\ Len(a) = Len(s) + 1
      BY <2>3
    <3> HIDE DEF a, s
    <3>2. a = [k \in 1 .. Len(s) + 1 |-> a[k]]
      BY <3>1
    <3>3. QED
      BY <3>2 DEF a
  <2>8. \A k \in 1 .. Len(ch[l]) + 1 : t[k] = Append(s, v)[k]
    <3> HIDE DEF s, t
    <3>1. \A k \in 1 .. Len(ch[l]) + 1 : k \in 1 .. Len(ch[l]) \/ k = Len(ch[l]) + 1
      BY <1>3
    <3>2. QED
      BY <2>1, <2>3, <2>4, <2>5, <3>1
  <2> HIDE DEF s, t
  <2>9. t = Append(s, v)
    BY <2>1, <2>6, <2>7, <2>8
  <2>10. QED
    BY <2>9 DEF s, t
<1>11. AbsOf(g, new) = [AbsOf(h, ch) EXCEPT ![l] = Append(@, v)]
  <2>1. AbsOf(g, new)[l] = Append(AbsOf(h, ch)[l], v)
    BY <1>3, <1>4, <1>6, <1>10 DEF AbsOf
  <2>2. ASSUME NEW m \in ListIds \ {l}
        PROVE  AbsOf(g, new)[m] = AbsOf(h, ch)[m]
    <3>1. /\ m \in ListIds /\ (m \in g.alive <=> m \in h.alive) /\ new[m] = ch[m]
          /\ \A k \in 1 .. Len(ch[m]) :
               g.item[ch[m][k]].content = h.item[ch[m][k]].content
      BY <1>4, <1>6, <1>9, <2>2
    <3>2. QED
      BY <3>1, SameAbs
  <2>3. QED
    BY <2>1, <2>2 DEF AbsOf
<1>12. QED
  BY <1>8, <1>11 DEF g

\* add_to_list: the value goes to the end.
LEMMA AddStep ==
  ASSUME IInv, NEW l \in ListIds, NEW v \in Values, AddToList(l, v)
  PROVE  IInv' /\ Abs' = [Abs EXCEPT ![l] = Append(@, v)]
<1> DEFINE ch == Chains(heap)
<1>1. State(heap, ch, iter, static, visited) /\ l \in heap.alive
  BY DEF IInv, AddToList
<1> HIDE DEF ch
<1>2. PICK n \in Nodes \ heap.used : heap' = add_to_list(heap, l, v, n)
  BY DEF AddToList, FreeNodes
<1>3. PICK new : /\ State(add_to_list(heap, l, v, n), new, iter, static, visited)
                 /\ AbsOf(add_to_list(heap, l, v, n), new)
                      = [AbsOf(heap, ch) EXCEPT ![l] = Append(@, v)]
  BY <1>1, AddState
<1>4. State(heap', new, iter', static', visited')
  BY <1>2, <1>3 DEF AddToList
<1>5. IInv' /\ Abs' = AbsOf(heap', new)
  BY <1>4, AfterStep
<1>6. QED
  BY <1>2, <1>3, <1>5 DEF Abs, ch

\* No iterator stands on n; b is a with what is at place p of list l taken out.
NobodyAt(its, st, n) == st.it.at # n /\ \A i \in Iterators : its[i].at # n
TakenOut(a, b, l, p) == b = [a EXCEPT ![l] = RemoveAt(@, p)]

\* remove_from_list of the node at place p of a list, in a state where no iterator stands on it.
LEMMA RemoveState ==
  ASSUME NEW h, NEW ch, NEW its, NEW st, NEW vis, State(h, ch, its, st, vis),
         NEW l \in ListIds, NEW p \in 1 .. Len(ch[l]), NobodyAt(its, st, ch[l][p])
  PROVE  LET n == ch[l][p]
             g == remove_from_list(h, l, n) IN
         \E new : State(g, new, its, st, vis \ {n}) /\ TakenOut(AbsOf(h, ch), AbsOf(g, new), l, p)
<1> DEFINE n   == ch[l][p]
           g   == remove_from_list(h, l, n)
           c   == ch[l]
           d   == RemoveAt(c, p)
           new == [ch EXCEPT ![l] = RemoveAt(@, p)]
<1>1. /\ Good(h, ch) /\ ch \in [AllLists -> Seq(Nodes)] /\ l \in AllLists
      /\ \A m \in AllLists : /\ Len(ch[m]) \in Nat /\ ch[m] \in Seq(Nodes)
                             /\ \A k \in 1 .. Len(ch[m]) : ch[m][k] \in Nodes
      /\ h.item \in [Nodes -> ItemType] /\ c # <<>>
      /\ l \notin h.alive => c = <<>>
  <2>1. l \in AllLists
    BY DEF AllLists
  <2>2. Good(h, ch) /\ ch \in [AllLists -> Seq(Nodes)] /\ h.item \in [Nodes -> ItemType]
    BY StateFacts
  <2>3. \A m \in AllLists : /\ ch[m] \in Seq(Nodes) /\ Len(ch[m]) \in Nat
                            /\ \A k \in 1 .. Len(ch[m]) : ch[m][k] \in Nodes
                            /\ m \notin h.alive => ch[m] = <<>>
    BY StateFacts
  <2>4. c # <<>>
    BY <2>1, <2>3
  <2>5. QED
    BY <2>1, <2>2, <2>3, <2>4
<1>2. Good(g, new)
  BY <1>1, RemoveGood
<1>3. /\ n \in Nodes /\ g.alive = h.alive
      /\ \A m \in AllLists : g.list[m].iters = h.list[m].iters
      /\ SameContents(h, g, {n})
  <2>1. Good(h, ch) /\ n \in Nodes /\ In(n, ch[l])
    BY <1>1 DEF In
  <2> HIDE DEF new, d, c, n
  <2>2. QED
    BY <2>1, RemoveEffect
<1> HIDE DEF g
<1>4. new[l] = d /\ \A m \in AllLists \ {l} : new[m] = ch[m]
  BY <1>1
<1> HIDE DEF new
<1>5. /\ Len(d) = Len(c) - 1
      /\ \A k \in 1 .. Len(c) - 1 : d[k] = IF k < p THEN c[k] ELSE c[k+1]
  <2>1. c \in Seq(Nodes) /\ p \in 1 .. Len(c)
    BY <1>1
  <2> HIDE DEF c
  <2>2. QED
    BY <2>1, RemoveAtProperties
<1> HIDE DEF d
<1>6. /\ \A j, k \in 1 .. Len(c) : c[j] = c[k] => j = k
      /\ \A m \in AllLists \ {l} : \A k \in 1 .. Len(ch[m]) : ch[m][k] # n
  <2>1. Sound(h, ch)
    BY <1>1 DEF Good
  <2>2. \A j, k \in 1 .. Len(c) : c[j] = c[k] => j = k
    BY <1>1, <2>1 DEF Sound, Linked
  <2>3. In(n, ch[l])
    BY DEF In
  <2>4. ASSUME NEW m \in AllLists \ {l}, NEW k \in 1 .. Len(ch[m]), ch[m][k] = n
        PROVE  FALSE
    <3>1. In(n, ch[m])
      BY <2>4 DEF In
    <3>2. QED
      BY <1>1, <1>3, <2>1, <2>3, <3>1 DEF Sound
  <2>5. QED
    BY <2>2, <2>4
<1>7. n = c[p] /\ p \in 1 .. Len(c) /\ Len(c) \in Nat
  BY <1>1
<1>8. ch[l] = c
  OBVIOUS
<1>9. /\ l \in ListIds /\ st.it.at # n /\ \A i \in Iterators : its[i].at # n
      /\ State(h, ch, its, st, vis)
  BY DEF NobodyAt
<1> HIDE DEF n, c
<1>10. ASSUME NEW k \in 1 .. Len(c), k # p
       PROVE  IF k < p THEN k \in 1 .. Len(d) /\ d[k] = c[k]
                       ELSE k - 1 \in 1 .. Len(d) /\ d[k-1] = c[k]
  <2>1. CASE k < p
    BY <1>5, <1>7, <2>1
  <2>2. CASE k > p
    <3>1. k - 1 \in 1 .. Len(c) - 1 /\ ~(k - 1 < p) /\ k - 1 + 1 = k
      BY <1>7, <2>2
    <3>2. d[k-1] = c[k-1+1]
      BY <1>5, <3>1
    <3>3. QED
      BY <1>5, <1>7, <2>2, <3>1, <3>2
  <2>3. QED
    BY <1>7, <1>10, <2>1, <2>2
<1>11. \A m \in AllLists : \A k \in 1 .. Len(ch[m]) :
         ch[m][k] # n => g.item[ch[m][k]].content = h.item[ch[m][k]].content
  BY <1>1, <1>3 DEF SameContents
<1>12. ASSUME NEW it, Stands(it, h, ch), it.at # n
       PROVE  Stands(it, g, new)
  <2>1. CASE it.list = NULL
    BY <2>1 DEF Stands
  <2>2. CASE it.list # NULL /\ it.at = NULL
    BY <1>3, <1>12, <2>2 DEF Stands
  <2>3. CASE it.list # NULL /\ it.at # NULL
    <3>1. it.list \in h.alive \ {Registry} /\ In(it.at, ch[it.list]) /\ it.list \in AllLists
      <4>1. h.alive \subseteq AllLists
        BY <1>9, StateFacts
      <4>2. QED
        BY <1>12, <2>3, <4>1 DEF Stands
    <3>2. In(it.at, new[it.list])
      <4>1. CASE it.list # l
        BY <1>4, <3>1, <4>1
      <4>2. CASE it.list = l
        <5>1. PICK k \in 1 .. Len(c) : c[k] = it.at
          BY <1>8, <3>1, <4>2 DEF In
        <5>2. k # p
          BY <1>7, <1>12, <5>1
        <5>3. CASE k < p
          BY <1>4, <1>10, <4>2, <5>1, <5>2, <5>3 DEF In
        <5>4. CASE ~(k < p)
          BY <1>4, <1>10, <4>2, <5>1, <5>2, <5>4 DEF In
        <5>5. QED
          BY <5>3, <5>4
      <4>3. QED
        BY <4>1, <4>2
    <3>3. QED
      BY <1>3, <3>1, <3>2 DEF Stands
  <2>4. QED
    BY <2>1, <2>2, <2>3
<1>13. Counted(g, its, st)
  <2>1. h.alive \subseteq AllLists /\ Counted(h, its, st)
    BY <1>9, StateFacts DEF State
  <2>2. QED
    BY <1>3, <2>1 DEF Counted
<1>14. Passed(st, vis \ {n}, new)
  <2>1. CASE ~st.loop
    <3>1. st = Idle /\ vis = {}
      BY <1>9, <2>1 DEF State, Passed
    <3>2. vis \ {n} = {}
      BY <3>1
    <3>3. QED
      BY <2>1, <3>1, <3>2 DEF Passed
  <2>2. CASE st.loop
    <3> DEFINE m == st.last
    <3>1. m = st.it.list /\ m \in ListIds /\ m \in AllLists
      BY <1>9, <2>2 DEF State, Passed, AllLists
    <3>2. PICK k \in 1 .. Len(ch[m]) :
            st.it.at = ch[m][k] /\ vis = {ch[m][j] : j \in 1 .. k}
      BY <1>9, <2>2 DEF State, Passed
    <3>3. \A j \in 1 .. k : j \in 1 .. Len(ch[m])
      BY <1>1, <3>1, <3>2
    <3> HIDE DEF m
    <3>4. \E q \in 1 .. Len(new[m]) :
            st.it.at = new[m][q] /\ vis \ {n} = {new[m][j] : j \in 1 .. q}
      <4>1. CASE m # l
        <5>1. new[m] = ch[m] /\ n \notin vis
          BY <1>4, <1>6, <3>1, <3>2, <3>3, <4>1
        <5>2. QED
          BY <3>2, <5>1
      <4>2. CASE m = l
        <5>1. new[m] = d /\ ch[m] = c
          BY <1>4, <1>8, <4>2
        <5>2. k # p /\ k \in 1 .. Len(c)
          BY <1>7, <1>9, <3>2, <5>1
        <5>3. CASE k < p
          <6>1. k \in 1 .. Len(d) /\ d[k] = c[k]
            BY <1>10, <5>2, <5>3
          <6>2. \A j \in 1 .. k : d[j] = c[j] /\ c[j] # n
            <7>1. \A j \in 1 .. k : j \in 1 .. Len(c) /\ j < p /\ j # p
              BY <1>7, <5>2, <5>3
            <7>2. QED
              BY <1>6, <1>7, <1>10, <7>1
          <6>3. vis \ {n} = {d[j] : j \in 1 .. k}
            BY <3>2, <5>1, <6>2
          <6>4. \E q \in 1 .. Len(d) : st.it.at = d[q] /\ vis \ {n} = {d[j] : j \in 1 .. q}
            BY <3>2, <5>1, <6>1, <6>3
          <6>5. QED
            BY <5>1, <6>4
        <5>4. CASE k > p
          <6>1. k - 1 \in 1 .. Len(d) /\ d[k-1] = c[k]
            BY <1>7, <1>10, <5>2, <5>4
          <6>2. ASSUME NEW x \in vis \ {n}
                PROVE  x \in {d[j] : j \in 1 .. k - 1}
            <7>1. PICK j \in 1 .. k : x = c[j]
              BY <3>2, <5>1
            <7>2. j # p /\ j \in 1 .. Len(c)
              BY <1>7, <3>3, <5>1, <6>2, <7>1
            <7>3. CASE j < p
              <8>1. j \in 1 .. k - 1 /\ d[j] = c[j]
                BY <1>7, <1>10, <5>2, <5>4, <7>2, <7>3
              <8>2. QED
                BY <7>1, <8>1
            <7>4. CASE ~(j < p)
              <8>1. j - 1 \in 1 .. k - 1 /\ d[j-1] = c[j]
                BY <1>7, <1>10, <5>2, <5>4, <7>2, <7>4
              <8>2. QED
                BY <7>1, <8>1
            <7>5. QED
              BY <7>3, <7>4
          <6>3. ASSUME NEW j \in 1 .. k - 1
                PROVE  d[j] \in vis \ {n}
            <7>1. j \in 1 .. Len(c) - 1 /\ j \in 1 .. k /\ j + 1 \in 1 .. k
              BY <1>7, <5>2
            <7>2. j \in 1 .. Len(c) /\ j + 1 \in 1 .. Len(c)
              BY <1>7, <7>1
            <7>3. CASE j < p
              <8>1. d[j] = c[j]
                BY <1>5, <7>1, <7>3
              <8>2. c[j] # n
                BY <1>6, <1>7, <7>2, <7>3
              <8>3. QED
                BY <3>2, <5>1, <7>1, <8>1, <8>2
            <7>4. CASE ~(j < p)
              <8>1. d[j] = c[j+1]
                BY <1>5, <7>1, <7>4
              <8>2. c[j+1] # n
                BY <1>6, <1>7, <7>2, <7>4
              <8>3. QED
                BY <3>2, <5>1, <7>1, <8>1, <8>2
            <7>5. QED
              BY <7>3, <7>4
          <6>4. vis \ {n} = {d[j] : j \in 1 .. k - 1}
            BY <6>2, <6>3
          <6>5. \E q \in 1 .. Len(d) : st.it.at = d[q] /\ vis \ {n} = {d[j] : j \in 1 .. q}
            BY <3>2, <5>1, <6>1, <6>4
          <6>6. QED
            BY <5>1, <6>5
        <5>5. QED
          BY <1>7, <5>2, <5>3, <5>4
      <4>3. QED
        BY <4>1, <4>2
    <3>5. QED
      BY <2>2, <3>1, <3>4 DEF Passed, m
  <2>3. QED
    BY <2>1, <2>2
<1>15. State(g, new, its, st, vis \ {n})
  BY <1>2, <1>9, <1>12, <1>13, <1>14 DEF State
<1>16. ContentsOf(g, d) = RemoveAt(ContentsOf(h, c), p)
  <2> DEFINE s == ContentsOf(h, c)
             t == ContentsOf(g, d)
             a == RemoveAt(s, p)
  <2>1. s \in Seq(Contents \cup {NULL}) /\ Len(s) = Len(c)
    <3>1. \A k \in 1 .. Len(c) : h.item[c[k]].content \in Contents \cup {NULL}
      BY <1>1, <1>8 DEF ItemType
    <3>2. QED
      BY <1>7, <3>1 DEF ContentsOf
  <2> HIDE DEF s
  <2>2. /\ a \in Seq(Contents \cup {NULL}) /\ Len(a) = Len(c) - 1
        /\ \A i \in 1 .. Len(c) - 1 : a[i] = IF i < p THEN s[i] ELSE s[i+1]
    BY <1>7, <2>1, RemoveAtProperties
  <2> HIDE DEF a
  <2>3. ASSUME NEW k \in 1 .. Len(c) - 1
        PROVE  h.item[d[k]].content = a[k] /\ g.item[d[k]].content = h.item[d[k]].content
    <3>1. k \in 1 .. Len(c) /\ k + 1 \in 1 .. Len(c)
      BY <1>7
    <3>2. \A j \in 1 .. Len(c) : s[j] = h.item[c[j]].content
      BY DEF s, ContentsOf
    <3>3. CASE k < p
      <4>1. d[k] = c[k] /\ a[k] = s[k]
        BY <1>5, <2>2, <3>3
      <4>2. c[k] # n
        BY <1>6, <1>7, <3>1, <3>3
      <4>3. QED
        BY <1>1, <1>8, <1>11, <3>1, <3>2, <4>1, <4>2
    <3>4. CASE ~(k < p)
      <4>1. d[k] = c[k+1] /\ a[k] = s[k+1]
        BY <1>5, <2>2, <3>4
      <4>2. c[k+1] # n
        BY <1>6, <1>7, <3>1, <3>4
      <4>3. QED
        BY <1>1, <1>8, <1>11, <3>1, <3>2, <4>1, <4>2
    <3>5. QED
      BY <3>3, <3>4
  <2>4. t = [k \in 1 .. Len(c) - 1 |-> g.item[d[k]].content]
    BY <1>5 DEF ContentsOf
  <2>5. a = [k \in 1 .. Len(c) - 1 |-> a[k]]
    BY <2>2
  <2>6. t = a
    BY <2>3, <2>4, <2>5
  <2>7. QED
    BY <2>6 DEF s, t, a
<1>17. AbsOf(g, new) = [AbsOf(h, ch) EXCEPT ![l] = RemoveAt(@, p)]
  <2>1. l \in h.alive
    BY <1>1
  <2>2. AbsOf(g, new)[l] = RemoveAt(AbsOf(h, ch)[l], p)
    BY <1>3, <1>4, <1>8, <1>16, <2>1 DEF AbsOf
  <2>3. ASSUME NEW m \in ListIds \ {l}
        PROVE  AbsOf(g, new)[m] = AbsOf(h, ch)[m]
    <3>1. m \in AllLists \ {l}
      BY DEF AllLists
    <3>2. m \in ListIds /\ (m \in g.alive <=> m \in h.alive) /\ new[m] = ch[m]
      BY <1>3, <1>4, <3>1
    <3>3. \A k \in 1 .. Len(ch[m]) : g.item[ch[m][k]].content = h.item[ch[m][k]].content
      BY <1>6, <1>11, <3>1
    <3>4. ContentsOf(g, new[m]) = ContentsOf(h, ch[m])
      BY <3>2, <3>3 DEF ContentsOf
    <3>5. QED
      BY <3>2, <3>4 DEF AbsOf
  <2>4. QED
    BY <2>2, <2>3 DEF AbsOf
<1>18. QED
  BY <1>15, <1>17 DEF g, n, TakenOut

\* remove_from_list: the first occurrence of the value goes.
LEMMA RemoveStep ==
  ASSUME IInv, NEW l \in ListIds, NEW v \in Values, RemoveFromList(l, v)
  PROVE  /\ IInv'
         /\ \E p \in 1 .. Len(Abs[l]) :
              /\ Abs[l][p] = v /\ \A j \in 1 .. p - 1 : Abs[l][j] # v
              /\ Abs' = [Abs EXCEPT ![l] = RemoveAt(@, p)]
<1> DEFINE ch == Chains(heap)
           c  == ch[l]
<1>1. State(heap, ch, iter, static, visited) /\ l \in heap.alive /\ l \in AllLists
  BY DEF IInv, RemoveFromList, AllLists
<1>2. PICK n \in find_in_list(heap, v, l) :
        Unread(n) /\ heap' = remove_from_list(heap, l, n) /\ visited' = visited \ {n}
  BY DEF RemoveFromList
<1> HIDE DEF ch
<1>3. Sound(heap, ch) /\ Len(c) \in Nat
  BY <1>1, StateFacts
<1>4. PICK p \in 1 .. Len(c) : /\ n = c[p] /\ heap.item[n].content = v
                               /\ \A j \in 1 .. p - 1 : heap.item[c[j]].content # v
  BY <1>1, <1>2, <1>3, FindIs
<1>5. NobodyAt(iter, static, c[p])
  BY <1>2, <1>4 DEF Unread, NobodyAt
<1>6. PICK new : LET m == ch[l][p]
                     g == remove_from_list(heap, l, m) IN
                 /\ State(g, new, iter, static, visited \ {m})
                 /\ TakenOut(AbsOf(heap, ch), AbsOf(g, new), l, p)
  <2>1. /\ State(heap, ch, iter, static, visited) /\ l \in ListIds /\ p \in 1 .. Len(ch[l])
        /\ NobodyAt(iter, static, ch[l][p])
    BY <1>1, <1>4, <1>5
  <2>2. QED
    BY <2>1, RemoveState
<1>7. State(heap', new, iter', static', visited')
  BY <1>2, <1>4, <1>6 DEF RemoveFromList
<1>8. IInv' /\ Abs' = AbsOf(heap', new)
  BY <1>7, AfterStep
<1>9. Abs' = [Abs EXCEPT ![l] = RemoveAt(@, p)]
  BY <1>2, <1>4, <1>6, <1>8 DEF Abs, ch, TakenOut
<1>10. Abs[l] = [k \in 1 .. Len(c) |-> heap.item[c[k]].content]
  BY <1>1 DEF Abs, AbsOf, ContentsOf, ch
<1>11. Len(Abs[l]) = Len(c)
  BY <1>3, <1>10
<1>12. \A j \in 1 .. p - 1 : j \in 1 .. Len(c)
  BY <1>3, <1>4
<1> HIDE DEF c
<1>13. Abs[l][p] = v /\ \A j \in 1 .. p - 1 : Abs[l][j] # v
  BY <1>4, <1>10, <1>12
<1>14. QED
  BY <1>4, <1>8, <1>9, <1>11, <1>13

\* free_list, once simple_list() is reset and no iterator reads the list.
LEMMA FreeState ==
  ASSUME NEW h, NEW ch, NEW its, State(h, ch, its, Idle, {}),
         NEW l \in ListIds, l \in h.alive, \A i \in Iterators : its[i].list # l
  PROVE  LET g == Freed(h, l) IN
         \E new : /\ State(g, new, its, Idle, {})
                  /\ AbsOf(g, new) = [AbsOf(h, ch) EXCEPT ![l] = NULL]
<1> DEFINE g == Freed(h, l)
<1>1. /\ Good(h, ch) /\ h.alive \subseteq AllLists
      /\ its \in [Iterators -> IteratorType] /\ Idle \in StaticType
      /\ \A i \in Iterators : Stands(its[i], h, ch)
      /\ Stands(Idle.it, h, ch) /\ Counted(h, its, Idle)
  <2>1. h.alive \subseteq AllLists
    BY StateFacts
  <2>2. QED
    BY <2>1 DEF State
<1>2. PICK new : /\ Good(g, new) /\ new[l] = <<>>
                 /\ \A m \in ListIds \ {l} : new[m] = ch[m]
                 /\ g.alive = h.alive \ {l}
                 /\ \A m \in AllLists \ {l} : g.list[m].iters = h.list[m].iters
                 /\ \A m \in ListIds \ {l} : \A k \in 1 .. Len(ch[m]) :
                      g.item[ch[m][k]].content = h.item[ch[m][k]].content
  BY <1>1, FreedGood
<1> HIDE DEF g
<1>3. ASSUME NEW it, Stands(it, h, ch), it.list # l
      PROVE  Stands(it, g, new)
  <2>1. CASE it.list = NULL
    BY <2>1 DEF Stands
  <2>2. CASE it.list # NULL
    <3>1. it.list \in h.alive \ {Registry} /\ (it.at # NULL => In(it.at, ch[it.list]))
      BY <1>3, <2>2 DEF Stands
    <3>2. it.list \in ListIds \ {l}
      BY <1>1, <1>3, <3>1 DEF AllLists
    <3>3. QED
      BY <1>2, <1>3, <3>1, <3>2 DEF Stands
  <2>3. QED
    BY <2>1, <2>2
<1>4. Stands(Idle.it, g, new)
  BY DEF Stands, Idle, Detached
<1>5. Counted(g, its, Idle)
  BY <1>1, <1>2 DEF Counted
<1>6. Passed(Idle, {}, new)
  BY DEF Passed, Idle
<1>7. State(g, new, its, Idle, {})
  BY <1>1, <1>2, <1>3, <1>4, <1>5, <1>6 DEF State
<1>8. AbsOf(g, new) = [AbsOf(h, ch) EXCEPT ![l] = NULL]
  <2>1. AbsOf(g, new)[l] = NULL
    BY <1>2 DEF AbsOf
  <2>2. ASSUME NEW m \in ListIds \ {l}
        PROVE  AbsOf(g, new)[m] = AbsOf(h, ch)[m]
    <3>1. /\ m \in ListIds /\ (m \in g.alive <=> m \in h.alive) /\ new[m] = ch[m]
          /\ \A k \in 1 .. Len(ch[m]) :
               g.item[ch[m][k]].content = h.item[ch[m][k]].content
      BY <1>2, <2>2
    <3>2. ContentsOf(g, new[m]) = ContentsOf(h, ch[m])
      BY <3>1 DEF ContentsOf
    <3>3. QED
      BY <3>1, <3>2 DEF AbsOf
  <2>3. QED
    BY <2>1, <2>2 DEF AbsOf
<1>9. QED
  BY <1>7, <1>8 DEF g

\* The reset of simple_list(), in any state.
LEMMA ResetState ==
  ASSUME IInv
  PROVE  LET g  == LoopReset(heap)
             ch == Chains(heap) IN
         /\ State(g, ch, iter, Idle, {})
         /\ g.alive = heap.alive /\ g.used = heap.used /\ g.item = heap.item
         /\ AbsOf(g, ch) = Abs
<1> DEFINE g  == LoopReset(heap)
           ch == Chains(heap)
<1>1. State(heap, ch, iter, static, visited)
  BY DEF IInv
<1> HIDE DEF ch
<1>2. /\ Good(heap, ch) /\ Counted(heap, iter, static) /\ static \in StaticType
      /\ \A i \in Iterators : Stands(iter[i], heap, ch)
      /\ iter \in [Iterators -> IteratorType]
  BY <1>1 DEF State
<1>3. IF static.loop THEN static.it.list \in heap.alive ELSE static = Idle
  <2>1. NULL \notin ListIds
    BY NullAssumption
  <2>2. QED
    BY <1>1, <2>1 DEF State, Passed, Stands
<1>4. /\ Good(g, ch) /\ Counted(g, iter, Idle)
      /\ g.alive = heap.alive /\ g.used = heap.used /\ g.item = heap.item
  BY <1>2, <1>3, ResetGood
<1> HIDE DEF g
<1>5. \A i \in Iterators : Stands(iter[i], g, ch)
  BY <1>2, <1>4 DEF Stands
<1>6. Idle \in StaticType /\ Stands(Idle.it, g, ch) /\ Passed(Idle, {}, ch)
  BY DEF Idle, Detached, StaticType, IteratorType, Stands, Passed
<1>7. State(g, ch, iter, Idle, {})
  BY <1>2, <1>4, <1>5, <1>6 DEF State
<1>8. AbsOf(g, ch) = AbsOf(heap, ch)
  BY <1>4 DEF AbsOf, ContentsOf
<1>9. QED
  BY <1>4, <1>7, <1>8 DEF g, ch, Abs

\* simple_list(NULL).
LEMMA ResetStep ==
  ASSUME IInv, SimpleListReset
  PROVE  IInv' /\ Abs' = Abs
<1>1. State(heap', Chains(heap), iter', static', visited')
  BY ResetState DEF SimpleListReset
<1>2. IInv' /\ Abs' = AbsOf(heap', Chains(heap))
  BY <1>1, AfterStep
<1>3. AbsOf(heap', Chains(heap)) = Abs
  BY ResetState DEF SimpleListReset
<1>4. QED
  BY <1>2, <1>3

\* free_list: the list goes.
LEMMA FreeStep ==
  ASSUME IInv, NEW l \in ListIds, FreeList(l)
  PROVE  IInv' /\ Abs' = [Abs EXCEPT ![l] = NULL]
<1> DEFINE h  == LoopReset(heap)
           ch == Chains(heap)
<1>1. State(h, ch, iter, Idle, {}) /\ h.alive = heap.alive /\ AbsOf(h, ch) = Abs
  BY ResetState
<1> HIDE DEF h, ch
<1>2. l \in h.alive /\ \A i \in Iterators : iter[i].list # l
  BY <1>1 DEF FreeList, Unattached
<1>3. PICK new : /\ State(Freed(h, l), new, iter, Idle, {})
                 /\ AbsOf(Freed(h, l), new) = [AbsOf(h, ch) EXCEPT ![l] = NULL]
  BY <1>1, <1>2, FreeState
<1>4. State(heap', new, iter', static', visited')
  BY <1>3 DEF FreeList, h
<1>5. IInv' /\ Abs' = AbsOf(heap', new)
  BY <1>4, AfterStep
<1>6. heap' = Freed(h, l)
  BY DEF FreeList, h
<1>7. QED
  BY <1>1, <1>3, <1>5, <1>6

\* merge_iterator stands on the first node, if there is one.
LEMMA MergedIs ==
  ASSUME NEW h, NEW ch, Sound(h, ch), NEW l \in AllLists
  PROVE  Merged(h, l) = IF Len(ch[l]) = 0 THEN Detached ELSE [list |-> l, at |-> ch[l][1]]
<1>1. /\ ch[l] \in Seq(Nodes) /\ Len(ch[l]) \in Nat
      /\ h.list[l].first = IF Len(ch[l]) = 0 THEN NULL ELSE ch[l][1]
  BY SoundMembers DEF Sound, Linked
<1>2. CASE Len(ch[l]) = 0
  BY <1>1, <1>2 DEF Merged
<1>3. CASE Len(ch[l]) # 0
  <2>1. 1 \in 1 .. Len(ch[l])
    BY <1>1, <1>3
  <2>2. ch[l][1] # NULL
    BY <1>1, <2>1, NullAssumption, ElementOfSeq
  <2>3. QED
    BY <1>1, <1>3, <2>2 DEF Merged
<1>4. QED
  BY <1>2, <1>3

\* next_in_list goes from one node to the next.
LEMMA SteppedIs ==
  ASSUME NEW h, NEW ch, Sound(h, ch), NEW l \in AllLists, NEW k \in 1 .. Len(ch[l]),
         NEW it \in IteratorType, it.at = ch[l][k]
  PROVE  /\ Stepped(h, it) = [list |-> it.list,
                              at |-> IF k = Len(ch[l]) THEN NULL ELSE ch[l][k+1]]
         /\ k < Len(ch[l]) => k + 1 \in 1 .. Len(ch[l]) /\ ch[l][k+1] \in Nodes
         /\ Len(ch[l]) \in Nat
<1>1. /\ Len(ch[l]) \in Nat /\ ch[l][k] \in Nodes
      /\ \A j \in 1 .. Len(ch[l]) : ch[l][j] \in Nodes
  BY SoundMembers
<1>2. h.item[ch[l][k]].next = IF k = Len(ch[l]) THEN NULL ELSE ch[l][k+1]
  BY DEF Sound, Linked
<1>3. it.at # NULL
  BY <1>1, NullAssumption
<1>4. [it EXCEPT !.at = h.item[it.at].next] = [list |-> it.list, at |-> h.item[it.at].next]
  BY DEF IteratorType
<1>5. k < Len(ch[l]) => k + 1 \in 1 .. Len(ch[l])
  BY <1>1
<1>6. QED
  BY <1>1, <1>2, <1>3, <1>4, <1>5 DEF Stepped

\* simple_list() that starts: it stands on the first node, and is counted.
LEMMA StartStep ==
  ASSUME IInv, NEW l \in ListIds, SimpleListStart(l)
  PROVE  IInv' /\ Abs' = Abs
<1> DEFINE h  == LoopReset(heap)
           ch == Chains(heap)
           it == Merged(h, l)
           c  == ch[l]
<1>1. State(h, ch, iter, Idle, {}) /\ h.alive = heap.alive /\ AbsOf(h, ch) = Abs
  BY ResetState
<1>2. /\ l \in h.alive /\ heap' = Readers(h, it, 1)
      /\ static' = IF it = Detached THEN Idle ELSE [loop |-> TRUE, last |-> l, it |-> it]
      /\ visited' = {it.at} \ {NULL} /\ iter' = iter
  BY <1>1 DEF SimpleListStart
<1> HIDE DEF h, ch
<1>3. /\ Good(h, ch) /\ Sound(h, ch) /\ l \in AllLists /\ l # Registry /\ l # NULL
      /\ Len(c) \in Nat /\ \A k \in 1 .. Len(c) : c[k] \in Nodes
  <2>1. l \in AllLists
    BY DEF AllLists
  <2>2. QED
    BY <1>1, <2>1, StateFacts, RegistryAssumption, NullAssumption
<1>4. it = IF Len(c) = 0 THEN Detached ELSE [list |-> l, at |-> c[1]]
  BY <1>3, MergedIs
<1> HIDE DEF it
<1>5. CASE Len(c) = 0
  <2>1. it = Detached /\ it.list = NULL /\ it.at = NULL
    BY <1>4, <1>5 DEF Detached
  <2>2. heap' = h /\ static' = Idle /\ visited' = {}
    BY <1>2, <2>1 DEF Readers
  <2>3. State(heap', ch, iter', static', visited')
    BY <1>1, <1>2, <2>2
  <2>4. IInv' /\ Abs' = AbsOf(heap', ch)
    BY <2>3, AfterStep
  <2>5. QED
    BY <1>1, <2>2, <2>4
<1>6. CASE Len(c) # 0
  <2>1. it = [list |-> l, at |-> c[1]] /\ 1 \in 1 .. Len(c) /\ c[1] \in Nodes /\ c[1] # NULL
    <3>1. 1 \in 1 .. Len(c)
      BY <1>3, <1>6
    <3>2. QED
      BY <1>3, <1>4, <1>6, <3>1, NullAssumption
  <2>2. it # Detached /\ it \in IteratorType /\ it.list = l /\ it.at = c[1]
    BY <1>3, <2>1 DEF Detached, IteratorType
  <2> DEFINE g  == Readers(h, [list |-> l, at |-> c[1]], 1)
             st == [loop |-> TRUE, last |-> l, it |-> it]
  <2>3. heap' = g /\ static' = st /\ visited' = {c[1]}
    BY <1>2, <2>1, <2>2
  <2>4. \A m \in h.alive : h.list[m].iters = Cardinality(ReadersOf(iter, m))
                           /\ Cardinality(ReadersOf(iter, m)) \in Nat
    <3>1. \A m \in h.alive : m # NULL
      BY <1>1, StateFacts
    <3>2. Idle.it.list = NULL
      BY DEF Idle, Detached
    <3>3. \A m : Cardinality(ReadersOf(iter, m)) \in Nat
      BY ReaderBound
    <3>4. QED
      BY <1>1, <3>1, <3>2, <3>3 DEF State, Counted
  <2>5. h.list[l].iters + 1 \in 0 .. SizeMod - 1
    BY <1>2, <2>4, ReaderBound
  <2>6. /\ Good(g, ch) /\ g.alive = h.alive /\ g.used = h.used /\ g.item = h.item
        /\ \A m \in AllLists : g.list[m].iters = IF m = l THEN h.list[l].iters + 1
                                                 ELSE h.list[m].iters
    <3>1. Good(h, ch) /\ l \in h.alive /\ 1 \in {1, -1}
      BY <1>2, <1>3
    <3>2. QED
      BY <2>5, <3>1, ReadersGood
  <2> HIDE DEF g
  <2>7. st \in StaticType /\ st.loop /\ st.last = l /\ st.it = it
    BY <2>2 DEF StaticType
  <2> HIDE DEF st
  <2>8. Counted(g, iter, st)
    <3> SUFFICES ASSUME NEW m \in g.alive
                 PROVE  g.list[m].iters = Cardinality(ReadersOf(iter, m))
                                          + (IF st.it.list = m THEN 1 ELSE 0)
      BY DEF Counted
    <3>1. m \in h.alive /\ m \in AllLists
      BY <1>1, <2>6, StateFacts
    <3>2. QED
      BY <2>2, <2>4, <2>6, <2>7, <3>1
  <2>9. Passed(st, {c[1]}, ch)
    <3>1. {c[1]} = {c[j] : j \in 1 .. 1}
      OBVIOUS
    <3>2. QED
      BY <2>1, <2>2, <2>7, <3>1 DEF Passed
  <2>10. Stands(st.it, g, ch)
    BY <1>2, <1>3, <2>1, <2>2, <2>6, <2>7 DEF Stands, In
  <2>11. \A i \in Iterators : Stands(iter[i], g, ch)
    BY <1>1, <2>6 DEF State, Stands
  <2>12. State(g, ch, iter, st, {c[1]})
    BY <1>1, <2>6, <2>7, <2>8, <2>9, <2>10, <2>11 DEF State
  <2>13. State(heap', ch, iter', static', visited')
    BY <1>2, <2>3, <2>12
  <2>14. IInv' /\ Abs' = AbsOf(heap', ch)
    BY <2>13, AfterStep
  <2>15. AbsOf(g, ch) = AbsOf(h, ch)
    BY <2>6 DEF AbsOf, ContentsOf
  <2>16. QED
    BY <1>1, <2>3, <2>14, <2>15
<1>7. QED
  BY <1>5, <1>6

\* simple_list() that goes on or ends: a loop that ends has returned every node.
LEMMA NextStep ==
  ASSUME IInv, NEW l \in ListIds, SimpleListNext(l)
  PROVE  /\ IInv' /\ Abs' = Abs
         /\ ~static'.loop => visited = ToSet(Chain(heap, l))
<1> DEFINE ch == Chains(heap)
           it == Stepped(heap, static.it)
           c  == ch[l]
<1>1. State(heap, ch, iter, static, visited) /\ l \in AllLists
  BY DEF IInv, AllLists
<1>2. c = Chain(heap, l)
  BY <1>1 DEF Chains
<1> HIDE DEF ch
<1>3. static.loop /\ static.last = l /\ iter' = iter
  BY DEF SimpleListNext
<1>4. PICK k \in 1 .. Len(c) : static.it.at = c[k] /\ visited = {c[j] : j \in 1 .. k}
  BY <1>1, <1>3 DEF State, Passed
<1>5. static.it.list = l /\ static.it \in IteratorType /\ static \in StaticType
  BY <1>1, <1>3 DEF State, Passed, StaticType
<1>6. Sound(heap, ch)
  BY <1>1, StateFacts
<1>7. /\ it = [list |-> l, at |-> IF k = Len(c) THEN NULL ELSE c[k+1]]
      /\ k < Len(c) => k + 1 \in 1 .. Len(c) /\ c[k+1] \in Nodes
      /\ Len(c) \in Nat
  BY <1>1, <1>4, <1>5, <1>6, SteppedIs
<1>8. CASE k = Len(c)
  <2>1. it.at = NULL /\ it.list = l
    BY <1>7, <1>8
  <2>2. heap' = Readers(heap, it, -1) /\ static' = Idle /\ visited' = {}
    BY <2>1 DEF SimpleListNext
  <2> HIDE DEF it
  <2>3. heap' = LoopReset(heap)
    BY <1>3, <1>5, <2>1, <2>2 DEF LoopReset, Readers
  <2>4. State(heap', ch, iter', static', visited') /\ AbsOf(heap', ch) = Abs
    BY <1>3, <2>2, <2>3, ResetState DEF ch
  <2>5. IInv' /\ Abs' = AbsOf(heap', ch)
    BY <2>4, AfterStep
  <2>6. visited = ToSet(c)
    BY <1>1, <1>4, <1>6, <1>8, SoundMembers DEF ToSet
  <2>7. QED
    BY <1>2, <2>4, <2>5, <2>6
<1>9. CASE k < Len(c)
  <2>1. it = [list |-> l, at |-> c[k+1]] /\ k + 1 \in 1 .. Len(c) /\ c[k+1] \in Nodes
    BY <1>7, <1>9
  <2>2. it.at # NULL
    BY <2>1, NullAssumption
  <2>3. heap' = heap /\ static' = [static EXCEPT !.it = it] /\ visited' = visited \cup {it.at}
    BY <2>2 DEF SimpleListNext
  <2>4. it \in IteratorType /\ it.list = l /\ it.at = c[k+1]
    BY <2>1 DEF IteratorType
  <2> HIDE DEF it
  <2>5. static' \in StaticType /\ static'.loop /\ static'.last = l /\ static'.it = it
    BY <1>3, <1>5, <2>3, <2>4 DEF StaticType
  <2>6. Counted(heap, iter, static')
    BY <1>1, <1>5, <2>4, <2>5 DEF State, Counted
  <2>7. Stands(static'.it, heap, ch)
    <3>1. l \in heap.alive \ {Registry}
      BY <1>1, <1>5, NullAssumption DEF State, Stands
    <3>2. QED
      BY <2>1, <2>4, <2>5, <3>1 DEF Stands, In
  <2>8. visited' = {c[j] : j \in 1 .. k + 1}
    <3>1. 1 .. k + 1 = (1 .. k) \cup {k + 1}
      OBVIOUS
    <3>2. QED
      BY <1>4, <2>3, <2>4, <3>1
  <2>9. Passed(static', visited', ch)
    BY <2>1, <2>4, <2>5, <2>8 DEF Passed
  <2>10. State(heap', ch, iter', static', visited')
    BY <1>1, <1>3, <2>3, <2>5, <2>6, <2>7, <2>9 DEF State
  <2>11. IInv' /\ Abs' = AbsOf(heap', ch)
    BY <2>10, AfterStep
  <2>12. QED
    BY <2>3, <2>5, <2>11 DEF Abs, ch
<1>10. QED
  BY <1>4, <1>7, <1>8, <1>9

\* merge_iterator: an iterator stands on the first node, and is counted.
LEMMA MergeStep ==
  ASSUME IInv, NEW i \in Iterators, NEW l \in ListIds, MergeIterator(i, l)
  PROVE  IInv' /\ Abs' = Abs
<1> DEFINE ch == Chains(heap)
           it == Merged(heap, l)
           c  == ch[l]
<1>1. State(heap, ch, iter, static, visited)
  BY DEF IInv
<1> HIDE DEF ch
<1>2. /\ l \in heap.alive /\ iter[i] = Detached /\ iter' = [iter EXCEPT ![i] = it]
      /\ static' = static /\ visited' = visited /\ iter \in [Iterators -> IteratorType]
  BY <1>1 DEF MergeIterator, State
<1>3. heap' = Readers(heap, it, 1)
  BY <1>2 DEF MergeIterator
<1>4. /\ Good(heap, ch) /\ Sound(heap, ch) /\ l \in AllLists /\ l # Registry /\ l # NULL
      /\ Len(c) \in Nat /\ \A k \in 1 .. Len(c) : c[k] \in Nodes
      /\ heap.alive \subseteq AllLists
  <2>1. l \in AllLists
    BY DEF AllLists
  <2>2. QED
    BY <1>1, <2>1, StateFacts, RegistryAssumption, NullAssumption
<1>5. it = IF Len(c) = 0 THEN Detached ELSE [list |-> l, at |-> c[1]]
  BY <1>4, MergedIs
<1> HIDE DEF it
<1>6. CASE Len(c) = 0
  <2>1. it = Detached /\ it.list = NULL
    BY <1>5, <1>6 DEF Detached
  <2>2. heap' = heap /\ iter' = iter
    BY <1>2, <1>3, <2>1 DEF Readers
  <2>3. State(heap', ch, iter', static', visited')
    BY <1>1, <1>2, <2>2
  <2>4. IInv' /\ Abs' = AbsOf(heap', ch)
    BY <2>3, AfterStep
  <2>5. QED
    BY <2>2, <2>4 DEF Abs, ch
<1>7. CASE Len(c) # 0
  <2>1. it = [list |-> l, at |-> c[1]] /\ 1 \in 1 .. Len(c) /\ c[1] \in Nodes
    BY <1>4, <1>5, <1>7
  <2>2. it \in IteratorType /\ it.list = l /\ it.at = c[1]
    BY <2>1 DEF IteratorType
  <2> DEFINE g == Readers(heap, [list |-> l, at |-> c[1]], 1)
             new == [iter EXCEPT ![i] = it]
  <2>3. heap' = g /\ iter' = new
    BY <1>2, <1>3, <2>1
  <2>4. i \notin ReadersOf(iter, l) /\ iter[i].list = NULL
    BY <1>2, <1>4 DEF ReadersOf, Detached
  <2>5. \A m : /\ Cardinality(ReadersOf(iter, m)) \in Nat
               /\ Cardinality(ReadersOf(new, m)) \in Nat
               /\ Cardinality(ReadersOf(new, m)) + 1 < SizeMod /\ SizeMod \in Nat
    BY ReaderBound
  <2>6. ASSUME NEW m \in heap.alive
        PROVE  Cardinality(ReadersOf(new, m)) = Cardinality(ReadersOf(iter, m))
                                                + (IF m = l THEN 1 ELSE 0)
    <3>1. m # NULL
      BY <1>1, StateFacts
    <3>2. /\ new[i].list # m /\ iter[i].list # m =>
               Cardinality(ReadersOf(new, m)) = Cardinality(ReadersOf(iter, m))
          /\ new[i].list = m /\ iter[i].list # m =>
               Cardinality(ReadersOf(new, m)) = Cardinality(ReadersOf(iter, m)) + 1
      <4>1. new[i] = it /\ \A j \in Iterators \ {i} : new[j] = iter[j]
        BY <1>2, <2>2
      <4> HIDE DEF new
      <4>2. QED
        BY <4>1, ReadersChange
    <3>3. new[i] = it
      BY <1>2, <2>2
    <3> HIDE DEF new
    <3>4. QED
      BY <2>2, <2>4, <2>5, <3>1, <3>2, <3>3
  <2> HIDE DEF new
  <2>7. \A m \in heap.alive :
          heap.list[m].iters = Cardinality(ReadersOf(iter, m))
                               + (IF static.it.list = m THEN 1 ELSE 0)
    BY <1>1 DEF State, Counted
  <2>8. heap.list[l].iters + 1 = Cardinality(ReadersOf(new, l))
                                 + (IF static.it.list = l THEN 1 ELSE 0)
    BY <1>2, <2>5, <2>6, <2>7
  <2>9. heap.list[l].iters + 1 \in 0 .. SizeMod - 1
    BY <2>5, <2>8
  <2>10. /\ Good(g, ch) /\ g.alive = heap.alive /\ g.used = heap.used /\ g.item = heap.item
         /\ \A m \in AllLists : g.list[m].iters = IF m = l THEN heap.list[l].iters + 1
                                                  ELSE heap.list[m].iters
    <3>1. Good(heap, ch) /\ l \in heap.alive /\ 1 \in {1, -1}
      BY <1>2, <1>4
    <3>2. QED
      BY <2>9, <3>1, ReadersGood
  <2> HIDE DEF g
  <2>11. Counted(g, new, static)
    <3> SUFFICES ASSUME NEW m \in g.alive
                 PROVE  g.list[m].iters = Cardinality(ReadersOf(new, m))
                                          + (IF static.it.list = m THEN 1 ELSE 0)
      BY DEF Counted
    <3>1. m \in heap.alive /\ m \in AllLists
      BY <1>4, <2>10
    <3>2. CASE m = l
      BY <2>8, <2>10, <3>1, <3>2
    <3>3. CASE m # l
      BY <2>5, <2>6, <2>7, <2>10, <3>1, <3>3
    <3>4. QED
      BY <3>2, <3>3
  <2>12. /\ new \in [Iterators -> IteratorType]
         /\ \A j \in Iterators : new[j] = IF j = i THEN it ELSE iter[j]
    BY <1>2, <2>2 DEF new
  <2>13. ASSUME NEW x, Stands(x, heap, ch)
         PROVE  Stands(x, g, ch)
    BY <2>10, <2>13 DEF Stands
  <2>14. Stands(it, g, ch)
    BY <1>2, <1>4, <2>1, <2>2, <2>10 DEF Stands, In
  <2>15. (\A j \in Iterators : Stands(new[j], g, ch)) /\ Stands(static.it, g, ch)
    BY <1>1, <2>12, <2>13, <2>14 DEF State
  <2>16. State(g, ch, new, static, visited)
    BY <1>1, <2>10, <2>11, <2>12, <2>15 DEF State
  <2>17. State(heap', ch, iter', static', visited')
    BY <1>2, <2>3, <2>16
  <2>18. IInv' /\ Abs' = AbsOf(heap', ch)
    BY <2>17, AfterStep
  <2>19. AbsOf(g, ch) = AbsOf(heap, ch)
    BY <2>10 DEF AbsOf, ContentsOf
  <2>20. QED
    BY <2>3, <2>18, <2>19 DEF Abs, ch
<1>8. QED
  BY <1>6, <1>7

\* next_in_list: an iterator goes to the next node of its list, or to its end.
LEMMA WalkStep ==
  ASSUME IInv, NEW i \in Iterators, NextInList(i)
  PROVE  IInv' /\ Abs' = Abs
<1> DEFINE ch == Chains(heap)
           it == iter[i]
           to == Stepped(heap, it)
           l  == it.list
           c  == ch[l]
<1>1. State(heap, ch, iter, static, visited)
  BY DEF IInv
<1> HIDE DEF ch
<1>2. /\ l # NULL /\ iter' = [iter EXCEPT ![i] = to] /\ iter \in [Iterators -> IteratorType]
      /\ heap' = heap /\ static' = static /\ visited' = visited
  BY <1>1 DEF NextInList, State
<1>3. /\ it \in IteratorType /\ l \in heap.alive \ {Registry} /\ l \in AllLists
      /\ it.at # NULL => In(it.at, c)
  <2>1. heap.alive \subseteq AllLists
    BY <1>1, StateFacts
  <2>2. QED
    BY <1>1, <1>2, <2>1 DEF State, Stands
<1>4. to \in IteratorType /\ to.list = l /\ (to.at # NULL => In(to.at, c))
  <2>1. CASE it.at = NULL
    BY <1>3, <2>1 DEF Stepped
  <2>2. CASE it.at # NULL
    <3>1. PICK k \in 1 .. Len(c) : it.at = c[k]
      BY <1>3, <2>2 DEF In
    <3>2. Sound(heap, ch)
      BY <1>1, StateFacts
    <3>3. /\ to = [list |-> l, at |-> IF k = Len(c) THEN NULL ELSE c[k+1]]
          /\ k < Len(c) => k + 1 \in 1 .. Len(c) /\ c[k+1] \in Nodes
          /\ Len(c) \in Nat
      BY <1>3, <3>1, <3>2, SteppedIs
    <3> HIDE DEF to, c
    <3>4. CASE k = Len(c)
      BY <1>3, <3>3, <3>4 DEF IteratorType
    <3>5. CASE k < Len(c)
      <4>1. to = [list |-> l, at |-> c[k+1]] /\ k + 1 \in 1 .. Len(c) /\ c[k+1] \in Nodes
        BY <3>3, <3>5
      <4>2. QED
        BY <1>3, <4>1 DEF IteratorType, In
    <3>6. QED
      BY <3>1, <3>3, <3>4, <3>5
  <2>3. QED
    BY <2>1, <2>2
<1> HIDE DEF to
<1>5. /\ iter' \in [Iterators -> IteratorType]
      /\ \A j \in Iterators : iter'[j] = IF j = i THEN to ELSE iter[j]
  BY <1>2, <1>4
<1>6. \A m : ReadersOf(iter', m) = ReadersOf(iter, m)
  BY <1>4, <1>5 DEF ReadersOf
<1>7. Counted(heap, iter', static)
  BY <1>1, <1>6 DEF State, Counted
<1>8. Stands(to, heap, ch)
  BY <1>3, <1>4 DEF Stands
<1>9. \A j \in Iterators : Stands(iter'[j], heap, ch)
  BY <1>1, <1>5, <1>8 DEF State
<1>10. State(heap', ch, iter', static', visited')
  BY <1>1, <1>2, <1>5, <1>7, <1>9 DEF State
<1>11. IInv' /\ Abs' = AbsOf(heap', ch)
  BY <1>10, AfterStep
<1>12. QED
  BY <1>2, <1>11 DEF Abs, ch

\* remove_iterator: an iterator leaves its list, and is counted no more.
LEMMA LeaveStep ==
  ASSUME IInv, NEW i \in Iterators, RemoveIterator(i)
  PROVE  IInv' /\ Abs' = Abs
<1> DEFINE ch  == Chains(heap)
           l   == iter[i].list
           g   == Readers(heap, [list |-> l, at |-> iter[i].at], -1)
           new == [iter EXCEPT ![i] = Detached]
<1>1. State(heap, ch, iter, static, visited)
  BY DEF IInv
<1> HIDE DEF ch
<1>2. /\ l # NULL /\ iter' = new /\ iter \in [Iterators -> IteratorType]
      /\ static' = static /\ visited' = visited /\ heap' = Readers(heap, iter[i], -1)
  BY <1>1 DEF RemoveIterator, State
<1>3. heap' = g
  <2>1. iter[i] = [list |-> l, at |-> iter[i].at]
    BY <1>2 DEF IteratorType
  <2>2. QED
    BY <1>2, <2>1
<1>4. Good(heap, ch) /\ l \in heap.alive /\ heap.alive \subseteq AllLists /\ l \in AllLists
  <2>1. Good(heap, ch) /\ heap.alive \subseteq AllLists
    BY <1>1, StateFacts
  <2>2. QED
    BY <1>1, <1>2, <2>1 DEF State, Stands
<1>5. Detached \in IteratorType /\ Detached.list = NULL
  BY DEF Detached, IteratorType
<1>6. \A m : /\ Cardinality(ReadersOf(iter, m)) \in Nat
             /\ Cardinality(ReadersOf(iter, m)) + 1 < SizeMod
             /\ Cardinality(ReadersOf(new, m)) \in Nat /\ SizeMod \in Nat
  BY ReaderBound
<1>7. ASSUME NEW m \in heap.alive
      PROVE  Cardinality(ReadersOf(new, m)) = Cardinality(ReadersOf(iter, m))
                                              - (IF m = l THEN 1 ELSE 0)
  <2>1. m # NULL
    BY <1>1, StateFacts
  <2>2. new[i] = Detached /\ \A j \in Iterators \ {i} : new[j] = iter[j]
    BY <1>2, <1>5
  <2> HIDE DEF new
  <2>3. /\ new[i].list # m /\ iter[i].list # m =>
             Cardinality(ReadersOf(new, m)) = Cardinality(ReadersOf(iter, m))
        /\ new[i].list = m /\ iter[i].list # m =>
             Cardinality(ReadersOf(new, m)) = Cardinality(ReadersOf(iter, m)) + 1
        /\ new[i].list # m /\ iter[i].list = m =>
             Cardinality(ReadersOf(new, m)) = Cardinality(ReadersOf(iter, m)) - 1
    BY <2>2, ReadersChange
  <2>4. QED
    BY <1>5, <1>6, <2>1, <2>2, <2>3
<1>8. /\ new \in [Iterators -> IteratorType]
      /\ \A j \in Iterators : new[j] = IF j = i THEN Detached ELSE iter[j]
  BY <1>2, <1>5
<1> HIDE DEF new
<1>9. \A m \in heap.alive :
        heap.list[m].iters = Cardinality(ReadersOf(iter, m))
                             + (IF static.it.list = m THEN 1 ELSE 0)
  BY <1>1 DEF State, Counted
<1>10. heap.list[l].iters + (-1) = Cardinality(ReadersOf(new, l))
                                   + (IF static.it.list = l THEN 1 ELSE 0)
  BY <1>4, <1>6, <1>7, <1>9
<1>11. heap.list[l].iters + (-1) \in 0 .. SizeMod - 1
  <2>1. heap.list[l].iters < SizeMod /\ heap.list[l].iters \in Nat
    BY <1>4, <1>6, <1>9
  <2>2. heap.list[l].iters + (-1) >= 0
    <3>1. CASE static.it.list = l
      BY <1>6, <1>10, <3>1
    <3>2. CASE static.it.list # l
      BY <1>6, <1>10, <3>2
    <3>3. QED
      BY <3>1, <3>2
  <2> DEFINE x == heap.list[l].iters
  <2> HIDE DEF x
  <2>3. x \in Nat /\ x < SizeMod /\ x + (-1) >= 0
    BY <2>1, <2>2 DEF x
  <2>4. x + (-1) \in 0 .. SizeMod - 1
    BY <1>6, <2>3
  <2>5. QED
    BY <2>4 DEF x
<1>12. /\ Good(g, ch) /\ g.alive = heap.alive /\ g.used = heap.used /\ g.item = heap.item
       /\ \A m \in AllLists : g.list[m].iters = IF m = l THEN heap.list[l].iters + (-1)
                                                ELSE heap.list[m].iters
  <2>1. -1 \in {1, -1}
    OBVIOUS
  <2> HIDE DEF l
  <2>2. QED
    BY <1>4, <1>11, <2>1, ReadersGood
<1> HIDE DEF g
<1>13. Counted(g, new, static)
  <2> SUFFICES ASSUME NEW m \in g.alive
               PROVE  g.list[m].iters = Cardinality(ReadersOf(new, m))
                                        + (IF static.it.list = m THEN 1 ELSE 0)
    BY DEF Counted
  <2>1. m \in heap.alive /\ m \in AllLists
    BY <1>4, <1>12
  <2> HIDE DEF l
  <2>2. CASE m = l
    BY <1>10, <1>12, <2>1, <2>2
  <2>3. CASE m # l
    BY <1>6, <1>7, <1>9, <1>12, <2>1, <2>3
  <2>4. QED
    BY <2>2, <2>3
<1>14. ASSUME NEW x, Stands(x, heap, ch)
       PROVE  Stands(x, g, ch)
  BY <1>12, <1>14 DEF Stands
<1>15. Stands(Detached, g, ch)
  BY <1>5 DEF Stands
<1>16. (\A j \in Iterators : Stands(new[j], g, ch)) /\ Stands(static.it, g, ch)
  BY <1>1, <1>8, <1>14, <1>15 DEF State
<1>17. State(g, ch, new, static, visited)
  BY <1>1, <1>8, <1>12, <1>13, <1>16 DEF State
<1>18. State(heap', ch, iter', static', visited')
  BY <1>2, <1>3, <1>17
<1>19. IInv' /\ Abs' = AbsOf(heap', ch)
  BY <1>18, AfterStep
<1>20. AbsOf(g, ch) = AbsOf(heap, ch)
  BY <1>12 DEF AbsOf, ContentsOf
<1>21. QED
  BY <1>3, <1>19, <1>20 DEF Abs, ch

-----------------------------------------------------------------------------
(* Lemmas: randomize_list.                                                 *)

\* The members of a sequence without repetitions are as many as it is long.
LEMMA MembersCount ==
  ASSUME NEW S, NEW c \in Seq(S), \A j, k \in 1 .. Len(c) : c[j] = c[k] => j = k
  PROVE  /\ IsFiniteSet(ToSet(c)) /\ Cardinality(ToSet(c)) = Len(c)
         /\ IsFiniteSet(1 .. Len(c)) /\ Cardinality(1 .. Len(c)) = Len(c)
<1>1. c \in [1 .. Len(c) -> ToSet(c)] /\ ToSet(c) = {c[k] : k \in 1 .. Len(c)}
  BY DEF ToSet
<1>2. /\ c \in Injection(1 .. Len(c), ToSet(c))
  BY <1>1, Fun_IsInj
<1>3. c \in Surjection(1 .. Len(c), ToSet(c))
  BY <1>1, Fun_IsSurj
<1>4. IsFiniteSet(1 .. Len(c)) /\ Cardinality(1 .. Len(c)) = Len(c)
  <2>1. 1 \in Int /\ Len(c) \in Int /\ Len(c) \in Nat
    OBVIOUS
  <2>2. /\ IsFiniteSet(1 .. Len(c))
        /\ Cardinality(1 .. Len(c)) = IF 1 > Len(c) THEN 0 ELSE Len(c) - 1 + 1
    BY <2>1, FS_Interval, Zenon
  <2>3. QED
    BY <2>1, <2>2
<1>5. QED
  BY <1>2, <1>3, <1>4, FS_Surjection

\* The heaps of a shuffle: f[j] when the first j members have moved.
Moving(f, b, l, k, order, m) ==
  f = [j \in 0 .. m |->
         IF j = 0 THEN b
         ELSE add_to_list(remove_from_list(f[j-1], l, order[j]), k,
                          f[j-1].item[order[j]].content, order[j])]

\* There are such heaps.
LEMMA MovingExists ==
  ASSUME NEW b, NEW l, NEW k, NEW order, NEW n \in Nat
  PROVE  \E f : Moving(f, b, l, k, order, n)
<1> DEFINE P(m) == \E f : Moving(f, b, l, k, order, m)
           T(x, j) == add_to_list(remove_from_list(x, l, order[j]), k,
                                  x.item[order[j]].content, order[j])
           S == {m \in Nat : ~ P(m)}
<1>1. P(0)
  <2> DEFINE f == [j \in 0 .. 0 |-> b]
  <2>1. f = [j \in 0 .. 0 |-> IF j = 0 THEN b ELSE T(f[j-1], j)]
    OBVIOUS
  <2>2. QED
    BY <2>1 DEF Moving
<1>2. ASSUME NEW r \in Nat \ {0}, P(r - 1)
      PROVE  P(r)
  <2>1. PICK f : Moving(f, b, l, k, order, r - 1)
    BY <1>2
  <2>2. f = [j \in 0 .. r - 1 |-> IF j = 0 THEN b ELSE T(f[j-1], j)]
    BY <2>1 DEF Moving
  <2> DEFINE g == [j \in 0 .. r |-> IF j < r THEN f[j] ELSE T(f[r-1], r)]
  <2> HIDE DEF T
  <2>3. ASSUME NEW j \in 0 .. r
        PROVE  g[j] = IF j = 0 THEN b ELSE T(g[j-1], j)
    <3>1. CASE j = 0
      BY <2>2, <3>1
    <3>2. CASE j # 0
      <4>1. j - 1 \in 0 .. r /\ j - 1 < r /\ g[j-1] = f[j-1]
        BY <3>2
      <4>2. CASE j = r
        BY <3>2, <4>1, <4>2
      <4>3. CASE j # r
        <5>1. j \in 0 .. r - 1 /\ j < r
          BY <4>3
        <5>2. f[j] = T(f[j-1], j)
          BY <2>2, <3>2, <5>1
        <5>3. QED
          BY <3>2, <4>1, <5>1, <5>2
      <4>4. QED
        BY <4>2, <4>3
    <3>3. QED
      BY <3>1, <3>2
  <2>4. g = [j \in 0 .. r |-> g[j]]
    OBVIOUS
  <2> HIDE DEF g
  <2>5. g = [j \in 0 .. r |-> IF j = 0 THEN b ELSE T(g[j-1], j)]
    BY <2>3, <2>4
  <2>6. QED
    BY <2>5 DEF Moving, T
<1> HIDE DEF P
<1>3. S = {}
  <2>1. SUFFICES ASSUME S # {} PROVE FALSE
    OBVIOUS
  <2>2. PICK r \in S : \A q \in S : r <= q
    BY <2>1, LowestExists
  <2>3. r \in Nat \ {0}
    BY <1>1
  <2>4. P(r - 1)
    BY <2>2, <2>3
  <2>5. QED
    BY <1>2, <2>3, <2>4
<1>4. QED
  BY <1>3 DEF P

\* g is the heap h when a new list k has the first m of order, members of l.
Shuffled(g, cg, h, ch, l, k, reg, order, m) ==
  /\ Good(g, cg) /\ g.alive = h.alive \cup {k}
  /\ \A x \in AllLists : g.list[x].iters = h.list[x].iters
  /\ SameContents(h, g, {reg})
  /\ \A x \in ListIds \ {l, k} : cg[x] = ch[x]
  /\ Len(cg[k]) = m /\ \A i \in 1 .. m : cg[k][i] = order[i]
  /\ \A i \in m + 1 .. Len(order) : In(order[i], cg[l])

\* Where a node is In when another one is taken out.
LEMMA StaysIn ==
  ASSUME NEW c \in Seq(Nodes), NEW p \in 1 .. Len(c), NEW x, In(x, c), x # c[p]
  PROVE  In(x, RemoveAt(c, p))
<1>1. PICK j \in 1 .. Len(c) : c[j] = x
  BY DEF In
<1>2. /\ RemoveAt(c, p) \in Seq(Nodes) /\ Len(RemoveAt(c, p)) = Len(c) - 1
      /\ \A i \in 1 .. Len(c) - 1 : RemoveAt(c, p)[i] = IF i < p THEN c[i] ELSE c[i+1]
  BY RemoveAtProperties
<1> DEFINE d == RemoveAt(c, p)
<1> HIDE DEF d
<1>3. CASE j < p
  <2>1. j \in 1 .. Len(d) /\ d[j] = c[j]
    BY <1>2, <1>3 DEF d
  <2>2. QED
    BY <1>1, <2>1 DEF In, d
<1>4. CASE j > p
  <2>1. j - 1 \in 1 .. Len(d) /\ ~(j - 1 < p) /\ j - 1 + 1 = j
    BY <1>2, <1>4 DEF d
  <2>2. d[j-1] = c[j-1+1]
    BY <1>2, <2>1 DEF d
  <2>3. QED
    BY <1>1, <2>1, <2>2 DEF In, d
<1>5. QED
  BY <1>1, <1>2, <1>3, <1>4

\* f is the heap g when the node n has gone from the list l to the end of k.
Moved(f, d, g, cg, l, k, n) ==
  \E p \in 1 .. Len(cg[l]) :
    /\ Good(f, d) /\ f.alive = g.alive
    /\ \A x \in AllLists : f.list[x].iters = g.list[x].iters
    /\ \A x \in Nodes : f.item[x].content = g.item[x].content
    /\ cg[l][p] = n /\ d[l] = RemoveAt(cg[l], p) /\ d[k] = Append(cg[k], n)
    /\ \A x \in ListIds \ {l, k} : d[x] = cg[x]

\* A member goes from one list to the end of another.
LEMMA MoveGood ==
  ASSUME NEW g, NEW cg, Good(g, cg), NEW l \in ListIds, NEW k \in ListIds, l # k,
         k \in g.alive, NEW n \in Nodes, In(n, cg[l])
  PROVE  LET f == add_to_list(remove_from_list(g, l, n), k, g.item[n].content, n) IN
         \E d : Moved(f, d, g, cg, l, k, n)
<1> DEFINE v == g.item[n].content
           e == remove_from_list(g, l, n)
           f == add_to_list(e, k, v, n)
<1>1. /\ e.alive = g.alive /\ n \notin e.used
      /\ \A x \in AllLists : e.list[x].iters = g.list[x].iters
      /\ SameContents(g, e, {n})
  BY RemoveEffect
<1>2. PICK p \in 1 .. Len(cg[l]) : cg[l][p] = n
  BY DEF In
<1> DEFINE c == [cg EXCEPT ![l] = RemoveAt(@, p)]
           d == [c EXCEPT ![k] = Append(@, n)]
<1>3. Good(e, c)
  BY <1>2, RemoveGood
<1>4. /\ cg \in [AllLists -> Seq(Nodes)] /\ l \in AllLists /\ k \in AllLists
      /\ ListIds \subseteq AllLists
  BY DEF Good, Sound, AllLists
<1>5. v \in Values
  BY <1>2 DEF Good
<1>6. n \in Nodes \ e.used /\ k \in e.alive
  BY <1>1
<1> HIDE DEF e, v
<1>7. Good(f, d)
  BY <1>3, <1>5, <1>6, AddGood
<1>8. /\ d[l] = RemoveAt(cg[l], p) /\ d[k] = Append(cg[k], n)
      /\ \A x \in ListIds \ {l, k} : d[x] = cg[x]
  BY <1>4 DEF Moved
<1> HIDE DEF d, c
<1>9. /\ f.alive = e.alive
      /\ \A x \in AllLists : f.list[x].iters = e.list[x].iters
      /\ SameContents(e, f, {n}) /\ f.item[n].content = v
  <2>1. Good(e, c) /\ k \in e.alive /\ n \in Nodes \ e.used /\ v \in Values
    BY <1>3, <1>5, <1>6
  <2>2. QED
    BY <2>1, AddEffect
<1> HIDE DEF f
<1>10. ASSUME NEW x \in Nodes
       PROVE  f.item[x].content = g.item[x].content
  <2>1. CASE x = n
    BY <1>9, <2>1 DEF v
  <2>2. CASE x # n
    BY <1>1, <1>9, <2>2 DEF SameContents
  <2>3. QED
    BY <2>1, <2>2
<1>11. /\ Good(f, d) /\ f.alive = g.alive
       /\ \A x \in AllLists : f.list[x].iters = g.list[x].iters
       /\ \A x \in Nodes : f.item[x].content = g.item[x].content
       /\ cg[l][p] = n /\ d[l] = RemoveAt(cg[l], p) /\ d[k] = Append(cg[k], n)
       /\ \A x \in ListIds \ {l, k} : d[x] = cg[x]
  BY <1>1, <1>2, <1>7, <1>8, <1>9, <1>10
<1>12. QED
  BY <1>11 DEF f, e, v, Moved

\* One member more moves.
LEMMA OneMoves ==
  ASSUME NEW g, NEW cg, NEW h, NEW ch, NEW l \in ListIds, NEW k \in ListIds, l # k,
         NEW reg, NEW order, Len(order) \in Nat, NEW m \in Nat, m < Len(order),
         Shuffled(g, cg, h, ch, l, k, reg, order, m), l \in g.alive,
         \A i \in 1 .. Len(order) : order[i] # reg /\ order[i] \in Nodes,
         \A i, j \in 1 .. Len(order) : order[i] = order[j] => i = j
  PROVE  LET n == order[m+1]
             f == add_to_list(remove_from_list(g, l, n), k, g.item[n].content, n) IN
         \E cf : Shuffled(f, cf, h, ch, l, k, reg, order, m + 1)
<1> DEFINE n == order[m+1]
           f == add_to_list(remove_from_list(g, l, n), k, g.item[n].content, n)
<1>1. m + 1 \in m + 1 .. Len(order) /\ m + 1 \in 1 .. Len(order)
  OBVIOUS
<1>2. n \in Nodes /\ n # reg /\ In(n, cg[l]) /\ Good(g, cg)
  BY <1>1 DEF Shuffled
<1>3. k \in g.alive
  BY DEF Shuffled
<1>4. PICK d : Moved(f, d, g, cg, l, k, n)
  <2> HIDE DEF n
  <2>1. QED
    BY <1>2, <1>3, MoveGood
<1>5. PICK p \in 1 .. Len(cg[l]) :
      /\ Good(f, d) /\ f.alive = g.alive
      /\ \A x \in AllLists : f.list[x].iters = g.list[x].iters
      /\ \A x \in Nodes : f.item[x].content = g.item[x].content
      /\ cg[l][p] = n /\ d[l] = RemoveAt(cg[l], p) /\ d[k] = Append(cg[k], n)
      /\ \A x \in ListIds \ {l, k} : d[x] = cg[x]
  BY <1>4 DEF Moved
<1> HIDE DEF f
<1>6. cg \in [AllLists -> Seq(Nodes)] /\ l \in AllLists /\ k \in AllLists
  BY <1>2 DEF Good, Sound, AllLists
<1>7. SameContents(h, f, {reg})
  BY <1>5 DEF Shuffled, SameContents
<1>8. Len(d[k]) = m + 1 /\ \A i \in 1 .. m + 1 : d[k][i] = order[i]
  <2>1. /\ cg[k] \in Seq(Nodes) /\ Len(cg[k]) = m /\ \A i \in 1 .. m : cg[k][i] = order[i]
    BY <1>6 DEF Shuffled
  <2>2. /\ Len(Append(cg[k], n)) = m + 1 /\ Append(cg[k], n)[m+1] = n
        /\ \A i \in 1 .. m : Append(cg[k], n)[i] = cg[k][i]
    BY <1>2, <2>1, AppendProperties
  <2>3. \A i \in 1 .. m + 1 : i \in 1 .. m \/ i = m + 1
    OBVIOUS
  <2>4. QED
    BY <1>5, <2>1, <2>2, <2>3
<1>9. ASSUME NEW i \in m + 1 + 1 .. Len(order)
       PROVE  In(order[i], d[l])
  <2>1. i \in m + 1 .. Len(order) /\ i \in 1 .. Len(order) /\ i # m + 1
    OBVIOUS
  <2>2. In(order[i], cg[l]) /\ order[i] # cg[l][p]
    BY <1>1, <1>5, <2>1 DEF Shuffled
  <2>3. cg[l] \in Seq(Nodes)
    BY <1>6
  <2>4. In(order[i], RemoveAt(cg[l], p))
    BY <2>2, <2>3, StaysIn
  <2>5. QED
    BY <1>5, <2>4
<1>10. Shuffled(f, d, h, ch, l, k, reg, order, m + 1)
  <2>1. f.alive = h.alive \cup {k}
    BY <1>5 DEF Shuffled
  <2>2. \A x \in AllLists : f.list[x].iters = h.list[x].iters
    BY <1>5 DEF Shuffled
  <2>3. \A x \in ListIds \ {l, k} : d[x] = ch[x]
    BY <1>5 DEF Shuffled
  <2>4. QED
    BY <1>5, <1>7, <1>8, <1>9, <2>1, <2>2, <2>3 DEF Shuffled
<1>11. QED
  BY <1>10 DEF f

\* order has each member of c once; s says at which place of c each was.
OnceEach(order, c) ==
  /\ Len(order) = Len(c) /\ Len(order) \in Nat
  /\ \A i \in 1 .. Len(order) : In(order[i], c)
  /\ \A i, j \in 1 .. Len(order) : order[i] = order[j] => i = j
Ordered(s, c, order, n) ==
  /\ DOMAIN s = 1 .. n
  /\ \A i \in 1 .. n : s[i] \in 1 .. n /\ c[s[i]] = order[i]

\* The heap of randomize_list when the new list is allocated and still empty.
Begun(h, k, reg) == add_to_list([h EXCEPT !.alive = @ \cup {k}], Registry, k, reg)

\* The members move one by one: the heap is sound after each, and no list but two changes.
LEMMA AllMove ==
  ASSUME NEW h, NEW ch, NEW its, NEW st, NEW vis, State(h, ch, its, st, vis),
         NEW l \in ListIds, l \in h.alive, NEW k \in ListIds, k \notin h.alive,
         NEW reg \in Nodes \ h.used, NEW order, OnceEach(order, ch[l]),
         NEW f, Moving(f, Begun(h, k, reg), l, k, order, Len(order))
  PROVE  \A m \in 0 .. Len(order) : \E cg : Shuffled(f[m], cg, h, ch, l, k, reg, order, m)
<1> DEFINE P(m) == \E cg : Shuffled(f[m], cg, h, ch, l, k, reg, order, m)
           b == Begun(h, k, reg)
           S == {m \in 0 .. Len(order) : ~ P(m)}
<1>1. /\ Good(h, ch) /\ ch \in [AllLists -> Seq(Nodes)]
      /\ l \in AllLists /\ k \in AllLists /\ l # k
      /\ Len(ch[l]) \in Nat /\ ch[k] = <<>>
      /\ \A j \in 1 .. Len(ch[l]) : ch[l][j] \in Nodes /\ ch[l][j] \in h.used
  <2>1. l \in AllLists /\ k \in AllLists
    BY DEF AllLists
  <2>2. QED
    BY <2>1, StateFacts
<1>2. /\ Len(order) \in Nat
      /\ \A i \in 1 .. Len(order) : In(order[i], ch[l])
      /\ \A i, j \in 1 .. Len(order) : order[i] = order[j] => i = j
      /\ \A i \in 1 .. Len(order) : order[i] # reg /\ order[i] \in Nodes
  BY <1>1 DEF In, OnceEach
<1>3. /\ f[0] = b
      /\ \A m \in 1 .. Len(order) :
           f[m] = add_to_list(remove_from_list(f[m-1], l, order[m]), k,
                              f[m-1].item[order[m]].content, order[m])
  <2>1. 0 \in 0 .. Len(order) /\ \A m \in 1 .. Len(order) : m \in 0 .. Len(order) /\ m # 0
    BY <1>2
  <2>2. QED
    BY <2>1 DEF Moving
<1>4. P(0)
  <2> DEFINE new == [ch EXCEPT ![Registry] = Append(@, reg)]
  <2>1. /\ Good(b, new)
        /\ b.alive = h.alive \cup {k}
        /\ \A x \in AllLists : b.list[x].iters = h.list[x].iters
        /\ SameContents(h, b, {reg})
    <3>1. Good(h, ch) /\ k \in ListIds \ h.alive
      BY <1>1
    <3>2. QED
      BY <3>1, CreateGood DEF Begun
  <2>2. \A x \in ListIds : new[x] = ch[x]
    BY <1>1, RegistryAssumption DEF AllLists
  <2> HIDE DEF new, b
  <2>3. Len(new[k]) = 0
    BY <1>1, <2>2
  <2>4. \A i \in 0 + 1 .. Len(order) : In(order[i], new[l])
    BY <1>2, <2>2
  <2>5. Shuffled(b, new, h, ch, l, k, reg, order, 0)
    BY <2>1, <2>2, <2>3, <2>4 DEF Shuffled
  <2>6. QED
    BY <1>3, <2>5
<1> HIDE DEF b
<1>5. ASSUME NEW r \in 1 .. Len(order), P(r - 1)
      PROVE  P(r)
  <2> DEFINE m == r - 1
             g == f[m]
  <2>1. m \in Nat /\ m < Len(order) /\ m + 1 = r
    BY <1>2
  <2>2. PICK cg : Shuffled(g, cg, h, ch, l, k, reg, order, m)
    BY <1>5
  <2>3. l \in g.alive
    BY <2>2 DEF Shuffled
  <2> HIDE DEF g, m
  <2>4. \E cf : Shuffled(add_to_list(remove_from_list(g, l, order[m+1]), k,
                                     g.item[order[m+1]].content, order[m+1]),
                         cf, h, ch, l, k, reg, order, m + 1)
    BY <1>1, <1>2, <2>1, <2>2, <2>3, OneMoves
  <2>5. f[r] = add_to_list(remove_from_list(g, l, order[m+1]), k,
                           g.item[order[m+1]].content, order[m+1])
    BY <1>3, <2>1 DEF g, m
  <2>6. QED
    BY <2>1, <2>4, <2>5
<1> HIDE DEF P
<1>6. S = {}
  <2>1. SUFFICES ASSUME S # {} PROVE FALSE
    OBVIOUS
  <2>2. S \subseteq Nat
    OBVIOUS
  <2>3. PICK r \in S : \A q \in S : r <= q
    BY <2>1, <2>2, LowestExists
  <2>4. r \in 1 .. Len(order)
    BY <1>2, <1>4, <2>3
  <2>5. r - 1 \in 0 .. Len(order) /\ ~(r <= r - 1)
    BY <1>2, <2>4
  <2>6. P(r - 1)
    BY <2>3, <2>5
  <2>7. QED
    BY <1>5, <2>4, <2>6
<1>7. QED
  BY <1>6 DEF P

\* The reset of simple_list() in a shuffled heap.
LEMMA ResetShuffled ==
  ASSUME NEW h, NEW ch, NEW vis, State(h, ch, iter, static, vis),
         NEW l \in ListIds, l \in h.alive, NEW k \in ListIds, k \notin h.alive,
         \A i \in Iterators : iter[i].list # l,
         NEW reg, NEW order, NEW m, NEW g, NEW cg,
         Shuffled(g, cg, h, ch, l, k, reg, order, m)
  PROVE  LET r == LoopReset(g) IN
         State(r, cg, iter, Idle, {}) /\ r.alive = g.alive /\ r.item = g.item
<1> DEFINE r == LoopReset(g)
<1>1. /\ Good(g, cg) /\ g.alive = h.alive \cup {k}
      /\ \A x \in AllLists : g.list[x].iters = h.list[x].iters
      /\ \A x \in ListIds \ {l, k} : cg[x] = ch[x]
  BY DEF Shuffled
<1>2. h.alive \subseteq AllLists /\ NULL \notin AllLists
  BY StateFacts
<1>3. h.alive \subseteq g.alive /\ g.alive \subseteq AllLists
  BY <1>1, <1>2 DEF AllLists
<1>4. Counted(g, iter, static)
  BY <1>1, <1>3, CountedStays
<1>5. /\ static \in StaticType /\ iter \in [Iterators -> IteratorType]
      /\ \A i \in Iterators : Stands(iter[i], h, ch)
      /\ IF static.loop THEN static.it.list \in h.alive ELSE static = Idle
  <2>1. NULL \notin ListIds
    BY NullAssumption
  <2>2. QED
    BY <2>1 DEF State, Passed, Stands
<1>6. IF static.loop THEN static.it.list \in g.alive ELSE static = Idle
  BY <1>3, <1>5
<1>7. /\ Good(r, cg) /\ Counted(r, iter, Idle)
      /\ r.alive = g.alive /\ r.used = g.used /\ r.item = g.item
  BY <1>1, <1>4, <1>5, <1>6, ResetGood
<1> HIDE DEF r
<1>8. ASSUME NEW i \in Iterators
      PROVE  Stands(iter[i], r, cg)
  <2>1. CASE iter[i].list = NULL
    BY <2>1 DEF Stands
  <2>2. CASE iter[i].list # NULL
    <3>1. /\ iter[i].list \in h.alive \ {Registry}
          /\ iter[i].at # NULL => In(iter[i].at, ch[iter[i].list])
      BY <1>5, <2>2 DEF Stands
    <3>2. iter[i].list \in ListIds \ {l, k}
      BY <1>2, <3>1 DEF AllLists
    <3>3. QED
      BY <1>1, <1>7, <3>1, <3>2 DEF Stands
  <2>3. QED
    BY <2>1, <2>2
<1>9. Idle \in StaticType /\ Stands(Idle.it, r, cg) /\ Passed(Idle, {}, cg)
  BY DEF Idle, Detached, StaticType, IteratorType, Stands, Passed
<1>10. State(r, cg, iter, Idle, {})
  BY <1>5, <1>7, <1>8, <1>9 DEF State
<1>11. QED
  BY <1>7, <1>10 DEF r

\* A sequence of all the members of another has each of its places once.
LEMMA PlacesOf ==
  ASSUME NEW S, NEW c \in Seq(S), \A j, k \in 1 .. Len(c) : c[j] = c[k] => j = k,
         NEW order \in SetToSeqs(ToSet(c))
  PROVE  /\ OnceEach(order, c)
         /\ \E s \in SetToSeqs(1 .. Len(c)) : Ordered(s, c, order, Len(c))
<1> DEFINE N == Len(c)
<1>1. N \in Nat /\ Cardinality(ToSet(c)) = N /\ Cardinality(1 .. N) = N
  BY MembersCount
<1>2. /\ order \in [1 .. N -> ToSet(c)]
      /\ \A i, j \in 1 .. N : i # j => order[i] # order[j]
  BY <1>1 DEF SetToSeqs
<1>3. Len(order) = N
  <2>1. order \in Seq(ToSet(c)) /\ DOMAIN order = 1 .. N
    BY <1>1, <1>2
  <2>2. QED
    BY <1>1, <2>1
<1>4. ToSet(c) = {c[j] : j \in 1 .. N}
  BY DEF ToSet
<1>5. \A i \in 1 .. N : \E q \in 1 .. N : c[q] = order[i]
  BY <1>2, <1>4
<1> DEFINE s == [i \in 1 .. N |-> CHOOSE q \in 1 .. N : c[q] = order[i]]
<1>6. s \in [1 .. N -> 1 .. N] /\ \A i \in 1 .. N : s[i] \in 1 .. N /\ c[s[i]] = order[i]
  BY <1>5
<1> HIDE DEF s
<1>7. \A i, j \in 1 .. N : i # j => s[i] # s[j]
  BY <1>2, <1>6
<1>8. s \in SetToSeqs(1 .. N)
  BY <1>1, <1>6, <1>7 DEF SetToSeqs
<1>9. \A i \in 1 .. Len(order) : In(order[i], c)
  BY <1>3, <1>5 DEF In
<1>10. \A i, j \in 1 .. Len(order) : order[i] = order[j] => i = j
  BY <1>2, <1>3
<1>11. Ordered(s, c, order, N)
  BY <1>6 DEF Ordered
<1>12. QED
  BY <1>1, <1>3, <1>8, <1>9, <1>10, <1>11 DEF OnceEach

\* Node reg is none of the first n of order, and in no list.
Apart(ch, order, reg, n) ==
  /\ \A i \in 1 .. n : order[i] # reg
  /\ \A m \in ListIds : \A j \in 1 .. Len(ch[m]) : ch[m][j] \in Nodes /\ ch[m][j] # reg

\* What a shuffled list holds, once the old one is gone.
LEMMA ShuffledAbs ==
  ASSUME NEW h, NEW ch, NEW l \in ListIds, l \in h.alive, NEW k \in ListIds, k # l,
         NEW reg, NEW order, NEW g, NEW cg, NEW n \in Nat,
         Shuffled(g, cg, h, ch, l, k, reg, order, n), n = Len(ch[l]),
         Apart(ch, order, reg, n), NEW s, Ordered(s, ch[l], order, n),
         NEW r, r.alive = g.alive, r.item = g.item
  PROVE  /\ \A i \in 1 .. n : AbsOf(r, cg)[k][i] = AbsOf(h, ch)[l][s[i]]
         /\ \A m \in ListIds \ {l, k} : AbsOf(r, cg)[m] = AbsOf(h, ch)[m]
<1>1. AbsOf(h, ch)[l] = [j \in 1 .. n |-> h.item[ch[l][j]].content]
  BY DEF AbsOf, ContentsOf
<1>2. \A i \in 1 .. n : order[i] \in Nodes /\ order[i] # reg
  BY DEF Apart, Ordered
<1>3. \A i \in 1 .. n : g.item[order[i]].content = h.item[order[i]].content
  BY <1>2 DEF Shuffled, SameContents
<1>4. k \in r.alive /\ Len(cg[k]) = n /\ \A i \in 1 .. n : cg[k][i] = order[i]
  BY DEF Shuffled
<1>5. ASSUME NEW i \in 1 .. n
      PROVE  AbsOf(r, cg)[k][i] = AbsOf(h, ch)[l][s[i]]
  <2>1. AbsOf(h, ch)[l][s[i]] = h.item[order[i]].content
    <3>1. s[i] \in 1 .. n /\ ch[l][s[i]] = order[i]
      BY <1>5 DEF Ordered
    <3>2. QED
      BY <1>1, <3>1
  <2>2. AbsOf(r, cg)[k][i] = r.item[cg[k][i]].content
    BY <1>4 DEF AbsOf, ContentsOf
  <2>3. QED
    BY <1>3, <1>4, <2>1, <2>2
<1>6. ASSUME NEW m \in ListIds \ {l, k}
      PROVE  AbsOf(r, cg)[m] = AbsOf(h, ch)[m]
  <2>1. cg[m] = ch[m] /\ (m \in r.alive <=> m \in h.alive)
    BY <1>6 DEF Shuffled
  <2>2. \A j \in 1 .. Len(ch[m]) : r.item[ch[m][j]].content = h.item[ch[m][j]].content
    BY DEF Shuffled, SameContents, Apart
  <2>3. ContentsOf(r, cg[m]) = ContentsOf(h, ch[m])
    BY <2>1, <2>2 DEF ContentsOf
  <2>4. QED
    BY <2>1, <2>3 DEF AbsOf
<1>7. QED
  BY <1>5, <1>6

\* randomize_list: the members of one list become those of another, in some order.
LEMMA RandomizeStep ==
  ASSUME IInv, NEW l \in ListIds, NEW k \in ListIds, RandomizeList(l, k)
  PROVE  /\ IInv'
         /\ \E s \in SetToSeqs(DOMAIN Abs[l]) :
              Abs' = [Abs EXCEPT ![l] = NULL, ![k] = [i \in DOMAIN s |-> Abs[l][s[i]]]]
<1> DEFINE ch == Chains(heap)
           c  == ch[l]
<1>1. State(heap, ch, iter, static, visited) /\ l \in AllLists
  BY DEF IInv, AllLists
<1>2. c = Chain(heap, l)
  BY <1>1 DEF Chains
<1>3. /\ l \in heap.alive /\ k \notin heap.alive
      /\ \A i \in Iterators : iter[i].list # l
      /\ static' = Idle /\ visited' = {} /\ iter' = iter
  BY DEF RandomizeList, Unattached
<1>4. PICK order \in SetToSeqs(ToSet(c)), reg \in Nodes \ heap.used :
        LET b == add_to_list([heap EXCEPT !.alive = @ \cup {k}], Registry, k, reg)
            f == CHOOSE f : Moving(f, b, l, k, order, Len(order)) IN
        heap' = Freed(LoopReset(f[Len(order)]), l)
  BY <1>2 DEF RandomizeList, FreeNodes, Moving
<1> DEFINE b == add_to_list([heap EXCEPT !.alive = @ \cup {k}], Registry, k, reg)
           f == CHOOSE f : Moving(f, b, l, k, order, Len(order))
           n == Len(order)
<1>5. heap' = Freed(LoopReset(f[n]), l)
  BY <1>4
<1> HIDE DEF ch
<1>6. /\ Good(heap, ch) /\ c \in Seq(Nodes)
      /\ \A m \in AllLists : \A j \in 1 .. Len(ch[m]) :
           ch[m][j] \in Nodes /\ ch[m][j] \in heap.used
      /\ \A i, j \in 1 .. Len(c) : c[i] = c[j] => i = j
  <2>1. Sound(heap, ch)
    BY <1>1, StateFacts
  <2>2. \A i, j \in 1 .. Len(c) : c[i] = c[j] => i = j
    BY <1>1, <2>1 DEF Sound, Linked
  <2>3. QED
    BY <1>1, <2>2, StateFacts
<1> HIDE DEF b
<1>7. /\ n = Len(c) /\ n \in Nat /\ OnceEach(order, c)
      /\ \E s \in SetToSeqs(1 .. n) : Ordered(s, c, order, n)
  <2> HIDE DEF c
  <2>1. OnceEach(order, c) /\ \E s \in SetToSeqs(1 .. Len(c)) : Ordered(s, c, order, Len(c))
    BY <1>6, PlacesOf
  <2>2. n = Len(c) /\ n \in Nat
    BY <2>1 DEF OnceEach
  <2>3. QED
    BY <2>1, <2>2
<1>8. Moving(f, b, l, k, order, n)
  <2>1. \E g : Moving(g, b, l, k, order, n)
    BY <1>7, MovingExists
  <2>2. QED
    BY <2>1
<1> HIDE DEF f
<1>9. \A m \in 0 .. n : \E cg : Shuffled(f[m], cg, heap, ch, l, k, reg, order, m)
  <2>1. /\ State(heap, ch, iter, static, visited) /\ l \in heap.alive /\ k \notin heap.alive
        /\ reg \in Nodes \ heap.used /\ OnceEach(order, ch[l])
        /\ Moving(f, Begun(heap, k, reg), l, k, order, Len(order))
    BY <1>1, <1>3, <1>7, <1>8 DEF b, Begun
  <2>2. QED
    BY <2>1, AllMove
<1> HIDE DEF n
<1>10. PICK cg : Shuffled(f[n], cg, heap, ch, l, k, reg, order, n)
  <2>1. n \in 0 .. n
    BY <1>7
  <2>2. QED
    BY <1>9, <2>1
<1> DEFINE r == LoopReset(f[n])
<1>11. State(r, cg, iter, Idle, {}) /\ r.alive = f[n].alive /\ r.item = f[n].item
  BY <1>1, <1>3, <1>10, ResetShuffled
<1> HIDE DEF r
<1>12. l \in r.alive
  BY <1>3, <1>10, <1>11 DEF Shuffled
<1>13. PICK new : /\ State(Freed(r, l), new, iter, Idle, {})
                  /\ AbsOf(Freed(r, l), new) = [AbsOf(r, cg) EXCEPT ![l] = NULL]
  BY <1>3, <1>11, <1>12, FreeState
<1>14. heap' = Freed(r, l)
  BY <1>5 DEF r
<1>15. State(heap', new, iter', static', visited')
  BY <1>3, <1>13, <1>14
<1>16. IInv' /\ Abs' = AbsOf(heap', new)
  BY <1>15, AfterStep
<1>17. PICK s \in SetToSeqs(1 .. n) : Ordered(s, c, order, n)
  BY <1>7
<1>18. Apart(ch, order, reg, n) /\ Ordered(s, ch[l], order, n)
  <2>1. \A m \in ListIds : m \in AllLists
    BY DEF AllLists
  <2>2. \A j \in 1 .. Len(c) : c[j] \in heap.used
    BY <1>1, <1>6
  <2>3. \A i \in 1 .. n : order[i] \in heap.used
    BY <1>7, <2>2 DEF In, OnceEach, n
  <2>4. QED
    BY <1>6, <1>17, <2>1, <2>3 DEF Apart
<1> DEFINE A == AbsOf(r, cg)
           B == AbsOf(heap, ch)
           x == [i \in 1 .. n |-> B[l][s[i]]]
<1>19. [A EXCEPT ![l] = NULL] = [B EXCEPT ![l] = NULL, ![k] = x]
  <2>1. /\ l \in heap.alive /\ k # l /\ n \in Nat /\ n = Len(ch[l])
    BY <1>3, <1>7
  <2>2. /\ \A i \in 1 .. n : A[k][i] = B[l][s[i]]
        /\ \A m \in ListIds \ {l, k} : A[m] = B[m]
    <3> DEFINE g == f[n]
    <3>1. Shuffled(g, cg, heap, ch, l, k, reg, order, n) /\ r.alive = g.alive /\ r.item = g.item
      BY <1>10, <1>11
    <3> HIDE DEF g, c
    <3>2. QED
      BY <1>18, <2>1, <3>1, ShuffledAbs
  <2>3. A = [m \in ListIds |-> A[m]] /\ B = [m \in ListIds |-> B[m]]
    BY DEF AbsOf
  <2>4. A[k] = [i \in 1 .. n |-> A[k][i]]
    BY <1>10, <1>11 DEF Shuffled, AbsOf, ContentsOf
  <2> HIDE DEF A, B
  <2>5. A[k] = x
    BY <2>2, <2>4
  <2> HIDE DEF x
  <2>6. QED
    BY <2>1, <2>2, <2>3, <2>5
<1>20. Abs' = [Abs EXCEPT ![l] = NULL, ![k] = [i \in DOMAIN s |-> Abs[l][s[i]]]]
  BY <1>13, <1>14, <1>16, <1>17, <1>19 DEF Abs, ch, Ordered
<1>21. DOMAIN Abs[l] = 1 .. n
  BY <1>3, <1>7 DEF Abs, AbsOf, ContentsOf, ch
<1>22. QED
  BY <1>16, <1>17, <1>20, <1>21

-----------------------------------------------------------------------------
(* The invariant.                                                          *)

\* Empty lists are sound, and nothing reads them.
LEMMA InitInv == Init => IInv
<1> SUFFICES ASSUME Init PROVE IInv
  OBVIOUS
<1> DEFINE ch == [l \in AllLists |-> <<>>]
<1>1. /\ heap.alive = {Registry} /\ heap.used = {}
      /\ heap.list = [l \in AllLists |-> NoItems]
      /\ heap.item = [n \in Nodes |-> NullItem]
      /\ heap = [alive |-> heap.alive, used |-> heap.used, list |-> heap.list, item |-> heap.item]
  BY DEF Init
<1>2. iter = [i \in Iterators |-> Detached] /\ static = Idle /\ visited = {}
  BY DEF Init
<1>3. 0 \in 0 .. SizeMod - 1
  <2>1. Cardinality(Nodes) \in Nat /\ SizeMod \in Nat /\ Cardinality(Nodes) < SizeMod
    BY SizeAssumption, FS_CardinalityType
  <2>2. QED
    BY <2>1
<1>4. heap \in HeapType
  <2>1. heap.list \in [AllLists -> ListType]
    BY <1>1, <1>3 DEF ListType, NoItems
  <2>2. heap.item \in [Nodes -> ItemType]
    BY <1>1 DEF ItemType, NullItem
  <2>3. heap.alive \in SUBSET AllLists /\ heap.used \in SUBSET Nodes
    BY <1>1 DEF AllLists
  <2>4. QED
    BY <1>1, <2>1, <2>2, <2>3 DEF HeapType
<1>5. /\ ch \in [AllLists -> Seq(Nodes)]
      /\ \A l \in AllLists : ch[l] = <<>> /\ Len(ch[l]) = 0
  OBVIOUS
<1> HIDE DEF ch
<1>6. Sound(heap, ch)
  <2>1. \A l \in AllLists : Linked(heap.list[l], heap.item, ch[l])
    BY <1>1, <1>5 DEF Linked, NoItems
  <2>2. \A l \in AllLists, n \in Nodes : ~ In(n, ch[l])
    BY <1>5 DEF In
  <2>3. QED
    BY <1>1, <1>4, <1>5, <2>1, <2>2 DEF Sound
<1>7. Good(heap, ch)
  <2>1. Registry \in AllLists /\ \A l \in ListIds : l \in AllLists
    BY DEF AllLists
  <2>2. Registered(heap, ch[Registry])
    BY <1>1, <1>5, <2>1 DEF Registered
  <2>3. \A l \in ListIds : \A k \in 1 .. Len(ch[l]) : heap.item[ch[l][k]].content \in Values
    BY <1>5, <2>1
  <2>4. QED
    BY <1>6, <2>2, <2>3 DEF Good
<1>8. /\ iter \in [Iterators -> IteratorType] /\ static \in StaticType
      /\ \A i \in Iterators : iter[i].list = NULL
      /\ static.it.list = NULL /\ ~ static.loop
  BY <1>2 DEF IteratorType, StaticType, Idle, Detached
<1>9. /\ \A i \in Iterators : Stands(iter[i], heap, ch)
      /\ Stands(static.it, heap, ch)
  BY <1>8 DEF Stands
<1>10. Counted(heap, iter, static)
  <2>1. Registry # NULL /\ heap.list[Registry].iters = 0
    BY <1>1, NullAssumption DEF AllLists, NoItems
  <2>2. ReadersOf(iter, Registry) = {}
    BY <1>8, <2>1 DEF ReadersOf
  <2>3. Cardinality(ReadersOf(iter, Registry)) = 0
    BY <2>2, FS_EmptySet
  <2>4. QED
    BY <1>1, <1>8, <2>1, <2>3 DEF Counted
<1>11. Passed(static, visited, ch)
  BY <1>2, <1>8 DEF Passed
<1>12. State(heap, ch, iter, static, visited)
  BY <1>7, <1>8, <1>9, <1>10, <1>11 DEF State
<1>13. QED
  BY <1>12, StateChains DEF IInv

\* Each operation keeps the invariant.
LEMMA Invariance == IInv /\ [Next]_vars => IInv'
<1> SUFFICES ASSUME IInv, [Next]_vars PROVE IInv'
  OBVIOUS
<1>1. ASSUME NEW l \in ListIds, CreateList(l) PROVE IInv'
  BY <1>1, CreateStep
<1>2. ASSUME NEW l \in ListIds, FreeList(l) PROVE IInv'
  BY <1>2, FreeStep
<1>3. ASSUME NEW l \in ListIds, SimpleListStart(l) PROVE IInv'
  BY <1>3, StartStep
<1>4. ASSUME NEW l \in ListIds, SimpleListNext(l) PROVE IInv'
  BY <1>4, NextStep
<1>5. ASSUME NEW l \in ListIds, NEW v \in Values, AddToList(l, v) PROVE IInv'
  BY <1>5, AddStep
<1>6. ASSUME NEW l \in ListIds, NEW v \in Values, RemoveFromList(l, v) PROVE IInv'
  BY <1>6, RemoveStep
<1>7. ASSUME NEW l \in ListIds, NEW k \in ListIds, RandomizeList(l, k) PROVE IInv'
  BY <1>7, RandomizeStep
<1>8. ASSUME NEW l \in ListIds, NEW i \in Iterators, MergeIterator(i, l) PROVE IInv'
  BY <1>8, MergeStep
<1>9. ASSUME SimpleListReset PROVE IInv'
  BY <1>9, ResetStep
<1>10. ASSUME NEW i \in Iterators, NextInList(i) PROVE IInv'
  BY <1>10, WalkStep
<1>11. ASSUME NEW i \in Iterators, RemoveIterator(i) PROVE IInv'
  BY <1>11, LeaveStep
<1>12. CASE UNCHANGED vars
  BY <1>12 DEF vars, IInv
<1>13. QED
  BY <1>1, <1>2, <1>3, <1>4, <1>5, <1>6, <1>7, <1>8, <1>9, <1>10, <1>11, <1>12 DEF Next

\* The invariant holds in every state of every behaviour.
THEOREM Inductive == Spec => []IInv
BY InitInv, Invariance, PTL DEF Spec

-----------------------------------------------------------------------------
(* What the runs check.                                                    *)

\* The chains of a state that satisfies the invariant.
LEMMA ChainFacts ==
  ASSUME IInv
  PROVE  \A l \in AllLists :
           LET c == Chain(heap, l) IN
           /\ c \in Seq(Nodes) /\ Len(c) \in Nat /\ DOMAIN c = 1 .. Len(c)
           /\ Linked(heap.list[l], heap.item, c)
           /\ \A k \in 1 .. Len(c) : c[k] \in Nodes /\ c[k] \in heap.used
           /\ l \notin heap.alive => c = <<>>
<1> DEFINE ch == Chains(heap)
<1>1. State(heap, ch, iter, static, visited)
  BY DEF IInv
<1>2. \A l \in AllLists : ch[l] = Chain(heap, l)
  BY DEF Chains
<1> HIDE DEF ch
<1>3. /\ Sound(heap, ch)
      /\ \A l \in AllLists :
           /\ ch[l] \in Seq(Nodes) /\ Len(ch[l]) \in Nat
           /\ \A k \in 1 .. Len(ch[l]) : ch[l][k] \in Nodes /\ ch[l][k] \in heap.used
           /\ l \notin heap.alive => ch[l] = <<>>
  BY <1>1, StateFacts
<1>4. \A l \in AllLists : Linked(heap.list[l], heap.item, ch[l])
  BY <1>3 DEF Sound
<1> SUFFICES ASSUME NEW l \in AllLists
             PROVE  LET c == ch[l] IN
                    /\ c \in Seq(Nodes) /\ Len(c) \in Nat /\ DOMAIN c = 1 .. Len(c)
                    /\ Linked(heap.list[l], heap.item, c)
                    /\ \A k \in 1 .. Len(c) : c[k] \in Nodes /\ c[k] \in heap.used
                    /\ l \notin heap.alive => c = <<>>
  BY <1>2
<1>5. QED
  BY <1>3, <1>4

\* The invariant has the types of the variables.
LEMMA TypesHold == IInv => TypeOK
<1> SUFFICES ASSUME IInv PROVE TypeOK
  OBVIOUS
<1> DEFINE ch == Chains(heap)
<1>1. State(heap, ch, iter, static, visited)
  BY DEF IInv
<1> HIDE DEF ch
<1>2. /\ heap \in HeapType /\ ch \in [AllLists -> Seq(Nodes)]
      /\ iter \in [Iterators -> IteratorType] /\ static \in StaticType
  BY <1>1 DEF State, Good, Sound
<1>3. visited \subseteq Nodes
  <2>1. CASE static.loop
    <3>1. PICK k \in 1 .. Len(ch[static.last]) :
            visited = {ch[static.last][j] : j \in 1 .. k} /\ static.last \in ListIds
      BY <1>1, <2>1 DEF State, Passed
    <3>2. ch[static.last] \in Seq(Nodes)
      BY <1>2, <3>1 DEF AllLists
    <3>3. \A j \in 1 .. k : ch[static.last][j] \in Nodes
      BY <3>2
    <3>4. QED
      BY <3>1, <3>3
  <2>2. CASE ~ static.loop
    BY <1>1, <2>2 DEF State, Passed
  <2>3. QED
    BY <2>1, <2>2
<1>4. /\ heap.alive \subseteq AllLists /\ heap.used \subseteq Nodes
      /\ heap.list \in [AllLists -> ListType] /\ heap.item \in [Nodes -> ItemType]
  BY <1>2 DEF HeapType
<1>5. QED
  BY <1>2, <1>3, <1>4 DEF TypeOK, ListType, ItemType, StaticType

\* The links of each list agree, and the allocated nodes are the places of the lists.
LEMMA LinksHold == IInv => WellLinked
<1> SUFFICES ASSUME IInv PROVE WellLinked
  OBVIOUS
<1> DEFINE C(l) == Chain(heap, l)
           places == UNION {LET c == Chain(heap, l) IN {<<c[k], l, k>> : k \in DOMAIN c} :
                              l \in heap.alive}
<1>1. \A l \in AllLists :
        /\ C(l) \in Seq(Nodes) /\ Len(C(l)) \in Nat /\ DOMAIN C(l) = 1 .. Len(C(l))
        /\ Linked(heap.list[l], heap.item, C(l))
        /\ \A k \in 1 .. Len(C(l)) : C(l)[k] \in Nodes /\ C(l)[k] \in heap.used
        /\ l \notin heap.alive => C(l) = <<>>
  BY ChainFacts
<1>2. Sound(heap, Chains(heap)) /\ \A l \in AllLists : Chains(heap)[l] = C(l)
  BY DEF IInv, State, Good, Chains
<1>3. heap.alive \subseteq AllLists /\ heap.used \subseteq Nodes
  BY <1>2 DEF Sound, HeapType
<1>4. /\ \A l, m \in AllLists, n \in Nodes : In(n, C(l)) /\ In(n, C(m)) => l = m
      /\ \A n \in Nodes : n \in heap.used <=> \E l \in AllLists : In(n, C(l))
  BY <1>2 DEF Sound
<1> HIDE DEF C
<1>5. ASSUME NEW l \in heap.alive
      PROVE  LET c == C(l) IN
             /\ heap.list[l].size = Len(c)
             /\ heap.list[l].last = IF c = <<>> THEN NULL ELSE Last(c)
             /\ \A k \in DOMAIN c : heap.item[c[k]].prev = IF k = 1 THEN NULL ELSE c[k-1]
  <2>1. C(l) \in Seq(Nodes) /\ (C(l) = <<>> <=> Len(C(l)) = 0)
    BY <1>1, <1>3
  <2> DEFINE d == C(l)
  <2>2. Linked(heap.list[l], heap.item, d) /\ DOMAIN d = 1 .. Len(d) /\ Last(d) = d[Len(d)]
    BY <1>1, <1>3 DEF Last
  <2>3. d = <<>> <=> Len(d) = 0
    BY <2>1
  <2> HIDE DEF d
  <2>4. /\ heap.list[l].size = Len(d)
        /\ heap.list[l].last = IF d = <<>> THEN NULL ELSE Last(d)
        /\ \A k \in DOMAIN d : heap.item[d[k]].prev = IF k = 1 THEN NULL ELSE d[k-1]
    BY <2>2, <2>3 DEF Linked
  <2>5. QED
    BY <2>4 DEF d
<1>6. \A p : p \in places <=>
         \E l \in heap.alive : \E k \in 1 .. Len(C(l)) : p = <<C(l)[k], l, k>>
  BY <1>1, <1>3 DEF C
<1> HIDE DEF places
<1>7. ASSUME NEW n \in heap.used
      PROVE  \E p \in places : p[1] = n
  <2>1. PICK l \in AllLists : In(n, C(l))
    BY <1>3, <1>4
  <2>2. PICK k \in 1 .. Len(C(l)) : C(l)[k] = n
    BY <2>1 DEF In
  <2>3. l \in heap.alive
    <3>1. Len(C(l)) # 0
      BY <1>1, <2>2
    <3>2. QED
      BY <1>1, <3>1
  <2>4. <<C(l)[k], l, k>> \in places
    BY <1>6, <2>3
  <2>5. QED
    BY <2>2, <2>4
<1>8. \A p \in places : p[1] \in heap.used
  BY <1>1, <1>3, <1>6
<1>9. ASSUME NEW p \in places, NEW q \in places, p[1] = q[1]
      PROVE  p = q
  <2>1. PICK l \in heap.alive : \E k \in 1 .. Len(C(l)) : p = <<C(l)[k], l, k>>
    BY <1>6
  <2>2. PICK k \in 1 .. Len(C(l)) : p = <<C(l)[k], l, k>>
    BY <2>1
  <2>3. PICK m \in heap.alive : \E j \in 1 .. Len(C(m)) : q = <<C(m)[j], m, j>>
    BY <1>6
  <2>4. PICK j \in 1 .. Len(C(m)) : q = <<C(m)[j], m, j>>
    BY <2>3
  <2>5. C(l)[k] = C(m)[j] /\ C(l)[k] \in Nodes /\ l \in AllLists /\ m \in AllLists
    BY <1>1, <1>3, <1>9, <2>2, <2>4
  <2>6. l = m
    BY <1>4, <2>5 DEF In
  <2>7. k = j
    BY <1>1, <2>5, <2>6 DEF Linked
  <2>8. QED
    BY <2>2, <2>4, <2>6, <2>7
<1>10. heap.used = {p[1] : p \in places}
  BY <1>7, <1>8
<1>11. Cardinality(heap.used) = Cardinality(places)
  <2> DEFINE f == [n \in heap.used |-> CHOOSE p \in places : p[1] = n]
  <2>1. \A n \in heap.used : f[n] \in places /\ f[n][1] = n
    BY <1>7
  <2>2. f \in [heap.used -> places]
    BY <2>1
  <2> HIDE DEF f
  <2>3. \A a, b \in heap.used : f[a] = f[b] => a = b
    BY <2>1
  <2>4. \A p \in places : \E n \in heap.used : f[n] = p
    <3> SUFFICES ASSUME NEW p \in places PROVE f[p[1]] = p /\ p[1] \in heap.used
      OBVIOUS
    <3>1. p[1] \in heap.used
      BY <1>8
    <3>2. QED
      BY <1>9, <2>1, <3>1
  <2>5. f \in Surjection(heap.used, places) /\ f \in Injection(heap.used, places)
    BY <2>2, <2>3, <2>4, Fun_IsSurj, Fun_IsInj
  <2>6. IsFiniteSet(heap.used)
    BY <1>3, SizeAssumption, FS_Subset
  <2>7. QED
    BY <2>5, <2>6, FS_Surjection
<1>12. \A l \in heap.alive : LET c == Chain(heap, l) IN
             /\ heap.list[l].size = Len(c)
             /\ heap.list[l].last = IF c = <<>> THEN NULL ELSE Last(c)
             /\ \A k \in DOMAIN c : heap.item[c[k]].prev = IF k = 1 THEN NULL ELSE c[k-1]
  BY <1>5 DEF C
<1>13. QED
  BY <1>10, <1>11, <1>12 DEF WellLinked, places

\* The registry's entries are as many as the other allocated lists, and are they.
LEMMA RegistryHolds == IInv => RegistryExact
<1> SUFFICES ASSUME IInv PROVE RegistryExact
  OBVIOUS
<1> DEFINE c == Chain(heap, Registry)
           L == heap.alive \ {Registry}
<1>1. Registry \in AllLists
  BY DEF AllLists
<1>2. c \in Seq(Nodes) /\ Len(c) \in Nat /\ DOMAIN c = 1 .. Len(c)
  BY <1>1, ChainFacts
<1>3. Registered(heap, c) /\ Registry \in heap.alive
  BY <1>1 DEF IInv, State, Good, Sound, Chains
<1> HIDE DEF c
<1> DEFINE e == [k \in 1 .. Len(c) |-> heap.item[c[k]].content]
<1>4. /\ \A k \in 1 .. Len(c) : e[k] \in L
      /\ \A j, k \in 1 .. Len(c) : e[j] = e[k] => j = k
      /\ \A l \in L : \E k \in 1 .. Len(c) : e[k] = l
      /\ {heap.item[c[k]].content : k \in DOMAIN c} = L
  BY <1>2, <1>3 DEF Registered
<1>5. e \in Seq(L) /\ Len(e) = Len(c) /\ DOMAIN e = 1 .. Len(c)
  BY <1>2, <1>4
<1> HIDE DEF e
<1>6. ToSet(e) = L
  BY <1>4, <1>5 DEF ToSet
<1>7. IsFiniteSet(L) /\ Cardinality(L) = Len(c)
  <2>1. \A j, k \in 1 .. Len(e) : e[j] = e[k] => j = k
    BY <1>4, <1>5
  <2>2. IsFiniteSet(ToSet(e)) /\ Cardinality(ToSet(e)) = Len(e)
    BY <1>5, <2>1, MembersCount
  <2>3. QED
    BY <1>5, <1>6, <2>2
<1>8. heap.alive = L \cup {Registry} /\ Registry \notin L
  BY <1>3
<1> HIDE DEF L
<1>9. Cardinality(heap.alive) = Cardinality(L) + 1
  BY <1>7, <1>8, FS_AddElement
<1>10. Len(c) = Cardinality(heap.alive) - 1
  BY <1>2, <1>7, <1>9
<1>11. QED
  BY <1>4, <1>10 DEF RegistryExact, c, L

\* The links and sizes, the counts of readers and the registry of lists.c stay
\* exact together, however many containers, nodes and iterators there are.
THEOREM HeapSoundHolds == Spec => []HeapSound
<1>1. IInv => HeapSound
  <2> SUFFICES ASSUME IInv PROVE HeapSound
    OBVIOUS
  <2>1. ReadersCounted
    BY DEF ReadersCounted, IInv, State, Counted, ReadersOf
  <2>2. QED
    BY <2>1, TypesHold, LinksHold, RegistryHolds DEF HeapSound
<1>2. QED
  BY <1>1, Inductive, PTL

\* An attached iterator, simple_list()'s included, stands on a member of a list
\* that is allocated, or at its end: free_list leaves none behind.
THEOREM NoDanglingIteratorHolds == Spec => []NoDanglingIterator
<1>1. IInv => NoDanglingIterator
  <2> SUFFICES ASSUME IInv,
                      NEW it \in {iter[i] : i \in Iterators} \cup {static.it}, it.list # NULL
               PROVE  /\ it.list \in heap.alive
                      /\ it.at # NULL => it.at \in ToSet(Chain(heap, it.list))
    BY DEF NoDanglingIterator
  <2>1. Stands(it, heap, Chains(heap)) /\ heap.alive \subseteq AllLists
    BY DEF IInv, State, Good, Sound, HeapType
  <2>2. it.list \in heap.alive /\ it.list \in AllLists
    BY <2>1 DEF Stands
  <2>3. ASSUME it.at # NULL PROVE it.at \in ToSet(Chain(heap, it.list))
    <3>1. In(it.at, Chain(heap, it.list))
      BY <2>1, <2>2, <2>3 DEF Stands, Chains
    <3>2. DOMAIN Chain(heap, it.list) = 1 .. Len(Chain(heap, it.list))
      BY <2>2, ChainFacts
    <3>3. QED
      BY <3>1, <3>2 DEF In, ToSet
  <2>4. QED
    BY <2>2, <2>3
<1>2. QED
  BY <1>1, Inductive, PTL

\* A loop of simple_list() that runs has returned the members up to the one it
\* stands on, and no other.
THEOREM LoopVisitsAllHolds == Spec => []LoopVisitsAll
<1>1. IInv => LoopVisitsAll
  <2> SUFFICES ASSUME IInv PROVE LoopVisitsAll
    OBVIOUS
  <2>1. Passed(static, visited, Chains(heap))
    BY DEF IInv, State
  <2>2. CASE static.loop
    <3>1. static.last = static.it.list /\ static.last \in AllLists
      BY <2>1, <2>2 DEF Passed, AllLists
    <3> DEFINE c == Chain(heap, static.last)
    <3>2. DOMAIN c = 1 .. Len(c) /\ Chains(heap)[static.last] = c
      BY <3>1, ChainFacts DEF Chains
    <3> HIDE DEF c
    <3>3. \E k \in DOMAIN c : static.it.at = c[k] /\ visited = {c[j] : j \in 1 .. k}
      BY <2>1, <2>2, <3>2 DEF Passed
    <3>4. QED
      BY <2>2, <3>1, <3>3 DEF LoopVisitsAll, c
  <2>3. CASE ~ static.loop
    BY <2>1, <2>3 DEF Passed, LoopVisitsAll
  <2>4. QED
    BY <2>2, <2>3
<1>2. QED
  BY <1>1, Inductive, PTL

\* A loop that ends by itself has returned every member its list then has.
THEOREM TraversalCompleteHolds == Spec => TraversalComplete
<1>1. IInv /\ [Next]_vars =>
        [\A l \in ListIds :
           SimpleListNext(l) /\ ~static'.loop => visited = ToSet(Chain(heap, l))]_vars
  BY NextStep
<1>2. QED
  BY <1>1, Inductive, PTL DEF Spec, TraversalComplete

-----------------------------------------------------------------------------
(* The lists implement ListSpec.                                           *)

\* What the lists of a heap hold are the contents of its chains.
LEMMA HeldIs ==
  ASSUME NEW h, NEW its, NEW st, NEW vis, State(h, Chains(h), its, st, vis)
  PROVE  /\ AbsOf(h, Chains(h)) =
              [l \in ListIds |->
                 IF l \notin h.alive THEN NULL
                 ELSE LET c == Chain(h, l) IN [k \in DOMAIN c |-> h.item[c[k]].content]]
         /\ \A l \in ListIds : l \in h.alive <=> AbsOf(h, Chains(h))[l] # NULL
<1> DEFINE ch == Chains(h)
<1>1. \A l \in ListIds : l \in AllLists /\ ch[l] = Chain(h, l)
  BY DEF Chains, AllLists
<1> HIDE DEF ch
<1>2. \A l \in ListIds :
        /\ ch[l] \in Seq(Nodes) /\ Len(ch[l]) \in Nat /\ DOMAIN ch[l] = 1 .. Len(ch[l])
        /\ \A k \in 1 .. Len(ch[l]) : h.item[ch[l][k]].content \in Values
  <2>1. Good(h, ch)
    BY StateFacts DEF ch
  <2>2. QED
    BY <1>1, <2>1 DEF Good, Sound
<1>3. \A l \in ListIds : ContentsOf(h, ch[l]) # NULL
  <2> SUFFICES ASSUME NEW l \in ListIds PROVE ContentsOf(h, ch[l]) # NULL
    OBVIOUS
  <2>1. ContentsOf(h, ch[l]) \in Seq(Values)
    BY <1>2 DEF ContentsOf
  <2>2. QED
    BY <2>1, NullAssumption
<1>4. \A l \in ListIds :
        LET c == Chain(h, l) IN ContentsOf(h, ch[l]) = [k \in DOMAIN c |-> h.item[c[k]].content]
  BY <1>1, <1>2 DEF ContentsOf
<1>5. \A l \in ListIds : l \in h.alive <=> AbsOf(h, ch)[l] # NULL
  BY <1>3 DEF AbsOf
<1>6. AbsOf(h, ch) =
        [l \in ListIds |->
           IF l \notin h.alive THEN NULL
           ELSE LET c == Chain(h, l) IN [k \in DOMAIN c |-> h.item[c[k]].content]]
  BY <1>4 DEF AbsOf
<1>7. QED
  BY <1>5, <1>6 DEF ch

\* No list is allocated at the start.
LEMMA InitRefines == Init => Seqs!Init
<1> SUFFICES ASSUME Init PROVE Held = [l \in ListIds |-> NULL]
  BY DEF Seqs!Init
<1>1. heap.alive = {Registry}
  BY DEF Init
<1>2. \A l \in ListIds : l \notin heap.alive
  BY <1>1, RegistryAssumption
<1>3. QED
  BY <1>2 DEF Held

\* Each step is one of ListSpec's or changes no sequence.
LEMMA StepRefines == IInv /\ [Next]_vars => [Seqs!Next]_Held
<1> SUFFICES ASSUME IInv, [Next]_vars PROVE [Seqs!Next]_Held
  OBVIOUS
<1>1. /\ Held = Abs
      /\ \A l \in ListIds : l \in heap.alive <=> Abs[l] # NULL
  <2>1. State(heap, Chains(heap), iter, static, visited)
    BY DEF IInv
  <2>2. QED
    BY <2>1, HeldIs DEF Held, Abs
<1>2. Held' = Abs'
  <2>1. IInv'
    BY Invariance
  <2>2. State(heap', Chains(heap'), iter', static', visited')
    BY <2>1 DEF IInv, Chains, Chain
  <2>3. AbsOf(heap', Chains(heap')) =
          [l \in ListIds |->
             IF l \notin heap'.alive THEN NULL
             ELSE LET c == Chain(heap', l) IN [k \in DOMAIN c |-> heap'.item[c[k]].content]]
    BY <2>2, HeldIs
  <2>4. QED
    BY <2>3 DEF Held, Abs
<1>3. ASSUME NEW l \in ListIds, CreateList(l) PROVE Seqs!Next
  <2>1. ~ Seqs!Exists(l) /\ Held' = [Held EXCEPT ![l] = <<>>]
    BY <1>1, <1>2, <1>3, CreateStep DEF CreateList, Seqs!Exists
  <2>2. QED
    BY <2>1 DEF Seqs!Next, Seqs!Create
<1>4. ASSUME NEW l \in ListIds, FreeList(l) PROVE Seqs!Next
  <2>1. Seqs!Exists(l) /\ Held' = [Held EXCEPT ![l] = NULL]
    BY <1>1, <1>2, <1>4, FreeStep DEF FreeList, Seqs!Exists
  <2>2. QED
    BY <2>1 DEF Seqs!Next, Seqs!Free
<1>5. ASSUME NEW l \in ListIds, NEW v \in Values, AddToList(l, v) PROVE Seqs!Next
  <2>1. Seqs!Exists(l) /\ Held' = [Held EXCEPT ![l] = Append(@, v)]
    BY <1>1, <1>2, <1>5, AddStep DEF AddToList, Seqs!Exists
  <2>2. QED
    BY <2>1 DEF Seqs!Next, Seqs!Add
<1>6. ASSUME NEW l \in ListIds, NEW v \in Values, RemoveFromList(l, v) PROVE Seqs!Next
  <2>1. /\ Seqs!Exists(l)
        /\ \E p \in 1 .. Len(Held[l]) :
             /\ Held[l][p] = v
             /\ \A j \in 1 .. p - 1 : Held[l][j] # v
             /\ Held' = [Held EXCEPT ![l] = RemoveAt(@, p)]
    BY <1>1, <1>2, <1>6, RemoveStep DEF RemoveFromList, Seqs!Exists
  <2>2. \A s, p : Seqs!RemoveAt(s, p) = RemoveAt(s, p)
    BY DEF Seqs!RemoveAt, RemoveAt
  <2>3. Seqs!TakeOut(l, v)
    BY <2>1, <2>2 DEF Seqs!TakeOut
  <2>4. QED
    BY <2>3 DEF Seqs!Next
<1>7. ASSUME NEW l \in ListIds, NEW k \in ListIds, RandomizeList(l, k) PROVE Seqs!Next
  <2>1. Seqs!Exists(l) /\ ~ Seqs!Exists(k)
    BY <1>1, <1>7 DEF RandomizeList, Seqs!Exists
  <2>2. PICK s \in SetToSeqs(DOMAIN Abs[l]) :
          Abs' = [Abs EXCEPT ![l] = NULL, ![k] = [i \in DOMAIN s |-> Abs[l][s[i]]]]
    BY <1>7, RandomizeStep
  <2>3. Held' = [Held EXCEPT ![l] = NULL, ![k] = [i \in DOMAIN s |-> Held[l][s[i]]]]
    BY <1>1, <1>2, <2>2
  <2>4. s \in Seqs!SetToSeqs(DOMAIN Held[l])
    <3>1. \A S : Seqs!Cardinality(S) = Cardinality(S)
      BY DEF Seqs!Cardinality, Cardinality
    <3>2. QED
      BY <1>1, <2>2, <3>1 DEF SetToSeqs, Seqs!SetToSeqs
  <2>5. Seqs!Randomize(l, k)
    BY <2>1, <2>3, <2>4 DEF Seqs!Randomize
  <2>6. QED
    BY <2>5 DEF Seqs!Next
<1>8. ASSUME NEW l \in ListIds, SimpleListStart(l) PROVE UNCHANGED Held
  BY <1>1, <1>2, <1>8, StartStep
<1>9. ASSUME NEW l \in ListIds, SimpleListNext(l) PROVE UNCHANGED Held
  BY <1>1, <1>2, <1>9, NextStep
<1>10. ASSUME NEW l \in ListIds, NEW i \in Iterators, MergeIterator(i, l) PROVE UNCHANGED Held
  BY <1>1, <1>2, <1>10, MergeStep
<1>11. ASSUME SimpleListReset PROVE UNCHANGED Held
  BY <1>1, <1>2, <1>11, ResetStep
<1>12. ASSUME NEW i \in Iterators, NextInList(i) PROVE UNCHANGED Held
  BY <1>1, <1>2, <1>12, WalkStep
<1>13. ASSUME NEW i \in Iterators, RemoveIterator(i) PROVE UNCHANGED Held
  BY <1>1, <1>2, <1>13, LeaveStep
<1>14. CASE UNCHANGED vars
  BY <1>14 DEF vars, Held
<1>15. QED
  BY <1>3, <1>4, <1>5, <1>6, <1>7, <1>8, <1>9, <1>10, <1>11, <1>12, <1>13, <1>14 DEF Next

\* The linked nodes are sequences: add_to_list appends, remove_from_list takes the
\* first occurrence out, randomize_list reorders, and nothing else changes a list.
THEOREM ListsImplementSequences == Spec => ImplementsListSpec
<1>1. Spec => Seqs!Spec
  BY Inductive, InitRefines, StepRefines, PTL DEF Spec, Seqs!Spec
<1>2. QED
  BY <1>1 DEF ImplementsListSpec
===============================================================================
