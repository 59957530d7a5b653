-------------------------------- MODULE Lists ---------------------------------
(***************************************************************************)
(* The doubly linked lists of src/lists.c, pointer by pointer: containers, *)
(* nodes that malloc() hands out again after free(), explicit iterators    *)
(* (merge_iterator, next_in_list, remove_iterator), the static iterator of *)
(* simple_list() and the registry global_lists, itself such a list.        *)
(*                                                                         *)
(* A container is an element of ListIds, a node an element of Nodes.  The  *)
(* callers keep two rules of docs/systems/LISTS.md: a node an iterator     *)
(* stands on is not removed before the iterator moves on ("Avoid removing  *)
(* the current element before advancing"), and a list is not freed while   *)
(* an explicit iterator reads it.  MudEvents follows the callers that      *)
(* break the first rule.                                                   *)
(***************************************************************************)
EXTENDS Integers, FiniteSets, SequencesExt

CONSTANTS
  ListIds,      \* the containers malloc() can hand out
  Registry,     \* global_lists
  Nodes,        \* the nodes malloc() can hand out
  Values,       \* what callers put in lists
  Iterators,    \* the callers' explicit iterators
  NULL,
  SizeMod       \* 2^16: iSize and iIterators are unsigned short

ASSUME NullAssumption == /\ NULL \notin ListIds \cup Nodes \cup Values \cup {Registry}
                         /\ NULL \notin Seq(Values)
ASSUME RegistryAssumption == Registry \notin ListIds
ASSUME SizeAssumption == /\ IsFiniteSet(Nodes) /\ IsFiniteSet(Iterators)
                         /\ SizeMod \in Nat
                         /\ Cardinality(Nodes) < SizeMod
                         /\ Cardinality(Iterators) + 1 < SizeMod

VARIABLES
  heap,      \* the allocated containers and nodes, and what they hold
  iter,      \* the explicit iterators
  static,    \* simple_list()'s Iterator, loop and pLastList
  visited    \* history: the nodes the current simple_list() loop has returned

vars == <<heap, iter, static, visited>>

AllLists == ListIds \cup {Registry}
Contents == Values \cup ListIds

NullItem == [next |-> NULL, prev |-> NULL, content |-> NULL]
NoItems  == [first |-> NULL, last |-> NULL, size |-> 0, iters |-> 0]
Detached == [list |-> NULL, at |-> NULL]
Idle     == [loop |-> FALSE, last |-> NULL, it |-> Detached]

-----------------------------------------------------------------------------
(* Reading a list along its links.                                         *)

\* The nodes of list l of heap h from first to last.
Chain(h, l) ==
  LET nth[k \in 1 .. Cardinality(Nodes)] ==   \* the k-th, NULL beyond the end
        IF k = 1 THEN h.list[l].first
        ELSE IF nth[k-1] = NULL THEN NULL ELSE h.item[nth[k-1]].next
  IN  [k \in {j \in 1 .. Cardinality(Nodes) : nth[j] # NULL} |-> nth[k]]

\* Mutant: any node that holds v will do.
FindAny(h, v, l) == {n \in ToSet(Chain(h, l)) : h.item[n].content = v}

\* find_in_list: the first node that holds v, if there is one.  Its own iterator
\* is attached and detached again before it returns.
find_in_list(h, v, l) ==
  LET c == Chain(h, l) IN
  {c[k] : k \in {i \in DOMAIN c : /\ h.item[c[i]].content = v
                                  /\ \A j \in 1 .. i - 1 : h.item[c[j]].content # v}}

-----------------------------------------------------------------------------
(* Changing one list of a heap.                                            *)

\* add_to_list: node n, just allocated by create_item, goes to the end.
add_to_list(h, l, v, n) ==
  LET x == h.list[l]
      linked == IF x.last = NULL THEN h.item ELSE [h.item EXCEPT ![x.last].next = n] IN
  [h EXCEPT !.used    = @ \cup {n},
            !.item    = [linked EXCEPT ![n] = [next |-> NULL, prev |-> x.last, content |-> v]],
            !.list[l] = [first |-> IF x.first = NULL THEN n ELSE x.first, last |-> n,
                         size |-> (x.size + 1) % SizeMod, iters |-> x.iters]]

\* remove_from_list, of the node n it found.  What free(n) leaves in n may not
\* be read again and is not kept.
remove_from_list(h, l, n) ==
  LET x     == h.item[n]
      y     == h.list[l]
      size  == (y.size - 1) % SizeMod
      first == IF y.first = n THEN x.next ELSE y.first
      last  == IF y.last = n THEN x.prev ELSE y.last IN
  [h EXCEPT !.used = @ \ {n},
            !.item = [m \in Nodes |->
                        IF m = n THEN NullItem
                        ELSE [next |-> IF m = x.prev THEN x.next ELSE h.item[m].next,
                              prev |-> IF m = x.next THEN x.prev ELSE h.item[m].prev,
                              content |-> h.item[m].content]],
            !.list[l] = [first |-> IF size = 0 THEN NULL ELSE first,
                         last |-> IF size = 0 THEN NULL ELSE last,
                         size |-> size, iters |-> y.iters]]

\* The reader count of the list an iterator is attached to.
Readers(h, it, d) ==
  IF it.list = NULL THEN h
  ELSE [h EXCEPT !.list[it.list].iters = (@ + d) % SizeMod]

\* merge_iterator's new position: an empty list is not attached to.
Merged(h, l) ==
  IF h.list[l].first = NULL THEN Detached ELSE [list |-> l, at |-> h.list[l].first]

\* next_in_list's new position.
Stepped(h, it) ==
  IF it.at = NULL THEN it ELSE [it EXCEPT !.at = h.item[it.at].next]

\* Mutant: free_list leaves simple_list() where it is.
LoopKept(h) == h

\* The reset simple_list(NULL) makes: it detaches the static iterator.
LoopReset(h) == IF static.loop THEN Readers(h, static.it, -1) ELSE h

\* free_list, after the reset: the nodes go, then the entry in global_lists,
\* then the container.
Freed(h, l) ==
  LET c == ToSet(Chain(h, l))
      g == [h EXCEPT !.alive   = @ \ {l},
                     !.used    = @ \ c,
                     !.item    = [m \in Nodes |-> IF m \in c THEN NullItem ELSE @[m]],
                     !.list[l] = NoItems]
      found == find_in_list(g, l, Registry) IN
  IF found = {} THEN g ELSE remove_from_list(g, Registry, CHOOSE n \in found : TRUE)

-----------------------------------------------------------------------------
(* The operations.                                                         *)

FreeNodes == Nodes \ heap.used

\* No iterator stands on node n.
Unread(n) == static.it.at # n /\ \A i \in Iterators : iter[i].at # n

\* No explicit iterator reads list l.
Unattached(l) == \A i \in Iterators : iter[i].list # l

\* create_list, and its entry in global_lists.
CreateList(l) ==
  /\ l \in ListIds \ heap.alive
  /\ \E n \in FreeNodes :
       heap' = add_to_list([heap EXCEPT !.alive = @ \cup {l}], Registry, l, n)
  /\ UNCHANGED <<iter, static, visited>>

AddToList(l, v) ==
  /\ l \in heap.alive
  /\ \E n \in FreeNodes : heap' = add_to_list(heap, l, v, n)
  /\ UNCHANGED <<iter, static, visited>>

\* A value that is not in the list is reported and nothing changes.
RemoveFromList(l, v) ==
  /\ l \in heap.alive
  /\ \E n \in find_in_list(heap, v, l) :
       /\ Unread(n)
       /\ heap' = remove_from_list(heap, l, n)
       /\ visited' = visited \ {n}
  /\ UNCHANGED <<iter, static>>

\* Mutant: simple_list() is not told that its list goes.
FreeListUnderLoop(l) ==
  /\ l \in heap.alive
  /\ Unattached(l)
  /\ heap' = Freed(heap, l)
  /\ UNCHANGED <<iter, static, visited>>

\* free_list: simple_list() is reset whatever list it iterates.
FreeList(l) ==
  /\ l \in heap.alive
  /\ Unattached(l)
  /\ heap' = Freed(LoopReset(heap), l)
  /\ static' = Idle
  /\ visited' = {}
  /\ UNCHANGED iter

\* randomize_list: members chosen by random_from_list move, one by one, to a new
\* list, and the old one is freed.  A freed node is the next one malloc() returns.
RandomizeList(l, k) ==
  /\ l \in heap.alive
  /\ k \in ListIds \ heap.alive
  /\ Unattached(l)
  /\ heap.list[l].size > 0
  /\ \E order \in SetToSeqs(ToSet(Chain(heap, l))), reg \in FreeNodes :
       LET moved[j \in 0 .. Len(order)] ==   \* when the first j have moved
             IF j = 0 THEN add_to_list([heap EXCEPT !.alive = @ \cup {k}], Registry, k, reg)
             ELSE LET n == order[j] IN
                  add_to_list(remove_from_list(moved[j-1], l, n), k,
                              moved[j-1].item[n].content, n)
       IN  heap' = Freed(LoopReset(moved[Len(order)]), l)
  /\ static' = Idle
  /\ visited' = {}
  /\ UNCHANGED iter

\* simple_list(NULL).
SimpleListReset ==
  /\ static.loop
  /\ heap' = LoopReset(heap)
  /\ static' = Idle
  /\ visited' = {}
  /\ UNCHANGED iter

\* simple_list(l) that starts a loop, ending the loop over another list if any.
SimpleListStart(l) ==
  /\ l \in heap.alive
  /\ ~(static.loop /\ static.last = l)
  /\ LET h  == LoopReset(heap)
         it == Merged(h, l) IN
     /\ heap' = Readers(h, it, 1)
     /\ static' = IF it = Detached THEN Idle
                  ELSE [loop |-> TRUE, last |-> l, it |-> it]
     /\ visited' = {it.at} \ {NULL}
  /\ UNCHANGED iter

\* Mutant: a loop over another list is taken for this one's.
GoOnAnyway(l) ==
  /\ static.loop
  /\ LET it == Stepped(heap, static.it) IN
     /\ it.at # NULL
     /\ static' = [static EXCEPT !.it = it, !.last = l]
     /\ visited' = visited \cup {it.at}
  /\ UNCHANGED <<heap, iter>>

\* simple_list(l) that goes on with the loop over l, or ends it.
SimpleListNext(l) ==
  /\ static.loop /\ static.last = l
  /\ LET it == Stepped(heap, static.it) IN
     IF it.at # NULL
     THEN /\ static' = [static EXCEPT !.it = it]
          /\ visited' = visited \cup {it.at}
          /\ UNCHANGED heap
     ELSE /\ heap' = Readers(heap, it, -1)
          /\ static' = Idle
          /\ visited' = {}
  /\ UNCHANGED iter

MergeIterator(i, l) ==
  /\ l \in heap.alive
  /\ iter[i] = Detached
  /\ iter' = [iter EXCEPT ![i] = Merged(heap, l)]
  /\ heap' = Readers(heap, iter'[i], 1)
  /\ UNCHANGED <<static, visited>>

NextInList(i) ==
  /\ iter[i].list # NULL
  /\ iter' = [iter EXCEPT ![i] = Stepped(heap, @)]
  /\ UNCHANGED <<heap, static, visited>>

RemoveIterator(i) ==
  /\ iter[i].list # NULL
  /\ heap' = Readers(heap, iter[i], -1)
  /\ iter' = [iter EXCEPT ![i] = Detached]
  /\ UNCHANGED <<static, visited>>

Init ==
  /\ heap = [alive |-> {Registry}, used |-> {},
             list |-> [l \in AllLists |-> NoItems],
             item |-> [n \in Nodes |-> NullItem]]
  /\ iter = [i \in Iterators |-> Detached]
  /\ static = Idle
  /\ visited = {}

Next ==
  \/ \E l \in ListIds :
       \/ CreateList(l) \/ FreeList(l) \/ SimpleListStart(l) \/ SimpleListNext(l)
       \/ \E v \in Values : AddToList(l, v) \/ RemoveFromList(l, v)
       \/ \E k \in ListIds : RandomizeList(l, k)
       \/ \E i \in Iterators : MergeIterator(i, l)
  \/ SimpleListReset
  \/ \E i \in Iterators : NextInList(i) \/ RemoveIterator(i)

Spec == Init /\ [][Next]_vars

-----------------------------------------------------------------------------
(* Properties.                                                             *)

IteratorType == [list : ListIds \cup {NULL}, at : Nodes \cup {NULL}]

\* Every variable has its type.
TypeOK ==
  /\ heap.alive \subseteq AllLists
  /\ heap.used \subseteq Nodes
  /\ heap.list \in [AllLists -> [first : Nodes \cup {NULL}, last : Nodes \cup {NULL},
                                 size : 0 .. SizeMod - 1, iters : 0 .. SizeMod - 1]]
  /\ heap.item \in [Nodes -> [next : Nodes \cup {NULL}, prev : Nodes \cup {NULL},
                              content : Contents \cup {NULL}]]
  /\ iter \in [Iterators -> IteratorType]
  /\ static \in [loop : BOOLEAN, last : ListIds \cup {NULL}, it : IteratorType]
  /\ visited \subseteq Nodes

\* The links of every list agree in both directions, pLastItem is the node the
\* forward links end at and iSize is their number; no node is in two lists, in
\* one twice, or allocated and in none (a leak) - whatever interleaving of
\* additions, removals, frees and shuffles went before.
WellLinked ==
  /\ \A l \in heap.alive :
       LET c == Chain(heap, l) IN
       /\ heap.list[l].size = Len(c)
       /\ heap.list[l].last = IF c = <<>> THEN NULL ELSE Last(c)
       /\ \A k \in DOMAIN c : heap.item[c[k]].prev = IF k = 1 THEN NULL ELSE c[k-1]
  /\ LET places == UNION {LET c == Chain(heap, l) IN {<<c[k], l, k>> : k \in DOMAIN c} :
                            l \in heap.alive} IN
     /\ heap.used = {p[1] : p \in places}
     /\ Cardinality(heap.used) = Cardinality(places)

\* iIterators counts the attached iterators, simple_list()'s included: every
\* path that starts, switches, resets or ends a traversal pairs its increment
\* with one decrement, on the same list.
ReadersCounted ==
  \A l \in heap.alive :
    heap.list[l].iters = Cardinality({i \in Iterators : iter[i].list = l})
                         + (IF static.it.list = l THEN 1 ELSE 0)

\* No iterator is left behind in freed memory: an attached iterator's list is
\* allocated and its node is a node of that list.  For the static iterator that
\* is what the reset in free_list is for.
NoDanglingIterator ==
  \A it \in {iter[i] : i \in Iterators} \cup {static.it} :
    it.list # NULL => /\ it.list \in heap.alive
                      /\ it.at # NULL => it.at \in ToSet(Chain(heap, it.list))

\* The three static variables of simple_list() agree, and a loop that runs has
\* returned exactly the nodes up to the one it stands on: each member is met
\* once and none is skipped, whatever was appended or removed meanwhile.
LoopVisitsAll ==
  IF static.loop
  THEN /\ static.last = static.it.list
       /\ LET c == Chain(heap, static.last) IN
          \E k \in DOMAIN c : static.it.at = c[k] /\ visited = {c[j] : j \in 1 .. k}
  ELSE static = Idle /\ visited = {}

\* A loop that ends by itself has returned every node its list then has.
TraversalComplete ==
  [][\A l \in ListIds :
       SimpleListNext(l) /\ ~static'.loop => visited = ToSet(Chain(heap, l))]_vars

\* global_lists holds each allocated list once and no freed one.
RegistryExact ==
  LET c == Chain(heap, Registry) IN
  /\ {heap.item[c[k]].content : k \in DOMAIN c} = heap.alive \ {Registry}
  /\ Len(c) = Cardinality(heap.alive) - 1

\* The heap of lists.c is sound: links and sizes, the counts of readers and the
\* registry stay exact together, through every order of additions, removals,
\* frees, shuffles and traversals begun, switched, reset or ended.
HeapSound == TypeOK /\ WellLinked /\ ReadersCounted /\ RegistryExact

\* What each allocated list holds, in order.
Held == [l \in ListIds |->
           IF l \notin heap.alive THEN NULL
           ELSE LET c == Chain(heap, l) IN [k \in DOMAIN c |-> heap.item[c[k]].content]]

\* lists.c promises sequences.
Seqs == INSTANCE ListSpec WITH NoList <- NULL, seq <- Held

\* The linked nodes implement those sequences.
ImplementsListSpec == Seqs!Spec

\* What the comment in free_list says (lists.c:104): simple_list() is reset "if
\* it's iterating THIS specific list".  Freeing a list leaves a loop over any
\* other list alone.
ResetsOnlyItsOwnLoop ==
  [][\A l \in heap.alive \ heap'.alive :
       static.loop /\ static.last # l => static' = static]_vars
===============================================================================
