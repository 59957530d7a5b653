------------------------------- MODULE ListSpec -------------------------------
(***************************************************************************)
(* What src/lists.c promises of its containers: a list is a sequence of    *)
(* pointers, add_to_list appends one, remove_from_list takes the first     *)
(* occurrence out, and nothing else changes one.  Traversals, nodes, links *)
(* and counters do not exist here.                                         *)
(***************************************************************************)
EXTENDS Naturals, SequencesExt

CONSTANTS ListIds, Values, NoList

VARIABLE seq       \* of each list: its contents in order, NoList if not allocated

Exists(l) == seq[l] # NoList

Create(l) == ~Exists(l) /\ seq' = [seq EXCEPT ![l] = <<>>]

Add(l, v) == Exists(l) /\ seq' = [seq EXCEPT ![l] = Append(@, v)]

TakeOut(l, v) ==
  /\ Exists(l)
  /\ \E i \in 1 .. Len(seq[l]) :
       /\ seq[l][i] = v
       /\ \A j \in 1 .. i - 1 : seq[l][j] # v
       /\ seq' = [seq EXCEPT ![l] = RemoveAt(@, i)]

Free(l) == Exists(l) /\ seq' = [seq EXCEPT ![l] = NoList]

\* randomize_list consumes l and returns its contents, reordered, as k.
Randomize(l, k) ==
  /\ Exists(l)
  /\ ~Exists(k)
  /\ \E s \in SetToSeqs(DOMAIN seq[l]) :
       seq' = [seq EXCEPT ![l] = NoList, ![k] = [i \in DOMAIN s |-> seq[l][s[i]]]]

Init == seq = [l \in ListIds |-> NoList]

Next ==
  \E l \in ListIds :
    \/ Create(l) \/ Free(l)
    \/ \E v \in Values : Add(l, v) \/ TakeOut(l, v)
    \/ \E k \in ListIds : Randomize(l, k)

Spec == Init /\ [][Next]_seq
===============================================================================
