----------------------------- MODULE FightsProofs -----------------------------
(***************************************************************************)
(* The invariants of the fights, for any characters and any initiatives:   *)
(* nobody in the combat list has left the world, the list has one place    *)
(* for each fighter and in its order, nobody in the world refers to who    *)
(* left it, and (unless an affect ends a fight by hand) who fights has a   *)
(* round to come.                                                          *)
(*                                                                         *)
(* What the functions of fight.c do to the lists is stated first, as the   *)
(* relations GoodMove, Refers and Forgets between two states; the steps    *)
(* then follow from these relations and never from the functions.          *)
(***************************************************************************)
EXTENDS Fights, FiniteSetTheorems, WellFoundedInduction, SequenceTheorems, TLAPS

\* h counts the members of I through, from the lowest to the highest.
Counts(h, I) ==
  /\ h \in [1 .. Cardinality(I) -> I]
  /\ \A i, j \in 1 .. Cardinality(I) : i < j => h[i] < h[j]
  /\ \A k \in I : \E i \in 1 .. Cardinality(I) : h[i] = k

\* The fights g by themselves: a fighter has one place in the list, in its order.
Listed(g) ==
  /\ \A j, k \in 1 .. Len(g.combat) : g.combat[j].who = g.combat[k].who => j = k
  /\ \A c \in Chars :
       g.fighting[c] # None <=> \E k \in 1 .. Len(g.combat) : g.combat[k].who = c

Ordered(g) ==
  \A j, k \in 1 .. Len(g.combat) : j < k => g.combat[j].init <= g.combat[k].init

FightsInv(g) == g \in FightType /\ Listed(g) /\ Ordered(g)

\* With the members of W in the world: they fight each other, the rest do nothing.
Linked(g, W) ==
  \A c \in Chars : IF c \in W THEN g.fighting[c] \in W \cup {None}
                  ELSE g.fighting[c] = None /\ g.round[c] = "none"

GoesOn(g, c) == g.fighting[c] # None => g.round[c] # "none"

\* From the fights g to the fights h nothing is spoilt, and no callback returns.
GoodMove(g, h, W) ==
  /\ FightsInv(h)
  /\ Linked(h, W)
  /\ \A c \in Chars : /\ h.round[c] = "running" <=> g.round[c] = "running"
                      /\ Risks = {} /\ GoesOn(g, c) => GoesOn(h, c)

\* The references r become q: c refers to v as k.
Refers(r, q, k, c, v) ==
  /\ q \in [Kinds -> [Chars -> Chars \cup {None}]]
  /\ \A l \in Kinds, d \in Chars : q[l][d] = IF l = k /\ d = c THEN v ELSE r[l][d]

\* The references r become q: nobody in the world refers as k to a member of S.
Forgets(r, q, k, S) ==
  /\ q \in [Kinds -> [Chars -> Chars \cup {None}]]
  /\ \A l \in Kinds, d \in Chars :
       q[l][d] = IF l = k /\ d \in InWorld /\ r[l][d] \in S THEN None ELSE r[l][d]

\* Parts of the inductive invariant: the fights, ...
FightPart ==
  /\ FightsInv(f)
  /\ Linked(f, InWorld)
  /\ Risks = {} => \A c \in Chars \ pending : GoesOn(f, c)

\* ... the callback on the stack, ...
RunningPart ==
  /\ running \in Chars \cup {None}
  /\ \A c \in Chars : f.round[c] = "running" <=> running = c

\* ... who is in the world and who is to leave it, ...
WorldPart ==
  /\ scenario \in Scenarios
  /\ characterList \in Seq(Chars) /\ IsInjective(characterList)
  /\ menu \subseteq Players \ InWorld
  /\ pending \subseteq InWorld
  /\ extractionsPending \in Nat /\ CountIsExact
  /\ dead \subseteq Mobs \cap pending

\* ... and whom they refer to: those who are gone, to nobody that a mobile read
\* into their memory or a player back from the menu would still refer to.
RefsPart ==
  /\ ref \in [Kinds -> [Chars -> Chars \cup {None}]]
  /\ \A k \in Kinds \ {"last_attacker"}, c \in Chars :
       IF c \in InWorld THEN ref[k][c] \in InWorld \cup {None}
       ELSE c \in Mobs \/ k = "guarding" => ref[k][c] = None

\* The inductive invariant: the four together.
IInv == FightPart /\ RunningPart /\ WorldPart /\ RefsPart

-----------------------------------------------------------------------------
(* Lemmas: sequences.                                                      *)

\* A set of numbers has a lowest one.
LEMMA LowestExists ==
  ASSUME NEW S, S \subseteq Nat, S # {}
  PROVE  \E r \in S : \A q \in S : r <= q
<1> DEFINE R == OpToRel(<, Nat)
<1>1. IsWellFoundedOn(R, Nat)
  BY NatLessThanWellFounded, Zenon
<1>2. \A a, b \in Nat : a < b => <<a, b>> \in R
  BY DEF OpToRel
<1> HIDE DEF R
<1>3. PICK r \in S : \A q \in S : ~ (<<q, r>> \in R)
  BY <1>1, WFMin, Zenon
<1>4. ASSUME NEW q \in S PROVE r <= q
  <2>1. r \in Nat /\ q \in Nat
    OBVIOUS
  <2>2. ~ (q < r)
    BY <1>2, <1>3, <2>1
  <2>3. QED
    BY <2>1, <2>2
<1>5. QED
  BY <1>4

\* One number more, higher than the others, is counted last.
LEMMA CountOneMore ==
  ASSUME NEW I, IsFiniteSet(I), I \subseteq Nat, NEW h, Counts(h, I),
         NEW m \in Nat, \A k \in I : k < m
  PROVE  \E g : Counts(g, I \cup {m})
<1> DEFINE n == Cardinality(I)
           g == [k \in 1 .. n + 1 |-> IF k = n + 1 THEN m ELSE h[k]]
<1>1. n \in Nat
  BY FS_CardinalityType
<1>2. Cardinality(I \cup {m}) = n + 1
  <2>1. m \notin I
    OBVIOUS
  <2>2. QED
    BY <2>1, FS_AddElement
<1>3. /\ \A k \in 1 .. n : h[k] \in I /\ g[k] = h[k]
      /\ \A i, j \in 1 .. n : i < j => h[i] < h[j]
      /\ \A k \in I : \E i \in 1 .. n : h[i] = k
  BY <1>1 DEF Counts
<1>4. g[n + 1] = m
  BY <1>1
<1>5. g \in [1 .. n + 1 -> I \cup {m}]
  BY <1>1 DEF Counts
<1> HIDE DEF g, n
<1>6. \A i, j \in 1 .. n + 1 : i < j => g[i] < g[j]
  <2> SUFFICES ASSUME NEW i \in 1 .. n + 1, NEW j \in 1 .. n + 1, i < j PROVE g[i] < g[j]
    OBVIOUS
  <2>1. i \in 1 .. n /\ g[i] = h[i] /\ h[i] \in I
    BY <1>1, <1>3
  <2>2. CASE j = n + 1
    BY <2>1, <2>2, <1>4
  <2>3. CASE j \in 1 .. n
    BY <2>1, <2>3, <1>3
  <2>4. QED
    BY <1>1, <2>2, <2>3
<1>7. \A k \in I \cup {m} : \E i \in 1 .. n + 1 : g[i] = k
  <2>1. ASSUME NEW k \in I PROVE \E i \in 1 .. n + 1 : g[i] = k
    <3>1. PICK i \in 1 .. n : h[i] = k
      BY <1>3
    <3>2. i \in 1 .. n + 1 /\ g[i] = k
      BY <1>1, <1>3, <3>1
    <3>3. QED
      BY <3>2
  <2>2. \E i \in 1 .. n + 1 : g[i] = m
    BY <1>1, <1>4
  <2>3. QED
    BY <2>1, <2>2
<1>8. Counts(g, I \cup {m})
  BY <1>2, <1>5, <1>6, <1>7 DEF Counts, n
<1>9. QED
  BY <1>8

\* The members of a set of numbers up to n can be counted through.
LEMMA CountingExists ==
  ASSUME NEW n \in Nat, NEW I \in SUBSET (1 .. n)
  PROVE  IsFiniteSet(I) /\ \E h : Counts(h, I)
<1> DEFINE Good(m) == \A J \in SUBSET (1 .. m) : \E h : Counts(h, J)
           Bad == {m \in Nat : ~Good(m)}
<1>0. ASSUME NEW m \in Nat, NEW J \in SUBSET (1 .. m) PROVE IsFiniteSet(J)
  <2>1. IsFiniteSet(1 .. m)
    BY FS_Interval
  <2>2. QED
    BY <2>1, FS_Subset
<1>1. Good(0)
  <2> SUFFICES ASSUME NEW J \in SUBSET (1 .. 0) PROVE \E h : Counts(h, J)
    OBVIOUS
  <2>1. J = {}
    OBVIOUS
  <2>2. Cardinality(J) = 0
    BY <2>1, FS_EmptySet
  <2>3. Counts([k \in 1 .. 0 |-> 0], J)
    BY <2>1, <2>2 DEF Counts
  <2>4. QED
    BY <2>3
<1>2. ASSUME NEW m \in Nat, Good(m) PROVE Good(m + 1)
  <2> SUFFICES ASSUME NEW J \in SUBSET (1 .. m + 1) PROVE \E h : Counts(h, J)
    OBVIOUS
  <2>1. CASE m + 1 \notin J
    <3>1. J \in SUBSET (1 .. m)
      BY <2>1
    <3>2. QED
      BY <1>2, <3>1
  <2>2. CASE m + 1 \in J
    <3> DEFINE L == J \ {m + 1}
    <3>1. L \in SUBSET (1 .. m) /\ J = L \cup {m + 1}
      BY <2>2
    <3> HIDE DEF L
    <3>2. PICK h : Counts(h, L)
      BY <1>2, <3>1
    <3>3. IsFiniteSet(L)
      BY <1>0, <3>1
    <3>6. L \subseteq Nat /\ (\A k \in L : k < m + 1) /\ m + 1 \in Nat
      BY <3>1
    <3>4. \E g : Counts(g, L \cup {m + 1})
      BY <3>2, <3>3, <3>6, CountOneMore
    <3>5. QED
      BY <3>1, <3>4
  <2>3. QED
    BY <2>1, <2>2
<1> HIDE DEF Good
<1>3. Bad = {}
  <2> SUFFICES ASSUME Bad # {} PROVE FALSE
    OBVIOUS
  <2>1. PICK m \in Bad : \A q \in Bad : m <= q
    BY LowestExists
  <2>2. m \in Nat /\ m # 0 /\ ~Good(m)
    BY <1>1
  <2>3. m - 1 \in Nat /\ m - 1 \notin Bad
    BY <2>1, <2>2
  <2>4. Good(m - 1)
    BY <2>3
  <2>5. Good((m - 1) + 1)
    BY <1>2, <2>3, <2>4
  <2>6. QED
    BY <2>2, <2>5
<1>4. Good(n)
  BY <1>3
<1>5. QED
  BY <1>0, <1>4 DEF Good

\* What Kept keeps, and in which order.
LEMMA KeptProperties ==
  ASSUME NEW S, NEW s \in Seq(S), NEW I \in SUBSET (1 .. Len(s))
  PROVE  /\ Kept(s, I) \in Seq(S)
         /\ \E h : /\ Counts(h, I)
                   /\ Len(Kept(s, I)) = Cardinality(I)
                   /\ \A k \in 1 .. Cardinality(I) : Kept(s, I)[k] = s[h[k]]
         /\ Cardinality(I) \in Nat
<1> DEFINE P(h) == \A i, j \in DOMAIN h : i < j => h[i] < h[j]
           n == Cardinality(I)
           at == CHOOSE h \in [1 .. n -> I] : P(h)
<1>0. Len(s) \in Nat /\ I \subseteq Nat
  OBVIOUS
<1>1. IsFiniteSet(I) /\ \E h : Counts(h, I)
  BY <1>0, CountingExists
<1>2. n \in Nat
  BY <1>1, FS_CardinalityType
<1>3. \E h \in [1 .. n -> I] : P(h)
  BY <1>1 DEF Counts
<1>4. at \in [1 .. n -> I] /\ P(at)
  BY <1>3
<1>5. Kept(s, I) = [k \in 1 .. n |-> s[at[k]]]
  BY DEF Kept
<1> HIDE DEF at
<1>6. \A i, j \in 1 .. n : i < j => at[i] < at[j]
  BY <1>4
<1>7. at \in Injection(1 .. n, I)
  <2>1. ASSUME NEW i \in 1 .. n, NEW j \in 1 .. n, at[i] = at[j] PROVE i = j
    <3>1. at[i] \in Nat /\ at[j] \in Nat
      <4>1. at[i] \in I /\ at[j] \in I
        BY <1>4
      <4>2. QED
        BY <4>1, <1>0
    <3>2. ~ (i < j) /\ ~ (j < i)
      BY <1>6, <2>1, <3>1
    <3>3. QED
      BY <3>2, <1>2
  <2>2. QED
    BY <2>1, <1>4 DEF Injection, IsInjective
<1>8. at \in Surjection(1 .. n, I)
  <2>1. Cardinality(1 .. n) = n
    BY <1>2, FS_Interval
  <2>2. QED
    BY <1>1, <1>7, <2>1, FS_Injection
<1>9. \A k \in I : \E i \in 1 .. n : at[i] = k
  BY <1>8 DEF Surjection
<1>10. Counts(at, I)
  BY <1>4, <1>6, <1>9 DEF Counts
<1>11. Kept(s, I) \in Seq(S) /\ Len(Kept(s, I)) = n
  <2>1. \A k \in 1 .. n : at[k] \in 1 .. Len(s)
    BY <1>4
  <2>3. \A k \in 1 .. n : s[at[k]] \in S
    BY <2>1
  <2>2. QED
    BY <1>2, <1>5, <2>3
<1>12. QED
  BY <1>2, <1>5, <1>10, <1>11

\* InsertAt puts e at position p and moves what follows one place back.
LEMMA InsertAtProperties ==
  ASSUME NEW S, NEW s \in Seq(S), NEW e \in S, NEW p \in 1 .. Len(s) + 1
  PROVE  /\ InsertAt(s, p, e) \in Seq(S)
         /\ Len(InsertAt(s, p, e)) = Len(s) + 1
         /\ \A i \in 1 .. Len(s) + 1 :
              InsertAt(s, p, e)[i] = IF i < p THEN s[i]
                                     ELSE IF i = p THEN e ELSE s[i-1]
<1> DEFINE front == SubSeq(s, 1, p-1) \o <<e>>
           back  == SubSeq(s, p, Len(s))
<1>1. /\ front \in Seq(S) /\ Len(front) = p
      /\ \A i \in 1 .. p : front[i] = IF i < p THEN s[i] ELSE e
  OBVIOUS
<1>2. /\ back \in Seq(S) /\ Len(back) = Len(s) - p + 1
      /\ \A i \in 1 .. Len(s) - p + 1 : back[i] = s[p + i - 1]
  OBVIOUS
<1>3. InsertAt(s, p, e) = front \o back
  BY DEF InsertAt
<1> HIDE DEF front, back
<1>4. /\ front \o back \in Seq(S)
      /\ Len(front \o back) = Len(front) + Len(back)
      /\ \A i \in 1 .. Len(front) + Len(back) :
           (front \o back)[i] = IF i <= Len(front) THEN front[i]
                                ELSE back[i - Len(front)]
  BY <1>1, <1>2, ConcatProperties, Zenon
<1>5. QED
  BY <1>1, <1>2, <1>3, <1>4

-----------------------------------------------------------------------------
(* Lemmas: the fights.                                                     *)

\* When the fights of all in K end, the others go on, in their order.
LEMMA OverSound ==
  ASSUME NEW g, FightsInv(g), NEW K
  PROVE  LET h == FightsOver(g, K) IN
         /\ FightsInv(h)
         /\ h.fighting = [c \in Chars |-> IF c \in K THEN None ELSE g.fighting[c]]
         /\ h.round = [c \in Chars |->
                         IF c \in K /\ g.round[c] = "queued" THEN "none" ELSE g.round[c]]
<1> DEFINE I == {k \in DOMAIN g.combat : g.combat[k].who \notin K}
           s == g.combat
           t == Kept(g.combat, I)
           fighting == [c \in Chars |-> IF c \in K THEN None ELSE g.fighting[c]]
           round == [c \in Chars |->
                      IF c \in K /\ g.round[c] = "queued" THEN "none" ELSE g.round[c]]
           h == FightsOver(g, K)
<1>1. /\ s \in Seq(Entry)
      /\ g.fighting \in [Chars -> Chars \cup {None}]
      /\ g.round \in [Chars -> {"none", "queued", "running"}]
  BY DEF FightsInv, FightType
<1>2. h = [combat |-> t, fighting |-> fighting, round |-> round]
  <2>1. g \in FightType /\ h = [g EXCEPT !.combat = t, !.fighting = fighting, !.round = round]
    BY DEF FightsOver, FightsInv
  <2> HIDE DEF h, t, fighting, round
  <2>2. QED
    BY <2>1 DEF FightType
<1>3. I \in SUBSET (1 .. Len(s)) /\ \A k \in 1 .. Len(s) : k \in I <=> s[k].who \notin K
  BY <1>1
<1> HIDE DEF I
<1>4. /\ t \in Seq(Entry)
      /\ \E at : /\ Counts(at, I)
                 /\ Len(t) = Cardinality(I)
                 /\ \A k \in 1 .. Cardinality(I) : t[k] = s[at[k]]
  BY <1>1, <1>3, KeptProperties
<1> HIDE DEF t, s, h
<1>5. PICK at : /\ Counts(at, I)
                /\ Len(t) = Cardinality(I)
                /\ \A k \in 1 .. Cardinality(I) : t[k] = s[at[k]]
  BY <1>4
<1>6. /\ \A k \in 1 .. Len(t) : at[k] \in I /\ at[k] \in 1 .. Len(s) /\ t[k] = s[at[k]]
      /\ \A j, k \in 1 .. Len(t) : j < k => at[j] < at[k]
      /\ \A k \in I : \E i \in 1 .. Len(t) : at[i] = k
  BY <1>3, <1>5 DEF Counts
<1>7. h \in FightType
  <2>1. /\ fighting \in [Chars -> Chars \cup {None}]
        /\ round \in [Chars -> {"none", "queued", "running"}]
    BY <1>1
  <2>2. QED
    BY <1>2, <1>4, <2>1 DEF FightType
<1>8. Listed(h)
  <2>1. ASSUME NEW j \in 1 .. Len(t), NEW k \in 1 .. Len(t), t[j].who = t[k].who
        PROVE  j = k
    <3>0. \A a, b \in 1 .. Len(s) : s[a].who = s[b].who => a = b
      BY DEF FightsInv, Listed, s
    <3>5. /\ at[j] \in 1 .. Len(s) /\ t[j] = s[at[j]]
          /\ at[k] \in 1 .. Len(s) /\ t[k] = s[at[k]]
      BY <1>6
    <3>1. at[j] = at[k]
      BY <3>5, <2>1, <3>0
    <3>2. ~ (at[j] < at[k]) /\ ~ (at[k] < at[j])
      BY <3>1, <1>6
    <3>3. j \in Nat /\ k \in Nat
      BY <1>4
    <3>4. QED
      BY <1>6, <3>2, <3>3
  <2>2. ASSUME NEW c \in Chars, fighting[c] # None
        PROVE  \E k \in 1 .. Len(t) : t[k].who = c
    <3>1. c \notin K /\ g.fighting[c] # None
      BY <2>2
    <3>2. PICK k \in 1 .. Len(s) : s[k].who = c
      BY <3>1 DEF FightsInv, Listed, s
    <3>3. k \in I
      BY <3>1, <3>2, <1>3
    <3>4. QED
      BY <3>2, <3>3, <1>6
  <2>3. ASSUME NEW c \in Chars, NEW k \in 1 .. Len(t), t[k].who = c
        PROVE  fighting[c] # None
    <3>1. s[at[k]].who = c /\ at[k] \in 1 .. Len(s) /\ c \notin K
      BY <2>3, <1>6, <1>3
    <3>2. g.fighting[c] # None
      BY <3>1 DEF FightsInv, Listed, s
    <3>3. QED
      BY <3>1, <3>2
  <2> HIDE DEF fighting
  <2>4. h.combat = t /\ h.fighting = fighting
    BY <1>2
  <2>5. QED
    BY <2>1, <2>2, <2>3, <2>4 DEF Listed
<1>9. Ordered(h)
  <2>1. ASSUME NEW j \in 1 .. Len(t), NEW k \in 1 .. Len(t), j < k
        PROVE  t[j].init <= t[k].init
    <3>1. at[j] < at[k] /\ t[j] = s[at[j]] /\ t[k] = s[at[k]]
          /\ at[j] \in 1 .. Len(s) /\ at[k] \in 1 .. Len(s)
      BY <1>6, <2>1
    <3>2. QED
      BY <3>1 DEF FightsInv, Ordered, s
  <2>2. h.combat = t
    BY <1>2
  <2>3. QED
    BY <2>1, <2>2 DEF Ordered
<1>10. FightsInv(h)
  BY <1>7, <1>8, <1>9 DEF FightsInv
<1>11. h.fighting = fighting /\ h.round = round
  BY <1>2
<1>12. QED
  BY <1>10, <1>11 DEF h

\* Where a newcomer is put, the list stays in order and has everybody else in it.
LEMMA InsertedSound ==
  ASSUME NEW g, FightsInv(g), NEW c \in Chars, NEW i \in Nat, NEW dex \in [Chars -> Nat]
  PROVE  LET s == g.combat
             e == [who |-> c, init |-> i] IN
         \E p \in 1 .. Len(s) + 1 :
           /\ Inserted(s, c, i, dex) = InsertAt(s, p, e)
           /\ \A k \in 1 .. Len(s) : IF k < p THEN s[k].init <= i ELSE i <= s[k].init
<1> DEFINE s == g.combat
           e == [who |-> c, init |-> i]
           stop == {k \in DOMAIN s : ~ActsAfter(c, i, dex, s[k])}
           P(k) == /\ k \in stop \/ (stop = {} /\ k = Len(s) + 1)
                   /\ \A j \in stop : k <= j
           at == CHOOSE k \in 1 .. Len(s) + 1 : P(k)
<1>1. s \in Seq(Entry) /\ Len(s) \in Nat /\ DOMAIN s = 1 .. Len(s)
  BY DEF FightsInv, FightType
<1>2. \A k \in 1 .. Len(s) : s[k].init \in Nat
  <2>1. \A k \in 1 .. Len(s) : s[k] \in Entry
    BY <1>1
  <2>2. QED
    BY <2>1 DEF Entry
<1>3. \E k \in 1 .. Len(s) + 1 : P(k)
  <2>1. CASE stop = {}
    <3>1. P(Len(s) + 1) /\ Len(s) + 1 \in 1 .. Len(s) + 1
      BY <2>1, <1>1
    <3>2. QED
      BY <3>1
  <2>2. CASE stop # {}
    <3>1. stop \subseteq Nat /\ stop \subseteq 1 .. Len(s)
      BY <1>1
    <3>2. PICK k \in stop : \A j \in stop : k <= j
      BY <3>1, <2>2, LowestExists
    <3>3. QED
      BY <3>1, <3>2, <1>1
  <2>3. QED
    BY <2>1, <2>2
<1>4. at \in 1 .. Len(s) + 1 /\ P(at)
  BY <1>3
<1>5. Inserted(s, c, i, dex) = InsertAt(s, at, e)
  BY DEF Inserted
<1> HIDE DEF at
<1>6. ASSUME NEW k \in 1 .. Len(s), k < at PROVE s[k].init <= i
  <2>1. k \notin stop
    BY <1>1, <1>4, <1>6
  <2>2. ActsAfter(c, i, dex, s[k])
    BY <1>1, <2>1
  <2>3. QED
    BY <1>2, <2>2 DEF ActsAfter
<1>7. ASSUME NEW k \in 1 .. Len(s), ~ (k < at) PROVE i <= s[k].init
  <2>1. at \in stop /\ at \in 1 .. Len(s) /\ at <= k
    BY <1>1, <1>4, <1>7
  <2>2. ~ActsAfter(c, i, dex, s[at])
    BY <2>1
  <2>3. i <= s[at].init
    BY <1>2, <2>1, <2>2 DEF ActsAfter
  <2>4. s[at].init <= s[k].init
    <3>1. CASE at = k
      BY <3>1, <1>2
    <3>2. CASE at < k
      BY <3>2, <2>1 DEF FightsInv, Ordered
    <3>3. QED
      BY <2>1, <3>1, <3>2, <1>1
  <2>5. QED
    BY <1>2, <2>1, <2>3, <2>4
<1>8. QED
  BY <1>4, <1>5, <1>6, <1>7

\* t is s with e at place p.
Grown(s, p, e, t) ==
  /\ t \in Seq(Entry) /\ Len(t) = Len(s) + 1
  /\ \A k \in 1 .. Len(s) + 1 :
       t[k] = IF k < p THEN s[k] ELSE IF k = p THEN e ELSE s[k-1]

\* The list with the newcomer: who stands where.
LEMMA InsertedEntries ==
  ASSUME NEW g, FightsInv(g), NEW c \in Chars, NEW i \in Nat, NEW dex \in [Chars -> Nat]
  PROVE  LET s == g.combat
             e == [who |-> c, init |-> i] IN
         \E p \in 1 .. Len(s) + 1 :
           /\ Grown(s, p, e, Inserted(s, c, i, dex))
           /\ \A k \in 1 .. Len(s) : IF k < p THEN s[k].init <= i ELSE i <= s[k].init
<1> DEFINE s == g.combat
           e == [who |-> c, init |-> i]
           t == Inserted(s, c, i, dex)
<1>1. s \in Seq(Entry) /\ e \in Entry
  BY DEF FightsInv, FightType, Entry
<1>2. PICK p \in 1 .. Len(s) + 1 :
        /\ t = InsertAt(s, p, e)
        /\ \A k \in 1 .. Len(s) : IF k < p THEN s[k].init <= i ELSE i <= s[k].init
  BY InsertedSound
<1> HIDE DEF s, e, t
<1>3. /\ InsertAt(s, p, e) \in Seq(Entry) /\ Len(InsertAt(s, p, e)) = Len(s) + 1
      /\ \A k \in 1 .. Len(s) + 1 :
           InsertAt(s, p, e)[k] = IF k < p THEN s[k] ELSE IF k = p THEN e ELSE s[k-1]
  BY <1>1, InsertAtProperties
<1>4. Grown(s, p, e, t)
  BY <1>2, <1>3 DEF Grown
<1>5. QED
  BY <1>2, <1>4 DEF s, e, t

\* Either set_fighting refuses, or c, who did not fight and has no round, fights v.
LEMMA SetSound ==
  ASSUME NEW g, FightsInv(g), NEW c \in Chars, NEW v \in Chars, NEW i \in Nat,
         NEW dex \in [Chars -> Nat], NEW made
  PROVE  LET h == set_fighting(g, c, v, i, dex, made) IN
         /\ FightsInv(h)
         /\ \/ h = g
            \/ /\ c # v /\ g.fighting[c] = None /\ g.round[c] = "none"
               /\ h.fighting = [g.fighting EXCEPT ![c] = v]
               /\ h.round = [g.round EXCEPT ![c] = IF c \in made THEN "queued" ELSE "none"]
<1> DEFINE h == set_fighting(g, c, v, i, dex, made)
           s == g.combat
           e == [who |-> c, init |-> i]
           fighting == [g.fighting EXCEPT ![c] = v]
           round == [g.round EXCEPT ![c] = IF c \in made THEN "queued" ELSE "none"]
<1>1. CASE c = v \/ g.fighting[c] # None \/ g.round[c] # "none"
  BY <1>1 DEF set_fighting
<1>2. CASE ~ (c = v \/ g.fighting[c] # None \/ g.round[c] # "none")
  <2> DEFINE t == Inserted(s, c, i, dex)
  <2>1. PICK p \in 1 .. Len(s) + 1 :
          /\ Grown(s, p, e, t)
          /\ \A k \in 1 .. Len(s) : IF k < p THEN s[k].init <= i ELSE i <= s[k].init
    BY InsertedEntries
  <2>2. /\ s \in Seq(Entry) /\ Len(s) \in Nat
        /\ g.fighting \in [Chars -> Chars \cup {None}]
        /\ g.round \in [Chars -> {"none", "queued", "running"}]
    BY DEF FightsInv, FightType
  <2>3. e \in Entry
    BY DEF Entry
  <2> HIDE DEF e
  <2>4. /\ t \in Seq(Entry) /\ Len(t) = Len(s) + 1
        /\ \A k \in 1 .. Len(s) + 1 :
             t[k] = IF k < p THEN s[k] ELSE IF k = p THEN e ELSE s[k-1]
    BY <2>1 DEF Grown
  <2>12. \A k \in 1 .. Len(t) :
           /\ k < p => k \in 1 .. Len(s) /\ t[k] = s[k]
           /\ k = p => t[k].who = c /\ t[k].init = i
           /\ k > p => k - 1 \in 1 .. Len(s) /\ t[k] = s[k - 1]
    <3> SUFFICES ASSUME NEW k \in 1 .. Len(s) + 1
                 PROVE  /\ k < p => k \in 1 .. Len(s) /\ t[k] = s[k]
                        /\ k = p => t[k].who = c /\ t[k].init = i
                        /\ k > p => k - 1 \in 1 .. Len(s) /\ t[k] = s[k - 1]
      BY <2>4
    <3>1. t[k] = IF k < p THEN s[k] ELSE IF k = p THEN e ELSE s[k-1]
      BY <2>4
    <3>2. e.who = c /\ e.init = i
      BY DEF e
    <3>3. k < p => k \in 1 .. Len(s) /\ t[k] = s[k]
      BY <2>2, <3>1
    <3>4. k = p => t[k].who = c /\ t[k].init = i
      BY <2>2, <3>1, <3>2
    <3>5. k > p => k - 1 \in 1 .. Len(s) /\ t[k] = s[k - 1]
      BY <2>2, <3>1
    <3>6. QED
      BY <3>3, <3>4, <3>5
  <2>13. /\ p \in 1 .. Len(t)
         /\ \A k \in 1 .. Len(s) :
              /\ k < p => k \in 1 .. Len(t) /\ t[k] = s[k]
              /\ ~ (k < p) => k + 1 \in 1 .. Len(t) /\ t[k + 1] = s[k]
    <3>1. p \in 1 .. Len(t) /\ \A k \in 1 .. Len(s) : k \in 1 .. Len(t) /\ k + 1 \in 1 .. Len(t)
      BY <2>2, <2>4
    <3>2. ASSUME NEW k \in 1 .. Len(s), ~ (k < p) PROVE t[k + 1] = s[k]
      <4>1. k + 1 > p /\ (k + 1) - 1 = k
        BY <2>2, <3>2
      <4>2. QED
        BY <4>1, <3>1, <2>12
    <3>3. QED
      BY <3>1, <3>2, <2>12, <2>4
  <2>5. h = [combat |-> t, fighting |-> fighting, round |-> round]
    BY <1>2, <2>1 DEF set_fighting, FightsInv, FightType, e
  <2> HIDE DEF t, h
  <2>6. h \in FightType
    <3>1. /\ fighting \in [Chars -> Chars \cup {None}]
          /\ round \in [Chars -> {"none", "queued", "running"}]
      BY <2>2
    <3>2. QED
      BY <2>4, <2>5, <3>1 DEF FightType
  <2>7. \A k \in 1 .. Len(s) : s[k].who # c
    BY <1>2 DEF FightsInv, Listed
  <2>8. Listed(h)
    <3>1. ASSUME NEW j \in 1 .. Len(t), NEW k \in 1 .. Len(t), t[j].who = t[k].who
          PROVE  j = k
      <4>1. \A a, b \in 1 .. Len(s) : s[a].who = s[b].who => a = b
        BY DEF FightsInv, Listed
      <4>2. CASE j = p
        <5>1. t[k].who = c
          BY <4>2, <2>12, <3>1
        <5>2. ~ (k < p) /\ ~ (k > p)
          BY <5>1, <2>7, <2>12
        <5>3. QED
          BY <5>2, <4>2, <2>2
      <4>3. CASE k = p
        <5>1. t[j].who = c
          BY <4>3, <2>12, <3>1
        <5>2. ~ (j < p) /\ ~ (j > p)
          BY <5>1, <2>7, <2>12
        <5>3. QED
          BY <5>2, <4>3, <2>2
      <4>4. CASE j # p /\ k # p
        <5> DEFINE a == IF j < p THEN j ELSE j - 1
                   b == IF k < p THEN k ELSE k - 1
        <5>1. a \in 1 .. Len(s) /\ t[j] = s[a]
          BY <4>4, <2>2, <2>4
        <5>2. b \in 1 .. Len(s) /\ t[k] = s[b]
          BY <4>4, <2>2, <2>4
        <5>3. a = b
          BY <5>1, <5>2, <4>1, <3>1
        <5>4. QED
          BY <5>3, <4>4, <2>2, <2>4
      <4>5. QED
        BY <4>2, <4>3, <4>4
    <3>2. ASSUME NEW d \in Chars
          PROVE  fighting[d] # None <=> \E k \in 1 .. Len(t) : t[k].who = d
      <4>1. g.fighting[d] # None <=> \E k \in 1 .. Len(s) : s[k].who = d
        BY DEF FightsInv, Listed
      <4>2. CASE d = c
        <5>1. fighting[d] = v /\ v # None
          BY <4>2, <2>2, FightsAssumption
        <5>2. t[p].who = d /\ p \in 1 .. Len(t)
          BY <4>2, <2>12, <2>13
        <5>3. QED
          BY <5>1, <5>2
      <4>3. CASE d # c
        <5>1. fighting[d] = g.fighting[d]
          BY <4>3, <2>2
        <5>2. ASSUME NEW k \in 1 .. Len(s), s[k].who = d
              PROVE  \E j \in 1 .. Len(t) : t[j].who = d
          <6>1. CASE k < p
            BY <6>1, <5>2, <2>13
          <6>2. CASE ~ (k < p)
            <7>1. k + 1 \in 1 .. Len(t) /\ t[k + 1] = s[k]
              BY <6>2, <2>13
            <7>2. QED
              BY <7>1, <5>2
          <6>3. QED
            BY <6>1, <6>2
        <5>3. ASSUME NEW k \in 1 .. Len(t), t[k].who = d
              PROVE  \E j \in 1 .. Len(s) : s[j].who = d
          <6>1. k # p
            BY <5>3, <4>3, <2>12
          <6>2. CASE k < p
            BY <6>2, <5>3, <2>12
          <6>3. CASE k > p
            <7>1. k - 1 \in 1 .. Len(s) /\ t[k] = s[k - 1]
              BY <6>3, <2>12
            <7>2. QED
              BY <7>1, <5>3
          <6>4. QED
            BY <6>1, <6>2, <6>3, <2>2
        <5>4. QED
          BY <4>1, <5>1, <5>2, <5>3
      <4>4. QED
        BY <4>2, <4>3
    <3> HIDE DEF fighting
    <3>3. h.combat = t /\ h.fighting = fighting
      BY <2>5
    <3>4. QED
      BY <3>1, <3>2, <3>3 DEF Listed
  <2>9. Ordered(h)
    <3>1. ASSUME NEW j \in 1 .. Len(t), NEW k \in 1 .. Len(t), j < k
          PROVE  t[j].init <= t[k].init
      <4>1. \A a, b \in 1 .. Len(s) : a < b => s[a].init <= s[b].init
        BY DEF FightsInv, Ordered
      <4>2. CASE j = p
        <5>1. k > p
          BY <4>2, <3>1
        <5>4. t[j].init = i
          BY <4>2, <2>12
        <5>5. k - 1 \in 1 .. Len(s) /\ t[k] = s[k - 1]
          BY <5>1, <2>12
        <5>2. ~ (k - 1 < p) /\ k - 1 \in 1 .. Len(s) /\ t[k] = s[k - 1] /\ t[j].init = i
          BY <5>1, <5>4, <5>5, <2>2
        <5>3. QED
          BY <5>2, <2>1
      <4>3. CASE k = p
        <5>1. j < p
          BY <4>3, <3>1
        <5>2. j \in 1 .. Len(s) /\ t[j] = s[j] /\ t[k].init = i
          BY <5>1, <4>3, <2>12
        <5>3. QED
          BY <5>1, <5>2, <2>1
      <4>4. CASE j # p /\ k # p
        <5> DEFINE a == IF j < p THEN j ELSE j - 1
                   b == IF k < p THEN k ELSE k - 1
        <5>1. a \in 1 .. Len(s) /\ t[j] = s[a]
          BY <4>4, <2>2, <2>4
        <5>2. b \in 1 .. Len(s) /\ t[k] = s[b]
          BY <4>4, <2>2, <2>4
        <5>3. a < b
          BY <3>1, <4>4, <2>2, <2>4
        <5>4. QED
          BY <5>1, <5>2, <5>3, <4>1
      <4>5. QED
        BY <4>2, <4>3, <4>4
    <3>2. h.combat = t
      BY <2>5
    <3>3. QED
      BY <3>1, <3>2 DEF Ordered
  <2>10. h.fighting = fighting /\ h.round = round
    BY <2>5
  <2>11. QED
    BY <1>2, <2>6, <2>8, <2>9, <2>10 DEF FightsInv, h
<1>3. QED
  BY <1>1, <1>2
\* Only the round of c is another.
LEMMA RoundSound ==
  ASSUME NEW g, FightsInv(g), NEW c \in Chars, NEW r \in {"none", "queued", "running"}
  PROVE  LET h == [g EXCEPT !.round[c] = r] IN
         /\ FightsInv(h)
         /\ h.fighting = g.fighting
         /\ h.round = [g.round EXCEPT ![c] = r]
<1> DEFINE round == [g.round EXCEPT ![c] = r]
           h == [g EXCEPT !.round[c] = r]
<1>1. g \in FightType /\ round \in [Chars -> {"none", "queued", "running"}]
  BY DEF FightsInv, FightType
<1>2. h = [combat |-> g.combat, fighting |-> g.fighting, round |-> round]
  BY <1>1 DEF FightType
<1> HIDE DEF h, round
<1>3. h \in FightType /\ h.combat = g.combat /\ h.fighting = g.fighting /\ h.round = round
  BY <1>1, <1>2 DEF FightType
<1>4. Listed(h) /\ Ordered(h)
  BY <1>3 DEF FightsInv, Listed, Ordered
<1>5. QED
  BY <1>3, <1>4 DEF FightsInv, h, round

\* Fights that end, whoever's they are, spoil nothing.
LEMMA OverMoves ==
  ASSUME NEW g, FightsInv(g), NEW W, Linked(g, W), NEW K
  PROVE  GoodMove(g, FightsOver(g, K), W)
<1> DEFINE h == FightsOver(g, K)
<1>1. /\ FightsInv(h)
      /\ h.fighting = [c \in Chars |-> IF c \in K THEN None ELSE g.fighting[c]]
      /\ h.round = [c \in Chars |->
                      IF c \in K /\ g.round[c] = "queued" THEN "none" ELSE g.round[c]]
  BY OverSound
<1> HIDE DEF h
<1>2. ASSUME NEW c \in Chars
      PROVE  /\ h.fighting[c] = IF c \in K THEN None ELSE g.fighting[c]
             /\ h.round[c] = IF c \in K /\ g.round[c] = "queued" THEN "none" ELSE g.round[c]
  BY <1>1
<1>3. Linked(h, W)
  BY <1>2 DEF Linked
<1>4. ASSUME NEW c \in Chars
      PROVE  /\ h.round[c] = "running" <=> g.round[c] = "running"
             /\ GoesOn(g, c) => GoesOn(h, c)
  BY <1>2 DEF GoesOn
<1>5. QED
  BY <1>1, <1>3, <1>4 DEF GoodMove, h

\* Nor does a fight that starts between two who are in the world.
LEMMA SetMoves ==
  ASSUME NEW g, FightsInv(g), NEW W, Linked(g, W), NEW c \in Chars, NEW v \in Chars,
         c \in W, v \in W, NEW i \in Nat, NEW dex \in [Chars -> Nat],
         NEW made, Risks = {} => c \in made
  PROVE  GoodMove(g, set_fighting(g, c, v, i, dex, made), W)
<1> DEFINE h == set_fighting(g, c, v, i, dex, made)
<1>1. /\ FightsInv(h)
      /\ \/ h = g
         \/ /\ c # v /\ g.fighting[c] = None /\ g.round[c] = "none"
            /\ h.fighting = [g.fighting EXCEPT ![c] = v]
            /\ h.round = [g.round EXCEPT ![c] = IF c \in made THEN "queued" ELSE "none"]
  BY SetSound
<1> HIDE DEF h
<1>5. FightsInv(h)
  BY <1>1
<1>2. CASE h = g
  <2>1. GoodMove(g, g, W)
    BY DEF GoodMove
  <2>2. QED
    BY <2>1, <1>2 DEF h
<1>3. CASE h # g
  <2>1. /\ g.fighting \in [Chars -> Chars \cup {None}]
        /\ g.round \in [Chars -> {"none", "queued", "running"}]
    BY DEF FightsInv, FightType
  <2>2. ASSUME NEW d \in Chars
        PROVE  /\ h.fighting[d] = IF d = c THEN v ELSE g.fighting[d]
               /\ h.round[d] = IF d # c THEN g.round[d]
                               ELSE IF c \in made THEN "queued" ELSE "none"
    BY <1>1, <1>3, <2>1
  <2>3. Linked(h, W)
    BY <2>2 DEF Linked
  <2>4. ASSUME NEW d \in Chars
        PROVE  /\ h.round[d] = "running" <=> g.round[d] = "running"
               /\ Risks = {} /\ GoesOn(g, d) => GoesOn(h, d)
    BY <1>1, <1>3, <2>2 DEF GoesOn
  <2>5. GoodMove(g, h, W)
    BY <1>5, <2>3, <2>4 DEF GoodMove
  <2>6. QED
    BY <2>5 DEF h
<1>4. QED
  BY <1>2, <1>3

\* One good move after another.
LEMMA MovesCompose ==
  ASSUME NEW g, NEW h, NEW k, NEW W, GoodMove(g, h, W), GoodMove(h, k, W)
  PROVE  GoodMove(g, k, W)
  BY DEF GoodMove

\* Both sides of a blow.
LEMMA EngageMoves ==
  ASSUME NEW W, FightsInv(f), Linked(f, W), NEW a \in Chars, NEW v \in Chars,
         a \in W, v \in W, NEW able, NEW opening, NEW i \in Nat, NEW j \in Nat,
         NEW dex \in [Chars -> Nat], NEW made, Risks = {} => a \in made /\ v \in made
  PROVE  GoodMove(f, Engage(a, v, able, opening, i, j, dex, made), W)
<1> DEFINE g == IF a \in able /\ (opening => f.fighting[v] = None)
                THEN set_fighting(f, a, v, i, dex, made) ELSE f
           h == IF v \in able THEN set_fighting(g, v, a, j, dex, made) ELSE g
<1>0. GoodMove(f, f, W)
  BY DEF GoodMove
<1>1. GoodMove(f, g, W)
  BY SetMoves, <1>0
<1> HIDE DEF g
<1>2. GoodMove(g, h, W)
  <2>1. FightsInv(g) /\ Linked(g, W)
    BY <1>1 DEF GoodMove
  <2>2. CASE v \in able
    BY <2>1, <2>2, SetMoves
  <2>3. CASE v \notin able
    BY <2>1, <2>3 DEF GoodMove
  <2>4. QED
    BY <2>2, <2>3
<1>3. GoodMove(f, h, W)
  BY <1>1, <1>2, MovesCompose
<1>4. QED
  BY <1>3 DEF Engage, g

\* The loops over combat_list find all who fight one of S.
LEMMA StopAllSound ==
  ASSUME NEW g, FightsInv(g), NEW W, Linked(g, W), NEW S
  PROVE  /\ GoodMove(g, StopAllOn(g, S), W)
         /\ \A c \in Chars : /\ StopAllOn(g, S).fighting[c] \in {None, g.fighting[c]}
                             /\ None \notin S => StopAllOn(g, S).fighting[c] \notin S
<1> DEFINE K == {c \in ToSet(Order(g)) : g.fighting[c] \in S}
           h == FightsOver(g, K)
<1> HIDE DEF K
<1>0. GoodMove(g, h, W)
  BY OverMoves
<1>1. /\ FightsInv(h)
      /\ h.fighting = [c \in Chars |-> IF c \in K THEN None ELSE g.fighting[c]]
      /\ h.round = [c \in Chars |->
                      IF c \in K /\ g.round[c] = "queued" THEN "none" ELSE g.round[c]]
  BY OverSound
<1>2. ASSUME NEW c \in Chars, g.fighting[c] # None PROVE c \in ToSet(Order(g))
  <2>1. PICK k \in 1 .. Len(g.combat) : g.combat[k].who = c
    BY <1>2 DEF FightsInv, Listed
  <2>2. DOMAIN g.combat = 1 .. Len(g.combat)
    BY DEF FightsInv, FightType
  <2>3. k \in DOMAIN Order(g) /\ Order(g)[k] = c
    BY <2>1, <2>2 DEF Order
  <2>4. QED
    BY <2>3 DEF ToSet
<1>3. ASSUME NEW c \in Chars
      PROVE  /\ h.fighting[c] \in {None, g.fighting[c]}
             /\ None \notin S => h.fighting[c] \notin S
  <2>1. h.fighting[c] = IF c \in K THEN None ELSE g.fighting[c]
    BY <1>1
  <2> HIDE DEF h
  <2>2. QED
    BY <2>1, <1>2 DEF K
<1>4. StopAllOn(g, S) = h
  BY DEF StopAllOn, K
<1> HIDE DEF h
<1>5. QED
  BY <1>0, <1>3, <1>4

-----------------------------------------------------------------------------
(* Lemmas: who is in the world.                                            *)

\* A newcomer at the head of character_list.
LEMMA HeadSound ==
  ASSUME NEW s \in Seq(Chars), IsInjective(s), NEW m \in Chars, m \notin ToSet(s)
  PROVE  /\ <<m>> \o s \in Seq(Chars)
         /\ IsInjective(<<m>> \o s)
         /\ ToSet(<<m>> \o s) = ToSet(s) \cup {m}
<1> DEFINE t == <<m>> \o s
<1>1. /\ t \in Seq(Chars) /\ Len(t) = Len(s) + 1 /\ Len(s) \in Nat
      /\ t[1] = m
      /\ \A k \in 1 .. Len(s) : t[k + 1] = s[k]
  OBVIOUS
<1>2. DOMAIN s = 1 .. Len(s) /\ DOMAIN t = 1 .. Len(s) + 1
  BY <1>1
<1> HIDE DEF t
<1>3. \A k \in 1 .. Len(s) + 1 : k # 1 => k - 1 \in 1 .. Len(s) /\ t[k] = s[k - 1]
  <2> SUFFICES ASSUME NEW k \in 1 .. Len(s) + 1, k # 1
               PROVE  k - 1 \in 1 .. Len(s) /\ t[k] = s[k - 1]
    OBVIOUS
  <2>1. k - 1 \in 1 .. Len(s) /\ (k - 1) + 1 = k
    BY <1>1
  <2>2. QED
    BY <2>1, <1>1
<1>4. \A k \in 1 .. Len(s) : s[k] \in ToSet(s) /\ s[k] # m
  BY <1>2 DEF ToSet
<1>5. ASSUME NEW j \in 1 .. Len(s) + 1, NEW k \in 1 .. Len(s) + 1, t[j] = t[k]
      PROVE  j = k
  <2>1. CASE j = 1
    BY <2>1, <1>1, <1>3, <1>4, <1>5
  <2>2. CASE k = 1
    BY <2>2, <1>1, <1>3, <1>4, <1>5
  <2>3. CASE j # 1 /\ k # 1
    <3>1. j - 1 = k - 1
      BY <2>3, <1>2, <1>3, <1>5 DEF IsInjective
    <3>2. QED
      BY <3>1, <1>1
  <2>4. QED
    BY <2>1, <2>2, <2>3
<1>6. IsInjective(t)
  BY <1>2, <1>5 DEF IsInjective
<1>7. ToSet(t) = ToSet(s) \cup {m}
  <2>1. ASSUME NEW x \in ToSet(s) PROVE x \in ToSet(t)
    <3>1. PICK k \in 1 .. Len(s) : s[k] = x
      BY <1>2 DEF ToSet
    <3>2. k + 1 \in DOMAIN t /\ t[k + 1] = x
      BY <3>1, <1>1, <1>2
    <3>3. QED
      BY <3>2 DEF ToSet
  <2>2. m \in ToSet(t)
    <3>1. 1 \in DOMAIN t
      BY <1>1, <1>2
    <3>2. QED
      BY <3>1, <1>1 DEF ToSet
  <2>3. ASSUME NEW x \in ToSet(t) PROVE x \in ToSet(s) \cup {m}
    <3>1. PICK k \in 1 .. Len(s) + 1 : t[k] = x
      BY <1>2 DEF ToSet
    <3>2. QED
      BY <3>1, <1>1, <1>3, <1>4
  <2>4. QED
    BY <2>1, <2>2, <2>3
<1>8. QED
  BY <1>1, <1>6, <1>7 DEF t

\* Those of D leave character_list.
LEMMA LeaveSound ==
  ASSUME NEW s \in Seq(Chars), IsInjective(s), NEW D
  PROVE  LET t == Kept(s, {k \in DOMAIN s : s[k] \notin D}) IN
         /\ t \in Seq(Chars)
         /\ IsInjective(t)
         /\ ToSet(t) = ToSet(s) \ D
<1> DEFINE I == {k \in DOMAIN s : s[k] \notin D}
           t == Kept(s, I)
<1>1. /\ I \in SUBSET (1 .. Len(s))
      /\ DOMAIN s = 1 .. Len(s)
      /\ \A k \in DOMAIN s : k \in I <=> s[k] \notin D
  OBVIOUS
<1> HIDE DEF I
<1>2. /\ t \in Seq(Chars)
      /\ \E h : /\ Counts(h, I)
                /\ Len(t) = Cardinality(I)
                /\ \A k \in 1 .. Cardinality(I) : t[k] = s[h[k]]
  BY <1>1, KeptProperties
<1> HIDE DEF t
<1>3. PICK h : /\ Counts(h, I)
               /\ Len(t) = Cardinality(I)
               /\ \A k \in 1 .. Cardinality(I) : t[k] = s[h[k]]
  BY <1>2
<1>10. /\ \A k \in 1 .. Len(t) : h[k] \in I /\ t[k] = s[h[k]]
       /\ \A j, k \in 1 .. Len(t) : j < k => h[j] < h[k]
       /\ \A k \in I : \E i \in 1 .. Len(t) : h[i] = k
  BY <1>3 DEF Counts
<1>4. /\ DOMAIN t = 1 .. Len(t) /\ Len(t) \in Nat
      /\ \A k \in 1 .. Len(t) : h[k] \in I /\ h[k] \in 1 .. Len(s) /\ t[k] = s[h[k]]
      /\ \A j, k \in 1 .. Len(t) : j < k => h[j] < h[k]
      /\ \A k \in I : \E i \in 1 .. Len(t) : h[i] = k
  <2>1. DOMAIN t = 1 .. Len(t) /\ Len(t) \in Nat
    BY <1>2
  <2>2. \A k \in 1 .. Len(t) : h[k] \in 1 .. Len(s)
    BY <1>1, <1>10
  <2>3. QED
    BY <2>1, <2>2, <1>10
<1>5. ASSUME NEW j \in 1 .. Len(t), NEW k \in 1 .. Len(t), t[j] = t[k] PROVE j = k
  <2>1. h[j] = h[k]
    BY <1>1, <1>4, <1>5 DEF IsInjective
  <2>2. ~ (h[j] < h[k]) /\ ~ (h[k] < h[j])
    BY <2>1, <1>4
  <2>3. ~ (j < k) /\ ~ (k < j)
    BY <2>2, <1>4
  <2>4. QED
    BY <2>3, <1>4
<1>6. IsInjective(t)
  BY <1>4, <1>5 DEF IsInjective
<1>7. ASSUME NEW x \in ToSet(s) \ D PROVE x \in ToSet(t)
  <2>1. PICK k \in DOMAIN s : s[k] = x
    BY DEF ToSet
  <2>2. PICK i \in 1 .. Len(t) : h[i] = k
    BY <2>1, <1>1, <1>4, <1>7
  <2>3. QED
    BY <2>1, <2>2, <1>4 DEF ToSet
<1>8. ASSUME NEW x \in ToSet(t) PROVE x \in ToSet(s) \ D
  <2>1. PICK k \in 1 .. Len(t) : t[k] = x
    BY <1>4 DEF ToSet
  <2>2. h[k] \in DOMAIN s /\ s[h[k]] = x /\ x \notin D
    BY <2>1, <1>1, <1>4
  <2>3. QED
    BY <2>2 DEF ToSet
<1>9. QED
  BY <1>2, <1>6, <1>7, <1>8 DEF t, I

\* The world is finite, and so are those who are to leave it.
LEMMA PendingFinite ==
  ASSUME WorldPart
  PROVE  IsFiniteSet(pending) /\ Cardinality(pending) \in Nat
<1> DEFINE n == Len(characterList)
<1>1. n \in Nat /\ DOMAIN characterList = 1 .. n /\ characterList \in Seq(Chars)
  BY DEF WorldPart
<1>2. /\ characterList \in [1 .. n -> InWorld]
      /\ \A x \in InWorld : \E k \in 1 .. n : characterList[k] = x
  BY <1>1 DEF InWorld, ToSet
<1>3. characterList \in Surjection(1 .. n, InWorld)
  BY <1>2 DEF Surjection
<1>4. IsFiniteSet(1 .. n)
  BY <1>1, FS_Interval
<1>5. IsFiniteSet(InWorld)
  BY <1>3, <1>4, FS_Surjection
<1>6. IsFiniteSet(pending)
  BY <1>5, FS_Subset DEF WorldPart
<1>7. QED
  BY <1>6, FS_CardinalityType

\* extract_pending_chars takes out all who are flagged.
LEMMA DoomedIsPending ==
  ASSUME WorldPart
  PROVE  Doomed = pending
<1>1. ASSUME NEW j \in DOMAIN characterList
      PROVE  Cardinality({i \in 1 .. j : characterList[i] \in pending}) <= extractionsPending
  <2> DEFINE T == {i \in 1 .. j : characterList[i] \in pending}
             h == [i \in T |-> characterList[i]]
  <2>1. T \subseteq DOMAIN characterList
    <3>1. DOMAIN characterList = 1 .. Len(characterList)
      BY DEF WorldPart
    <3>2. QED
      BY <3>1
  <2>2. h \in Injection(T, pending)
    <3>1. h \in [T -> pending]
      OBVIOUS
    <3>2. \A a, b \in T : h[a] = h[b] => a = b
      BY <2>1 DEF WorldPart, IsInjective
    <3>3. QED
      BY <3>1, <3>2 DEF Injection, IsInjective
  <2> HIDE DEF T, h
  <2>3. Cardinality(T) <= Cardinality(pending)
    BY <2>2, PendingFinite, FS_Injection
  <2>4. QED
    BY <2>3 DEF T, WorldPart, CountIsExact
<1>2. Doomed \subseteq pending
  BY DEF Doomed
<1>3. ASSUME NEW x \in pending PROVE x \in Doomed
  <2>1. PICK k \in DOMAIN characterList : characterList[k] = x
    BY DEF WorldPart, InWorld, ToSet
  <2>2. QED
    BY <2>1, <1>1 DEF Doomed
<1>4. QED
  BY <1>2, <1>3

-----------------------------------------------------------------------------
(* Lemmas: what a step leaves alone.                                       *)

\* The fights move, and nobody comes, goes or is flagged.
LEMMA FightsStep ==
  ASSUME IInv, GoodMove(f, f', InWorld), UNCHANGED <<characterList, pending, running>>
  PROVE  FightPart' /\ RunningPart'
<1>1. InWorld' = InWorld
  BY DEF InWorld
<1>2. FightsInv(f') /\ Linked(f', InWorld')
  BY <1>1 DEF GoodMove
<1>3. (Risks = {} => \A c \in Chars \ pending : GoesOn(f, c))
        => (Risks = {} => \A c \in Chars \ pending' : GoesOn(f', c))
  BY DEF GoodMove
<1>4. FightPart'
  BY <1>2, <1>3 DEF IInv, FightPart
<1>5. RunningPart'
  BY DEF GoodMove, IInv, RunningPart
<1>6. QED
  BY <1>4, <1>5

\* Nobody comes, goes or is flagged.
LEMMA SameWorld ==
  ASSUME IInv,
         UNCHANGED <<scenario, characterList, menu, pending, extractionsPending, dead>>
  PROVE  WorldPart'
  BY DEF IInv, WorldPart, InWorld, CountIsExact

\* Nobody comes or goes, and nobody refers to another.
LEMMA SameRefs ==
  ASSUME IInv, UNCHANGED <<scenario, characterList, ref>>
  PROVE  RefsPart'
  BY DEF IInv, RefsPart, InWorld, Kinds

\* c comes to refer to v, if the scenario follows this kind.
LEMMA SetRefSound ==
  ASSUME NEW r, r \in [Kinds -> [Chars -> Chars \cup {None}]], NEW k, NEW c \in Chars,
         NEW v \in Chars \cup {None}, NEW q, q = SetRef(r, k, c, v)
  PROVE  Refers(r, q, k, c, v)
<1>1. CASE k \notin Kinds
  BY <1>1 DEF SetRef, Refers
<1>2. CASE k \in Kinds
  <2>1. q = [r EXCEPT ![k][c] = v]
    BY <1>2 DEF SetRef
  <2>2. QED
    BY <1>2, <2>1 DEF Refers
<1>3. QED
  BY <1>1, <1>2

\* Nobody in the world refers as k to a member of S any more.
LEMMA ForgetSound ==
  ASSUME NEW r, r \in [Kinds -> [Chars -> Chars \cup {None}]], NEW k, NEW S
  PROVE  Forgets(r, Forget(r, k, S), k, S)
<1>1. CASE k \notin Kinds
  BY <1>1 DEF Forget, Forgets
<1>2. CASE k \in Kinds
  <2> DEFINE q == [c \in Chars |-> IF c \in InWorld /\ r[k][c] \in S THEN None ELSE r[k][c]]
  <2>1. Forget(r, k, S) = [r EXCEPT ![k] = q]
    BY <1>2 DEF Forget
  <2>2. r[k] \in [Chars -> Chars \cup {None}]
    BY <1>2
  <2>3. q \in [Chars -> Chars \cup {None}]
    BY <2>2
  <2>4. \A d \in Chars : q[d] = IF d \in InWorld /\ r[k][d] \in S THEN None ELSE r[k][d]
    OBVIOUS
  <2> HIDE DEF q
  <2>5. QED
    BY <1>2, <2>1, <2>3, <2>4 DEF Forgets
<1>3. QED
  BY <1>1, <1>2

-----------------------------------------------------------------------------
(* Every step keeps the invariant.                                         *)

\* A mobile enters, with nothing left of who had its memory before.
LEMMA ReadMobileKeeps ==
  ASSUME IInv, NEW m \in Mobs, read_mobile(m)
  PROVE  IInv'
<1>1. m \in Chars /\ m \notin InWorld /\ m \notin Players
  BY FightsAssumption DEF read_mobile, Chars
<1>2. /\ characterList' = <<m>> \o characterList
      /\ UNCHANGED <<scenario, menu, pending, extractionsPending, dead, f, ref, running>>
  BY DEF read_mobile
<1>3. characterList \in Seq(Chars) /\ IsInjective(characterList)
  BY DEF IInv, WorldPart
<1>4. /\ characterList' \in Seq(Chars)
      /\ IsInjective(characterList')
      /\ InWorld' = InWorld \cup {m}
  BY <1>1, <1>2, <1>3, HeadSound DEF InWorld
<1>5. WorldPart'
  BY <1>1, <1>2, <1>4 DEF IInv, WorldPart, CountIsExact
<1>6. FightPart'
  <2>1. Linked(f', InWorld')
    BY <1>1, <1>2, <1>4 DEF IInv, FightPart, Linked
  <2>2. QED
    BY <1>2, <2>1 DEF IInv, FightPart
<1>7. RunningPart'
  BY <1>2 DEF IInv, RunningPart
<1>8. RefsPart'
  <2>1. Kinds' = Kinds
    BY <1>2 DEF Kinds
  <2>2. ASSUME NEW k \in Kinds \ {"last_attacker"}, NEW c \in Chars
        PROVE  IF c \in InWorld' THEN ref[k][c] \in InWorld' \cup {None}
               ELSE c \in Mobs \/ k = "guarding" => ref[k][c] = None
    BY <1>1, <1>4 DEF IInv, RefsPart
  <2>3. QED
    BY <1>2, <2>1, <2>2 DEF IInv, RefsPart
<1>9. QED
  BY <1>5, <1>6, <1>7, <1>8 DEF IInv

\* A player enters, and hunts nobody any more.
LEMMA EnterKeeps ==
  ASSUME IInv, NEW p \in Players, enter_player_game(p)
  PROVE  IInv'
<1>1. p \in Chars /\ p \notin InWorld /\ p \notin Mobs
  BY FightsAssumption DEF enter_player_game, Chars
<1>2. /\ characterList' = <<p>> \o characterList
      /\ menu' = menu \ {p}
      /\ f' = [f EXCEPT !.fighting[p] = None]
      /\ ref' = SetRef(ref, "hunting", p, None)
      /\ UNCHANGED <<scenario, pending, extractionsPending, dead, running>>
  BY DEF enter_player_game
<1>3. characterList \in Seq(Chars) /\ IsInjective(characterList)
  BY DEF IInv, WorldPart
<1>4. /\ characterList' \in Seq(Chars)
      /\ IsInjective(characterList')
      /\ InWorld' = InWorld \cup {p}
  BY <1>1, <1>2, <1>3, HeadSound DEF InWorld
<1>5. WorldPart'
  BY <1>1, <1>2, <1>4 DEF IInv, WorldPart, CountIsExact
<1>0. f' = f
  <2>1. f.fighting[p] = None
    BY <1>1 DEF IInv, FightPart, Linked
  <2>2. f \in FightType
    BY DEF IInv, FightPart, FightsInv
  <2>3. QED
    BY <1>1, <1>2, <2>1, <2>2 DEF FightType
<1>6. FightPart'
  <2>1. Linked(f', InWorld')
    BY <1>0, <1>1, <1>4 DEF IInv, FightPart, Linked
  <2>2. QED
    BY <1>0, <1>2, <2>1 DEF IInv, FightPart
<1>7. RunningPart'
  BY <1>0, <1>2 DEF IInv, RunningPart
<1>8. RefsPart'
  <2>1. Kinds' = Kinds
    BY <1>2 DEF Kinds
  <2>2. /\ ref' \in [Kinds -> [Chars -> Chars \cup {None}]]
        /\ \A l \in Kinds, d \in Chars :
             ref'[l][d] = IF l = "hunting" /\ d = p THEN None ELSE ref[l][d]
    <3>1. ref \in [Kinds -> [Chars -> Chars \cup {None}]] /\ None \in Chars \cup {None}
      BY DEF IInv, RefsPart
    <3>2. QED
      <4>1. Refers(ref, ref', "hunting", p, None)
        BY <1>1, <1>2, <3>1, SetRefSound
      <4>2. QED
        BY <4>1 DEF Refers
  <2>3. ASSUME NEW k \in Kinds \ {"last_attacker"}, NEW c \in Chars
        PROVE  IF c \in InWorld' THEN ref'[k][c] \in InWorld' \cup {None}
               ELSE c \in Mobs \/ k = "guarding" => ref'[k][c] = None
    <3>1. CASE c = p
      <4>1. k \in {"guarding", "hunting"}
        <5>1. scenario \in Scenario
          BY FightsAssumption DEF IInv, WorldPart
        <5>2. QED
          BY <5>1 DEF Scenario, Kinds, AllKinds
      <4>2. ref'[k][c] = None
        BY <3>1, <4>1, <2>2, <1>1 DEF IInv, RefsPart
      <4>3. QED
        BY <3>1, <4>2, <1>4
    <3>2. CASE c # p
      BY <3>2, <2>2, <1>1, <1>4 DEF IInv, RefsPart
    <3>3. QED
      BY <3>1, <3>2
  <2>4. QED
    BY <2>1, <2>2, <2>3 DEF RefsPart
<1>9. QED
  BY <1>5, <1>6, <1>7, <1>8 DEF IInv

\* A player at the menu is freed.
LEMMA LeaveMenuKeeps ==
  ASSUME IInv, NEW p \in Players, LeaveMenu(p)
  PROVE  IInv'
<1>1. p \in Chars /\ p \notin InWorld
  BY DEF LeaveMenu, IInv, WorldPart, Chars
<1>2. /\ menu' = menu \ {p}
      /\ ref' = [k \in Kinds |-> [ref[k] EXCEPT ![p] = None]]
      /\ UNCHANGED <<scenario, characterList, pending, extractionsPending, dead, f, running>>
  BY DEF LeaveMenu
<1>3. InWorld' = InWorld /\ Kinds' = Kinds
  BY <1>2 DEF InWorld, Kinds
<1>4. WorldPart'
  BY <1>2, <1>3 DEF IInv, WorldPart, CountIsExact
<1>5. FightPart' /\ RunningPart'
  BY <1>2, <1>3 DEF IInv, FightPart, RunningPart
<1>6. RefsPart'
  <2>1. /\ ref' \in [Kinds -> [Chars -> Chars \cup {None}]]
        /\ \A l \in Kinds, d \in Chars : ref'[l][d] = IF d = p THEN None ELSE ref[l][d]
    BY <1>1, <1>2 DEF IInv, RefsPart
  <2>2. QED
    BY <1>1, <1>3, <2>1 DEF IInv, RefsPart
<1>7. QED
  BY <1>4, <1>5, <1>6 DEF IInv

\* A character is flagged, and counted once.
LEMMA FlagKeeps ==
  ASSUME WorldPart, NEW c \in Chars, c \in InWorld, Flag(c)
  PROVE  /\ pending' = pending \cup {c} /\ pending' \subseteq InWorld
         /\ extractionsPending' \in Nat
         /\ extractionsPending' = Cardinality(pending')
<1>1. IsFiniteSet(pending)
  BY PendingFinite
<1>2. pending' = pending \cup {c}
  BY DEF Flag
<1>3. Cardinality(pending \cup {c}) =
        IF c \in pending THEN Cardinality(pending) ELSE Cardinality(pending) + 1
  BY <1>1, FS_AddElement
<1>4. QED
  BY <1>2, <1>3 DEF Flag, WorldPart, CountIsExact

\* quit, purge, a script.
LEMMA ExtractKeeps ==
  ASSUME IInv, NEW c \in Chars, extract_char(c)
  PROVE  IInv'
<1>1. /\ c \in InWorld /\ Flag(c)
      /\ UNCHANGED <<scenario, characterList, menu, dead, f, ref, running>>
  BY DEF extract_char
<1>2. InWorld' = InWorld /\ Kinds' = Kinds
  BY <1>1 DEF InWorld, Kinds
<1>3. /\ pending' = pending \cup {c} /\ pending' \subseteq InWorld
      /\ extractionsPending' \in Nat
      /\ extractionsPending' = Cardinality(pending')
  BY <1>1, FlagKeeps DEF IInv
<1>4. WorldPart'
  BY <1>1, <1>2, <1>3 DEF IInv, WorldPart, CountIsExact
<1>5. FightPart'
  BY <1>1, <1>2, <1>3 DEF IInv, FightPart
<1>6. RunningPart' /\ RefsPart'
  BY <1>1, <1>2 DEF IInv, RunningPart, RefsPart
<1>7. QED
  BY <1>4, <1>5, <1>6 DEF IInv

\* A blow.
LEMMA HitKeeps ==
  ASSUME IInv, NEW a \in Chars, NEW v \in Chars, hit(a, v)
  PROVE  IInv'
<1>1. a \in InWorld /\ v \in InWorld
  BY DEF hit
<1>2. UNCHANGED <<scenario, characterList, menu, pending, extractionsPending, dead, ref,
                  running>>
  BY DEF hit
<1>3. PICK able \in SUBSET ({a, v} \cap Fighters), i \in Initiatives[a], j \in Initiatives[v],
           dex \in Dexterities, made \in MadeOf({a, v}) :
             f' = Engage(a, v, able, FALSE, i, j, dex, made)
  BY DEF hit
<1>4. /\ i \in Nat /\ j \in Nat /\ dex \in [Chars -> Nat]
      /\ Risks = {} => a \in made /\ v \in made
  BY <1>3, FightsAssumption DEF MadeOf
<1>5. GoodMove(f, f', InWorld)
  BY <1>1, <1>3, <1>4, EngageMoves DEF IInv, FightPart
<1>6. QED
  BY <1>2, <1>5, FightsStep, SameWorld, SameRefs DEF IInv

\* Damage: the struck one remembers, and may hunt.
LEMMA DamageKeeps ==
  ASSUME IInv, NEW a \in Chars, NEW v \in Chars, damage(a, v)
  PROVE  IInv'
<1>1. a \in InWorld /\ v \in InWorld
  BY DEF damage
<1>2. UNCHANGED <<scenario, characterList, menu, pending, extractionsPending, dead, running>>
  BY DEF damage
<1>3. PICK able \in SUBSET ({a, v} \cap Fighters), i \in Initiatives[a], j \in Initiatives[v],
           dex \in Dexterities, made \in MadeOf({a, v}) :
             f' = Engage(a, v, able, TRUE, i, j, dex, made)
  BY DEF damage
<1>4. /\ i \in Nat /\ j \in Nat /\ dex \in [Chars -> Nat]
      /\ Risks = {} => a \in made /\ v \in made
  BY <1>3, FightsAssumption DEF MadeOf
<1>5. GoodMove(f, f', InWorld)
  BY <1>1, <1>3, <1>4, EngageMoves DEF IInv, FightPart
<1>6. RefsPart'
  <2>1. PICK h \in {None} \cup (IF a \in Players THEN {a} ELSE Players \cap InWorld) :
          ref' = LET r == SetRef(ref, "last_attacker", v, a) IN
                 IF h # None /\ v \in Mobs /\ Hunting(v) = None
                 THEN SetRef(r, "hunting", v, h) ELSE r
    BY DEF damage
  <2> DEFINE r == SetRef(ref, "last_attacker", v, a)
  <2>2. h # None => h \in InWorld
    BY <2>1, <1>1
  <2>3. h \in Chars \cup {None}
    BY <2>1 DEF Chars
  <2>4. /\ r \in [Kinds -> [Chars -> Chars \cup {None}]]
        /\ \A l \in Kinds, d \in Chars :
             r[l][d] = IF l = "last_attacker" /\ d = v THEN a ELSE ref[l][d]
    <3>1. ref \in [Kinds -> [Chars -> Chars \cup {None}]] /\ a \in Chars \cup {None}
      BY DEF IInv, RefsPart
    <3>2. Refers(ref, r, "last_attacker", v, a)
      BY <3>1, SetRefSound
    <3>3. QED
      BY <3>2 DEF Refers
  <2>5. ref' = r \/ (ref' = SetRef(r, "hunting", v, h) /\ h # None)
    BY <2>1, Zenon
  <2> HIDE DEF r
  <2>6. InWorld' = InWorld /\ Kinds' = Kinds
    BY <1>2 DEF InWorld, Kinds
  <2>7. CASE ref' = r
    BY <2>4, <2>6, <2>7 DEF IInv, RefsPart
  <2>8. CASE ref' = SetRef(r, "hunting", v, h) /\ h # None
    <3>1. /\ ref' \in [Kinds -> [Chars -> Chars \cup {None}]]
          /\ \A l \in Kinds, d \in Chars :
               ref'[l][d] = IF l = "hunting" /\ d = v THEN h ELSE r[l][d]
      <4>1. Refers(r, ref', "hunting", v, h)
        BY <2>3, <2>4, <2>8, SetRefSound
      <4>2. QED
        BY <4>1 DEF Refers
    <3>2. QED
      BY <1>1, <2>2, <2>4, <2>6, <2>8, <3>1 DEF IInv, RefsPart
  <2>9. QED
    BY <2>5, <2>7, <2>8
<1>7. QED
  BY <1>2, <1>5, <1>6, FightsStep, SameWorld DEF IInv

\* Whoever is in the world may come to refer to another who is.
LEMMA ReferKeeps ==
  ASSUME IInv, NEW k, NEW c \in Chars, NEW v \in Chars, c \in InWorld, v \in InWorld,
         ref' = SetRef(ref, k, c, v),
         UNCHANGED <<scenario, characterList, menu, pending, extractionsPending, dead, f,
                     running>>
  PROVE  IInv'
<1>1. InWorld' = InWorld /\ Kinds' = Kinds
  BY DEF InWorld, Kinds
<1>2. /\ ref' \in [Kinds -> [Chars -> Chars \cup {None}]]
      /\ \A l \in Kinds, d \in Chars : ref'[l][d] = IF l = k /\ d = c THEN v ELSE ref[l][d]
  <2>1. ref \in [Kinds -> [Chars -> Chars \cup {None}]] /\ v \in Chars \cup {None}
    BY DEF IInv, RefsPart
  <2>2. Refers(ref, ref', k, c, v)
    BY <2>1, SetRefSound
  <2>3. QED
    BY <2>2 DEF Refers
<1>3. RefsPart'
  BY <1>1, <1>2 DEF IInv, RefsPart
<1>4. FightPart' /\ RunningPart'
  BY <1>1 DEF IInv, FightPart, RunningPart
<1>5. QED
  BY <1>3, <1>4, SameWorld DEF IInv

\* Fights end, and nothing else happens.
LEMMA EndKeeps ==
  ASSUME IInv, GoodMove(f, f', InWorld),
         UNCHANGED <<scenario, characterList, menu, pending, extractionsPending, dead,
                     ref, running>>
  PROVE  IInv'
  BY FightsStep, SameWorld, SameRefs DEF IInv

\* One who flees stops, and those who fought him.
LEMMA FleeMoves ==
  ASSUME IInv, NEW c
  PROVE  GoodMove(f, StopAllOn(stop_fighting(f, c), {c}), InWorld)
<1> DEFINE g == stop_fighting(f, c)
<1>1. GoodMove(f, g, InWorld)
  BY OverMoves DEF stop_fighting, IInv, FightPart
<1> HIDE DEF g
<1>2. FightsInv(g) /\ Linked(g, InWorld)
  BY <1>1 DEF GoodMove
<1>3. GoodMove(g, StopAllOn(g, {c}), InWorld)
  BY <1>2, StopAllSound
<1>4. GoodMove(f, StopAllOn(g, {c}), InWorld)
  BY <1>1, <1>3, MovesCompose
<1>5. QED
  BY <1>4 DEF g

\* A queued round that is cancelled: nothing is spoilt but the fight, if there is one.
LEMMA CancelSound ==
  ASSUME NEW g, FightsInv(g), NEW W, Linked(g, W), NEW c \in Chars
  PROVE  /\ FightsInv(RoundCancelled(g, c)) /\ Linked(RoundCancelled(g, c), W)
         /\ RoundCancelled(g, c).fighting = g.fighting
         /\ \A d \in Chars : RoundCancelled(g, c).round[d] =
              IF d = c /\ g.round[c] = "queued" THEN "none" ELSE g.round[d]
<1> DEFINE r == IF g.round[c] = "queued" THEN "none" ELSE g.round[c]
           h == [g EXCEPT !.round[c] = r]
<1>1. g.round \in [Chars -> {"none", "queued", "running"}] /\ g \in FightType
  BY DEF FightsInv, FightType
<1>2. r \in {"none", "queued", "running"}
  BY <1>1
<1>3. RoundCancelled(g, c) = h
  BY DEF RoundCancelled
<1> HIDE DEF r
<1>4. FightsInv(h) /\ h.fighting = g.fighting /\ h.round = [g.round EXCEPT ![c] = r]
  BY <1>2, RoundSound
<1> HIDE DEF h
<1>5. \A d \in Chars : h.round[d] = IF d = c /\ g.round[c] = "queued" THEN "none" ELSE g.round[d]
  BY <1>1, <1>4 DEF r
<1>6. Linked(h, W)
  BY <1>4, <1>5 DEF Linked
<1>7. QED
  BY <1>3, <1>4, <1>5, <1>6

\* Whoever dies fights nobody and is fought by nobody; a mobile is flagged.
LEMMA DieKeeps ==
  ASSUME IInv, NEW v \in Chars, die(v)
  PROVE  IInv'
<1>1. /\ v \in InWorld
      /\ f' = DeathStops(v)
      /\ ref' = SetRef(Forget(Forget(ref, "guarding", {v}), "hunting", {v}), "guarding", v, None)
      /\ UNCHANGED <<scenario, characterList, menu, running>>
      /\ \/ v \in Mobs /\ Flag(v) /\ dead' = dead \cup {v}
         \/ UNCHANGED <<pending, extractionsPending, dead>>
  BY DEF die
<1>2. InWorld' = InWorld /\ Kinds' = Kinds
  BY <1>1 DEF InWorld, Kinds
<1>3. /\ pending \subseteq pending' /\ pending' \subseteq InWorld
      /\ extractionsPending' \in Nat
      /\ extractionsPending' = Cardinality(pending')
      /\ dead' \subseteq Mobs \cap pending'
  <2>1. CASE v \in Mobs /\ Flag(v) /\ dead' = dead \cup {v}
    <3>1. /\ pending' = pending \cup {v} /\ pending' \subseteq InWorld
          /\ extractionsPending' \in Nat
          /\ extractionsPending' = Cardinality(pending')
      BY <1>1, <2>1, FlagKeeps DEF IInv
    <3>2. QED
      BY <2>1, <3>1 DEF IInv, WorldPart
  <2>2. CASE UNCHANGED <<pending, extractionsPending, dead>>
    BY <2>2 DEF IInv, WorldPart, CountIsExact
  <2>3. QED
    BY <1>1, <2>1, <2>2
<1>4. WorldPart'
  BY <1>1, <1>2, <1>3 DEF IInv, WorldPart, CountIsExact
<1>5. GoodMove(f, f', InWorld) /\ f'.fighting[v] = None
  <2> DEFINE g == stop_fighting(f, v)
             h == StopAllOn(g, {v})
             k == RoundCancelled(h, v)
  <2>1. GoodMove(f, h, InWorld)
    BY FleeMoves
  <2>2. FightsInv(h) /\ Linked(h, InWorld)
    BY <2>1 DEF GoodMove
  <2>3. h.fighting[v] = None
    <3>1. FightsInv(g) /\ Linked(g, InWorld)
      BY OverMoves DEF GoodMove, stop_fighting, IInv, FightPart
    <3>2. g.fighting[v] = None
      <4>1. /\ FightsInv(FightsOver(f, {v}))
            /\ FightsOver(f, {v}).fighting = [c \in Chars |-> IF c \in {v} THEN None ELSE f.fighting[c]]
            /\ FightsOver(f, {v}).round = [c \in Chars |->
                 IF c \in {v} /\ f.round[c] = "queued" THEN "none" ELSE f.round[c]]
        BY OverSound DEF IInv, FightPart
      <4>2. QED
        BY <4>1 DEF stop_fighting
    <3> HIDE DEF g
    <3>3. h.fighting[v] \in {None, g.fighting[v]}
      BY <3>1, StopAllSound
    <3>4. QED
      BY <3>2, <3>3
  <2> HIDE DEF h, g
  <2>4. /\ FightsInv(k) /\ Linked(k, InWorld) /\ k.fighting = h.fighting
        /\ \A d \in Chars : k.round[d] =
             IF d = v /\ h.round[v] = "queued" THEN "none" ELSE h.round[d]
    BY <2>2, CancelSound
  <2> HIDE DEF k
  <2>5. ASSUME NEW d \in Chars
        PROVE  /\ k.round[d] = "running" <=> h.round[d] = "running"
               /\ GoesOn(h, d) => GoesOn(k, d)
    BY <2>3, <2>4 DEF GoesOn
  <2>6. GoodMove(h, k, InWorld)
    BY <2>4, <2>5 DEF GoodMove
  <2>7. f' = k
    BY <1>1 DEF DeathStops, k, h, g
  <2>8. QED
    BY <2>1, <2>3, <2>4, <2>6, <2>7, MovesCompose
<1>6. FightPart'
  <2>1. FightsInv(f') /\ Linked(f', InWorld')
    BY <1>2, <1>5 DEF GoodMove
  <2>2. ASSUME Risks = {}, NEW c \in Chars \ pending' PROVE GoesOn(f', c)
    BY <1>3, <1>5, <2>2 DEF GoodMove, IInv, FightPart
  <2>3. QED
    BY <2>1, <2>2 DEF FightPart
<1>7. RunningPart'
  BY <1>1, <1>5 DEF GoodMove, IInv, RunningPart
<1>8. RefsPart'
  <2> DEFINE r == Forget(ref, "guarding", {v})
             q == Forget(r, "hunting", {v})
  <2>1. ref \in [Kinds -> [Chars -> Chars \cup {None}]]
    BY DEF IInv, RefsPart
  <2>2. /\ r \in [Kinds -> [Chars -> Chars \cup {None}]]
        /\ \A l \in Kinds, d \in Chars : r[l][d] \in {ref[l][d], None}
    <3>1. Forgets(ref, r, "guarding", {v})
      BY <2>1, ForgetSound
    <3>2. QED
      BY <3>1 DEF Forgets
  <2> HIDE DEF r
  <2>3. /\ q \in [Kinds -> [Chars -> Chars \cup {None}]]
        /\ \A l \in Kinds, d \in Chars : q[l][d] \in {r[l][d], None}
    <3>1. Forgets(r, q, "hunting", {v})
      BY <2>2, ForgetSound
    <3>2. QED
      BY <3>1 DEF Forgets
  <2> HIDE DEF q
  <2>4. ref' = SetRef(q, "guarding", v, None) /\ None \in Chars \cup {None}
    BY <1>1 DEF q, r
  <2>5. /\ ref' \in [Kinds -> [Chars -> Chars \cup {None}]]
        /\ \A l \in Kinds, d \in Chars : ref'[l][d] \in {q[l][d], None}
    <3>1. Refers(q, ref', "guarding", v, None)
      BY <2>3, <2>4, SetRefSound
    <3>2. QED
      BY <3>1 DEF Refers
  <2>6. \A l \in Kinds, d \in Chars : ref'[l][d] \in {ref[l][d], None}
    BY <2>2, <2>3, <2>5
  <2>7. ASSUME NEW l \in Kinds \ {"last_attacker"}, NEW c \in Chars
        PROVE  IF c \in InWorld THEN ref'[l][c] \in InWorld \cup {None}
               ELSE c \in Mobs \/ l = "guarding" => ref'[l][c] = None
    BY <2>6 DEF IInv, RefsPart
  <2>8. QED
    BY <1>2, <2>5, <2>7 DEF RefsPart
<1>9. QED
  BY <1>4, <1>6, <1>7, <1>8 DEF IInv

\* "unaffect" takes the round of one who does not fight, or the risk is taken.
LEMMA UnaffectKeeps ==
  ASSUME IInv, NEW v \in Chars, unaffect(v)
  PROVE  IInv'
<1>1. /\ f.round[v] = "queued" /\ f' = RoundCancelled(f, v)
      /\ f.fighting[v] # None => "unaffect_fighter" \in Risks
      /\ UNCHANGED <<scenario, characterList, menu, pending, extractionsPending, dead,
                     ref, running>>
  BY DEF unaffect
<1>2. /\ FightsInv(f') /\ Linked(f', InWorld)
      /\ f'.fighting = f.fighting
      /\ \A d \in Chars : f'.round[d] = IF d = v THEN "none" ELSE f.round[d]
  BY <1>1, CancelSound DEF IInv, FightPart
<1>3. InWorld' = InWorld
  BY <1>1 DEF InWorld
<1>4. FightPart'
  <2>1. ASSUME Risks = {}, NEW c \in Chars \ pending' PROVE GoesOn(f', c)
    BY <1>1, <1>2, <2>1 DEF IInv, FightPart, GoesOn
  <2>2. QED
    BY <1>2, <1>3, <2>1 DEF FightPart
<1>5. RunningPart'
  BY <1>1, <1>2 DEF IInv, RunningPart
<1>6. QED
  BY <1>1, <1>4, <1>5, SameWorld, SameRefs DEF IInv

\* A round ends without another: it was queued, so nobody is on the stack, and its
\* fight is over, or its character is leaving.
LEMMA GivesUpKeeps ==
  ASSUME IInv, NEW c \in Chars, RoundGivesUp(c)
  PROVE  IInv'
<1> DEFINE g == IF c \in pending THEN f ELSE stop_fighting(f, c)
<1>1. /\ running = None /\ f.round[c] = "queued" /\ f' = RoundFreed(g, c)
      /\ UNCHANGED <<scenario, characterList, menu, pending, extractionsPending, dead,
                     ref, running>>
  BY DEF RoundGivesUp, Fires
<1>2. GoodMove(f, g, InWorld) /\ (c \notin pending => g.fighting[c] = None)
  <2>1. CASE c \in pending
    <3>1. GoodMove(f, f, InWorld)
      BY DEF GoodMove, IInv, FightPart
    <3>2. QED
      BY <2>1, <3>1
  <2>2. CASE c \notin pending
    <3>1. GoodMove(f, FightsOver(f, {c}), InWorld)
      BY OverMoves DEF IInv, FightPart
    <3>2. /\ FightsInv(FightsOver(f, {c}))
          /\ FightsOver(f, {c}).fighting = [d \in Chars |-> IF d \in {c} THEN None ELSE f.fighting[d]]
          /\ FightsOver(f, {c}).round = [d \in Chars |->
               IF d \in {c} /\ f.round[d] = "queued" THEN "none" ELSE f.round[d]]
      BY OverSound DEF IInv, FightPart
    <3>3. FightsOver(f, {c}).fighting[c] = None
      BY <3>2
    <3>4. g = FightsOver(f, {c})
      BY <2>2 DEF stop_fighting
    <3>5. QED
      BY <3>1, <3>3, <3>4
  <2>3. QED
    BY <2>1, <2>2
<1> HIDE DEF g
<1>3. FightsInv(g) /\ Linked(g, InWorld) /\ f' = [g EXCEPT !.round[c] = "none"]
  BY <1>1, <1>2 DEF GoodMove, RoundFreed
<1>4. FightsInv(f') /\ f'.fighting = g.fighting /\ f'.round = [g.round EXCEPT ![c] = "none"]
  BY <1>3, RoundSound
<1>5. g.round \in [Chars -> {"none", "queued", "running"}]
  BY <1>3 DEF FightsInv, FightType
<1>6. \A d \in Chars : f'.round[d] = IF d = c THEN "none" ELSE g.round[d]
  BY <1>4, <1>5
<1>7. InWorld' = InWorld
  BY <1>1 DEF InWorld
<1>8. FightPart'
  <2>1. Linked(f', InWorld)
    BY <1>3, <1>4, <1>6 DEF Linked
  <2>2. ASSUME Risks = {}, NEW d \in Chars \ pending' PROVE GoesOn(f', d)
    <3>1. GoesOn(g, d)
      BY <1>1, <1>2, <2>2 DEF IInv, FightPart, GoodMove
    <3>2. QED
      BY <1>1, <1>2, <1>4, <1>6, <2>2, <3>1 DEF GoesOn
  <2>3. QED
    BY <1>4, <1>7, <2>1, <2>2 DEF FightPart
<1>9. RunningPart'
  <2>1. ASSUME NEW d \in Chars PROVE f'.round[d] # "running"
    <3>1. f.round[d] # "running"
      BY <1>1, FightsAssumption DEF IInv, RunningPart
    <3>2. g.round[d] # "running"
      BY <3>1, <1>2 DEF GoodMove
    <3>3. QED
      BY <3>2, <1>6
  <2>2. QED
    BY <1>1, <2>1, FightsAssumption DEF RunningPart, IInv
<1>10. QED
  BY <1>1, <1>8, <1>9, SameWorld, SameRefs DEF IInv

\* Only the round of c changes, to one that is not "none".
LEMMA RoundKeeps ==
  ASSUME IInv, NEW c \in Chars, NEW r \in {"queued", "running"}, f.round[c] # "none",
         f' = [f EXCEPT !.round[c] = r], RunningPart',
         UNCHANGED <<scenario, characterList, menu, pending, extractionsPending, dead, ref>>
  PROVE  IInv'
<1>1. FightsInv(f') /\ f'.fighting = f.fighting /\ f'.round = [f.round EXCEPT ![c] = r]
  <2>1. FightsInv(f) /\ r \in {"none", "queued", "running"}
    BY DEF IInv, FightPart
  <2>2. QED
    BY <2>1, RoundSound
<1>2. f.round \in [Chars -> {"none", "queued", "running"}]
  BY DEF IInv, FightPart, FightsInv, FightType
<1>3. \A d \in Chars : f'.round[d] = IF d = c THEN r ELSE f.round[d]
  BY <1>1, <1>2
<1>4. InWorld' = InWorld
  BY DEF InWorld
<1>5. FightPart'
  <2>1. Linked(f', InWorld)
    BY <1>1, <1>3 DEF Linked, IInv, FightPart
  <2>2. ASSUME Risks = {}, NEW d \in Chars \ pending' PROVE GoesOn(f', d)
    BY <1>1, <1>3, <2>2 DEF IInv, FightPart, GoesOn
  <2>3. QED
    BY <1>1, <1>4, <2>1, <2>2 DEF FightPart
<1>6. QED
  BY <1>5, SameWorld, SameRefs DEF IInv

\* A round starts: it is the only one on the stack.
LEMMA StartsKeeps ==
  ASSUME IInv, NEW c \in Chars, RoundStarts(c)
  PROVE  IInv'
<1>1. /\ running = None /\ f.round[c] = "queued" /\ f' = [f EXCEPT !.round[c] = "running"]
      /\ running' = c
      /\ UNCHANGED <<scenario, characterList, menu, pending, extractionsPending, dead, ref>>
  BY DEF RoundStarts, Fires
<1>2. /\ f'.round = [f.round EXCEPT ![c] = "running"]
      /\ f.round \in [Chars -> {"none", "queued", "running"}]
  BY <1>1, RoundSound DEF IInv, FightPart, FightsInv, FightType
<1>3. RunningPart'
  BY <1>1, <1>2, FightsAssumption DEF IInv, RunningPart
<1>4. QED
  BY <1>1, <1>3, RoundKeeps

\* A round returns, and is queued again.
LEMMA ReturnsKeeps ==
  ASSUME IInv, NEW c \in Chars, RoundReturns(c)
  PROVE  IInv'
<1>1. /\ running = c /\ f' = [f EXCEPT !.round[c] = "queued"]
      /\ running' = None
      /\ UNCHANGED <<scenario, characterList, menu, pending, extractionsPending, dead, ref>>
  BY DEF RoundReturns
<1>2. /\ f'.round = [f.round EXCEPT ![c] = "queued"]
      /\ f.round \in [Chars -> {"none", "queued", "running"}]
  BY <1>1, RoundSound DEF IInv, FightPart, FightsInv, FightType
<1>3. RunningPart'
  BY <1>1, <1>2, FightsAssumption DEF IInv, RunningPart
<1>4. f.round[c] # "none"
  BY <1>1 DEF IInv, RunningPart
<1>5. QED
  BY <1>1, <1>3, <1>4, RoundKeeps

\* The flagged ones leave: nobody who stays fights one of them or refers to one.
LEMMA PendingLeave ==
  ASSUME IInv, extract_pending_chars
  PROVE  IInv'
<1>1. PICK toMenu \in SUBSET (Doomed \cap Players) :
        menu' = menu \cup toMenu /\ ref' = FinalRefs(RefsReleased, Doomed, toMenu)
  BY DEF extract_pending_chars
<1>2. /\ running = None
      /\ f' = extract_char_final(FightsReleased, Doomed)
      /\ characterList' = Kept(characterList, {k \in DOMAIN characterList : characterList[k] \notin Doomed})
      /\ pending' = pending \ Doomed
      /\ dead' = dead \ Doomed
      /\ extractionsPending' = 0
      /\ UNCHANGED <<scenario, running>>
  BY DEF extract_pending_chars
<1>3. Doomed = pending
  BY DoomedIsPending DEF IInv
<1>4. characterList \in Seq(Chars) /\ IsInjective(characterList)
  BY DEF IInv, WorldPart
<1>5. /\ characterList' \in Seq(Chars)
      /\ IsInjective(characterList')
      /\ InWorld' = InWorld \ pending
  BY <1>2, <1>3, <1>4, LeaveSound DEF InWorld
<1>6. pending' = {} /\ dead' = {} /\ toMenu \subseteq pending \cap Players
  BY <1>2, <1>3 DEF IInv, WorldPart
<1>7. WorldPart'
  <2>1. Cardinality({}) = 0
    BY FS_EmptySet
  <2>2. pending \subseteq InWorld /\ menu \subseteq Players \ InWorld /\ scenario \in Scenarios
    BY DEF IInv, WorldPart
  <2>3. menu' \subseteq Players \ InWorld'
    BY <1>1, <1>5, <1>6, <2>2
  <2>4. QED
    BY <1>2, <1>5, <1>6, <2>1, <2>2, <2>3 DEF WorldPart, CountIsExact
<1> DEFINE g == StopAllOn(f, pending)
           h == FightsOver(g, pending)
           round == [c \in Chars |-> IF c \in pending THEN "none" ELSE h.round[c]]
           k == [h EXCEPT !.round = round]
<1>8. /\ GoodMove(f, g, InWorld)
      /\ \A c \in Chars : g.fighting[c] \in {None, f.fighting[c]} /\ g.fighting[c] \notin pending
  <2>1. None \notin pending
    BY FightsAssumption DEF IInv, WorldPart, InWorld, ToSet
  <2>2. QED
    BY <2>1, StopAllSound DEF IInv, FightPart
<1> HIDE DEF g
<1>9. FightsInv(g) /\ Linked(g, InWorld)
  BY <1>8 DEF GoodMove
<1>10. GoodMove(g, h, InWorld)
  BY <1>9, OverMoves
<1>11. h.fighting = [c \in Chars |-> IF c \in pending THEN None ELSE g.fighting[c]]
  <2>1. /\ FightsInv(h)
        /\ h.fighting = [c \in Chars |-> IF c \in pending THEN None ELSE g.fighting[c]]
        /\ h.round = [c \in Chars |->
             IF c \in pending /\ g.round[c] = "queued" THEN "none" ELSE g.round[c]]
    BY <1>9, OverSound
  <2>2. QED
    BY <2>1
<1> HIDE DEF h
<1>12. FightsInv(h)
  BY <1>10 DEF GoodMove
<1>13. FightsInv(k) /\ k.fighting = h.fighting /\ k.round = round
  <2>1. h \in FightType /\ round \in [Chars -> {"none", "queued", "running"}]
    BY <1>12 DEF FightsInv, FightType
  <2> HIDE DEF round
  <2>2. k \in FightType /\ k.combat = h.combat /\ k.fighting = h.fighting /\ k.round = round
    BY <2>1 DEF FightType
  <2> HIDE DEF k
  <2>3. QED
    BY <1>12, <2>2 DEF FightsInv, Listed, Ordered
<1> HIDE DEF k
<1>14. f' = k
  BY <1>2, <1>3 DEF extract_char_final, FightsReleased, k, h, g
<1>15. ASSUME NEW c \in Chars
       PROVE  /\ k.fighting[c] = IF c \in pending THEN None ELSE g.fighting[c]
              /\ k.round[c] = IF c \in pending THEN "none" ELSE h.round[c]
  BY <1>11, <1>13
<1>16. FightPart'
  <2>1. ASSUME NEW c \in Chars
        PROVE  IF c \in InWorld' THEN k.fighting[c] \in InWorld' \cup {None}
               ELSE k.fighting[c] = None /\ k.round[c] = "none"
    <3>1. CASE c \in pending
      BY <3>1, <1>5, <1>15
    <3>2. CASE c \notin pending /\ c \in InWorld
      <4>1. g.fighting[c] \in InWorld \cup {None}
        BY <3>2, <1>9 DEF Linked
      <4>2. QED
        BY <3>2, <4>1, <1>5, <1>8, <1>15
    <3>3. CASE c \notin pending /\ c \notin InWorld
      <4>1. g.fighting[c] = None /\ h.round[c] = "none"
        BY <3>3, <1>9, <1>10 DEF GoodMove, Linked
      <4>2. QED
        BY <3>3, <4>1, <1>5, <1>15
    <3>4. QED
      BY <3>1, <3>2, <3>3
  <2>2. ASSUME Risks = {}, NEW c \in Chars PROVE GoesOn(k, c)
    <3>1. CASE c \in pending
      BY <3>1, <1>15 DEF GoesOn
    <3>2. CASE c \notin pending
      <4>1. GoesOn(h, c)
        BY <2>2, <3>2, <1>8, <1>10 DEF GoodMove, IInv, FightPart
      <4>2. h.fighting[c] = g.fighting[c]
        BY <3>2, <1>11
      <4>3. QED
        BY <3>2, <4>1, <4>2, <1>15 DEF GoesOn
    <3>3. QED
      BY <3>1, <3>2
  <2>3. QED
    BY <1>13, <1>14, <2>1, <2>2 DEF FightPart, Linked
<1>17. RunningPart'
  <2>1. ASSUME NEW c \in Chars PROVE k.round[c] # "running"
    <3>1. f.round[c] # "running"
      BY <1>2, FightsAssumption DEF IInv, RunningPart
    <3>2. h.round[c] # "running"
      BY <3>1, <1>8, <1>10 DEF GoodMove
    <3>3. QED
      BY <3>2, <1>15
  <2>2. QED
    BY <1>2, <1>14, <2>1, FightsAssumption DEF RunningPart, IInv
<1>18. RefsPart'
  <2> DEFINE r1 == Forget(ref, "last_attacker", pending)
             r2 == Forget(r1, "guarding", pending)
             r3 == Forget(r2, "hunting", pending)
  <2>1. ref \in [Kinds -> [Chars -> Chars \cup {None}]]
    BY DEF IInv, RefsPart
  <2>2. Forgets(ref, r1, "last_attacker", pending)
    BY <2>1, ForgetSound
  <2> HIDE DEF r1
  <2>3. Forgets(r1, r2, "guarding", pending)
    BY <2>2, ForgetSound DEF Forgets
  <2> HIDE DEF r2
  <2>4. Forgets(r2, r3, "hunting", pending)
    BY <2>3, ForgetSound DEF Forgets
  <2> HIDE DEF r3
  <2>5. ref' = FinalRefs(r3, pending, toMenu)
    BY <1>1, <1>3 DEF RefsReleased, r3, r2, r1
  <2>6. r3 \in [Kinds -> [Chars -> Chars \cup {None}]]
    BY <2>4 DEF Forgets
  <2>7. /\ ref' \in [Kinds -> [Chars -> Chars \cup {None}]]
        /\ \A l \in Kinds, c \in Chars :
             ref'[l][c] = IF c \in pending \ toMenu \/ (c \in pending /\ l = "guarding")
                          THEN None ELSE r3[l][c]
    BY <2>5, <2>6 DEF FinalRefs
  <2>8. Kinds' = Kinds
    BY <1>2 DEF Kinds
  <2>9. ASSUME NEW l \in Kinds \ {"last_attacker"}, NEW c \in Chars
        PROVE  IF c \in InWorld' THEN ref'[l][c] \in InWorld' \cup {None}
               ELSE c \in Mobs \/ l = "guarding" => ref'[l][c] = None
    <3>1. l = "guarding" \/ l = "hunting"
      <4>1. scenario \in Scenario
        BY FightsAssumption DEF IInv, WorldPart
      <4>2. QED
        BY <4>1 DEF Scenario, Kinds, AllKinds
    <3>2. r1[l][c] = ref[l][c]
      BY <2>2 DEF Forgets
    <3>3. c \in InWorld => r3[l][c] \in (InWorld \ pending) \cup {None}
      <4> SUFFICES ASSUME c \in InWorld PROVE r3[l][c] \in (InWorld \ pending) \cup {None}
        OBVIOUS
      <4>1. ref[l][c] \in InWorld \cup {None}
        BY DEF IInv, RefsPart
      <4>2. CASE l = "guarding"
        <5>1. r2[l][c] \in (InWorld \ pending) \cup {None}
          BY <4>1, <4>2, <3>2, <2>3 DEF Forgets
        <5>2. r3[l][c] = r2[l][c]
          BY <4>2, <2>4 DEF Forgets
        <5>3. QED
          BY <5>1, <5>2
      <4>3. CASE l = "hunting"
        <5>1. r2[l][c] = r1[l][c]
          BY <4>3, <2>3 DEF Forgets
        <5>2. QED
          BY <5>1, <4>1, <4>3, <3>2, <2>4 DEF Forgets
      <4>4. QED
        BY <3>1, <4>2, <4>3
    <3>4. c \notin InWorld => r3[l][c] = ref[l][c]
      BY <3>2, <2>3, <2>4 DEF Forgets
    <3>5. CASE c \in InWorld \ pending
      BY <3>3, <3>5, <2>7, <1>5
    <3>6. CASE c \in pending
      <4>1. c \in Mobs => c \notin toMenu
        BY <1>6, FightsAssumption
      <4>2. QED
        BY <3>6, <4>1, <2>7, <1>5
    <3>7. CASE c \notin InWorld
      <4>1. c \notin pending
        BY <3>7 DEF IInv, WorldPart
      <4>2. QED
        BY <3>4, <3>7, <4>1, <2>7, <1>5 DEF IInv, RefsPart
    <3>8. QED
      BY <3>5, <3>6, <3>7
  <2>10. QED
    BY <2>7, <2>8, <2>9 DEF RefsPart
<1>19. QED
  BY <1>7, <1>16, <1>17, <1>18 DEF IInv

\* Nobody is there at first.
LEMMA InitIInv == Init => IInv
<1> SUFFICES ASSUME Init PROVE IInv
  OBVIOUS
<1>1. /\ scenario \in Scenarios /\ characterList = <<>> /\ menu = {} /\ pending = {}
      /\ extractionsPending = 0 /\ dead = {} /\ running = None
      /\ f = [combat |-> <<>>, fighting |-> [c \in Chars |-> None],
              round |-> [c \in Chars |-> "none"]]
      /\ ref = [k \in Kinds |-> [c \in Chars |-> None]]
  BY DEF Init
<1>2. InWorld = {} /\ characterList \in Seq(Chars) /\ IsInjective(characterList)
  BY <1>1 DEF InWorld, ToSet, IsInjective
<1>3. WorldPart
  BY <1>1, <1>2, FS_EmptySet DEF WorldPart, CountIsExact
<1>4. FightsInv(f)
  <2>1. f \in FightType
    BY <1>1 DEF FightType
  <2>2. Len(f.combat) = 0 /\ \A c \in Chars : f.fighting[c] = None
    BY <1>1
  <2>3. QED
    BY <2>1, <2>2 DEF FightsInv, Listed, Ordered
<1>5. FightPart
  <2>1. \A c \in Chars : f.fighting[c] = None /\ f.round[c] = "none"
    BY <1>1
  <2>2. QED
    BY <1>2, <1>4, <2>1 DEF FightPart, Linked, GoesOn
<1>6. RunningPart
  <2>1. \A c \in Chars : f.round[c] = "none"
    BY <1>1
  <2>2. QED
    BY <1>1, <2>1, FightsAssumption DEF RunningPart
<1>7. RefsPart
  BY <1>1, <1>2 DEF RefsPart
<1>8. QED
  BY <1>3, <1>5, <1>6, <1>7 DEF IInv

\* Each action by its own lemma.
LEMMA NextIInv == IInv /\ [Next]_vars => IInv'
<1> SUFFICES ASSUME IInv, [Next]_vars PROVE IInv'
  OBVIOUS
<1>1. CASE UNCHANGED vars
  <2>1. UNCHANGED <<scenario, characterList, menu, pending, extractionsPending, dead, f,
                    ref, running>>
    BY <1>1 DEF vars
  <2>2. InWorld' = InWorld
    BY <2>1 DEF InWorld
  <2>3. FightPart' /\ RunningPart'
    BY <2>1, <2>2 DEF IInv, FightPart, RunningPart
  <2>4. QED
    BY <2>1, <2>3, SameWorld, SameRefs DEF IInv
<1>2. ASSUME NEW m \in Mobs, read_mobile(m) PROVE IInv'
  BY <1>2, ReadMobileKeeps
<1>3. ASSUME NEW p \in Players, enter_player_game(p) \/ LeaveMenu(p) PROVE IInv'
  BY <1>3, EnterKeeps, LeaveMenuKeeps
<1>4. ASSUME NEW a \in Chars, NEW v \in Chars,
             hit(a, v) \/ damage(a, v) \/ do_guard(a, v) \/ do_mhunt(a, v)
      PROVE  IInv'
  <2>1. CASE hit(a, v)
    BY <2>1, HitKeeps
  <2>2. CASE damage(a, v)
    BY <2>2, DamageKeeps
  <2>3. CASE do_guard(a, v)
    <3>1. /\ a \in InWorld /\ v \in InWorld
          /\ ref' = SetRef(ref, "guarding", a, v)
          /\ UNCHANGED <<scenario, characterList, menu, pending, extractionsPending, dead, f,
                         running>>
      BY <2>3 DEF do_guard
    <3>2. QED
      BY <3>1, ReferKeeps
  <2>4. CASE do_mhunt(a, v)
    <3>1. /\ a \in InWorld /\ v \in InWorld
          /\ ref' = SetRef(ref, "hunting", a, v)
          /\ UNCHANGED <<scenario, characterList, menu, pending, extractionsPending, dead, f,
                         running>>
      BY <2>4 DEF do_mhunt
    <3>2. QED
      BY <3>1, ReferKeeps
  <2>5. QED
    BY <1>4, <2>1, <2>2, <2>3, <2>4
<1>5. ASSUME NEW c \in Chars,
             \/ extract_char(c) \/ Disengage(c) \/ perform_flee(c) \/ die(c)
             \/ unaffect(c) \/ RoundGivesUp(c) \/ RoundStarts(c) \/ RoundReturns(c)
      PROVE  IInv'
  <2>1. CASE extract_char(c)
    BY <2>1, ExtractKeeps
  <2>2. CASE Disengage(c)
    <3>1. GoodMove(f, f', InWorld)
      BY <2>2, OverMoves DEF Disengage, stop_fighting, IInv, FightPart
    <3>2. QED
      BY <2>2, <3>1, EndKeeps DEF Disengage
  <2>3. CASE perform_flee(c)
    <3>1. GoodMove(f, f', InWorld)
      BY <2>3, FleeMoves DEF perform_flee
    <3>2. QED
      BY <2>3, <3>1, EndKeeps DEF perform_flee
  <2>4. CASE die(c)
    BY <2>4, DieKeeps
  <2>5. CASE unaffect(c)
    BY <2>5, UnaffectKeeps
  <2>6. CASE RoundGivesUp(c)
    BY <2>6, GivesUpKeeps
  <2>7. CASE RoundStarts(c)
    BY <2>7, StartsKeeps
  <2>8. CASE RoundReturns(c)
    BY <2>8, ReturnsKeeps
  <2>9. QED
    BY <1>5, <2>1, <2>2, <2>3, <2>4, <2>5, <2>6, <2>7, <2>8
<1>6. CASE extract_pending_chars
  BY <1>6, PendingLeave
<1>7. QED
  BY <1>1, <1>2, <1>3, <1>4, <1>5, <1>6 DEF Next

-----------------------------------------------------------------------------
(* The theorems.                                                           *)

\* The inductive invariant of fights, rounds and extractions.
THEOREM Invariance == Spec => []IInv
  BY InitIInv, NextIInv, PTL DEF Spec

\* combat_list holds exactly those who fight, each once and in the order of
\* initiative, for any number of characters and in whatever order they start, stop,
\* flee, die and leave (set_fighting, stop_fighting).
THEOREM CombatListStaysSound == Spec => []CombatListSound
<1>1. IInv => CombatListSound
  <2> SUFFICES ASSUME IInv PROVE CombatListSound
    OBVIOUS
  <2>1. TypeOK
    BY DEF IInv, FightPart, RunningPart, WorldPart, RefsPart, FightsInv, TypeOK
  <2>2. f.combat \in Seq(Entry) /\ DOMAIN f.combat = 1 .. Len(f.combat)
    BY DEF IInv, FightPart, FightsInv, FightType
  <2>3. DOMAIN Order(f) = 1 .. Len(f.combat)
        /\ \A k \in 1 .. Len(f.combat) : Order(f)[k] = f.combat[k].who
    BY <2>2 DEF Order
  <2>4. IsInjective(Order(f))
    BY <2>3 DEF IsInjective, IInv, FightPart, FightsInv, Listed
  <2>5. ToSet(Order(f)) = {c \in Chars : f.fighting[c] # None}
    <3>1. \A k \in 1 .. Len(f.combat) : f.combat[k].who \in Chars
      <4>1. \A k \in 1 .. Len(f.combat) : f.combat[k] \in Entry
        BY <2>2
      <4>2. QED
        BY <4>1 DEF Entry
    <3>2. \A c \in Chars :
            f.fighting[c] # None <=> \E k \in 1 .. Len(f.combat) : f.combat[k].who = c
      BY DEF IInv, FightPart, FightsInv, Listed
    <3>3. QED
      BY <2>3, <3>1, <3>2 DEF ToSet
  <2>6. InitiativeOrder
    BY <2>2 DEF InitiativeOrder, IInv, FightPart, FightsInv, Ordered
  <2>7. QED
    BY <2>1, <2>4, <2>5, <2>6 DEF CombatListSound, FightersListed
<1>2. QED
  BY <1>1, Invariance, PTL

\* Nobody in the world fights, guards or hunts one who has left it, one who has left is
\* on no list and has no event, and extractions_pending counts the flagged, whoever
\* leaves and whoever gets their memory (extract_pending_chars, extract_char_final).
THEOREM NothingIsLeftBehind == Spec => []LeftNothingBehind
<1>1. IInv => LeftNothingBehind
  <2> SUFFICES ASSUME IInv PROVE LeftNothingBehind
    OBVIOUS
  <2>0. InWorld \subseteq Chars
    BY DEF IInv, WorldPart, InWorld, ToSet
  <2>1. NoDanglingReference
    BY <2>0 DEF NoDanglingReference, IInv, FightPart, Linked, RefsPart
  <2>2. CleanlyGone
    <3>1. \A c \in Chars \ InWorld : f.fighting[c] = None /\ f.round[c] = "none"
      BY DEF IInv, FightPart, Linked
    <3>2. f.combat \in Seq(Entry) /\ DOMAIN f.combat = 1 .. Len(f.combat)
      BY DEF IInv, FightPart, FightsInv, FightType
    <3>3. ASSUME NEW c \in Chars \ InWorld, c \in ToSet(Order(f)) PROVE FALSE
      <4>1. PICK k \in 1 .. Len(f.combat) : f.combat[k].who = c
        BY <3>2, <3>3 DEF ToSet, Order
      <4>2. f.fighting[c] # None
        BY <4>1 DEF IInv, FightPart, FightsInv, Listed
      <4>3. QED
        BY <4>2, <3>1
    <3>4. QED
      BY <3>1, <3>3 DEF CleanlyGone
  <2>3. QED
    BY <2>1, <2>2 DEF LeftNothingBehind, IInv, WorldPart
<1>2. QED
  BY <1>1, Invariance, PTL

\* Unless an immortal's "unaffect" takes the round of one who fights, or the event queue
\* is at its limit when a fight starts, every fighter who is not about to leave has a
\* round coming (event_combat_round, set_fighting, stop_fighting).
THEOREM FightersHaveRounds ==
  ASSUME Risks = {}
  PROVE  Spec => []FighterHasRound
<1>1. IInv => FighterHasRound
  BY DEF IInv, FightPart, GoesOn, FighterHasRound
<1>2. QED
  BY <1>1, Invariance, PTL
===============================================================================
