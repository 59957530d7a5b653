---------------------------- MODULE I3ClientProofs ----------------------------
(***************************************************************************)
(* The order of what the Intermud3 client hears, and what its thread and   *)
(* the game loop believe of the session, for any bounds on the queues, the *)
(* sessions and the events.  No hypothesis is needed: the reconnections by *)
(* hand that break them are named in HeardInOrder and SessionSound.        *)
(***************************************************************************)
EXTENDS I3Client, SequenceTheorems, TLAPS

\* What was heard, what is queued, received and sent, up to n, stands in order.
Said(s, i) == s[i] \in Events

Above(h, s) == \A i \in 1 .. Len(s) : Said(s, i) => h < s[i]

UpTo(n, s) == \A i \in 1 .. Len(s) : Said(s, i) => s[i] <= n

Rising(s) == \A i, j \in 1 .. Len(s) : i < j /\ Said(s, i) /\ Said(s, j) => s[i] < s[j]

Before(s, t) ==
  \A i \in 1 .. Len(s), j \in 1 .. Len(t) : Said(s, i) /\ Said(t, j) => s[i] < t[j]

Ordered(h, e, i, w, n) ==
  /\ h \in 0 .. n
  /\ Above(h, e) /\ Above(h, i) /\ Above(h, w)
  /\ UpTo(n, e) /\ UpTo(n, i) /\ UpTo(n, w)
  /\ Rising(e) /\ Rising(i) /\ Rising(w)
  /\ Before(e, i) /\ Before(e, w) /\ Before(i, w)

OrderInv == Ordered(heard, evts, inbox, wire, sent)

\* The thread has read what the buffer has, until it is emptied while it reads; and only
\* a reconnection by hand does that.
BufferInv ==
  /\ pc \notin {"parse", "signal", "crashed"} => consumed = 0
  /\ "reading" \notin came => consumed <= received
  /\ "reading" \in came \/ main = "reset" => "admin" \in came

\* m is not in s, or only at its head.
No(m, s) == \A i \in 1 .. Len(s) : s[i] # m
OnlyFirst(m, s) == \A i \in 2 .. Len(s) : s[i] # m

\* What the thread knows at each of its places.
PlacesInv ==
  /\ pc \notin {"parse", "signal"} => inbox = <<>>
  /\ pc \in {"dial", "connect", "nap", "done"} => sock = None
  /\ pc = "connect" => state \in {"CONNECTING", "SHUTDOWN"}
  /\ main \notin {"reset", "redial", "redialing"}

\* What a session without a descriptor leaves.
ClosedInv ==
  /\ open = {sock} \ {None}
  /\ sock = None => gw = "closed" /\ wire = <<>> /\ inbox = <<>>
  /\ state = "DISCONNECTED" => sock = None
  /\ state = "CONNECTED" => authed
  /\ authed => /\ sock # None /\ gw \in {"accepted", "closed"}
               /\ state \in {"CONNECTED", "SHUTDOWN"}

\* The handshake: the welcome comes first, the key is accepted after it is sent.
HandshakeInv ==
  /\ OnlyFirst(Welcome, inbox) /\ OnlyFirst(Welcome, wire)
  /\ inbox # <<>> => No(Welcome, wire)
  /\ gw \in {"asked", "accepted", "refused"} => No(Welcome, inbox) /\ No(Welcome, wire)
  /\ gw \in {"welcomed", "asked", "refused"} =>
       ~authed /\ No(Authenticated, inbox) /\ No(Authenticated, wire)
  /\ ~No(Welcome, inbox) \/ ~No(Welcome, wire) =>
       ~authed /\ No(Authenticated, inbox) /\ No(Authenticated, wire)

SessionInv == PlacesInv /\ ClosedInv /\ HandshakeInv

IInv ==
  /\ TypeOK
  /\ BufferInv
  /\ "reading" \notin came => OrderInv
  /\ "admin" \notin came => SessionInv

-----------------------------------------------------------------------------
(* Lemmas: sequences in order.                                             *)

\* t is a stretch of s.
Stretch(t, s) ==
  \E d \in Nat : /\ Len(t) + d <= Len(s)
                 /\ \A i \in 1 .. Len(t) : t[i] = s[i + d]

\* The empty sequence, all of one, its rest and its beginnings are stretches.
LEMMA Stretches ==
  ASSUME NEW s \in Seq(Messages)
  PROVE  /\ Stretch(<<>>, s) /\ Stretch(s, s)
         /\ s # <<>> => Tail(s) \in Seq(Messages) /\ Stretch(Tail(s), s)
         /\ \A n \in 0 .. Len(s) : SubSeq(s, 1, n) \in Seq(Messages) /\ Stretch(SubSeq(s, 1, n), s)
<1>1. Stretch(<<>>, s) /\ Stretch(s, s)
  <2>1. 0 \in Nat /\ Len(s) + 0 <= Len(s) /\ \A i \in 1 .. Len(s) : s[i] = s[i + 0]
    OBVIOUS
  <2>2. Len(<<>>) + 0 <= Len(s) /\ \A i \in 1 .. Len(<<>>) : <<>>[i] = s[i + 0]
    OBVIOUS
  <2>3. QED
    BY <2>1, <2>2 DEF Stretch
<1>2. ASSUME s # <<>> PROVE Tail(s) \in Seq(Messages) /\ Stretch(Tail(s), s)
  <2>1. /\ Tail(s) \in Seq(Messages) /\ Len(Tail(s)) + 1 <= Len(s)
        /\ \A i \in 1 .. Len(Tail(s)) : Tail(s)[i] = s[i + 1]
    BY <1>2
  <2>2. QED
    BY <2>1 DEF Stretch
<1>3. ASSUME NEW n \in 0 .. Len(s)
      PROVE  SubSeq(s, 1, n) \in Seq(Messages) /\ Stretch(SubSeq(s, 1, n), s)
  <2>1. /\ SubSeq(s, 1, n) \in Seq(Messages) /\ Len(SubSeq(s, 1, n)) + 0 <= Len(s)
        /\ \A i \in 1 .. Len(SubSeq(s, 1, n)) : SubSeq(s, 1, n)[i] = s[i + 0]
    OBVIOUS
  <2>2. QED
    BY <2>1 DEF Stretch
<1>4. QED
  BY <1>1, <1>2, <1>3

\* A stretch stands as the whole does, towards what is before and behind it.
LEMMA StretchKeeps ==
  ASSUME NEW s \in Seq(Messages), NEW t \in Seq(Messages), Stretch(t, s)
  PROVE  /\ \A h : Above(h, s) => Above(h, t)
         /\ \A n : UpTo(n, s) => UpTo(n, t)
         /\ Rising(s) => Rising(t)
         /\ \A u \in Seq(Messages) : /\ Before(s, u) => Before(t, u)
                                     /\ Before(u, s) => Before(u, t)
<1>1. PICK d \in Nat : Len(t) + d <= Len(s) /\ \A k \in 1 .. Len(t) : t[k] = s[k + d]
  BY DEF Stretch
<1>2. \A k \in 1 .. Len(t) : k + d \in 1 .. Len(s) /\ t[k] = s[k + d]
  BY <1>1
<1>3. ASSUME NEW h, Above(h, s) PROVE Above(h, t)
  BY <1>2, <1>3 DEF Above, Said
<1>4. ASSUME NEW n, UpTo(n, s) PROVE UpTo(n, t)
  BY <1>2, <1>4 DEF UpTo, Said
<1>5. ASSUME Rising(s) PROVE Rising(t)
  <2>1. SUFFICES ASSUME NEW i \in 1 .. Len(t), NEW j \in 1 .. Len(t), i < j, Said(t, i), Said(t, j)
                 PROVE  t[i] < t[j]
    BY DEF Rising
  <2>2. i + d \in 1 .. Len(s) /\ j + d \in 1 .. Len(s) /\ i + d < j + d
    BY <1>2, <2>1
  <2>3. Said(s, i + d) /\ Said(s, j + d)
    BY <1>2, <2>1 DEF Said
  <2>4. s[i + d] < s[j + d]
    BY <1>5, <2>2, <2>3 DEF Rising
  <2>5. QED
    BY <1>2, <2>4
<1>6. ASSUME NEW u \in Seq(Messages) 
      PROVE  (Before(s, u) => Before(t, u)) /\ (Before(u, s) => Before(u, t))
  BY <1>2 DEF Before, Said
<1>7. QED
  BY <1>3, <1>4, <1>5, <1>6

\* Whatever is lost, the rest stands in order.
LEMMA StretchesOrdered ==
  ASSUME NEW h, NEW n,
         NEW e \in Seq(Messages), NEW i \in Seq(Messages), NEW w \in Seq(Messages),
         NEW e2 \in Seq(Messages), NEW i2 \in Seq(Messages), NEW w2 \in Seq(Messages),
         Ordered(h, e, i, w, n), Stretch(e2, e), Stretch(i2, i), Stretch(w2, w)
  PROVE  Ordered(h, e2, i2, w2, n)
<1>1. Above(h, e2) /\ UpTo(n, e2) /\ Rising(e2)
  BY StretchKeeps DEF Ordered
<1>2. Above(h, i2) /\ UpTo(n, i2) /\ Rising(i2)
  BY StretchKeeps DEF Ordered
<1>3. Above(h, w2) /\ UpTo(n, w2) /\ Rising(w2)
  BY StretchKeeps DEF Ordered
<1>4. Before(e2, i) /\ Before(e2, w) /\ Before(i2, w)
  BY StretchKeeps DEF Ordered
<1>5. Before(e2, i2) /\ Before(e2, w2) /\ Before(i2, w2)
  BY <1>4, StretchKeeps
<1>6. QED
  BY <1>1, <1>2, <1>3, <1>5 DEF Ordered

\* What was sent is received; nothing is behind it yet.
LEMMA ReceivedOrdered ==
  ASSUME NEW h, NEW n, NEW e, NEW i, NEW w, Ordered(h, e, i, w, n)
  PROVE  Ordered(h, e, w, <<>>, n)
<1>1. Above(h, <<>>) /\ UpTo(n, <<>>) /\ Rising(<<>>) /\ \A s : Before(s, <<>>)
  BY DEF Above, UpTo, Rising, Before
<1>2. QED
  BY <1>1 DEF Ordered

\* A new session begins with a welcome, which nobody hears.
LEMMA WelcomeOrdered ==
  ASSUME NEW h, NEW n, NEW e, NEW i, NEW w, Ordered(h, e, i, w, n)
  PROVE  Ordered(h, e, i, <<Welcome>>, n)
<1>1. \A k \in 1 .. Len(<<Welcome>>) : ~Said(<<Welcome>>, k)
  BY DEF Said, Welcome, Events
<1>2. /\ Above(h, <<Welcome>>) /\ UpTo(n, <<Welcome>>) /\ Rising(<<Welcome>>)
      /\ \A s : Before(s, <<Welcome>>)
  BY <1>1 DEF Above, UpTo, Rising, Before
<1>3. QED
  BY <1>2 DEF Ordered

\* The gateway says something: what nobody hears, or the next event.
LEMMA AnswerOrdered ==
  ASSUME NEW h, NEW n \in Nat, NEW e \in Seq(Messages), NEW i \in Seq(Messages),
         NEW w \in Seq(Messages), Ordered(h, e, i, w, n),
         NEW k \in Nat, NEW m \in Messages,
         (m \notin Events /\ k = n) \/ (m = n + 1 /\ k = n + 1)
  PROVE  Ordered(h, e, i, Append(w, m), k)
<1> DEFINE v == Append(w, m)
<1>1. /\ Len(w) \in Nat /\ Len(v) = Len(w) + 1 /\ v[Len(w) + 1] = m
      /\ \A j \in 1 .. Len(w) : v[j] = w[j]
  OBVIOUS
<1> HIDE DEF v
<1>2. \A j \in 1 .. Len(v) :
        (j \in 1 .. Len(w) /\ v[j] = w[j]) \/ (j = Len(w) + 1 /\ v[j] = m)
  BY <1>1
<1>3. n <= k /\ (m \in Events => m = n + 1 /\ k = n + 1)
  OBVIOUS
<1>4. h \in 0 .. n /\ h \in 0 .. k
  BY <1>3 DEF Ordered
<1>5. \A x \in Events : x \in Nat
  BY DEF Events
<1>6. ASSUME NEW s \in Seq(Messages), UpTo(n, s) PROVE UpTo(k, s)
  BY <1>3, <1>5, <1>6 DEF UpTo, Said
<1>7. Above(h, v)
  BY <1>2, <1>3, <1>4 DEF Above, Said, Ordered
<1>8. UpTo(k, v)
  BY <1>2, <1>3, <1>5 DEF UpTo, Said, Ordered
<1>9. ASSUME NEW s \in Seq(Messages), UpTo(n, s), Before(s, w) PROVE Before(s, v)
  <2>1. SUFFICES ASSUME NEW a \in 1 .. Len(s), NEW b \in 1 .. Len(v), Said(s, a), Said(v, b)
                 PROVE  s[a] < v[b]
    BY DEF Before
  <2>2. CASE b \in 1 .. Len(w) /\ v[b] = w[b]
    BY <1>9, <2>1, <2>2 DEF Before, Said
  <2>3. CASE v[b] = m
    BY <1>3, <1>5, <1>9, <2>1, <2>3 DEF UpTo, Said
  <2>4. QED
    BY <1>2, <2>2, <2>3
<1>10. Rising(v)
  <2>1. SUFFICES ASSUME NEW a \in 1 .. Len(v), NEW b \in 1 .. Len(v), a < b, Said(v, a), Said(v, b)
                 PROVE  v[a] < v[b]
    BY DEF Rising
  <2>2. a \in 1 .. Len(w) /\ v[a] = w[a]
    BY <1>1, <1>2, <2>1
  <2>3. CASE b \in 1 .. Len(w) /\ v[b] = w[b]
    BY <2>1, <2>2, <2>3 DEF Ordered, Rising, Said
  <2>4. CASE v[b] = m
    BY <1>3, <1>5, <2>1, <2>2, <2>4 DEF Ordered, UpTo, Said
  <2>5. QED
    BY <1>2, <2>3, <2>4
<1>11. UpTo(k, e) /\ UpTo(k, i) /\ Before(e, v) /\ Before(i, v)
  BY <1>6, <1>9 DEF Ordered
<1>12. QED
  BY <1>4, <1>7, <1>8, <1>10, <1>11 DEF Ordered, v

\* The first of what was received is queued.
LEMMA EventOrdered ==
  ASSUME NEW h, NEW n, NEW e \in Seq(Messages), NEW i \in Seq(Messages),
         NEW w \in Seq(Messages), Ordered(h, e, i, w, n), i # <<>>
  PROVE  Ordered(h, Append(e, Head(i)), Tail(i), w, n)
<1> DEFINE m == Head(i)
           r == Tail(i)
           f == Append(e, m)
<1>1. /\ m \in Messages /\ m = i[1] /\ 1 \in 1 .. Len(i) /\ r \in Seq(Messages)
      /\ \A j \in 1 .. Len(r) : j + 1 \in 1 .. Len(i) /\ 1 < j + 1 /\ r[j] = i[j + 1]
  OBVIOUS
<1>2. Stretch(r, i)
  BY Stretches
<1> HIDE DEF m, r
<1>3. /\ f \in Seq(Messages) /\ Len(e) \in Nat /\ Len(f) = Len(e) + 1 /\ f[Len(e) + 1] = m
      /\ \A j \in 1 .. Len(e) : f[j] = e[j]
  BY <1>1
<1> HIDE DEF f
<1>4. \A j \in 1 .. Len(f) :
        (j \in 1 .. Len(e) /\ f[j] = e[j]) \/ (j = Len(e) + 1 /\ f[j] = m)
  BY <1>3
<1>5. Ordered(h, e, r, w, n)
  BY <1>1, <1>2, Stretches, StretchesOrdered
<1>6. m \in Events => /\ h < m /\ m <= n
                      /\ \A j \in 1 .. Len(e) : Said(e, j) => e[j] < m
                      /\ \A j \in 1 .. Len(r) : Said(r, j) => m < r[j]
                      /\ \A j \in 1 .. Len(w) : Said(w, j) => m < w[j]
  <2>1. SUFFICES ASSUME m \in Events
                 PROVE  /\ h < m /\ m <= n
                        /\ \A j \in 1 .. Len(e) : Said(e, j) => e[j] < m
                        /\ \A j \in 1 .. Len(r) : Said(r, j) => m < r[j]
                        /\ \A j \in 1 .. Len(w) : Said(w, j) => m < w[j]
    OBVIOUS
  <2>2. Said(i, 1) /\ i[1] = m
    BY <1>1, <2>1 DEF Said
  <2>3. h < m /\ m <= n
    BY <1>1, <2>2 DEF Ordered, Above, UpTo
  <2>4. \A j \in 1 .. Len(e) : Said(e, j) => e[j] < m
    BY <1>1, <2>2 DEF Ordered, Before
  <2>5. \A j \in 1 .. Len(w) : Said(w, j) => m < w[j]
    BY <1>1, <2>2 DEF Ordered, Before
  <2>6. \A j \in 1 .. Len(r) : Said(r, j) => m < r[j]
    BY <1>1, <2>2 DEF Ordered, Rising, Said
  <2>7. QED
    BY <2>3, <2>4, <2>5, <2>6
<1>7. Above(h, f) /\ UpTo(n, f)
  BY <1>4, <1>6 DEF Ordered, Above, UpTo, Said
<1>8. Rising(f)
  <2>1. SUFFICES ASSUME NEW a \in 1 .. Len(f), NEW b \in 1 .. Len(f), a < b, Said(f, a), Said(f, b)
                 PROVE  f[a] < f[b]
    BY DEF Rising
  <2>2. a \in 1 .. Len(e) /\ f[a] = e[a]
    BY <1>3, <1>4, <2>1
  <2>3. CASE b \in 1 .. Len(e) /\ f[b] = e[b]
    BY <2>1, <2>2, <2>3 DEF Ordered, Rising, Said
  <2>4. CASE f[b] = m
    BY <1>6, <2>1, <2>2, <2>4 DEF Said
  <2>5. QED
    BY <1>4, <2>3, <2>4
<1>9. Before(f, r) /\ Before(f, w)
  BY <1>4, <1>5, <1>6 DEF Ordered, Before, Said
<1>10. QED
  BY <1>5, <1>7, <1>8, <1>9 DEF Ordered, f, m, r

\* The first of the queue is heard.
LEMMA HeardOrdered ==
  ASSUME NEW h, NEW n \in Nat, NEW e \in Seq(Events), NEW i \in Seq(Messages),
         NEW w \in Seq(Messages), Ordered(h, e, i, w, n), e # <<>>
  PROVE  Ordered(Head(e), Tail(e), i, w, n)
<1> DEFINE m == Head(e)
           r == Tail(e)
<1>1. /\ m \in Events /\ m = e[1] /\ 1 \in 1 .. Len(e) /\ r \in Seq(Events)
      /\ \A j \in 1 .. Len(r) : j + 1 \in 1 .. Len(e) /\ 1 < j + 1 /\ r[j] = e[j + 1]
  OBVIOUS
<1>2. e \in Seq(Messages)
  <2>1. Events \subseteq Messages
    BY I3Assumption DEF Events, Messages
  <2>2. QED
    BY <2>1
<1>3. r \in Seq(Messages) /\ Stretch(r, e)
  BY <1>2, Stretches
<1> HIDE DEF m, r
<1>4. Ordered(h, r, i, w, n)
  BY <1>2, <1>3, Stretches, StretchesOrdered
<1>5. Said(e, 1) /\ e[1] = m
  BY <1>1 DEF Said
<1>6. m \in 0 .. n
  BY <1>1, <1>5 DEF Ordered, UpTo, Events
<1>7. Above(m, r)
  BY <1>1, <1>5 DEF Ordered, Rising, Above, Said
<1>8. Above(m, i) /\ Above(m, w)
  BY <1>1, <1>5 DEF Ordered, Before, Above
<1>9. QED
  BY <1>4, <1>6, <1>7, <1>8 DEF Ordered, m, r

\* One sequence behind another stands in order when each does and the one is before
\* the other.
LEMMA ConcatOrdered ==
  ASSUME NEW s \in Seq(Messages), NEW t \in Seq(Messages)
  PROVE  /\ s \o t \in Seq(Messages)
         /\ \A h : Above(h, s) /\ Above(h, t) => Above(h, s \o t)
         /\ Rising(s) /\ Rising(t) /\ Before(s, t) => Rising(s \o t)
         /\ \A u \in Seq(Messages) : Before(s, u) /\ Before(t, u) => Before(s \o t, u)
<1> DEFINE c == s \o t
           l == Len(s)
<1>1. /\ c \in Seq(Messages) /\ l \in Nat /\ Len(t) \in Nat /\ Len(c) = l + Len(t)
      /\ \A i \in 1 .. Len(c) : c[i] = IF i <= l THEN s[i] ELSE t[i - l]
  <2>1. /\ s \o t \in Seq(Messages) /\ Len(s \o t) = Len(s) + Len(t)
        /\ \A i \in 1 .. Len(s) + Len(t) :
             (s \o t)[i] = IF i <= Len(s) THEN s[i] ELSE t[i - Len(s)]
    BY ConcatProperties, Zenon
  <2> HIDE DEF c
  <2>2. Len(s) \in Nat /\ Len(t) \in Nat
    OBVIOUS
  <2>3. QED
    BY <2>1, <2>2 DEF c
<1> HIDE DEF c
<1>2. \A i \in 1 .. Len(c) :
        \/ i \in 1 .. l /\ c[i] = s[i]
        \/ i > l /\ i - l \in 1 .. Len(t) /\ c[i] = t[i - l]
  <2>1. \A i \in 1 .. Len(c) : i <= l => i \in 1 .. l /\ c[i] = s[i]
    BY <1>1
  <2>2. \A i \in 1 .. Len(c) : ~(i <= l) => i > l /\ i - l \in 1 .. Len(t)
    BY <1>1
  <2>3. \A i \in 1 .. Len(c) : ~(i <= l) => c[i] = t[i - l]
    BY <1>1
  <2>4. QED
    BY <2>1, <2>2, <2>3
<1>3. ASSUME NEW h, Above(h, s), Above(h, t) PROVE Above(h, c)
  BY <1>2, <1>3 DEF Above, Said
<1>4. ASSUME Rising(s), Rising(t), Before(s, t) PROVE Rising(c)
  <2>1. SUFFICES ASSUME NEW i \in 1 .. Len(c), NEW j \in 1 .. Len(c), i < j, Said(c, i), Said(c, j)
                 PROVE  c[i] < c[j]
    BY DEF Rising
  <2>2. CASE j \in 1 .. l /\ c[j] = s[j]
    <3>1. i \in 1 .. l /\ c[i] = s[i]
      BY <1>1, <1>2, <2>1, <2>2
    <3>2. QED
      BY <1>4, <2>1, <2>2, <3>1 DEF Rising, Said
  <2>3. CASE j > l /\ j - l \in 1 .. Len(t) /\ c[j] = t[j - l]
    <3>1. CASE i \in 1 .. l /\ c[i] = s[i]
      BY <1>4, <2>1, <2>3, <3>1 DEF Before, Said
    <3>2. CASE i > l /\ i - l \in 1 .. Len(t) /\ c[i] = t[i - l]
      <4>1. i - l < j - l
        BY <1>1, <2>1, <2>3, <3>2
      <4>2. QED
        BY <1>4, <2>1, <2>3, <3>2, <4>1 DEF Rising, Said
    <3>3. QED
      BY <1>2, <3>1, <3>2
  <2>4. QED
    BY <1>2, <2>2, <2>3
<1>5. ASSUME NEW u \in Seq(Messages), Before(s, u), Before(t, u) PROVE Before(c, u)
  BY <1>2, <1>5 DEF Before, Said
<1>6. QED
  BY <1>1, <1>3, <1>4, <1>5 DEF c

\* The invariant is the order of the queues one behind the other.
LEMMA OrderedIsInOrder ==
  ASSUME TypeOK, OrderInv
  PROVE  InOrder
<1> DEFINE all == evts \o inbox \o wire
<1>1. evts \in Seq(Messages) /\ inbox \in Seq(Messages) /\ wire \in Seq(Messages)
  <2>1. Events \subseteq Messages
    BY I3Assumption DEF Events, Messages
  <2>2. QED
    BY <2>1 DEF TypeOK
<1> DEFINE front == evts \o inbox
<1>2. front \in Seq(Messages) /\ Above(heard, front) /\ Rising(front) /\ Before(front, wire)
  BY <1>1, ConcatOrdered DEF OrderInv, Ordered
<1>3. all = front \o wire
  OBVIOUS
<1> HIDE DEF front, all
<1>4. all \in Seq(Messages) /\ Above(heard, all) /\ Rising(all)
  <2>1. Above(heard, wire) /\ Rising(wire)
    BY DEF OrderInv, Ordered
  <2>2. QED
    BY <1>1, <1>2, <1>3, <2>1, ConcatOrdered
<1>5. ASSUME NEW i \in 1 .. Len(all), all[i] \in Events
      PROVE  /\ heard < all[i]
             /\ \A j \in i + 1 .. Len(all) : all[j] \in Events => all[i] < all[j]
  BY <1>4, <1>5 DEF Above, Rising, Said
<1>6. QED
  BY <1>5 DEF InOrder, all

-----------------------------------------------------------------------------
(* The steps.                                                              *)

\* A connection is made or fails.
LEMMA DialledTyped ==
  ASSUME TypeOK, Dialled
  PROVE  /\ state' \in States /\ sock' \in Sessions \cup {None} /\ open' \subseteq Sessions
         /\ gw' \in {"welcomed", "closed"}
         /\ wire' \in Seq(Messages) /\ calls' \in 0 .. MaxSessions
<1>1. CASE /\ calls < MaxSessions /\ calls' = calls + 1 /\ sock' = calls'
           /\ open' = open \cup {sock'} /\ gw' = "welcomed" /\ wire' = <<Welcome>> /\ UNCHANGED state
  <2>1. calls' \in Sessions /\ calls' \in 0 .. MaxSessions
    BY <1>1, I3Assumption DEF TypeOK, Sessions
  <2>2. Welcome \in Messages
    BY I3Assumption DEF Welcome, Messages
  <2>3. <<Welcome>> \in Seq(Messages)
    BY <2>2
  <2>4. QED
    BY <1>1, <2>1, <2>3 DEF TypeOK
<1>2. CASE /\ sock' = None /\ gw' = "closed" /\ wire' = <<>> /\ state' = "DISCONNECTED"
           /\ UNCHANGED <<calls, open>>
  BY <1>2 DEF TypeOK, States
<1>3. QED
  BY <1>1, <1>2 DEF Dialled

\* A connection is closed.
LEMMA ClosedTyped ==
  ASSUME TypeOK, Closed
  PROVE  /\ state' \in States /\ sock' \in Sessions \cup {None} /\ open' \subseteq Sessions
         /\ gw' = "closed" /\ wire' \in Seq(Messages) /\ authed' \in BOOLEAN
<1>1. sock' = None /\ gw' = "closed" /\ wire' = <<>> /\ authed' = FALSE
      /\ state' \in {state, "DISCONNECTED"} /\ open' \subseteq open
  BY DEF Closed, StateAfterClose, OpenAfterClose
<1>2. state \in States /\ open \subseteq Sessions
  BY DEF TypeOK
<1>3. <<>> \in Seq(Messages) /\ "DISCONNECTED" \in States
  BY DEF States
<1>4. QED
  BY <1>1, <1>2, <1>3

\* Every variable keeps its type.
LEMMA TypeStep ==
  ASSUME TypeOK, [Next]_vars
  PROVE  TypeOK'
<1> USE DEF TypeOK, States, ThreadPlaces, MainPlaces, shared, gateway, buffer, thread, queues, loop
<1>1. CASE UNCHANGED vars
  BY <1>1 DEF vars
<1>2. CASE ThreadDial
  BY <1>2 DEF ThreadDial, Dial
<1>3. CASE ThreadConnect
  BY <1>3, DialledTyped DEF ThreadConnect
<1>4. CASE ThreadRest
  BY <1>4 DEF ThreadRest
<1>5. CASE ThreadExit
  BY <1>5, ClosedTyped DEF ThreadExit, Disconnect
<1>6. CASE ThreadNap
  BY <1>6 DEF ThreadNap, Awakened
<1>7. CASE ThreadSend
  <2>1. pc' = "recv" /\ UNCHANGED <<calls, sent, inbox, consumed, evts, wake, loop>>
    BY <1>7 DEF ThreadSend
  <2>2. cmds' \in 0 .. MaxQueue
    <3>1. cmds' = IF cmds > 0 THEN cmds - 1 ELSE 0
      BY <1>7 DEF ThreadSend
    <3>2. QED
      BY <3>1, I3Assumption
  <2>3. CASE UNCHANGED <<shared, gw, wire, received>>
    BY <2>1, <2>2, <2>3
  <2>4. CASE Disconnect /\ UNCHANGED synced
    BY <2>1, <2>2, <2>4, ClosedTyped DEF Disconnect
  <2>5. QED
    BY <1>7, <2>3, <2>4 DEF ThreadSend
<1>8. CASE ThreadReceive
  <2>1. /\ pc' = "parse" /\ inbox' \in Seq(Messages) /\ wire' \in Seq(Messages)
        /\ received' \in Nat /\ consumed' \in Nat
    BY <1>8 DEF ThreadReceive
  <2>2. UNCHANGED <<shared, calls, gw, sent, queues, loop>>
    BY <1>8 DEF ThreadReceive
  <2>3. QED
    BY <2>1, <2>2
<1>9. CASE ThreadHangup
  BY <1>9, ClosedTyped DEF ThreadHangup, Disconnect
<1>10. CASE ThreadQuiet
  BY <1>10 DEF ThreadQuiet
<1>11. CASE ThreadParsed
  BY <1>11 DEF ThreadParsed
<1>36. CASE ThreadRejects
  BY <1>36, ClosedTyped DEF ThreadRejects, Disconnect
<1>37. CASE ThreadOverruns
  <2>1. ASSUME NEW e \in (ToSet(evts) \cup {heard}) \ {None}, inbox' = <<e>>
        PROVE  inbox' \in Seq(Messages)
    <3>1. e \in Events
      BY I3Assumption DEF ToSet, Events, None
    <3>2. QED
      BY <2>1, <3>1, I3Assumption DEF Events, Messages
  <2>2. UNCHANGED <<shared, gateway, received, consumed, queues, players, heard, came>>
    BY <1>37 DEF ThreadOverruns
  <2>3. CASE \E e \in (ToSet(evts) \cup {heard}) \ {None} : inbox' = <<e>> /\ UNCHANGED <<pc, main>>
    BY <2>1, <2>2, <2>3
  <2>4. CASE pc' = "crashed" /\ main' = "crashed" /\ UNCHANGED inbox
    BY <2>2, <2>4
  <2>5. QED
    BY <1>37, <2>3, <2>4 DEF ThreadOverruns
<1>12. CASE ThreadWelcome
  BY <1>12, I3Assumption DEF ThreadWelcome, Parsing, Reachable
<1>13. CASE ThreadAuthenticated
  <2>1. cmds' \in 0 .. MaxQueue
    BY <1>13, I3Assumption DEF ThreadAuthenticated, Queued
  <2>2. Tail(inbox) \in Seq(Messages) /\ received' \in Nat /\ consumed' \in Nat
    BY <1>13 DEF ThreadAuthenticated, Parsing
  <2>3. QED
    BY <1>13, <2>1, <2>2 DEF ThreadAuthenticated, Parsing
<1>14. CASE ThreadEvent
  <2>1. PICK e \in Events :
          /\ Parsing(e) /\ UNCHANGED <<shared, gateway, cmds, wake, loop>>
          /\ \/ UNCHANGED <<pc, evts>>
             \/ Len(evts) < MaxQueue /\ evts' = AtTail(e) /\ pc' = "signal"
    BY <1>14, Zenon DEF ThreadEvent
  <2>2. /\ Tail(inbox) \in Seq(Messages) /\ inbox' = Tail(inbox)
        /\ received' \in Nat /\ consumed' \in Nat
    BY <2>1 DEF Parsing
  <2>3. evts' \in Seq(Events) /\ Len(evts') <= MaxQueue
    BY <2>1, I3Assumption DEF AtTail
  <2>4. QED
    BY <2>1, <2>2, <2>3
<1>15. CASE ThreadSignal
  BY <1>15 DEF ThreadSignal, WakeWritten
<1>16. CASE WakeUp
  BY <1>16 DEF WakeUp
<1>17. CASE Drain
  <2>1. main' \in MainPlaces /\ wake' \in BOOLEAN
    BY <1>17 DEF Drain
  <2>2. UNCHANGED <<shared, gateway, thread, cmds, evts, players, heard, came>>
    BY <1>17, Zenon DEF Drain
  <2>3. QED
    BY <2>1, <2>2
<1>18. CASE Deliver
  BY <1>18, I3Assumption DEF Deliver, Events
<1>19. CASE Delivered
  BY <1>19 DEF Delivered
<1>20. CASE Sync
  <2>1. main' \in {"publish", "run", "asleep"} /\ synced' \in BOOLEAN
    BY <1>20 DEF Sync, Onward
  <2>2. QED
    BY <1>20, <2>1 DEF Sync
<1>21. CASE Publish
  BY <1>21, I3Assumption DEF Publish, Queued, Onward
<1>22. CASE AdminDial
  BY <1>22 DEF AdminDial, Dial
<1>38. CASE AdminReset
  BY <1>38 DEF AdminReset
<1>23. CASE AdminConnect
  BY <1>23, DialledTyped DEF AdminConnect
<1>24. CASE Joined
  <2>1. UNCHANGED <<shared, gateway, thread, players, heard, came>>
    BY <1>24, Zenon DEF Joined
  <2>2. cmds' \in 0 .. MaxQueue /\ evts' \in Seq(Events) /\ Len(evts') <= MaxQueue
    BY <1>24, I3Assumption DEF Joined
  <2>3. main' \in MainPlaces /\ wake' \in BOOLEAN
    BY <1>24 DEF Joined
  <2>4. QED
    BY <2>1, <2>2, <2>3
<1>25. CASE Arrive
  BY <1>25 DEF Arrive
<1>26. CASE Sleep
  <2>1. main' \in MainPlaces /\ players' \in BOOLEAN
    BY <1>26 DEF Sleep
  <2>2. UNCHANGED <<shared, gateway, thread, queues, heard, came>>
    BY <1>26, Zenon DEF Sleep
  <2>3. QED
    BY <2>1, <2>2
<1>27. CASE Heartbeat
  BY <1>27 DEF Heartbeat
<1>28. CASE Tell
  BY <1>28, I3Assumption DEF Tell, Queued
<1>29. CASE AdminReconnect
  BY <1>29, ClosedTyped DEF AdminReconnect
<1>30. CASE Shutdown
  BY <1>30 DEF Shutdown, Settled
<1>31. CASE GatewayAccept
  BY <1>31, I3Assumption DEF GatewayAccept, Answered, Messages, Authenticated
<1>32. CASE GatewayRefuse
  BY <1>32, I3Assumption DEF GatewayRefuse, Answered, Messages, Authenticated
<1>33. CASE GatewayEvent
  BY <1>33, I3Assumption DEF GatewayEvent, Answered, Messages, Authenticated
<1>34. CASE GatewayClose
  <2>1. PICK n \in 0 .. Len(wire) : wire' = SubSeq(wire, 1, n)
    BY <1>34 DEF GatewayClose
  <2>2. wire' \in Seq(Messages)
    BY <2>1, Stretches
  <2>3. QED
    BY <1>34, <2>2 DEF GatewayClose
<1>35. QED
  BY <1>1, <1>2, <1>3, <1>4, <1>5, <1>6, <1>7, <1>8, <1>9, <1>10, <1>11, <1>12, <1>13, <1>14, <1>15, <1>16, <1>17, <1>18, <1>19, <1>20, <1>21, <1>22, <1>23, <1>24, <1>25, <1>26, <1>27, <1>28, <1>29, <1>30, <1>31, <1>32, <1>33, <1>34, <1>36, <1>37, <1>38 DEF Next, ThreadStep, LoopStep

\* What neither receives, sends nor delivers.
LEMMA QuietSteps ==
  ASSUME \/ UNCHANGED vars
         \/ ThreadDial \/ ThreadRest \/ ThreadNap \/ ThreadQuiet \/ ThreadSignal
         \/ WakeUp \/ Drain \/ Delivered \/ Sync \/ Publish \/ AdminReset \/ AdminDial
         \/ Arrive \/ Sleep \/ Heartbeat \/ Tell \/ Shutdown
  PROVE  UNCHANGED <<heard, evts, inbox, wire, sent>>
<1> USE DEF shared, gateway, buffer, thread, queues, loop
<1>1. CASE UNCHANGED vars \/ ThreadDial \/ ThreadRest \/ ThreadNap
  BY <1>1 DEF vars, ThreadDial, ThreadRest, ThreadNap
<1>2. CASE ThreadQuiet \/ ThreadSignal
  BY <1>2 DEF ThreadQuiet, ThreadSignal
<1>3. CASE WakeUp \/ Drain \/ Delivered \/ Sync \/ Publish \/ AdminReset \/ AdminDial
  BY <1>3 DEF WakeUp, Drain, Delivered, Sync, Publish, AdminReset, AdminDial
<1>4. CASE Arrive \/ Sleep \/ Heartbeat \/ Tell \/ Shutdown
  BY <1>4 DEF Arrive, Sleep, Heartbeat, Tell, Shutdown
<1>5. QED
  BY <1>1, <1>2, <1>3, <1>4

\* What was heard, what is queued, received and sent stays in order, while the thread
\* reads no further than the buffer has.
LEMMA OrderStep ==
  ASSUME TypeOK, OrderInv, consumed <= received, [Next]_vars
  PROVE  OrderInv'
<1> USE DEF shared, gateway, buffer, thread, queues, loop
<1>1. /\ evts \in Seq(Messages) /\ inbox \in Seq(Messages) /\ wire \in Seq(Messages)
      /\ evts \in Seq(Events) /\ sent \in Nat /\ sent \in 0 .. MaxEvents
  <2>1. Events \subseteq Messages
    BY I3Assumption DEF Events, Messages
  <2>2. QED
    BY <2>1, I3Assumption DEF TypeOK
<1>2. /\ evts' \in Seq(Messages) /\ inbox' \in Seq(Messages) /\ wire' \in Seq(Messages)
  <2>1. Events \subseteq Messages
    BY I3Assumption DEF Events, Messages
  <2>2. TypeOK'
    BY TypeStep
  <2>3. QED
    BY <2>1, <2>2 DEF TypeOK
<1>3. CASE UNCHANGED <<heard, evts, inbox, wire, sent>>
  BY <1>3 DEF OrderInv
<1>4. CASE /\ UNCHANGED <<heard, evts, sent>>
           /\ Stretch(inbox', inbox) /\ Stretch(wire', wire)
  <2>1. Stretch(evts', evts)
    BY <1>1, <1>4, Stretches
  <2>2. Ordered(heard, evts', inbox', wire', sent)
    BY <1>1, <1>2, <1>4, <2>1, StretchesOrdered DEF OrderInv
  <2>3. QED
    BY <1>4, <2>2 DEF OrderInv
<1>5. CASE UNCHANGED <<heard, evts, inbox, sent>> /\ wire' = <<>>
  BY <1>1, <1>4, <1>5, Stretches
<1>6. CASE UNCHANGED <<heard, evts, inbox, sent>> /\ Dialled
  <2>1. CASE wire' = <<Welcome>>
    BY <1>6, <2>1, WelcomeOrdered DEF OrderInv
  <2>2. QED
    BY <1>5, <1>6, <2>1 DEF Dialled
<1>7. CASE ThreadConnect
  BY <1>6, <1>7 DEF ThreadConnect
<1>8. CASE ThreadExit
  BY <1>5, <1>8 DEF ThreadExit, Disconnect, Closed
<1>9. CASE ThreadSend
  BY <1>3, <1>5, <1>9 DEF ThreadSend, Disconnect, Closed
<1>10. CASE ThreadReceive
  <2>1. UNCHANGED <<heard, evts, sent>> /\ inbox' = wire /\ wire' = <<>>
    BY <1>10 DEF ThreadReceive
  <2>2. QED
    BY <2>1, ReceivedOrdered DEF OrderInv
<1>11. CASE ThreadHangup
  BY <1>5, <1>11 DEF ThreadHangup, Disconnect, Closed
<1>23. CASE ThreadParsed
  BY <1>1, <1>4, <1>23, Stretches DEF ThreadParsed
<1>24. CASE ThreadRejects
  BY <1>5, <1>24 DEF ThreadRejects, Disconnect, Closed
<1>25. CASE ThreadOverruns
  BY <1>25 DEF ThreadOverruns, TypeOK
<1>12. ASSUME NEW m, Parsing(m), UNCHANGED <<heard, evts, wire, sent>> PROVE OrderInv'
  <2>1. inbox # <<>> /\ inbox' = Tail(inbox)
    BY <1>12 DEF Parsing
  <2>2. Stretch(inbox', inbox) /\ Stretch(wire', wire)
    BY <1>1, <1>12, <2>1, Stretches
  <2>3. QED
    BY <1>4, <1>12, <2>2
<1>13. CASE ThreadWelcome \/ ThreadAuthenticated
  BY <1>12, <1>13 DEF ThreadWelcome, ThreadAuthenticated
<1>14. CASE ThreadEvent
  <2>1. PICK e \in Events :
          /\ Parsing(e) /\ UNCHANGED <<shared, gateway, cmds, wake, loop>>
          /\ UNCHANGED evts \/ evts' = AtTail(e)
    BY <1>14, Zenon DEF ThreadEvent
  <2>2. CASE UNCHANGED evts
    BY <1>12, <2>1, <2>2
  <2>3. CASE evts' = AtTail(e)
    <3>1. inbox # <<>> /\ inbox' = Tail(inbox) /\ evts' = Append(evts, Head(inbox))
      BY <2>1, <2>3 DEF Parsing, AtTail
    <3>2. UNCHANGED <<heard, wire, sent>>
      BY <2>1
    <3>3. Ordered(heard, Append(evts, Head(inbox)), Tail(inbox), wire, sent)
      BY <1>1, <3>1, EventOrdered DEF OrderInv
    <3>4. QED
      BY <3>1, <3>2, <3>3 DEF OrderInv
  <2>4. QED
    BY <2>1, <2>2, <2>3
<1>15. CASE Deliver
  <2>1. evts # <<>> /\ evts' = Tail(evts) /\ heard' = Head(evts) /\ UNCHANGED <<inbox, wire, sent>>
    BY <1>15 DEF Deliver
  <2>2. Ordered(Head(evts), Tail(evts), inbox, wire, sent)
    BY <1>1, <2>1, HeardOrdered DEF OrderInv
  <2>3. QED
    BY <2>1, <2>2 DEF OrderInv
<1>16. CASE AdminConnect
  BY <1>6, <1>16 DEF AdminConnect
<1>17. CASE AdminReconnect
  BY <1>5, <1>17 DEF AdminReconnect, Closed
<1>18. CASE Joined
  <2>1. UNCHANGED <<heard, inbox, wire, sent>> /\ evts' = <<>>
    BY <1>18 DEF Joined
  <2>2. Stretch(evts', evts) /\ Stretch(inbox', inbox) /\ Stretch(wire', wire)
    BY <1>1, <2>1, Stretches
  <2>3. Ordered(heard, evts', inbox', wire', sent)
    BY <1>1, <1>2, <2>2, StretchesOrdered DEF OrderInv
  <2>4. QED
    BY <2>1, <2>3 DEF OrderInv
<1>19. CASE GatewayAccept
  <2>1. UNCHANGED <<heard, evts, inbox, sent>> /\ wire' = Append(wire, Authenticated)
    BY <1>19 DEF GatewayAccept, Answered
  <2>2. Authenticated \in Messages /\ Authenticated \notin Events
    BY I3Assumption DEF Authenticated, Messages, Events
  <2>3. Ordered(heard, evts, inbox, Append(wire, Authenticated), sent)
    BY <1>1, <2>2, AnswerOrdered DEF OrderInv
  <2>4. QED
    BY <2>1, <2>3 DEF OrderInv
<1>20. CASE GatewayRefuse \/ GatewayEvent
  <2>1. /\ sent < MaxEvents /\ sent' = sent + 1 /\ wire' = Append(wire, sent')
        /\ UNCHANGED <<heard, evts, inbox>>
    BY <1>20 DEF GatewayRefuse, GatewayEvent, Answered
  <2>2. sent + 1 \in Messages /\ sent + 1 \in Nat
    BY <1>1, <2>1, I3Assumption DEF Messages
  <2>3. Ordered(heard, evts, inbox, Append(wire, sent + 1), sent + 1)
    BY <1>1, <2>2, AnswerOrdered DEF OrderInv
  <2>4. QED
    BY <2>1, <2>3 DEF OrderInv
<1>21. CASE GatewayClose
  <2>1. PICK n \in 0 .. Len(wire) : wire' = SubSeq(wire, 1, n)
    BY <1>21 DEF GatewayClose
  <2>2. UNCHANGED <<heard, evts, inbox, sent>>
    BY <1>21 DEF GatewayClose
  <2>3. QED
    BY <1>1, <1>4, <2>1, <2>2, Stretches
<1>22. QED
  BY QuietSteps, <1>3, <1>7, <1>8, <1>9, <1>10, <1>11, <1>13, <1>14, <1>15, <1>16, <1>17,
     <1>18, <1>19, <1>20, <1>21, <1>23, <1>24, <1>25 DEF Next, ThreadStep, LoopStep

-----------------------------------------------------------------------------
(* The session.                                                            *)

\* Where a message is not, in what is empty, a rest, a beginning or one longer.
LEMMA WhereNot ==
  ASSUME NEW m
  PROVE  /\ No(m, <<>>) /\ OnlyFirst(m, <<>>)
         /\ \A x : OnlyFirst(m, <<x>>) /\ (x # m => No(m, <<x>>))
         /\ \A s \in Seq(Messages) :
              /\ No(m, s) => OnlyFirst(m, s)
              /\ s # <<>> /\ OnlyFirst(m, s) => No(m, Tail(s))
              /\ s # <<>> /\ No(m, s) => Head(s) # m /\ No(m, Tail(s))
              /\ \A n \in 0 .. Len(s) : /\ No(m, s) => No(m, SubSeq(s, 1, n))
                                        /\ OnlyFirst(m, s) => OnlyFirst(m, SubSeq(s, 1, n))
              /\ \A x \in Messages : x # m => /\ No(m, s) => No(m, Append(s, x))
                                              /\ OnlyFirst(m, s) => OnlyFirst(m, Append(s, x))
<1>1. No(m, <<>>) /\ OnlyFirst(m, <<>>)
  BY DEF No, OnlyFirst
<1>2. \A x : OnlyFirst(m, <<x>>) /\ (x # m => No(m, <<x>>))
  BY DEF No, OnlyFirst
<1>3. ASSUME NEW s \in Seq(Messages) PROVE No(m, s) => OnlyFirst(m, s)
  BY DEF No, OnlyFirst
<1>4. ASSUME NEW s \in Seq(Messages), s # <<>>
      PROVE  /\ OnlyFirst(m, s) => No(m, Tail(s))
             /\ No(m, s) => Head(s) # m /\ No(m, Tail(s))
  <2>1. /\ Head(s) = s[1] /\ 1 \in 1 .. Len(s)
        /\ \A i \in 1 .. Len(Tail(s)) : Tail(s)[i] = s[i + 1] /\ i + 1 \in 2 .. Len(s) /\ i + 1 \in 1 .. Len(s)
    BY <1>4
  <2>2. QED
    BY <2>1 DEF No, OnlyFirst
<1>5. ASSUME NEW s \in Seq(Messages), NEW n \in 0 .. Len(s)
      PROVE  /\ No(m, s) => No(m, SubSeq(s, 1, n))
             /\ OnlyFirst(m, s) => OnlyFirst(m, SubSeq(s, 1, n))
  <2>1. /\ Len(SubSeq(s, 1, n)) = n
        /\ \A i \in 1 .. n : SubSeq(s, 1, n)[i] = s[i] /\ i \in 1 .. Len(s)
        /\ \A i \in 2 .. n : SubSeq(s, 1, n)[i] = s[i] /\ i \in 2 .. Len(s)
    OBVIOUS
  <2>2. QED
    BY <2>1 DEF No, OnlyFirst
<1>6. ASSUME NEW s \in Seq(Messages), NEW x \in Messages, x # m
      PROVE  /\ No(m, s) => No(m, Append(s, x))
             /\ OnlyFirst(m, s) => OnlyFirst(m, Append(s, x))
  BY <1>6 DEF No, OnlyFirst
<1>7. QED
  BY <1>1, <1>2, <1>3, <1>4, <1>5, <1>6

\* A reconnection by hand is not forgotten, and ends what the invariant says.
LEMMA CameGrows ==
  ASSUME [Next]_vars
  PROVE  came \subseteq came' /\ (AdminReconnect => "admin" \in came')
<1> USE DEF shared, gateway, buffer, thread, queues, loop
<1>1. CASE UNCHANGED came
  BY <1>1 DEF AdminReconnect
<1>2. CASE UNCHANGED vars
  BY <1>1, <1>2 DEF vars
<1>3. CASE ThreadStep
  <2>1. CASE ThreadDial \/ ThreadConnect \/ ThreadRest \/ ThreadExit \/ ThreadNap
    BY <1>1, <2>1 DEF ThreadDial, ThreadConnect, ThreadRest, ThreadExit, ThreadNap
  <2>2. CASE ThreadSend \/ ThreadReceive \/ ThreadHangup \/ ThreadQuiet
    BY <1>1, <2>2 DEF ThreadSend, ThreadReceive, ThreadHangup, ThreadQuiet
  <2>5. CASE ThreadRejects \/ ThreadOverruns
    BY <1>1, <2>5 DEF ThreadRejects, ThreadOverruns
  <2>3. CASE ThreadParsed \/ ThreadWelcome \/ ThreadAuthenticated \/ ThreadEvent \/ ThreadSignal
    BY <1>1, <2>3 DEF ThreadParsed, ThreadWelcome, ThreadAuthenticated, ThreadEvent, ThreadSignal
  <2>4. QED
    BY <1>3, <2>1, <2>2, <2>3, <2>5 DEF ThreadStep
<1>4. CASE LoopStep /\ ~AdminReset
  BY <1>1, <1>4 DEF LoopStep, WakeUp, Drain, Deliver, Delivered, Sync, Publish,
                    AdminDial, AdminConnect, Joined
<1>10. CASE AdminReset
  BY <1>10 DEF AdminReset, AdminReconnect
<1>5. CASE Arrive \/ Sleep \/ Heartbeat \/ Tell
  BY <1>1, <1>5 DEF Arrive, Sleep, Heartbeat, Tell
<1>6. CASE GatewayAccept \/ GatewayRefuse \/ GatewayEvent \/ GatewayClose
  BY <1>1, <1>6 DEF GatewayAccept, GatewayRefuse, GatewayEvent, GatewayClose, Answered
<1>7. CASE AdminReconnect
  BY <1>7 DEF AdminReconnect
<1>8. CASE Shutdown
  <2>1. came \subseteq came' /\ main \in {"run", "asleep"} /\ main' = "joining"
    BY <1>8 DEF Shutdown
  <2>2. QED
    BY <2>1 DEF AdminReconnect
<1>9. QED
  BY <1>2, <1>3, <1>4, <1>5, <1>6, <1>7, <1>8, <1>10 DEF Next

\* The thread keeps to what the buffer has.
LEMMA BufferStep ==
  ASSUME TypeOK, BufferInv, [Next]_vars
  PROVE  BufferInv'
<1> USE DEF shared, gateway, buffer, thread, queues, loop
<1>1. received \in Nat /\ consumed \in Nat
  BY DEF TypeOK
<1>2. CASE /\ UNCHANGED <<received, consumed, came>> /\ main' \in {main} \cup (MainPlaces \ {"reset"})
           /\ pc' = pc \/ pc' \in {"parse", "signal", "crashed"} \/ pc \notin {"parse", "signal", "crashed"}
  BY <1>2 DEF BufferInv
<1>3. CASE received' \in Nat /\ consumed' = 0 /\ UNCHANGED <<came, main>>
  BY <1>3 DEF BufferInv
<1>4. CASE UNCHANGED vars \/ ThreadDial \/ ThreadConnect \/ ThreadRest \/ ThreadNap
  BY <1>2, <1>4 DEF vars, ThreadDial, ThreadConnect, ThreadRest, ThreadNap
<1>5. CASE ThreadQuiet \/ ThreadSignal
  BY <1>2, <1>5 DEF ThreadQuiet, ThreadSignal
<1>6. CASE ThreadOverruns
  BY <1>2, <1>6 DEF ThreadOverruns, MainPlaces
<1>7. CASE WakeUp \/ Drain \/ Deliver \/ Delivered
  BY <1>2, <1>7 DEF WakeUp, Drain, Deliver, Delivered, MainPlaces
<1>8. CASE Sync \/ Publish \/ AdminDial \/ AdminConnect \/ Joined
  BY <1>2, <1>8 DEF Sync, Publish, Onward, AdminDial, AdminConnect, Joined, MainPlaces
<1>9. CASE Arrive \/ Sleep \/ Heartbeat \/ Tell
  BY <1>2, <1>9 DEF Arrive, Sleep, Heartbeat, Tell, MainPlaces
<1>10. CASE GatewayAccept \/ GatewayRefuse \/ GatewayEvent \/ GatewayClose
  BY <1>2, <1>10 DEF GatewayAccept, GatewayRefuse, GatewayEvent, GatewayClose, Answered
<1>11. CASE ThreadReceive
  <2>1. received' \in Nat
    BY <1>11, TypeStep DEF TypeOK
  <2>2. QED
    BY <1>3, <1>11, <2>1 DEF ThreadReceive
<1>12. CASE ThreadParsed \/ ThreadRejects
  BY <1>3, <1>12 DEF ThreadParsed, ThreadRejects, Disconnect
<1>13. CASE ThreadExit \/ ThreadHangup \/ ThreadSend
  <2>1. consumed = 0
    BY <1>13 DEF ThreadExit, ThreadHangup, ThreadSend, BufferInv
  <2>2. received' \in {received, 0} /\ UNCHANGED <<consumed, came, main>>
    BY <1>13 DEF ThreadExit, ThreadHangup, ThreadSend, Disconnect
  <2>3. QED
    BY <1>1, <1>3, <2>1, <2>2
<1>14. CASE ThreadWelcome \/ ThreadAuthenticated \/ ThreadEvent
  <2>1. /\ received # consumed /\ received' = received /\ consumed' = consumed + 1
        /\ UNCHANGED <<came, main>> /\ pc' \in {"parse", "signal"}
    BY <1>14 DEF ThreadWelcome, ThreadAuthenticated, ThreadEvent, Parsing
  <2>2. QED
    BY <1>1, <2>1 DEF BufferInv
<1>15. CASE AdminReconnect
  BY <1>15 DEF AdminReconnect, BufferInv
<1>16. CASE AdminReset
  BY <1>1, <1>16 DEF AdminReset, BufferInv
<1>17. CASE Shutdown
  BY <1>17 DEF Shutdown, BufferInv
<1>18. QED
  BY <1>4, <1>5, <1>6, <1>7, <1>8, <1>9, <1>10, <1>11, <1>12, <1>13, <1>14, <1>15, <1>16, <1>17
     DEF Next, ThreadStep, LoopStep

\* Closing the connection leaves nothing of the session.
LEMMA ClosedSound ==
  ASSUME SessionInv, Closed, inbox = <<>>, UNCHANGED <<inbox, main>>,
         pc' \in {"top", "recv", "done"}
  PROVE  SessionInv'
<1>1. /\ open' = open \ {sock} /\ gw' = "closed" /\ wire' = <<>> /\ sock' = None
      /\ authed' = FALSE /\ state' \in {"SHUTDOWN", "DISCONNECTED"} /\ inbox' = <<>>
  BY DEF Closed, OpenAfterClose, StateAfterClose
<1>2. open = {sock} \ {None} /\ main' \notin {"reset", "redial", "redialing"}
  BY DEF SessionInv, ClosedInv, PlacesInv
<1>3. PlacesInv' /\ ClosedInv'
  BY <1>1, <1>2 DEF PlacesInv, ClosedInv
<1>4. HandshakeInv'
  BY <1>1, WhereNot DEF HandshakeInv
<1>5. QED
  BY <1>3, <1>4 DEF SessionInv

\* Every step but a reconnection by hand leaves the session sound.
LEMMA SessionStep ==
  ASSUME TypeOK, SessionInv, consumed <= received, ~AdminReconnect, [Next]_vars
  PROVE  SessionInv'
<1> USE DEF shared, gateway, buffer, thread, queues, loop
<1>1. /\ inbox \in Seq(Messages) /\ wire \in Seq(Messages) /\ sent \in 0 .. MaxEvents
      /\ calls \in Nat /\ Welcome # Authenticated
      /\ state \in States
  BY I3Assumption DEF TypeOK, Welcome, Authenticated
<1>2. PlacesInv /\ ClosedInv /\ HandshakeInv
  BY DEF SessionInv
<1>3. CASE UNCHANGED <<shared, gw, wire, inbox>> /\ PlacesInv'
  BY <1>2, <1>3 DEF SessionInv, ClosedInv, HandshakeInv
<1>4. CASE UNCHANGED vars
  BY <1>2, <1>3, <1>4 DEF vars, PlacesInv
<1>5. CASE ThreadDial
  <2>1. pc' = "connect" /\ state' = "CONNECTING" /\ sock = None /\ inbox = <<>>
    BY <1>2, <1>5 DEF ThreadDial, Dial, PlacesInv
  <2>2. UNCHANGED <<authed, sock, open, gw, wire, inbox, main>>
    BY <1>5 DEF ThreadDial
  <2>3. PlacesInv' /\ ClosedInv' /\ HandshakeInv'
    BY <1>2, <2>1, <2>2 DEF PlacesInv, ClosedInv, HandshakeInv
  <2>4. QED
    BY <2>3 DEF SessionInv
<1>6. CASE ThreadConnect
  <2>1. /\ sock = None /\ inbox = <<>> /\ inbox' = <<>> /\ open = {} /\ authed = FALSE
        /\ authed' = FALSE /\ main' = main /\ pc' = "top" /\ state \in {"CONNECTING", "SHUTDOWN"}
    BY <1>2, <1>6 DEF ThreadConnect, PlacesInv, ClosedInv
  <2>2. CASE /\ calls' = calls + 1 /\ sock' = calls' /\ open' = open \cup {sock'}
             /\ gw' = "welcomed" /\ wire' = <<Welcome>> /\ UNCHANGED state
    <3>1. sock' # None /\ open' = {sock'} \ {None}
      BY <1>1, <2>1, <2>2 DEF None
    <3>2. PlacesInv' /\ ClosedInv'
      BY <1>2, <2>1, <2>2, <3>1 DEF PlacesInv, ClosedInv
    <3>3. HandshakeInv'
      BY <1>1, <2>1, <2>2, WhereNot DEF HandshakeInv
    <3>4. QED
      BY <3>2, <3>3 DEF SessionInv
  <2>3. CASE sock' = None /\ gw' = "closed" /\ wire' = <<>> /\ state' = "DISCONNECTED" /\ UNCHANGED open
    <3>1. PlacesInv' /\ ClosedInv'
      BY <1>2, <2>1, <2>3 DEF PlacesInv, ClosedInv
    <3>2. HandshakeInv'
      BY <2>1, <2>3, WhereNot DEF HandshakeInv
    <3>3. QED
      BY <3>1, <3>2 DEF SessionInv
  <2>4. QED
    BY <1>6, <2>2, <2>3 DEF ThreadConnect, Dialled
<1>7. CASE ThreadRest \/ ThreadNap
  <2>1. PlacesInv'
    BY <1>2, <1>7 DEF ThreadRest, ThreadNap, Awakened, PlacesInv, ClosedInv
  <2>2. QED
    BY <1>3, <1>7, <2>1 DEF ThreadRest, ThreadNap
<1>8. CASE ThreadExit \/ ThreadHangup
  BY <1>2, <1>8, ClosedSound DEF ThreadExit, ThreadHangup, Disconnect, PlacesInv
<1>9. CASE ThreadSend
  <2>1. pc = "top" /\ pc' = "recv" /\ UNCHANGED <<inbox, main>> /\ inbox = <<>>
    BY <1>2, <1>9 DEF ThreadSend, PlacesInv
  <2>2. CASE Disconnect
    BY <2>1, <2>2, ClosedSound DEF Disconnect
  <2>3. CASE UNCHANGED <<shared, gw, wire>>
    BY <1>2, <1>3, <2>1, <2>3 DEF PlacesInv
  <2>4. QED
    BY <1>9, <2>2, <2>3 DEF ThreadSend
<1>10. CASE ThreadReceive
  <2>1. /\ inbox = <<>> /\ inbox' = wire /\ wire' = <<>> /\ sock # None /\ pc' = "parse"
        /\ UNCHANGED <<shared, gw, main>>
    BY <1>2, <1>10 DEF ThreadReceive, PlacesInv
  <2>2. PlacesInv' /\ ClosedInv'
    BY <1>2, <2>1 DEF PlacesInv, ClosedInv
  <2>3. No(Welcome, <<>>) /\ OnlyFirst(Welcome, <<>>) /\ No(Authenticated, <<>>)
    BY WhereNot
  <2>4. HandshakeInv'
    BY <1>2, <2>1, <2>3 DEF HandshakeInv
  <2>5. QED
    BY <2>2, <2>4 DEF SessionInv
<1>11. CASE ThreadQuiet
  <2>1. PlacesInv'
    BY <1>2, <1>11 DEF ThreadQuiet, PlacesInv
  <2>2. QED
    BY <1>3, <1>11, <2>1 DEF ThreadQuiet
<1>26. CASE ThreadParsed
  <2>1. inbox' = <<>> /\ pc = "parse" /\ pc' = "top" /\ UNCHANGED <<shared, gateway, main>>
    BY <1>26 DEF ThreadParsed
  <2>2. PlacesInv' /\ ClosedInv'
    BY <1>2, <2>1 DEF PlacesInv, ClosedInv
  <2>3. No(Welcome, <<>>) /\ OnlyFirst(Welcome, <<>>) /\ No(Authenticated, <<>>)
    BY WhereNot
  <2>4. HandshakeInv'
    BY <1>2, <2>1, <2>3 DEF HandshakeInv
  <2>5. QED
    BY <2>2, <2>4 DEF SessionInv
<1>27. CASE ThreadRejects
  BY <1>27, ClosedSound DEF ThreadRejects, Disconnect
<1>28. CASE ThreadOverruns
  BY <1>28 DEF ThreadOverruns, TypeOK
<1>12. ASSUME NEW m, Parsing(m)
       PROVE  /\ inbox # <<>> /\ inbox' = Tail(inbox) /\ Head(inbox) = m /\ sock # None
              /\ No(Welcome, inbox') /\ OnlyFirst(Welcome, inbox') /\ OnlyFirst(Welcome, wire)
              /\ No(Welcome, wire) /\ (No(Authenticated, inbox) => No(Authenticated, inbox'))
  <2>1. inbox # <<>> /\ inbox' = Tail(inbox) /\ Head(inbox) = m
    BY <1>12 DEF Parsing
  <2>2. Tail(inbox) \in Seq(Messages)
    BY <1>1, <2>1
  <2>3. No(Welcome, Tail(inbox)) /\ (No(Authenticated, inbox) => No(Authenticated, Tail(inbox)))
    BY <1>1, <1>2, <2>1, WhereNot DEF HandshakeInv
  <2>4. OnlyFirst(Welcome, Tail(inbox))
    BY <2>2, <2>3, WhereNot
  <2>5. QED
    BY <1>2, <2>1, <2>3, <2>4 DEF HandshakeInv, ClosedInv
<1>13. CASE ThreadWelcome
  <2>1. Parsing(Welcome) /\ UNCHANGED <<pc, authed, sock, open, wire, main>> /\ pc = "parse"
    BY <1>13 DEF ThreadWelcome, Parsing
  <2>2. /\ gw \notin {"asked", "accepted", "refused"}
        /\ ~authed /\ No(Authenticated, inbox) /\ No(Authenticated, wire)
    <3>1. ~No(Welcome, inbox)
      BY <1>1, <1>12, <2>1, WhereNot
    <3>2. QED
      BY <1>2, <3>1 DEF HandshakeInv
  <2>3. CASE gw' = "asked" /\ state' = "AUTHENTICATING"
    <3>1. PlacesInv' /\ ClosedInv'
      BY <1>2, <1>12, <2>1, <2>2, <2>3 DEF PlacesInv, ClosedInv
    <3>2. HandshakeInv'
      BY <1>12, <2>1, <2>2, <2>3 DEF HandshakeInv
    <3>3. QED
      BY <3>1, <3>2 DEF SessionInv
  <2>4. CASE UNCHANGED <<gw, state>>
    <3>1. PlacesInv' /\ ClosedInv'
      BY <1>2, <1>12, <2>1, <2>2, <2>4 DEF PlacesInv, ClosedInv
    <3>2. HandshakeInv'
      BY <1>12, <2>1, <2>2, <2>4 DEF HandshakeInv
    <3>3. QED
      BY <3>1, <3>2 DEF SessionInv
  <2>5. QED
    BY <1>13, <2>3, <2>4 DEF ThreadWelcome
<1>14. CASE ThreadAuthenticated
  <2>1. /\ Parsing(Authenticated) /\ UNCHANGED <<pc, sock, open, gw, wire, main>> /\ pc = "parse"
        /\ state' = "CONNECTED" /\ authed' = TRUE
    BY <1>14 DEF ThreadAuthenticated, Parsing
  <2>2. ~No(Authenticated, inbox)
    BY <1>1, <1>12, <2>1, WhereNot
  <2>3. gw \notin {"welcomed", "asked", "refused"}
    BY <1>2, <2>2 DEF HandshakeInv
  <2>4. gw \in {"accepted", "closed"}
    BY <2>3 DEF TypeOK
  <2>5. PlacesInv' /\ ClosedInv'
    BY <1>2, <1>12, <2>1, <2>4 DEF PlacesInv, ClosedInv
  <2>6. HandshakeInv'
    BY <1>12, <2>1, <2>4 DEF HandshakeInv
  <2>7. QED
    BY <2>5, <2>6 DEF SessionInv
<1>15. CASE ThreadEvent
  <2>1. PICK e \in Events :
          /\ Parsing(e) /\ UNCHANGED <<shared, gateway, cmds, wake, loop>> /\ pc' \in {pc, "signal"}
    BY <1>15, Zenon DEF ThreadEvent
  <2>2. pc = "parse"
    BY <2>1 DEF Parsing
  <2>3. PlacesInv' /\ ClosedInv'
    BY <1>2, <1>12, <2>1, <2>2 DEF PlacesInv, ClosedInv
  <2>4. HandshakeInv'
    BY <1>2, <1>12, <2>1 DEF HandshakeInv
  <2>5. QED
    BY <2>3, <2>4 DEF SessionInv
<1>16. CASE ThreadSignal
  BY <1>2, <1>3, <1>16 DEF ThreadSignal, PlacesInv
<1>17. CASE WakeUp \/ Drain \/ Deliver \/ Delivered \/ Publish \/ Joined
  BY <1>2, <1>3, <1>17 DEF WakeUp, Drain, Deliver, Delivered, Publish, Onward, Joined, PlacesInv
<1>18. CASE Sync
  <2>1. UNCHANGED <<state, authed, sock, open, gw, wire, inbox, pc>>
    BY <1>18 DEF Sync
  <2>2. main' \in {"publish", "run", "asleep"}
    BY <1>18 DEF Sync, Onward
  <2>3. PlacesInv' /\ ClosedInv' /\ HandshakeInv'
    BY <1>2, <2>1, <2>2 DEF PlacesInv, ClosedInv, HandshakeInv
  <2>4. QED
    BY <2>3 DEF SessionInv
<1>19. CASE AdminReset \/ AdminDial \/ AdminConnect
  BY <1>2, <1>19 DEF AdminReset, AdminDial, AdminConnect, PlacesInv
<1>20. CASE Arrive \/ Sleep \/ Heartbeat \/ Tell
  BY <1>2, <1>3, <1>20 DEF Arrive, Sleep, Heartbeat, Tell, PlacesInv
<1>21. CASE Shutdown
  <2>1. /\ state' = "SHUTDOWN" /\ main' = "joining"
        /\ UNCHANGED <<authed, sock, open, gw, wire, inbox, pc>>
    BY <1>21 DEF Shutdown
  <2>2. PlacesInv' /\ ClosedInv' /\ HandshakeInv'
    BY <1>2, <2>1 DEF PlacesInv, ClosedInv, HandshakeInv
  <2>3. QED
    BY <2>2 DEF SessionInv
<1>22. CASE GatewayAccept
  <2>1. /\ gw = "asked" /\ gw' = "accepted" /\ wire' = Append(wire, Authenticated)
        /\ UNCHANGED <<shared, inbox, pc, main>>
    BY <1>22 DEF GatewayAccept, Answered
  <2>2. No(Welcome, Append(wire, Authenticated)) /\ OnlyFirst(Welcome, Append(wire, Authenticated))
    <3>1. Authenticated \in Messages /\ No(Welcome, wire) /\ OnlyFirst(Welcome, wire)
      BY <1>2, <2>1, I3Assumption DEF HandshakeInv, Authenticated, Messages
    <3>2. QED
      BY <1>1, <3>1, WhereNot
  <2>3. PlacesInv' /\ ClosedInv'
    BY <1>2, <2>1 DEF PlacesInv, ClosedInv
  <2>4. HandshakeInv'
    BY <1>2, <2>1, <2>2 DEF HandshakeInv
  <2>5. QED
    BY <2>3, <2>4 DEF SessionInv
<1>23. CASE GatewayRefuse \/ GatewayEvent
  <2>1. /\ sent < MaxEvents /\ wire' = Append(wire, sent + 1)
        /\ \/ gw = "asked" /\ gw' = "refused"
           \/ gw = "accepted" /\ gw' = "accepted"
        /\ UNCHANGED <<shared, inbox, pc, main>>
    BY <1>23 DEF GatewayRefuse, GatewayEvent, Answered
  <2>2. sent + 1 \in Messages /\ sent + 1 # Welcome /\ sent + 1 # Authenticated
    BY <1>1, <2>1, I3Assumption DEF Messages, Welcome, Authenticated
  <2>3. /\ No(Welcome, wire) => No(Welcome, Append(wire, sent + 1))
        /\ OnlyFirst(Welcome, wire) => OnlyFirst(Welcome, Append(wire, sent + 1))
        /\ No(Authenticated, wire) => No(Authenticated, Append(wire, sent + 1))
    BY <1>1, <2>2, WhereNot
  <2>4. PlacesInv' /\ ClosedInv'
    BY <1>2, <2>1 DEF PlacesInv, ClosedInv
  <2>5. HandshakeInv'
    BY <1>2, <2>1, <2>3 DEF HandshakeInv
  <2>6. QED
    BY <2>4, <2>5 DEF SessionInv
<1>24. CASE GatewayClose
  <2>1. PICK n \in 0 .. Len(wire) : wire' = SubSeq(wire, 1, n)
    BY <1>24 DEF GatewayClose
  <2>2. gw # "closed" /\ gw' = "closed" /\ UNCHANGED <<shared, inbox, pc, main>>
    BY <1>24 DEF GatewayClose
  <2>3. /\ No(Welcome, wire) => No(Welcome, wire')
        /\ OnlyFirst(Welcome, wire) => OnlyFirst(Welcome, wire')
        /\ No(Authenticated, wire) => No(Authenticated, wire')
    BY <1>1, <2>1, WhereNot
  <2>4. PlacesInv' /\ ClosedInv'
    BY <1>2, <2>2 DEF PlacesInv, ClosedInv
  <2>5. HandshakeInv'
    BY <1>2, <2>2, <2>3 DEF HandshakeInv
  <2>6. QED
    BY <2>4, <2>5 DEF SessionInv
<1>25. QED
  BY <1>4, <1>5, <1>6, <1>7, <1>8, <1>9, <1>10, <1>11, <1>13, <1>14, <1>15, <1>16, <1>17, <1>18,
     <1>19, <1>20, <1>21, <1>22, <1>23, <1>24, <1>26, <1>27, <1>28 DEF Next, ThreadStep, LoopStep

-----------------------------------------------------------------------------
(* The theorems.                                                           *)

\* The invariant holds when the client starts.
LEMMA Initially == Init => IInv
<1> SUFFICES ASSUME Init PROVE IInv
  OBVIOUS
<1>1. TypeOK
  <2>1. /\ state \in States /\ sock \in Sessions \cup {None} /\ open \subseteq Sessions
        /\ pc \in ThreadPlaces /\ main \in MainPlaces
    BY DEF Init, States, ThreadPlaces, MainPlaces
  <2>2. calls \in 0 .. MaxSessions /\ sent \in 0 .. MaxEvents /\ heard \in 0 .. MaxEvents
    BY I3Assumption DEF Init
  <2>3. /\ wire \in Seq(Messages) /\ inbox \in Seq(Messages)
        /\ evts \in Seq(Events) /\ Len(evts) = 0
        /\ cmds \in 0 .. MaxQueue /\ 0 <= MaxQueue
    BY I3Assumption DEF Init
  <2>4. QED
    BY <2>1, <2>2, <2>3 DEF Init, TypeOK
<1>2. OrderInv
  BY DEF Init, OrderInv, Ordered, Above, UpTo, Rising, Before
<1>3. SessionInv
  BY WhereNot DEF Init, SessionInv, PlacesInv, ClosedInv, HandshakeInv, None
<1>4. BufferInv
  BY DEF Init, BufferInv
<1>5. QED
  BY <1>1, <1>2, <1>3, <1>4 DEF IInv

\* The inductive invariant of the two threads and the gateway.
THEOREM Invariance == Spec => []IInv
<1>1. IInv /\ [Next]_vars => IInv'
  <2> SUFFICES ASSUME IInv, [Next]_vars PROVE IInv'
    OBVIOUS
  <2>1. TypeOK' /\ BufferInv'
    BY TypeStep, BufferStep DEF IInv
  <2>2. ASSUME "reading" \notin came' PROVE OrderInv'
    BY <2>2, CameGrows, OrderStep DEF IInv, BufferInv
  <2>3. ASSUME "admin" \notin came' PROVE SessionInv'
    BY <2>3, CameGrows, SessionStep DEF IInv, BufferInv
  <2>4. QED
    BY <2>1, <2>2, <2>3 DEF IInv
<1>2. QED
  BY Initially, <1>1, PTL DEF Spec

\* What the gateway said is heard in its order and once, in whatever way the two
\* threads meet, with queues that drop and connections that are lost, a game that goes
\* down and an administrator who reconnects, as long as that does not empty the receive
\* buffer between two lines (i3_queue_event, i3_pop_event, i3_process_input).
THEOREM EventsAreHeardInOrder == Spec => []HeardInOrder
<1>1. IInv => HeardInOrder
  BY OrderedIsInOrder DEF IInv, HeardInOrder
<1>2. QED
  BY Invariance, <1>1, PTL

\* Until an administrator reconnects by hand no descriptor is lost, and connected is
\* what a session is that the gateway was asked for (i3_connect, i3_disconnect,
\* i3_authenticate, i3_shutdown).
THEOREM SessionsAreSound == Spec => []SessionSound
<1>1. IInv => SessionSound
  BY DEF IInv, SessionInv, ClosedInv, SessionSound
<1>2. QED
  BY Invariance, <1>1, PTL
=============================================================================
