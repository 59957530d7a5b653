--------------------------- MODULE EventQueueProofs ---------------------------
(***************************************************************************)
(* The invariants of the event queue, and that it implements the schedule, *)
(* for any set of event structs, any number of buckets, any limit and any  *)
(* delays.                                                                 *)
(***************************************************************************)
EXTENDS EventQueue, FiniteSetTheorems, SequenceTheorems, TLAPS

\* InsertAt puts e at position p and moves what was there one place back.
LEMMA InsertAtProperties ==
  ASSUME NEW S, NEW s \in Seq(S), NEW e \in S, NEW p \in 1 .. Len(s) + 1
  PROVE  /\ InsertAt(s, p, e) \in Seq(S)
         /\ Len(InsertAt(s, p, e)) = Len(s) + 1
         /\ \A i \in 1 .. Len(s) + 1 :
              InsertAt(s, p, e)[i] = IF i < p THEN s[i]
                                     ELSE IF i = p THEN e ELSE s[i-1]
<1> DEFINE front == SubSeq(s, 1, p-1) \o <<e>>
           back  == SubSeq(s, p, Len(s))
<1>1. /\ front \in Seq(S) /\ Len(front) = p
      /\ \A i \in 1 .. p : front[i] = IF i < p THEN s[i] ELSE e
  OBVIOUS
<1>2. /\ back \in Seq(S) /\ Len(back) = Len(s) - p + 1
      /\ \A i \in 1 .. Len(s) - p + 1 : back[i] = s[p + i - 1]
  OBVIOUS
<1>3. InsertAt(s, p, e) = front \o back
  BY DEF InsertAt
<1> HIDE DEF front, back
<1>4. /\ front \o back \in Seq(S)
      /\ Len(front \o back) = Len(front) + Len(back)
      /\ \A i \in 1 .. Len(front) + Len(back) :
           (front \o back)[i] = IF i <= Len(front) THEN front[i]
                                ELSE back[i - Len(front)]
  BY <1>1, <1>2, ConcatProperties, Zenon
<1>5. QED
  BY <1>1, <1>2, <1>3, <1>4

\* RemoveAt takes position p away and moves what follows one place forward.
LEMMA RemoveAtProperties ==
  ASSUME NEW S, NEW s \in Seq(S), NEW p \in 1 .. Len(s)
  PROVE  /\ RemoveAt(s, p) \in Seq(S)
         /\ Len(RemoveAt(s, p)) = Len(s) - 1
         /\ \A i \in 1 .. Len(s) - 1 :
              RemoveAt(s, p)[i] = IF i < p THEN s[i] ELSE s[i+1]
<1> DEFINE front == SubSeq(s, 1, p-1)
           back  == SubSeq(s, p+1, Len(s))
<1>1. /\ front \in Seq(S) /\ Len(front) = p - 1
      /\ \A i \in 1 .. p-1 : front[i] = s[i]
  OBVIOUS
<1>2. /\ back \in Seq(S) /\ Len(back) = Len(s) - p
      /\ \A i \in 1 .. Len(s) - p : back[i] = s[p + i]
  OBVIOUS
<1>3. RemoveAt(s, p) = front \o back
  BY DEF RemoveAt
<1> HIDE DEF front, back
<1>4. /\ front \o back \in Seq(S)
      /\ Len(front \o back) = Len(front) + Len(back)
      /\ \A i \in 1 .. Len(front) + Len(back) :
           (front \o back)[i] = IF i <= Len(front) THEN front[i]
                                ELSE back[i - Len(front)]
  BY <1>1, <1>2, ConcatProperties, Zenon
<1>5. ASSUME NEW i \in 1 .. Len(s) - 1, i >= p
      PROVE  (front \o back)[i] = s[i+1]
  <2>1. (front \o back)[i] = back[i - (p - 1)]
    BY <1>1, <1>2, <1>4, <1>5
  <2>2. i - (p - 1) \in 1 .. Len(s) - p
    BY <1>5
  <2>3. QED
    BY <2>1, <2>2, <1>2
<1>6. Len(front \o back) = Len(s) - 1
  BY <1>1, <1>2, <1>4
<1>7. ASSUME NEW i \in 1 .. Len(s) - 1, i < p
      PROVE  (front \o back)[i] = s[i]
  <2>1. i \in 1 .. p-1 /\ i <= Len(front)
    BY <1>1, <1>7
  <2>2. (front \o back)[i] = front[i]
    BY <1>1, <1>2, <1>4, <2>1
  <2>3. QED
    BY <1>1, <2>1, <2>2
<1>8. \A i \in 1 .. Len(s) - 1 :
        (front \o back)[i] = IF i < p THEN s[i] ELSE s[i+1]
  <2> HIDE DEF front, back
  <2>1. TAKE i \in 1 .. Len(s) - 1
  <2>2. i < p \/ i >= p
    OBVIOUS
  <2>3. CASE i < p
    BY <2>3, <1>7
  <2>4. CASE i >= p
    <3>1. ~(i < p)
      BY <2>4
    <3>2. QED
      BY <2>4, <3>1, <1>5, Zenon
  <2>5. QED
    BY <2>2, <2>3, <2>4
<1>9. QED
  BY <1>3, <1>4, <1>6, <1>8, Zenon

\* Every key has a bucket.
LEMMA BucketOfType ==
  ASSUME NEW k \in Nat
  PROVE  BucketOf(k) \in Buckets
  BY NumQueuesAssumption DEF BucketOf, Buckets

-----------------------------------------------------------------------------
(* The priority queue keeps its structure.                                 *)

QueueType ==
  /\ bucket \in [Buckets -> Seq(Events)]
  /\ key \in [Events -> 0 .. LongMax]
  /\ queued \subseteq Events

QueueInv == QueueType /\ InItsBucket /\ OncePerBucket /\ Sorted

\* queue_enq of an event that is in no list keeps every list sorted, free of
\* repetitions, and in the bucket of its keys.
LEMMA EnqKeepsQueueInv ==
  ASSUME QueueInv, NEW e \in Events, e \notin queued,
         NEW k \in 0 .. LongMax, queue_enq(e, k)
  PROVE  QueueInv'
<1> DEFINE h == BucketOf(k)
           s == bucket[h]
<1>1. h \in Buckets
  BY BucketOfType, ClockAssumption
<1>2. PICK p \in 1 .. Len(s) + 1 :
        InsertionPoint(s, p, k) /\ bucket' = [bucket EXCEPT ![h] = InsertAt(s, p, e)]
  BY DEF queue_enq
<1>3. key' = [key EXCEPT ![e] = k] /\ queued' = queued \cup {e}
  BY DEF queue_enq
<1> DEFINE t == InsertAt(s, p, e)
<1>4. s \in Seq(Events) /\ Len(s) \in Nat
  BY <1>1 DEF QueueInv, QueueType
<1>5. /\ t \in Seq(Events) /\ Len(t) = Len(s) + 1
      /\ \A i \in 1 .. Len(s) + 1 :
           t[i] = IF i < p THEN s[i] ELSE IF i = p THEN e ELSE s[i-1]
  <2>1. p \in 1 .. Len(s) + 1
    BY <1>2
  <2> HIDE DEF s, h
  <2>2. QED
    BY <1>4, <2>1, InsertAtProperties, SMTT(60)
<1>6. /\ bucket'[h] = t
      /\ \A b \in Buckets : b # h => bucket'[b] = bucket[b]
  BY <1>1, <1>2 DEF QueueInv, QueueType
<1>7. \A b \in Buckets : \A i \in 1 .. Len(bucket[b]) :
        /\ bucket[b][i] \in queued
        /\ bucket[b][i] # e
        /\ bucket[b][i] \in Events
        /\ key'[bucket[b][i]] = key[bucket[b][i]]
  BY <1>3 DEF QueueInv, QueueType, InItsBucket
<1>8. key'[e] = k
  BY <1>3 DEF QueueInv, QueueType
<1>9. QueueType'
  BY <1>1, <1>2, <1>3, <1>5 DEF QueueInv, QueueType
<1> HIDE DEF h, s, t
<1>10. InItsBucket'
  <2>1. ASSUME NEW b \in Buckets, NEW i \in 1 .. Len(bucket'[b])
        PROVE  bucket'[b][i] \in queued' /\ BucketOf(key'[bucket'[b][i]]) = b
    <3>1. CASE b # h
      BY <3>1, <1>3, <1>6, <1>7 DEF QueueInv, InItsBucket
    <3>2. CASE b = h
      <4>1. i \in 1 .. Len(s) + 1 /\ bucket'[b][i] = t[i]
        BY <3>2, <1>5, <1>6
      <4>2. CASE i = p
        BY <4>1, <4>2, <3>2, <1>3, <1>5, <1>8 DEF h
      <4>3. CASE i # p
        <5>1. PICK j \in 1 .. Len(s) : t[i] = s[j]
          <6>1. CASE i < p
            <7>1. i \in 1 .. Len(s) /\ t[i] = s[i]
              BY <4>1, <6>1, <1>2, <1>4, <1>5
            <7>2. QED
              BY <7>1
          <6>2. CASE i > p
            <7>1. i - 1 \in 1 .. Len(s) /\ t[i] = s[i-1]
              BY <4>1, <6>2, <1>2, <1>4, <1>5
            <7>2. QED
              BY <7>1
          <6>3. QED
            BY <4>1, <4>3, <1>2, <1>4, <6>1, <6>2
        <5>2. \A m \in 1 .. Len(s) : s[m] \in queued /\ BucketOf(key[s[m]]) = h
          BY <1>1 DEF QueueInv, InItsBucket, s
        <5>3. \A m \in 1 .. Len(s) : key'[s[m]] = key[s[m]]
          BY <1>1, <1>7 DEF s
        <5>4. QED
          BY <4>1, <5>1, <5>2, <5>3, <3>2, <1>3
      <4>4. QED
        BY <4>2, <4>3
    <3>3. QED
      BY <3>1, <3>2
  <2>2. ASSUME NEW x \in queued'
        PROVE  \E i \in 1 .. Len(bucket'[BucketOf(key'[x])]) :
                 bucket'[BucketOf(key'[x])][i] = x
    <3>1. CASE x = e
      <4>1. p \in 1 .. Len(bucket'[h]) /\ bucket'[h][p] = e
        BY <1>2, <1>4, <1>5, <1>6
      <4>2. QED
        BY <4>1, <3>1, <1>8 DEF h
    <3>2. CASE x # e
      <4>1. x \in queued /\ x \in Events /\ key'[x] = key[x]
        BY <3>2, <1>3 DEF QueueInv, QueueType
      <4>2. PICK j \in 1 .. Len(bucket[BucketOf(key[x])]) :
              bucket[BucketOf(key[x])][j] = x
        BY <4>1 DEF QueueInv, InItsBucket
      <4>3. BucketOf(key[x]) \in Buckets
        BY <4>1, BucketOfType, ClockAssumption DEF QueueInv, QueueType
      <4>4. CASE BucketOf(key[x]) # h
        BY <4>1, <4>2, <4>3, <4>4, <1>6
      <4>5. CASE BucketOf(key[x]) = h
        <5>1. j \in 1 .. Len(s) /\ s[j] = x
          BY <4>2, <4>5 DEF s
        <5>2. \E i \in 1 .. Len(s) + 1 : t[i] = x
          <6>1. CASE j < p
            BY <5>1, <6>1, <1>4, <1>5
          <6>2. CASE j >= p
            <7>1. j + 1 \in 1 .. Len(s) + 1 /\ t[j+1] = x
              BY <5>1, <6>2, <1>2, <1>4, <1>5
            <7>2. QED
              BY <7>1
          <6>3. QED
            BY <6>1, <6>2, <1>2, <1>4
        <5>3. QED
          BY <5>2, <4>1, <4>5, <1>5, <1>6
      <4>6. QED
        BY <4>4, <4>5
    <3>3. QED
      BY <3>1, <3>2
  <2>3. QED
    BY <2>1, <2>2 DEF InItsBucket
<1>11. OncePerBucket'
  <2>1. ASSUME NEW b \in Buckets, NEW i \in 1 .. Len(bucket'[b]),
               NEW j \in 1 .. Len(bucket'[b]), bucket'[b][i] = bucket'[b][j]
        PROVE  i = j
    <3>1. CASE b # h
      BY <3>1, <2>1, <1>6 DEF QueueInv, OncePerBucket
    <3>2. CASE b = h
      <4>1. i \in 1 .. Len(s) + 1 /\ j \in 1 .. Len(s) + 1 /\ t[i] = t[j]
        BY <3>2, <2>1, <1>5, <1>6
      <4>2. /\ \A m \in 1 .. Len(s) : s[m] # e
            /\ \A m, n \in 1 .. Len(s) : s[m] = s[n] => m = n
        BY <1>1, <1>7 DEF QueueInv, OncePerBucket, s
      <4>3. \A m \in 1 .. Len(s) + 1 : m # p =>
              \E n \in 1 .. Len(s) : t[m] = s[n] /\ n = IF m < p THEN m ELSE m - 1
        BY <1>2, <1>4, <1>5
      <4>4. t[p] = e
        BY <1>2, <1>4, <1>5
      <4>5. CASE i = p \/ j = p
        BY <4>1, <4>2, <4>3, <4>4, <4>5
      <4>6. CASE i # p /\ j # p
        <5>1. PICK m \in 1 .. Len(s) : t[i] = s[m] /\ m = IF i < p THEN i ELSE i - 1
          BY <4>1, <4>3, <4>6
        <5>2. PICK n \in 1 .. Len(s) : t[j] = s[n] /\ n = IF j < p THEN j ELSE j - 1
          BY <4>1, <4>3, <4>6
        <5>3. m = n
          BY <4>1, <4>2, <5>1, <5>2
        <5>4. QED
          BY <4>1, <4>6, <5>1, <5>2, <5>3, <1>2, <1>4
      <4>7. QED
        BY <4>5, <4>6
    <3>3. QED
      BY <3>1, <3>2
  <2>2. QED
    BY <2>1 DEF OncePerBucket
<1>12. Sorted'
  <2>1. ASSUME NEW b \in Buckets, NEW i \in 1 .. Len(bucket'[b]),
               NEW j \in 1 .. Len(bucket'[b]), i <= j
        PROVE  key'[bucket'[b][i]] <= key'[bucket'[b][j]]
    <3>1. CASE b # h
      BY <3>1, <2>1, <1>6, <1>7 DEF QueueInv, Sorted
    <3>2. CASE b = h
      <4> SUFFICES key'[t[i]] <= key'[t[j]]
        BY <3>2, <1>6
      <4>1. i \in 1 .. Len(s) + 1 /\ j \in 1 .. Len(s) + 1
        BY <3>2, <1>5, <1>6
      <4>2. /\ \A m \in 1 .. Len(s) : key'[s[m]] = key[s[m]] /\ key[s[m]] \in Nat
            /\ \A m, n \in 1 .. Len(s) : m <= n => key[s[m]] <= key[s[n]]
        <5>1. \A m \in 1 .. Len(s) : s[m] \in Events /\ key'[s[m]] = key[s[m]]
          BY <1>1, <1>7 DEF s
        <5>2. \A m, n \in 1 .. Len(s) : m <= n => key[s[m]] <= key[s[n]]
          BY <1>1 DEF QueueInv, Sorted, s
        <5>3. \A f \in Events : key[f] \in Nat
          BY ClockAssumption DEF QueueInv, QueueType
        <5>4. QED
          BY <5>1, <5>2, <5>3
      <4>3. \A m \in 1 .. Len(s) : IF m < p THEN key[s[m]] <= k ELSE key[s[m]] >= k
        <5>1. (p > 1 => key[s[p-1]] < k) /\ \A m \in p .. Len(s) : key[s[m]] >= k
          BY <1>2 DEF InsertionPoint
        <5>2. ASSUME NEW m \in 1 .. Len(s), m < p
              PROVE  key[s[m]] <= k
          <6>1. p - 1 \in 1 .. Len(s) /\ m <= p - 1 /\ p > 1
            BY <5>2, <1>2, <1>4
          <6>2. key[s[m]] <= key[s[p-1]] /\ key[s[p-1]] < k
            BY <4>2, <5>1, <6>1
          <6>3. key[s[m]] \in Nat /\ key[s[p-1]] \in Nat /\ k \in Nat
            BY <4>2, <6>1, ClockAssumption
          <6>4. QED
            BY <6>2, <6>3
        <5>3. QED
          BY <5>1, <5>2, <1>2, <1>4
      <4>4. \A m \in 1 .. Len(s) + 1 :
              /\ m < p => m \in 1 .. Len(s) /\ t[m] = s[m]
              /\ m > p => m - 1 \in 1 .. Len(s) /\ t[m] = s[m-1]
              /\ m = p => t[m] = e
        BY <1>2, <1>4, <1>5
      <4>5. CASE i < p
        <5>1. t[i] = s[i] /\ i \in 1 .. Len(s) /\ key[s[i]] <= k
          BY <4>1, <4>3, <4>4, <4>5
        <5>2. CASE j < p
          <6>1. t[j] = s[j] /\ j \in 1 .. Len(s)
            BY <4>1, <4>4, <5>2
          <6>2. QED
            BY <4>2, <5>1, <6>1, <2>1
        <5>3. CASE j = p
          BY <4>1, <4>2, <4>4, <5>1, <5>3, <1>8
        <5>4. CASE j > p
          <6>1. t[j] = s[j-1] /\ j - 1 \in 1 .. Len(s) /\ i <= j - 1
            BY <4>1, <4>4, <4>5, <5>4, <1>2
          <6>2. QED
            BY <4>2, <5>1, <6>1
        <5>5. QED
          BY <5>2, <5>3, <5>4, <4>1, <1>2
      <4>6. CASE i = p
        <5>1. CASE j = p
          BY <5>1, <4>6, <4>4, <4>1, <1>8
        <5>2. CASE j > p
          <6>1. t[j] = s[j-1] /\ j - 1 \in 1 .. Len(s) /\ key[s[j-1]] >= k
            BY <4>1, <4>3, <4>4, <5>2
          <6>2. t[i] = e /\ key'[s[j-1]] = key[s[j-1]]
            BY <6>1, <4>1, <4>2, <4>4, <4>6
          <6>3. QED
            BY <6>1, <6>2, <1>8
        <5>3. QED
          BY <5>1, <5>2, <4>1, <4>6, <2>1, <1>2
      <4>7. CASE i > p
        <5>1. /\ t[i] = s[i-1] /\ i - 1 \in 1 .. Len(s)
              /\ t[j] = s[j-1] /\ j - 1 \in 1 .. Len(s)
              /\ i - 1 <= j - 1
          BY <4>1, <4>4, <4>7, <2>1, <1>2
        <5>2. QED
          BY <5>1, <4>2
      <4>8. QED
        BY <4>5, <4>6, <4>7, <4>1, <1>2
    <3>3. QED
      BY <3>1, <3>2
  <2>2. QED
    BY <2>1 DEF Sorted
<1>13. QED
  BY <1>9, <1>10, <1>11, <1>12 DEF QueueInv

\* queue_deq of a queued event keeps the lists sorted, and takes away its only
\* occurrence.
LEMMA DeqKeepsQueueInv ==
  ASSUME QueueInv, NEW e \in queued, queue_deq(e)
  PROVE  QueueInv'
<1> DEFINE h == BucketOf(key[e])
           s == bucket[h]
<1>1. h \in Buckets
  BY BucketOfType, ClockAssumption DEF QueueInv, QueueType
<1>2. PICK p \in 1 .. Len(s) :
        s[p] = e /\ bucket' = [bucket EXCEPT ![h] = RemoveAt(s, p)]
  BY DEF queue_deq
<1>3. key' = key /\ queued' = queued \ {e}
  BY DEF queue_deq
<1> DEFINE t == RemoveAt(s, p)
<1>4. s \in Seq(Events) /\ Len(s) \in Nat
  BY <1>1 DEF QueueInv, QueueType
<1>5. /\ t \in Seq(Events) /\ Len(t) = Len(s) - 1
      /\ \A i \in 1 .. Len(s) - 1 : t[i] = IF i < p THEN s[i] ELSE s[i+1]
  <2>1. p \in 1 .. Len(s)
    BY <1>2
  <2> HIDE DEF s, h
  <2>2. QED
    BY <1>4, <2>1, RemoveAtProperties, SMTT(60)
<1>6. /\ bucket'[h] = t
      /\ \A b \in Buckets : b # h => bucket'[b] = bucket[b]
  BY <1>1, <1>2 DEF QueueInv, QueueType
<1>7. QueueType'
  BY <1>1, <1>2, <1>3, <1>5 DEF QueueInv, QueueType
<1>8. \A x \in queued : x \in Events /\ BucketOf(key[x]) \in Buckets
  BY BucketOfType, ClockAssumption DEF QueueInv, QueueType
<1> HIDE DEF s, t
\* Position i of the shorter list is position Shift(i) of the longer one.
<1> DEFINE Shift(i) == IF i < p THEN i ELSE i + 1
<1>9. \A i \in 1 .. Len(t) : Shift(i) \in 1 .. Len(s) /\ t[i] = s[Shift(i)] /\ Shift(i) # p
  BY <1>2, <1>4, <1>5
<1>10. \A i, j \in 1 .. Len(t) : /\ i <= j => Shift(i) <= Shift(j)
                                /\ Shift(i) = Shift(j) => i = j
  BY <1>2, <1>4, <1>5
<1> HIDE DEF Shift
<1>11. /\ \A i, j \in 1 .. Len(s) : s[i] = s[j] => i = j
       /\ \A i, j \in 1 .. Len(s) : i <= j => key[s[i]] <= key[s[j]]
       /\ \A i \in 1 .. Len(s) : s[i] \in queued /\ BucketOf(key[s[i]]) = h
  BY <1>1 DEF QueueInv, OncePerBucket, Sorted, InItsBucket, s
<1>12. InItsBucket'
  <2>1. ASSUME NEW b \in Buckets, NEW i \in 1 .. Len(bucket'[b])
        PROVE  bucket'[b][i] \in queued' /\ BucketOf(key'[bucket'[b][i]]) = b
    <3>1. CASE b # h
      <4>1. bucket[b][i] \in queued /\ BucketOf(key[bucket[b][i]]) = b
        BY <3>1, <1>6 DEF QueueInv, InItsBucket
      <4>2. bucket[b][i] # e
        BY <4>1, <3>1
      <4>3. QED
        BY <4>1, <4>2, <3>1, <1>3, <1>6
    <3>2. CASE b = h
      <4>1. i \in 1 .. Len(t) /\ bucket'[b][i] = t[i]
        BY <3>2, <1>6
      <4>2. t[i] # e /\ t[i] \in queued /\ BucketOf(key[t[i]]) = h
        BY <4>1, <1>2, <1>9, <1>11
      <4>3. QED
        BY <4>1, <4>2, <3>2, <1>3
    <3>3. QED
      BY <3>1, <3>2
  <2>2. ASSUME NEW x \in queued'
        PROVE  \E i \in 1 .. Len(bucket'[BucketOf(key'[x])]) :
                 bucket'[BucketOf(key'[x])][i] = x
    <3>1. x \in queued /\ x # e /\ key'[x] = key[x]
      BY <1>3
    <3>2. PICK j \in 1 .. Len(bucket[BucketOf(key[x])]) :
            bucket[BucketOf(key[x])][j] = x
      BY <3>1 DEF QueueInv, InItsBucket
    <3>3. CASE BucketOf(key[x]) # h
      BY <3>1, <3>2, <3>3, <1>6, <1>8
    <3>4. CASE BucketOf(key[x]) = h
      <4>1. j \in 1 .. Len(s) /\ s[j] = x /\ j # p
        BY <3>1, <3>2, <3>4, <1>2 DEF s
      <4>2. \E i \in 1 .. Len(t) : t[i] = x
        <5>1. CASE j < p
          BY <5>1, <4>1, <1>2, <1>4, <1>5
        <5>2. CASE j > p
          <6>1. j - 1 \in 1 .. Len(t) /\ t[j-1] = x
            BY <5>2, <4>1, <1>2, <1>4, <1>5
          <6>2. QED
            BY <6>1
        <5>3. QED
          BY <5>1, <5>2, <4>1, <1>2, <1>4
      <4>3. QED
        BY <4>2, <3>1, <3>4, <1>6
    <3>5. QED
      BY <3>3, <3>4
  <2>3. QED
    BY <2>1, <2>2 DEF InItsBucket
<1>13. OncePerBucket'
  <2>1. ASSUME NEW b \in Buckets, NEW i \in 1 .. Len(bucket'[b]),
               NEW j \in 1 .. Len(bucket'[b]), bucket'[b][i] = bucket'[b][j]
        PROVE  i = j
    <3>1. CASE b # h
      BY <3>1, <2>1, <1>6 DEF QueueInv, OncePerBucket
    <3>2. CASE b = h
      <4>1. i \in 1 .. Len(t) /\ j \in 1 .. Len(t) /\ t[i] = t[j]
        BY <3>2, <2>1, <1>6
      <4>2. /\ Shift(i) \in 1 .. Len(s) /\ Shift(j) \in 1 .. Len(s)
            /\ s[Shift(i)] = s[Shift(j)]
        BY <4>1, <1>9
      <4>3. QED
        BY <4>1, <4>2, <1>10, <1>11
    <3>3. QED
      BY <3>1, <3>2
  <2>2. QED
    BY <2>1 DEF OncePerBucket
<1>14. Sorted'
  <2>1. ASSUME NEW b \in Buckets, NEW i \in 1 .. Len(bucket'[b]),
               NEW j \in 1 .. Len(bucket'[b]), i <= j
        PROVE  key'[bucket'[b][i]] <= key'[bucket'[b][j]]
    <3>1. CASE b # h
      BY <3>1, <2>1, <1>3, <1>6 DEF QueueInv, Sorted
    <3>2. CASE b = h
      <4>1. i \in 1 .. Len(t) /\ j \in 1 .. Len(t)
        BY <3>2, <1>6
      <4>2. /\ Shift(i) \in 1 .. Len(s) /\ Shift(j) \in 1 .. Len(s)
            /\ t[i] = s[Shift(i)] /\ t[j] = s[Shift(j)]
        BY <4>1, <1>9
      <4>3. Shift(i) <= Shift(j)
        BY <4>1, <2>1, <1>2, <1>4, <1>5 DEF Shift
      <4>4. key[t[i]] <= key[t[j]]
        BY <4>2, <4>3, <1>11
      <4>5. QED
        BY <4>4, <3>2, <1>3, <1>6
    <3>3. QED
      BY <3>1, <3>2
  <2>2. QED
    BY <2>1 DEF Sorted
<1>15. QED
  BY <1>7, <1>12, <1>13, <1>14 DEF QueueInv

-----------------------------------------------------------------------------
(* The invariants.                                                         *)

\* There is nothing to wait for without a queue, and event_process() only runs
\* with one.
ReadyInv ==
  /\ ~ready => queued = {}
  /\ processing => ready

IInv ==
  /\ TypeOK
  /\ InItsBucket /\ OncePerBucket /\ Sorted
  /\ NoOverdue
  /\ UnqueuedIsRunning
  /\ ReadyInv

\* The types of the variables that are not part of the priority queue.
RestType ==
  /\ pulse \in 0 .. MaxPulse
  /\ ready \in BOOLEAN
  /\ live \subseteq Events
  /\ kind \in [Events -> Kinds]
  /\ obj \in [Events -> BOOLEAN]
  /\ unfreed \in [Events -> Int]
  /\ processing \in BOOLEAN
  /\ running \in Events \cup {NoEvent}
  /\ total_events \in Int

LEMMA TypeParts == TypeOK <=> QueueType /\ RestType
  BY DEF TypeOK, QueueType, RestType

\* The head of the current bucket speaks for all of it: an event with the key of
\* this pulse is not overlooked when queue_key() reports a later one.
LEMMA HeadIsEarliest ==
  ASSUME IInv, NEW e \in queued, key[e] = pulse
  PROVE  queue_key = pulse
<1> DEFINE s == bucket[BucketOf(pulse)]
<1>1. BucketOf(pulse) \in Buckets
  BY BucketOfType DEF IInv, TypeOK
<1>2. PICK i \in 1 .. Len(s) : s[i] = e
  BY DEF IInv, InItsBucket
<1>3. 1 \in 1 .. Len(s) /\ s # <<>>
  BY <1>1, <1>2 DEF IInv, TypeOK
<1>4. key[s[1]] <= pulse /\ s[1] \in queued
  BY <1>1, <1>2, <1>3 DEF IInv, Sorted, InItsBucket
<1>5. key[s[1]] >= pulse
  BY <1>4, ClockAssumption DEF IInv, NoOverdue, TypeOK
<1>6. QED
  BY <1>3, <1>4, <1>5, ClockAssumption DEF queue_key, IInv, TypeOK

\* Conversely, what the loop takes is due at this very pulse.
LEMMA HeadIsDue ==
  ASSUME IInv, Dequeue
  PROVE  /\ bucket[BucketOf(pulse)][1] \in queued
         /\ key[bucket[BucketOf(pulse)][1]] = pulse
<1> DEFINE s == bucket[BucketOf(pulse)]
<1>1. BucketOf(pulse) \in Buckets
  BY BucketOfType DEF IInv, TypeOK
<1>2. s # <<>> /\ key[s[1]] <= pulse
  BY ClockAssumption DEF Dequeue, queue_key, IInv, TypeOK
<1>3. 1 \in 1 .. Len(s)
  BY <1>1, <1>2 DEF IInv, TypeOK
<1>4. s[1] \in queued
  BY <1>1, <1>3 DEF IInv, InItsBucket
<1>5. key[s[1]] >= pulse
  BY <1>4 DEF IInv, NoOverdue, TypeOK, Dequeue
<1>6. QED
  BY <1>2, <1>4, <1>5 DEF IInv, TypeOK

\* A positive delay leads to a later pulse, and never past LONG_MAX.
LEMMA TargetTimeType ==
  ASSUME TypeOK, NEW when \in Int, when >= 1
  PROVE  TargetTime(when) \in pulse + 1 .. LongMax
  BY ClockAssumption DEF TypeOK, TargetTime

LEMMA InitIInv == Init => IInv
<1> SUFFICES ASSUME Init PROVE IInv
  OBVIOUS
<1>1. TypeOK
  <2>1. <<>> \in Seq(Events)
    BY EmptySeq
  <2>2. QueueType
    BY <2>1, ClockAssumption DEF Init, QueueType
  <2>3. RestType
    <3>1. kind \in [Events -> Kinds]
      BY DEF Init, Kinds
    <3>2. pulse \in 0 .. MaxPulse /\ total_events \in Int
      BY ClockAssumption DEF Init
    <3>3. obj \in [Events -> BOOLEAN] /\ unfreed \in [Events -> Int]
      BY DEF Init
    <3>4. QED
      BY <3>1, <3>2, <3>3 DEF Init, RestType
  <2>4. QED
    BY <2>2, <2>3, TypeParts
<1>2. \A b \in Buckets : Len(bucket[b]) = 0
  BY DEF Init
<1>3. InItsBucket /\ OncePerBucket /\ Sorted
  BY <1>2 DEF Init, InItsBucket, OncePerBucket, Sorted
<1>4. QED
  BY <1>1, <1>3 DEF Init, IInv, NoOverdue, UnqueuedIsRunning, ReadyInv

LEMMA NextIInv == IInv /\ [Next]_vars => IInv'
<1> SUFFICES ASSUME IInv, [Next]_vars PROVE IInv'
  OBVIOUS
<1>0. QueueInv
  BY DEF IInv, QueueInv, QueueType, TypeOK
<1> USE DEF queue
<1>1. CASE event_init
  <2>1. queued = {} /\ ~processing
    BY <1>1 DEF IInv, ReadyInv, event_init
  <2>2. \A b \in Buckets : Len(bucket'[b]) = 0
    BY <1>1 DEF event_init
  <2>3. TypeOK'
    BY <1>1, EmptySeq DEF IInv, TypeOK, event_init
  <2>4. (InItsBucket /\ OncePerBucket /\ Sorted)'
    BY <1>1, <2>1, <2>2 DEF event_init, InItsBucket, OncePerBucket, Sorted
  <2>5. QED
    BY <1>1, <2>1, <2>3, <2>4
       DEF IInv, event_init, NoOverdue, UnqueuedIsRunning, ReadyInv
<1>2. CASE event_free_all
  <2>1. \A b \in Buckets : Len(bucket'[b]) = 0
    BY <1>2 DEF event_free_all
  <2>2. running = NoEvent
    BY <1>2 DEF event_free_all, IInv, UnqueuedIsRunning
  <2>3. IsFiniteSet(queued) /\ Cardinality(queued) \in Nat
    BY EventsAssumption, FS_Subset, FS_CardinalityType DEF IInv, TypeOK
  <2>4. TypeOK'
    <3>1. <<>> \in Seq(Events)
      BY EmptySeq
    <3>2. QueueType'
      BY <1>2, <3>1 DEF event_free_all, IInv, TypeOK, QueueType
    <3>3. /\ live' \subseteq Events
          /\ obj' \in [Events -> BOOLEAN]
          /\ unfreed' \in [Events -> Int]
      BY <1>2 DEF event_free_all, IInv, TypeOK
    <3>4. total_events' \in Int
      BY <1>2, <2>3 DEF event_free_all, IInv, TypeOK
    <3>5. RestType'
      BY <1>2, <3>3, <3>4 DEF event_free_all, IInv, TypeOK, RestType
    <3>6. QED
      BY <3>2, <3>5 DEF TypeOK, QueueType, RestType
  <2>5. (InItsBucket /\ OncePerBucket /\ Sorted)'
    BY <1>2, <2>1 DEF event_free_all, InItsBucket, OncePerBucket, Sorted
  <2>6. QED
    BY <1>2, <2>2, <2>4, <2>5
       DEF IInv, event_free_all, NoOverdue, UnqueuedIsRunning, ReadyInv
<1>3. CASE Create
  <2>1. PICK e \in Events, k \in Kinds, hasObj \in BOOLEAN, when \in Delays :
          event_create(e, k, hasObj, when)
    BY <1>3 DEF Create
  <2> DEFINE d == FutureDelay(when)
             t == TargetTime(d)
  <2>2. t \in pulse + 1 .. LongMax
    BY TargetTimeType, DelaysAssumption DEF IInv, FutureDelay
  <2>3. t \in 0 .. LongMax
    BY <2>2 DEF IInv, TypeOK
  <2>4. /\ ready /\ e \notin live /\ queue_enq(e, t)
        /\ UserCodeRuns
        /\ live' = live \cup {e}
        /\ kind' = [kind EXCEPT ![e] = k]
        /\ obj' = [obj EXCEPT ![e] = hasObj]
        /\ unfreed' = [unfreed EXCEPT ![e] = IF hasObj THEN @ + 1 ELSE @]
        /\ total_events' = total_events + 1
        /\ UNCHANGED <<pulse, ready, processing, running>>
    BY <2>1 DEF event_create
  <2> HIDE DEF t
  <2>5. QueueInv'
    BY <1>0, <2>3, <2>4, EnqKeepsQueueInv DEF IInv, UnqueuedIsRunning
  <2>6. key' = [key EXCEPT ![e] = t] /\ queued' = queued \cup {e}
    BY <2>4 DEF queue_enq
  <2>7. TypeOK'
    <3>1. RestType'
      BY <2>1, <2>4 DEF IInv, TypeOK, RestType
    <3>2. QED
      BY <2>5, <3>1 DEF TypeOK, QueueInv, QueueType, RestType
  <2>8. NoOverdue'
    BY <2>2, <2>4, <2>6 DEF IInv, TypeOK, NoOverdue
  <2>9. UnqueuedIsRunning' /\ ReadyInv'
    BY <2>1, <2>4, <2>6, NoEventAssumption DEF IInv, TypeOK, UnqueuedIsRunning, ReadyInv
  <2>10. QED
    BY <2>5, <2>7, <2>8, <2>9 DEF IInv, QueueInv
<1>4. CASE Cancel
  <2>1. PICK e \in Events : event_cancel(e)
    BY <1>4 DEF Cancel
  <2>2. CASE CancelQueued(e)
    <3>1. e \in queued /\ queue_deq(e)
      BY <2>2 DEF CancelQueued
    <3>2. QueueInv'
      BY <1>0, <3>1, DeqKeepsQueueInv
    <3>3. key' = key /\ queued' = queued \ {e}
      BY <3>1 DEF queue_deq
    <3>4. TypeOK'
      <4>1. RestType'
        BY <2>1, <2>2
           DEF IInv, TypeOK, RestType, event_cancel, CancelQueued, Discounted
      <4>2. QED
        BY <3>2, <4>1 DEF TypeOK, QueueInv, QueueType, RestType
    <3>5. NoOverdue' /\ UnqueuedIsRunning' /\ ReadyInv'
      BY <2>1, <2>2, <3>3
         DEF IInv, event_cancel, CancelQueued, NoOverdue, UnqueuedIsRunning, ReadyInv
    <3>6. QED
      BY <3>2, <3>4, <3>5 DEF IInv, QueueInv
  <2>3. CASE CancelRunning(e)
    <3>1. TypeOK'
      BY <2>1, <2>3 DEF IInv, event_cancel, CancelRunning, TypeOK
    <3>2. (InItsBucket /\ OncePerBucket /\ Sorted)'
      BY <2>1, <2>3 DEF IInv, event_cancel, CancelRunning, InItsBucket,
         OncePerBucket, Sorted
    <3>3. NoOverdue' /\ UnqueuedIsRunning' /\ ReadyInv'
      BY <2>1, <2>3 DEF IInv, event_cancel, CancelRunning, NoOverdue,
         UnqueuedIsRunning, ReadyInv
    <3>4. QED
      BY <3>1, <3>2, <3>3 DEF IInv
  <2>4. QED
    BY <2>1, <2>2, <2>3 DEF event_cancel
<1>5. CASE Tick
  <2>1. TypeOK'
    BY <1>5, ClockAssumption DEF IInv, TypeOK, Tick
  <2>2. NoOverdue'
    BY <1>5 DEF IInv, TypeOK, NoOverdue, ReadyInv, Tick
  <2>3. UnqueuedIsRunning' /\ ReadyInv'
    BY <1>5 DEF IInv, UnqueuedIsRunning, ReadyInv, Tick
  <2>4. (InItsBucket /\ OncePerBucket /\ Sorted)'
    BY <1>5 DEF IInv, InItsBucket, OncePerBucket, Sorted, Tick
  <2>5. QED
    BY <2>1, <2>2, <2>3, <2>4 DEF IInv
<1>6. CASE Dequeue
  <2> DEFINE e == bucket[BucketOf(pulse)][1]
  <2>1. e \in queued
    BY <1>6, HeadIsDue
  <2>2. queue_deq(e) /\ running' = e
    BY <1>6 DEF Dequeue
  <2>3. /\ processing /\ running = NoEvent
        /\ UNCHANGED <<pulse, ready, live, kind, obj, unfreed, processing, total_events>>
    BY <1>6 DEF Dequeue
  <2> HIDE DEF e
  <2>4. QueueInv'
    BY <1>0, <2>1, <2>2, DeqKeepsQueueInv
  <2>5. key' = key /\ queued' = queued \ {e}
    BY <2>2 DEF queue_deq
  <2>6. TypeOK'
    BY <2>1, <2>2, <2>3, <2>4 DEF IInv, TypeOK, QueueInv, QueueType
  <2>7. NoOverdue'
    BY <2>3, <2>5 DEF IInv, NoOverdue
  <2>8. UnqueuedIsRunning' /\ ReadyInv'
    BY <2>1, <2>2, <2>3, <2>5, NoEventAssumption
       DEF IInv, TypeOK, UnqueuedIsRunning, ReadyInv
  <2>9. QED
    BY <2>4, <2>6, <2>7, <2>8 DEF IInv, QueueInv
<1>7. CASE Return
  <2>1. CASE ReturnDone
    <3>1. TypeOK'
      BY <2>1 DEF IInv, ReturnDone, Discounted, TypeOK
    <3>2. (InItsBucket /\ OncePerBucket /\ Sorted)'
      BY <2>1 DEF IInv, ReturnDone, InItsBucket, OncePerBucket, Sorted
    <3>3. NoOverdue' /\ UnqueuedIsRunning' /\ ReadyInv'
      BY <2>1, NoEventAssumption
         DEF IInv, TypeOK, ReturnDone, NoOverdue, UnqueuedIsRunning, ReadyInv
    <3>4. QED
      BY <3>1, <3>2, <3>3 DEF IInv
  <2>2. ASSUME NEW delay \in Delays, ReturnAgain(delay)
        PROVE  IInv'
    <3> DEFINE t == TargetTime(delay)
    <3>1. t \in pulse + 1 .. LongMax
      BY <2>2, TargetTimeType, DelaysAssumption DEF IInv, ReturnAgain
    <3>2. t \in 0 .. LongMax
      BY <3>1 DEF IInv, TypeOK
    <3>3. /\ running \in Events /\ queue_enq(running, t) /\ running' = NoEvent
          /\ UNCHANGED <<pulse, ready, live, kind, obj, unfreed, processing, total_events>>
      BY <2>2 DEF IInv, TypeOK, ReturnAgain
    <3> HIDE DEF t
    <3>4. running \notin queued
      BY DEF IInv, UnqueuedIsRunning
    <3>5. QueueInv'
      BY <1>0, <3>2, <3>3, <3>4, EnqKeepsQueueInv
    <3>6. key' = [key EXCEPT ![running] = t] /\ queued' = queued \cup {running}
      BY <3>3 DEF queue_enq
    <3>7. TypeOK'
      BY <3>3, <3>5 DEF IInv, TypeOK, QueueInv, QueueType
    <3>8. NoOverdue'
      BY <3>1, <3>3, <3>6 DEF IInv, TypeOK, NoOverdue
    <3>9. UnqueuedIsRunning' /\ ReadyInv'
      BY <3>3, <3>6, NoEventAssumption, <2>2
         DEF IInv, TypeOK, UnqueuedIsRunning, ReadyInv, ReturnAgain
    <3>10. QED
      BY <3>5, <3>7, <3>8, <3>9 DEF IInv, QueueInv
  <2>3. QED
    BY <1>7, <2>1, <2>2 DEF Return
<1>8. CASE EndProcess
  <2>1. \A e \in queued : key[e] > pulse
    BY <1>8, HeadIsEarliest DEF EndProcess, IInv, NoOverdue, TypeOK
  <2>2. TypeOK' /\ NoOverdue' /\ UnqueuedIsRunning' /\ ReadyInv'
    BY <1>8, <2>1
       DEF EndProcess, IInv, TypeOK, NoOverdue, UnqueuedIsRunning, ReadyInv
  <2>3. (InItsBucket /\ OncePerBucket /\ Sorted)'
    BY <1>8 DEF EndProcess, IInv, InItsBucket, OncePerBucket, Sorted
  <2>4. QED
    BY <2>2, <2>3 DEF IInv
<1>9. CASE UNCHANGED vars
  BY <1>9 DEF vars, IInv, TypeOK, InItsBucket, OncePerBucket, Sorted, NoOverdue,
     UnqueuedIsRunning, ReadyInv
<1>10. QED
  BY <1>1, <1>2, <1>3, <1>4, <1>5, <1>6, <1>7, <1>8, <1>9 DEF Next

\* The inductive invariant holds in every reachable state.
THEOREM SpecIInv == Spec => []IInv
  BY InitIInv, NextIInv, PTL DEF Spec

\* Every variable keeps its type.
THEOREM TypeCorrect == Spec => []TypeOK
  BY SpecIInv, PTL DEF IInv

\* The structure that queue_key(), queue_head() and queue_deq() rely on survives
\* every interleaving of the loop with what its callbacks do.
THEOREM QueueStaysSound == Spec => []QueueSound
<1>1. IInv => QueueSound
  BY DEF IInv, QueueSound
<1> QED
  BY <1>1, SpecIInv, PTL

\* event_process() never leaves a due event behind.
THEOREM NothingOverdue == Spec => []NoOverdue
  BY SpecIInv, PTL DEF IInv

\* event_cancel() may read a NULL q_el as "this event is running".
THEOREM UnqueuedMeansRunning == Spec => []UnqueuedIsRunning
  BY SpecIInv, PTL DEF IInv

-----------------------------------------------------------------------------
(* Payloads, the counter, and the time of firing.                          *)

LEMMA NextPayload == IInv /\ PayloadBalance /\ [Next]_vars => PayloadBalance'
<1> SUFFICES ASSUME IInv, PayloadBalance, [Next]_vars PROVE PayloadBalance'
  OBVIOUS
<1> USE DEF PayloadBalance
<1>1. CASE event_init
  BY <1>1 DEF event_init
<1>2. CASE event_free_all
  BY <1>2 DEF event_free_all, IInv, UnqueuedIsRunning
<1>3. CASE Create
  BY <1>3 DEF Create, event_create, IInv, TypeOK
<1>4. CASE Cancel
  <2>1. PICK e \in Events : event_cancel(e)
    BY <1>4 DEF Cancel
  <2>2. CASE CancelQueued(e)
    BY <2>1, <2>2 DEF event_cancel, CancelQueued, IInv, TypeOK
  <2>3. CASE CancelRunning(e)
    BY <2>1, <2>3 DEF event_cancel, CancelRunning, IInv, TypeOK
  <2>4. QED
    BY <2>1, <2>2, <2>3 DEF event_cancel
<1>5. CASE Tick
  BY <1>5 DEF Tick
<1>6. CASE Dequeue
  BY <1>6 DEF Dequeue
<1>7. CASE Return
  <2>1. CASE ReturnDone
    <3>1. running \in live
      BY <2>1 DEF ReturnDone, IInv, UnqueuedIsRunning
    <3>2. QED
      BY <2>1, <3>1 DEF ReturnDone, IInv, TypeOK
  <2>2. CASE \E delay \in Delays : ReturnAgain(delay)
    BY <2>2 DEF ReturnAgain
  <2>3. QED
    BY <1>7, <2>1, <2>2 DEF Return
<1>8. CASE EndProcess
  BY <1>8 DEF EndProcess
<1>9. CASE UNCHANGED vars
  BY <1>9 DEF vars
<1>10. QED
  BY <1>1, <1>2, <1>3, <1>4, <1>5, <1>6, <1>7, <1>8, <1>9 DEF Next

\* Every payload is freed exactly once.
THEOREM PayloadFreedOnce == Spec => []PayloadBalance
<1>1. Init => PayloadBalance
  BY DEF Init, PayloadBalance
<1>2. QED
  BY <1>1, NextPayload, SpecIInv, PTL DEF Spec

LEMMA NextCounter == IInv /\ CounterExact /\ [Next]_vars => CounterExact'
<1> SUFFICES ASSUME IInv, CounterExact, [Next]_vars PROVE CounterExact'
  OBVIOUS
<1> USE DEF CounterExact
<1>0. IsFiniteSet(live) /\ Cardinality(live) \in Nat
  BY EventsAssumption, FS_Subset, FS_CardinalityType DEF IInv, TypeOK
<1>a. ASSUME NEW e \in live
      PROVE  Cardinality(live \ {e}) = total_events - 1 /\ total_events - 1 >= 0
  <2>1. Cardinality(live \ {e}) = Cardinality(live) - 1
    BY <1>0, <1>a, FS_RemoveElement
  <2>2. Cardinality(live \ {e}) \in Nat
    BY <1>0, FS_RemoveElement, FS_CardinalityType
  <2>3. QED
    BY <2>1, <2>2
<1>b. ASSUME NEW e \in live, live' = live \ {e}, total_events' = Discounted
      PROVE  CounterExact'
  BY <1>a, <1>b, <1>0, MaxEventsAssumption DEF Discounted, IInv, TypeOK
<1>1. CASE event_init
  BY <1>1 DEF event_init
<1>2. CASE event_free_all
  <2>1. queued = live
    BY <1>2 DEF event_free_all, IInv, UnqueuedIsRunning
  <2>2. live' = {} /\ total_events' = 0
    BY <1>0, <1>2, <2>1 DEF event_free_all
  <2>3. QED
    BY <2>2, FS_EmptySet, MaxEventsAssumption
<1>3. CASE Create
  <2>1. PICK e \in Events : /\ e \notin live /\ total_events < MaxEvents
                            /\ live' = live \cup {e}
                            /\ total_events' = total_events + 1
    BY <1>3 DEF Create, event_create
  <2>2. Cardinality(live') = Cardinality(live) + 1
    BY <1>0, <2>1, FS_AddElement
  <2>3. QED
    BY <1>0, <2>1, <2>2, MaxEventsAssumption
<1>4. CASE Cancel
  <2>1. PICK e \in Events : event_cancel(e)
    BY <1>4 DEF Cancel
  <2>2. CASE CancelQueued(e)
    BY <1>b, <2>1, <2>2 DEF event_cancel, CancelQueued
  <2>3. CASE CancelRunning(e)
    BY <2>3 DEF CancelRunning
  <2>4. QED
    BY <2>1, <2>2, <2>3 DEF event_cancel
<1>5. CASE Tick
  BY <1>5 DEF Tick
<1>6. CASE Dequeue
  BY <1>6 DEF Dequeue
<1>7. CASE Return
  <2>1. CASE ReturnDone
    BY <1>b, <2>1 DEF ReturnDone, IInv, UnqueuedIsRunning
  <2>2. CASE \E delay \in Delays : ReturnAgain(delay)
    BY <2>2 DEF ReturnAgain
  <2>3. QED
    BY <1>7, <2>1, <2>2 DEF Return
<1>8. CASE EndProcess
  BY <1>8 DEF EndProcess
<1>9. CASE UNCHANGED vars
  BY <1>9 DEF vars
<1>10. QED
  BY <1>1, <1>2, <1>3, <1>4, <1>5, <1>6, <1>7, <1>8, <1>9 DEF Next

\* MAX_EVENTS limits the events that are allocated.
THEOREM CounterIsExact == Spec => []CounterExact
<1>1. Init => CounterExact
  BY FS_EmptySet, MaxEventsAssumption DEF Init, CounterExact
<1>2. QED
  BY <1>1, NextCounter, SpecIInv, PTL DEF Spec

\* No callback is entered early or late.
THEOREM EventsFireOnTime == Spec => FiresOnTime
<1>1. IInv /\ [Next]_vars =>
        [\A e \in Events : running' = e /\ running # e => key[e] = pulse]_vars
  <2> SUFFICES ASSUME IInv, Next, NEW e \in Events, running' = e, running # e
               PROVE  key[e] = pulse
    OBVIOUS
  <2>1. Dequeue
    BY NoEventAssumption DEF Next, event_init, event_free_all, Create,
       event_create, Cancel, event_cancel, Tick, Return, ReturnDone, ReturnAgain,
       EndProcess
  <2>2. e = bucket[BucketOf(pulse)][1]
    BY <2>1 DEF Dequeue
  <2>3. QED
    BY <2>1, <2>2, HeadIsDue
<1>2. QED
  BY <1>1, SpecIInv, PTL DEF Spec, FiresOnTime

-----------------------------------------------------------------------------
(* The queue implements the schedule.                                      *)

LEMMA ScheduleInit == Init => Schedule!Init
  BY DEF Init, Schedule!Init

LEMMA ScheduleStep == IInv /\ [Next]_vars => [Schedule!Next]_(Schedule!vars)
<1> SUFFICES ASSUME IInv, [Next]_vars
             PROVE  [Schedule!Next]_(Schedule!vars)
  OBVIOUS
<1> DEFINE due == [e \in queued |-> key[e]]
<1>a. TypeOK /\ UnqueuedIsRunning /\ NoOverdue
  BY DEF IInv
<1>1. CASE event_init
  BY <1>1 DEF event_init, Schedule!vars
<1>2. CASE event_free_all
  <2>1. running = NoEvent /\ due' = [x \in {} |-> 0]
        /\ UNCHANGED <<pulse, running>>
    BY <1>2, <1>a DEF event_free_all, UnqueuedIsRunning
  <2>2. Schedule!CancelAll
    BY <2>1 DEF Schedule!CancelAll
  <2>3. QED
    BY <2>2 DEF Schedule!Next
<1>3. CASE Create
  <2>1. PICK e \in Events, k \in Kinds, hasObj \in BOOLEAN, when \in Delays :
          event_create(e, k, hasObj, when)
    BY <1>3 DEF Create
  <2> DEFINE d == FutureDelay(when)
             t == TargetTime(d)
  <2>2. t \in pulse + 1 .. LongMax
    BY <1>a, TargetTimeType, DelaysAssumption DEF FutureDelay
  <2>3. t \in 0 .. LongMax /\ t > pulse
    BY <2>2, <1>a DEF TypeOK
  <2>4. queue_enq(e, t) /\ e \notin live /\ UNCHANGED <<pulse, running>>
    BY <2>1 DEF event_create
  <2> HIDE DEF t
  <2>5. e \notin queued /\ e # running
    BY <1>a, <2>4, NoEventAssumption DEF UnqueuedIsRunning, TypeOK
  <2>6. key' = [key EXCEPT ![e] = t] /\ queued' = queued \cup {e}
    BY <2>4 DEF queue_enq
  <2>7. due' = Schedule!With(e, t)
    BY <1>a, <2>5, <2>6 DEF Schedule!With, Schedule!Waiting, TypeOK
  <2>8. Schedule!Schedule(e)
    BY <2>3, <2>4, <2>5, <2>7 DEF Schedule!Schedule, Schedule!Waiting
  <2>9. QED
    BY <2>8 DEF Schedule!Next
<1>4. CASE Cancel
  <2>1. PICK e \in Events : event_cancel(e)
    BY <1>4 DEF Cancel
  <2>2. CASE CancelQueued(e)
    <3>1. /\ e \in queued /\ key' = key /\ queued' = queued \ {e}
          /\ UNCHANGED <<pulse, running>>
      BY <2>1, <2>2 DEF event_cancel, CancelQueued, queue_deq
    <3>2. due' = Schedule!Without(e)
      BY <3>1 DEF Schedule!Without, Schedule!Waiting
    <3>3. Schedule!Cancel(e)
      BY <3>1, <3>2 DEF Schedule!Cancel, Schedule!Waiting
    <3>4. QED
      BY <3>3 DEF Schedule!Next
  <2>3. CASE CancelRunning(e)
    BY <2>1, <2>3 DEF event_cancel, CancelRunning, queue, Schedule!vars
  <2>4. QED
    BY <2>1, <2>2, <2>3 DEF event_cancel
<1>5. CASE Tick
  <2>1. /\ running = NoEvent /\ \A e \in queued : key[e] > pulse
        /\ pulse' = pulse + 1
        /\ UNCHANGED <<queued, key, running>>
    BY <1>5, <1>a DEF Tick, UnqueuedIsRunning, NoOverdue, queue
  <2>2. Schedule!Advance
    BY <2>1 DEF Schedule!Advance, Schedule!Waiting
  <2>3. QED
    BY <2>2 DEF Schedule!Next
<1>6. CASE Dequeue
  <2>1. PICK e \in Events : /\ e = bucket[BucketOf(pulse)][1]
                            /\ e \in queued /\ key[e] = pulse
    BY <1>6, <1>a, HeadIsDue DEF TypeOK
  <2>2. /\ queued' = queued \ {e} /\ key' = key
        /\ running' = e /\ running = NoEvent
        /\ UNCHANGED pulse
    BY <1>6, <2>1 DEF Dequeue, queue_deq
  <2>4. due' = Schedule!Without(e)
    BY <2>2 DEF Schedule!Without, Schedule!Waiting
  <2>5. Schedule!Fire(e)
    BY <2>1, <2>2, <2>4 DEF Schedule!Fire, Schedule!Waiting
  <2>6. QED
    BY <2>5 DEF Schedule!Next
<1>7. CASE Return
  <2>1. PICK e \in Events : e = running
    BY <1>7, <1>a DEF Return, ReturnDone, ReturnAgain, TypeOK
  <2>2. CASE ReturnDone
    <3>1. Schedule!Finish(e)
      BY <2>1, <2>2 DEF ReturnDone, queue, Schedule!Finish
    <3>2. QED
      BY <3>1 DEF Schedule!Next
  <2>3. ASSUME NEW delay \in Delays, ReturnAgain(delay)
        PROVE  Schedule!Next
    <3> DEFINE t == TargetTime(delay)
    <3>1. t \in pulse + 1 .. LongMax
      BY <1>a, <2>3, TargetTimeType, DelaysAssumption DEF ReturnAgain
    <3>2. t \in 0 .. LongMax /\ t > pulse
      BY <3>1, <1>a DEF TypeOK
    <3>3. queue_enq(running, t) /\ running' = NoEvent /\ UNCHANGED pulse
      BY <2>3 DEF ReturnAgain
    <3> HIDE DEF t
    <3>4. key' = [key EXCEPT ![e] = t] /\ queued' = queued \cup {e}
      BY <2>1, <3>3 DEF queue_enq
    <3>5. due' = Schedule!With(e, t)
      BY <1>a, <2>1, <3>4
         DEF Schedule!With, Schedule!Waiting, TypeOK, UnqueuedIsRunning
    <3>6. Schedule!Finish(e)
      BY <2>1, <3>2, <3>3, <3>5 DEF Schedule!Finish
    <3>7. QED
      BY <3>6 DEF Schedule!Next
  <2>4. QED
    BY <1>7, <2>2, <2>3 DEF Return
<1>8. CASE EndProcess
  BY <1>8 DEF EndProcess, queue, Schedule!vars
<1>9. CASE UNCHANGED vars
  BY <1>9 DEF vars, queue, Schedule!vars
<1>10. QED
  BY <1>1, <1>2, <1>3, <1>4, <1>5, <1>6, <1>7, <1>8, <1>9 DEF Next

\* Every behaviour of the bucketed queue is one of the abstract schedule.
THEOREM QueueImplementsSchedule == Spec => ImplementsSchedule
<1>1. QED
  BY ScheduleInit, ScheduleStep, SpecIInv, PTL
     DEF Spec, ImplementsSchedule, Schedule!Spec

===============================================================================
