---------------------------- MODULE KubeApiProofs ----------------------------
(***************************************************************************)
(* Facts about object logs and lists of finalizers, for logs of versions   *)
(* from any set S: what the proofs about both reconcilers rest on.         *)
(***************************************************************************)
EXTENDS KubeApi, TLAPS

\* The ends of a log are versions of the object.
LEMMA LogEnds ==
  ASSUME NEW S, NEW log \in Seq(S), log # <<>>
  PROVE  /\ Len(log) \in Nat \ {0}
         /\ Live(log) \in S /\ Cached(log) \in S /\ Cached(log) = log[1]
         /\ Relist(log) \in Seq(S) /\ Relist(log) # <<>>
  BY DEF Live, Cached, Relist

\* Writes leave a log.
LEMMA LogWrites ==
  ASSUME NEW S, NEW log \in Seq(S), log # <<>>, NEW obj \in S
  PROVE  /\ Append(log, obj) \in Seq(S) /\ Append(log, obj) # <<>>
         /\ Commit(log, obj) \in Seq(S) /\ Commit(log, obj) # <<>>
  BY DEF Commit

\* Delivery leaves a log.
LEMMA LogDelivers ==
  ASSUME NEW S, NEW log \in Seq(S), log # <<>>, Len(log) # 1
  PROVE  Catchup(log) \in Seq(S) /\ Catchup(log) # <<>>
         /\ Len(log) >= 2 /\ log[1] \in S /\ log[2] \in S
<1>0. Len(log) \in Nat /\ Len(log) # 0
  BY LogEnds
<1>1. Len(log) >= 2
  <2>1. \A n \in Nat : n # 0 /\ n # 1 => n >= 2
    OBVIOUS
  <2> QED BY <1>0, <2>1, Zenon
<1>2. log[1] \in S /\ log[2] \in S
  <2>1. 1 \in DOMAIN log /\ 2 \in DOMAIN log
    BY <1>0, <1>1
  <2> QED BY <2>1
<1>3. Tail(log) \in Seq(S) /\ 1 \in DOMAIN Tail(log)
  BY <1>0, <1>1
<1>4. 1 \notin DOMAIN <<>>
  OBVIOUS
<1> QED BY <1>1, <1>2, <1>3, <1>4, Zenon DEF Catchup

\* The entries of a log that has one more version.
LEMMA AppendEntries ==
  ASSUME NEW S, NEW log \in Seq(S), log # <<>>, NEW o \in S
  PROVE  /\ Len(log) \in Nat /\ Len(log) >= 1
         /\ Len(Append(log, o)) = Len(log) + 1
         /\ Live(Append(log, o)) = o /\ Live(log) = log[Len(log)]
         /\ Append(log, o)[1] = log[1]
         /\ \A k \in 1..Len(Append(log, o)) :
              \/ k \in 1..Len(log) /\ Append(log, o)[k] = log[k]
              \/ k = Len(log) + 1 /\ Append(log, o)[k] = o
  BY DEF Live

\* The entries of a log whose head was delivered.
LEMMA TailEntries ==
  ASSUME NEW S, NEW log \in Seq(S), Len(log) >= 2
  PROVE  /\ Len(Tail(log)) = Len(log) - 1
         /\ Live(Tail(log)) = Live(log)
         /\ Tail(log)[1] = log[2]
         /\ \A k \in 1..Len(Tail(log)) : k + 1 \in 1..Len(log) /\ Tail(log)[k] = log[k + 1]
  BY DEF Live

\* Removing an element leaves a sequence.
LEMMA RemoveAtType ==
  ASSUME NEW S, NEW s \in Seq(S), NEW i \in 1..Len(s)
  PROVE  RemoveAt(s, i) \in Seq(S)
  BY DEF RemoveAt

\* Removing a position removes nothing else.
LEMMA RemoveAtEntries ==
  ASSUME NEW S, NEW s \in Seq(S), NEW i \in 1..Len(s)
  PROVE  /\ \A k \in 1..Len(RemoveAt(s, i)) :
              \E m \in 1..Len(s) : RemoveAt(s, i)[k] = s[m]
         /\ \A m \in 1..Len(s) : m # i =>
              \E k \in 1..Len(RemoveAt(s, i)) : RemoveAt(s, i)[k] = s[m]
<1> DEFINE t == RemoveAt(s, i)
           n == Len(s)
<1>1. /\ n \in Nat /\ i \in Nat /\ 1 <= i /\ i <= n /\ Len(t) = n - 1
      /\ \A k \in 1..Len(t) : t[k] = IF k < i THEN s[k] ELSE s[k + 1]
  <2> DEFINE a == SubSeq(s, 1, i - 1)
             b == SubSeq(s, i + 1, n)
  <2>1. n \in Nat /\ i \in Nat /\ 1 <= i /\ i <= n
    OBVIOUS
  <2>2. a \in Seq(S) /\ Len(a) = i - 1 /\ \A k \in 1..(i - 1) : a[k] = s[k]
    BY <2>1
  <2>3. b \in Seq(S) /\ Len(b) = n - i /\ \A k \in 1..(n - i) : b[k] = s[i + k]
    <3>1. i + 1 \in Nat /\ \A k \in (i + 1)..n : k \in 1..n
      BY <2>1
    <3>2. b \in Seq(S)
      BY <2>1, <3>1
    <3>3. Len(b) = n - i
      BY <2>1, <3>1
    <3>4. ASSUME NEW k \in 1..(n - i) PROVE b[k] = s[i + k]
      <4>1. b[k] = s[(i + 1) + k - 1]
        BY <2>1, <3>1
      <4>2. (i + 1) + k - 1 = i + k
        BY <2>1
      <4> QED BY <4>1, <4>2
    <3> QED BY <3>2, <3>3, <3>4
  <2>4. t = a \o b
    BY DEF RemoveAt
  <2> HIDE DEF a, b, t, n
  <2>5. Len(t) = n - 1
    <3>1. a \in Seq(S) /\ b \in Seq(S)
      BY <2>2, <2>3
    <3>2. Len(t) = Len(a) + Len(b)
      BY <3>1, <2>4
    <3> QED BY <2>1, <2>2, <2>3, <3>2
  <2>6. ASSUME NEW k \in 1..Len(t) PROVE t[k] = IF k < i THEN s[k] ELSE s[k + 1]
    <3>1. CASE k < i
      <4>1. k \in 1..Len(a)
        BY <2>1, <2>2, <2>5, <3>1
      <4> QED BY <2>2, <2>3, <2>4, <3>1, <4>1
    <3>2. CASE ~(k < i)
      <4>1. k - (i - 1) \in 1..(n - i) /\ i + (k - (i - 1)) = k + 1
        BY <2>1, <2>5, <3>2
      <4>2. t[k] = b[k - (i - 1)]
        BY <2>1, <2>2, <2>3, <2>4, <2>5, <3>2
      <4> QED BY <2>3, <3>2, <4>1, <4>2
    <3> QED BY <3>1, <3>2
  <2> QED BY <2>1, <2>5, <2>6
<1> HIDE DEF t, n
<1>2. \A k \in 1..Len(t) : \E m \in 1..n : t[k] = s[m]
  <2> SUFFICES ASSUME NEW k \in 1..Len(t) PROVE \E m \in 1..n : t[k] = s[m]
    OBVIOUS
  <2>1. k \in 1..n /\ k + 1 \in 1..n
    BY <1>1
  <2> QED BY <1>1, <2>1
<1>3. \A m \in 1..n : m # i => \E k \in 1..Len(t) : t[k] = s[m]
  <2> SUFFICES ASSUME NEW m \in 1..n, m # i PROVE \E k \in 1..Len(t) : t[k] = s[m]
    OBVIOUS
  <2>1. CASE m < i
    <3>1. m \in 1..Len(t) /\ t[m] = s[m]
      BY <1>1, <2>1
    <3> QED BY <3>1
  <2>2. CASE m > i
    <3>1. m - 1 \in 1..Len(t) /\ ~(m - 1 < i) /\ (m - 1) + 1 = m
      BY <1>1, <2>2
    <3>2. t[m - 1] = s[m]
      BY <1>1, <3>1
    <3> QED BY <3>1, <3>2
  <2> QED BY <1>1, <2>1, <2>2
<1> QED BY <1>2, <1>3 DEF t, n

\* What a write, a delivery and a restart make of the stored version and of the
\* version in the cache.
LEMMA LogSteps ==
  ASSUME NEW S, NEW log \in Seq(S), log # <<>>
  PROVE  /\ \A o \in S :
              /\ Live(Append(log, o)) = o /\ Cached(Append(log, o)) = Cached(log)
              /\ Live(Commit(log, o)) = o /\ Cached(Commit(log, o)) = Cached(log)
         /\ Len(log) # 1 => Live(Catchup(log)) = Live(log) /\ Cached(Catchup(log)) = log[2]
         /\ Live(Relist(log)) = Live(log) /\ Cached(Relist(log)) = Live(log)
         /\ Synced(log) => Cached(log) = Live(log)
<1>1. Len(log) \in Nat \ {0} /\ Cached(log) = log[1]
  BY LogEnds
<1>2. ASSUME NEW o \in S
      PROVE  Live(Append(log, o)) = o /\ Cached(Append(log, o)) = Cached(log)
  <2>1. Append(log, o) \in Seq(S) /\ Append(log, o) # <<>>
    BY LogWrites
  <2>2. Live(Append(log, o)) = o /\ Append(log, o)[1] = log[1]
    BY AppendEntries
  <2>3. Cached(Append(log, o)) = Append(log, o)[1]
    BY <2>1, LogEnds
  <2> QED BY <1>1, <2>2, <2>3
<1>3. ASSUME NEW o \in S
      PROVE  Live(Commit(log, o)) = o /\ Cached(Commit(log, o)) = Cached(log)
  BY <1>2 DEF Commit
<1>4. ASSUME Len(log) # 1
      PROVE  Live(Catchup(log)) = Live(log) /\ Cached(Catchup(log)) = log[2]
  <2>1. Catchup(log) \in Seq(S) /\ Catchup(log) # <<>> /\ Len(log) >= 2
    BY <1>4, LogDelivers
  <2>2. Live(Catchup(log)) = Live(log) /\ Catchup(log)[1] = log[2]
    BY <2>1, TailEntries DEF Catchup
  <2>3. Cached(Catchup(log)) = Catchup(log)[1]
    BY <2>1, LogEnds
  <2> QED BY <2>2, <2>3
<1>5. Live(Relist(log)) = Live(log) /\ Cached(Relist(log)) = Live(log)
  BY DEF Relist, Live, Cached
<1>6. Synced(log) => Cached(log) = Live(log)
  BY <1>1 DEF Synced, Live
<1> QED BY <1>2, <1>3, <1>4, <1>5, <1>6
==============================================================================
