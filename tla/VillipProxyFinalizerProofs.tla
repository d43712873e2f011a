--------------------- MODULE VillipProxyFinalizerProofs ---------------------
(***************************************************************************)
(* Proofs about the finalizers of a proxy.  The operator's leaves it only  *)
(* after its deletion was asked for and "Finalized" was stored: the        *)
(* deletion branch of Reconcile works with copies from a cache that may    *)
(* lag; what saves it is how the versions between cache and store may      *)
(* follow one another.  The garbage collector's is never dropped.          *)
(***************************************************************************)
EXTENDS VillipProxyStepProofs

------------------------------------------------------------------------------
(***************************************************************************)
(* The versions from the cache to the store: uids grow, what has           *)
(* finalizers is there, only the incarnation in the cache is held by ours, *)
(* and deletion is never taken back.                                       *)
(***************************************************************************)
Holds(p) == Finalizer \in p.fins

UidsGrow(log) == \A i, j \in 1..Len(log) : i <= j => log[i].uid <= log[j].uid

Present(log) == \A j \in 1..Len(log) : log[j].fins # {} => log[j].exists

HeldByCached(log) ==
  \A j \in 1..Len(log) : Holds(log[j]) => log[j].exists /\ log[j].uid = log[1].uid

DeletionSticks(log) ==
  \A i, j \in 1..Len(log) :
    i <= j /\ log[i].uid = log[j].uid /\ log[i].deleting /\ log[j].exists => log[j].deleting

LogInv(log) == UidsGrow(log) /\ Present(log) /\ HeldByCached(log) /\ DeletionSticks(log)

AllDeleted(log) == \A j \in 1..Len(log) : Holds(log[j]) => log[j].deleting

\* How a version o may follow the stored one.
Follows(log, o) ==
  /\ Live(log).uid <= o.uid
  /\ o.fins # {} => o.exists
  /\ Holds(o) => o.exists /\ o.uid = log[1].uid
  /\ o.exists /\ o.uid = Live(log).uid => Live(log).exists /\ (Live(log).deleting => o.deleting)

\* A write of a version that may follow the stored one keeps the log invariant.
LEMMA AppendKeepsLog ==
  ASSUME NEW log \in Seq(ProxyObj), log # <<>>, NEW o \in ProxyObj,
         LogInv(log), Follows(log, o)
  PROVE  LogInv(Append(log, o))
<1> DEFINE new == Append(log, o)
           n == Len(log)
<1>1. /\ n \in Nat /\ n >= 1 /\ Len(new) = n + 1 /\ Live(new) = o /\ Live(log) = log[n]
      /\ new[1] = log[1]
      /\ \A k \in 1..Len(new) : \/ k \in 1..n /\ new[k] = log[k]
                                \/ k = n + 1 /\ new[k] = o
  BY AppendEntries
<1>2. \A k \in 1..n : log[k].uid \in Nat
  <2>1. \A k \in 1..n : log[k] \in ProxyObj
    OBVIOUS
  <2> QED BY <2>1 DEF ProxyObj
<1>3. o.uid \in Nat
  BY DEF ProxyObj
<1> HIDE DEF new, n
<1>4. \A k \in 1..n : log[k].uid <= Live(log).uid
  BY <1>1 DEF LogInv, UidsGrow, n
<1>5. UidsGrow(new)
  BY <1>1, <1>2, <1>3, <1>4 DEF LogInv, UidsGrow, Follows, n
<1>6. HeldByCached(new)
  BY <1>1 DEF LogInv, HeldByCached, Follows, n
<1>7. DeletionSticks(new)
  <2> SUFFICES ASSUME NEW i \in 1..Len(new), NEW j \in 1..Len(new), i <= j,
                      new[i].uid = new[j].uid, new[i].deleting, new[j].exists
               PROVE  new[j].deleting
    BY DEF DeletionSticks
  <2>1. CASE j \in 1..n
    <3>1. i \in 1..n /\ new[i] = log[i] /\ new[j] = log[j]
      BY <1>1, <2>1
    <3> QED BY <2>1, <3>1 DEF LogInv, DeletionSticks, n
  <2>2. CASE i \in 1..n /\ j = n + 1
    <3>1. new[i] = log[i] /\ new[j] = o
      BY <1>1, <2>2
    <3>2. o.uid = Live(log).uid
      BY <1>1, <1>2, <1>3, <1>4, <2>2, <3>1 DEF Follows
    <3>3. Live(log).exists /\ (Live(log).deleting => o.deleting)
      BY <3>1, <3>2 DEF Follows
    <3>4. n \in 1..n /\ i <= n
      BY <1>1, <2>2
    <3>5. log[n].deleting
      BY <1>1, <2>2, <3>1, <3>2, <3>3, <3>4 DEF LogInv, DeletionSticks, n
    <3> QED BY <1>1, <3>1, <3>3, <3>5
  <2>3. CASE i = n + 1 /\ j = n + 1
    BY <2>3
  <2> QED BY <1>1, <2>1, <2>2, <2>3
<1>8. Present(new)
  BY <1>1 DEF LogInv, Present, Follows, n
<1> QED BY <1>5, <1>6, <1>7, <1>8 DEF LogInv, new

\* The delivery of an event keeps the log invariant.
LEMMA TailKeepsLog ==
  ASSUME NEW log \in Seq(ProxyObj), Len(log) >= 2, LogInv(log)
  PROVE  LogInv(Tail(log)) /\ (AllDeleted(log) => AllDeleted(Tail(log)))
<1> DEFINE new == Tail(log)
           n == Len(log)
<1>1. /\ n \in Nat /\ n >= 2 /\ Len(new) = n - 1 /\ Live(new) = Live(log) /\ new[1] = log[2]
      /\ \A k \in 1..Len(new) : k + 1 \in 1..n /\ new[k] = log[k + 1]
  BY TailEntries
<1>2. \A k \in 1..n : log[k].uid \in Nat
  <2>1. \A k \in 1..n : log[k] \in ProxyObj
    OBVIOUS
  <2> QED BY <2>1 DEF ProxyObj
<1> HIDE DEF new, n
<1>3. UidsGrow(new)
  BY <1>1 DEF LogInv, UidsGrow, n
<1>4. HeldByCached(new)
  <2> SUFFICES ASSUME NEW j \in 1..Len(new), Holds(new[j])
               PROVE  new[j].exists /\ new[j].uid = new[1].uid
    BY DEF HeldByCached
  <2>1. new[j].exists /\ new[j].uid = log[1].uid
    BY <1>1 DEF LogInv, HeldByCached, n
  <2>2. 1 \in 1..n /\ 2 \in 1..n /\ j + 1 \in 1..n /\ 2 <= j + 1
    BY <1>1
  <2>3. log[1].uid <= log[2].uid /\ log[2].uid <= log[j + 1].uid
    BY <2>2 DEF LogInv, UidsGrow, n
  <2> QED BY <1>1, <1>2, <2>1, <2>2, <2>3
<1>5. DeletionSticks(new)
  BY <1>1 DEF LogInv, DeletionSticks, n
<1>6. AllDeleted(log) => AllDeleted(new)
  BY <1>1 DEF AllDeleted, n
<1>7. Present(new)
  BY <1>1 DEF LogInv, Present, n
<1> QED BY <1>3, <1>4, <1>5, <1>6, <1>7 DEF LogInv, new

\* The relist of a restarted manager keeps the log invariant.
LEMMA RelistKeepsLog ==
  ASSUME NEW log \in Seq(ProxyObj), log # <<>>, LogInv(log)
  PROVE  LogInv(Relist(log))
<1> DEFINE o == Live(log)
<1>1. Len(log) \in 1..Len(log) /\ o = log[Len(log)] /\ o.uid \in Nat
  <2>1. o \in ProxyObj /\ Len(log) \in 1..Len(log)
    BY LogEnds
  <2> QED BY <2>1 DEF Live, ProxyObj
<1>2. (Holds(o) => o.exists) /\ (o.fins # {} => o.exists)
  BY <1>1 DEF LogInv, HeldByCached, Present
<1> HIDE DEF o
<1>3. Relist(log) = <<o>> /\ Len(<<o>>) = 1 /\ <<o>>[1] = o
  BY DEF Relist, o
<1>4. \A k \in 1..Len(<<o>>) : <<o>>[k] = o
  BY <1>3
<1>5. UidsGrow(<<o>>) /\ Present(<<o>>) /\ HeldByCached(<<o>>) /\ DeletionSticks(<<o>>)
  BY <1>1, <1>2, <1>3, <1>4 DEF UidsGrow, Present, HeldByCached, DeletionSticks
<1> QED BY <1>3, <1>5 DEF LogInv

\* How every writer but Reconcile's addFinalizer continues the stored version l:
\* the finalizer is not added, the incarnation stays or is a new one, and
\* deletion is not taken back.
Continues(l, o) ==
  /\ l.uid <= o.uid
  /\ o.fins # {} => o.exists
  /\ Holds(o) => Holds(l) /\ o.exists /\ o.uid = l.uid
  /\ o.exists /\ o.uid = l.uid => l.exists /\ (l.deleting => o.deleting)

\* Facts about the stored version of a log.
LEMMA StoredInLog ==
  ASSUME NEW log \in Seq(ProxyObj), log # <<>>, LogInv(log)
  PROVE  /\ Live(log) \in ProxyObj /\ Live(log).uid \in Nat
         /\ Live(log).fins # {} => Live(log).exists
         /\ Holds(Live(log)) => Live(log).exists /\ Live(log).uid = log[1].uid
         /\ AllDeleted(log) /\ Holds(Live(log)) => Live(log).deleting
<1>1. Live(log) \in ProxyObj /\ Len(log) \in 1..Len(log)
  BY LogEnds
<1> QED BY <1>1 DEF Live, ProxyObj, LogInv, Present, HeldByCached, AllDeleted

\* A version that continues the stored one may follow it in the log.
LEMMA ContinuesKeepsLog ==
  ASSUME NEW log \in Seq(ProxyObj), log # <<>>, NEW o \in ProxyObj,
         LogInv(log), Continues(Live(log), o)
  PROVE  /\ LogInv(Append(log, o))
         /\ AllDeleted(log) => AllDeleted(Append(log, o))
<1>1. Follows(log, o)
  BY StoredInLog DEF Follows, Continues
<1>2. ASSUME AllDeleted(log) PROVE AllDeleted(Append(log, o))
  <2>1. Holds(o) => o.deleting
    BY <1>2, StoredInLog DEF Continues
  <2> QED BY <1>2, <2>1, AppendEntries DEF AllDeleted
<1> QED BY <1>1, <1>2, AppendKeepsLog

\* The two ways in which a version of the same incarnation continues another.
LEMMA SameContinues ==
  ASSUME NEW l \in ProxyObj, NEW o \in ProxyObj, l.exists, o.exists, o.uid = l.uid,
         Holds(o) => Holds(l), l.deleting => o.deleting
  PROVE  Continues(l, o)
  BY DEF Continues, ProxyObj

LEMMA ReapContinues ==
  ASSUME NEW l \in ProxyObj, NEW o \in ProxyObj, l.exists, o.exists, o.uid = l.uid,
         Holds(o) => Holds(l), l.deleting => o.deleting
  PROVE  /\ Continues(l, Reap(o))
         /\ Holds(Reap(o)) <=> Holds(o)
         /\ Holds(o) => Reap(o) = o
<1>1. CASE o.deleting /\ o.fins = {}
  <2>1. Reap(o) = Gone(o) /\ ~Holds(o)
    BY <1>1 DEF Reap, Holds
  <2>2. Gone(o).exists = FALSE /\ Gone(o).uid = o.uid /\ Gone(o).fins = {}
    BY DEF Gone, NoProxy
  <2>3. ~Holds(Gone(o)) /\ ~Gone(o).exists
    BY <2>2 DEF Holds
  <2>4. l.uid \in Nat
    BY DEF ProxyObj
  <2> QED BY <2>1, <2>2, <2>3, <2>4 DEF Continues
<1>2. CASE ~(o.deleting /\ o.fins = {})
  <2>1. Reap(o) = o
    BY <1>2 DEF Reap
  <2> QED BY <2>1, SameContinues
<1> QED BY <1>1, <1>2

------------------------------------------------------------------------------
(***************************************************************************)
(* The deletion branch.  Once Reconcile is in it, every version that the   *)
(* finalizer holds, from the cache to the store, is marked for deletion;   *)
(* and it removes the finalizer only from a version that says "Finalized". *)
(***************************************************************************)
FinalCalls == {"finalizing", "refetchDeleted", "finalized", "removeFinalizer"}

FinalInv ==
  /\ LogInv(proxy)
  /\ pc \in FinalCalls => AllDeleted(proxy)
  /\ pc = "addFinalizer" /\ "proxy" \in fresh => Len(proxy) = 1
  /\ pc = "removeFinalizer" /\ "proxy" \in fresh => Live(proxy).status.degraded = "Finalized"

Released ==
  (Finalizer \in Live(proxy).fins \ Live(proxy').fins) =>
    Live(proxy).deleting /\ Live(proxy).status.degraded = "Finalized"

\* Steps that leave the proxy alone and enter neither the deletion branch nor a
\* call that changes the finalizers.
LEMMA StepKeepsFinal ==
  ASSUME FinalInv, proxy' = proxy, pc' \notin {"addFinalizer", "removeFinalizer"},
         pc' \in FinalCalls => pc \in FinalCalls
  PROVE  FinalInv' /\ Released
  BY DEF FinalInv, Released, LogInv, UidsGrow, Present, HeldByCached, DeletionSticks,
         AllDeleted

\* Steps of others that leave the proxy alone.
LEMMA OthersKeepFinal ==
  ASSUME FinalInv, proxy' = proxy, pc' = pc, fresh' \subseteq fresh
  PROVE  FinalInv' /\ Released
  BY DEF FinalInv, Released, LogInv, UidsGrow, Present, HeldByCached, DeletionSticks,
         AllDeleted

\* Writes of the proxy by whoever does not add the finalizer.
LEMMA WriteKeepsFinal ==
  ASSUME TypeOK, FinalInv, NEW STATE o, o \in ProxyObj, Continues(Live(proxy), o),
         proxy' = Append(proxy, o) \/ proxy' = Commit(proxy, o),
         pc' \in FinalCalls => pc \in FinalCalls,
         pc' = "addFinalizer" => "proxy" \notin fresh',
         pc' = "removeFinalizer" /\ "proxy" \in fresh' => o.status.degraded = "Finalized"
  PROVE  FinalInv' /\ Live(proxy') = o
<1>0. proxy \in Seq(ProxyObj) /\ proxy # <<>>
  BY DEF TypeOK
<1>1. Live(proxy') = o
  <2>1. Live(Append(proxy, o)) = o /\ Live(Commit(proxy, o)) = o
    BY <1>0, LogSteps
  <2> QED BY <2>1
<1>2. proxy' = Append(proxy, o) \/ proxy' = proxy
  BY DEF Commit
<1>3. LogInv(proxy)
  BY DEF FinalInv
<1>4. LogInv(proxy') /\ (AllDeleted(proxy) => AllDeleted(proxy'))
  BY <1>0, <1>2, <1>3, ContinuesKeepsLog
<1> QED BY <1>1, <1>4 DEF FinalInv

\* A status update, which keeps the finalizers and the mark.
LEMMA StatusKeepsFinal ==
  ASSUME TypeOK, FinalInv, NEW STATE condition, NEW STATE value, NEW STATE ok, NEW STATE err,
         Condition(condition, value), WriteStatus(condition, value, ok, err),
         ok # "addFinalizer", err \notin {"addFinalizer", "removeFinalizer"},
         {ok, err} \cap FinalCalls # {} => pc \in FinalCalls,
         ok = "removeFinalizer" => condition = "degraded" /\ value = "Finalized"
  PROVE  FinalInv' /\ Released
<1> DEFINE new == StatusOf(condition, value)
<1>1. /\ new \in ProxyObj /\ new.exists = Live(proxy).exists /\ new.uid = Live(proxy).uid
      /\ new.fins = Live(proxy).fins /\ new.deleting = Live(proxy).deleting
      /\ condition = "degraded" => new.status.degraded = value
  BY StatusFields
<1>2. WriteProxy(Current("proxy", proxy), new, ok, err)
  BY DEF WriteStatus, StatusOf
<1> HIDE DEF new
<1>3. \/ /\ Current("proxy", proxy) /\ proxy' = Commit(proxy, new)
         /\ GoOn(ok, [loc EXCEPT !.proxy = new], fresh \cup {"proxy"})
      \/ proxy' = proxy /\ GoOn(err, loc, fresh)
      \/ /\ Current("proxy", proxy) /\ proxy' = Commit(proxy, new)
         /\ GoOn(err, loc, fresh \ {"proxy"})
  BY <1>2, WriteProxyEffect
<1>4. CASE proxy' = proxy /\ GoOn(err, loc, fresh)
  <2>1. pc' = "idle" \/ pc' = err
    BY <1>4 DEF GoOn
  <2> QED BY <1>4, <2>1, StepKeepsFinal DEF FinalCalls
<1>5. CASE Current("proxy", proxy) /\ proxy' = Commit(proxy, new) /\ pc' \in {"idle", ok, err}
  <2>1. Live(proxy) \in ProxyObj /\ Live(proxy).exists
    BY <1>5, StoredTypes DEF Current
  <2>2. Continues(Live(proxy), new)
    BY <1>1, <2>1, SameContinues DEF Holds
  <2>3. /\ pc' \in FinalCalls => pc \in FinalCalls
        /\ pc' # "addFinalizer"
        /\ pc' = "removeFinalizer" => new.status.degraded = "Finalized"
    BY <1>1, <1>5 DEF FinalCalls
  <2>4. FinalInv' /\ Live(proxy') = new
    BY <1>1, <1>5, <2>2, <2>3, WriteKeepsFinal
  <2> QED BY <1>1, <2>4 DEF Released
<1> QED BY <1>3, <1>4, <1>5 DEF GoOn

\* Reconcile enters the deletion branch with a version from the cache that is
\* held and marked: the later versions that are held are marked too.
LEMMA ReconcileKeepsFinal ==
  ASSUME TypeOK, FinalInv, Reconcile
  PROVE  FinalInv' /\ Released
<1> DEFINE p == Cached(proxy)
<1>0. proxy \in Seq(ProxyObj) /\ proxy # <<>> /\ Len(proxy) \in Nat \ {0} /\ p = proxy[1]
  BY LogEnds DEF TypeOK
<1>1. /\ proxy' = proxy /\ pc' = Branch(p)
      /\ p.exists => fresh' = Read({}, "proxy", proxy)
  BY DEF Reconcile, objects
<1>2. /\ Branch(p) \in FinalCalls => p.exists /\ Holds(p) /\ p.deleting
      /\ Branch(p) = "addFinalizer" => p.exists
      /\ Branch(p) # "removeFinalizer"
  BY DEF Branch, FinalCalls, Holds
<1> HIDE DEF p
<1>3. ASSUME p.exists, Holds(p), p.deleting PROVE AllDeleted(proxy)
  <2> SUFFICES ASSUME NEW j \in 1..Len(proxy), Holds(proxy[j]) PROVE proxy[j].deleting
    BY DEF AllDeleted
  <2>1. proxy[j].exists /\ proxy[j].uid = proxy[1].uid
    BY DEF FinalInv, LogInv, HeldByCached
  <2>2. 1 \in 1..Len(proxy) /\ 1 <= j /\ proxy[1].deleting
    BY <1>0, <1>3
  <2> QED BY <2>1, <2>2 DEF FinalInv, LogInv, DeletionSticks
<1>4. p.exists /\ "proxy" \in fresh' => Len(proxy) = 1
  BY <1>1 DEF Read, Synced
<1>5. LogInv(proxy)
  BY DEF FinalInv
<1>6. /\ pc' \in FinalCalls => AllDeleted(proxy)
      /\ pc' = "addFinalizer" /\ "proxy" \in fresh' => Len(proxy) = 1
      /\ pc' # "removeFinalizer"
  BY <1>1, <1>2, <1>3, <1>4
<1>7. FinalInv'
  BY <1>1, <1>5, <1>6 DEF FinalInv
<1> QED BY <1>1, <1>7 DEF Released

\* What an update of the finalizers stores, and where Reconcile goes on.
FinalizersOf(fins) == [Live(proxy) EXCEPT !.spec = loc.proxy.spec, !.fins = fins]

LEMMA FinalizersFields ==
  ASSUME TypeOK, NEW STATE fins, fins \in SUBSET Finalizers
  PROVE  /\ FinalizersOf(fins) \in ProxyObj /\ Reap(FinalizersOf(fins)) \in ProxyObj
         /\ FinalizersOf(fins).exists = Live(proxy).exists
         /\ FinalizersOf(fins).uid = Live(proxy).uid
         /\ FinalizersOf(fins).deleting = Live(proxy).deleting
         /\ FinalizersOf(fins).fins = fins
<1> DEFINE o == FinalizersOf(fins)
<1>1. Live(proxy) \in ProxyObj /\ loc.proxy \in ProxyObj
  BY StoredTypes
<1>2. /\ o \in ProxyObj /\ o.exists = Live(proxy).exists /\ o.uid = Live(proxy).uid
      /\ o.deleting = Live(proxy).deleting /\ o.fins = fins
  BY <1>1 DEF ProxyObj, FinalizersOf
<1> HIDE DEF o
<1>3. Reap(o) \in ProxyObj
  BY <1>2, ObjectTypes
<1> QED BY <1>2, <1>3 DEF o

LEMMA FinalizersEffect ==
  ASSUME TypeOK, NEW STATE accepts, NEW STATE fins, NEW STATE ok, NEW STATE err,
         ok \in Returns, err \in Returns, WriteFinalizers(accepts, fins, ok, err)
  PROVE  /\ pc' = "idle"
         /\ \/ proxy' = proxy
            \/ accepts /\ proxy' = Commit(proxy, Reap(FinalizersOf(fins)))
<1> DEFINE new == Reap(FinalizersOf(fins))
<1>1. WriteProxy(accepts, new, ok, err)
  BY DEF WriteFinalizers, FinalizersOf
<1> HIDE DEF new
<1>2. \/ /\ accepts /\ proxy' = Commit(proxy, new)
         /\ GoOn(ok, [loc EXCEPT !.proxy = new], fresh \cup {"proxy"})
      \/ proxy' = proxy /\ GoOn(err, loc, fresh)
      \/ accepts /\ proxy' = Commit(proxy, new) /\ GoOn(err, loc, fresh \ {"proxy"})
  BY <1>1, WriteProxyEffect
<1>3. pc' = "idle"
  BY <1>2 DEF GoOn
<1> QED BY <1>2, <1>3 DEF new

\* The finalizer is added to the stored version only, and only when nothing
\* else is on its way to the cache.
LEMMA AddKeepsFinal ==
  ASSUME TypeOK, FinalInv, addFinalizer
  PROVE  FinalInv' /\ Released
<1> DEFINE fins == loc.proxy.fins \cup {Finalizer}
           accepts == Current("proxy", proxy) /\ ~Live(proxy).deleting
           o == FinalizersOf(fins)
<1>0. proxy \in Seq(ProxyObj) /\ proxy # <<>> /\ Live(proxy).uid \in Nat
  BY StoredTypes DEF TypeOK, ProxyObj
<1>1. fins \in SUBSET Finalizers /\ Finalizer \in fins
  BY StoredTypes DEF ProxyObj, Finalizers
<1>2. WriteFinalizers(accepts, fins, "requeue", "requeue") /\ pc = "addFinalizer"
  BY DEF addFinalizer
<1> HIDE DEF fins, accepts
<1>3. /\ pc' = "idle"
      /\ proxy' = proxy \/ (accepts /\ proxy' = Commit(proxy, Reap(o)))
  BY <1>2, FinalizersEffect DEF Returns
<1>4. /\ o \in ProxyObj /\ o.exists = Live(proxy).exists /\ o.uid = Live(proxy).uid
      /\ o.deleting = Live(proxy).deleting /\ o.fins = fins
  BY <1>1, FinalizersFields
<1> HIDE DEF o
<1>5. CASE proxy' = proxy
  BY <1>3, <1>5, StepKeepsFinal DEF FinalCalls
<1>6. CASE accepts /\ proxy' = Commit(proxy, Reap(o))
  <2>1. Len(proxy) = 1 /\ Live(proxy).exists
    BY <1>2, <1>6 DEF accepts, Current, FinalInv
  <2>2. Live(proxy) = proxy[1]
    BY <2>1 DEF Live
  <2>3. Reap(o) = o
    BY <1>1, <1>4 DEF Reap
  <2>4. Follows(proxy, o)
    BY <1>0, <1>4, <2>1, <2>2 DEF Follows
  <2>5. LogInv(proxy')
    <3>1. LogInv(proxy)
      BY DEF FinalInv
    <3>2. LogInv(Append(proxy, o))
      BY <1>0, <1>4, <2>4, <3>1, AppendKeepsLog
    <3> QED BY <1>6, <2>3, <3>1, <3>2 DEF Commit
  <2>6. FinalInv'
    BY <1>3, <2>5 DEF FinalInv, FinalCalls
  <2>7. Live(proxy') = o
    <3>1. Live(Commit(proxy, o)) = o
      BY <1>0, <1>4, LogSteps
    <3> QED BY <1>6, <2>3, <3>1
  <2> QED BY <1>1, <1>4, <2>6, <2>7 DEF Released
<1> QED BY <1>3, <1>5, <1>6

\* The finalizer is removed from a marked version that says "Finalized".
LEMMA RemoveKeepsFinal ==
  ASSUME TypeOK, FinalInv, removeFinalizer
  PROVE  FinalInv' /\ Released
<1>0. proxy \in Seq(ProxyObj) /\ proxy # <<>> /\ pc = "removeFinalizer"
  BY DEF TypeOK, removeFinalizer
<1>1. CASE Finalizer \notin loc.proxy.fins
  <2>1. proxy' = proxy /\ pc' = "idle"
    BY <1>1 DEF removeFinalizer, Step, GoOn, Returns, objects
  <2> QED BY <2>1, StepKeepsFinal DEF FinalCalls
<1>2. CASE Finalizer \in loc.proxy.fins
  <2> DEFINE fins == loc.proxy.fins \ {Finalizer}
             accepts == Current("proxy", proxy)
             o == FinalizersOf(fins)
  <2>1. fins \in SUBSET Finalizers /\ Finalizer \notin fins
    BY StoredTypes DEF ProxyObj
  <2>2. WriteFinalizers(accepts, fins, "done", "requeue")
    BY <1>2 DEF removeFinalizer
  <2> HIDE DEF fins, accepts
  <2>3. /\ pc' = "idle"
        /\ proxy' = proxy \/ (accepts /\ proxy' = Commit(proxy, Reap(o)))
    BY <2>2, FinalizersEffect DEF Returns
  <2>4. /\ o \in ProxyObj /\ o.exists = Live(proxy).exists /\ o.uid = Live(proxy).uid
        /\ o.deleting = Live(proxy).deleting /\ o.fins = fins /\ Reap(o) \in ProxyObj
    BY <2>1, FinalizersFields
  <2> HIDE DEF o
  <2>5. CASE proxy' = proxy
    BY <2>3, <2>5, StepKeepsFinal DEF FinalCalls
  <2>6. CASE accepts /\ proxy' = Commit(proxy, Reap(o))
    <3>1. "proxy" \in fresh /\ Live(proxy).exists /\ Live(proxy) \in ProxyObj
      BY <2>6, StoredTypes DEF accepts, Current
    <3>2. Continues(Live(proxy), Reap(o))
      BY <2>1, <2>4, <3>1, ReapContinues DEF Holds
    <3> DEFINE new == Reap(o)
    <3>3. /\ new \in ProxyObj /\ Continues(Live(proxy), new) /\ proxy' = Commit(proxy, new)
          /\ pc' \notin FinalCalls /\ pc' # "addFinalizer" /\ pc' # "removeFinalizer"
      BY <2>3, <2>4, <2>6, <3>2 DEF FinalCalls
    <3> HIDE DEF new
    <3>4. FinalInv'
      BY <3>3, WriteKeepsFinal
    <3>5. AllDeleted(proxy) /\ LogInv(proxy) /\ Live(proxy).status.degraded = "Finalized"
      BY <1>0, <3>1 DEF FinalInv, FinalCalls
    <3>6. Holds(Live(proxy)) => Live(proxy).deleting
      BY <1>0, <3>5, StoredInLog
    <3> QED BY <3>4, <3>5, <3>6 DEF Released, Holds
  <2> QED BY <2>3, <2>5, <2>6
<1> QED BY <1>1, <1>2

\* Reconcile works on the Deployment and the Service outside the deletion branch,
\* and does not come to it from there.
LEMMA DependentsKeepFinal ==
  ASSUME TypeOK, AfterKnown, FinalInv,
         \/ getDep \/ listRuleset \/ checkRulesets \/ listMounts \/ createDep
         \/ updateDep \/ refetchForDep \/ getSvc \/ createSvc \/ updateSvc \/ refetchForSvc
  PROVE  FinalInv' /\ Released
<1> DEFINE On == {"requeue", "createDep", "updateDep", "updateSvc", "listMounts",
                  "checkRulesets", "getSvc", "createSvc", "available", "createFailed",
                  "refetchForDep", "depFailed", "refetchForSvc", "svcFailed"}
<1>1. \A to \in On : to \notin FinalCalls \cup {"addFinalizer", "removeFinalizer"}
  BY DEF FinalCalls
<1>2. loc.after \in On
  BY DEF AfterKnown, Afters
<1>3. ASSUME NEW STATE to, to \in On, NEW STATE l, NEW STATE f, GoOn(to, l, f), proxy' = proxy
      PROVE  FinalInv' /\ Released
  <2>1. pc' = "idle" \/ pc' = to
    BY <1>3 DEF GoOn
  <2>2. "idle" \notin FinalCalls
    BY DEF FinalCalls
  <2> QED BY <1>1, <1>3, <2>1, <2>2, StepKeepsFinal
<1> HIDE DEF On
<1>4. ASSUME NEW STATE to, to \in On, NEW STATE l, NEW STATE f, Step(to, l, f)
      PROVE  FinalInv' /\ Released
  BY <1>3, <1>4 DEF Step, objects
<1>5. CASE getDep \/ listRuleset \/ checkRulesets \/ listMounts \/ getSvc
  <2>1. PICK to, l, f : Step(to, l, f) /\ to \in On
    <3>1. CASE getDep
      BY <3>1 DEF getDep, On
    <3>2. CASE listRuleset
      BY <3>2 DEF listRuleset, On
    <3>3. CASE checkRulesets
      BY <3>3 DEF checkRulesets, On
    <3>4. CASE listMounts
      BY <1>2, <3>4 DEF listMounts
    <3>5. CASE getSvc
      BY <3>5 DEF getSvc, ManagePortChange, On
    <3> QED BY <1>5, <3>1, <3>2, <3>3, <3>4, <3>5
  <2> QED BY <1>4, <2>1
<1>6. CASE refetchForDep \/ refetchForSvc
  BY <1>4, <1>6 DEF refetchForDep, refetchForSvc, Refetch, On
<1>7. ASSUME NEW STATE accepts, NEW STATE new, NEW STATE ok, NEW STATE err, ok \in On, err \in On,
             WriteDep(accepts, new, ok, err) \/ WriteSvc(accepts, new, ok, err)
      PROVE  FinalInv' /\ Released
  <2>1. CASE WriteDep(accepts, new, ok, err)
    <3>1. /\ \/ GoOn(ok, [loc EXCEPT !.dep = new], fresh \cup {"dep"})
             \/ GoOn(err, loc, fresh)
             \/ GoOn(err, loc, fresh \ {"dep"})
          /\ proxy' = proxy
      BY <2>1, WriteDepEffect
    <3> QED BY <1>3, <1>7, <3>1
  <2>2. CASE WriteSvc(accepts, new, ok, err)
    <3>1. /\ \/ GoOn(ok, [loc EXCEPT !.svc = new], fresh \cup {"svc"})
             \/ GoOn(err, loc, fresh)
             \/ GoOn(err, loc, fresh \ {"svc"})
          /\ proxy' = proxy
      BY <2>2, WriteSvcEffect
    <3> QED BY <1>3, <1>7, <3>1
  <2> QED BY <1>7, <2>1, <2>2
<1>8. CASE createDep \/ updateDep \/ createSvc \/ updateSvc
  <2>1. {"requeue", "createFailed", "refetchForDep", "refetchForSvc"} \subseteq On
    BY DEF On
  <2> QED BY <1>2, <1>7, <1>8, <2>1 DEF createDep, updateDep, createSvc, updateSvc
<1> QED BY <1>5, <1>6, <1>7, <1>8

\* No call of Reconcile releases the proxy too early.
LEMMA WorkKeepsFinal ==
  ASSUME TypeOK, AfterKnown, FinalInv, Work
  PROVE  FinalInv' /\ Released
<1>1. CASE initStatus \/ createFailed \/ svcFailed
  <2>1. {<<"Starting", 0>>, <<"CreateFailed", 0>>, <<"SvcFailed", 0>>} \subseteq Available
    BY DEF Available
  <2>2. PICK value \in Available : WriteStatus("available", value, "requeue", "requeue")
    BY <1>1, <2>1 DEF initStatus, createFailed, svcFailed
  <2> QED BY <2>2, StatusKeepsFinal DEF Condition, FinalCalls
<1>2. CASE depFailed
  <2>1. <<"DepFailed", 0>> \in Available
    BY DEF Available
  <2>2. loc.after \notin FinalCalls \cup {"addFinalizer", "removeFinalizer"}
    BY DEF AfterKnown, Afters, FinalCalls
  <2>3. "requeue" \notin FinalCalls
    BY DEF FinalCalls
  <2> QED BY <1>2, <2>1, <2>2, <2>3, StatusKeepsFinal DEF depFailed, Condition
<1>3. CASE available
  <2>1. <<"Created", loc.proxy.spec.size>> \in Available
    BY StoredTypes, SpecTypes DEF ProxyObj, Available
  <2> QED BY <1>3, <2>1, StatusKeepsFinal DEF available, Condition, FinalCalls
<1>4. CASE finalizing
  <2>1. "Finalizing" \in Degraded /\ pc \in FinalCalls
    BY <1>4 DEF Degraded, FinalCalls, finalizing
  <2> QED BY <1>4, <2>1, StatusKeepsFinal DEF finalizing, Condition
<1>5. CASE finalized
  <2>1. "Finalized" \in Degraded /\ pc \in FinalCalls
    BY <1>5 DEF Degraded, FinalCalls, finalized
  <2> QED BY <1>5, <2>1, StatusKeepsFinal DEF finalized, Condition
<1>6. CASE refetchDeleted
  <2>1. proxy' = proxy /\ pc' \in {"idle", "finalized"} /\ pc \in FinalCalls
    BY <1>6 DEF refetchDeleted, Refetch, Step, GoOn, Returns, objects, FinalCalls
  <2> QED BY <2>1, StepKeepsFinal
<1> QED BY <1>1, <1>2, <1>3, <1>4, <1>5, <1>6, ReconcileKeepsFinal, AddKeepsFinal,
           RemoveKeepsFinal, DependentsKeepFinal DEF Work

\* A write of the proxy by another keeps the finalizer, and leaves Reconcile with
\* a copy that is out of date.
LEMMA OtherWriteKeepsFinal ==
  ASSUME TypeOK, FinalInv, NEW STATE o, o \in ProxyObj, Continues(Live(proxy), o),
         Holds(Live(proxy)) => Holds(o),
         proxy' = Append(proxy, o), "proxy" \notin fresh', pc' = pc
  PROVE  FinalInv' /\ Released
<1>1. FinalInv' /\ Live(proxy') = o
  BY WriteKeepsFinal
<1> QED BY <1>1 DEF Released, Holds

\* Users neither take the finalizer away nor take a deletion back.
LEMMA UsersKeepFinal ==
  ASSUME TypeOK, FinalInv, Users
  PROVE  FinalInv' /\ Released
<1>0. pc' = pc
  BY DEF Users, EditProxy, DeleteProxy, CreateProxy, ScaleDep, RollDep, DeleteDep, DeleteSvc,
         MakeDep, MakeSvc, ConfigMapChanges, UserProxy, UserDep, User
<1>1. Live(proxy) \in ProxyObj /\ proxy \in Seq(ProxyObj) /\ proxy # <<>> /\ LogInv(proxy)
  BY StoredTypes DEF TypeOK, FinalInv
<1>2. CASE EditProxy
  <2>1. PICK spec \in Specs : UserProxy("edit", [Live(proxy) EXCEPT !.spec = spec])
    BY <1>2 DEF EditProxy
  <2> DEFINE o == [Live(proxy) EXCEPT !.spec = spec]
  <2>2. /\ o \in ProxyObj /\ o.exists = Live(proxy).exists /\ o.uid = Live(proxy).uid
        /\ o.deleting = Live(proxy).deleting /\ o.fins = Live(proxy).fins
    BY <1>1 DEF ProxyObj
  <2>3. proxy' = Append(proxy, o) /\ "proxy" \notin fresh'
    BY <2>1 DEF UserProxy
  <2>4. Live(proxy).exists
    BY <1>2 DEF EditProxy
  <2> HIDE DEF o
  <2>5. Continues(Live(proxy), o)
    BY <1>1, <2>2, <2>4, SameContinues DEF Holds
  <2> QED BY <1>0, <2>2, <2>3, <2>5, OtherWriteKeepsFinal DEF Holds
<1>3. CASE DeleteProxy
  <2> DEFINE o == [Live(proxy) EXCEPT !.deleting = TRUE]
             g == [Live(proxy) EXCEPT !.deleting = TRUE, !.fins = @ \cup {Foreground}]
  <2>1. \/ UserProxy("delete", Reap(o))
        \/ UserProxy("foreground", g)
    BY <1>3 DEF DeleteProxy
  <2>2. Live(proxy).exists
    BY <1>3 DEF DeleteProxy
  <2>3. /\ o \in ProxyObj /\ o.exists = Live(proxy).exists /\ o.uid = Live(proxy).uid
        /\ o.deleting /\ o.fins = Live(proxy).fins
    BY <1>1 DEF ProxyObj
  <2>4. g \in ProxyObj
    <3>1. Live(proxy).fins \cup {Foreground} \in SUBSET Finalizers
      BY <1>1 DEF ProxyObj, Finalizers
    <3> QED BY <1>1, <3>1 DEF ProxyObj
  <2>5. /\ g.exists = Live(proxy).exists /\ g.uid = Live(proxy).uid
        /\ g.deleting /\ g.fins = Live(proxy).fins \cup {Foreground}
    BY <1>1 DEF ProxyObj
  <2>6. Finalizer \in Live(proxy).fins \cup {Foreground} <=> Finalizer \in Live(proxy).fins
    BY DEF Finalizer, Foreground
  <2> HIDE DEF o, g
  <2>7. CASE UserProxy("delete", Reap(o))
    <3>1. Continues(Live(proxy), Reap(o)) /\ (Holds(Reap(o)) <=> Holds(o))
      BY <1>1, <2>2, <2>3, ReapContinues DEF Holds
    <3>2. Reap(o) \in ProxyObj
      BY <2>3, ObjectTypes
    <3> DEFINE new == Reap(o)
    <3>3. proxy' = Append(proxy, new) /\ "proxy" \notin fresh'
      BY <2>7 DEF UserProxy
    <3>4. /\ new \in ProxyObj /\ Continues(Live(proxy), new)
          /\ Holds(Live(proxy)) => Holds(new)
      BY <2>3, <3>1, <3>2 DEF Holds
    <3> HIDE DEF new
    <3> QED BY <1>0, <3>3, <3>4, OtherWriteKeepsFinal
  <2>8. CASE UserProxy("foreground", g)
    <3>1. Holds(g) <=> Holds(Live(proxy))
      BY <2>5, <2>6 DEF Holds
    <3>2. Continues(Live(proxy), g)
      BY <1>1, <2>2, <2>4, <2>5, <3>1, SameContinues
    <3>3. proxy' = Append(proxy, g) /\ "proxy" \notin fresh'
      BY <2>8 DEF UserProxy
    <3> QED BY <1>0, <2>4, <3>1, <3>2, <3>3, OtherWriteKeepsFinal
  <2> QED BY <2>1, <2>7, <2>8
<1>4. CASE CreateProxy
  <2>1. PICK spec \in Specs : UserProxy("create", NewProxy(Live(proxy), spec))
    BY <1>4 DEF CreateProxy
  <2> DEFINE o == NewProxy(Live(proxy), spec)
  <2>2. o \in ProxyObj
    BY <1>1, ObjectTypes
  <2>3. o.uid = Live(proxy).uid + 1 /\ o.fins = {}
    BY DEF NewProxy, NoProxy
  <2>4. proxy' = Append(proxy, o) /\ "proxy" \notin fresh'
    BY <2>1 DEF UserProxy
  <2> HIDE DEF o
  <2>5. ~Holds(o) /\ ~Holds(Live(proxy))
    BY <1>1, <1>4, <2>3, StoredInLog DEF Holds, CreateProxy
  <2>6. Live(proxy).uid \in Nat
    BY <1>1, StoredInLog
  <2>7. Continues(Live(proxy), o)
    BY <2>3, <2>5, <2>6 DEF Continues
  <2> QED BY <1>0, <2>2, <2>4, <2>5, <2>7, OtherWriteKeepsFinal
<1>5. CASE \/ ScaleDep \/ RollDep \/ DeleteDep \/ DeleteSvc \/ MakeDep \/ MakeSvc
           \/ \E n \in Names : ConfigMapChanges(n)
  <2>1. proxy' = proxy /\ fresh' \subseteq fresh
    BY <1>5 DEF ScaleDep, RollDep, DeleteDep, DeleteSvc, MakeDep, MakeSvc, ConfigMapChanges,
                UserDep
  <2> QED BY <1>0, <2>1, OthersKeepFinal
<1> QED BY <1>2, <1>3, <1>4, <1>5 DEF Users

\* Deliveries, restarts and the garbage collector keep the finalizer.
LEMMA EnvironmentKeepsFinal ==
  ASSUME TypeOK, FinalInv, Environment \/ Restart
  PROVE  FinalInv' /\ Released
<1>0. /\ Live(proxy) \in ProxyObj /\ proxy \in Seq(ProxyObj) /\ proxy # <<>> /\ LogInv(proxy)
  BY StoredTypes DEF TypeOK, FinalInv
<1>1. CASE DeliverProxy
  <2>1. Len(proxy) # 1 /\ proxy' = Tail(proxy) /\ pc' = pc /\ fresh' = fresh
    BY <1>1 DEF DeliverProxy, Synced, Catchup
  <2>2. Len(proxy) >= 2
    BY <1>0, <2>1, LogDelivers
  <2>3. LogInv(proxy') /\ (AllDeleted(proxy) => AllDeleted(proxy'))
    <3>1. LogInv(Tail(proxy)) /\ (AllDeleted(proxy) => AllDeleted(Tail(proxy)))
      BY <1>0, <2>2, TailKeepsLog
    <3> QED BY <2>1, <3>1
  <2>4. Live(proxy') = Live(proxy)
    <3>1. Live(Tail(proxy)) = Live(proxy)
      BY <1>0, <2>2, TailEntries
    <3> QED BY <2>1, <3>1
  <2> QED BY <2>1, <2>3, <2>4 DEF FinalInv, Released
<1>2. CASE GCProxy
  <2> DEFINE o == [Live(proxy) EXCEPT !.fins = @ \ {Foreground}]
             new == Reap(o)
  <2>1. /\ o \in ProxyObj /\ o.exists = Live(proxy).exists /\ o.uid = Live(proxy).uid
        /\ o.deleting = Live(proxy).deleting /\ o.fins = Live(proxy).fins \ {Foreground}
    BY <1>0 DEF ProxyObj
  <2>2. proxy' = Append(proxy, Reap(o)) /\ "proxy" \notin fresh' /\ pc' = pc
    BY <1>2 DEF GCProxy
  <2>3. Live(proxy).exists
    BY <1>0, <1>2, StoredInLog DEF GCProxy
  <2> HIDE DEF o, new
  <2>4. Holds(o) <=> Holds(Live(proxy))
    BY <2>1 DEF Holds, Finalizer, Foreground
  <2>5. Continues(Live(proxy), new) /\ (Holds(new) <=> Holds(o))
    BY <1>0, <2>1, <2>3, <2>4, ReapContinues DEF new
  <2>6. new \in ProxyObj /\ proxy' = Append(proxy, new)
    BY <2>1, <2>2, ObjectTypes DEF new
  <2> QED BY <2>2, <2>4, <2>5, <2>6, OtherWriteKeepsFinal
<1>3. CASE Restart
  <2>1. proxy' = Relist(proxy) /\ pc' = "idle"
    BY <1>3 DEF Restart
  <2>2. LogInv(proxy') /\ Live(proxy') = Live(proxy)
    BY <1>0, <2>1, RelistKeepsLog, LogSteps
  <2> QED BY <2>1, <2>2 DEF FinalInv, FinalCalls, Released
<1>4. CASE \/ DeliverDep \/ DeliverSvc \/ (\E n \in Names : DeliverCM(n))
           \/ TimerFires \/ ResyncFires \/ GCDep \/ GCSvc
  <2>1. proxy' = proxy /\ pc' = pc /\ fresh' \subseteq fresh
    BY <1>4 DEF DeliverDep, DeliverSvc, DeliverCM, TimerFires, ResyncFires, GCDep, GCSvc, objects
  <2> QED BY <2>1, OthersKeepFinal
<1> QED BY <1>1, <1>2, <1>3, <1>4 DEF Environment

\* At the start there is only the proxy that was just applied, not held yet.
LEMMA InitFinal == Init => FinalInv
<1> SUFFICES ASSUME Init PROVE FinalInv
  OBVIOUS
<1>1. PICK spec \in Specs : proxy = <<NoProxy, NewProxy(NoProxy, spec)>>
  BY DEF Init
<1> DEFINE new == NewProxy(NoProxy, spec)
<1>2. /\ NoProxy.uid = 0 /\ NoProxy.fins = {} /\ NoProxy.deleting = FALSE
      /\ new.uid = 1 /\ new.fins = {} /\ new.deleting = FALSE
  BY DEF NoProxy, NewProxy
<1> HIDE DEF new
<1>3. Len(proxy) = 2 /\ proxy[1] = NoProxy /\ proxy[2] = new
  BY <1>1 DEF new
<1>4. \A i \in 1..Len(proxy) : ~Holds(proxy[i]) /\ proxy[i].deleting = FALSE
  BY <1>2, <1>3 DEF Holds
<1>5. UidsGrow(proxy) /\ Present(proxy)
  BY <1>2, <1>3 DEF UidsGrow, Present
<1>6. LogInv(proxy)
  BY <1>4, <1>5 DEF LogInv, HeldByCached, DeletionSticks
<1> QED BY <1>6 DEF Init, FinalInv, FinalCalls

\* The finalizer leaves a proxy only when its deletion was asked for and the
\* status "Finalizer operations ... were successfully accomplished" is stored:
\* villipProxyMarkedToBeDeleted works with copies from a cache that may lag, among
\* edits, deletions and new incarnations by users, and never releases a proxy that
\* is not on its way out.
THEOREM FinalizerKept == Spec => FinalizedFirst
<1>1. TypeOK /\ AfterKnown /\ FinalInv /\ [Next]_vars => FinalInv' /\ Released
  <2> SUFFICES ASSUME TypeOK, AfterKnown, FinalInv, [Next]_vars PROVE FinalInv' /\ Released
    OBVIOUS
  <2>1. CASE UNCHANGED vars
    BY <2>1, OthersKeepFinal DEF vars, objects
  <2> QED BY <2>1, WorkKeepsFinal, UsersKeepFinal, EnvironmentKeepsFinal DEF Next
<1>2. TypeOK /\ AfterKnown /\ FinalInv /\ [Next]_vars =>
        ((Finalizer \in Live(proxy).fins \ Live(proxy').fins) =>
           Live(proxy).deleting /\ Live(proxy).status.degraded = "Finalized")
  BY <1>1 DEF Released
<1> QED BY <1>1, <1>2, InitFinal, TypeCorrect, AfterInvariant, PTL DEF Spec, FinalizedFirst

------------------------------------------------------------------------------
(***************************************************************************)
(* The garbage collector's finalizer.  Reconcile stores finalizers only    *)
(* with a copy that is the stored proxy, and takes none but its own away.  *)
(***************************************************************************)
KeepsForeground == Foreground \in Live(proxy).fins => Foreground \in Live(proxy').fins

LEMMA SameKeepsForeground ==
  ASSUME proxy' = proxy
  PROVE  KeepsForeground
  BY DEF KeepsForeground

\* A status update leaves the finalizers alone.
LEMMA StatusKeepsForeground ==
  ASSUME TypeOK, NEW STATE condition, NEW STATE value, NEW STATE ok, NEW STATE err,
         Condition(condition, value), WriteStatus(condition, value, ok, err)
  PROVE  KeepsForeground
<1> DEFINE new == StatusOf(condition, value)
<1>1. new \in ProxyObj /\ new.fins = Live(proxy).fins
  BY StatusFields
<1>2. WriteProxy(Current("proxy", proxy), new, ok, err)
  BY DEF WriteStatus, StatusOf
<1> HIDE DEF new
<1>3. proxy' = proxy \/ proxy' = Commit(proxy, new)
  BY <1>2, WriteProxyEffect
<1>4. Live(Commit(proxy, new)) = new
  BY <1>1, LogSteps DEF TypeOK
<1> QED BY <1>1, <1>3, <1>4 DEF KeepsForeground

\* So does an update of the finalizers from a copy that carries the stored
\* version, when it drops none but the operator's.
LEMMA FinalizersKeepForeground ==
  ASSUME TypeOK, CopyCurrent, NEW STATE accepts, NEW STATE fins, NEW STATE ok, NEW STATE err,
         fins \in SUBSET Finalizers, Foreground \in loc.proxy.fins => Foreground \in fins,
         accepts => "proxy" \in fresh, ok \in Returns, err \in Returns,
         WriteFinalizers(accepts, fins, ok, err)
  PROVE  KeepsForeground
<1> DEFINE o == FinalizersOf(fins)
<1>1. Reap(o) \in ProxyObj /\ o.fins = fins
  BY FinalizersFields
<1>2. proxy' = proxy \/ (accepts /\ proxy' = Commit(proxy, Reap(o)))
  BY FinalizersEffect
<1> HIDE DEF o
<1>3. Live(Commit(proxy, Reap(o))) = Reap(o)
  BY <1>1, LogSteps DEF TypeOK
<1>4. fins # {} => Reap(o) = o
  BY <1>1 DEF Reap
<1>5. accepts => loc.proxy = Live(proxy)
  BY DEF CopyCurrent
<1> QED BY <1>1, <1>2, <1>3, <1>4, <1>5 DEF KeepsForeground

\* A foreground deletion that arrives while Reconcile works with an older copy is
\* not taken back: neither addFinalizer nor the removal of the operator's
\* finalizer, both Updates of a whole copy, drops the garbage collector's.
THEOREM ForegroundDeletionKept == Spec => ForegroundKept
<1>1. TypeOK /\ CopyCurrent /\ [Next]_vars =>
        (Work /\ Foreground \in Live(proxy).fins => Foreground \in Live(proxy').fins)
  <2> SUFFICES ASSUME TypeOK, CopyCurrent, Work PROVE KeepsForeground
    BY DEF KeepsForeground
  <2>0. loc.proxy \in ProxyObj
    BY StoredTypes
  <2>1. CASE initStatus \/ createFailed \/ depFailed \/ svcFailed \/ finalizing \/ finalized
    <3>1. {<<"Starting", 0>>, <<"CreateFailed", 0>>, <<"DepFailed", 0>>, <<"SvcFailed", 0>>}
            \subseteq Available
      BY DEF Available
    <3>2. {"Finalizing", "Finalized"} \subseteq Degraded
      BY DEF Degraded
    <3> QED BY <2>1, <3>1, <3>2, StatusKeepsForeground
            DEF initStatus, createFailed, depFailed, svcFailed, finalizing, finalized, Condition
  <2>2. CASE available
    <3>1. <<"Created", loc.proxy.spec.size>> \in Available
      BY <2>0, SpecTypes DEF ProxyObj, Available
    <3> QED BY <2>2, <3>1, StatusKeepsForeground DEF available, Condition
  <2>3. CASE addFinalizer
    <3>1. loc.proxy.fins \cup {Finalizer} \in SUBSET Finalizers
      BY <2>0 DEF ProxyObj, Finalizers
    <3> QED BY <2>3, <3>1, FinalizersKeepForeground DEF addFinalizer, Current, Returns
  <2>4. CASE removeFinalizer
    <3>1. loc.proxy.fins \ {Finalizer} \in SUBSET Finalizers
      BY <2>0 DEF ProxyObj
    <3>2. Foreground # Finalizer
      BY DEF Foreground, Finalizer
    <3>3. CASE Finalizer \in loc.proxy.fins
      BY <2>4, <3>1, <3>2, <3>3, FinalizersKeepForeground DEF removeFinalizer, Current, Returns
    <3>4. CASE Finalizer \notin loc.proxy.fins
      BY <2>4, <3>4, SameKeepsForeground DEF removeFinalizer, Step, objects
    <3> QED BY <3>3, <3>4
  <2>5. CASE \/ Reconcile \/ refetchDeleted \/ refetchForDep \/ refetchForSvc
             \/ getDep \/ listRuleset \/ checkRulesets \/ listMounts \/ getSvc
             \/ createDep \/ updateDep \/ createSvc \/ updateSvc
    <3>1. proxy' = proxy
      BY <2>5 DEF Reconcile, refetchDeleted, refetchForDep, refetchForSvc, Refetch, getDep,
         listRuleset, checkRulesets, listMounts, getSvc, ManagePortChange, Step, objects,
         createDep, updateDep, createSvc, updateSvc, WriteDep, WriteSvc
    <3> QED BY <3>1, SameKeepsForeground
  <2> QED BY <2>1, <2>2, <2>3, <2>4, <2>5 DEF Work
<1> QED BY <1>1, TypeCorrect, CopyInvariant, PTL DEF Spec, ForegroundKept
==============================================================================
