------------------------ MODULE VillipProxyStepProofs ------------------------
(***************************************************************************)
(* Proofs of what a step of VillipProxy may do to what the API server      *)
(* stores: to the proxy's spec and to a rollout stamp of the Deployment.   *)
(***************************************************************************)
EXTENDS VillipProxyProofs

------------------------------------------------------------------------------
(***************************************************************************)
(* The spec of the stored proxy.  A copy of the proxy that carries the     *)
(* stored resourceVersion is the stored proxy.                             *)
(***************************************************************************)
CopyCurrent == "proxy" \in fresh => loc.proxy = Live(proxy)

KeepsSpec == Live(proxy').exists => Live(proxy').spec = Live(proxy).spec

\* How a call keeps the copy: it goes on with one that matches what it leaves.
LEMMA GoOnCopy ==
  ASSUME NEW ACTION to, NEW ACTION l, NEW ACTION f, GoOn(to, l, f),
         "proxy" \in f => l.proxy = Live(proxy')
  PROVE  CopyCurrent'
  BY DEF GoOn, CopyCurrent

\* Steps that write nothing and keep the copy of the proxy.
LEMMA StepKeepsCopy ==
  ASSUME CopyCurrent, NEW ACTION to, NEW ACTION l, NEW ACTION f, Step(to, l, f),
         l.proxy = loc.proxy, "proxy" \in f => "proxy" \in fresh
  PROVE  CopyCurrent' /\ KeepsSpec
<1>1. GoOn(to, l, f) /\ proxy' = proxy
  BY DEF Step, objects
<1>2. "proxy" \in f => l.proxy = Live(proxy')
  BY <1>1 DEF CopyCurrent
<1>3. CopyCurrent'
  BY <1>1, <1>2, GoOnCopy
<1> QED BY <1>1, <1>3 DEF KeepsSpec

\* A write of the proxy leaves its own version as the copy, or the old copy.
LEMMA WriteProxyKeepsCopy ==
  ASSUME TypeOK, CopyCurrent, NEW STATE accepts, NEW STATE new, NEW STATE ok, NEW STATE err,
         new \in ProxyObj, WriteProxy(accepts, new, ok, err)
  PROVE  CopyCurrent' /\ (proxy' = proxy \/ (accepts /\ proxy' = Commit(proxy, new)))
<1>0. proxy \in Seq(ProxyObj) /\ proxy # <<>> /\ loc \in LocType
  BY DEF TypeOK, LocType
<1>1. CASE /\ accepts /\ proxy' = Commit(proxy, new)
           /\ GoOn(ok, [loc EXCEPT !.proxy = new], fresh \cup {"proxy"})
  <2> DEFINE l == [loc EXCEPT !.proxy = new]
  <2>1. l.proxy = new
    BY <1>0 DEF LocType
  <2>2. Live(proxy') = new
    BY <1>0, <1>1, LogSteps
  <2>3. GoOn(ok, l, fresh \cup {"proxy"})
    BY <1>1
  <2> HIDE DEF l
  <2> QED BY <1>1, <2>1, <2>2, <2>3, GoOnCopy
<1>2. CASE proxy' = proxy /\ GoOn(err, loc, fresh)
  BY <1>2, GoOnCopy DEF CopyCurrent
<1>3. CASE accepts /\ proxy' = Commit(proxy, new) /\ GoOn(err, loc, fresh \ {"proxy"})
  BY <1>3, GoOnCopy
<1>4. \/ /\ accepts /\ proxy' = Commit(proxy, new)
         /\ GoOn(ok, [loc EXCEPT !.proxy = new], fresh \cup {"proxy"})
      \/ proxy' = proxy /\ GoOn(err, loc, fresh)
      \/ accepts /\ proxy' = Commit(proxy, new) /\ GoOn(err, loc, fresh \ {"proxy"})
  BY WriteProxyEffect
<1> QED BY <1>1, <1>2, <1>3, <1>4

\* Writes of the other objects leave the copy of the proxy alone.
LEMMA OtherWritesKeepCopy ==
  ASSUME TypeOK, CopyCurrent, NEW STATE accepts, NEW STATE new, NEW STATE ok, NEW STATE err,
         WriteDep(accepts, new, ok, err) \/ WriteSvc(accepts, new, ok, err)
  PROVE  CopyCurrent' /\ KeepsSpec
<1>0. /\ loc \in LocType
      /\ [loc EXCEPT !.dep = new].proxy = loc.proxy /\ [loc EXCEPT !.svc = new].proxy = loc.proxy
  BY DEF TypeOK, LocType
<1>1. ASSUME NEW STATE l, l.proxy = loc.proxy, NEW STATE f, "proxy" \in f => "proxy" \in fresh,
             NEW STATE to, GoOn(to, l, f), proxy' = proxy
      PROVE  CopyCurrent' /\ KeepsSpec
  BY <1>1, GoOnCopy DEF CopyCurrent, KeepsSpec
<1>2. proxy' = proxy
  BY DEF WriteDep, WriteSvc
<1>3. CASE WriteDep(accepts, new, ok, err)
  <2>1. \/ GoOn(ok, [loc EXCEPT !.dep = new], fresh \cup {"dep"})
        \/ GoOn(err, loc, fresh)
        \/ GoOn(err, loc, fresh \ {"dep"})
    BY <1>3, WriteDepEffect
  <2>2. CASE GoOn(ok, [loc EXCEPT !.dep = new], fresh \cup {"dep"})
    BY <1>0, <1>1, <1>2, <2>2
  <2>3. CASE GoOn(err, loc, fresh)
    BY <1>1, <1>2, <2>3
  <2>4. CASE GoOn(err, loc, fresh \ {"dep"})
    BY <1>1, <1>2, <2>4
  <2> QED BY <2>1, <2>2, <2>3, <2>4
<1>4. CASE WriteSvc(accepts, new, ok, err)
  <2>1. \/ GoOn(ok, [loc EXCEPT !.svc = new], fresh \cup {"svc"})
        \/ GoOn(err, loc, fresh)
        \/ GoOn(err, loc, fresh \ {"svc"})
    BY <1>4, WriteSvcEffect
  <2>2. CASE GoOn(ok, [loc EXCEPT !.svc = new], fresh \cup {"svc"})
    BY <1>0, <1>1, <1>2, <2>2
  <2>3. CASE GoOn(err, loc, fresh)
    BY <1>1, <1>2, <2>3
  <2>4. CASE GoOn(err, loc, fresh \ {"svc"})
    BY <1>1, <1>2, <2>4
  <2> QED BY <2>1, <2>2, <2>3, <2>4
<1> QED BY <1>3, <1>4

\* What WriteStatus stores, and what it leaves.
StatusOf(condition, value) ==
  [Live(proxy) EXCEPT !.status = [loc.proxy.status EXCEPT ![condition] = value]]

Condition(condition, value) ==
  \/ condition = "available" /\ value \in Available
  \/ condition = "degraded" /\ value \in Degraded

LEMMA StatusFields ==
  ASSUME TypeOK, NEW STATE condition, NEW STATE value, Condition(condition, value)
  PROVE  /\ StatusOf(condition, value) \in ProxyObj
         /\ StatusOf(condition, value).exists = Live(proxy).exists
         /\ StatusOf(condition, value).uid = Live(proxy).uid
         /\ StatusOf(condition, value).spec = Live(proxy).spec
         /\ StatusOf(condition, value).fins = Live(proxy).fins
         /\ StatusOf(condition, value).deleting = Live(proxy).deleting
         /\ condition = "degraded" => StatusOf(condition, value).status.degraded = value
<1> DEFINE status == [loc.proxy.status EXCEPT ![condition] = value]
<1>1. Live(proxy) \in ProxyObj /\ loc.proxy \in ProxyObj
  BY StoredTypes
<1>2. loc.proxy.status \in [available : Available, degraded : Degraded]
  BY <1>1 DEF ProxyObj
<1>3. /\ status \in [available : Available, degraded : Degraded]
      /\ condition = "degraded" => status.degraded = value
  <2>1. CASE condition = "available" /\ value \in Available
    BY <1>2, <2>1
  <2>2. CASE condition = "degraded" /\ value \in Degraded
    BY <1>2, <2>2
  <2> QED BY <2>1, <2>2 DEF Condition
<1>4. StatusOf(condition, value) = [Live(proxy) EXCEPT !.status = status]
  BY DEF StatusOf
<1> HIDE DEF status
<1> QED BY <1>1, <1>3, <1>4 DEF ProxyObj

\* A status update keeps the spec.
LEMMA StatusKeepsCopy ==
  ASSUME TypeOK, CopyCurrent, NEW STATE condition, NEW STATE value, NEW STATE ok, NEW STATE err,
         Condition(condition, value), WriteStatus(condition, value, ok, err)
  PROVE  CopyCurrent' /\ KeepsSpec
<1> DEFINE new == StatusOf(condition, value)
<1>1. new \in ProxyObj /\ new.spec = Live(proxy).spec
  BY StatusFields
<1>2. WriteProxy(Current("proxy", proxy), new, ok, err)
  BY DEF WriteStatus, StatusOf
<1> HIDE DEF new
<1>3. CopyCurrent' /\ (proxy' = proxy \/ proxy' = Commit(proxy, new))
  BY <1>1, <1>2, WriteProxyKeepsCopy
<1>4. Live(Commit(proxy, new)) = new
  BY <1>1, LogSteps DEF TypeOK
<1> QED BY <1>1, <1>3, <1>4 DEF KeepsSpec

\* An update of the finalizers stores the copy's spec: it is accepted only when
\* that is the stored one.
LEMMA FinalizersKeepCopy ==
  ASSUME TypeOK, CopyCurrent, NEW STATE accepts, NEW STATE fins, NEW STATE ok, NEW STATE err,
         fins \in SUBSET Finalizers, accepts => "proxy" \in fresh,
         WriteFinalizers(accepts, fins, ok, err)
  PROVE  CopyCurrent' /\ KeepsSpec
<1> DEFINE o == [Live(proxy) EXCEPT !.spec = loc.proxy.spec, !.fins = fins]
<1>1. Live(proxy) \in ProxyObj /\ loc.proxy \in ProxyObj
  BY StoredTypes
<1>2. o \in ProxyObj /\ o.spec = loc.proxy.spec
  BY <1>1 DEF ProxyObj
<1>3. WriteProxy(accepts, Reap(o), ok, err)
  BY DEF WriteFinalizers
<1> HIDE DEF o
<1>4. Reap(o) \in ProxyObj /\ (Reap(o).exists => Reap(o).spec = o.spec)
  BY <1>2, ObjectTypes DEF Reap, Gone, NoProxy
<1>5. CopyCurrent' /\ (proxy' = proxy \/ (accepts /\ proxy' = Commit(proxy, Reap(o))))
  BY <1>3, <1>4, WriteProxyKeepsCopy
<1>6. Live(Commit(proxy, Reap(o))) = Reap(o)
  BY <1>4, LogSteps DEF TypeOK
<1>7. accepts => o.spec = Live(proxy).spec
  BY <1>2 DEF CopyCurrent
<1> QED BY <1>4, <1>5, <1>6, <1>7 DEF KeepsSpec

\* Copies read from the cache are current when the cache is.
LEMMA ReadCopy ==
  ASSUME TypeOK, NEW STATE f, "proxy" \in Read(f, "proxy", proxy)
  PROVE  Cached(proxy) = Live(proxy)
<1>1. proxy \in Seq(ProxyObj) /\ proxy # <<>>
  BY DEF TypeOK
<1>2. Synced(proxy)
  BY DEF Read
<1> QED BY <1>1, <1>2, LogSteps

\* Re-fetching the proxy keeps the spec.
LEMMA RefetchKeepsCopy ==
  ASSUME TypeOK, CopyCurrent, NEW STATE to, Refetch(to)
  PROVE  CopyCurrent' /\ KeepsSpec
<1>1. CASE Step("requeue", loc, fresh)
  BY <1>1, StepKeepsCopy
<1>2. CASE Step(to, [loc EXCEPT !.proxy = Cached(proxy)], Read(fresh, "proxy", proxy))
  <2> DEFINE l == [loc EXCEPT !.proxy = Cached(proxy)]
  <2>1. l.proxy = Cached(proxy)
    BY DEF TypeOK, LocType
  <2>2. GoOn(to, l, Read(fresh, "proxy", proxy)) /\ proxy' = proxy
    BY <1>2 DEF Step, objects
  <2> HIDE DEF l
  <2>3. "proxy" \in Read(fresh, "proxy", proxy) => l.proxy = Live(proxy')
    BY <2>1, <2>2, ReadCopy
  <2> QED BY <2>2, <2>3, GoOnCopy DEF KeepsSpec
<1> QED BY <1>1, <1>2 DEF Refetch

\* No call of Reconcile changes the spec of the proxy.
LEMMA WorkKeepsCopy ==
  ASSUME TypeOK, CopyCurrent, Work
  PROVE  CopyCurrent' /\ KeepsSpec
<1>0. loc \in LocType /\ loc.proxy \in ProxyObj
  BY StoredTypes
<1>1. CASE Reconcile
  <2>1. proxy' = proxy
    BY <1>1 DEF Reconcile, objects
  <2>2. CASE Cached(proxy).exists
    <3>1. loc' = [NoLocals EXCEPT !.proxy = Cached(proxy)] /\ fresh' = Read({}, "proxy", proxy)
      BY <1>1, <2>2 DEF Reconcile
    <3>2. loc'.proxy = Cached(proxy)
      BY <3>1 DEF NoLocals
    <3>3. "proxy" \in fresh' => Cached(proxy) = Live(proxy)
      BY <3>1, ReadCopy
    <3> QED BY <2>1, <3>2, <3>3 DEF CopyCurrent, KeepsSpec
  <2>3. CASE ~Cached(proxy).exists
    BY <1>1, <2>1, <2>3 DEF Reconcile, CopyCurrent, KeepsSpec
  <2> QED BY <2>2, <2>3
<1>2. CASE initStatus \/ createFailed \/ depFailed \/ svcFailed \/ finalizing \/ finalized
  <2>1. {<<"Starting", 0>>, <<"CreateFailed", 0>>, <<"DepFailed", 0>>, <<"SvcFailed", 0>>}
          \subseteq Available
    BY DEF Available
  <2>2. {"Finalizing", "Finalized"} \subseteq Degraded
    BY DEF Degraded
  <2> QED BY <1>2, <2>1, <2>2, StatusKeepsCopy
          DEF initStatus, createFailed, depFailed, svcFailed, finalizing, finalized, Condition
<1>3. CASE available
  <2>1. loc.proxy.spec.size \in Nat
    BY <1>0, SpecTypes DEF ProxyObj
  <2>2. <<"Created", loc.proxy.spec.size>> \in Available
    BY <2>1 DEF Available
  <2> QED BY <1>3, <2>2, StatusKeepsCopy DEF available, Condition
<1>4. CASE addFinalizer
  <2>1. loc.proxy.fins \cup {Finalizer} \in SUBSET Finalizers
    BY <1>0 DEF ProxyObj, Finalizers
  <2> QED BY <1>4, <2>1, FinalizersKeepCopy DEF addFinalizer, Current
<1>5. CASE removeFinalizer
  <2>1. loc.proxy.fins \ {Finalizer} \in SUBSET Finalizers
    BY <1>0 DEF ProxyObj
  <2>2. CASE Finalizer \in loc.proxy.fins
    BY <1>5, <2>1, <2>2, FinalizersKeepCopy DEF removeFinalizer, Current
  <2>3. CASE Finalizer \notin loc.proxy.fins
    BY <1>5, <2>3, StepKeepsCopy DEF removeFinalizer
  <2> QED BY <2>2, <2>3
<1>6. CASE refetchDeleted \/ refetchForDep \/ refetchForSvc
  BY <1>6, RefetchKeepsCopy DEF refetchDeleted, refetchForDep, refetchForSvc
<1>7. CASE createDep \/ updateDep \/ createSvc \/ updateSvc
  BY <1>7, OtherWritesKeepCopy DEF createDep, updateDep, createSvc, updateSvc
<1>8. CASE getDep \/ listRuleset \/ checkRulesets \/ listMounts \/ getSvc
  <2>1. PICK to, l, f : Step(to, l, f) /\ l.proxy = loc.proxy
                        /\ ("proxy" \in f => "proxy" \in fresh)
    <3>1. /\ "proxy" \in Read(fresh, "dep", dep) => "proxy" \in fresh
          /\ "proxy" \in Read(fresh, "svc", svc) => "proxy" \in fresh
      BY DEF Read
    <3>2. CASE getDep
      BY <1>0, <3>1, <3>2 DEF getDep, LocType
    <3>3. CASE listRuleset
      BY <1>0, <3>3 DEF listRuleset, LocType
    <3>4. CASE checkRulesets
      BY <1>0, <3>4 DEF checkRulesets, LocType
    <3>5. CASE listMounts
      BY <1>0, <3>5 DEF listMounts, LocType
    <3>6. CASE getSvc
      <4> DEFINE d == [loc.dep EXCEPT !.ports = loc.proxy.spec.ports]
                 l(sp, after) == [loc EXCEPT !.dep = d, !.svc = sp, !.after = after]
      <4>1. \A sp, after : l(sp, after).proxy = loc.proxy
        BY <1>0 DEF LocType
      <4>2. \A sp, after : [loc EXCEPT !.dep.ports = loc.proxy.spec.ports, !.svc = sp,
                                      !.after = after] = l(sp, after)
        BY <1>0 DEF LocType
      <4> HIDE DEF l
      <4> QED BY <1>0, <3>1, <3>6, <4>1, <4>2 DEF getSvc, ManagePortChange
    <3> QED BY <1>8, <3>2, <3>3, <3>4, <3>5, <3>6
  <2> QED BY <2>1, StepKeepsCopy
<1> QED BY <1>1, <1>2, <1>3, <1>4, <1>5, <1>6, <1>7, <1>8 DEF Work

\* A version that another writer appends makes the copy out of date.
LEMMA UsersKeepCopy ==
  ASSUME CopyCurrent, Users
  PROVE  CopyCurrent'
<1>1. loc' = loc
  BY DEF Users, EditProxy, DeleteProxy, CreateProxy, ScaleDep, RollDep, DeleteDep, DeleteSvc,
         MakeDep, MakeSvc, ConfigMapChanges, UserProxy, UserDep, User
<1>2. CASE EditProxy \/ DeleteProxy \/ CreateProxy
  <2>1. "proxy" \notin fresh'
    BY <1>2 DEF EditProxy, DeleteProxy, CreateProxy, UserProxy
  <2> QED BY <2>1 DEF CopyCurrent
<1>3. CASE \/ ScaleDep \/ RollDep \/ DeleteDep \/ DeleteSvc \/ MakeDep \/ MakeSvc
           \/ \E n \in Names : ConfigMapChanges(n)
  <2>1. proxy' = proxy /\ fresh' \subseteq fresh
    BY <1>3 DEF ScaleDep, RollDep, DeleteDep, DeleteSvc, MakeDep, MakeSvc, ConfigMapChanges,
                UserDep
  <2> QED BY <1>1, <2>1 DEF CopyCurrent
<1> QED BY <1>2, <1>3 DEF Users

\* Users' operations are counted.
LEMMA UsersCounted ==
  ASSUME TypeOK, Users
  PROVE  edits' # edits
<1>1. edits \in Nat
  BY BoundsAssumption DEF TypeOK
<1>2. edits' = edits + 1
  BY DEF Users, EditProxy, DeleteProxy, CreateProxy, ScaleDep, RollDep, DeleteDep, DeleteSvc,
         MakeDep, MakeSvc, ConfigMapChanges, UserProxy, UserDep, User
<1> QED BY <1>1, <1>2

\* Deliveries, restarts and the garbage collector keep the spec.
LEMMA EnvironmentKeepsCopy ==
  ASSUME TypeOK, CopyCurrent, Environment \/ Restart
  PROVE  CopyCurrent' /\ KeepsSpec
<1>0. proxy \in Seq(ProxyObj) /\ proxy # <<>> /\ Live(proxy) \in ProxyObj
  BY StoredTypes DEF TypeOK
<1>1. CASE DeliverProxy
  <2>1. Live(proxy') = Live(proxy) /\ UNCHANGED <<fresh, loc>>
    BY <1>0, <1>1, LogSteps DEF DeliverProxy, Synced
  <2> QED BY <2>1 DEF CopyCurrent, KeepsSpec
<1>2. CASE GCProxy
  <2> DEFINE o == [Live(proxy) EXCEPT !.fins = @ \ {Foreground}]
  <2>1. o \in ProxyObj /\ o.spec = Live(proxy).spec
    BY <1>0 DEF ProxyObj
  <2>2. proxy' = Append(proxy, Reap(o)) /\ "proxy" \notin fresh'
    BY <1>2 DEF GCProxy
  <2> HIDE DEF o
  <2>3. Reap(o) \in ProxyObj /\ (Reap(o).exists => Reap(o).spec = o.spec)
    BY <2>1, ObjectTypes DEF Reap, Gone, NoProxy
  <2>4. Live(proxy') = Reap(o)
    BY <1>0, <2>2, <2>3, LogSteps
  <2> QED BY <2>1, <2>2, <2>3, <2>4 DEF CopyCurrent, KeepsSpec
<1>3. CASE Restart
  <2>1. Live(proxy') = Live(proxy) /\ "proxy" \notin fresh'
    BY <1>0, <1>3, LogSteps DEF Restart
  <2> QED BY <2>1 DEF CopyCurrent, KeepsSpec
<1>4. CASE \/ DeliverDep \/ DeliverSvc \/ (\E n \in Names : DeliverCM(n))
           \/ TimerFires \/ ResyncFires \/ GCDep \/ GCSvc
  <2>1. proxy' = proxy /\ loc' = loc /\ fresh' \subseteq fresh
    BY <1>4 DEF DeliverDep, DeliverSvc, DeliverCM, TimerFires, ResyncFires, GCDep, GCSvc, objects
  <2> QED BY <2>1 DEF CopyCurrent, KeepsSpec
<1> QED BY <1>1, <1>2, <1>3, <1>4 DEF Environment

\* A copy of the proxy that carries the stored version is the stored proxy.
LEMMA CopyInvariant == Spec => []CopyCurrent
<1>1. Init => CopyCurrent
  BY DEF Init, CopyCurrent
<1>2. TypeOK /\ CopyCurrent /\ [Next]_vars => CopyCurrent'
  <2> SUFFICES ASSUME TypeOK, CopyCurrent, [Next]_vars PROVE CopyCurrent'
    OBVIOUS
  <2>1. CASE UNCHANGED vars
    BY <2>1 DEF vars, objects, CopyCurrent
  <2> QED BY <2>1, WorkKeepsCopy, UsersKeepCopy, EnvironmentKeepsCopy DEF Next
<1> QED BY <1>1, <1>2, TypeCorrect, PTL DEF Spec

\* No step but a user's changes the spec of a stored proxy: the Updates of
\* addFinalizer and of removeFinalizer, which store the spec of a copy read
\* earlier, revert no edit, however calls, edits and restarts interleave.
THEOREM ProxyEditsKept == Spec => NoLostEdit
<1>1. TypeOK /\ CopyCurrent /\ [Next]_vars =>
        (edits' = edits /\ Live(proxy').exists => Live(proxy').spec = Live(proxy).spec)
  <2> SUFFICES ASSUME TypeOK, CopyCurrent, [Next]_vars, edits' = edits PROVE KeepsSpec
    BY DEF KeepsSpec
  <2>1. CASE UNCHANGED vars
    BY <2>1 DEF vars, objects, KeepsSpec
  <2> QED BY <2>1, WorkKeepsCopy, UsersCounted, EnvironmentKeepsCopy DEF Next
<1> QED BY <1>1, TypeCorrect, CopyInvariant, PTL DEF Spec, NoLostEdit

------------------------------------------------------------------------------
(***************************************************************************)
(* The rollout stamp.  While Reconcile works with a Deployment that is     *)
(* there, a copy that carries the stored resourceVersion has the stored    *)
(* stamp; the other fields it changes before the Update.                   *)
(***************************************************************************)
HeldCalls == {"checkRulesets", "updateDep", "refetchForDep", "depFailed", "getSvc"}

HoldsDep(c, l) == c \in HeldCalls \/ (c = "listMounts" /\ l.after # "createDep")

DepMatches(l, f, d) == l.dep.exists /\ ("dep" \in f => d.exists /\ l.dep.stamp = d.stamp)

DepCurrent == HoldsDep(pc, loc) => DepMatches(loc, fresh, Live(dep))

KeepsStamp ==
  Live(dep).exists /\ Live(dep').exists => Live(dep').stamp = Live(dep).stamp

\* How a call goes on with the copy of the Deployment.
LEMMA GoOnDep ==
  ASSUME NEW ACTION to, NEW ACTION l, NEW ACTION f, GoOn(to, l, f),
         HoldsDep(to, l) => DepMatches(l, f, Live(dep'))
  PROVE  DepCurrent'
<1>1. CASE to \in Returns
  BY <1>1 DEF GoOn, DepCurrent, HoldsDep, HeldCalls
<1>2. CASE to \notin Returns
  BY <1>2 DEF GoOn, DepCurrent, HoldsDep, DepMatches
<1> QED BY <1>1, <1>2

\* Calls that leave the Deployment alone and keep stamp and existence of the copy.
LEMMA CallKeepsDep ==
  ASSUME DepCurrent, NEW ACTION to, NEW ACTION l, NEW ACTION f, GoOn(to, l, f), dep' = dep,
         HoldsDep(to, l) => HoldsDep(pc, loc),
         l.dep.exists = loc.dep.exists, l.dep.stamp = loc.dep.stamp,
         "dep" \in f => "dep" \in fresh
  PROVE  DepCurrent' /\ KeepsStamp
<1>1. HoldsDep(to, l) => DepMatches(l, f, Live(dep'))
  BY DEF DepCurrent, DepMatches
<1>2. DepCurrent'
  BY <1>1, GoOnDep
<1> QED BY <1>2 DEF KeepsStamp

\* Writes of the proxy and of the Service.
LEMMA OtherWritesKeepDep ==
  ASSUME TypeOK, DepCurrent, NEW STATE accepts, NEW STATE new, NEW STATE ok, NEW STATE err,
         WriteProxy(accepts, new, ok, err) \/ WriteSvc(accepts, new, ok, err),
         HoldsDep(ok, loc) \/ HoldsDep(err, loc) => HoldsDep(pc, loc)
  PROVE  DepCurrent' /\ KeepsStamp
<1>0. loc \in LocType /\ dep' = dep
  BY DEF TypeOK, LocType, WriteProxy, WriteSvc
<1>1. CASE WriteProxy(accepts, new, ok, err)
  <2> DEFINE l == [loc EXCEPT !.proxy = new]
  <2>1. l.dep = loc.dep /\ (HoldsDep(ok, l) => HoldsDep(ok, loc))
    BY <1>0 DEF LocType, HoldsDep
  <2>2. \/ GoOn(ok, l, fresh \cup {"proxy"})
        \/ GoOn(err, loc, fresh)
        \/ GoOn(err, loc, fresh \ {"proxy"})
    BY <1>1, WriteProxyEffect
  <2> HIDE DEF l
  <2>3. CASE GoOn(ok, l, fresh \cup {"proxy"})
    BY <1>0, <2>1, <2>3, CallKeepsDep
  <2>4. CASE GoOn(err, loc, fresh)
    BY <1>0, <2>4, CallKeepsDep
  <2>5. CASE GoOn(err, loc, fresh \ {"proxy"})
    BY <1>0, <2>5, CallKeepsDep
  <2> QED BY <2>2, <2>3, <2>4, <2>5
<1>2. CASE WriteSvc(accepts, new, ok, err)
  <2> DEFINE l == [loc EXCEPT !.svc = new]
  <2>1. l.dep = loc.dep /\ (HoldsDep(ok, l) => HoldsDep(ok, loc))
    BY <1>0 DEF LocType, HoldsDep
  <2>2. \/ GoOn(ok, l, fresh \cup {"svc"})
        \/ GoOn(err, loc, fresh)
        \/ GoOn(err, loc, fresh \ {"svc"})
    BY <1>2, WriteSvcEffect
  <2> HIDE DEF l
  <2>3. CASE GoOn(ok, l, fresh \cup {"svc"})
    BY <1>0, <2>1, <2>3, CallKeepsDep
  <2>4. CASE GoOn(err, loc, fresh)
    BY <1>0, <2>4, CallKeepsDep
  <2>5. CASE GoOn(err, loc, fresh \ {"svc"})
    BY <1>0, <2>5, CallKeepsDep
  <2> QED BY <2>2, <2>3, <2>4, <2>5
<1> QED BY <1>1, <1>2

\* createDeployment writes only where no Deployment is, and returns.
LEMMA CreateKeepsDep ==
  ASSUME TypeOK, DepCurrent, createDep
  PROVE  DepCurrent' /\ KeepsStamp
<1> DEFINE accepts == ~Live(dep).exists /\ Mountable(loc.dep)
           l == [loc EXCEPT !.dep = loc.dep]
<1>0. dep \in Seq(DepObj) /\ dep # <<>> /\ loc.dep \in DepObj
  BY StoredTypes DEF TypeOK
<1>1. WriteDep(accepts, loc.dep, "requeue", "createFailed")
  BY DEF createDep
<1> HIDE DEF accepts
<1>2. /\ dep' = dep \/ (accepts /\ dep' = Commit(dep, loc.dep))
      /\ \E to \in {"requeue", "createFailed"} : \E m, f : GoOn(to, m, f)
  BY <1>1, WriteDepEffect
<1>3. DepCurrent'
  BY <1>2, GoOnDep DEF HoldsDep, HeldCalls
<1>4. KeepsStamp
  BY <1>2 DEF KeepsStamp, accepts
<1> QED BY <1>3, <1>4

\* deploymentUpdate writes only a copy of the stored version.
LEMMA UpdateKeepsDep ==
  ASSUME TypeOK, DepCurrent, updateDep
  PROVE  DepCurrent' /\ KeepsStamp
<1> DEFINE accepts == Current("dep", dep) /\ Mountable(loc.dep)
           l == [loc EXCEPT !.dep = loc.dep]
<1>0. dep \in Seq(DepObj) /\ dep # <<>> /\ loc.dep \in DepObj /\ loc \in LocType
  BY StoredTypes DEF TypeOK
<1>1. WriteDep(accepts, loc.dep, loc.after, "refetchForDep")
  BY DEF updateDep
<1>2. DepMatches(loc, fresh, Live(dep))
  BY DEF updateDep, DepCurrent, HoldsDep, HeldCalls
<1>3. accepts => "dep" \in fresh
  BY DEF Current
<1> HIDE DEF accepts
<1>4. l = loc
  BY <1>0 DEF LocType
<1>5. Live(Commit(dep, loc.dep)) = loc.dep
  BY <1>0, LogSteps
<1>6. CASE /\ accepts /\ dep' = Commit(dep, loc.dep)
           /\ GoOn(loc.after, l, fresh \cup {"dep"})
  BY <1>2, <1>3, <1>4, <1>5, <1>6, GoOnDep DEF DepMatches, KeepsStamp
<1>7. CASE dep' = dep /\ GoOn("refetchForDep", loc, fresh)
  BY <1>2, <1>7, GoOnDep DEF KeepsStamp
<1>8. CASE /\ accepts /\ dep' = Commit(dep, loc.dep)
           /\ GoOn("refetchForDep", loc, fresh \ {"dep"})
  BY <1>2, <1>3, <1>5, <1>8, GoOnDep DEF DepMatches, KeepsStamp
<1> HIDE DEF l
<1>9. \/ /\ accepts /\ dep' = Commit(dep, loc.dep)
         /\ GoOn(loc.after, [loc EXCEPT !.dep = loc.dep], fresh \cup {"dep"})
      \/ dep' = dep /\ GoOn("refetchForDep", loc, fresh)
      \/ /\ accepts /\ dep' = Commit(dep, loc.dep)
         /\ GoOn("refetchForDep", loc, fresh \ {"dep"})
  BY <1>1, WriteDepEffect
<1> QED BY <1>6, <1>7, <1>8, <1>9 DEF l

\* The lookup of the Deployment takes the copy from the cache; only a cache in
\* sync with the store makes it current.
LEMMA GetDepKeepsDep ==
  ASSUME TypeOK, getDep
  PROVE  DepCurrent' /\ KeepsStamp
<1> DEFINE d == Cached(dep)
           f == Read(fresh, "dep", dep)
           sized == [d EXCEPT !.size = loc.proxy.spec.size]
           l1 == [loc EXCEPT !.after = "createDep"]
           l2 == [loc EXCEPT !.dep = sized]
           l3 == [loc EXCEPT !.dep = d]
<1>0. /\ dep \in Seq(DepObj) /\ dep # <<>> /\ d \in DepObj /\ loc \in LocType
  BY StoredTypes DEF TypeOK
<1>1. "dep" \in f => d = Live(dep)
  <2>1. "dep" \in f => Synced(dep)
    BY DEF Read
  <2> QED BY <1>0, <2>1, LogSteps
<1>2. l1.after = "createDep" /\ l2.dep = sized /\ l3.dep = d
  BY <1>0 DEF LocType
<1>3. sized.exists = d.exists /\ sized.stamp = d.stamp
  BY <1>0 DEF DepObj
<1>4. \/ GoOn("listMounts", l1, f)
      \/ d.exists /\ GoOn("updateDep", l2, f)
      \/ d.exists /\ GoOn("checkRulesets", l3, f)
  BY DEF getDep, Step
<1>5. dep' = dep
  BY DEF getDep, Step, objects
<1> HIDE DEF l1, l2, l3, f, sized
<1>6. CASE GoOn("listMounts", l1, f)
  <2>1. ~HoldsDep("listMounts", l1)
    BY <1>2 DEF HoldsDep, HeldCalls
  <2> QED BY <1>5, <1>6, <2>1, GoOnDep DEF KeepsStamp
<1>7. CASE d.exists /\ GoOn("updateDep", l2, f)
  <2>1. DepMatches(l2, f, Live(dep'))
    BY <1>1, <1>2, <1>3, <1>5, <1>7 DEF DepMatches
  <2> QED BY <1>5, <1>7, <2>1, GoOnDep DEF KeepsStamp
<1>8. CASE d.exists /\ GoOn("checkRulesets", l3, f)
  <2>1. DepMatches(l3, f, Live(dep'))
    BY <1>1, <1>2, <1>5, <1>8 DEF DepMatches
  <2> QED BY <1>5, <1>8, <2>1, GoOnDep DEF KeepsStamp
<1> QED BY <1>4, <1>6, <1>7, <1>8

\* The loops over the rulesets, the volumes and the lookup of the Service keep
\* stamp and existence of the copy.
LEMMA StepsKeepDep ==
  ASSUME TypeOK, DepCurrent, listRuleset \/ checkRulesets \/ listMounts \/ getSvc
  PROVE  DepCurrent' /\ KeepsStamp
<1>0. loc \in LocType /\ loc.dep \in DepObj
  BY StoredTypes
<1>1. ASSUME NEW STATE to, NEW STATE l, NEW STATE f, Step(to, l, f),
             HoldsDep(to, l) => HoldsDep(pc, loc),
             l.dep.exists = loc.dep.exists, l.dep.stamp = loc.dep.stamp,
             "dep" \in f => "dep" \in fresh
      PROVE  DepCurrent' /\ KeepsStamp
  <2>1. GoOn(to, l, f) /\ dep' = dep
    BY <1>1 DEF Step, objects
  <2> QED BY <1>1, <2>1, CallKeepsDep
<1>2. CASE listRuleset
  <2>1. PICK names : Step(pc, [loc EXCEPT !.k = @ + 1, !.names = names], fresh)
    BY <1>2 DEF listRuleset
  <2> DEFINE l == [loc EXCEPT !.k = @ + 1, !.names = names]
  <2>2. l.dep = loc.dep /\ l.after = loc.after
    BY <1>0 DEF LocType
  <2>3. Step(pc, l, fresh)
    BY <2>1
  <2> HIDE DEF l
  <2> QED BY <1>1, <2>2, <2>3 DEF HoldsDep
<1>3. CASE checkRulesets
  <2> DEFINE r == [loc EXCEPT !.k = 1, !.names = NoNames]
             l == [r EXCEPT !.after = "updateDep"]
  <2>1. r.dep = loc.dep /\ l.dep = loc.dep
    BY <1>0 DEF LocType
  <2>2. Step("listMounts", l, fresh) \/ Step("getSvc", r, fresh)
    BY <1>3 DEF checkRulesets
  <2>3. HoldsDep(pc, loc)
    BY <1>3 DEF checkRulesets, HoldsDep, HeldCalls
  <2> HIDE DEF l, r
  <2> QED BY <1>1, <2>1, <2>2, <2>3
<1>4. CASE listMounts
  <2> DEFINE d == IF loc.after = "createDep"
                  THEN deploymentForVillipProxy(loc.proxy, loc.names)
                  ELSE [loc.dep EXCEPT !.tagged = TRUE, !.conf = loc.names]
             l == [loc EXCEPT !.k = 1, !.names = NoNames, !.dep = d, !.after = "requeue"]
  <2>1. Step(loc.after, l, fresh) /\ pc = "listMounts"
    BY <1>4 DEF listMounts
  <2>2. l.dep = d
    BY <1>0 DEF LocType
  <2>3. GoOn(loc.after, l, fresh) /\ dep' = dep
    BY <2>1 DEF Step, objects
  <2>4. CASE loc.after = "createDep"
    <3>1. ~HoldsDep(loc.after, l)
      BY <2>4 DEF HoldsDep, HeldCalls
    <3> HIDE DEF l
    <3> QED BY <2>3, <3>1, GoOnDep DEF KeepsStamp
  <2>5. CASE loc.after # "createDep"
    <3>1. d.exists = loc.dep.exists /\ d.stamp = loc.dep.stamp
      BY <1>0, <2>5 DEF DepObj
    <3>2. HoldsDep(pc, loc)
      BY <2>1, <2>5 DEF HoldsDep
    <3> HIDE DEF l, d
    <3> QED BY <1>1, <2>1, <2>2, <3>1, <3>2
  <2> QED BY <2>4, <2>5
<1>5. CASE getSvc
  <2> DEFINE d == [loc.dep EXCEPT !.ports = loc.proxy.spec.ports]
             l(sp, after) == [loc EXCEPT !.dep = d, !.svc = sp, !.after = after]
             f == Read(fresh, "svc", svc)
  <2>1. \A sp, after : l(sp, after).dep = d
    BY <1>0 DEF LocType
  <2>2. \A sp, after : [loc EXCEPT !.dep.ports = loc.proxy.spec.ports, !.svc = sp,
                                   !.after = after] = l(sp, after)
    BY <1>0 DEF LocType
  <2>3. d.exists = loc.dep.exists /\ d.stamp = loc.dep.stamp
    BY <1>0 DEF DepObj
  <2>4. "dep" \in f => "dep" \in fresh
    BY DEF Read
  <2> HIDE DEF l, d
  <2>5. PICK to, m : Step(to, m, f) /\ (m = loc \/ \E sp, after : m = l(sp, after))
    <3>1. \/ Step("createSvc", loc, f)
          \/ \E to, sp, after :
               Step(to, [loc EXCEPT !.dep.ports = loc.proxy.spec.ports, !.svc = sp,
                                    !.after = after], f)
      BY <1>5 DEF getSvc, ManagePortChange
    <3>2. \/ Step("createSvc", loc, f)
          \/ \E to, sp, after : Step(to, l(sp, after), f)
      BY <2>2, <3>1
    <3> QED BY <3>2
  <2>6. HoldsDep(pc, loc)
    BY <1>5 DEF getSvc, HoldsDep, HeldCalls
  <2> HIDE DEF f
  <2>7. m.dep.exists = loc.dep.exists /\ m.dep.stamp = loc.dep.stamp
    BY <2>1, <2>3, <2>5
  <2> QED BY <1>1, <2>4, <2>5, <2>6, <2>7
<1> QED BY <1>2, <1>3, <1>4, <1>5

\* No call of Reconcile takes back a rollout.
LEMMA WorkKeepsDep ==
  ASSUME TypeOK, DepCurrent, Work
  PROVE  DepCurrent' /\ KeepsStamp
<1>0. loc \in LocType
  BY StoredTypes
<1>1. CASE Reconcile
  <2>1. dep' = dep /\ pc' = Branch(Cached(proxy))
    BY <1>1 DEF Reconcile, objects
  <2>2. ~HoldsDep(pc', loc')
    BY <2>1 DEF Branch, HoldsDep, HeldCalls
  <2> QED BY <2>1, <2>2 DEF DepCurrent, KeepsStamp
<1>2. CASE \/ initStatus \/ createFailed \/ depFailed \/ svcFailed \/ finalizing \/ finalized
           \/ available
  <2>1. \/ /\ initStatus \/ createFailed \/ svcFailed \/ finalizing \/ finalized \/ available
           /\ \E accepts, new :
                \E ok, err \in {"requeue", "done", "refetchDeleted", "removeFinalizer"} :
                  WriteProxy(accepts, new, ok, err)
        \/ /\ depFailed
           /\ \E accepts, new : WriteProxy(accepts, new, loc.after, "requeue")
    BY <1>2 DEF initStatus, createFailed, depFailed, svcFailed, finalizing, finalized, available,
                WriteStatus
  <2>2. \A to \in {"requeue", "done", "refetchDeleted", "removeFinalizer"} : ~HoldsDep(to, loc)
    BY DEF HoldsDep, HeldCalls
  <2>3. depFailed => HoldsDep(pc, loc)
    BY DEF depFailed, HoldsDep, HeldCalls
  <2> QED BY <2>1, <2>2, <2>3, OtherWritesKeepDep
<1>3. CASE addFinalizer \/ removeFinalizer
  <2>1. ~HoldsDep("requeue", loc) /\ ~HoldsDep("done", loc)
    BY DEF HoldsDep, HeldCalls
  <2>2. CASE \E accepts, fins : \E ok \in {"requeue", "done"} :
               WriteFinalizers(accepts, fins, ok, "requeue")
    BY <2>1, <2>2, OtherWritesKeepDep DEF WriteFinalizers
  <2>3. CASE Step("requeue", loc, fresh)
    BY <2>1, <2>3, CallKeepsDep DEF Step, objects
  <2> QED BY <1>3, <2>2, <2>3 DEF addFinalizer, removeFinalizer
<1>4. CASE refetchDeleted \/ refetchForDep \/ refetchForSvc
  <2>1. PICK to \in {"finalized", "depFailed", "svcFailed"} :
          Refetch(to) /\ (to = "depFailed" => HoldsDep(pc, loc))
    BY <1>4 DEF refetchDeleted, refetchForDep, refetchForSvc, HoldsDep, HeldCalls
  <2> DEFINE l == [loc EXCEPT !.proxy = Cached(proxy)]
             f == Read(fresh, "proxy", proxy)
  <2>2. l.dep = loc.dep /\ ("dep" \in f => "dep" \in fresh)
    BY <1>0 DEF LocType, Read
  <2>3. HoldsDep(to, l) => HoldsDep(pc, loc)
    BY <2>1 DEF HoldsDep, HeldCalls
  <2>4. ~HoldsDep("requeue", loc)
    BY DEF HoldsDep, HeldCalls
  <2>5. /\ GoOn(to, l, f) \/ GoOn("requeue", loc, fresh)
        /\ dep' = dep
    BY <2>1 DEF Refetch, Step, objects
  <2> HIDE DEF l, f
  <2> QED BY <2>2, <2>3, <2>4, <2>5, CallKeepsDep
<1>5. CASE createSvc \/ updateSvc
  <2>1. ~HoldsDep("requeue", loc) /\ ~HoldsDep("refetchForSvc", loc)
    BY DEF HoldsDep, HeldCalls
  <2>2. \E accepts, new : \E ok, err \in {"requeue", "refetchForSvc"} :
          WriteSvc(accepts, new, ok, err)
    BY <1>5 DEF createSvc, updateSvc
  <2> QED BY <2>1, <2>2, OtherWritesKeepDep
<1> QED BY <1>1, <1>2, <1>3, <1>4, <1>5, CreateKeepsDep, UpdateKeepsDep, GetDepKeepsDep,
           StepsKeepDep DEF Work

\* A Deployment that another writer changes makes the copy out of date, and one
\* that appears was not there to hold a copy of.
LEMMA UsersKeepDep ==
  ASSUME TypeOK, DepCurrent, Users
  PROVE  DepCurrent'
<1>1. UNCHANGED <<loc, pc>>
  BY DEF Users, EditProxy, DeleteProxy, CreateProxy, ScaleDep, RollDep, DeleteDep, DeleteSvc,
         MakeDep, MakeSvc, ConfigMapChanges, UserProxy, UserDep, User
<1>2. CASE ScaleDep \/ RollDep \/ DeleteDep
  <2>1. "dep" \notin fresh'
    BY <1>2 DEF ScaleDep, RollDep, DeleteDep, UserDep
  <2> QED BY <1>1, <2>1 DEF DepCurrent, DepMatches
<1>3. CASE MakeDep
  <2>1. fresh' = fresh /\ ~Live(dep).exists
    BY <1>3 DEF MakeDep
  <2> QED BY <1>1, <2>1 DEF DepCurrent, DepMatches
<1>4. CASE \/ EditProxy \/ DeleteProxy \/ CreateProxy \/ DeleteSvc \/ MakeSvc
           \/ \E n \in Names : ConfigMapChanges(n)
  <2>1. dep' = dep /\ fresh' \subseteq fresh
    BY <1>4 DEF EditProxy, DeleteProxy, CreateProxy, DeleteSvc, MakeSvc, ConfigMapChanges,
                UserProxy
  <2> QED BY <1>1, <2>1 DEF DepCurrent, DepMatches
<1> QED BY <1>2, <1>3, <1>4 DEF Users

\* Deliveries and restarts keep what is stored; the garbage collector removes it.
LEMMA EnvironmentKeepsDep ==
  ASSUME TypeOK, DepCurrent, Environment \/ Restart
  PROVE  DepCurrent' /\ KeepsStamp
<1>0. dep \in Seq(DepObj) /\ dep # <<>>
  BY DEF TypeOK
<1>1. CASE DeliverDep
  <2>1. Live(dep') = Live(dep) /\ UNCHANGED <<fresh, loc, pc>>
    BY <1>0, <1>1, LogSteps DEF DeliverDep, Synced
  <2> QED BY <2>1 DEF DepCurrent, KeepsStamp
<1>2. CASE GCDep
  <2>1. Live(dep') = NoDep /\ "dep" \notin fresh' /\ UNCHANGED <<loc, pc>>
    BY <1>0, <1>2, LogSteps, ObjectTypes DEF GCDep
  <2>2. ~Live(dep').exists
    <3>1. NoDep.exists = FALSE
      BY DEF NoDep
    <3> QED BY <2>1, <3>1
  <2> QED BY <2>1, <2>2 DEF DepCurrent, DepMatches, KeepsStamp
<1>3. CASE Restart
  <2>1. Live(dep') = Live(dep) /\ pc' = "idle"
    BY <1>0, <1>3, LogSteps DEF Restart
  <2> QED BY <2>1 DEF DepCurrent, HoldsDep, HeldCalls, KeepsStamp
<1>4. CASE \/ DeliverProxy \/ DeliverSvc \/ (\E n \in Names : DeliverCM(n))
           \/ TimerFires \/ ResyncFires \/ GCProxy \/ GCSvc
  <2>1. dep' = dep /\ fresh' \subseteq fresh /\ UNCHANGED <<loc, pc>>
    BY <1>4 DEF DeliverProxy, DeliverSvc, DeliverCM, TimerFires, ResyncFires, GCProxy, GCSvc, objects
  <2> QED BY <2>1 DEF DepCurrent, DepMatches, KeepsStamp
<1> QED BY <1>1, <1>2, <1>3, <1>4 DEF Environment

\* No step but a user's changes the stamp of a rollout: Reconcile, which updates
\* a Deployment it read calls ago, never takes back a rollout that VillipRules
\* has asked for since.
THEOREM RolloutsKept == Spec => StampKept
<1>1. Init => DepCurrent
  BY DEF Init, DepCurrent, HoldsDep, HeldCalls
<1>2. TypeOK /\ DepCurrent /\ [Next]_vars => DepCurrent'
  <2> SUFFICES ASSUME TypeOK, DepCurrent, [Next]_vars PROVE DepCurrent'
    OBVIOUS
  <2>1. CASE UNCHANGED vars
    BY <2>1 DEF vars, objects, DepCurrent, HoldsDep, DepMatches
  <2> QED BY <2>1, WorkKeepsDep, UsersKeepDep, EnvironmentKeepsDep DEF Next
<1>3. TypeOK /\ DepCurrent /\ [Next]_vars =>
        (edits' = edits /\ Live(dep).exists /\ Live(dep').exists =>
           Live(dep').stamp = Live(dep).stamp)
  <2> SUFFICES ASSUME TypeOK, DepCurrent, [Next]_vars, edits' = edits PROVE KeepsStamp
    BY DEF KeepsStamp
  <2>1. CASE UNCHANGED vars
    BY <2>1 DEF vars, objects, KeepsStamp
  <2> QED BY <2>1, WorkKeepsDep, UsersCounted, EnvironmentKeepsDep DEF Next
<1> QED BY <1>1, <1>2, <1>3, TypeCorrect, PTL DEF Spec, StampKept

------------------------------------------------------------------------------
(***************************************************************************)
(* What follows deploymentUpdate and mountsForVillipProxy is never a call  *)
(* of the deletion branch.                                                 *)
(***************************************************************************)
Afters == {"requeue", "createDep", "updateDep", "updateSvc"}

AfterKnown == loc.after \in Afters

\* How a call goes on with what is to follow.
LEMMA GoOnAfter ==
  ASSUME NEW ACTION to, NEW ACTION l, NEW ACTION f, GoOn(to, l, f), l.after \in Afters
  PROVE  AfterKnown'
<1>1. NoLocals.after \in Afters
  BY DEF NoLocals, Afters
<1> QED BY <1>1 DEF GoOn, AfterKnown

\* Writes leave what is to follow alone.
LEMMA WritesKeepAfter ==
  ASSUME TypeOK, AfterKnown, NEW STATE accepts, NEW STATE new, NEW STATE ok, NEW STATE err,
         \/ WriteProxy(accepts, new, ok, err) \/ WriteDep(accepts, new, ok, err)
         \/ WriteSvc(accepts, new, ok, err)
  PROVE  AfterKnown'
<1>1. /\ [loc EXCEPT !.proxy = new].after = loc.after
      /\ [loc EXCEPT !.dep = new].after = loc.after
      /\ [loc EXCEPT !.svc = new].after = loc.after
  BY DEF TypeOK, LocType
<1>2. CASE WriteProxy(accepts, new, ok, err)
  <2>1. \/ \E f : GoOn(ok, [loc EXCEPT !.proxy = new], f)
        \/ \E f : GoOn(err, loc, f)
    BY <1>2, WriteProxyEffect
  <2> QED BY <1>1, <2>1, GoOnAfter DEF AfterKnown
<1>3. CASE WriteDep(accepts, new, ok, err)
  <2>1. \/ \E f : GoOn(ok, [loc EXCEPT !.dep = new], f)
        \/ \E f : GoOn(err, loc, f)
    BY <1>3, WriteDepEffect
  <2> QED BY <1>1, <2>1, GoOnAfter DEF AfterKnown
<1>4. CASE WriteSvc(accepts, new, ok, err)
  <2>1. \/ \E f : GoOn(ok, [loc EXCEPT !.svc = new], f)
        \/ \E f : GoOn(err, loc, f)
    BY <1>4, WriteSvcEffect
  <2> QED BY <1>1, <2>1, GoOnAfter DEF AfterKnown
<1> QED BY <1>2, <1>3, <1>4

\* Every call of Reconcile knows what is to follow.
LEMMA WorkKeepsAfter ==
  ASSUME TypeOK, AfterKnown, Work
  PROVE  AfterKnown'
<1>0. loc \in LocType
  BY StoredTypes
<1>1. CASE Reconcile
  <2>1. loc' = loc \/ loc' = [NoLocals EXCEPT !.proxy = Cached(proxy)]
    BY <1>1 DEF Reconcile
  <2>2. [NoLocals EXCEPT !.proxy = Cached(proxy)].after = "requeue"
    BY DEF NoLocals
  <2> QED BY <2>1, <2>2 DEF AfterKnown, Afters
<1>2. CASE \/ initStatus \/ createFailed \/ depFailed \/ svcFailed \/ finalizing \/ finalized
           \/ available \/ addFinalizer \/ createDep \/ updateDep \/ createSvc \/ updateSvc
  BY <1>2, WritesKeepAfter
     DEF initStatus, createFailed, depFailed, svcFailed, finalizing, finalized, available,
         addFinalizer, createDep, updateDep, createSvc, updateSvc, WriteStatus, WriteFinalizers
<1>3. ASSUME NEW STATE to, NEW STATE l, NEW STATE f, Step(to, l, f), l.after \in Afters
      PROVE  AfterKnown'
  BY <1>3, GoOnAfter DEF Step
<1>4. CASE removeFinalizer
  <2>1. CASE Finalizer \in loc.proxy.fins
    BY <1>4, <2>1, WritesKeepAfter DEF removeFinalizer, WriteFinalizers
  <2>2. CASE Finalizer \notin loc.proxy.fins
    BY <1>3, <1>4, <2>2 DEF removeFinalizer, AfterKnown
  <2> QED BY <2>1, <2>2
<1>5. CASE refetchDeleted \/ refetchForDep \/ refetchForSvc
  <2>1. [loc EXCEPT !.proxy = Cached(proxy)].after = loc.after
    BY <1>0 DEF LocType
  <2> QED BY <1>3, <1>5, <2>1
          DEF refetchDeleted, refetchForDep, refetchForSvc, Refetch, AfterKnown
<1>6. CASE getDep \/ listRuleset \/ checkRulesets \/ listMounts \/ getSvc
  <2>1. PICK to, l, f : Step(to, l, f) /\ l.after \in Afters
    <3>0. loc.after \in Afters
      BY DEF AfterKnown
    <3>2. CASE getDep
      <4>1. /\ [loc EXCEPT !.after = "createDep"].after = "createDep"
            /\ \A d : [loc EXCEPT !.dep = d].after = loc.after
        BY <1>0 DEF LocType
      <4>2. \/ \E f : Step("listMounts", [loc EXCEPT !.after = "createDep"], f)
            \/ \E to, d, f : Step(to, [loc EXCEPT !.dep = d], f)
        BY <3>2 DEF getDep
      <4> QED BY <3>0, <4>1, <4>2 DEF Afters
    <3>3. CASE listRuleset
      <4> DEFINE l(k, names) == [loc EXCEPT !.k = k, !.names = names]
      <4>1. \A k, names : l(k, names).after = loc.after
        BY <1>0 DEF LocType
      <4>2. \E k, names : Step(pc, l(k, names), fresh)
        BY <3>3 DEF listRuleset
      <4> HIDE DEF l
      <4> QED BY <3>0, <4>1, <4>2
    <3>4. CASE checkRulesets
      <4> DEFINE r == [loc EXCEPT !.k = 1, !.names = NoNames]
                 l == [r EXCEPT !.after = "updateDep"]
      <4>1. r.after = loc.after /\ l.after = "updateDep"
        BY <1>0 DEF LocType
      <4>2. Step("listMounts", l, fresh) \/ Step("getSvc", r, fresh)
        BY <3>4 DEF checkRulesets
      <4> HIDE DEF l, r
      <4> QED BY <3>0, <4>1, <4>2 DEF Afters
    <3>5. CASE listMounts
      <4> DEFINE l(d) == [loc EXCEPT !.k = 1, !.names = NoNames, !.dep = d, !.after = "requeue"]
      <4>1. \A d : l(d).after = "requeue"
        BY <1>0 DEF LocType
      <4>2. \E d : Step(loc.after, l(d), fresh)
        BY <3>5 DEF listMounts
      <4> HIDE DEF l
      <4> QED BY <4>1, <4>2 DEF Afters
    <3>6. CASE getSvc
      <4> DEFINE l(sp, after) == [loc EXCEPT !.dep.ports = loc.proxy.spec.ports, !.svc = sp,
                                             !.after = after]
      <4>1. \A sp, after : l(sp, after).after = after
        BY <1>0 DEF LocType
      <4>2. \/ \E to, f : Step(to, loc, f)
            \/ \E to, sp, f : \E after \in {"updateSvc", "requeue"} : Step(to, l(sp, after), f)
        BY <3>6 DEF getSvc, ManagePortChange
      <4> HIDE DEF l
      <4> QED BY <3>0, <4>1, <4>2 DEF Afters
    <3> QED BY <1>6, <3>2, <3>3, <3>4, <3>5, <3>6
  <2> QED BY <1>3, <2>1
<1> QED BY <1>1, <1>2, <1>4, <1>5, <1>6 DEF Work

LEMMA AfterInvariant == Spec => []AfterKnown
<1>1. NoLocals.after \in Afters
  BY DEF NoLocals, Afters
<1>2. Init => AfterKnown
  BY <1>1 DEF Init, AfterKnown
<1>3. TypeOK /\ AfterKnown /\ [Next]_vars => AfterKnown'
  <2> SUFFICES ASSUME TypeOK, AfterKnown, [Next]_vars PROVE AfterKnown'
    OBVIOUS
  <2>1. CASE Users \/ Environment \/ UNCHANGED vars
    <3>1. loc' = loc
      BY <2>1
         DEF Users, EditProxy, DeleteProxy, CreateProxy, ScaleDep, RollDep, DeleteDep, DeleteSvc,
             MakeDep, MakeSvc, ConfigMapChanges, UserProxy, UserDep, User, Environment,
             DeliverProxy, DeliverDep, DeliverSvc, DeliverCM, TimerFires, ResyncFires,
             GCDep, GCSvc, GCProxy, vars
    <3> QED BY <3>1 DEF AfterKnown
  <2>2. CASE Restart
    BY <1>1, <2>2 DEF Restart, AfterKnown
  <2> QED BY <2>1, <2>2, WorkKeepsAfter DEF Next
<1> QED BY <1>2, <1>3, TypeCorrect, PTL DEF Spec
==============================================================================
