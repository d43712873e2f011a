-------------------------- MODULE VillipProxyProofs --------------------------
(***************************************************************************)
(* Proofs about VillipProxy, for every set of ConfigMaps, labels and specs *)
(* and every value of the bounds: what a call leaves behind, and type      *)
(* correctness.                                                            *)
(***************************************************************************)
EXTENDS VillipProxy, KubeApiProofs

Kinds == {"proxy", "dep", "svc"}

LocType ==
  [proxy : ProxyObj, dep : DepObj, svc : SvcObj, k : Nat \ {0},
   names : [Names -> Nat], after : Calls \cup Returns]

------------------------------------------------------------------------------
(***************************************************************************)
(* Type correctness.                                                       *)
(***************************************************************************)
\* The specs that users give are well typed.
LEMMA SpecTypes ==
  ASSUME NEW spec \in Specs \cup {NoSpec}
  PROVE  /\ spec.size \in Nat /\ spec.ports \in SUBSET Nat
         /\ spec.target \in Targets /\ Len(spec.rulesets) \in Nat
<1>1. CASE spec \in Specs
  <2>1. spec \in VillipProxySpec /\ spec.target \in Targets
    BY <1>1, SpecsAssumption DEF Targets
  <2> QED BY <2>1 DEF VillipProxySpec
<1>2. CASE spec = NoSpec
  BY <1>2 DEF NoSpec, Targets
<1> QED BY <1>1, <1>2

\* The objects that Reconcile, users and the API server build are well typed.
LEMMA ObjectTypes ==
  /\ NoProxy \in ProxyObj /\ NoDep \in DepObj /\ NoSvc \in SvcObj /\ NoCM \in CMObj
  /\ NoLocals \in LocType
  /\ \A p \in ProxyObj : Gone(p) \in ProxyObj /\ Reap(p) \in ProxyObj
  /\ \A p \in ProxyObj, spec \in Specs : NewProxy(p, spec) \in ProxyObj
  /\ \A p \in ProxyObj, names \in [Names -> Nat] :
       deploymentForVillipProxy(p, names) \in DepObj
  /\ \A p \in ProxyObj : serviceForVillipProxy(p) \in SvcObj
<1>1. NoStatus \in [available : Available, degraded : Degraded]
  BY DEF NoStatus, Available, Degraded
<1>2. NoProxy \in ProxyObj
  BY <1>1 DEF NoProxy, ProxyObj
<1>3. NoNames \in [Names -> Nat]
  BY DEF NoNames
<1>4. NoDep \in DepObj
  <2>1. [http |-> ""] \in [http : Targets] /\ {} \in SUBSET Nat
    BY DEF Targets, NoSpec
  <2> QED BY <1>3, <2>1 DEF NoDep, DepObj
<1>5. NoSvc \in SvcObj /\ NoCM \in CMObj
  BY DEF NoSvc, SvcObj, NoCM, CMObj
<1>6. NoLocals \in LocType
  BY <1>2, <1>3, <1>4, <1>5 DEF NoLocals, LocType, Returns
<1>7. \A p \in ProxyObj : Gone(p) \in ProxyObj
  BY <1>2 DEF Gone, ProxyObj
<1>8. ASSUME NEW p \in ProxyObj, NEW spec \in Specs
      PROVE  NewProxy(p, spec) \in ProxyObj
  <2>1. p.uid + 1 \in Nat
    BY DEF ProxyObj
  <2> QED BY <1>2, <2>1 DEF NewProxy, ProxyObj
<1>9. ASSUME NEW p \in ProxyObj, NEW names \in [Names -> Nat]
      PROVE  deploymentForVillipProxy(p, names) \in DepObj
  <2>1. p.spec \in Specs \cup {NoSpec} /\ p.uid \in Nat
    BY DEF ProxyObj
  <2>2. p.spec.size \in Nat /\ p.spec.ports \in SUBSET Nat /\ p.spec.target \in Targets
    BY <2>1, SpecTypes
  <2>3. targetForVillipProxy(p.spec.target) \in [http : Targets]
    BY <2>2 DEF targetForVillipProxy
  <2> QED BY <1>4, <2>1, <2>2, <2>3 DEF deploymentForVillipProxy, DepObj
<1>10. ASSUME NEW p \in ProxyObj
       PROVE  serviceForVillipProxy(p) \in SvcObj
  <2>1. p.spec \in Specs \cup {NoSpec} /\ p.uid \in Nat
    BY DEF ProxyObj
  <2>2. p.spec.ports \in SUBSET Nat
    BY <2>1, SpecTypes
  <2> QED BY <2>1, <2>2 DEF serviceForVillipProxy, SvcObj
<1> QED BY <1>2, <1>4, <1>5, <1>6, <1>7, <1>8, <1>9, <1>10 DEF Reap

\* The initial state, a proxy just applied, is well typed.
LEMMA InitTypeOK == Init => TypeOK
<1> SUFFICES ASSUME Init PROVE TypeOK
  OBVIOUS
<1>1. proxy \in Seq(ProxyObj) /\ proxy # <<>>
  BY ObjectTypes DEF Init
<1>2. dep \in Seq(DepObj) /\ dep # <<>> /\ svc \in Seq(SvcObj) /\ svc # <<>>
  BY ObjectTypes DEF Init
<1>3. cms \in [Names -> Seq(CMObj)] /\ \A n \in Names : cms[n] # <<>>
  <2>1. PICK m \in [Names -> {o \in CMObj : o.exists \/ o = NoCM}] :
          cms = [n \in Names |-> <<m[n]>>]
    BY DEF Init
  <2>2. \A n \in Names : m[n] \in CMObj
    BY <2>1
  <2> QED BY <2>1, <2>2
<1>4. loc \in LocType
  BY ObjectTypes DEF Init
<1>5. fresh \subseteq Kinds /\ pc \in Calls \cup {"idle"}
  BY DEF Init
<1>6. queued \in BOOLEAN /\ timer \in BOOLEAN
  BY DEF Init
<1>7. edits \in 0..MaxEdits /\ faults \in 0..MaxFaults
  <2>1. edits = 0 /\ faults = 0
    BY DEF Init
  <2> QED BY <2>1, BoundsAssumption
<1> QED BY <1>1, <1>2, <1>3, <1>4, <1>5, <1>6, <1>7 DEF TypeOK, LocType, Kinds

\* The ends of the logs of a well typed state.
LEMMA StoredTypes ==
  ASSUME TypeOK
  PROVE  /\ Live(proxy) \in ProxyObj /\ Cached(proxy) \in ProxyObj
         /\ Live(dep) \in DepObj /\ Cached(dep) \in DepObj
         /\ Live(svc) \in SvcObj /\ Cached(svc) \in SvcObj
         /\ \A n \in Names : Live(cms[n]) \in CMObj /\ Cached(cms[n]) \in CMObj
         /\ loc \in LocType /\ loc.proxy \in ProxyObj /\ loc.dep \in DepObj
         /\ loc.svc \in SvcObj /\ loc.k \in Nat /\ loc.names \in [Names -> Nat]
         /\ loc.after \in Calls \cup Returns
         /\ fresh \subseteq Kinds
<1>1. loc \in LocType
  BY DEF TypeOK, LocType
<1>2. /\ loc.proxy \in ProxyObj /\ loc.dep \in DepObj
      /\ loc.svc \in SvcObj /\ loc.k \in Nat /\ loc.names \in [Names -> Nat]
      /\ loc.after \in Calls \cup Returns
  BY <1>1 DEF LocType
<1>3. fresh \subseteq Kinds
  BY DEF TypeOK, Kinds
<1> QED BY <1>1, <1>2, <1>3, LogEnds DEF TypeOK

\* What a call leaves in Reconcile's hands is well typed.
LEMMA GoOnType ==
  ASSUME TypeOK, NEW ACTION to, NEW ACTION l, NEW ACTION f,
         to \in Calls \cup Returns, l \in LocType, f \subseteq Kinds, GoOn(to, l, f)
  PROVE  /\ pc' \in Calls \cup {"idle"} /\ timer' \in BOOLEAN
         /\ loc' \in LocType /\ fresh' \subseteq Kinds
<1>1. pc' \in Calls \cup {"idle"}
  BY DEF GoOn, Returns
<1>2. timer' \in BOOLEAN
  BY DEF GoOn, TypeOK
<1>3. loc' \in LocType /\ fresh' \subseteq Kinds
  BY ObjectTypes DEF GoOn
<1> QED BY <1>1, <1>2, <1>3

\* Reconcile's own state and the stored objects together.
LEMMA TypeOKParts ==
  ASSUME TypeOK,
         proxy' \in Seq(ProxyObj), proxy' # <<>>, dep' \in Seq(DepObj), dep' # <<>>,
         svc' \in Seq(SvcObj), svc' # <<>>,
         pc' \in Calls \cup {"idle"}, timer' \in BOOLEAN, loc' \in LocType,
         fresh' \subseteq Kinds, faults' \in 0..MaxFaults, UNCHANGED <<cms, edits>>,
         queued' \in BOOLEAN
  PROVE  TypeOK'
  BY DEF TypeOK, LocType, Kinds

\* A step of Reconcile that writes nothing is well typed.
LEMMA StepType ==
  ASSUME TypeOK, NEW ACTION to, NEW ACTION l, NEW ACTION f,
         to \in Calls \cup Returns, l \in LocType, f \subseteq Kinds, Step(to, l, f)
  PROVE  TypeOK'
<1>1. GoOn(to, l, f) /\ UNCHANGED <<proxy, dep, svc, cms, queued, edits, faults>>
  BY DEF Step, objects
<1>2. /\ pc' \in Calls \cup {"idle"} /\ timer' \in BOOLEAN
      /\ loc' \in LocType /\ fresh' \subseteq Kinds
  BY <1>1, GoOnType
<1> QED BY <1>1, <1>2, TypeOKParts DEF TypeOK

\* What the API server can make of a write.
LEMMA OutcomeKinds ==
  ASSUME NEW log, NEW accepts, NEW new, NEW o \in Outcomes(log, accepts, new)
  PROVE  /\ o.fault \in {0, 1} /\ o.ok \in BOOLEAN
         /\ o.ok => accepts /\ o.log = Commit(log, new)
         /\ o.log = log \/ (accepts /\ o.log = Commit(log, new))
<1>1. \/ accepts /\ o = [log |-> Commit(log, new), ok |-> TRUE, fault |-> 0]
      \/ accepts /\ o = [log |-> Commit(log, new), ok |-> FALSE, fault |-> 1]
      \/ o = [log |-> log, ok |-> FALSE, fault |-> 0]
      \/ o = [log |-> log, ok |-> FALSE, fault |-> 1]
  BY DEF Outcomes
<1>2. CASE accepts /\ o = [log |-> Commit(log, new), ok |-> TRUE, fault |-> 0]
  BY <1>2
<1>3. CASE accepts /\ o = [log |-> Commit(log, new), ok |-> FALSE, fault |-> 1]
  BY <1>3
<1>4. CASE o = [log |-> log, ok |-> FALSE, fault |-> 0]
  BY <1>4
<1>5. CASE o = [log |-> log, ok |-> FALSE, fault |-> 1]
  BY <1>5
<1> QED BY <1>1, <1>2, <1>3, <1>4, <1>5

\* A call that may fail uses up at most one fault.
LEMMA FaultType ==
  ASSUME TypeOK, NEW ACTION f, f \in {0, 1}, faults' = faults + f, faults' <= MaxFaults
  PROVE  faults' \in 0..MaxFaults
  BY BoundsAssumption DEF TypeOK

\* What becomes of a write of the proxy: it is stored and acknowledged, or the
\* call fails, with the version stored or not.
LEMMA WriteProxyEffect ==
  ASSUME TypeOK, NEW ACTION accepts, NEW ACTION new, NEW ACTION ok, NEW ACTION err,
         WriteProxy(accepts, new, ok, err)
  PROVE  /\ \/ /\ accepts /\ proxy' = Commit(proxy, new)
               /\ GoOn(ok, [loc EXCEPT !.proxy = new], fresh \cup {"proxy"})
            \/ /\ proxy' = proxy
               /\ GoOn(err, loc, fresh)
            \/ /\ accepts /\ proxy' = Commit(proxy, new)
               /\ GoOn(err, loc, fresh \ {"proxy"})
         /\ faults' \in 0..MaxFaults
         /\ UNCHANGED <<dep, svc, cms, queued, edits>>
<1>1. PICK o \in Outcomes(proxy, accepts, new) :
        /\ faults' = faults + o.fault /\ faults' <= MaxFaults
        /\ proxy' = o.log
        /\ IF o.ok
           THEN GoOn(ok, [loc EXCEPT !["proxy"] = new], fresh \cup {"proxy"})
           ELSE GoOn(err, loc, IF o.log = proxy THEN fresh ELSE fresh \ {"proxy"})
  BY DEF WriteProxy, Write
<1>2. /\ o.fault \in {0, 1} /\ o.ok \in BOOLEAN
      /\ o.ok => accepts /\ o.log = Commit(proxy, new)
      /\ o.log = proxy \/ (accepts /\ o.log = Commit(proxy, new))
  BY OutcomeKinds
<1>3. faults' \in 0..MaxFaults
  BY <1>1, <1>2, FaultType
<1>4. UNCHANGED <<dep, svc, cms, queued, edits>>
  BY DEF WriteProxy, Write
<1>5. CASE o.ok
  BY <1>1, <1>2, <1>3, <1>4, <1>5
<1>6. CASE ~o.ok /\ o.log = proxy
  BY <1>1, <1>3, <1>4, <1>6
<1>7. CASE ~o.ok /\ o.log # proxy
  BY <1>1, <1>2, <1>3, <1>4, <1>7
<1> QED BY <1>2, <1>5, <1>6, <1>7

\* What becomes of a write of the Deployment.
LEMMA WriteDepEffect ==
  ASSUME TypeOK, NEW ACTION accepts, NEW ACTION new, NEW ACTION ok, NEW ACTION err,
         WriteDep(accepts, new, ok, err)
  PROVE  /\ \/ /\ accepts /\ dep' = Commit(dep, new)
               /\ GoOn(ok, [loc EXCEPT !.dep = new], fresh \cup {"dep"})
            \/ /\ dep' = dep
               /\ GoOn(err, loc, fresh)
            \/ /\ accepts /\ dep' = Commit(dep, new)
               /\ GoOn(err, loc, fresh \ {"dep"})
         /\ faults' \in 0..MaxFaults
         /\ UNCHANGED <<proxy, svc, cms, queued, edits>>
<1>1. PICK o \in Outcomes(dep, accepts, new) :
        /\ faults' = faults + o.fault /\ faults' <= MaxFaults
        /\ dep' = o.log
        /\ IF o.ok
           THEN GoOn(ok, [loc EXCEPT !["dep"] = new], fresh \cup {"dep"})
           ELSE GoOn(err, loc, IF o.log = dep THEN fresh ELSE fresh \ {"dep"})
  BY DEF WriteDep, Write
<1>2. /\ o.fault \in {0, 1} /\ o.ok \in BOOLEAN
      /\ o.ok => accepts /\ o.log = Commit(dep, new)
      /\ o.log = dep \/ (accepts /\ o.log = Commit(dep, new))
  BY OutcomeKinds
<1>3. faults' \in 0..MaxFaults
  BY <1>1, <1>2, FaultType
<1>4. UNCHANGED <<proxy, svc, cms, queued, edits>>
  BY DEF WriteDep, Write
<1>5. CASE o.ok
  BY <1>1, <1>2, <1>3, <1>4, <1>5
<1>6. CASE ~o.ok /\ o.log = dep
  BY <1>1, <1>3, <1>4, <1>6
<1>7. CASE ~o.ok /\ o.log # dep
  BY <1>1, <1>2, <1>3, <1>4, <1>7
<1> QED BY <1>2, <1>5, <1>6, <1>7

\* What becomes of a write of the Service.
LEMMA WriteSvcEffect ==
  ASSUME TypeOK, NEW ACTION accepts, NEW ACTION new, NEW ACTION ok, NEW ACTION err,
         WriteSvc(accepts, new, ok, err)
  PROVE  /\ \/ /\ accepts /\ svc' = Commit(svc, new)
               /\ GoOn(ok, [loc EXCEPT !.svc = new], fresh \cup {"svc"})
            \/ /\ svc' = svc
               /\ GoOn(err, loc, fresh)
            \/ /\ accepts /\ svc' = Commit(svc, new)
               /\ GoOn(err, loc, fresh \ {"svc"})
         /\ faults' \in 0..MaxFaults
         /\ UNCHANGED <<proxy, dep, cms, queued, edits>>
<1>1. PICK o \in Outcomes(svc, accepts, new) :
        /\ faults' = faults + o.fault /\ faults' <= MaxFaults
        /\ svc' = o.log
        /\ IF o.ok
           THEN GoOn(ok, [loc EXCEPT !["svc"] = new], fresh \cup {"svc"})
           ELSE GoOn(err, loc, IF o.log = svc THEN fresh ELSE fresh \ {"svc"})
  BY DEF WriteSvc, Write
<1>2. /\ o.fault \in {0, 1} /\ o.ok \in BOOLEAN
      /\ o.ok => accepts /\ o.log = Commit(svc, new)
      /\ o.log = svc \/ (accepts /\ o.log = Commit(svc, new))
  BY OutcomeKinds
<1>3. faults' \in 0..MaxFaults
  BY <1>1, <1>2, FaultType
<1>4. UNCHANGED <<proxy, dep, cms, queued, edits>>
  BY DEF WriteSvc, Write
<1>5. CASE o.ok
  BY <1>1, <1>2, <1>3, <1>4, <1>5
<1>6. CASE ~o.ok /\ o.log = svc
  BY <1>1, <1>3, <1>4, <1>6
<1>7. CASE ~o.ok /\ o.log # svc
  BY <1>1, <1>2, <1>3, <1>4, <1>7
<1> QED BY <1>2, <1>5, <1>6, <1>7

\* Writes of the three kinds of objects, whatever becomes of them, are well typed.
LEMMA WriteProxyType ==
  ASSUME TypeOK, NEW ACTION accepts, NEW ACTION new, NEW ACTION ok, NEW ACTION err,
         new \in ProxyObj,
         ok \in Calls \cup Returns, err \in Calls \cup Returns,
         WriteProxy(accepts, new, ok, err)
  PROVE  TypeOK'
<1>0. proxy \in Seq(ProxyObj) /\ proxy # <<>> /\ loc \in LocType /\ fresh \subseteq Kinds
  BY DEF TypeOK, LocType, Kinds
<1>1. proxy' = proxy \/ proxy' = Commit(proxy, new)
  BY WriteProxyEffect
<1>2. [loc EXCEPT !.proxy = new] \in LocType
  BY <1>0 DEF LocType
<1>3. fresh \cup {"proxy"} \subseteq Kinds /\ fresh \ {"proxy"} \subseteq Kinds
  BY <1>0 DEF Kinds
<1>4. /\ pc' \in Calls \cup {"idle"} /\ timer' \in BOOLEAN
      /\ loc' \in LocType /\ fresh' \subseteq Kinds
  <2>1. CASE GoOn(ok, [loc EXCEPT !.proxy = new], fresh \cup {"proxy"})
    BY <1>2, <1>3, <2>1, GoOnType
  <2>2. CASE GoOn(err, loc, fresh)
    BY <1>0, <2>2, GoOnType
  <2>3. CASE GoOn(err, loc, fresh \ {"proxy"})
    BY <1>0, <1>3, <2>3, GoOnType
  <2> QED BY <2>1, <2>2, <2>3, WriteProxyEffect
<1>5. proxy' \in Seq(ProxyObj) /\ proxy' # <<>>
  BY <1>0, <1>1, LogWrites
<1>6. faults' \in 0..MaxFaults /\ UNCHANGED <<dep, svc, cms, queued, edits>>
  BY WriteProxyEffect
<1> QED BY <1>4, <1>5, <1>6, TypeOKParts DEF TypeOK

LEMMA WriteDepType ==
  ASSUME TypeOK, NEW ACTION accepts, NEW ACTION new, NEW ACTION ok, NEW ACTION err,
         new \in DepObj,
         ok \in Calls \cup Returns, err \in Calls \cup Returns,
         WriteDep(accepts, new, ok, err)
  PROVE  TypeOK'
<1>0. dep \in Seq(DepObj) /\ dep # <<>> /\ loc \in LocType /\ fresh \subseteq Kinds
  BY DEF TypeOK, LocType, Kinds
<1>1. dep' = dep \/ dep' = Commit(dep, new)
  BY WriteDepEffect
<1>2. [loc EXCEPT !.dep = new] \in LocType
  BY <1>0 DEF LocType
<1>3. fresh \cup {"dep"} \subseteq Kinds /\ fresh \ {"dep"} \subseteq Kinds
  BY <1>0 DEF Kinds
<1>4. /\ pc' \in Calls \cup {"idle"} /\ timer' \in BOOLEAN
      /\ loc' \in LocType /\ fresh' \subseteq Kinds
  <2>1. CASE GoOn(ok, [loc EXCEPT !.dep = new], fresh \cup {"dep"})
    BY <1>2, <1>3, <2>1, GoOnType
  <2>2. CASE GoOn(err, loc, fresh)
    BY <1>0, <2>2, GoOnType
  <2>3. CASE GoOn(err, loc, fresh \ {"dep"})
    BY <1>0, <1>3, <2>3, GoOnType
  <2> QED BY <2>1, <2>2, <2>3, WriteDepEffect
<1>5. dep' \in Seq(DepObj) /\ dep' # <<>>
  BY <1>0, <1>1, LogWrites
<1>6. faults' \in 0..MaxFaults /\ UNCHANGED <<proxy, svc, cms, queued, edits>>
  BY WriteDepEffect
<1> QED BY <1>4, <1>5, <1>6, TypeOKParts DEF TypeOK

LEMMA WriteSvcType ==
  ASSUME TypeOK, NEW ACTION accepts, NEW ACTION new, NEW ACTION ok, NEW ACTION err,
         new \in SvcObj,
         ok \in Calls \cup Returns, err \in Calls \cup Returns,
         WriteSvc(accepts, new, ok, err)
  PROVE  TypeOK'
<1>0. svc \in Seq(SvcObj) /\ svc # <<>> /\ loc \in LocType /\ fresh \subseteq Kinds
  BY DEF TypeOK, LocType, Kinds
<1>1. svc' = svc \/ svc' = Commit(svc, new)
  BY WriteSvcEffect
<1>2. [loc EXCEPT !.svc = new] \in LocType
  BY <1>0 DEF LocType
<1>3. fresh \cup {"svc"} \subseteq Kinds /\ fresh \ {"svc"} \subseteq Kinds
  BY <1>0 DEF Kinds
<1>4. /\ pc' \in Calls \cup {"idle"} /\ timer' \in BOOLEAN
      /\ loc' \in LocType /\ fresh' \subseteq Kinds
  <2>1. CASE GoOn(ok, [loc EXCEPT !.svc = new], fresh \cup {"svc"})
    BY <1>2, <1>3, <2>1, GoOnType
  <2>2. CASE GoOn(err, loc, fresh)
    BY <1>0, <2>2, GoOnType
  <2>3. CASE GoOn(err, loc, fresh \ {"svc"})
    BY <1>0, <1>3, <2>3, GoOnType
  <2> QED BY <2>1, <2>2, <2>3, WriteSvcEffect
<1>5. svc' \in Seq(SvcObj) /\ svc' # <<>>
  BY <1>0, <1>1, LogWrites
<1>6. faults' \in 0..MaxFaults /\ UNCHANGED <<proxy, dep, cms, queued, edits>>
  BY WriteSvcEffect
<1> QED BY <1>4, <1>5, <1>6, TypeOKParts DEF TypeOK

\* The updates of the two conditions of the status are well typed.
LEMMA WriteStatusType ==
  ASSUME TypeOK, NEW STATE condition, NEW STATE value, NEW STATE ok, NEW STATE err,
         \/ condition = "available" /\ value \in Available
         \/ condition = "degraded" /\ value \in Degraded,
         ok \in Calls \cup Returns, err \in Calls \cup Returns,
         WriteStatus(condition, value, ok, err)
  PROVE  TypeOK'
<1> DEFINE status == [loc.proxy.status EXCEPT ![condition] = value]
           new == [Live(proxy) EXCEPT !.status = status]
<1>1. Live(proxy) \in ProxyObj /\ loc.proxy \in ProxyObj
  BY StoredTypes
<1>2. loc.proxy.status \in [available : Available, degraded : Degraded]
  BY <1>1 DEF ProxyObj
<1>3. status \in [available : Available, degraded : Degraded]
  <2>1. CASE condition = "available" /\ value \in Available
    BY <1>2, <2>1
  <2>2. CASE condition = "degraded" /\ value \in Degraded
    BY <1>2, <2>2
  <2> QED BY <2>1, <2>2
<1> HIDE DEF status
<1>4. new \in ProxyObj
  BY <1>1, <1>3 DEF ProxyObj
<1>5. WriteProxy(Current("proxy", proxy), new, ok, err)
  BY DEF WriteStatus, status
<1>6. Current("proxy", proxy) \in BOOLEAN
  BY <1>1 DEF Current, ProxyObj
<1> HIDE DEF new
<1> QED BY <1>4, <1>5, <1>6, WriteProxyType

\* The updates of the finalizers are well typed.
LEMMA WriteFinalizersType ==
  ASSUME TypeOK, NEW STATE accepts, NEW STATE fins, NEW STATE ok, NEW STATE err,
         fins \in SUBSET Finalizers, ok \in Calls \cup Returns, err \in Calls \cup Returns,
         WriteFinalizers(accepts, fins, ok, err)
  PROVE  TypeOK'
<1> DEFINE new == [Live(proxy) EXCEPT !.spec = loc.proxy.spec, !.fins = fins]
<1>1. Live(proxy) \in ProxyObj /\ loc.proxy \in ProxyObj
  BY StoredTypes
<1>2. new \in ProxyObj
  BY <1>1 DEF ProxyObj
<1>3. WriteProxy(accepts, Reap(new), ok, err)
  BY DEF WriteFinalizers
<1> HIDE DEF new
<1>4. Reap(new) \in ProxyObj
  BY <1>2, ObjectTypes
<1> QED BY <1>3, <1>4, WriteProxyType

\* Re-fetching the proxy is well typed.
LEMMA RefetchType ==
  ASSUME TypeOK, NEW STATE to, to \in Calls \cup Returns, Refetch(to)
  PROVE  TypeOK'
<1>1. Cached(proxy) \in ProxyObj /\ loc \in LocType /\ fresh \subseteq Kinds
  BY StoredTypes
<1>2. CASE Step(to, [loc EXCEPT !.proxy = Cached(proxy)], Read(fresh, "proxy", proxy))
  <2>1. [loc EXCEPT !.proxy = Cached(proxy)] \in LocType
    BY <1>1 DEF LocType
  <2>2. Read(fresh, "proxy", proxy) \subseteq Kinds
    BY <1>1 DEF Read, Kinds
  <2> QED BY <1>2, <2>1, <2>2, StepType
<1>3. CASE Step("requeue", loc, fresh)
  BY <1>1, <1>3, StepType DEF Returns
<1> QED BY <1>2, <1>3 DEF Refetch

\* The calls before the lookup of the Deployment, and the status updates.
LEMMA ProxyCallsType ==
  ASSUME TypeOK,
         \/ initStatus \/ addFinalizer \/ finalizing \/ refetchDeleted \/ finalized
         \/ removeFinalizer \/ createFailed \/ refetchForDep \/ depFailed
         \/ refetchForSvc \/ svcFailed \/ available
  PROVE  TypeOK'
<1>0. /\ Live(proxy) \in ProxyObj /\ loc.proxy \in ProxyObj /\ loc \in LocType
      /\ loc.after \in Calls \cup Returns /\ fresh \subseteq Kinds
  BY StoredTypes
<1>1. Calls \subseteq Calls \cup Returns /\ "requeue" \in Returns /\ "done" \in Returns
  BY DEF Returns
<1>2. {"refetchDeleted", "finalized", "removeFinalizer", "depFailed", "svcFailed"} \subseteq Calls
  BY DEF Calls
<1>3. CASE initStatus \/ createFailed \/ svcFailed
  <2>1. {<<"Starting", 0>>, <<"CreateFailed", 0>>, <<"SvcFailed", 0>>} \subseteq Available
    BY DEF Available
  <2> QED BY <1>1, <1>3, <2>1, WriteStatusType DEF initStatus, createFailed, svcFailed
<1>4. CASE depFailed
  <2>1. <<"DepFailed", 0>> \in Available
    BY DEF Available
  <2> QED BY <1>0, <1>1, <1>4, <2>1, WriteStatusType DEF depFailed
<1>5. CASE available
  <2>1. loc.proxy.spec.size \in Nat
    BY <1>0, SpecTypes DEF ProxyObj
  <2>2. <<"Created", loc.proxy.spec.size>> \in Available
    BY <2>1 DEF Available
  <2> QED BY <1>1, <1>5, <2>2, WriteStatusType DEF available
<1>6. CASE finalizing \/ finalized
  <2>1. {"Finalizing", "Finalized"} \subseteq Degraded
    BY DEF Degraded
  <2> QED BY <1>1, <1>2, <1>6, <2>1, WriteStatusType DEF finalizing, finalized
<1>7. CASE refetchDeleted \/ refetchForDep \/ refetchForSvc
  BY <1>1, <1>2, <1>7, RefetchType DEF refetchDeleted, refetchForDep, refetchForSvc
<1>8. CASE addFinalizer
  <2>1. loc.proxy.fins \cup {Finalizer} \in SUBSET Finalizers
    BY <1>0 DEF ProxyObj, Finalizers
  <2> QED BY <1>1, <1>8, <2>1, WriteFinalizersType DEF addFinalizer
<1>9. CASE removeFinalizer
  <2>1. loc.proxy.fins \ {Finalizer} \in SUBSET Finalizers
    BY <1>0 DEF ProxyObj
  <2> QED BY <1>0, <1>1, <1>9, <2>1, WriteFinalizersType, StepType DEF removeFinalizer
<1> QED BY <1>3, <1>4, <1>5, <1>6, <1>7, <1>8, <1>9

\* A loop over the rulesets that starts or goes on.
LEMMA LoopType ==
  ASSUME NEW l \in LocType, NEW k \in Nat \ {0}, NEW names \in [Names -> Nat]
  PROVE  [l EXCEPT !.k = k, !.names = names] \in LocType
  BY DEF LocType

\* The lookup of the Deployment and the calls about it.
LEMMA DepCallsType ==
  ASSUME TypeOK,
         getDep \/ listRuleset \/ checkRulesets \/ listMounts \/ createDep \/ updateDep
  PROVE  TypeOK'
<1>0. /\ Live(dep) \in DepObj /\ Cached(dep) \in DepObj
      /\ loc.proxy \in ProxyObj /\ loc.dep \in DepObj /\ loc \in LocType
      /\ loc.names \in [Names -> Nat] /\ loc.k \in Nat
      /\ loc.after \in Calls \cup Returns /\ fresh \subseteq Kinds
  BY StoredTypes
<1>1. /\ Calls \subseteq Calls \cup Returns /\ "requeue" \in Returns
      /\ {"listMounts", "checkRulesets", "createDep", "updateDep", "createFailed",
          "refetchForDep", "getSvc"} \subseteq Calls
  BY DEF Returns, Calls
<1>2. NoNames \in [Names -> Nat] /\ 1 \in Nat \ {0}
  BY DEF NoNames
<1>3. CASE getDep
  <2> DEFINE d == Cached(dep)
             spec == loc.proxy.spec
             f == Read(fresh, "dep", dep)
             l1 == [loc EXCEPT !.after = "createDep"]
             sized == [d EXCEPT !.size = spec.size]
             l2 == [loc EXCEPT !.dep = sized]
             l3 == [loc EXCEPT !.dep = d]
  <2>1. f \subseteq Kinds
    BY <1>0 DEF Read, Kinds
  <2>2. spec.size \in Nat
    BY <1>0, SpecTypes DEF ProxyObj
  <2>3. sized \in DepObj
    BY <1>0, <2>2 DEF DepObj
  <2>4. l1 \in LocType /\ l3 \in LocType
    BY <1>0, <1>1 DEF LocType
  <2>5. l2 \in LocType
    <3> HIDE DEF sized
    <3> QED BY <1>0, <2>3 DEF LocType
  <2>6. Step("listMounts", l1, f) \/ Step("updateDep", l2, f) \/ Step("checkRulesets", l3, f)
    BY <1>3 DEF getDep
  <2> HIDE DEF l1, l2, l3, f
  <2> QED BY <1>1, <2>1, <2>4, <2>5, <2>6, StepType
<1>4. CASE listRuleset
  <2> DEFINE more == [n \in Names |->
                        loc.names[n] + (IF Selects(loc.proxy.spec.rulesets[loc.k], Cached(cms[n]))
                                        THEN 1 ELSE 0)]
             l == [loc EXCEPT !.k = @ + 1, !.names = more]
  <2>1. more \in [Names -> Nat]
    <3>1. \A n \in Names : loc.names[n] \in Nat
      BY <1>0
    <3> QED BY <3>1
  <2>2. Step(pc, l, fresh) /\ pc \in Calls
    BY <1>1, <1>4 DEF listRuleset
  <2> HIDE DEF more
  <2>3. l \in LocType
    <3>1. loc.k + 1 \in Nat \ {0}
      BY <1>0
    <3> QED BY <1>0, <2>1, <3>1 DEF LocType
  <2> HIDE DEF l
  <2> QED BY <1>0, <2>2, <2>3, StepType
<1>5. CASE checkRulesets
  <2> DEFINE rewound == [loc EXCEPT !.k = 1, !.names = NoNames]
             l == [rewound EXCEPT !.after = "updateDep"]
  <2>1. rewound \in LocType
    BY <1>0, <1>2, LoopType
  <2>2. l \in LocType
    <3> HIDE DEF rewound
    <3> QED BY <1>1, <2>1 DEF LocType
  <2>3. Step("listMounts", l, fresh) \/ Step("getSvc", rewound, fresh)
    BY <1>5 DEF checkRulesets
  <2> HIDE DEF rewound, l
  <2> QED BY <1>0, <1>1, <2>1, <2>2, <2>3, StepType
<1>6. CASE listMounts
  <2> DEFINE new == IF loc.after = "createDep"
                    THEN deploymentForVillipProxy(loc.proxy, loc.names)
                    ELSE [loc.dep EXCEPT !.tagged = TRUE, !.conf = loc.names]
             l == [loc EXCEPT !.k = 1, !.names = NoNames, !.dep = new, !.after = "requeue"]
  <2>1. [loc.dep EXCEPT !.tagged = TRUE, !.conf = loc.names] \in DepObj
    BY <1>0 DEF DepObj
  <2>2. new \in DepObj
    BY <1>0, <2>1, ObjectTypes
  <2>3. Step(loc.after, l, fresh)
    BY <1>6 DEF listMounts
  <2> HIDE DEF new
  <2>4. l \in LocType
    <3> DEFINE l1 == [loc EXCEPT !.k = 1, !.names = NoNames]
    <3>1. l1 \in LocType
      BY <1>0, <1>2, LoopType
    <3>2. l = [l1 EXCEPT !.dep = new, !.after = "requeue"]
      OBVIOUS
    <3> HIDE DEF l1, l
    <3> QED BY <1>0, <1>1, <2>2, <3>1, <3>2 DEF LocType
  <2> HIDE DEF l
  <2> QED BY <1>0, <2>3, <2>4, StepType
<1>7. CASE createDep
  BY <1>0, <1>1, <1>7, WriteDepType DEF createDep
<1>8. CASE updateDep
  BY <1>0, <1>1, <1>8, WriteDepType DEF updateDep
<1> QED BY <1>3, <1>4, <1>5, <1>6, <1>7, <1>8

\* The lookup of the Service and the calls about it.
LEMMA SvcCallsType ==
  ASSUME TypeOK, getSvc \/ createSvc \/ updateSvc
  PROVE  TypeOK'
<1>0. /\ Cached(svc) \in SvcObj /\ loc.proxy \in ProxyObj /\ loc.dep \in DepObj
      /\ loc.svc \in SvcObj /\ loc \in LocType
      /\ loc.after \in Calls \cup Returns /\ fresh \subseteq Kinds
  BY StoredTypes
<1>1. /\ Calls \subseteq Calls \cup Returns /\ "requeue" \in Returns
      /\ {"createSvc", "updateSvc", "updateDep", "available", "refetchForSvc"} \subseteq Calls
  BY DEF Returns, Calls
<1>2. CASE getSvc
  <2> DEFINE s == Cached(svc)
             ports == loc.proxy.spec.ports
             after == IF PortsDiffer(ports, loc.dep.ports) /\ PortsDiffer(ports, s.ports)
                      THEN "updateSvc" ELSE "requeue"
             d == [loc.dep EXCEPT !.ports = ports]
             sp == [s EXCEPT !.ports = ports]
             l == [loc EXCEPT !.dep = d, !.svc = sp, !.after = after]
             f == Read(fresh, "svc", svc)
  <2>1. f \subseteq Kinds
    BY <1>0 DEF Read, Kinds
  <2>2. ports \in SUBSET Nat
    BY <1>0, SpecTypes DEF ProxyObj
  <2>3. d \in DepObj
    BY <1>0, <2>2 DEF DepObj
  <2>4. sp \in SvcObj
    BY <1>0, <2>2 DEF SvcObj
  <2>5. after \in Calls \cup Returns
    BY <1>1
  <2>6. l = [loc EXCEPT !.dep.ports = ports, !.svc = sp, !.after = after]
    BY <1>0 DEF LocType
  <2>7. \/ Step("createSvc", loc, f)
        \/ Step("updateDep", l, f) \/ Step("updateSvc", l, f) \/ Step("available", l, f)
    BY <1>2, <2>6 DEF getSvc, ManagePortChange
  <2> HIDE DEF d, sp, after, f
  <2>8. l \in LocType
    BY <1>0, <2>3, <2>4, <2>5 DEF LocType
  <2> HIDE DEF l
  <2> QED BY <1>0, <1>1, <2>1, <2>7, <2>8, StepType
<1>3. CASE createSvc
  <2>1. serviceForVillipProxy(loc.proxy) \in SvcObj
    BY <1>0, ObjectTypes
  <2> QED BY <1>1, <1>3, <2>1, WriteSvcType DEF createSvc
<1>4. CASE updateSvc
  BY <1>0, <1>1, <1>4, WriteSvcType DEF updateSvc
<1> QED BY <1>2, <1>3, <1>4

\* Every step of Reconcile is well typed.
LEMMA WorkTypeOK ==
  ASSUME TypeOK, Work
  PROVE  TypeOK'
<1>1. CASE Reconcile
  <2>1. pc' \in Calls \cup {"idle"}
    BY <1>1 DEF Reconcile, Branch, Calls
  <2>2. fresh' \subseteq Kinds
    BY <1>1, StoredTypes DEF Reconcile, Read, Kinds
  <2>3. loc' \in LocType
    <3>1. Cached(proxy) \in ProxyObj /\ NoLocals \in LocType /\ loc \in LocType
      BY StoredTypes, ObjectTypes
    <3>2. [NoLocals EXCEPT !.proxy = Cached(proxy)] \in LocType
      BY <3>1 DEF LocType
    <3> QED BY <1>1, <3>1, <3>2 DEF Reconcile
  <2>4. UNCHANGED <<proxy, dep, svc, cms, timer, edits, faults>> /\ queued' \in BOOLEAN
    BY <1>1 DEF Reconcile, objects
  <2> QED BY <2>1, <2>2, <2>3, <2>4, TypeOKParts DEF TypeOK
<1> QED BY <1>1, ProxyCallsType, DepCallsType, SvcCallsType DEF Work

\* A user's write of any object is well typed.
LEMMA UserWriteType ==
  ASSUME TypeOK, NEW op, User(op),
         \/ /\ \E o \in ProxyObj : proxy' = Append(proxy, o)
            /\ UNCHANGED <<dep, svc, cms>>
         \/ /\ \E o \in DepObj : dep' = Append(dep, o)
            /\ UNCHANGED <<proxy, svc, cms>>
         \/ /\ \E o \in SvcObj : svc' = Append(svc, o)
            /\ UNCHANGED <<proxy, dep, cms>>
         \/ /\ \E n \in Names, o \in CMObj : cms' = [cms EXCEPT ![n] = Append(@, o)]
            /\ UNCHANGED <<proxy, dep, svc>>,
         fresh' \subseteq fresh
  PROVE  TypeOK'
<1>1. edits' \in 0..MaxEdits /\ UNCHANGED <<pc, loc, queued, timer, faults>>
  BY BoundsAssumption DEF User, TypeOK
<1>2. proxy' \in Seq(ProxyObj) /\ proxy' # <<>>
  <2>0. proxy \in Seq(ProxyObj) /\ proxy # <<>>
    BY DEF TypeOK
  <2>1. CASE proxy' = proxy
    BY <2>0, <2>1
  <2>2. CASE \E o \in ProxyObj : proxy' = Append(proxy, o)
    BY <2>0, <2>2, LogWrites
  <2> QED BY <2>1, <2>2
<1>3. dep' \in Seq(DepObj) /\ dep' # <<>>
  <2>0. dep \in Seq(DepObj) /\ dep # <<>>
    BY DEF TypeOK
  <2>1. CASE dep' = dep
    BY <2>0, <2>1
  <2>2. CASE \E o \in DepObj : dep' = Append(dep, o)
    BY <2>0, <2>2, LogWrites
  <2> QED BY <2>1, <2>2
<1>4. svc' \in Seq(SvcObj) /\ svc' # <<>>
  <2>0. svc \in Seq(SvcObj) /\ svc # <<>>
    BY DEF TypeOK
  <2>1. CASE svc' = svc
    BY <2>0, <2>1
  <2>2. CASE \E o \in SvcObj : svc' = Append(svc, o)
    BY <2>0, <2>2, LogWrites
  <2> QED BY <2>1, <2>2
<1>5. cms' \in [Names -> Seq(CMObj)] /\ \A n \in Names : cms'[n] # <<>>
  <2>1. CASE cms' = cms
    BY <2>1 DEF TypeOK
  <2>2. CASE \E n \in Names, o \in CMObj : cms' = [cms EXCEPT ![n] = Append(@, o)]
    <3>1. PICK n \in Names, o \in CMObj : cms' = [cms EXCEPT ![n] = Append(@, o)]
      BY <2>2
    <3>2. Append(cms[n], o) \in Seq(CMObj) /\ Append(cms[n], o) # <<>>
      BY LogWrites DEF TypeOK
    <3> QED BY <3>1, <3>2 DEF TypeOK
  <2> QED BY <2>1, <2>2
<1>6. fresh' \subseteq Kinds
  BY StoredTypes
<1> QED BY <1>1, <1>2, <1>3, <1>4, <1>5, <1>6 DEF TypeOK, Kinds

\* Whatever users do is well typed.
LEMMA UsersTypeOK ==
  ASSUME TypeOK, Users
  PROVE  TypeOK'
<1>0. Live(proxy) \in ProxyObj /\ Live(dep) \in DepObj /\ Live(svc) \in SvcObj
  BY StoredTypes
<1>1. ASSUME NEW op, NEW STATE o, UserProxy(op, o), o \in ProxyObj PROVE TypeOK'
  BY <1>1, UserWriteType DEF UserProxy
<1>2. ASSUME NEW op, NEW STATE o, UserDep(op, o), o \in DepObj PROVE TypeOK'
  BY <1>2, UserWriteType DEF UserDep
<1>3. CASE EditProxy
  <2>1. PICK spec \in Specs : UserProxy("edit", [Live(proxy) EXCEPT !.spec = spec])
    BY <1>3 DEF EditProxy
  <2>2. [Live(proxy) EXCEPT !.spec = spec] \in ProxyObj
    BY <1>0 DEF ProxyObj
  <2> QED BY <1>1, <2>1, <2>2
<1>4. CASE DeleteProxy
  <2>1. [Live(proxy) EXCEPT !.deleting = TRUE] \in ProxyObj
    BY <1>0 DEF ProxyObj
  <2>2. [Live(proxy) EXCEPT !.deleting = TRUE, !.fins = @ \cup {Foreground}] \in ProxyObj
    BY <1>0 DEF ProxyObj, Finalizers
  <2>3. Reap([Live(proxy) EXCEPT !.deleting = TRUE]) \in ProxyObj
    BY <2>1, ObjectTypes
  <2> QED BY <1>1, <1>4, <2>2, <2>3 DEF DeleteProxy
<1>5. CASE CreateProxy
  <2>1. PICK spec \in Specs : UserProxy("create", NewProxy(Live(proxy), spec))
    BY <1>5 DEF CreateProxy
  <2>2. NewProxy(Live(proxy), spec) \in ProxyObj
    BY <1>0, ObjectTypes
  <2> QED BY <1>1, <2>1, <2>2
<1>6. CASE ScaleDep \/ RollDep \/ DeleteDep
  <2>1. [Live(dep) EXCEPT !.size = 0] \in DepObj
    BY <1>0 DEF DepObj
  <2>2. [Live(dep) EXCEPT !.stamp = @ + 1] \in DepObj
    BY <1>0 DEF DepObj
  <2> QED BY <1>2, <1>6, <2>1, <2>2, ObjectTypes DEF ScaleDep, RollDep, DeleteDep
<1>7. CASE DeleteSvc
  BY <1>7, UserWriteType, ObjectTypes DEF DeleteSvc
<1>8. CASE MakeDep
  <2>1. [NoDep EXCEPT !.exists = TRUE] \in DepObj
    BY ObjectTypes DEF DepObj
  <2> QED BY <1>8, <2>1, UserWriteType DEF MakeDep
<1>9. CASE MakeSvc
  <2>1. [NoSvc EXCEPT !.exists = TRUE, !.ports = {1}] \in SvcObj
    <3>1. {1} \in SUBSET Nat /\ TRUE \in BOOLEAN
      OBVIOUS
    <3> QED BY <3>1, ObjectTypes DEF SvcObj
  <2> QED BY <1>9, <2>1, UserWriteType DEF MakeSvc
<1>10. ASSUME NEW n \in Names, ConfigMapChanges(n) PROVE TypeOK'
  BY <1>10, UserWriteType DEF ConfigMapChanges
<1> QED BY <1>3, <1>4, <1>5, <1>6, <1>7, <1>8, <1>9, <1>10 DEF Users

\* Events, timers, garbage collection and restarts are well typed.
LEMMA OthersTypeOK ==
  ASSUME TypeOK, Environment \/ Restart
  PROVE  TypeOK'
<1>0. /\ proxy \in Seq(ProxyObj) /\ proxy # <<>> /\ Live(proxy) \in ProxyObj
      /\ dep \in Seq(DepObj) /\ dep # <<>> /\ svc \in Seq(SvcObj) /\ svc # <<>>
      /\ cms \in [Names -> Seq(CMObj)] /\ \A n \in Names : cms[n] # <<>>
  BY StoredTypes DEF TypeOK
<1>1. CASE DeliverProxy
  <2>1. proxy' \in Seq(ProxyObj) /\ proxy' # <<>>
    BY <1>0, <1>1, LogDelivers DEF DeliverProxy, Synced
  <2> QED BY <1>1, <2>1 DEF DeliverProxy, TypeOK
<1>2. CASE DeliverDep
  <2>1. dep' \in Seq(DepObj) /\ dep' # <<>>
    BY <1>0, <1>2, LogDelivers DEF DeliverDep, Synced
  <2>2. queued' \in BOOLEAN
    BY <1>2 DEF DeliverDep, TypeOK
  <2> QED BY <1>2, <2>1, <2>2 DEF DeliverDep, TypeOK
<1>3. CASE DeliverSvc
  <2>1. svc' \in Seq(SvcObj) /\ svc' # <<>>
    BY <1>0, <1>3, LogDelivers DEF DeliverSvc, Synced
  <2>2. queued' \in BOOLEAN
    BY <1>3 DEF DeliverSvc, TypeOK
  <2> QED BY <1>3, <2>1, <2>2 DEF DeliverSvc, TypeOK
<1>4. ASSUME NEW n \in Names, DeliverCM(n) PROVE TypeOK'
  <2>1. Catchup(cms[n]) \in Seq(CMObj) /\ Catchup(cms[n]) # <<>>
    BY <1>0, <1>4, LogDelivers DEF DeliverCM, Synced
  <2>2. cms' \in [Names -> Seq(CMObj)] /\ \A m \in Names : cms'[m] # <<>>
    BY <1>0, <1>4, <2>1 DEF DeliverCM
  <2> QED BY <1>4, <2>2 DEF DeliverCM, TypeOK
<1>5. CASE TimerFires \/ ResyncFires
  BY <1>5 DEF TimerFires, ResyncFires, TypeOK, objects
<1>6. CASE GCDep \/ GCSvc
  <2>1. /\ Append(dep, NoDep) \in Seq(DepObj) /\ Append(dep, NoDep) # <<>>
        /\ Append(svc, NoSvc) \in Seq(SvcObj) /\ Append(svc, NoSvc) # <<>>
    BY <1>0, LogWrites, ObjectTypes
  <2> QED BY <1>6, <2>1 DEF GCDep, GCSvc, TypeOK
<1>7. CASE GCProxy
  <2> DEFINE o == [Live(proxy) EXCEPT !.fins = @ \ {Foreground}]
  <2>1. o \in ProxyObj
    BY <1>0 DEF ProxyObj
  <2>2. proxy' = Append(proxy, Reap(o))
    BY <1>7 DEF GCProxy
  <2> HIDE DEF o
  <2>3. proxy' \in Seq(ProxyObj) /\ proxy' # <<>>
    BY <1>0, <2>1, <2>2, LogWrites, ObjectTypes
  <2> QED BY <1>7, <2>3 DEF GCProxy, TypeOK
<1>8. CASE Restart
  <2>1. proxy' \in Seq(ProxyObj) /\ proxy' # <<>>
    BY <1>0, <1>8, LogEnds DEF Restart
  <2>2. dep' \in Seq(DepObj) /\ dep' # <<>> /\ svc' \in Seq(SvcObj) /\ svc' # <<>>
    BY <1>0, <1>8, LogEnds DEF Restart
  <2>3. cms' \in [Names -> Seq(CMObj)] /\ \A n \in Names : cms'[n] # <<>>
    <3>1. cms' = [n \in Names |-> Relist(cms[n])]
      BY <1>8 DEF Restart
    <3>2. \A n \in Names : Relist(cms[n]) \in Seq(CMObj) /\ Relist(cms[n]) # <<>>
      BY <1>0, LogEnds
    <3> QED BY <3>1, <3>2
  <2>4. faults' \in 0..MaxFaults /\ edits' \in 0..MaxEdits
    BY <1>8, BoundsAssumption DEF Restart, TypeOK
  <2>5. queued' \in BOOLEAN /\ timer' \in BOOLEAN
    <3>1. Live(proxy).exists \in BOOLEAN
      BY <1>0 DEF ProxyObj
    <3>2. Owned(Live(dep)) \in BOOLEAN /\ Owned(Live(svc)) \in BOOLEAN
      BY StoredTypes DEF Owned, DepObj, SvcObj
    <3> QED BY <1>8, <3>1, <3>2 DEF Restart
  <2>6. fresh' \subseteq Kinds /\ pc' \in Calls \cup {"idle"} /\ loc' \in LocType
    BY <1>8, ObjectTypes DEF Restart
  <2> QED BY <2>1, <2>2, <2>3, <2>4, <2>5, <2>6 DEF TypeOK, LocType, Kinds
<1> QED BY <1>1, <1>2, <1>3, <1>4, <1>5, <1>6, <1>7, <1>8 DEF Environment

\* Whatever Reconcile, its users, the API server and restarts do, the copies
\* Reconcile holds, the queue and the objects stored and cached are well formed.
THEOREM TypeCorrect == Spec => []TypeOK
<1>1. TypeOK /\ [Next]_vars => TypeOK'
  <2> SUFFICES ASSUME TypeOK, [Next]_vars PROVE TypeOK'
    OBVIOUS
  <2>1. CASE Next
    BY <2>1, WorkTypeOK, UsersTypeOK, OthersTypeOK DEF Next
  <2>2. CASE UNCHANGED vars
    BY <2>2 DEF vars, objects, TypeOK
  <2> QED BY <2>1, <2>2
<1> QED BY <1>1, InitTypeOK, PTL DEF Spec
==============================================================================
