----------------------- MODULE VillipRulesMirrorProofs -----------------------
(***************************************************************************)
(* Proof that VillipRules implements Mirror: every step of the reconciler, *)
(* its environment and its users is a step of the mirror, or none.         *)
(***************************************************************************)
EXTENDS VillipRulesStepProofs

------------------------------------------------------------------------------
(***************************************************************************)
(* The versions the informer has yet to deliver are in the order in which  *)
(* users have made them; the copy that Reconcile goes by is not ahead of   *)
(* the cache; and what it is about to store is that copy's text, in the    *)
(* ConfigMap that is stored.                                               *)
(***************************************************************************)
SpecsGrow(log) ==
  \A i, j \in 1..Len(log) : i <= j => log[i].spec <= log[j].spec

CopyNotAhead ==
  pc \in CMCalls =>
    /\ rcopy.spec <= Cached(rule).spec
    /\ ruleFresh => rcopy.spec = Live(rule).spec

CopyToStore ==
  pc \in {"updating", "updateCM"} =>
    /\ mcopy.exists /\ mcopy.data = Marshal(rcopy.spec)
    /\ cmFresh => mcopy.owner = Live(cm).owner

MirrorInv == SpecsGrow(rule) /\ CopyNotAhead /\ CopyToStore

\* The specs of a log that has one more version, is delivered, or listed anew.
LEMMA SpecsKeepGrowing ==
  ASSUME NEW log \in Seq(RuleObj), log # <<>>, SpecsGrow(log)
  PROVE  /\ Cached(log).spec <= Live(log).spec
         /\ \A o \in RuleObj : Live(log).spec <= o.spec => SpecsGrow(Append(log, o))
         /\ Len(log) # 1 => SpecsGrow(Catchup(log)) /\ Cached(log).spec <= log[2].spec
         /\ SpecsGrow(Relist(log))
<1>1. /\ Len(log) \in Nat /\ Len(log) >= 1 /\ Live(log) = log[Len(log)] /\ Cached(log) = log[1]
      /\ \A i \in 1..Len(log) : log[i].spec \in Nat
  <2>1. Len(log) \in Nat \ {0} /\ Cached(log) = log[1]
    BY LogEnds
  <2>2. \A i \in 1..Len(log) : log[i] \in RuleObj
    BY <2>1
  <2>3. \A r \in RuleObj : r.spec \in Nat
    BY DEF RuleObj
  <2> QED BY <2>1, <2>2, <2>3 DEF Live
<1>2. Cached(log).spec <= Live(log).spec
  BY <1>1 DEF SpecsGrow
<1>3. ASSUME NEW o \in RuleObj, Live(log).spec <= o.spec
      PROVE  SpecsGrow(Append(log, o))
  <2> DEFINE new == Append(log, o)
  <2>1. \A k \in 1..Len(new) :
          \/ k \in 1..Len(log) /\ new[k] = log[k]
          \/ k = Len(log) + 1 /\ new[k] = o
    BY AppendEntries
  <2>2. Len(new) = Len(log) + 1 /\ o.spec \in Nat
    BY AppendEntries DEF RuleObj
  <2>3. \A i \in 1..Len(log) : log[i].spec <= o.spec
    <3> SUFFICES ASSUME NEW i \in 1..Len(log) PROVE log[i].spec <= o.spec
      OBVIOUS
    <3>1. log[i].spec <= Live(log).spec
      BY <1>1 DEF SpecsGrow
    <3> QED BY <1>1, <1>3, <2>2, <3>1
  <2> HIDE DEF new
  <2>4. SpecsGrow(new)
    <3> SUFFICES ASSUME NEW i \in 1..Len(new), NEW j \in 1..Len(new), i <= j
                 PROVE  new[i].spec <= new[j].spec
      BY DEF SpecsGrow
    <3>1. CASE j \in 1..Len(log) /\ new[j] = log[j]
      <4>1. i \in 1..Len(log) /\ new[i] = log[i]
        BY <1>1, <2>1, <3>1
      <4> QED BY <3>1, <4>1 DEF SpecsGrow
    <3>2. CASE new[j] = o
      BY <2>1, <2>2, <2>3, <3>2
    <3> QED BY <2>1, <3>1, <3>2
  <2> QED BY <2>4 DEF new
<1>4. ASSUME Len(log) # 1
      PROVE  SpecsGrow(Catchup(log)) /\ Cached(log).spec <= log[2].spec
  <2>1. Len(log) >= 2
    BY <1>4, LogDelivers
  <2>2. Cached(log).spec <= log[2].spec
    BY <1>1, <2>1 DEF SpecsGrow
  <2> DEFINE new == Tail(log)
  <2>3. /\ Len(new) = Len(log) - 1
        /\ \A k \in 1..Len(new) : k + 1 \in 1..Len(log) /\ new[k] = log[k + 1]
    BY <2>1, TailEntries
  <2> HIDE DEF new
  <2>4. SpecsGrow(new)
    <3> SUFFICES ASSUME NEW i \in 1..Len(new), NEW j \in 1..Len(new), i <= j
                 PROVE  new[i].spec <= new[j].spec
      BY DEF SpecsGrow
    <3>1. /\ i + 1 \in 1..Len(log) /\ j + 1 \in 1..Len(log) /\ i + 1 <= j + 1
          /\ new[i] = log[i + 1] /\ new[j] = log[j + 1]
      BY <2>3
    <3> QED BY <3>1 DEF SpecsGrow
  <2> QED BY <2>2, <2>4 DEF new, Catchup
<1>5. SpecsGrow(Relist(log))
  <2>1. Len(Relist(log)) = 1 /\ Relist(log)[1] = Live(log)
    BY DEF Relist
  <2>2. Live(log).spec <= Live(log).spec
    BY <1>1
  <2> QED BY <2>1, <2>2 DEF SpecsGrow
<1> QED BY <1>2, <1>3, <1>4, <1>5

\* In every step the log keeps the order of the specs, and the cache advances.
LEMMA RuleLogAdvances ==
  ASSUME TypeOK, TypeOK', PinInv, SpecsGrow(rule), [Next]_vars
  PROVE  /\ SpecsGrow(rule')
         /\ Cached(rule).spec <= Cached(rule').spec
<1>0. /\ rule \in Seq(RuleObj) /\ rule # <<>>
      /\ Live(rule') \in RuleObj /\ Live(rule) \in RuleObj /\ Cached(rule) \in RuleObj
  <2>1. rule \in Seq(RuleObj) /\ rule # <<>> /\ rule' \in Seq(RuleObj) /\ rule' # <<>>
    BY DEF TypeOK
  <2> QED BY <2>1, LogEnds
<1>1. Cached(rule).spec \in Nat /\ Live(rule).spec \in Nat
  BY <1>0 DEF RuleObj
<1>2. CASE rule' = rule
  BY <1>1, <1>2
<1>3. ASSUME NEW ACTION o, o \in RuleObj, Live(rule).spec <= o.spec, rule' = Append(rule, o)
      PROVE  SpecsGrow(rule') /\ Cached(rule).spec <= Cached(rule').spec
  <2>1. Cached(rule') = Cached(rule)
    BY <1>0, <1>3, LogSteps
  <2>2. SpecsGrow(rule')
    BY <1>0, <1>3, SpecsKeepGrowing
  <2> QED BY <1>1, <2>1, <2>2
<1>4. CASE Work \/ GCRule
  <2>1. LeavesRule /\ GrowsLog
    <3>1. CASE Work
      BY <3>1, WorkLeavesRule
    <3>2. CASE GCRule
      <4>1. LeavesRule
        BY <3>2, EnvironmentLeavesRule DEF Environment
      <4>2. PICK i \in 1..Len(Live(rule).fins) :
              rule' = Append(rule, Reap([Live(rule) EXCEPT !.fins = RemoveAt(@, i)]))
        BY <3>2 DEF GCRule
      <4>3. RemoveAt(Live(rule).fins, i) \in Seq(Finalizers)
        BY <1>0, RemoveAtType DEF RuleObj
      <4>4. [Live(rule) EXCEPT !.fins = RemoveAt(@, i)] \in RuleObj
        BY <1>0, <4>3 DEF RuleObj
      <4>5. GrowsLog
        BY <1>0, <4>2, <4>4, ObjectTypes, LogSteps DEF GrowsLog
      <4> QED BY <4>1, <4>5
    <3> QED BY <1>4, <3>1, <3>2
  <2>2. Live(rule').spec = Live(rule).spec
    BY <2>1 DEF LeavesRule, SameRule, Released
  <2> QED BY <1>0, <1>1, <1>2, <1>3, <2>1, <2>2 DEF GrowsLog
<1>5. CASE Users
  <2> DEFINE l == Live(rule)
  <2>0. ASSUME NEW r \in RuleObj, NEW n \in Nat, NEW labels \in SUBSET Labels
        PROVE  /\ [r EXCEPT !.spec = n] \in RuleObj /\ [r EXCEPT !.spec = n].spec = n
               /\ [r EXCEPT !.labels = labels] \in RuleObj
               /\ [r EXCEPT !.labels = labels].spec = r.spec
    BY DEF RuleObj
  <2>1. CASE EditRule
    <3> DEFINE e == [l EXCEPT !.spec = @ + 1]
    <3>1. rule' = Append(rule, e)
      BY <2>1 DEF EditRule, UserRule
    <3>2. l.spec + 1 \in Nat
      BY <1>1
    <3>3. e \in RuleObj /\ e.spec = l.spec + 1
      BY <1>0, <2>0, <3>2
    <3> HIDE DEF e
    <3> QED BY <1>1, <1>3, <3>1, <3>3
  <2>2. CASE RelabelRule
    <3>1. PICK labels \in SUBSET Labels : rule' = Append(rule, [l EXCEPT !.labels = labels])
      BY <2>2 DEF RelabelRule, UserRule
    <3> DEFINE e == [l EXCEPT !.labels = labels]
    <3>2. e \in RuleObj /\ e.spec = l.spec
      BY <1>0, <1>1, <2>0
    <3>3. rule' = Append(rule, e)
      BY <3>1
    <3> HIDE DEF e
    <3> QED BY <1>1, <1>3, <3>2, <3>3
  <2>3. CASE DeleteRule
    <3>1. PICK b \in BOOLEAN : rule' = Append(rule, Reap(Marked(l, b)))
      BY <2>3 DEF DeleteRule, UserRule
    <3>2. Marked(l, b) \in RuleObj /\ Reap(Marked(l, b)) \in RuleObj
      BY <1>0, ObjectTypes
    <3>3. Marked(l, b).spec = l.spec
      BY <1>0 DEF Marked, RuleObj
    <3>4. Reap(Marked(l, b)).spec = l.spec
      BY <3>3 DEF Reap, Gone, NoRule
    <3> QED BY <1>1, <1>3, <3>1, <3>2, <3>4
  <2>4. CASE CreateRule
    <3>1. PICK labels \in SUBSET Labels : rule' = Append(rule, NewRule(l, labels))
      BY <2>4 DEF CreateRule, UserRule
    <3>2. NewRule(l, labels) \in RuleObj /\ NewRule(l, labels).spec = l.spec + 1
      BY <1>0, ObjectTypes DEF NewRule, NoRule
    <3> QED BY <1>1, <1>3, <3>1, <3>2
  <2>5. CASE EditCM \/ DeleteCM \/ CreateCM
    BY <1>2, <2>5 DEF EditCM, DeleteCM, CreateCM, UserCM
  <2> QED BY <1>5, <2>1, <2>2, <2>3, <2>4, <2>5 DEF Users
<1>6. CASE DeliverRule
  <2>1. Len(rule) # 1 /\ rule' = Catchup(rule)
    BY <1>6 DEF DeliverRule, Synced
  <2> QED BY <1>0, <2>1, SpecsKeepGrowing, LogSteps
<1>7. CASE Restart
  <2>1. rule' = Relist(rule)
    BY <1>7 DEF Restart
  <2> QED BY <1>0, <2>1, SpecsKeepGrowing, LogSteps
<1>8. CASE DeliverCM \/ TimerFires \/ GCConfigMap
           \/ \E p \in Deps : DeliverDep(p) \/ DepTouched(p) \/ ProxyMounts(p) \/ PodsStart(p)
  BY <1>2, <1>8 DEF DeliverCM, TimerFires, GCConfigMap, DeliverDep, DepTouched, ProxyMounts,
                    PodsStart, objects
<1>9. CASE UNCHANGED vars
  BY <1>2, <1>9 DEF vars, objects
<1> QED BY <1>4, <1>5, <1>6, <1>7, <1>8, <1>9 DEF Next, Environment

------------------------------------------------------------------------------
(***************************************************************************)
(* Reconcile's copies.  CopyAdvances says that what the reconciler goes by *)
(* is read again from the cache, or kept.                                  *)
(***************************************************************************)
CopyAdvances ==
  pc' \in CMCalls =>
    rcopy'.spec \in IF pc \in CMCalls THEN {rcopy.spec, Cached(rule).spec}
                    ELSE {Cached(rule).spec}

CopiesKept == CopyNotAhead' /\ CopyToStore' /\ CopyAdvances

\* A step outside the calls on the ConfigMap, or the return from one of them.
LEMMA ReturnKeepsCopies ==
  ASSUME pc' \notin CMCalls
  PROVE  CopiesKept
  BY DEF CopiesKept, CopyNotAhead, CopyToStore, CopyAdvances, CMCalls, Calls

\* A call on the ConfigMap that leaves Reconcile's copy of the rule as it is, but
\* for its status.
LEMMA CallKeepsCopies ==
  ASSUME TypeOK, TypeOK', MirrorInv, Cached(rule).spec <= Cached(rule').spec,
         pc \in CMCalls, rcopy'.spec = rcopy.spec,
         ruleFresh' => rcopy'.spec = Live(rule').spec,
         pc' \in {"updating", "updateCM"} =>
           /\ pc \in {"updating", "updateCM"}
           /\ mcopy' = mcopy
           /\ cmFresh' => cmFresh /\ Live(cm') = Live(cm)
  PROVE  CopiesKept
<1>1. rcopy.spec <= Cached(rule).spec
  BY DEF MirrorInv, CopyNotAhead
<1>2. rcopy.spec \in Nat /\ Cached(rule).spec \in Nat /\ Cached(rule').spec \in Nat
  <2>1. rcopy \in RuleObj /\ Cached(rule) \in RuleObj /\ Cached(rule') \in RuleObj
    BY LogEnds DEF TypeOK
  <2> QED BY <2>1 DEF RuleObj
<1>3. CopyNotAhead'
  <2>1. rcopy'.spec <= Cached(rule').spec
    BY <1>1, <1>2
  <2> QED BY <2>1 DEF CopyNotAhead
<1>4. CopyToStore'
  BY DEF MirrorInv, CopyToStore
<1>5. CopyAdvances
  BY DEF CopyAdvances
<1> QED BY <1>3, <1>4, <1>5 DEF CopiesKept

\* A status update keeps the spec of the copy: what it gets back from the API
\* server is what it read, since it is accepted only when nothing has changed.
LEMMA StatusKeepsCopies ==
  ASSUME TypeOK, TypeOK', MirrorInv, Cached(rule).spec <= Cached(rule').spec,
         pc \in CMCalls, NEW STATE copy, copy \in RuleObj,
         NEW STATE ok, NEW STATE err, WriteStatus(copy, ok, err),
         ok \in Returns \/ (ok \in CMCalls \ {"updating"} /\ (ok = "updateCM" => pc = "updating")),
         err \in Returns
  PROVE  CopiesKept
<1> DEFINE new == [Live(rule) EXCEPT !.available = copy.available,
                                     !.degraded = copy.degraded,
                                     !.lastSum = copy.lastSum]
<1>1. Live(rule) \in RuleObj /\ rule \in Seq(RuleObj) /\ rule # <<>>
  BY LogEnds DEF TypeOK
<1>2. new \in RuleObj /\ new.spec = Live(rule).spec
  BY <1>1 DEF RuleObj
<1>3. WriteRule(Current, new, ok, err)
  BY DEF WriteStatus
<1> HIDE DEF new
<1>4. CASE pc' = "idle"
  BY <1>4, ReturnKeepsCopies DEF CMCalls, Calls
<1>5. CASE pc' # "idle"
  <2>1. /\ Current /\ rule' = Commit(rule, new)
        /\ pc' = ok /\ rcopy' = new /\ mcopy' = mcopy /\ cm' = cm
        /\ cmFresh' => cmFresh
    BY <1>3, <1>5 DEF WriteRule, GoOn
  <2>2. Live(rule') = new
    BY <1>1, <1>2, <2>1, LogSteps
  <2>3. rcopy.spec = Live(rule).spec
    BY <2>1 DEF MirrorInv, CopyNotAhead, Current
  <2>4. pc' \in {"updating", "updateCM"} => pc = "updating"
    BY <1>5, <2>1 DEF Returns
  <2> QED BY <1>2, <2>1, <2>2, <2>3, <2>4, CallKeepsCopies
<1> QED BY <1>4, <1>5

\* The lookup of the ConfigMap: what is to be stored is the found object with
\* the text of the rule's copy.
LEMMA GetCMKeepsCopies ==
  ASSUME TypeOK, TypeOK', MirrorInv, getCM
  PROVE  CopiesKept
<1> DEFINE m == Cached(cm)
           to == CASE ~m.exists -> "createCM"
                   [] m.exists /\ Differs(m, rcopy) -> "updating"
                   [] OTHER -> "requeue"
           mc == [m EXCEPT !.data = Marshal(rcopy.spec)]
<1>1. cm \in Seq(CMObj) /\ cm # <<>> /\ m \in CMObj
  BY LogEnds DEF TypeOK
<1>2. /\ pc = "getCM" /\ GoOn(to, rcopy, ruleFresh, mc, Synced(cm))
      /\ rule' = rule /\ cm' = cm
  BY DEF getCM, objects
<1>3. mc.exists = m.exists /\ mc.owner = m.owner /\ mc.data = Marshal(rcopy.spec)
  BY <1>1 DEF CMObj
<1>4. Synced(cm) => m = Live(cm)
  BY <1>1, LogSteps
<1>5. to = "updating" => m.exists
  OBVIOUS
<1>6. to \in {"createCM", "updating", "requeue"}
  OBVIOUS
<1> HIDE DEF m, to, mc
<1>7. CASE to = "requeue"
  <2>1. pc' = "idle"
    BY <1>2, <1>7 DEF GoOn, Returns
  <2> QED BY <2>1, ReturnKeepsCopies DEF CMCalls, Calls
<1>8. CASE to \in {"createCM", "updating"}
  <2>1. /\ pc' = to /\ rcopy' = rcopy /\ mcopy' = mc
        /\ ruleFresh' => ruleFresh
        /\ cmFresh' => Synced(cm)
    BY <1>2, <1>8 DEF GoOn, Returns
  <2>2. CopyNotAhead' /\ CopyAdvances
    BY <1>2, <2>1 DEF MirrorInv, CopyNotAhead, CopyAdvances, CMCalls, Calls
  <2>3. CopyToStore'
    BY <1>2, <1>3, <1>4, <1>5, <1>8, <2>1 DEF CopyToStore
  <2> QED BY <2>2, <2>3 DEF CopiesKept
<1> QED BY <1>6, <1>7, <1>8

\* Reconcile and the re-fetch after a failed Update take the cached rule.
LEMMA ReadsKeepCopies ==
  ASSUME TypeOK, TypeOK', MirrorInv, Reconcile \/ refetch
  PROVE  CopiesKept
<1>1. /\ rule \in Seq(RuleObj) /\ rule # <<>> /\ Cached(rule) \in RuleObj
      /\ Cached(rule).spec <= Cached(rule).spec
  <2>1. rule \in Seq(RuleObj) /\ rule # <<>> /\ Cached(rule) \in RuleObj
    BY LogEnds DEF TypeOK
  <2>2. Cached(rule).spec \in Nat
    BY <2>1 DEF RuleObj
  <2> QED BY <2>1, <2>2
<1>2. Synced(rule) => Cached(rule) = Live(rule)
  BY <1>1, LogSteps
<1>3. ASSUME rule' = rule, rcopy' = Cached(rule), ruleFresh' => Synced(rule),
             pc' \notin {"updating", "updateCM"}
      PROVE  CopiesKept
  BY <1>1, <1>2, <1>3 DEF CopiesKept, CopyNotAhead, CopyToStore, CopyAdvances
<1>4. CASE Reconcile
  <2>1. CASE Cached(rule).exists
    <3>1. rule' = rule /\ rcopy' = Cached(rule) /\ (ruleFresh' => Synced(rule))
      BY <1>4, <2>1 DEF Reconcile, objects
    <3>2. pc' \notin {"updating", "updateCM"}
      BY <1>4 DEF Reconcile, Branch
    <3> QED BY <1>3, <3>1, <3>2
  <2>2. CASE ~Cached(rule).exists
    <3>1. pc' = "idle"
      BY <1>4, <2>2 DEF Reconcile, Branch
    <3> QED BY <3>1, ReturnKeepsCopies DEF CMCalls, Calls
  <2> QED BY <2>1, <2>2
<1>5. CASE refetch
  <2>1. CASE Cached(rule).exists
    <3>1. /\ rule' = rule /\ rcopy' = Cached(rule) /\ (ruleFresh' => Synced(rule))
          /\ pc' = "updateFailed"
      BY <1>5, <2>1 DEF refetch, GoOn, Returns, objects
    <3> QED BY <1>3, <3>1
  <2>2. CASE ~Cached(rule).exists
    <3>1. pc' = "idle"
      BY <1>5, <2>2 DEF refetch, GoOn, Returns
    <3> QED BY <3>1, ReturnKeepsCopies DEF CMCalls, Calls
  <2> QED BY <2>1, <2>2
<1> QED BY <1>4, <1>5

\* No call of Reconcile lets a copy get ahead of the cache, or stores another
\* text than the copy's.
LEMMA WorkKeepsCopies ==
  ASSUME TypeOK, TypeOK', PinInv, MirrorInv, Work
  PROVE  CopiesKept
<1>0. /\ Cached(rule).spec <= Cached(rule').spec
      /\ rcopy \in RuleObj /\ sumVillipRulesData(mcopy.data) \in [sha : Texts]
  <2>1. Cached(rule).spec <= Cached(rule').spec
    BY RuleLogAdvances DEF Next, MirrorInv
  <2> QED BY <2>1, ObjectTypes DEF TypeOK, CMObj
<1>1. CASE initStatus \/ addFinalizer \/ refetchDeleted \/ removeFinalizers
  <2>1. pc' \in {"idle", "removeFinalizers"}
    BY <1>1 DEF initStatus, addFinalizer, refetchDeleted, removeFinalizers, WriteStatus,
                WriteRule, GoOn, Returns
  <2> QED BY <2>1, ReturnKeepsCopies DEF CMCalls, Calls
<1>2. CASE createFailed \/ updating \/ updateFailed
  <2>1. \A a \in Available : [rcopy EXCEPT !.available = a] \in RuleObj
    BY <1>0 DEF RuleObj
  <2>2. [rcopy EXCEPT !.degraded = "Updating"] \in RuleObj
    BY <1>0 DEF RuleObj
  <2>3. {"CreateFailed", "UpdateFailed"} \subseteq Available
    BY DEF Available
  <2> QED BY <1>0, <1>2, <2>1, <2>2, <2>3, StatusKeepsCopies
          DEF createFailed, updating, updateFailed, Returns, CMCalls, Calls
<1>3. CASE created \/ updated
  <2>1. \A a \in AvailableTrue :
          [rcopy EXCEPT !.available = a,
                        !.lastSum = sumVillipRulesData(mcopy.data)] \in RuleObj
    BY <1>0 DEF RuleObj, Available
  <2> QED BY <1>0, <1>3, <2>1, StatusKeepsCopies
          DEF created, updated, AvailableTrue, Returns, CMCalls, Calls
<1>4. CASE createCM \/ updateCM
  <2>1. /\ pc \in {"createCM", "updateCM"} /\ pc' \in CMCalls \ {"updating", "updateCM"}
        /\ rule' = rule /\ rcopy' = rcopy /\ ruleFresh' = ruleFresh
    BY <1>4 DEF createCM, updateCM, WriteCM, GoOn, Returns, CMCalls, Calls, TypeOK
  <2> QED BY <1>0, <2>1, CallKeepsCopies DEF MirrorInv, CopyNotAhead, CMCalls, Calls
<1>5. CASE listDeployments \/ (\E p \in Deps : rolloutOne(p))
  <2>1. /\ pc \in {"listDeployments", "rollout"} /\ pc' = "rollout"
        /\ rule' = rule /\ rcopy' = rcopy /\ ruleFresh' = ruleFresh
    BY <1>5 DEF listDeployments, rolloutOne, objects
  <2> QED BY <1>0, <2>1, CallKeepsCopies DEF MirrorInv, CopyNotAhead, CMCalls, Calls
<1>6. CASE rolloutDone
  <2>1. pc' = "idle"
    BY <1>6 DEF rolloutDone, GoOn, Returns
  <2> QED BY <2>1, ReturnKeepsCopies DEF CMCalls, Calls
<1> QED BY <1>1, <1>2, <1>3, <1>4, <1>5, <1>6, GetCMKeepsCopies, ReadsKeepCopies DEF Work

\* Users and the environment leave Reconcile's copies alone, and make them out of
\* date when they change what is stored.
LEMMA OthersKeepCopies ==
  ASSUME TypeOK, TypeOK', PinInv, MirrorInv, Users \/ Environment \/ Restart \/ UNCHANGED vars
  PROVE  CopiesKept
<1>0. /\ rule \in Seq(RuleObj) /\ rule # <<>> /\ cm \in Seq(CMObj) /\ cm # <<>>
      /\ Cached(rule).spec <= Cached(rule').spec
  BY RuleLogAdvances DEF TypeOK, MirrorInv, Next
<1>1. CASE Restart
  <2>1. pc' = "idle"
    BY <1>1 DEF Restart
  <2> QED BY <2>1, ReturnKeepsCopies DEF CMCalls, Calls
<1>2. ASSUME UNCHANGED <<pc, rcopy, mcopy>>,
             ruleFresh' => ruleFresh /\ Live(rule') = Live(rule),
             cmFresh' => cmFresh /\ Live(cm') = Live(cm)
      PROVE  CopiesKept
  <2>1. CASE pc \in CMCalls
    <3>1. ruleFresh' => rcopy'.spec = Live(rule').spec
      BY <1>2, <2>1 DEF MirrorInv, CopyNotAhead
    <3> QED BY <1>0, <1>2, <2>1, <3>1, CallKeepsCopies
  <2>2. CASE pc \notin CMCalls
    BY <1>2, <2>2, ReturnKeepsCopies
  <2> QED BY <2>1, <2>2
<1>3. CASE Users
  <2>1. CASE EditRule \/ RelabelRule \/ DeleteRule \/ CreateRule
    BY <1>2, <2>1 DEF EditRule, RelabelRule, DeleteRule, CreateRule, UserRule, locals
  <2>2. CASE EditCM \/ DeleteCM \/ CreateCM
    BY <1>2, <2>2 DEF EditCM, DeleteCM, CreateCM, UserCM, locals
  <2> QED BY <1>3, <2>1, <2>2 DEF Users
<1>4. CASE Environment
  <2>1. CASE DeliverRule
    BY <1>0, <1>2, <2>1, LogSteps DEF DeliverRule, Synced, fresh, locals
  <2>2. CASE DeliverCM
    BY <1>0, <1>2, <2>2, LogSteps DEF DeliverCM, Synced, fresh, locals
  <2>3. CASE GCConfigMap \/ GCRule
    BY <1>2, <2>3 DEF GCConfigMap, GCRule, locals
  <2>4. CASE TimerFires
             \/ \E p \in Deps : DeliverDep(p) \/ DepTouched(p) \/ ProxyMounts(p) \/ PodsStart(p)
    BY <1>2, <2>4 DEF TimerFires, DeliverDep, DepTouched, ProxyMounts, PodsStart,
                      objects, fresh, locals
  <2> QED BY <1>4, <2>1, <2>2, <2>3, <2>4 DEF Environment
<1>5. CASE UNCHANGED vars
  BY <1>2, <1>5 DEF vars, objects, fresh, locals
<1> QED BY <1>1, <1>3, <1>4, <1>5

\* The invariant that the refinement needs.
LEMMA MirrorInvariant == Spec => []MirrorInv
<1>1. Init => MirrorInv
  <2> SUFFICES ASSUME Init PROVE MirrorInv
    OBVIOUS
  <2>1. /\ Len(rule) = 2 /\ rule[1] = NoRule /\ rule[2] = NewRule(NoRule, {})
        /\ \A k \in 1..Len(rule) : k = 1 \/ k = 2
    BY DEF Init
  <2>2. NoRule.spec = 0 /\ NewRule(NoRule, {}).spec = 1
    BY DEF NewRule, NoRule
  <2>3. SpecsGrow(rule)
    BY <2>1, <2>2 DEF SpecsGrow
  <2>4. pc = "idle"
    BY DEF Init
  <2> QED BY <2>3, <2>4 DEF MirrorInv, CopyNotAhead, CopyToStore, CMCalls, Calls
<1>2. TypeOK /\ TypeOK' /\ PinInv /\ MirrorInv /\ [Next]_vars => MirrorInv'
  <2> SUFFICES ASSUME TypeOK, TypeOK', PinInv, MirrorInv, [Next]_vars PROVE MirrorInv'
    OBVIOUS
  <2>1. SpecsGrow(rule')
    BY RuleLogAdvances DEF MirrorInv
  <2>2. CopiesKept
    BY WorkKeepsCopies, OthersKeepCopies DEF Next
  <2> QED BY <2>1, <2>2 DEF MirrorInv, CopiesKept
<1> QED BY <1>1, <1>2, TypeCorrect, PinInvariant, PTL DEF Spec

------------------------------------------------------------------------------
(***************************************************************************)
(* The refinement, step by step.                                           *)
(***************************************************************************)
\* What the reconciler goes by never goes back and is never ahead of the store.
LEMMA ReadAdvances ==
  ASSUME TypeOK, TypeOK', PinInv, MirrorInv, MirrorInv', [Next]_vars
  PROVE  /\ ReadVersion \in Nat /\ ReadVersion' \in Nat
         /\ ReadVersion <= ReadVersion' /\ ReadVersion' <= Live(rule').spec
<1>1. /\ Cached(rule).spec \in Nat /\ Cached(rule').spec \in Nat /\ Live(rule').spec \in Nat
      /\ rcopy.spec \in Nat /\ rcopy'.spec \in Nat
      /\ rule' \in Seq(RuleObj) /\ rule' # <<>>
  <2>1. /\ Cached(rule) \in RuleObj /\ Cached(rule') \in RuleObj /\ Live(rule') \in RuleObj
        /\ rcopy \in RuleObj /\ rcopy' \in RuleObj
        /\ rule' \in Seq(RuleObj) /\ rule' # <<>>
    BY LogEnds DEF TypeOK
  <2> QED BY <2>1 DEF RuleObj
<1>2. /\ Cached(rule).spec <= Cached(rule').spec
      /\ Cached(rule').spec <= Live(rule').spec
  BY <1>1, RuleLogAdvances, SpecsKeepGrowing DEF MirrorInv
<1>3. CopyAdvances
  BY WorkKeepsCopies, OthersKeepCopies DEF Next, CopiesKept
<1>4. /\ pc \in CMCalls => rcopy.spec <= Cached(rule).spec
      /\ pc' \in CMCalls => rcopy'.spec <= Cached(rule').spec
  BY DEF MirrorInv, CopyNotAhead
<1>5. CASE pc' \in CMCalls
  <2>1. ReadVersion' = rcopy'.spec
    BY <1>5 DEF ReadVersion
  <2>2. CASE pc \in CMCalls
    BY <1>1, <1>2, <1>3, <1>4, <1>5, <2>1, <2>2 DEF CopyAdvances, ReadVersion
  <2>3. CASE pc \notin CMCalls
    BY <1>1, <1>2, <1>3, <1>4, <1>5, <2>1, <2>3 DEF CopyAdvances, ReadVersion
  <2> QED BY <2>2, <2>3
<1>6. CASE pc' \notin CMCalls
  <2>1. ReadVersion' = Cached(rule').spec
    BY <1>6 DEF ReadVersion
  <2> QED BY <1>1, <1>2, <1>4, <2>1 DEF ReadVersion
<1> QED BY <1>5, <1>6

\* A step that changes neither source nor mirror reads, or does nothing.
LEMMA ReadMirrors ==
  ASSUME TypeOK, TypeOK', PinInv, MirrorInv, MirrorInv', [Next]_vars,
         SameRule(Live(rule), Live(rule')), Live(cm') = Live(cm), edits' = edits
  PROVE  [M!Next]_(M!vars)
<1>1. /\ ReadVersion \in Nat /\ ReadVersion' \in Nat
      /\ ReadVersion <= ReadVersion' /\ ReadVersion' <= Live(rule').spec
  BY ReadAdvances
<1>2. CASE ReadVersion' = ReadVersion
  BY <1>2 DEF M!vars, SameRule
<1>3. CASE ReadVersion' # ReadVersion
  <2>1. Live(rule).spec \in Nat
    <3>1. Live(rule) \in RuleObj
      BY LogEnds DEF TypeOK
    <3> QED BY <3>1 DEF RuleObj
  <2>2. ReadVersion' \in (ReadVersion + 1)..Live(rule).spec
    BY <1>1, <1>3, <2>1 DEF SameRule
  <2>3. M!Read
    BY <2>2 DEF M!Read, SameRule
  <2> QED BY <2>3 DEF M!Next
<1> QED BY <1>2, <1>3

\* A version that is appended is not read yet.
LEMMA AppendUnread ==
  ASSUME TypeOK, TypeOK', NEW ACTION o, rule' = rule \/ (o \in RuleObj /\ rule' = Append(rule, o)),
         \/ UNCHANGED <<pc, rcopy>>
         \/ pc \notin CMCalls /\ pc' \notin CMCalls
         \/ pc \in CMCalls /\ pc' \in CMCalls /\ rcopy' = rcopy
  PROVE  ReadVersion' = ReadVersion
<1>1. rule \in Seq(RuleObj) /\ rule # <<>>
  BY DEF TypeOK
<1>2. Cached(rule') = Cached(rule)
  <2>1. CASE rule' = rule
    BY <2>1
  <2>2. CASE o \in RuleObj /\ rule' = Append(rule, o)
    BY <1>1, <2>2, LogSteps
  <2> QED BY <2>1, <2>2
<1>3. CASE UNCHANGED <<pc, rcopy>>
  BY <1>2, <1>3 DEF ReadVersion
<1>4. CASE pc \notin CMCalls /\ pc' \notin CMCalls
  BY <1>2, <1>4 DEF ReadVersion
<1>5. CASE pc \in CMCalls /\ pc' \in CMCalls /\ rcopy' = rcopy
  BY <1>5 DEF ReadVersion
<1> QED BY <1>3, <1>4, <1>5

\* A removal of the rule is the release of a source that users have marked.
LEMMA ReleaseMirrors ==
  ASSUME TypeOK, TypeOK', Released(Live(rule), Live(rule')), cm' = cm, edits' = edits,
         ReadVersion' = ReadVersion
  PROVE  [M!Next]_(M!vars)
<1>1. Live(rule') \in RuleObj
  BY LogEnds DEF TypeOK
<1>2. Live(rule').exists = FALSE /\ Live(rule').deleting = FALSE
  BY <1>1 DEF Released, RuleObj
<1> DEFINE source == [exists |-> Live(rule).exists, uid |-> Live(rule).uid,
                      version |-> Live(rule).spec, deleting |-> Live(rule).deleting]
           after  == [exists |-> Live(rule').exists, uid |-> Live(rule').uid,
                      version |-> Live(rule').spec, deleting |-> Live(rule').deleting]
           Only(e, u, v, d) == [exists : {e}, uid : {u}, version : {v}, deleting : {d}]
<1>3. [source EXCEPT !.exists = FALSE, !.deleting = FALSE] = after
  <2>1. \A e, u, v, d : \A r, s \in Only(e, u, v, d) : r = s
    OBVIOUS
  <2>2. \A e, d, f, g, u, v :
          [[exists |-> e, uid |-> u, version |-> v, deleting |-> d]
             EXCEPT !.exists = f, !.deleting = g] \in Only(f, u, v, g)
    OBVIOUS
  <2>3. after \in Only(FALSE, Live(rule).uid, Live(rule).spec, FALSE)
    BY <1>2 DEF Released
  <2> HIDE DEF Only
  <2> QED BY <2>1, <2>2, <2>3, Zenon
<1>4. source.exists /\ source.deleting
  BY DEF Released
<1>5. M!Release
  BY <1>3, <1>4, Zenon DEF M!Release
<1> QED BY <1>5 DEF M!Next

\* The patches of Reconcile, and the garbage collector's.
LEMMA FinalizerStepsMirror ==
  ASSUME TypeOK, TypeOK', PinInv, MirrorInv, MirrorInv', removeFinalizers \/ GCRule
  PROVE  [M!Next]_(M!vars)
<1>1. LeavesRule /\ cm' = cm /\ edits' = edits
  <2>1. CASE removeFinalizers
    BY <2>1, RemoveFinalizersLeaveRule
  <2>2. CASE GCRule
    BY <2>2, EnvironmentLeavesRule DEF Environment, GCRule, bounds
  <2> QED BY <2>1, <2>2
<1>2. ReadVersion' = ReadVersion
  <2>1. Live(rule') \in RuleObj /\ Live(rule) \in RuleObj
    BY LogEnds DEF TypeOK
  <2>2. CASE removeFinalizers
    <3>1. pc = "removeFinalizers" /\ pc' \in {"removeFinalizers", "idle"}
      BY <2>2 DEF removeFinalizers, WriteRule, GoOn, Returns
    <3>2. GrowsLog
      BY <2>2, RemoveFinalizersLeaveRule
    <3> QED BY <2>1, <3>1, <3>2, AppendUnread DEF GrowsLog, CMCalls, Calls
  <2>3. CASE GCRule
    <3>1. PICK i \in 1..Len(Live(rule).fins) :
            rule' = Append(rule, Reap([Live(rule) EXCEPT !.fins = RemoveAt(@, i)]))
      BY <2>3 DEF GCRule
    <3>2. RemoveAt(Live(rule).fins, i) \in Seq(Finalizers)
      BY <2>1, RemoveAtType DEF RuleObj
    <3>3. [Live(rule) EXCEPT !.fins = RemoveAt(@, i)] \in RuleObj
      BY <2>1, <3>2 DEF RuleObj
    <3> DEFINE o == Reap([Live(rule) EXCEPT !.fins = RemoveAt(@, i)])
    <3>4. o \in RuleObj /\ rule' = Append(rule, o)
      BY <3>1, <3>3, ObjectTypes
    <3>5. UNCHANGED <<pc, rcopy>>
      BY <2>3 DEF GCRule, locals
    <3> HIDE DEF o
    <3> QED BY <3>4, <3>5, AppendUnread
  <2> QED BY <2>2, <2>3
<1>3. CASE SameRule(Live(rule), Live(rule'))
  BY <1>1, <1>3, ReadMirrors DEF Next, Work, Environment
<1>4. CASE Released(Live(rule), Live(rule'))
  BY <1>1, <1>2, <1>4, ReleaseMirrors
<1> QED BY <1>1, <1>3, <1>4 DEF LeavesRule

\* A write of the ConfigMap stores what the reconciler goes by: in a new one that
\* the stored rule owns, or in the stored one, whose owner it leaves alone.
LEMMA WriteMirrors ==
  ASSUME TypeOK, TypeOK', PinInv, MirrorInv, MirrorInv', createCM \/ updateCM
  PROVE  [M!Next]_(M!vars)
<1>0. /\ cm \in Seq(CMObj) /\ cm # <<>> /\ Live(cm) \in CMObj
      /\ rcopy \in RuleObj /\ mcopy \in CMObj /\ Live(rule) \in RuleObj
  BY LogEnds DEF TypeOK
<1>1. Live(rule).exists /\ Live(rule).uid = rcopy.uid
  BY DEF createCM, updateCM, PinInv, RulePinned, CMCalls, Calls
<1>2. /\ pc \in CMCalls /\ pc' \in CMCalls /\ rcopy' = rcopy
      /\ rule' = rule /\ edits' = edits
  BY DEF createCM, updateCM, WriteCM, GoOn, Returns, CMCalls, Calls
<1>3. ReadVersion = rcopy.spec /\ ReadVersion' = ReadVersion
  BY <1>2 DEF ReadVersion
<1>4. CASE Live(cm') = Live(cm)
  BY <1>2, <1>4, ReadMirrors DEF Next, Work, SameRule
<1>5. ASSUME NEW o \in CMObj, Live(cm') = o, o.exists, o.data.text = rcopy.spec,
             o.owner = IF Live(cm).exists THEN Live(cm).owner ELSE Live(rule).uid
      PROVE  [M!Next]_(M!vars)
  <2>1. M!Write
    BY <1>1, <1>2, <1>3, <1>5 DEF M!Write
  <2> QED BY <2>1 DEF M!Next
<1>6. CASE createCM
  <2> DEFINE new == configMapForVillipRule(rcopy)
  <2>1. new \in CMObj /\ new.exists /\ new.data.text = rcopy.spec /\ new.owner = rcopy.uid
    BY <1>0, ObjectTypes DEF configMapForVillipRule, Marshal
  <2>2. cm' = cm \/ (~Live(cm).exists /\ cm' = Commit(cm, new))
    BY <1>6 DEF createCM, WriteCM
  <2> HIDE DEF new
  <2>3. cm' = cm \/ (~Live(cm).exists /\ Live(cm') = new)
    BY <1>0, <2>1, <2>2, LogSteps
  <2> QED BY <1>1, <1>4, <1>5, <2>1, <2>3
<1>7. CASE updateCM
  <2>1. pc = "updateCM" /\ (cm' = cm \/ (UpdateCMAccepted /\ cm' = Commit(cm, mcopy)))
    BY <1>7 DEF updateCM, WriteCM
  <2>2. cm' = cm \/ (UpdateCMAccepted /\ Live(cm') = mcopy)
    BY <1>0, <2>1, LogSteps
  <2>3. /\ mcopy.exists /\ mcopy.data.text = rcopy.spec
        /\ UpdateCMAccepted => Live(cm).exists /\ mcopy.owner = Live(cm).owner
    BY <2>1 DEF MirrorInv, CopyToStore, Marshal, UpdateCMAccepted
  <2> QED BY <1>0, <1>4, <1>5, <2>2, <2>3
<1> QED BY <1>6, <1>7

\* Every call of Reconcile is a step of the mirror, or none.
LEMMA WorkMirrors ==
  ASSUME TypeOK, TypeOK', PinInv, MirrorInv, MirrorInv', Work
  PROVE  [M!Next]_(M!vars)
<1>1. CASE rule' = rule /\ cm' = cm /\ edits' = edits
  BY <1>1, ReadMirrors DEF Next, SameRule
<1>2. CASE Reconcile \/ refetchDeleted \/ getCM \/ refetch \/ listDeployments \/ rolloutDone
           \/ \E p \in Deps : rolloutOne(p)
  <2>1. rule' = rule /\ cm' = cm /\ edits' = edits
    BY <1>2 DEF Reconcile, refetchDeleted, getCM, refetch, listDeployments, rolloutDone,
                rolloutOne, objects, bounds
  <2> QED BY <1>1, <2>1
<1>3. CASE addFinalizer
  BY <1>3, AddFinalizerLeavesRule, ReadMirrors DEF Next
<1>4. ASSUME NEW STATE copy, copy \in RuleObj, NEW STATE ok, NEW STATE err,
             WriteStatus(copy, ok, err)
      PROVE  [M!Next]_(M!vars)
  BY <1>4, StatusLeavesRule, ReadMirrors DEF Next
<1>5. rcopy \in RuleObj /\ sumVillipRulesData(mcopy.data) \in [sha : Texts]
  BY ObjectTypes DEF TypeOK, CMObj
<1>6. CASE initStatus \/ createFailed \/ updating \/ updateFailed
  <2>1. \A a \in Available : [rcopy EXCEPT !.available = a] \in RuleObj
    BY <1>5 DEF RuleObj
  <2>2. [rcopy EXCEPT !.degraded = "Updating"] \in RuleObj
    BY <1>5 DEF RuleObj
  <2>3. {"Starting", "CreateFailed", "UpdateFailed"} \subseteq Available
    BY DEF Available
  <2> QED BY <1>4, <1>6, <2>1, <2>2, <2>3 DEF initStatus, createFailed, updating, updateFailed
<1>7. CASE created \/ updated
  <2>1. \A a \in AvailableTrue :
          [rcopy EXCEPT !.available = a,
                        !.lastSum = sumVillipRulesData(mcopy.data)] \in RuleObj
    BY <1>5 DEF RuleObj, Available
  <2> QED BY <1>4, <1>7, <2>1 DEF created, updated, AvailableTrue
<1> QED BY <1>2, <1>3, <1>6, <1>7, FinalizerStepsMirror, WriteMirrors DEF Work

\* Users intervene.
LEMMA UsersMirror ==
  ASSUME TypeOK, TypeOK', PinInv, Users
  PROVE  [M!Next]_(M!vars)
<1>0. /\ Live(rule) \in RuleObj /\ Live(rule).uid \in Nat /\ Live(rule).spec \in Nat
      /\ rule \in Seq(RuleObj) /\ rule # <<>>
  <2>1. Live(rule) \in RuleObj /\ rule \in Seq(RuleObj) /\ rule # <<>>
    BY LogEnds DEF TypeOK
  <2> QED BY <2>1 DEF RuleObj
<1>1. edits' = edits + 1 /\ UNCHANGED <<pc, rcopy>>
  BY DEF Users, EditRule, RelabelRule, DeleteRule, CreateRule, EditCM, DeleteCM,
         CreateCM, UserRule, UserCM, locals
<1>2. CASE rule' = rule
  <2>1. ReadVersion' = ReadVersion
    BY <1>1, <1>2 DEF ReadVersion
  <2>2. M!Intervene
    BY <1>1, <1>2, <2>1 DEF M!Intervene
  <2> QED BY <2>2 DEF M!Next
<1>3. ASSUME NEW ACTION o, o \in RuleObj, rule' = Append(rule, o), cm' = cm,
             Live(rule).uid <= o.uid, Live(rule).spec <= o.spec
      PROVE  [M!Next]_(M!vars)
  <2>1. ReadVersion' = ReadVersion
    BY <1>1, <1>3, AppendUnread
  <2>2. Live(rule') = o
    BY <1>0, <1>3, LogSteps
  <2>3. M!Intervene
    BY <1>1, <1>3, <2>1, <2>2 DEF M!Intervene
  <2> QED BY <2>3 DEF M!Next
<1> DEFINE l == Live(rule)
<1>4. ASSUME NEW r \in RuleObj, NEW n \in Nat, NEW labels \in SUBSET Labels
      PROVE  /\ [r EXCEPT !.spec = n] \in RuleObj
             /\ [r EXCEPT !.spec = n].spec = n /\ [r EXCEPT !.spec = n].uid = r.uid
             /\ [r EXCEPT !.labels = labels] \in RuleObj
             /\ [r EXCEPT !.labels = labels].spec = r.spec
             /\ [r EXCEPT !.labels = labels].uid = r.uid
  BY DEF RuleObj
<1>5. CASE EditRule
  <2> DEFINE e == [l EXCEPT !.spec = @ + 1]
  <2>1. rule' = Append(rule, e) /\ cm' = cm
    BY <1>5 DEF EditRule, UserRule
  <2>2. l.spec + 1 \in Nat
    BY <1>0
  <2>3. e \in RuleObj /\ e.spec = l.spec + 1 /\ e.uid = l.uid
    BY <1>0, <1>4, <2>2
  <2> HIDE DEF e
  <2> QED BY <1>0, <1>3, <2>1, <2>3
<1>6. CASE RelabelRule
  <2>1. PICK labels \in SUBSET Labels :
          rule' = Append(rule, [l EXCEPT !.labels = labels]) /\ cm' = cm
    BY <1>6 DEF RelabelRule, UserRule
  <2> DEFINE e == [l EXCEPT !.labels = labels]
  <2>2. e \in RuleObj /\ e.spec = l.spec /\ e.uid = l.uid
    BY <1>0, <1>4
  <2>3. rule' = Append(rule, e)
    BY <2>1
  <2> HIDE DEF e
  <2> QED BY <1>0, <1>3, <2>1, <2>2, <2>3
<1>7. CASE DeleteRule
  <2>1. PICK b \in BOOLEAN : rule' = Append(rule, Reap(Marked(l, b))) /\ cm' = cm
    BY <1>7 DEF DeleteRule, UserRule
  <2>2. Marked(l, b) \in RuleObj /\ Reap(Marked(l, b)) \in RuleObj
    BY <1>0, ObjectTypes
  <2>3. Marked(l, b).spec = l.spec /\ Marked(l, b).uid = l.uid
    BY <1>0 DEF Marked, RuleObj
  <2>4. Reap(Marked(l, b)).spec = l.spec /\ Reap(Marked(l, b)).uid = l.uid
    BY <2>3 DEF Reap, Gone, NoRule
  <2> QED BY <1>0, <1>3, <2>1, <2>2, <2>4
<1>8. CASE CreateRule
  <2>1. PICK labels \in SUBSET Labels : rule' = Append(rule, NewRule(l, labels)) /\ cm' = cm
    BY <1>8 DEF CreateRule, UserRule
  <2>2. /\ NewRule(l, labels) \in RuleObj
        /\ NewRule(l, labels).spec = l.spec + 1 /\ NewRule(l, labels).uid = l.uid + 1
    BY <1>0, ObjectTypes DEF NewRule, NoRule
  <2> QED BY <1>0, <1>3, <2>1, <2>2
<1>9. CASE EditCM \/ DeleteCM \/ CreateCM
  BY <1>2, <1>9 DEF EditCM, DeleteCM, CreateCM, UserCM
<1> QED BY <1>5, <1>6, <1>7, <1>8, <1>9 DEF Users

\* The watch streams, restarts and other writers change nothing that is mirrored;
\* the garbage collector collects.
LEMMA EnvironmentMirrors ==
  ASSUME TypeOK, TypeOK', PinInv, MirrorInv, MirrorInv', Environment \/ Restart
  PROVE  [M!Next]_(M!vars)
<1>0. /\ rule \in Seq(RuleObj) /\ rule # <<>> /\ cm \in Seq(CMObj) /\ cm # <<>>
  BY DEF TypeOK
<1>1. CASE Live(rule') = Live(rule) /\ Live(cm') = Live(cm) /\ edits' = edits
  BY <1>1, ReadMirrors DEF Next, SameRule
<1>2. CASE Restart \/ DeliverRule \/ DeliverCM
  <2>1. Live(rule') = Live(rule) /\ Live(cm') = Live(cm) /\ edits' = edits
    BY <1>0, <1>2, LogSteps DEF Restart, DeliverRule, DeliverCM, Synced, bounds
  <2> QED BY <1>1, <2>1
<1>3. CASE TimerFires
           \/ \E p \in Deps : DeliverDep(p) \/ DepTouched(p) \/ ProxyMounts(p) \/ PodsStart(p)
  <2>1. rule' = rule /\ cm' = cm /\ edits' = edits
    BY <1>3 DEF TimerFires, DeliverDep, DepTouched, ProxyMounts, PodsStart, objects, bounds
  <2> QED BY <1>1, <2>1
<1>4. CASE GCConfigMap
  <2>1. /\ Live(cm).exists /\ Live(cm).owner # 0
        /\ Live(rule).exists /\ Live(cm).owner = Live(rule).uid => Live(rule).deleting
        /\ cm' = Append(cm, NoCM) /\ UNCHANGED <<rule, pc, rcopy, edits>>
    BY <1>4 DEF GCConfigMap, Owned, OwnedBy, locals, bounds
  <2>2. Live(cm') = NoCM
    BY <1>0, <2>1, ObjectTypes, LogSteps
  <2>3. Live(cm').exists = FALSE /\ Live(cm').owner = 0 /\ Live(cm').data.text = 0
    BY <2>2 DEF NoCM, NoText
  <2>4. ReadVersion' = ReadVersion
    BY <2>1 DEF ReadVersion
  <2>5. M!Collect
    BY <2>1, <2>3, <2>4 DEF M!Collect, M!NoMirror
  <2> QED BY <2>5 DEF M!Next
<1> QED BY <1>2, <1>3, <1>4, FinalizerStepsMirror DEF Environment

\* The reconciler, with its cache, failed calls and restarts, implements the
\* mirror: the ConfigMap is written only while its rule is stored, with a version
\* of the spec that is never older than one written before, a new one belongs to
\* that rule, and nothing but users and due removals changes rule or ConfigMap.
THEOREM RulesImplementMirror == Spec => ImplementsMirror
<1>1. Init => M!Init
  <2> SUFFICES ASSUME Init PROVE M!Init
    OBVIOUS
  <2>1. rule = <<NoRule, NewRule(NoRule, {})>> /\ cm = <<NoCM>> /\ pc = "idle" /\ edits = 0
    BY DEF Init
  <2>2. Live(rule) = NewRule(NoRule, {}) /\ Cached(rule) = NoRule /\ Live(cm) = NoCM
    BY <2>1 DEF Live, Cached
  <2>3. ReadVersion = 0
    BY <2>1, <2>2 DEF ReadVersion, CMCalls, Calls, NoRule
  <2>4. /\ Live(rule).exists = TRUE /\ Live(rule).uid = 1 /\ Live(rule).spec = 1
        /\ Live(rule).deleting = FALSE
    BY <2>2 DEF NewRule, NoRule
  <2>5. Live(cm).exists = FALSE /\ Live(cm).owner = 0 /\ Live(cm).data.text = 0
    BY <2>2 DEF NoCM, NoText
  <2> QED BY <2>1, <2>3, <2>4, <2>5 DEF M!Init, M!NoMirror
<1>2. TypeOK /\ TypeOK' /\ PinInv /\ MirrorInv /\ MirrorInv' /\ [Next]_vars
        => [M!Next]_(M!vars)
  <2> SUFFICES ASSUME TypeOK, TypeOK', PinInv, MirrorInv, MirrorInv', [Next]_vars
               PROVE  [M!Next]_(M!vars)
    OBVIOUS
  <2>1. CASE UNCHANGED vars
    BY <2>1, ReadMirrors DEF vars, objects, bounds, SameRule
  <2> QED BY <2>1, WorkMirrors, UsersMirror, EnvironmentMirrors DEF Next
<1> QED BY <1>1, <1>2, TypeCorrect, PinInvariant, MirrorInvariant, PTL
        DEF Spec, ImplementsMirror, M!Spec
==============================================================================
