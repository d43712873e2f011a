------------------------ MODULE VillipRulesStepProofs ------------------------
(***************************************************************************)
(* Proofs of what a step of VillipRules may do to what the API server      *)
(* stores: to the rule, and to the Deployments that a rollout touches.     *)
(***************************************************************************)
EXTENDS VillipRulesProofs

------------------------------------------------------------------------------
(***************************************************************************)
(* The stored rule.  Whatever is not done by a user leaves all of it alone *)
(* that a user has given, or removes a rule that a user has marked.        *)
(***************************************************************************)
SameRule(l, o) ==
  /\ o.exists = l.exists /\ o.uid = l.uid
  /\ o.spec = l.spec /\ o.labels = l.labels /\ o.deleting = l.deleting

Released(l, o) ==
  /\ l.exists /\ l.deleting
  /\ ~o.exists /\ ~o.deleting /\ o.uid = l.uid /\ o.spec = l.spec

LeavesRule == SameRule(Live(rule), Live(rule')) \/ Released(Live(rule), Live(rule'))

GrowsLog == rule' = rule \/ rule' = Append(rule, Live(rule'))

\* A write of Reconcile stores its version or nothing.
LEMMA WriteStores ==
  ASSUME TypeOK, NEW ACTION accepts, NEW ACTION new, NEW ACTION ok, NEW ACTION err,
         accepts => new \in RuleObj,
         WriteRule(accepts, new, ok, err)
  PROVE  /\ rule' = rule \/ (accepts /\ Live(rule') = new)
         /\ GrowsLog
<1>1. rule' = rule \/ (accepts /\ rule' = Commit(rule, new))
  BY DEF WriteRule
<1>2. rule \in Seq(RuleObj) /\ rule # <<>>
  BY DEF TypeOK
<1>3. accepts => Live(Commit(rule, new)) = new
  BY <1>2, LogSteps
<1> QED BY <1>1, <1>3 DEF GrowsLog, Commit

\* Removing a finalizer leaves the rest of the rule alone, or is its end.
LEMMA ReapLeavesRule ==
  ASSUME NEW l \in RuleObj, NEW o \in RuleObj, l.exists, SameRule(l, o)
  PROVE  SameRule(l, Reap(o)) \/ Released(l, Reap(o))
<1>1. CASE Removable(o)
  BY <1>1 DEF Reap, Gone, NoRule, Removable, SameRule, Released, RuleObj
<1>2. CASE ~Removable(o)
  BY <1>2 DEF Reap
<1> QED BY <1>1, <1>2

\* A status update changes nothing but the status.
LEMMA StatusLeavesRule ==
  ASSUME TypeOK, NEW STATE copy, NEW STATE ok, NEW STATE err, copy \in RuleObj,
         WriteStatus(copy, ok, err)
  PROVE  /\ SameRule(Live(rule), Live(rule'))
         /\ GrowsLog
         /\ cm' = cm /\ edits' = edits
<1> DEFINE new == [Live(rule) EXCEPT !.available = copy.available,
                                     !.degraded = copy.degraded,
                                     !.lastSum = copy.lastSum]
<1>1. Live(rule) \in RuleObj
  BY LogEnds DEF TypeOK
<1>2. new \in RuleObj /\ SameRule(Live(rule), new)
  BY <1>1 DEF RuleObj, SameRule
<1>3. WriteRule(Current, new, ok, err)
  BY DEF WriteStatus
<1> HIDE DEF new
<1>4. (rule' = rule \/ Live(rule') = new) /\ GrowsLog
  BY <1>2, <1>3, WriteStores
<1>5. cm' = cm /\ edits' = edits
  BY <1>3 DEF WriteRule
<1> QED BY <1>2, <1>4, <1>5 DEF SameRule

\* The Update of addFinalizer stores a copy; it is accepted only when the copy's
\* spec and labels are the stored ones.
LEMMA AddFinalizerLeavesRule ==
  ASSUME TypeOK, PinInv, addFinalizer
  PROVE  /\ SameRule(Live(rule), Live(rule'))
         /\ GrowsLog
         /\ cm' = cm /\ edits' = edits
<1> DEFINE new == [Live(rule) EXCEPT !.spec = rcopy.spec, !.labels = rcopy.labels,
                                     !.fins = Append(rcopy.fins, Finalizer)]
<1>1. Live(rule) \in RuleObj /\ rcopy \in RuleObj
  BY LogEnds DEF TypeOK
<1>2. new \in RuleObj
  <2>1. Append(rcopy.fins, Finalizer) \in Seq(Finalizers)
    BY <1>1 DEF RuleObj, Finalizers
  <2> QED BY <1>1, <2>1 DEF RuleObj
<1>3. AddFinalizerAccepted => SameRule(Live(rule), new)
  <2> SUFFICES ASSUME AddFinalizerAccepted PROVE SameRule(Live(rule), new)
    OBVIOUS
  <2>1. rcopy = Live(rule)
    BY DEF PinInv, AddsToCached, addFinalizer, AddFinalizerAccepted, Current, Live
  <2> QED BY <1>1, <2>1 DEF SameRule, RuleObj
<1>4. WriteRule(AddFinalizerAccepted, new, "requeue", "requeue")
  BY DEF addFinalizer
<1> HIDE DEF new
<1>5. /\ rule' = rule \/ (AddFinalizerAccepted /\ Live(rule') = new)
      /\ GrowsLog
  BY <1>2, <1>4, WriteStores
<1>6. cm' = cm /\ edits' = edits
  BY <1>4 DEF WriteRule
<1> QED BY <1>3, <1>5, <1>6 DEF SameRule

\* A patch of villipRulesMarkedToBeDeleted removes one finalizer, and the rule
\* with its last one.
LEMMA RemoveFinalizersLeaveRule ==
  ASSUME TypeOK, removeFinalizers
  PROVE  /\ LeavesRule
         /\ GrowsLog
         /\ cm' = cm /\ edits' = edits
<1> DEFINE m == [Live(rule) EXCEPT !.fins = RemoveAt(@, PatchPosition)]
           ok == IF idx + 1 < nfin THEN "removeFinalizers" ELSE "done"
<1>1. Live(rule) \in RuleObj /\ idx \in Nat
  BY LogEnds DEF TypeOK
<1>2. ASSUME PatchAccepted
      PROVE  /\ Reap(m) \in RuleObj
             /\ SameRule(Live(rule), Reap(m)) \/ Released(Live(rule), Reap(m))
  <2>1. /\ Live(rule).exists /\ Live(rule).fins \in Seq(Finalizers)
        /\ PatchPosition \in 1..Len(Live(rule).fins)
    BY <1>1, <1>2 DEF PatchAccepted, PatchPosition, RuleObj
  <2>2. RemoveAt(Live(rule).fins, PatchPosition) \in Seq(Finalizers)
    BY <2>1, RemoveAtType
  <2>3. m \in RuleObj /\ SameRule(Live(rule), m)
    BY <1>1, <2>2 DEF RuleObj, SameRule
  <2> QED BY <1>1, <2>1, <2>3, ReapLeavesRule, ObjectTypes
<1>3. WriteRule(PatchAccepted, Reap(m), ok, "requeue")
  BY DEF removeFinalizers
<1> HIDE DEF m, ok
<1>4. /\ rule' = rule \/ (PatchAccepted /\ Live(rule') = Reap(m))
      /\ GrowsLog
  BY <1>2, <1>3, WriteStores
<1>5. cm' = cm /\ edits' = edits
  BY <1>3 DEF WriteRule
<1> QED BY <1>2, <1>4, <1>5 DEF LeavesRule, SameRule

\* No call of Reconcile changes what users have given to the rule.
LEMMA WorkLeavesRule ==
  ASSUME TypeOK, PinInv, Work
  PROVE  LeavesRule /\ GrowsLog
<1>0. rcopy \in RuleObj /\ sumVillipRulesData(mcopy.data) \in [sha : Texts]
  BY ObjectTypes DEF TypeOK, CMObj
<1>1. CASE rule' = rule
  BY <1>1 DEF LeavesRule, SameRule, GrowsLog
<1>2. CASE initStatus \/ createFailed \/ updating \/ updateFailed
  <2>1. \A a \in Available : [rcopy EXCEPT !.available = a] \in RuleObj
    BY <1>0 DEF RuleObj
  <2>2. [rcopy EXCEPT !.degraded = "Updating"] \in RuleObj
    BY <1>0 DEF RuleObj
  <2>3. {"Starting", "CreateFailed", "UpdateFailed"} \subseteq Available
    BY DEF Available
  <2> QED BY <1>2, <2>1, <2>2, <2>3, StatusLeavesRule
          DEF initStatus, createFailed, updating, updateFailed, LeavesRule
<1>3. CASE created \/ updated
  <2>1. \A a \in AvailableTrue :
          [rcopy EXCEPT !.available = a,
                        !.lastSum = sumVillipRulesData(mcopy.data)] \in RuleObj
    BY <1>0 DEF RuleObj, Available
  <2> QED BY <1>3, <2>1, StatusLeavesRule DEF created, updated, AvailableTrue, LeavesRule
<1>4. CASE addFinalizer \/ removeFinalizers
  BY <1>4, AddFinalizerLeavesRule, RemoveFinalizersLeaveRule DEF LeavesRule
<1>5. CASE Reconcile \/ refetchDeleted \/ getCM \/ refetch \/ listDeployments \/ rolloutDone
  BY <1>1, <1>5 DEF Reconcile, refetchDeleted, getCM, refetch, listDeployments, rolloutDone, objects
<1>6. CASE createCM \/ updateCM \/ (\E p \in Deps : rolloutOne(p))
  BY <1>1, <1>6 DEF createCM, updateCM, WriteCM, rolloutOne
<1> QED BY <1>2, <1>3, <1>4, <1>5, <1>6 DEF Work

\* Nor do the watch streams, restarts, other writers and the garbage collector,
\* which releases a rule deleted in the foreground.
LEMMA EnvironmentLeavesRule ==
  ASSUME TypeOK, Environment \/ Restart
  PROVE  LeavesRule
<1>0. rule \in Seq(RuleObj) /\ rule # <<>> /\ Live(rule) \in RuleObj
  BY LogEnds DEF TypeOK
<1>1. CASE Live(rule') = Live(rule)
  BY <1>1 DEF LeavesRule, SameRule
<1>2. CASE Restart
  BY <1>0, <1>1, <1>2, LogSteps DEF Restart
<1>3. CASE DeliverRule
  BY <1>0, <1>1, <1>3, LogSteps DEF DeliverRule, Synced
<1>4. CASE GCRule
  <2> DEFINE l == Live(rule)
             m(i) == [l EXCEPT !.fins = RemoveAt(@, i)]
  <2>1. PICK i \in 1..Len(l.fins) : rule' = Append(rule, Reap(m(i)))
    BY <1>4 DEF GCRule
  <2>2. l.exists
    BY <1>4 DEF GCRule
  <2>3. RemoveAt(l.fins, i) \in Seq(Finalizers)
    BY <1>0, RemoveAtType DEF RuleObj
  <2>4. m(i) \in RuleObj /\ SameRule(l, m(i))
    BY <1>0, <2>3 DEF RuleObj, SameRule
  <2> HIDE DEF m, l
  <2>5. Reap(m(i)) \in RuleObj
    BY <2>4, ObjectTypes
  <2>6. Live(rule') = Reap(m(i))
    BY <1>0, <2>1, <2>5, LogSteps
  <2> QED BY <1>0, <2>2, <2>4, <2>6, ReapLeavesRule DEF LeavesRule, l
<1>5. CASE DeliverCM \/ TimerFires \/ GCConfigMap
           \/ \E p \in Deps : DeliverDep(p) \/ DepTouched(p) \/ ProxyMounts(p) \/ PodsStart(p)
  BY <1>1, <1>5 DEF DeliverCM, TimerFires, GCConfigMap, DeliverDep, DepTouched, ProxyMounts,
                    PodsStart, objects
<1> QED BY <1>2, <1>3, <1>4, <1>5 DEF Environment

\* Users' operations are counted.
LEMMA UsersCounted ==
  ASSUME TypeOK, Users
  PROVE  edits' # edits
<1>1. edits \in Nat
  BY BoundsAssumption DEF TypeOK
<1>2. edits' = edits + 1
  BY DEF Users, EditRule, RelabelRule, DeleteRule, CreateRule, EditCM, DeleteCM,
         CreateCM, UserRule, UserCM
<1> QED BY <1>1, <1>2

\* No step but a user's changes the spec or the labels of a stored rule: neither
\* the Update of addFinalizer, which stores a copy read earlier, nor a status
\* update, nor a patch reverts an edit, however the calls interleave.
THEOREM EditsKept == Spec => NoLostEdit
<1>1. TypeOK /\ PinInv /\ [Next]_vars =>
        (edits' = edits =>
           /\ Live(rule').spec = Live(rule).spec
           /\ Live(rule').exists => Live(rule').labels = Live(rule).labels)
  <2> SUFFICES ASSUME TypeOK, PinInv, [Next]_vars, edits' = edits
               PROVE  /\ Live(rule').spec = Live(rule).spec
                      /\ Live(rule').exists => Live(rule').labels = Live(rule).labels
    OBVIOUS
  <2>1. LeavesRule
    <3>1. CASE Work
      BY <3>1, WorkLeavesRule
    <3>2. CASE Environment \/ Restart
      BY <3>2, EnvironmentLeavesRule
    <3>3. CASE UNCHANGED vars
      BY <3>3 DEF vars, objects, LeavesRule, SameRule
    <3> QED BY <3>1, <3>2, <3>3, UsersCounted DEF Next
  <2> QED BY <2>1 DEF LeavesRule, SameRule, Released
<1> QED BY <1>1, TypeCorrect, PinInvariant, PTL DEF Spec, NoLostEdit

------------------------------------------------------------------------------
(***************************************************************************)
(* The Deployments.  A copy that a rollout holds and that is still current *)
(* is what is stored.                                                      *)
(***************************************************************************)
ListedCurrent == \A p \in depFresh : listed[p] = Live(dep[p])

KeepsMounts == \A p \in Deps : Live(dep'[p]).conf = Live(dep[p]).conf

\* Steps that leave the Deployments and the listed copies alone.
LEMMA UntouchedKeepsListed ==
  ASSUME ListedCurrent, UNCHANGED dep, depFresh' = {} \/ UNCHANGED <<depFresh, listed>>
  PROVE  ListedCurrent' /\ KeepsMounts
  BY DEF ListedCurrent, KeepsMounts

\* Steps that give one Deployment a new log.
LEMMA OneDepKeepsListed ==
  ASSUME TypeOK, ListedCurrent, NEW p \in Deps, NEW ACTION log,
         dep' = [dep EXCEPT ![p] = log], listed' = listed, depFresh' \subseteq depFresh,
         p \notin depFresh' \/ Live(log) = Live(dep[p])
  PROVE  /\ ListedCurrent'
         /\ Live(log).conf = Live(dep[p]).conf => KeepsMounts
<1>1. dep'[p] = log /\ \A q \in Deps : q # p => dep'[q] = dep[q]
  BY DEF TypeOK
<1>2. depFresh \subseteq Deps
  BY DEF TypeOK
<1> QED BY <1>1, <1>2 DEF ListedCurrent, KeepsMounts

\* The Update of a rollout is accepted only for a copy that is still current.
LEMMA RolloutKeepsListed ==
  ASSUME TypeOK, ListedCurrent, NEW p \in Deps, rolloutOne(p)
  PROVE  ListedCurrent' /\ KeepsMounts
<1>0. dep[p] \in Seq(DepObj) /\ dep[p] # <<>> /\ listed[p] \in DepObj
  BY DEF TypeOK
<1>1. listed' = listed /\ depFresh' = depFresh \ {p}
  BY DEF rolloutOne
<1>2. CASE RolloutAccepted(p) /\ dep' = [dep EXCEPT ![p] = Append(@, listed[p])]
  <2>1. Live(Append(dep[p], listed[p])) = listed[p]
    BY <1>0, LogSteps
  <2>2. listed[p] = Live(dep[p])
    BY <1>2 DEF RolloutAccepted, ListedCurrent
  <2> DEFINE log == Append(dep[p], listed[p])
  <2>3. Live(log) = Live(dep[p]) /\ dep' = [dep EXCEPT ![p] = log]
    BY <1>2, <2>1, <2>2
  <2> HIDE DEF log
  <2> QED BY <1>1, <2>3, OneDepKeepsListed
<1>3. CASE dep' = dep
  BY <1>1, <1>3 DEF ListedCurrent, KeepsMounts
<1> QED BY <1>2, <1>3 DEF rolloutOne

\* Other writers of a Deployment make the listed copy out of date; delivery
\* changes nothing that is stored.
LEMMA DepStepsKeepListed ==
  ASSUME TypeOK, ListedCurrent, NEW p \in Deps,
         DeliverDep(p) \/ DepTouched(p) \/ ProxyMounts(p) \/ PodsStart(p)
  PROVE  ListedCurrent' /\ (touches' = touches => KeepsMounts)
<1>0. dep[p] \in Seq(DepObj) /\ dep[p] # <<>> /\ Live(dep[p]) \in DepObj
  <2>1. dep[p] \in Seq(DepObj) /\ dep[p] # <<>>
    BY DEF TypeOK
  <2> QED BY <2>1, LogEnds
<1>1. CASE DeliverDep(p)
  <2> DEFINE log == Catchup(dep[p])
  <2>1. Live(log) = Live(dep[p])
    BY <1>0, <1>1, LogSteps DEF DeliverDep, Synced
  <2>2. dep' = [dep EXCEPT ![p] = log] /\ listed' = listed /\ depFresh' = depFresh
    BY <1>1 DEF DeliverDep, fresh, locals
  <2> HIDE DEF log
  <2> QED BY <2>1, <2>2, OneDepKeepsListed
<1>2. CASE DepTouched(p)
  <2> DEFINE log == Append(dep[p], Live(dep[p]))
  <2>1. Live(log) = Live(dep[p])
    BY <1>0, LogSteps
  <2>2. dep' = [dep EXCEPT ![p] = log] /\ listed' = listed /\ depFresh' = depFresh \ {p}
    BY <1>2 DEF DepTouched, locals
  <2> HIDE DEF log
  <2> QED BY <2>1, <2>2, OneDepKeepsListed
<1>3. CASE ProxyMounts(p)
  <2> DEFINE log == Append(dep[p], [conf |-> ~Live(dep[p]).conf])
  <2>1. touches' # touches
    <3>1. touches \in Nat
      BY BoundsAssumption DEF TypeOK
    <3>2. touches' = touches + 1
      BY <1>3 DEF ProxyMounts
    <3> QED BY <3>1, <3>2
  <2>2. dep' = [dep EXCEPT ![p] = log] /\ listed' = listed /\ depFresh' = depFresh \ {p}
    BY <1>3 DEF ProxyMounts, locals
  <2> HIDE DEF log
  <2> QED BY <2>1, <2>2, OneDepKeepsListed
<1>4. CASE PodsStart(p)
  BY <1>4, UntouchedKeepsListed DEF PodsStart, objects, fresh, locals
<1> QED BY <1>1, <1>2, <1>3, <1>4

\* The list comes from the cache; only a copy in sync with the store is current.
LEMMA ListKeepsListed ==
  ASSUME TypeOK, ListedCurrent, listDeployments
  PROVE  ListedCurrent' /\ KeepsMounts
<1>1. dep' = dep /\ depFresh' = {p \in Deps : Synced(dep[p])}
      /\ listed' = [p \in Deps |-> Cached(dep[p])]
  BY DEF listDeployments, objects
<1>2. \A p \in Deps : Synced(dep[p]) => Cached(dep[p]) = Live(dep[p])
  BY LogSteps DEF TypeOK
<1> QED BY <1>1, <1>2 DEF ListedCurrent, KeepsMounts

\* A restart lists anew and keeps what is stored.
LEMMA RestartKeepsListed ==
  ASSUME TypeOK, Restart
  PROVE  ListedCurrent' /\ KeepsMounts
<1>1. dep' = [p \in Deps |-> Relist(dep[p])] /\ depFresh' = {}
  BY DEF Restart
<1>2. \A p \in Deps : Live(Relist(dep[p])) = Live(dep[p])
  BY LogSteps DEF TypeOK
<1> QED BY <1>1, <1>2 DEF ListedCurrent, KeepsMounts

\* Every step keeps current copies equal to what is stored.
LEMMA NextKeepsListed ==
  ASSUME TypeOK, ListedCurrent, [Next]_vars
  PROVE  ListedCurrent' /\ (touches' = touches => KeepsMounts)
<1>1. CASE Work
  <2>1. CASE \E p \in Deps : rolloutOne(p)
    BY <2>1, RolloutKeepsListed
  <2>2. CASE listDeployments
    BY <2>2, ListKeepsListed
  <2>3. CASE rolloutDone
    BY <2>3, UntouchedKeepsListed DEF rolloutDone, objects
  <2>4. CASE Reconcile \/ refetchDeleted \/ getCM \/ refetch
    BY <2>4, UntouchedKeepsListed DEF Reconcile, refetchDeleted, getCM, refetch, objects
  <2>5. CASE createCM \/ updateCM
    BY <2>5, UntouchedKeepsListed DEF createCM, updateCM, WriteCM
  <2>6. CASE initStatus \/ addFinalizer \/ removeFinalizers \/ createFailed \/ created
             \/ updating \/ updateFailed \/ updated
    <3>1. UNCHANGED <<dep, depFresh, listed>>
      BY <2>6 DEF initStatus, addFinalizer, removeFinalizers, createFailed, created, updating,
                  updateFailed, updated, WriteStatus, WriteRule
    <3> QED BY <3>1, UntouchedKeepsListed
  <2> QED BY <1>1, <2>1, <2>2, <2>3, <2>4, <2>5, <2>6 DEF Work
<1>2. CASE Users
  <2>1. UNCHANGED <<dep, depFresh, listed>>
    BY <1>2 DEF Users, EditRule, RelabelRule, DeleteRule, CreateRule, EditCM, DeleteCM,
                CreateCM, UserRule, UserCM, locals
  <2> QED BY <2>1, UntouchedKeepsListed
<1>3. CASE Environment
  <2>1. CASE DeliverRule \/ DeliverCM \/ TimerFires \/ GCConfigMap \/ GCRule
    BY <2>1, UntouchedKeepsListed
       DEF DeliverRule, DeliverCM, TimerFires, GCConfigMap, GCRule, fresh, locals, objects
  <2> QED BY <1>3, <2>1, DepStepsKeepListed DEF Environment
<1>4. CASE UNCHANGED vars
  BY <1>4, UntouchedKeepsListed DEF vars, objects, fresh, locals
<1> QED BY <1>1, <1>2, <1>3, <1>4, RestartKeepsListed DEF Next

\* rolloutDependentProxies never takes back volumes and conf annotation that the
\* VillipProxy reconciler has set since the Deployments were listed.
THEOREM MountsKept == Spec => RolloutKeepsMounts
<1>1. Init => ListedCurrent
  BY DEF Init, ListedCurrent
<1>2. TypeOK /\ ListedCurrent /\ [Next]_vars => ListedCurrent'
  BY NextKeepsListed
<1>3. TypeOK /\ ListedCurrent /\ [Next]_vars =>
        (touches' = touches => \A p \in Deps : Live(dep'[p]).conf = Live(dep[p]).conf)
  BY NextKeepsListed DEF KeepsMounts
<1> QED BY <1>1, <1>2, <1>3, TypeCorrect, PTL DEF Spec, RolloutKeepsMounts
==============================================================================
