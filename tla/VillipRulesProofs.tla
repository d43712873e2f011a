-------------------------- MODULE VillipRulesProofs --------------------------
(***************************************************************************)
(* Proofs about VillipRules, for every set of Deployments and labels and   *)
(* every value of the bounds.                                              *)
(***************************************************************************)
EXTENDS VillipRules, KubeApiProofs

------------------------------------------------------------------------------
(***************************************************************************)
(* Type correctness.                                                       *)
(***************************************************************************)
\* The objects that Reconcile, users and the API server build are well typed.
LEMMA ObjectTypes ==
  /\ NoRule \in RuleObj /\ NoCM \in CMObj
  /\ \A r \in RuleObj, labels \in SUBSET Labels : NewRule(r, labels) \in RuleObj
  /\ \A r \in RuleObj : Gone(r) \in RuleObj /\ Reap(r) \in RuleObj
  /\ \A r \in RuleObj : configMapForVillipRule(r) \in CMObj
  /\ \A r \in RuleObj, b \in BOOLEAN : Marked(r, b) \in RuleObj
  /\ \A n \in Nat : Marshal(n) \in Texts
  /\ \A t \in Texts : sumVillipRulesData(t) \in [sha : Texts]
<1>1. \A n \in Nat : Marshal(n) \in Texts
  BY DEF Marshal, Texts
<1>2. \A t \in Texts : sumVillipRulesData(t) \in [sha : Texts]
  BY DEF sumVillipRulesData
<1>3. NoText \in Texts
  BY DEF NoText, Texts
<1>4. NoRule \in RuleObj
  BY <1>2, <1>3 DEF NoRule, RuleObj, NoSum, Available, AvailableTrue
<1>5. NoCM \in CMObj
  BY <1>3 DEF NoCM, CMObj
<1>6. ASSUME NEW r \in RuleObj, NEW labels \in SUBSET Labels
      PROVE  NewRule(r, labels) \in RuleObj
  <2>1. r.uid + 1 \in Nat /\ r.spec + 1 \in Nat
    BY DEF RuleObj
  <2> QED BY <1>4, <2>1 DEF NewRule, RuleObj
<1>7. \A r \in RuleObj : Gone(r) \in RuleObj
  BY <1>4 DEF Gone, RuleObj
<1>8. \A r \in RuleObj : configMapForVillipRule(r) \in CMObj
  BY <1>1 DEF configMapForVillipRule, RuleObj, CMObj
<1>9. ASSUME NEW r \in RuleObj, NEW b \in BOOLEAN
      PROVE  Marked(r, b) \in RuleObj
  <2>1. r.fins \in Seq(Finalizers) /\ Append(r.fins, Foreground) \in Seq(Finalizers)
    BY DEF RuleObj, Finalizers
  <2>2. (IF b THEN Append(r.fins, Foreground) ELSE r.fins) \in Seq(Finalizers)
    BY <2>1
  <2> QED BY <2>2 DEF Marked, RuleObj
<1> QED BY <1>1, <1>2, <1>4, <1>5, <1>6, <1>7, <1>8, <1>9 DEF Reap

\* The initial state, a rule just applied, is well typed.
LEMMA InitTypeOK == Init => TypeOK
<1> SUFFICES ASSUME Init PROVE TypeOK
  OBVIOUS
<1> USE BoundsAssumption
<1>1. rule \in Seq(RuleObj) /\ rule # <<>>
  BY ObjectTypes DEF Init
<1>2. cm \in Seq(CMObj) /\ cm # <<>>
  BY ObjectTypes DEF Init
<1>3. dep \in [Deps -> Seq(DepObj)] /\ \A p \in Deps : dep[p] # <<>>
  BY DEF Init, DepObj
<1>4. pods \in [Deps -> [rolling : BOOLEAN, loaded : Texts]]
  BY DEF Init, NoText, Texts
<1>5. listed \in [Deps -> DepObj]
  BY DEF Init, NotListed, DepObj
<1>6. /\ ruleFresh \in BOOLEAN /\ cmFresh \in BOOLEAN
      /\ queued \in BOOLEAN /\ timer \in BOOLEAN
  BY DEF Init
<1>7. /\ pc \in Calls \cup {"idle"} /\ rcopy \in RuleObj /\ mcopy \in CMObj
      /\ nfin \in Nat /\ idx \in Nat
  BY ObjectTypes DEF Init
<1>8. edits \in 0..MaxEdits /\ touches \in 0..MaxTouches /\ faults \in 0..MaxFaults
  BY DEF Init
<1>9. depFresh \in SUBSET Deps /\ todo \in SUBSET Deps
  BY DEF Init
<1> QED BY <1>1, <1>2, <1>3, <1>4, <1>5, <1>6, <1>7, <1>8, <1>9 DEF TypeOK

\* What a call leaves in Reconcile's hands is well typed.
LEMMA GoOnType ==
  ASSUME TypeOK, NEW ACTION to, NEW ACTION rc, NEW ACTION rfresh, NEW ACTION mc,
         NEW ACTION mfresh, to \in Calls \cup Returns, rc \in RuleObj, mc \in CMObj,
         GoOn(to, rc, rfresh, mc, mfresh)
  PROVE  /\ pc' \in Calls \cup {"idle"} /\ timer' \in BOOLEAN
         /\ rcopy' \in RuleObj /\ ruleFresh' \in BOOLEAN
         /\ mcopy' \in CMObj /\ cmFresh' \in BOOLEAN
<1>1. pc' \in Calls \cup {"idle"}
  BY DEF GoOn, Returns
<1>2. timer' \in BOOLEAN /\ ruleFresh' \in BOOLEAN /\ cmFresh' \in BOOLEAN
  BY DEF GoOn
<1>3. rcopy' \in RuleObj /\ mcopy' \in CMObj
  BY ObjectTypes DEF GoOn
<1> QED BY <1>1, <1>2, <1>3

\* A write of the rule, whatever becomes of it, is well typed.
LEMMA WriteRuleType ==
  ASSUME TypeOK, NEW ACTION accepts, NEW ACTION new, NEW ACTION ok, NEW ACTION err,
         accepts => new \in RuleObj, ok \in Calls \cup Returns, err \in Calls \cup Returns,
         WriteRule(accepts, new, ok, err), nfin' \in Nat, idx' \in Nat
  PROVE  TypeOK'
<1>1. /\ rule' \in Seq(RuleObj) /\ rule' # <<>>
      /\ faults' \in 0..MaxFaults
      /\ pc' \in Calls \cup {"idle"} /\ timer' \in BOOLEAN
      /\ rcopy' \in RuleObj /\ ruleFresh' \in BOOLEAN
      /\ mcopy' \in CMObj /\ cmFresh' \in BOOLEAN
  <2> USE DEF TypeOK
  <2>1. CASE /\ accepts /\ rule' = Commit(rule, new) /\ UNCHANGED faults
             /\ GoOn(ok, new, TRUE, mcopy, cmFresh)
    BY <2>1, GoOnType, LogWrites
  <2>2. CASE /\ UNCHANGED <<rule, faults>>
             /\ GoOn(err, rcopy, ruleFresh, mcopy, cmFresh)
    BY <2>2, GoOnType
  <2>3. CASE /\ faults < MaxFaults /\ faults' = faults + 1
             /\ rule' \in IF accepts THEN {rule, Commit(rule, new)} ELSE {rule}
             /\ GoOn(err, rcopy, ruleFresh /\ rule' = rule, mcopy, cmFresh)
    <3>1. rule' \in Seq(RuleObj) /\ rule' # <<>>
      <4>1. rule' = rule \/ (accepts /\ rule' = Commit(rule, new))
        BY <2>3
      <4>2. CASE rule' = rule
        BY <4>2
      <4>3. CASE accepts /\ rule' = Commit(rule, new)
        BY <4>3, LogWrites
      <4> QED BY <4>1, <4>2, <4>3
    <3>2. faults' \in 0..MaxFaults
      BY <2>3, BoundsAssumption
    <3> QED BY <2>3, <3>1, <3>2, GoOnType
  <2> QED BY <2>1, <2>2, <2>3 DEF WriteRule
<1>2. UNCHANGED <<cm, dep, depFresh, todo, listed, queued, pods, edits, touches>>
  BY DEF WriteRule
<1> QED BY <1>1, <1>2 DEF TypeOK

\* A write of the ConfigMap, whatever becomes of it, is well typed.
LEMMA WriteCMType ==
  ASSUME TypeOK, NEW ACTION accepts, NEW ACTION new, NEW ACTION ok, NEW ACTION err,
         new \in CMObj, ok \in Calls \cup Returns, err \in Calls \cup Returns,
         WriteCM(accepts, new, ok, err)
  PROVE  TypeOK'
<1>1. /\ cm' \in Seq(CMObj) /\ cm' # <<>>
      /\ faults' \in 0..MaxFaults
      /\ pc' \in Calls \cup {"idle"} /\ timer' \in BOOLEAN
      /\ rcopy' \in RuleObj /\ ruleFresh' \in BOOLEAN
      /\ mcopy' \in CMObj /\ cmFresh' \in BOOLEAN
  <2> USE DEF TypeOK
  <2>1. CASE /\ accepts /\ cm' = Commit(cm, new) /\ UNCHANGED faults
             /\ GoOn(ok, rcopy, ruleFresh, new, TRUE)
    BY <2>1, GoOnType, LogWrites
  <2>2. CASE /\ UNCHANGED <<cm, faults>>
             /\ GoOn(err, rcopy, ruleFresh, mcopy, cmFresh)
    BY <2>2, GoOnType
  <2>3. CASE /\ faults < MaxFaults /\ faults' = faults + 1
             /\ cm' \in IF accepts THEN {cm, Commit(cm, new)} ELSE {cm}
             /\ GoOn(err, rcopy, ruleFresh, mcopy, cmFresh /\ cm' = cm)
    <3>1. cm' \in Seq(CMObj) /\ cm' # <<>>
      <4>1. cm' = cm \/ (accepts /\ cm' = Commit(cm, new))
        BY <2>3
      <4>2. CASE cm' = cm
        BY <4>2
      <4>3. CASE accepts /\ cm' = Commit(cm, new)
        BY <4>3, LogWrites
      <4> QED BY <4>1, <4>2, <4>3
    <3>2. faults' \in 0..MaxFaults
      BY <2>3, BoundsAssumption
    <3> QED BY <2>3, <3>1, <3>2, GoOnType
  <2> QED BY <2>1, <2>2, <2>3 DEF WriteCM
<1>2. UNCHANGED <<rule, dep, depFresh, nfin, idx, todo, listed, queued, pods, edits, touches>>
  BY DEF WriteCM
<1> QED BY <1>1, <1>2 DEF TypeOK

\* A write of the status is well typed.
LEMMA WriteStatusType ==
  ASSUME TypeOK, NEW STATE copy, NEW STATE ok, NEW STATE err, copy \in RuleObj,
         ok \in Calls \cup Returns, err \in Calls \cup Returns,
         WriteStatus(copy, ok, err)
  PROVE  TypeOK'
<1> DEFINE new == [Live(rule) EXCEPT !.available = copy.available,
                                     !.degraded = copy.degraded,
                                     !.lastSum = copy.lastSum]
<1>1. Live(rule) \in RuleObj
  BY LogEnds DEF TypeOK
<1>2. new \in RuleObj
  BY <1>1 DEF RuleObj
<1>3. WriteRule(Current, new, ok, err) /\ nfin' \in Nat /\ idx' \in Nat
  BY DEF WriteStatus, TypeOK
<1> HIDE DEF new
<1> QED BY <1>2, <1>3, WriteRuleType

\* Every step of Reconcile is well typed.
LEMMA WorkTypeOK ==
  ASSUME TypeOK, Work
  PROVE  TypeOK'
<1> USE DEF TypeOK
<1>0. /\ Live(rule) \in RuleObj /\ Cached(rule) \in RuleObj
      /\ Live(cm) \in CMObj /\ Cached(cm) \in CMObj
      /\ \A p \in Deps : Live(dep[p]) \in DepObj /\ Cached(dep[p]) \in DepObj
  BY LogEnds
<1>1. CASE Reconcile
  <2>1. pc' \in Calls \cup {"idle"}
    BY <1>1 DEF Reconcile, Branch, Calls
  <2>2. ruleFresh' \in BOOLEAN
    BY <1>1 DEF Reconcile
  <2>3. rcopy' \in RuleObj
    BY <1>0, <1>1, ObjectTypes DEF Reconcile
  <2> QED BY <1>1, <2>1, <2>2, <2>3 DEF Reconcile, objects, bounds
<1>2. CASE initStatus
  <2>1. [rcopy EXCEPT !.available = "Starting"] \in RuleObj
    BY DEF RuleObj, Available
  <2> QED BY <1>2, <2>1, WriteStatusType DEF initStatus, Returns
<1>3. CASE addFinalizer
  <2> DEFINE new == [Live(rule) EXCEPT !.spec = rcopy.spec, !.labels = rcopy.labels,
                                       !.fins = Append(rcopy.fins, Finalizer)]
  <2>1. Append(rcopy.fins, Finalizer) \in Seq(Finalizers)
    BY DEF RuleObj, Finalizers
  <2>2. new \in RuleObj
    BY <1>0, <2>1 DEF RuleObj
  <2>3. WriteRule(AddFinalizerAccepted, new, "requeue", "requeue")
        /\ nfin' \in Nat /\ idx' \in Nat
    BY <1>3 DEF addFinalizer
  <2> HIDE DEF new
  <2> QED BY <2>2, <2>3, WriteRuleType DEF Returns
<1>4. CASE refetchDeleted
  <2>1. CASE Cached(rule).exists /\ Cached(rule).fins # <<>>
    <3>1. Len(Cached(rule).fins) \in Nat
      BY <1>0 DEF RuleObj
    <3>2. GoOn("removeFinalizers", Cached(rule), Synced(rule), mcopy, cmFresh)
      BY <1>4, <2>1 DEF refetchDeleted
    <3>3. nfin' \in Nat /\ idx' \in Nat
      BY <1>4, <2>1, <3>1 DEF refetchDeleted
    <3> HIDE DEF TypeOK
    <3>4. /\ pc' \in Calls \cup {"idle"} /\ timer' \in BOOLEAN
          /\ rcopy' \in RuleObj /\ ruleFresh' \in BOOLEAN
          /\ mcopy' \in CMObj /\ cmFresh' \in BOOLEAN
      <4>1. mcopy \in CMObj /\ "removeFinalizers" \in Calls \cup Returns
        BY DEF TypeOK, Calls
      <4> QED BY <1>0, <3>2, <4>1, GoOnType
    <3> QED BY <1>4, <3>3, <3>4 DEF refetchDeleted, objects, bounds, TypeOK
  <2>2. CASE ~(Cached(rule).exists /\ Cached(rule).fins # <<>>)
    <3>2. GoOn(IF Cached(rule).exists THEN "done" ELSE "requeue",
               rcopy, ruleFresh, mcopy, cmFresh) /\ UNCHANGED <<nfin, idx>>
      BY <1>4, <2>2 DEF refetchDeleted
    <3>3. (IF Cached(rule).exists THEN "done" ELSE "requeue") \in Calls \cup Returns
      BY DEF Returns
    <3> HIDE DEF TypeOK
    <3>4. /\ pc' \in Calls \cup {"idle"} /\ timer' \in BOOLEAN
          /\ rcopy' \in RuleObj /\ ruleFresh' \in BOOLEAN
          /\ mcopy' \in CMObj /\ cmFresh' \in BOOLEAN
      <4>1. mcopy \in CMObj /\ rcopy \in RuleObj
        BY DEF TypeOK
      <4> QED BY <3>2, <3>3, <4>1, GoOnType
    <3> QED BY <1>4, <3>2, <3>4 DEF refetchDeleted, objects, bounds, TypeOK
  <2> QED BY <2>1, <2>2
<1>5. CASE removeFinalizers
  <2> DEFINE new == Reap([Live(rule) EXCEPT !.fins = RemoveAt(@, PatchPosition)])
             ok == IF idx + 1 < nfin THEN "removeFinalizers" ELSE "done"
  <2>1. PatchAccepted => new \in RuleObj
    <3> SUFFICES ASSUME PatchAccepted PROVE new \in RuleObj
      OBVIOUS
    <3>1. Live(rule).fins \in Seq(Finalizers)
      BY <1>0 DEF RuleObj
    <3>2. PatchPosition \in 1..Len(Live(rule).fins)
      BY <3>1 DEF PatchAccepted, PatchPosition
    <3>3. RemoveAt(Live(rule).fins, PatchPosition) \in Seq(Finalizers)
      BY <3>1, <3>2, RemoveAtType
    <3>4. [Live(rule) EXCEPT !.fins = RemoveAt(@, PatchPosition)] \in RuleObj
      BY <1>0, <3>3 DEF RuleObj
    <3> QED BY <3>4, ObjectTypes
  <2>2. ok \in Calls \cup Returns
    BY DEF Calls, Returns
  <2>3. idx' \in Nat /\ nfin' \in Nat
    BY <1>5 DEF removeFinalizers
  <2>4. WriteRule(PatchAccepted, new, ok, "requeue")
    BY <1>5 DEF removeFinalizers
  <2> HIDE DEF new, ok, TypeOK
  <2> QED BY <2>1, <2>2, <2>3, <2>4, WriteRuleType DEF Returns
<1>6. CASE getCM
  <2> DEFINE m == Cached(cm)
             to == CASE ~m.exists -> "createCM"
                     [] m.exists /\ Differs(m, rcopy) -> "updating"
                     [] OTHER -> "requeue"
             mc == [m EXCEPT !.data = Marshal(rcopy.spec)]
  <2>1. to \in Calls \cup Returns
    BY DEF Calls, Returns
  <2>2. mc \in CMObj
    <3>1. Marshal(rcopy.spec) \in Texts
      BY ObjectTypes DEF RuleObj
    <3> QED BY <1>0, <3>1 DEF CMObj
  <2>3. GoOn(to, rcopy, ruleFresh, mc, Synced(cm))
    BY <1>6 DEF getCM
  <2> HIDE DEF to, mc, TypeOK
  <2>4. /\ pc' \in Calls \cup {"idle"} /\ timer' \in BOOLEAN
        /\ rcopy' \in RuleObj /\ ruleFresh' \in BOOLEAN
        /\ mcopy' \in CMObj /\ cmFresh' \in BOOLEAN
    <3>1. rcopy \in RuleObj
      BY DEF TypeOK
    <3> QED BY <2>1, <2>2, <2>3, <3>1, GoOnType
  <2> QED BY <1>6, <2>4 DEF getCM, objects, bounds, TypeOK
<1>7. CASE createCM
  <2>1. configMapForVillipRule(rcopy) \in CMObj
    BY ObjectTypes
  <2> QED BY <1>7, <2>1, WriteCMType DEF createCM, Calls
<1>8. CASE createFailed
  <2>1. [rcopy EXCEPT !.available = "CreateFailed"] \in RuleObj
    BY DEF RuleObj, Available
  <2> QED BY <1>8, <2>1, WriteStatusType DEF createFailed, Returns
<1>9. CASE created
  <2>1. sumVillipRulesData(mcopy.data) \in [sha : Texts]
    BY ObjectTypes DEF CMObj
  <2>2. [rcopy EXCEPT !.available = "Created",
                      !.lastSum = sumVillipRulesData(mcopy.data)] \in RuleObj
    BY <2>1 DEF RuleObj, Available, AvailableTrue
  <2> QED BY <1>9, <2>2, WriteStatusType DEF created, Returns
<1>10. CASE updating
  <2>1. [rcopy EXCEPT !.degraded = "Updating"] \in RuleObj
    BY DEF RuleObj
  <2> QED BY <1>10, <2>1, WriteStatusType DEF updating, Returns, Calls
<1>11. CASE updateCM
  BY <1>11, WriteCMType DEF updateCM, Calls
<1>12. CASE refetch
  <2>1. (IF Cached(rule).exists THEN "updateFailed" ELSE "requeue") \in Calls \cup Returns
    BY DEF Calls, Returns
  <2>2. GoOn(IF Cached(rule).exists THEN "updateFailed" ELSE "requeue",
             Cached(rule), Synced(rule), mcopy, cmFresh)
    BY <1>12 DEF refetch
  <2> HIDE DEF TypeOK
  <2>3. /\ pc' \in Calls \cup {"idle"} /\ timer' \in BOOLEAN
        /\ rcopy' \in RuleObj /\ ruleFresh' \in BOOLEAN
        /\ mcopy' \in CMObj /\ cmFresh' \in BOOLEAN
    <3>1. mcopy \in CMObj
      BY DEF TypeOK
    <3> QED BY <1>0, <2>1, <2>2, <3>1, GoOnType
  <2> QED BY <1>12, <2>3 DEF refetch, objects, bounds, TypeOK
<1>13. CASE updateFailed
  <2>1. [rcopy EXCEPT !.available = "UpdateFailed"] \in RuleObj
    BY DEF RuleObj, Available
  <2> QED BY <1>13, <2>1, WriteStatusType DEF updateFailed, Returns, Calls
<1>14. CASE updated
  <2>1. sumVillipRulesData(mcopy.data) \in [sha : Texts]
    BY ObjectTypes DEF CMObj
  <2>2. [rcopy EXCEPT !.available = "Updated",
                      !.lastSum = sumVillipRulesData(mcopy.data)] \in RuleObj
    BY <2>1 DEF RuleObj, Available, AvailableTrue
  <2> QED BY <1>14, <2>2, WriteStatusType DEF updated, Returns, Calls
<1>15. CASE listDeployments
  BY <1>0, <1>15 DEF listDeployments, objects, queue, bounds, Calls
<1>16. ASSUME NEW p \in Deps, rolloutOne(p)
       PROVE  TypeOK'
  <2>1. dep' \in [Deps -> Seq(DepObj)] /\ \A q \in Deps : dep'[q] # <<>>
    <3>1. Append(dep[p], listed[p]) \in Seq(DepObj) /\ Append(dep[p], listed[p]) # <<>>
      BY LogWrites
    <3> QED BY <1>16, <3>1 DEF rolloutOne
  <2>2. pods' \in [Deps -> [rolling : BOOLEAN, loaded : Texts]]
    BY <1>16 DEF rolloutOne
  <2>3. faults' \in 0..MaxFaults
    BY <1>16, BoundsAssumption DEF rolloutOne
  <2> QED BY <1>16, <2>1, <2>2, <2>3 DEF rolloutOne, queue
<1>17. CASE rolloutDone
  <2>1. listed' \in [Deps -> DepObj] /\ depFresh' \in SUBSET Deps
    BY <1>17 DEF rolloutDone, NotListed, DepObj
  <2>2. /\ pc' \in Calls \cup {"idle"} /\ timer' \in BOOLEAN
        /\ rcopy' \in RuleObj /\ ruleFresh' \in BOOLEAN
        /\ mcopy' \in CMObj /\ cmFresh' \in BOOLEAN
    BY <1>17, GoOnType DEF rolloutDone, Returns
  <2> QED BY <1>17, <2>1, <2>2 DEF rolloutDone, objects, bounds
<1> QED BY <1>1, <1>2, <1>3, <1>4, <1>5, <1>6, <1>7, <1>8, <1>9, <1>10, <1>11, <1>12,
           <1>13, <1>14, <1>15, <1>16, <1>17 DEF Work

\* Every step of users, of the environment and of a restart is well typed.
LEMMA OthersTypeOK ==
  ASSUME TypeOK, Users \/ Environment \/ Restart
  PROVE  TypeOK'
<1> USE BoundsAssumption DEF TypeOK, objects, fresh, locals, queue, bounds
<1>0. /\ Live(rule) \in RuleObj /\ Live(cm) \in CMObj
      /\ \A p \in Deps : Live(dep[p]) \in DepObj
  BY LogEnds
<1>1. ASSUME NEW STATE new, new \in RuleObj, NEW op, UserRule(op, new)
      PROVE  TypeOK'
  <2>1. rule' \in Seq(RuleObj) /\ rule' # <<>>
    BY <1>1, LogWrites DEF UserRule
  <2>2. edits' \in 0..MaxEdits
    BY <1>1 DEF UserRule
  <2>3. ruleFresh' \in BOOLEAN
    BY <1>1 DEF UserRule
  <2> QED BY <1>1, <2>1, <2>2, <2>3 DEF UserRule
<1>2. ASSUME NEW STATE new, new \in CMObj, NEW op, UserCM(op, new)
      PROVE  TypeOK'
  <2>1. cm' \in Seq(CMObj) /\ cm' # <<>>
    BY <1>2, LogWrites DEF UserCM
  <2>2. edits' \in 0..MaxEdits
    BY <1>2 DEF UserCM
  <2>3. cmFresh' \in BOOLEAN
    BY <1>2 DEF UserCM
  <2> QED BY <1>2, <2>1, <2>2, <2>3 DEF UserCM
<1>3. CASE EditRule
  <2>1. [Live(rule) EXCEPT !.spec = @ + 1] \in RuleObj
    <3>1. Live(rule).spec + 1 \in Nat
      BY <1>0 DEF RuleObj
    <3> QED BY <1>0, <3>1 DEF RuleObj
  <2> QED BY <1>1, <1>3, <2>1 DEF EditRule
<1>4. CASE RelabelRule
  <2>1. \A labels \in SUBSET Labels : [Live(rule) EXCEPT !.labels = labels] \in RuleObj
    BY <1>0 DEF RuleObj
  <2> QED BY <1>1, <1>4, <2>1 DEF RelabelRule
<1>5. CASE DeleteRule
  <2>1. Reap(Marked(Live(rule), FALSE)) \in RuleObj /\ Reap(Marked(Live(rule), TRUE)) \in RuleObj
    BY <1>0, ObjectTypes
  <2> QED BY <1>1, <1>5, <2>1 DEF DeleteRule
<1>6. CASE CreateRule
  <2>1. \A labels \in SUBSET Labels : NewRule(Live(rule), labels) \in RuleObj
    BY <1>0, ObjectTypes
  <2> QED BY <1>1, <1>6, <2>1 DEF CreateRule
<1>7. CASE EditCM \/ DeleteCM \/ CreateCM
  <2>1. NoText \in Texts
    BY DEF NoText, Texts
  <2>2. /\ [Live(cm) EXCEPT !.data = NoText] \in CMObj
        /\ NoCM \in CMObj /\ [NoCM EXCEPT !.exists = TRUE] \in CMObj
    BY <1>0, <2>1, ObjectTypes DEF CMObj
  <2> QED BY <1>2, <1>7, <2>2 DEF EditCM, DeleteCM, CreateCM
<1>8. CASE DeliverRule
  <2>1. rule' \in Seq(RuleObj) /\ rule' # <<>>
    BY <1>8, LogDelivers DEF DeliverRule, Synced
  <2> QED BY <1>8, <2>1 DEF DeliverRule
<1>9. CASE DeliverCM
  <2>1. cm' \in Seq(CMObj) /\ cm' # <<>>
    BY <1>9, LogDelivers DEF DeliverCM, Synced
  <2>2. queued' \in BOOLEAN
    BY <1>9 DEF DeliverCM
  <2> QED BY <1>9, <2>1, <2>2 DEF DeliverCM
<1>10. CASE TimerFires
  BY <1>10 DEF TimerFires
<1>11. CASE GCConfigMap
  <2>1. cm' \in Seq(CMObj) /\ cm' # <<>>
    BY <1>11, LogWrites, ObjectTypes DEF GCConfigMap
  <2> QED BY <1>11, <2>1 DEF GCConfigMap
<1>12. CASE GCRule
  <2>1. PICK i \in 1..Len(Live(rule).fins) :
          rule' = Append(rule, Reap([Live(rule) EXCEPT !.fins = RemoveAt(@, i)]))
    BY <1>12 DEF GCRule
  <2>2. Live(rule).fins \in Seq(Finalizers)
    BY <1>0 DEF RuleObj
  <2>3. RemoveAt(Live(rule).fins, i) \in Seq(Finalizers)
    BY <2>2, RemoveAtType
  <2>4. [Live(rule) EXCEPT !.fins = RemoveAt(@, i)] \in RuleObj
    BY <1>0, <2>3 DEF RuleObj
  <2>5. rule' \in Seq(RuleObj) /\ rule' # <<>>
    BY <2>1, <2>4, ObjectTypes, LogWrites
  <2> QED BY <1>12, <2>5 DEF GCRule
<1>13. ASSUME NEW p \in Deps, DeliverDep(p)
       PROVE  TypeOK'
  <2>1. Catchup(dep[p]) \in Seq(DepObj) /\ Catchup(dep[p]) # <<>>
    BY <1>13, LogDelivers DEF DeliverDep, Synced
  <2> QED BY <1>13, <2>1 DEF DeliverDep
<1>14. ASSUME NEW p \in Deps, DepTouched(p)
       PROVE  TypeOK'
  <2>1. Append(dep[p], Live(dep[p])) \in Seq(DepObj) /\ Append(dep[p], Live(dep[p])) # <<>>
    BY <1>0, LogWrites
  <2> QED BY <1>14, <2>1 DEF DepTouched
<1>15. ASSUME NEW p \in Deps, ProxyMounts(p)
       PROVE  TypeOK'
  <2>1. [conf |-> ~Live(dep[p]).conf] \in DepObj
    BY DEF DepObj
  <2> DEFINE log == Append(dep[p], [conf |-> ~Live(dep[p]).conf])
  <2>2. log \in Seq(DepObj) /\ log # <<>>
    BY <2>1, LogWrites
  <2>3. dep' = [dep EXCEPT ![p] = log]
    BY <1>15 DEF ProxyMounts
  <2> HIDE DEF log
  <2>4. dep' \in [Deps -> Seq(DepObj)] /\ \A q \in Deps : dep'[q] # <<>>
    BY <2>2, <2>3
  <2>5. pods' \in [Deps -> [rolling : BOOLEAN, loaded : Texts]]
    BY <1>15 DEF ProxyMounts
  <2> QED BY <1>15, <2>4, <2>5 DEF ProxyMounts
<1>16. ASSUME NEW p \in Deps, PodsStart(p)
       PROVE  TypeOK'
  <2>1. (IF Live(dep[p]).conf THEN Live(cm).data ELSE NoText) \in Texts
    BY <1>0 DEF CMObj, NoText, Texts
  <2>2. pods' \in [Deps -> [rolling : BOOLEAN, loaded : Texts]]
    BY <1>16, <2>1 DEF PodsStart
  <2> QED BY <1>16, <2>2 DEF PodsStart
<1>17. CASE Restart
  <2>1. /\ rule' \in Seq(RuleObj) /\ rule' # <<>>
        /\ cm' \in Seq(CMObj) /\ cm' # <<>>
    BY <1>17, LogEnds DEF Restart
  <2>2. dep' \in [Deps -> Seq(DepObj)] /\ \A p \in Deps : dep'[p] # <<>>
    BY <1>17, LogEnds DEF Restart
  <2>3. /\ listed' \in [Deps -> DepObj] /\ rcopy' \in RuleObj /\ mcopy' \in CMObj
        /\ queued' \in BOOLEAN
    BY <1>17, ObjectTypes DEF Restart, NotListed, DepObj
  <2>4. /\ ruleFresh' \in BOOLEAN /\ cmFresh' \in BOOLEAN /\ timer' \in BOOLEAN
        /\ depFresh' \in SUBSET Deps /\ todo' \in SUBSET Deps
        /\ pc' \in Calls \cup {"idle"} /\ nfin' \in Nat /\ idx' \in Nat
    BY <1>17 DEF Restart
  <2>5. faults' \in 0..MaxFaults
    BY <1>17 DEF Restart
  <2> QED BY <1>17, <2>1, <2>2, <2>3, <2>4, <2>5 DEF Restart
<1> QED BY <1>3, <1>4, <1>5, <1>6, <1>7, <1>8, <1>9, <1>10, <1>11, <1>12, <1>13, <1>14,
           <1>15, <1>16, <1>17 DEF Users, Environment

\* In every behaviour of the reconciler and its environment each variable
\* keeps its type; in particular Reconcile is always at one of its calls and
\* the caches always hold some version of each object.
THEOREM TypeCorrect == Spec => []TypeOK
<1>1. TypeOK /\ [Next]_vars => TypeOK'
  <2> SUFFICES ASSUME TypeOK, [Next]_vars PROVE TypeOK'
    OBVIOUS
  <2>1. CASE Next
    BY <2>1, WorkTypeOK, OthersTypeOK DEF Next
  <2>2. CASE UNCHANGED vars
    BY <2>2 DEF TypeOK, vars, objects, fresh, locals, queue, bounds
  <2> QED BY <2>1, <2>2
<1> QED BY <1>1, InitTypeOK, PTL DEF Spec

------------------------------------------------------------------------------
(***************************************************************************)
(* RulePinned.  Its inductive invariant says what the versions the cache   *)
(* has yet to see have to do with the stored one.                          *)
(***************************************************************************)
Holds(o) == HasFinalizer(o, Finalizer)

\* Incarnations only follow one another.
UidsGrow(log) ==
  \A i, j \in 1..Len(log) : i <= j => log[i].uid <= log[j].uid

\* Only the incarnation the cache knows can hold the finalizer, since Reconcile
\* adds it to a version the cache has.
HeldByCached(log) ==
  \A j \in 1..Len(log) : Holds(log[j]) => log[j].exists /\ log[j].uid = log[1].uid

\* Deletion is not undone.
DeletionSticks(log) ==
  \A i, j \in 1..Len(log) :
    i <= j /\ log[i].uid = log[j].uid /\ log[i].deleting /\ log[j].exists
      => log[j].deleting

\* What any pending version shows as held and alive is held in the store:
\* nobody but Reconcile takes the finalizer away.
HeldStaysHeld(log) ==
  \A j \in 1..Len(log) :
    Holds(log[j]) /\ ~log[j].deleting
      => Live(log).exists /\ Live(log).uid = log[j].uid /\ Holds(Live(log))

LogInv(log) ==
  UidsGrow(log) /\ HeldByCached(log) /\ DeletionSticks(log) /\ HeldStaysHeld(log)

\* Reconcile takes the finalizer from deleted incarnations only.
AllDeleted(log) == \A j \in 1..Len(log) : Holds(log[j]) => log[j].deleting

RemovesFromDeleted ==
  pc \in {"refetchDeleted", "removeFinalizers"} => AllDeleted(rule)

\* A copy in addFinalizer that is still current was read from a cache in sync.
AddsToCached ==
  pc = "addFinalizer" /\ ruleFresh => Len(rule) = 1 /\ rcopy = rule[1]

PinInv == LogInv(rule) /\ RemovesFromDeleted /\ AddsToCached /\ RulePinned

\* What a new version must respect for the log to stay sound.
Succeeds(log, o) ==
  /\ Live(log).uid <= o.uid
  /\ Holds(o) => o.exists /\ o.uid = log[1].uid
  /\ o.exists /\ o.uid = Live(log).uid => Live(log).exists /\ (Live(log).deleting => o.deleting)
  /\ (\E j \in 1..Len(log) : Holds(log[j]) /\ ~log[j].deleting)
       => o.exists /\ o.uid = Live(log).uid /\ Holds(o)

\* A write of a version that may follow the stored one keeps the log invariant.
LEMMA AppendKeepsLog ==
  ASSUME NEW log \in Seq(RuleObj), log # <<>>, NEW o \in RuleObj,
         LogInv(log), Succeeds(log, o)
  PROVE  LogInv(Append(log, o))
<1> DEFINE new == Append(log, o)
           n == Len(log)
<1>1. /\ n \in Nat /\ n >= 1 /\ Len(new) = n + 1 /\ Live(new) = o /\ Live(log) = log[n]
      /\ new[1] = log[1]
      /\ \A k \in 1..Len(new) : \/ k \in 1..n /\ new[k] = log[k]
                                \/ k = n + 1 /\ new[k] = o
  BY AppendEntries
<1>2. \A k \in 1..n : log[k].uid \in Nat
  <2>1. \A k \in 1..n : log[k] \in RuleObj
    OBVIOUS
  <2> QED BY <2>1 DEF RuleObj
<1>3. o.uid \in Nat
  BY DEF RuleObj
<1> HIDE DEF new, n
<1>4. \A k \in 1..n : log[k].uid <= Live(log).uid
  BY <1>1 DEF LogInv, UidsGrow, n
<1>5. UidsGrow(new)
  BY <1>1, <1>2, <1>3, <1>4 DEF LogInv, UidsGrow, Succeeds, n
<1>6. HeldByCached(new)
  BY <1>1 DEF LogInv, HeldByCached, Succeeds, n
<1>7. DeletionSticks(new)
  <2> SUFFICES ASSUME NEW i \in 1..Len(new), NEW j \in 1..Len(new), i <= j,
                      new[i].uid = new[j].uid, new[i].deleting, new[j].exists
               PROVE  new[j].deleting
    BY DEF DeletionSticks
  <2>1. CASE j \in 1..n
    <3>1. i \in 1..n /\ new[i] = log[i] /\ new[j] = log[j]
      BY <1>1, <2>1
    <3> QED BY <2>1, <3>1 DEF LogInv, DeletionSticks, n
  <2>2. CASE i \in 1..n /\ j = n + 1
    <3>1. new[i] = log[i] /\ new[j] = o
      BY <1>1, <2>2
    <3>2. o.uid = Live(log).uid
      BY <1>1, <1>2, <1>3, <1>4, <2>2, <3>1 DEF Succeeds
    <3>3. Live(log).exists /\ (Live(log).deleting => o.deleting)
      BY <3>1, <3>2 DEF Succeeds
    <3>4. n \in 1..n /\ i <= n
      BY <1>1, <2>2
    <3>5. log[n].deleting
      BY <1>1, <2>2, <3>1, <3>2, <3>3, <3>4 DEF LogInv, DeletionSticks, n
    <3> QED BY <1>1, <3>1, <3>3, <3>5
  <2>3. CASE i = n + 1 /\ j = n + 1
    BY <2>3
  <2> QED BY <1>1, <2>1, <2>2, <2>3
<1>8. HeldStaysHeld(new)
  BY <1>1 DEF LogInv, HeldStaysHeld, Succeeds, n
<1> QED BY <1>5, <1>6, <1>7, <1>8 DEF LogInv, new

\* The delivery of an event keeps the log invariant.
LEMMA TailKeepsLog ==
  ASSUME NEW log \in Seq(RuleObj), Len(log) >= 2, LogInv(log)
  PROVE  LogInv(Tail(log))
<1> DEFINE new == Tail(log)
           n == Len(log)
<1>1. /\ n \in Nat /\ n >= 2 /\ Len(new) = n - 1 /\ Live(new) = Live(log) /\ new[1] = log[2]
      /\ \A k \in 1..Len(new) : k + 1 \in 1..n /\ new[k] = log[k + 1]
  BY TailEntries
<1>2. \A k \in 1..n : log[k].uid \in Nat
  <2>1. \A k \in 1..n : log[k] \in RuleObj
    OBVIOUS
  <2> QED BY <2>1 DEF RuleObj
<1> HIDE DEF new, n
<1>3. UidsGrow(new)
  BY <1>1 DEF LogInv, UidsGrow, n
<1>4. HeldByCached(new)
  <2> SUFFICES ASSUME NEW j \in 1..Len(new), Holds(new[j])
               PROVE  new[j].exists /\ new[j].uid = new[1].uid
    BY DEF HeldByCached
  <2>1. new[j].exists /\ new[j].uid = log[1].uid
    BY <1>1 DEF LogInv, HeldByCached, n
  <2>2. 1 \in 1..n /\ 2 \in 1..n /\ j + 1 \in 1..n /\ 2 <= j + 1
    BY <1>1
  <2>3. log[1].uid <= log[2].uid /\ log[2].uid <= log[j + 1].uid
    BY <2>2 DEF LogInv, UidsGrow, n
  <2> QED BY <1>1, <1>2, <2>1, <2>2, <2>3
<1>5. DeletionSticks(new)
  BY <1>1 DEF LogInv, DeletionSticks, n
<1>6. HeldStaysHeld(new)
  BY <1>1 DEF LogInv, HeldStaysHeld, n
<1> QED BY <1>3, <1>4, <1>5, <1>6 DEF LogInv, new

\* The relist of a restarted manager keeps the log invariant.
LEMMA RelistKeepsLog ==
  ASSUME NEW log \in Seq(RuleObj), log # <<>>, LogInv(log)
  PROVE  LogInv(Relist(log))
<1> DEFINE o == Live(log)
<1>1. Len(log) \in 1..Len(log) /\ o = log[Len(log)] /\ o.uid \in Nat
  <2>1. o \in RuleObj /\ Len(log) \in 1..Len(log)
    BY LogEnds
  <2> QED BY <2>1 DEF Live, RuleObj
<1>2. Holds(o) => o.exists
  BY <1>1 DEF LogInv, HeldByCached
<1> HIDE DEF o
<1>3. Relist(log) = <<o>> /\ Live(<<o>>) = o /\ Len(<<o>>) = 1 /\ <<o>>[1] = o
  BY DEF Relist, Live, o
<1>4. \A k \in 1..Len(<<o>>) : <<o>>[k] = o
  BY <1>3
<1>5. UidsGrow(<<o>>) /\ HeldByCached(<<o>>) /\ DeletionSticks(<<o>>) /\ HeldStaysHeld(<<o>>)
  BY <1>1, <1>2, <1>3, <1>4 DEF UidsGrow, HeldByCached, DeletionSticks, HeldStaysHeld
<1> QED BY <1>3, <1>5 DEF LogInv

\* How every writer but Reconcile's addFinalizer and removeFinalizers continues
\* the stored version l of a rule: the finalizer comes and goes with neither.
Continues(l, o) ==
  /\ l.uid <= o.uid
  /\ Holds(o) <=> Holds(l)
  /\ Holds(l) => o.exists /\ o.uid = l.uid
  /\ o.exists /\ o.uid = l.uid => l.exists /\ (l.deleting => o.deleting)

\* A version that continues the stored one may follow it in the log.
LEMMA ContinuesSucceeds ==
  ASSUME NEW log \in Seq(RuleObj), log # <<>>, NEW o \in RuleObj,
         LogInv(log), Continues(Live(log), o)
  PROVE  /\ Succeeds(log, o)
         /\ AllDeleted(log) => AllDeleted(Append(log, o))
<1>1. Len(log) \in 1..Len(log) /\ Live(log) = log[Len(log)]
  <2>1. Len(log) \in Nat \ {0}
    BY LogEnds
  <2> QED BY <2>1 DEF Live
<1>2. Holds(Live(log)) => Live(log).exists /\ Live(log).uid = log[1].uid
  BY <1>1 DEF LogInv, HeldByCached
<1>3. (\E j \in 1..Len(log) : Holds(log[j]) /\ ~log[j].deleting) => Holds(Live(log))
  BY DEF LogInv, HeldStaysHeld
<1>4. Succeeds(log, o)
  BY <1>2, <1>3 DEF Succeeds, Continues
<1>5. ASSUME AllDeleted(log) PROVE AllDeleted(Append(log, o))
  <2>1. Holds(o) => o.deleting
    BY <1>1, <1>2, <1>5 DEF AllDeleted, Continues
  <2> QED BY <1>5, <2>1, AppendEntries DEF AllDeleted
<1> QED BY <1>4, <1>5

\* The two ways in which a version that keeps the finalizers continues another.
LEMMA SameContinues ==
  ASSUME NEW l \in RuleObj, NEW o \in RuleObj, l.exists, o.exists, o.uid = l.uid,
         Holds(o) <=> Holds(l), l.deleting => o.deleting
  PROVE  Continues(l, o)
  BY DEF Continues, RuleObj

\* A version reaped for want of finalizers continues one that had none of ours.
LEMMA ReapContinues ==
  ASSUME NEW l \in RuleObj, NEW o \in RuleObj, l.exists, o.exists, o.uid = l.uid,
         Holds(o) <=> Holds(l), l.deleting => o.deleting
  PROVE  Continues(l, Reap(o))
<1>1. CASE Removable(o)
  <2>1. Reap(o) = Gone(o) /\ o.fins = <<>>
    BY <1>1 DEF Reap, Removable
  <2>2. ~Holds(o) /\ ~Holds(Gone(o)) /\ ~Gone(o).exists /\ Gone(o).uid = o.uid
    BY <2>1 DEF Holds, HasFinalizer, Gone, NoRule
  <2>3. l.uid \in Nat
    BY DEF RuleObj
  <2> QED BY <2>1, <2>2, <2>3 DEF Continues
<1>2. CASE ~Removable(o)
  BY <1>2, SameContinues DEF Reap
<1> QED BY <1>1, <1>2

\* A write of a continuing version by someone else keeps the invariant.
LEMMA OtherWriteKeepsPin ==
  ASSUME TypeOK, PinInv, NEW STATE o, o \in RuleObj, Continues(Live(rule), o),
         rule' = Append(rule, o), ruleFresh' = FALSE, UNCHANGED <<pc, rcopy>>
  PROVE  PinInv'
<1>1. rule \in Seq(RuleObj) /\ rule # <<>>
  BY DEF TypeOK
<1>2. LogInv(rule') /\ (AllDeleted(rule) => AllDeleted(rule'))
  BY <1>1, ContinuesSucceeds, AppendKeepsLog DEF PinInv
<1>3. Live(rule') = o
  BY <1>1, AppendEntries
<1>4. RemovesFromDeleted' /\ AddsToCached'
  BY <1>2 DEF PinInv, RemovesFromDeleted, AddsToCached
<1>5. RulePinned'
  BY <1>3 DEF PinInv, RulePinned, Continues, Holds
<1> QED BY <1>2, <1>4, <1>5 DEF PinInv

\* Writes of the status by Reconcile keep the invariant.
LEMMA StatusKeepsPin ==
  ASSUME TypeOK, PinInv, NEW STATE copy, copy \in RuleObj,
         NEW STATE ok, NEW STATE err,
         \/ pc \in CMCalls /\ ok \in CMCalls \cup Returns /\ err \in CMCalls \cup Returns
         \/ ok \in Returns /\ err \in Returns,
         WriteStatus(copy, ok, err)
  PROVE  PinInv'
<1> DEFINE new == [Live(rule) EXCEPT !.available = copy.available,
                                     !.degraded = copy.degraded,
                                     !.lastSum = copy.lastSum]
<1>0. rule \in Seq(RuleObj) /\ rule # <<>> /\ Live(rule) \in RuleObj
  BY LogEnds DEF TypeOK
<1>1. /\ new \in RuleObj /\ new.exists = Live(rule).exists /\ new.uid = Live(rule).uid
      /\ new.fins = Live(rule).fins /\ new.deleting = Live(rule).deleting
  BY <1>0 DEF RuleObj
<1>2. WriteRule(Current, new, ok, err)
  BY DEF WriteStatus
<1> HIDE DEF new
<1>3. Holds(new) <=> Holds(Live(rule))
  BY <1>1 DEF Holds, HasFinalizer
<1>4. \/ rule' = rule
      \/ Current /\ rule' = Append(rule, new)
  BY <1>2 DEF WriteRule, Commit
<1>5. /\ LogInv(rule')
      /\ Live(rule').exists = Live(rule).exists /\ Live(rule').uid = Live(rule).uid
      /\ Holds(Live(rule')) <=> Holds(Live(rule))
  <2>1. CASE rule' = rule
    BY <2>1 DEF PinInv
  <2>2. CASE Current /\ rule' = Append(rule, new)
    <3>1. Live(rule').exists = Live(rule).exists /\ Live(rule') = new
      BY <1>0, <1>1, <2>2, AppendEntries
    <3>2. Continues(Live(rule), new)
      BY <1>0, <1>1, <1>3, <2>2, SameContinues DEF Current
    <3>3. LogInv(rule')
      BY <1>0, <1>1, <2>2, <3>2, ContinuesSucceeds, AppendKeepsLog DEF PinInv
    <3> QED BY <1>1, <1>3, <3>1, <3>3
  <2> QED BY <1>4, <2>1, <2>2
<1>6. \/ pc' = "idle"
      \/ /\ pc \in CMCalls /\ pc' \in CMCalls /\ rcopy' \in {new, rcopy}
  BY <1>2 DEF WriteRule, GoOn, Returns
<1>7. RemovesFromDeleted' /\ AddsToCached'
  BY <1>6 DEF RemovesFromDeleted, AddsToCached, CMCalls
<1>8. RulePinned'
  <2>1. CASE pc' = "idle"
    BY <2>1 DEF RulePinned, CMCalls, Calls
  <2>2. CASE pc \in CMCalls /\ pc' \in CMCalls /\ rcopy' \in {new, rcopy}
    BY <1>1, <1>5, <2>2 DEF PinInv, RulePinned, Holds
  <2> QED BY <1>6, <2>1, <2>2
<1> QED BY <1>5, <1>7, <1>8 DEF PinInv

\* Steps of Reconcile that leave the rule alone and stay past the finalizer.
LEMMA CallKeepsPin ==
  ASSUME PinInv, UNCHANGED rule, pc \in CMCalls,
         \/ pc' = "idle"
         \/ pc' \in CMCalls /\ rcopy' = rcopy
  PROVE  PinInv'
<1>1. LogInv(rule') /\ RemovesFromDeleted' /\ AddsToCached'
  BY DEF PinInv, RemovesFromDeleted, AddsToCached, CMCalls
<1>2. RulePinned'
  BY DEF PinInv, RulePinned, CMCalls, Calls
<1> QED BY <1>1, <1>2 DEF PinInv

\* The read at the top of Reconcile, with its early returns, keeps the invariant.
LEMMA ReconcileKeepsPin ==
  ASSUME TypeOK, PinInv, Reconcile
  PROVE  PinInv'
<1>0. /\ rule \in Seq(RuleObj) /\ Len(rule) \in Nat /\ Len(rule) >= 1
      /\ Cached(rule) = rule[1] /\ 1 \in 1..Len(rule)
  <2>1. rule \in Seq(RuleObj) /\ rule # <<>>
    BY DEF TypeOK
  <2>2. Len(rule) \in Nat \ {0} /\ Cached(rule) = rule[1]
    BY <2>1, LogEnds
  <2> QED BY <2>1, <2>2
<1>1. /\ rule' = rule /\ pc' = Branch(rule[1])
      /\ rcopy' = IF rule[1].exists THEN rule[1] ELSE NoRule
      /\ ruleFresh' = (Len(rule) = 1 /\ rule[1].exists)
  BY <1>0 DEF Reconcile, objects, Synced
<1>2. LogInv(rule')
  BY <1>1 DEF PinInv
<1>3. RemovesFromDeleted'
  <2> SUFFICES ASSUME pc' \in {"refetchDeleted", "removeFinalizers"},
                      NEW j \in 1..Len(rule), Holds(rule[j])
               PROVE  rule[j].deleting
    BY <1>1 DEF RemovesFromDeleted, AllDeleted
  <2>1. rule[1].deleting
    BY <1>1 DEF Branch
  <2>2. rule[j].exists /\ rule[j].uid = rule[1].uid /\ 1 <= j
    BY <1>0 DEF PinInv, LogInv, HeldByCached
  <2> QED BY <1>0, <2>1, <2>2 DEF PinInv, LogInv, DeletionSticks
<1>4. AddsToCached'
  BY <1>1 DEF AddsToCached
<1>5. RulePinned'
  <2> SUFFICES ASSUME pc' \in CMCalls
               PROVE  /\ Live(rule).exists /\ Live(rule).uid = rcopy'.uid
                      /\ HasFinalizer(Live(rule), Finalizer)
    BY <1>1 DEF RulePinned
  <2>1. rule[1].exists /\ Holds(rule[1]) /\ ~rule[1].deleting
    BY <1>1 DEF Branch, Holds, CMCalls, Calls
  <2> QED BY <1>0, <1>1, <2>1 DEF PinInv, LogInv, HeldStaysHeld, Holds
<1> QED BY <1>2, <1>3, <1>4, <1>5 DEF PinInv

\* The Update of addFinalizer keeps the invariant.
LEMMA AddFinalizerKeepsPin ==
  ASSUME TypeOK, PinInv, addFinalizer
  PROVE  PinInv'
<1> DEFINE new == [Live(rule) EXCEPT !.spec = rcopy.spec, !.labels = rcopy.labels,
                                     !.fins = Append(rcopy.fins, Finalizer)]
<1>0. /\ rule \in Seq(RuleObj) /\ rule # <<>> /\ Live(rule) \in RuleObj /\ rcopy \in RuleObj
      /\ Len(rule) \in Nat /\ Len(rule) >= 1
  <2>1. rule \in Seq(RuleObj) /\ rule # <<>> /\ rcopy \in RuleObj
    BY DEF TypeOK
  <2>2. Len(rule) \in Nat \ {0} /\ Live(rule) \in RuleObj
    BY <2>1, LogEnds
  <2> QED BY <2>1, <2>2
<1>1. Append(rcopy.fins, Finalizer) \in Seq(Finalizers) /\ rcopy.fins \in Seq(Finalizers)
  BY <1>0 DEF RuleObj, Finalizers
<1>2. /\ new \in RuleObj /\ new.exists = Live(rule).exists /\ new.uid = Live(rule).uid
      /\ new.fins = Append(rcopy.fins, Finalizer) /\ new.deleting = Live(rule).deleting
  BY <1>0, <1>1 DEF RuleObj
<1>3. WriteRule(AddFinalizerAccepted, new, "requeue", "requeue") /\ pc = "addFinalizer"
  BY DEF addFinalizer
<1> HIDE DEF new
<1>4. \/ rule' = rule
      \/ AddFinalizerAccepted /\ rule' = Append(rule, new)
  BY <1>3 DEF WriteRule, Commit
<1>5. pc' = "idle"
  BY <1>3 DEF WriteRule, GoOn, Returns
<1>6. LogInv(rule')
  <2>1. CASE rule' = rule
    BY <2>1 DEF PinInv
  <2>2. CASE AddFinalizerAccepted /\ rule' = Append(rule, new)
    <3>1. Len(rule) = 1 /\ Live(rule).exists /\ ~Live(rule).deleting
      BY <1>3, <2>2 DEF PinInv, AddsToCached, AddFinalizerAccepted, Current
    <3>2. Live(rule) = rule[1]
      BY <3>1 DEF Live
    <3>3. Holds(new)
      <4>1. /\ Len(new.fins) = Len(rcopy.fins) + 1
            /\ new.fins[Len(rcopy.fins) + 1] = Finalizer
            /\ Len(rcopy.fins) + 1 \in 1..Len(new.fins)
        BY <1>1, <1>2
      <4> QED BY <4>1 DEF Holds, HasFinalizer
    <3>4. Live(rule).uid <= new.uid
      BY <1>0, <1>2 DEF RuleObj
    <3>5. Succeeds(rule, new)
      BY <1>2, <3>1, <3>2, <3>3, <3>4 DEF Succeeds
    <3> QED BY <1>0, <1>2, <2>2, <3>5, AppendKeepsLog DEF PinInv
  <2> QED BY <1>4, <2>1, <2>2
<1> QED BY <1>5, <1>6 DEF PinInv, RemovesFromDeleted, AddsToCached, RulePinned, CMCalls, Calls

\* Every JSON patch of villipRulesMarkedToBeDeleted keeps the invariant.
LEMMA RemoveFinalizersKeepsPin ==
  ASSUME TypeOK, PinInv, removeFinalizers
  PROVE  PinInv'
<1> DEFINE l == Live(rule)
           m == [l EXCEPT !.fins = RemoveAt(@, PatchPosition)]
           ok == IF idx + 1 < nfin THEN "removeFinalizers" ELSE "done"
<1>0. rule \in Seq(RuleObj) /\ rule # <<>> /\ l \in RuleObj /\ idx \in Nat
      /\ l.fins \in Seq(Finalizers)
  <2>1. rule \in Seq(RuleObj) /\ rule # <<>> /\ idx \in Nat
    BY DEF TypeOK
  <2>2. l \in RuleObj
    BY <2>1, LogEnds
  <2> QED BY <2>1, <2>2 DEF RuleObj
<1>1. AllDeleted(rule)
  BY DEF PinInv, RemovesFromDeleted, removeFinalizers
<1>2. Len(rule) \in 1..Len(rule) /\ l = rule[Len(rule)]
  <2>1. Len(rule) \in Nat \ {0}
    BY <1>0, LogEnds
  <2> QED BY <2>1 DEF Live
<1>3. WriteRule(PatchAccepted, Reap(m), ok, "requeue")
  BY DEF removeFinalizers
<1>4. \/ rule' = rule
      \/ PatchAccepted /\ rule' = Append(rule, Reap(m))
  BY <1>3 DEF WriteRule, Commit
<1>5. pc' \in {"removeFinalizers", "idle"}
  BY <1>3 DEF WriteRule, GoOn, Returns
<1>6. LogInv(rule') /\ AllDeleted(rule')
  <2>1. CASE rule' = rule
    BY <1>1, <2>1 DEF PinInv
  <2>2. CASE PatchAccepted /\ rule' = Append(rule, Reap(m))
    <3>1. l.exists /\ PatchPosition \in 1..Len(l.fins)
      BY <1>0, <2>2 DEF PatchAccepted, PatchPosition
    <3>2. /\ m \in RuleObj /\ m.exists = l.exists /\ m.uid = l.uid /\ m.deleting = l.deleting
          /\ m.fins = RemoveAt(l.fins, PatchPosition)
      BY <1>0, <3>1, RemoveAtType DEF RuleObj
    <3> HIDE DEF m, l
    <3>3. Holds(m) => Holds(l)
      <4> SUFFICES ASSUME NEW k \in 1..Len(m.fins), m.fins[k] = Finalizer
                   PROVE  \E i \in 1..Len(l.fins) : l.fins[i] = Finalizer
        BY DEF Holds, HasFinalizer
      <4> DEFINE t == RemoveAt(l.fins, PatchPosition)
      <4>0. \A n \in 1..Len(t) : \E i \in 1..Len(l.fins) : t[n] = l.fins[i]
        BY <1>0, <3>1, RemoveAtEntries
      <4> HIDE DEF t
      <4>1. \E i \in 1..Len(l.fins) : m.fins[k] = l.fins[i]
        BY <3>2, <4>0 DEF t
      <4> QED BY <4>1
    <3>4. \/ Reap(m) = m
          \/ ~Reap(m).exists /\ Reap(m).uid = m.uid /\ ~Holds(Reap(m))
      <4>1. ~Gone(m).exists /\ Gone(m).uid = m.uid /\ Gone(m).fins = <<>>
        BY DEF Gone, NoRule
      <4>2. ~Holds(Gone(m))
        BY <4>1 DEF Holds, HasFinalizer
      <4>3. CASE Removable(m)
        BY <4>1, <4>2, <4>3 DEF Reap
      <4>4. CASE ~Removable(m)
        BY <4>4 DEF Reap
      <4> QED BY <4>3, <4>4
    <3>5. Holds(l) => l.deleting /\ l.exists /\ l.uid = rule[1].uid
      BY <1>1, <1>2 DEF AllDeleted, PinInv, LogInv, HeldByCached
    <3>6. l.uid <= Reap(m).uid /\ Reap(m) \in RuleObj
      <4>1. l.uid \in Nat
        BY <1>0 DEF RuleObj
      <4>2. Reap(m).uid = l.uid
        BY <3>2, <3>4
      <4>3. Reap(m) \in RuleObj
        BY <3>2, ObjectTypes
      <4> QED BY <4>1, <4>2, <4>3
    <3>7. Succeeds(rule, Reap(m))
      BY <1>1, <3>1, <3>2, <3>3, <3>4, <3>5, <3>6 DEF Succeeds, AllDeleted, l
    <3>8. LogInv(rule')
      BY <1>0, <2>2, <3>6, <3>7, AppendKeepsLog DEF PinInv
    <3>9. Holds(Reap(m)) => Reap(m).deleting
      BY <3>2, <3>3, <3>4, <3>5
    <3>10. AllDeleted(rule')
      BY <1>0, <1>1, <2>2, <3>6, <3>9, AppendEntries DEF AllDeleted
    <3> QED BY <3>8, <3>10
  <2> QED BY <1>4, <2>1, <2>2
<1> QED BY <1>5, <1>6 DEF PinInv, RemovesFromDeleted, AddsToCached, RulePinned, CMCalls, Calls

\* Every step of Reconcile keeps the invariant.
LEMMA WorkKeepsPin ==
  ASSUME TypeOK, PinInv, Work
  PROVE  PinInv'
<1>0. /\ rule \in Seq(RuleObj) /\ rule # <<>> /\ rcopy \in RuleObj /\ mcopy \in CMObj
      /\ Len(rule) \in 1..Len(rule) /\ Live(rule) = rule[Len(rule)] /\ Cached(rule) = rule[1]
  <2>1. rule \in Seq(RuleObj) /\ rule # <<>> /\ rcopy \in RuleObj /\ mcopy \in CMObj
    BY DEF TypeOK
  <2>2. Len(rule) \in Nat \ {0} /\ Cached(rule) = rule[1]
    BY <2>1, LogEnds
  <2> QED BY <2>1, <2>2 DEF Live
<1>1. CASE initStatus
  <2>1. [rcopy EXCEPT !.available = "Starting"] \in RuleObj
    BY <1>0 DEF RuleObj, Available
  <2> QED BY <1>1, <2>1, StatusKeepsPin DEF initStatus, Returns
<1>2. CASE refetchDeleted
  <2>1. pc' \in {"removeFinalizers", "idle"} /\ rule' = rule /\ pc = "refetchDeleted"
    BY <1>2 DEF refetchDeleted, GoOn, Returns, objects
  <2> QED BY <2>1 DEF PinInv, RemovesFromDeleted, AddsToCached, RulePinned, CMCalls, Calls
<1>3. CASE getCM
  <2>1. rule' = rule /\ pc = "getCM" /\ (pc' = "idle" \/ (pc' \in CMCalls /\ rcopy' = rcopy))
    <3> DEFINE m == Cached(cm)
               to == CASE ~m.exists -> "createCM"
                       [] m.exists /\ Differs(m, rcopy) -> "updating"
                       [] OTHER -> "requeue"
               mc == [m EXCEPT !.data = Marshal(rcopy.spec)]
    <3>1. to \in CMCalls \cup {"requeue"}
      BY DEF CMCalls, Calls
    <3>2. GoOn(to, rcopy, ruleFresh, mc, Synced(cm)) /\ rule' = rule /\ pc = "getCM"
      BY <1>3 DEF getCM, objects
    <3> HIDE DEF to, mc
    <3>3. CASE to = "requeue"
      BY <3>2, <3>3 DEF GoOn, Returns
    <3>4. CASE to \in CMCalls
      <4>1. to \notin Returns
        BY <3>4 DEF Returns, CMCalls, Calls
      <4> QED BY <3>2, <3>4, <4>1 DEF GoOn
    <3> QED BY <3>1, <3>2, <3>3, <3>4
  <2> QED BY <2>1, CallKeepsPin DEF CMCalls, Calls
<1>4. CASE createCM
  <2>1. rule' = rule /\ pc = "createCM" /\ (pc' = "idle" \/ (pc' \in CMCalls /\ rcopy' = rcopy))
    BY <1>4 DEF createCM, WriteCM, GoOn, Returns, CMCalls, Calls
  <2> QED BY <2>1, CallKeepsPin DEF CMCalls, Calls
<1>5. CASE createFailed
  <2>1. [rcopy EXCEPT !.available = "CreateFailed"] \in RuleObj
    BY <1>0 DEF RuleObj, Available
  <2> QED BY <1>5, <2>1, StatusKeepsPin DEF createFailed, Returns
<1>6. CASE created
  <2>1. sumVillipRulesData(mcopy.data) \in [sha : Texts]
    BY <1>0, ObjectTypes DEF CMObj
  <2>2. [rcopy EXCEPT !.available = "Created",
                      !.lastSum = sumVillipRulesData(mcopy.data)] \in RuleObj
    BY <1>0, <2>1 DEF RuleObj, Available, AvailableTrue
  <2> QED BY <1>6, <2>2, StatusKeepsPin DEF created, Returns
<1>7. CASE updating
  <2>1. [rcopy EXCEPT !.degraded = "Updating"] \in RuleObj
    BY <1>0 DEF RuleObj
  <2> QED BY <1>7, <2>1, StatusKeepsPin DEF updating, Returns, CMCalls, Calls
<1>8. CASE updateCM
  <2>1. rule' = rule /\ pc = "updateCM" /\ (pc' = "idle" \/ (pc' \in CMCalls /\ rcopy' = rcopy))
    BY <1>8 DEF updateCM, WriteCM, GoOn, Returns, CMCalls, Calls
  <2> QED BY <2>1, CallKeepsPin DEF CMCalls, Calls
<1>9. CASE refetch
  <2>1. /\ rule' = rule /\ pc = "refetch"
        /\ (pc' = "idle" \/ (pc' = "updateFailed" /\ rcopy' = rule[1]))
    <3>1. /\ rule' = rule /\ pc = "refetch"
          /\ GoOn(IF rule[1].exists THEN "updateFailed" ELSE "requeue",
                  rule[1], Synced(rule), mcopy, cmFresh)
      BY <1>0, <1>9 DEF refetch, objects
    <3>2. CASE rule[1].exists
      BY <3>1, <3>2 DEF GoOn, Returns
    <3>3. CASE ~rule[1].exists
      BY <3>1, <3>3 DEF GoOn, Returns
    <3> QED BY <3>2, <3>3
  <2>2. Live(rule).exists /\ Holds(Live(rule))
    BY <2>1 DEF PinInv, RulePinned, Holds, CMCalls, Calls
  <2>3. Live(rule).uid = rule[1].uid
    BY <1>0, <2>2 DEF PinInv, LogInv, HeldByCached
  <2> QED BY <2>1, <2>2, <2>3
          DEF PinInv, RemovesFromDeleted, AddsToCached, RulePinned, CMCalls, Calls, Holds
<1>10. CASE updateFailed
  <2>1. [rcopy EXCEPT !.available = "UpdateFailed"] \in RuleObj
    BY <1>0 DEF RuleObj, Available
  <2> QED BY <1>10, <2>1, StatusKeepsPin DEF updateFailed, Returns, CMCalls, Calls
<1>11. CASE updated
  <2>1. sumVillipRulesData(mcopy.data) \in [sha : Texts]
    BY <1>0, ObjectTypes DEF CMObj
  <2>2. [rcopy EXCEPT !.available = "Updated",
                      !.lastSum = sumVillipRulesData(mcopy.data)] \in RuleObj
    BY <1>0, <2>1 DEF RuleObj, Available, AvailableTrue
  <2> QED BY <1>11, <2>2, StatusKeepsPin DEF updated, Returns, CMCalls, Calls
<1>12. CASE listDeployments
  BY <1>12, CallKeepsPin DEF listDeployments, objects, CMCalls, Calls
<1>13. ASSUME NEW p \in Deps, rolloutOne(p)
       PROVE  PinInv'
  BY <1>13, CallKeepsPin DEF rolloutOne, CMCalls, Calls
<1>14. CASE rolloutDone
  <2>1. rule' = rule /\ pc = "rollout" /\ pc' = "idle"
    BY <1>14 DEF rolloutDone, GoOn, Returns, objects
  <2> QED BY <2>1, CallKeepsPin DEF CMCalls, Calls
<1> QED BY <1>1, <1>2, <1>3, <1>4, <1>5, <1>6, <1>7, <1>8, <1>9, <1>10, <1>11, <1>12,
           <1>13, <1>14, ReconcileKeepsPin, AddFinalizerKeepsPin,
           RemoveFinalizersKeepsPin DEF Work

\* Whatever users do keeps the invariant.
LEMMA UsersKeepPin ==
  ASSUME TypeOK, PinInv, Users
  PROVE  PinInv'
<1> DEFINE l == Live(rule)
<1>0. l \in RuleObj /\ l.uid \in Nat /\ l.spec \in Nat /\ l.fins \in Seq(Finalizers)
      /\ (Holds(l) => l.exists)
  <2>1. rule \in Seq(RuleObj) /\ rule # <<>>
    BY DEF TypeOK
  <2>2. l \in RuleObj /\ Len(rule) \in Nat \ {0}
    BY <2>1, LogEnds
  <2>3. Holds(l) => l.exists
    BY <2>2 DEF PinInv, LogInv, HeldByCached, Live
  <2> QED BY <2>2, <2>3 DEF RuleObj
<1>1. ASSUME NEW STATE o, o \in RuleObj, Continues(l, o), NEW op, UserRule(op, o)
      PROVE  PinInv'
  BY <1>1, OtherWriteKeepsPin DEF UserRule, locals
<1>2. CASE EditRule
  <2> DEFINE o == [l EXCEPT !.spec = @ + 1]
  <2>1. /\ o \in RuleObj /\ o.exists = l.exists /\ o.uid = l.uid /\ o.fins = l.fins
        /\ o.deleting = l.deleting
    BY <1>0 DEF RuleObj
  <2>2. l.exists /\ UserRule("edit", o)
    BY <1>2 DEF EditRule
  <2> HIDE DEF o, l
  <2>3. Continues(l, o)
    BY <1>0, <2>1, <2>2, SameContinues DEF Holds, HasFinalizer
  <2> QED BY <1>1, <2>1, <2>2, <2>3
<1>3. CASE RelabelRule
  <2>1. PICK labels \in (SUBSET Labels) \ {l.labels} :
          UserRule("relabel", [l EXCEPT !.labels = labels])
    BY <1>3 DEF RelabelRule
  <2> DEFINE o == [l EXCEPT !.labels = labels]
  <2>2. /\ o \in RuleObj /\ o.exists = l.exists /\ o.uid = l.uid /\ o.fins = l.fins
        /\ o.deleting = l.deleting
    BY <1>0 DEF RuleObj
  <2>3. l.exists /\ UserRule("relabel", o)
    BY <1>3, <2>1 DEF RelabelRule
  <2> HIDE DEF o, l
  <2>4. Continues(l, o)
    BY <1>0, <2>2, <2>3, SameContinues DEF Holds, HasFinalizer
  <2> QED BY <1>1, <2>2, <2>3, <2>4
<1>4. CASE DeleteRule
  <2>1. ASSUME NEW b \in BOOLEAN, NEW op, UserRule(op, Reap(Marked(l, b)))
        PROVE  PinInv'
    <3> DEFINE o == Marked(l, b)
    <3>1. o \in RuleObj /\ Reap(o) \in RuleObj
      BY <1>0, ObjectTypes
    <3>2. /\ o.exists = l.exists /\ o.uid = l.uid /\ o.deleting
          /\ o.fins = IF b THEN Append(l.fins, Foreground) ELSE l.fins
      BY <1>0 DEF Marked, RuleObj
    <3>3. l.exists
      BY <1>4 DEF DeleteRule
    <3> HIDE DEF o, l
    <3>4. Holds(o) <=> Holds(l)
      <4>1. CASE b
        <5>1. /\ Len(o.fins) = Len(l.fins) + 1 /\ Len(l.fins) \in Nat
              /\ o.fins[Len(l.fins) + 1] # Finalizer
              /\ \A k \in 1..Len(l.fins) : o.fins[k] = l.fins[k]
          BY <1>0, <3>2, <4>1 DEF Finalizer, Foreground
        <5> QED BY <5>1 DEF Holds, HasFinalizer
      <4>2. CASE ~b
        BY <3>2, <4>2 DEF Holds, HasFinalizer
      <4> QED BY <4>1, <4>2
    <3>5. Continues(l, Reap(o))
      BY <1>0, <3>1, <3>2, <3>3, <3>4, ReapContinues
    <3>6. UserRule(op, Reap(o))
      BY <2>1 DEF o
    <3> QED BY <1>1, <3>1, <3>5, <3>6
  <2> QED BY <1>4, <2>1 DEF DeleteRule
<1>5. CASE CreateRule
  <2>1. PICK labels \in SUBSET Labels : UserRule("create", NewRule(l, labels))
    BY <1>5 DEF CreateRule
  <2>2. NewRule(l, labels) \in RuleObj /\ ~l.exists
    BY <1>0, <1>5, ObjectTypes DEF CreateRule
  <2> HIDE DEF l
  <2>3. NewRule(l, labels).uid = l.uid + 1 /\ NewRule(l, labels).fins = <<>>
    BY DEF NewRule, NoRule
  <2>4. ~Holds(NewRule(l, labels))
    BY <2>3 DEF Holds, HasFinalizer
  <2>5. Continues(l, NewRule(l, labels))
    BY <1>0, <2>2, <2>3, <2>4 DEF Continues
  <2> QED BY <1>1, <2>1, <2>2, <2>5
<1>6. CASE EditCM \/ DeleteCM \/ CreateCM
  <2>1. UNCHANGED <<rule, ruleFresh, pc, rcopy>>
    BY <1>6 DEF EditCM, DeleteCM, CreateCM, UserCM, locals
  <2> QED BY <2>1 DEF PinInv, RemovesFromDeleted, AddsToCached, RulePinned
<1> QED BY <1>2, <1>3, <1>4, <1>5, <1>6 DEF Users

\* Events, timers, garbage collection and restarts keep the invariant.
LEMMA EnvironmentKeepsPin ==
  ASSUME TypeOK, PinInv, Environment \/ Restart
  PROVE  PinInv'
<1>0. rule \in Seq(RuleObj) /\ rule # <<>> /\ Live(rule) \in RuleObj
  BY LogEnds DEF TypeOK
<1>1. CASE DeliverRule
  <2>1. Len(rule) >= 2 /\ rule' = Tail(rule) /\ UNCHANGED <<ruleFresh, pc, rcopy>>
    BY <1>0, <1>1, LogDelivers DEF DeliverRule, Synced, Catchup, fresh, locals
  <2>2. LogInv(rule') /\ Live(rule') = Live(rule)
    BY <1>0, <2>1, TailKeepsLog, TailEntries DEF PinInv
  <2>3. AllDeleted(rule) => AllDeleted(rule')
    BY <1>0, <2>1, TailEntries DEF AllDeleted
  <2>4. RemovesFromDeleted'
    BY <2>1, <2>3 DEF PinInv, RemovesFromDeleted
  <2>5. AddsToCached'
    <3>1. ~(Len(rule) = 1)
      BY <1>0, <2>1
    <3> QED BY <2>1, <3>1 DEF PinInv, AddsToCached
  <2>6. RulePinned'
    BY <2>1, <2>2 DEF PinInv, RulePinned
  <2> QED BY <2>2, <2>4, <2>5, <2>6 DEF PinInv
<1>2. CASE GCRule
  <2> DEFINE l == Live(rule)
  <2>1. PICK i \in 1..Len(l.fins) :
          /\ l.fins[i] = Foreground
          /\ rule' = Append(rule, Reap([l EXCEPT !.fins = RemoveAt(@, i)]))
    BY <1>2 DEF GCRule
  <2> DEFINE o == [l EXCEPT !.fins = RemoveAt(@, i)]
  <2>2. l.fins \in Seq(Finalizers)
    BY <1>0 DEF RuleObj
  <2>3. RemoveAt(l.fins, i) \in Seq(Finalizers)
    BY <2>2, RemoveAtType
  <2>4. /\ o \in RuleObj /\ o.exists = l.exists /\ o.uid = l.uid /\ o.deleting = l.deleting
        /\ o.fins = RemoveAt(l.fins, i)
    BY <1>0, <2>3 DEF RuleObj
  <2>5. Reap(o) \in RuleObj
    BY <2>4, ObjectTypes
  <2>6. rule' = Append(rule, Reap(o)) /\ ruleFresh' = FALSE /\ UNCHANGED <<pc, rcopy>>
    BY <1>2, <2>1 DEF GCRule, locals
  <2>7. l.exists
    BY <1>2 DEF GCRule
  <2> HIDE DEF o
  <2>8. Holds(o) <=> Holds(l)
    <3> DEFINE f == l.fins
               t == RemoveAt(f, i)
    <3>1. /\ \A k \in 1..Len(t) : \E m \in 1..Len(f) : t[k] = f[m]
          /\ \A m \in 1..Len(f) : m # i => \E k \in 1..Len(t) : t[k] = f[m]
      BY <2>1, <2>2, RemoveAtEntries
    <3>2. f[i] # Finalizer /\ o.fins = t
      BY <2>1, <2>4 DEF Finalizer, Foreground
    <3> HIDE DEF t
    <3>3. ASSUME Holds(o) PROVE Holds(l)
      <4>1. PICK k \in 1..Len(t) : t[k] = Finalizer
        BY <3>2, <3>3 DEF Holds, HasFinalizer
      <4>2. PICK m \in 1..Len(f) : t[k] = f[m]
        BY <3>1, <4>1
      <4> QED BY <4>1, <4>2 DEF Holds, HasFinalizer
    <3>4. ASSUME Holds(l) PROVE Holds(o)
      <4>1. PICK m \in 1..Len(f) : f[m] = Finalizer
        BY <3>4 DEF Holds, HasFinalizer
      <4>2. PICK k \in 1..Len(t) : t[k] = f[m]
        BY <3>1, <3>2, <4>1
      <4> QED BY <3>2, <4>1, <4>2 DEF Holds, HasFinalizer
    <3> QED BY <3>3, <3>4
  <2>9. Continues(l, Reap(o))
    BY <1>0, <2>4, <2>7, <2>8, ReapContinues
  <2> QED BY <2>5, <2>6, <2>9, OtherWriteKeepsPin
<1>3. CASE Restart
  <2>1. rule' = Relist(rule) /\ pc' = "idle"
    BY <1>3 DEF Restart
  <2>2. LogInv(rule')
    BY <1>0, <2>1, RelistKeepsLog DEF PinInv
  <2> QED BY <2>1, <2>2 DEF PinInv, RemovesFromDeleted, AddsToCached, RulePinned, CMCalls, Calls
<1>4. CASE \/ DeliverCM \/ TimerFires \/ GCConfigMap
           \/ \E p \in Deps : DeliverDep(p) \/ DepTouched(p) \/ ProxyMounts(p) \/ PodsStart(p)
  <2>1. UNCHANGED <<rule, ruleFresh, pc, rcopy>>
    BY <1>4 DEF DeliverCM, TimerFires, GCConfigMap, DeliverDep, DepTouched, ProxyMounts,
                PodsStart, objects, fresh, locals
  <2> QED BY <2>1 DEF PinInv, RemovesFromDeleted, AddsToCached, RulePinned
<1> QED BY <1>1, <1>2, <1>3, <1>4 DEF Environment

\* The strengthening of RulePinned holds throughout.
LEMMA PinInvariant == Spec => []PinInv
<1>1. Init => PinInv
  <2> SUFFICES ASSUME Init PROVE PinInv
    OBVIOUS
  <2>1. rule = <<NoRule, NewRule(NoRule, {})>> /\ pc = "idle"
    BY DEF Init
  <2>2. /\ NoRule.uid = 0 /\ NoRule.fins = <<>> /\ ~NoRule.deleting
        /\ NewRule(NoRule, {}).uid = 1 /\ NewRule(NoRule, {}).fins = <<>>
        /\ ~NewRule(NoRule, {}).deleting
    BY DEF NewRule, NoRule
  <2>3. ~Holds(NoRule) /\ ~Holds(NewRule(NoRule, {}))
    BY <2>2 DEF Holds, HasFinalizer
  <2>4. /\ Len(rule) = 2 /\ rule[1] = NoRule /\ rule[2] = NewRule(NoRule, {})
        /\ \A k \in 1..Len(rule) : k = 1 \/ k = 2
    BY <2>1
  <2>5. LogInv(rule)
    BY <2>2, <2>3, <2>4
       DEF LogInv, UidsGrow, HeldByCached, DeletionSticks, HeldStaysHeld
  <2> QED BY <2>1, <2>5
          DEF PinInv, RemovesFromDeleted, AddsToCached, RulePinned, CMCalls, Calls
<1>2. TypeOK /\ PinInv /\ [Next]_vars => PinInv'
  <2> SUFFICES ASSUME TypeOK, PinInv, [Next]_vars PROVE PinInv'
    OBVIOUS
  <2>1. CASE Next
    BY <2>1, WorkKeepsPin, UsersKeepPin, EnvironmentKeepsPin DEF Next
  <2>2. CASE UNCHANGED vars
    BY <2>2 DEF vars, objects, fresh, locals, PinInv, RemovesFromDeleted, AddsToCached, RulePinned
  <2> QED BY <2>1, <2>2
<1> QED BY <1>1, <1>2, TypeCorrect, PTL DEF Spec

\* Whatever users, the garbage collector, the watch streams and restarts do,
\* the rule that Reconcile works for past the finalizer check is stored, in
\* the incarnation Reconcile read, and held by the finalizer.
THEOREM RuleStaysPinned == Spec => []RulePinned
<1>1. PinInv => RulePinned
  BY DEF PinInv
<1> QED BY <1>1, PinInvariant, PTL
==============================================================================
