----------------------------- MODULE VillipRules -----------------------------
(***************************************************************************)
(* The VillipRules reconciler: it keeps one ConfigMap, named after the     *)
(* rule, equal to the YAML text of the rule's spec, and restarts the       *)
(* Deployments that mount it when it changes.                              *)
(*                                                                         *)
(* The module models one rule (a key of the work queue) and the single     *)
(* worker of its controller.  Every read of the cache and every call to    *)
(* the API server is a step, so users, the garbage collector, the watch    *)
(* streams, other writers of the Deployments and a restart of the manager  *)
(* interleave with Reconcile at each of its calls.                         *)
(***************************************************************************)
EXTENDS KubeApi

CONSTANTS
  Deps,        \* the Deployments of the namespace
  Labels,      \* the labels a rule can carry
  UserOps,     \* the operations users perform in this instance
  MaxEdits,    \* bound: operations of users
  MaxTouches,  \* bound: writes of other controllers to Deployments
  MaxFaults,   \* bound: failed calls and restarts of the manager
  MaxLag       \* bound: versions the cache may lag behind the garbage collector

AllUserOps == {"edit", "relabel", "delete", "foreground", "create",
               "editCM", "deleteCM", "createCM"}

ASSUME BoundsAssumption == MaxEdits \in Nat /\ MaxTouches \in Nat
                           /\ MaxFaults \in Nat /\ MaxLag \in Nat \ {0}
ASSUME UserOpsAssumption == UserOps \subseteq AllUserOps

VARIABLES
  rule, cm, dep,               \* object logs; dep is one per Deployment
  ruleFresh, cmFresh,          \* does the copy carry the stored resourceVersion?
  depFresh,                    \* the Deployments whose listed copy does
  pc, rcopy, mcopy,            \* Reconcile: its next call, `rule` and `found`
  nfin, idx,                   \* the loop that removes the finalizers
  todo, listed,                \* the loop over the listed Deployments
  queued, timer,               \* the work queue: key due; key due later
  pods,                        \* what the pods of each Deployment have loaded
  edits, touches, faults       \* how much of the bounds is used

objects == <<rule, cm, dep>>
fresh   == <<ruleFresh, cmFresh, depFresh>>
locals  == <<pc, rcopy, mcopy, nfin, idx, todo, listed>>
queue   == <<queued, timer>>
bounds  == <<edits, touches, faults>>
vars    == <<objects, fresh, locals, queue, pods, bounds>>

(***************************************************************************)
(* Objects.  A condition is identified by the message it is set with:      *)
(* Available is Unknown when "Starting", True when "Created" or "Updated"  *)
(* and False when "CreateFailed" or "UpdateFailed"; Degraded is False when *)
(* "Updating".  spec counts the edits of the spec, so every edit is a new  *)
(* content and contents are ordered by age.                                *)
(***************************************************************************)
Marshal(spec) == [text |-> spec]     \* yaml.Marshal

sumVillipRulesData(data) == [sha |-> data]

NoText == [text |-> 0]               \* any text that is no rule's YAML

NoSum == sumVillipRulesData(NoText)  \* LastSum of a rule never stored

AvailableTrue == {"Created", "Updated"}

Available == AvailableTrue \cup {"None", "Starting", "CreateFailed", "UpdateFailed"}

Texts == [text : Nat]

RuleObj ==
  [exists : BOOLEAN, uid : Nat, spec : Nat, labels : SUBSET Labels,
   fins : Seq(Finalizers), deleting : BOOLEAN,
   available : Available, degraded : {"None", "Updating"}, lastSum : [sha : Texts]]

NoRule ==
  [exists |-> FALSE, uid |-> 0, spec |-> 0, labels |-> {},
   fins |-> <<>>, deleting |-> FALSE,
   available |-> "None", degraded |-> "None", lastSum |-> NoSum]

\* owner is the uid of the owning rule, 0 for a ConfigMap made by hand.
CMObj == [exists : BOOLEAN, owner : Nat, labels : SUBSET Labels, data : Texts]

NoCM == [exists |-> FALSE, owner |-> 0, labels |-> {}, data |-> NoText]

\* Of a Deployment: does annotation villip.carmier.fr/conf name this rule?
DepObj == [conf : BOOLEAN]

\* The rule is gone from the API server; its counters outlive it.
Gone(r) == [NoRule EXCEPT !.uid = r.uid, !.spec = r.spec]

Reap(r) == IF Removable(r) THEN Gone(r) ELSE r

NewRule(r, labels) ==
  [NoRule EXCEPT !.exists = TRUE, !.uid = r.uid + 1, !.spec = r.spec + 1, !.labels = labels]

Calls == {"initStatus", "addFinalizer", "refetchDeleted", "removeFinalizers",
          "getCM", "createCM", "createFailed", "created", "updating", "updateCM",
          "refetch", "updateFailed", "updated", "listDeployments", "rollout"}

\* One type invariant for every variable.
TypeOK ==
  /\ rule \in Seq(RuleObj) /\ rule # <<>>
  /\ cm \in Seq(CMObj) /\ cm # <<>>
  /\ dep \in [Deps -> Seq(DepObj)] /\ \A p \in Deps : dep[p] # <<>>
  /\ ruleFresh \in BOOLEAN /\ cmFresh \in BOOLEAN
  /\ depFresh \in SUBSET Deps
  /\ pc \in Calls \cup {"idle"}
  /\ rcopy \in RuleObj /\ mcopy \in CMObj
  /\ nfin \in Nat /\ idx \in Nat
  /\ todo \in SUBSET Deps /\ listed \in [Deps -> DepObj]
  /\ queued \in BOOLEAN /\ timer \in BOOLEAN
  /\ pods \in [Deps -> [rolling : BOOLEAN, loaded : Texts]]
  /\ edits \in 0..MaxEdits /\ touches \in 0..MaxTouches /\ faults \in 0..MaxFaults

NotListed == [p \in Deps |-> [conf |-> FALSE]]

\* A rule was just applied; its ADDED event is on its way to the informer.
Init ==
  /\ rule = <<NoRule, NewRule(NoRule, {})>>
  /\ cm = <<NoCM>>
  /\ \E uses \in [Deps -> BOOLEAN] : dep = [p \in Deps |-> <<[conf |-> uses[p]]>>]
  /\ ruleFresh = FALSE /\ cmFresh = FALSE /\ depFresh = {}
  /\ pc = "idle" /\ rcopy = NoRule /\ mcopy = NoCM /\ nfin = 0 /\ idx = 0
  /\ todo = {} /\ listed = NotListed
  /\ queued = FALSE /\ timer = FALSE
  /\ pods = [p \in Deps |-> [rolling |-> TRUE, loaded |-> NoText]]
  /\ edits = 0 /\ touches = 0 /\ faults = 0

------------------------------------------------------------------------------
(***************************************************************************)
(* How Reconcile goes on after a call.  "done" is Result{} with a nil      *)
(* error; "requeue" is an error (rate-limited retry) or RequeueAfter, both *)
(* of which bring the key back later.  Locals die when Reconcile returns.  *)
(***************************************************************************)
Returns == {"done", "requeue"}

GoOn(to, rc, rfresh, mc, mfresh) ==
  LET returns == to \in Returns IN
  /\ pc' = IF returns THEN "idle" ELSE to
  /\ timer' = (timer \/ to = "requeue")
  /\ rcopy' = IF returns THEN NoRule ELSE rc
  /\ ruleFresh' = (rfresh /\ ~returns)
  /\ mcopy' = IF returns THEN NoCM ELSE mc
  /\ cmFresh' = (mfresh /\ ~returns)

(***************************************************************************)
(* A write of the rule: the API server accepts it when `accepts` holds and *)
(* then stores `new`, which also lands in Reconcile's copy.  A call may    *)
(* also fail on the way there (nothing stored) or on the way back (stored, *)
(* but Reconcile sees an error).                                           *)
(***************************************************************************)
WriteRule(accepts, new, ok, err) ==
  /\ \/ /\ accepts
        /\ rule' = Commit(rule, new)
        /\ GoOn(ok, new, TRUE, mcopy, cmFresh)
        /\ UNCHANGED faults
     \/ /\ ~accepts
        /\ GoOn(err, rcopy, ruleFresh, mcopy, cmFresh)
        /\ UNCHANGED <<rule, faults>>
     \/ /\ faults < MaxFaults
        /\ faults' = faults + 1
        /\ rule' \in IF accepts THEN {rule, Commit(rule, new)} ELSE {rule}
        /\ GoOn(err, rcopy, ruleFresh /\ rule' = rule, mcopy, cmFresh)
  /\ UNCHANGED <<cm, dep, depFresh, todo, listed, queued, pods, edits, touches>>

\* The stored version is the one Reconcile read: no conflict, no NotFound.
Current == ruleFresh /\ Live(rule).exists

\* Status().Update stores the status of the copy only.
WriteStatus(copy, ok, err) ==
  /\ WriteRule(Current,
               [Live(rule) EXCEPT !.available = copy.available,
                                  !.degraded = copy.degraded,
                                  !.lastSum = copy.lastSum],
               ok, err)
  /\ UNCHANGED <<nfin, idx>>

------------------------------------------------------------------------------
(***************************************************************************)
(* Reconcile, up to the lookup of the ConfigMap.                           *)
(***************************************************************************)
NoConditions(r) == r.available = "None" /\ r.degraded = "None"

\* Mutant of Branch: no check for the finalizer.
BranchWithoutFinalizer(r) ==
  CASE ~r.exists -> "idle"
    [] r.exists /\ NoConditions(r) -> "initStatus"
    [] r.exists /\ ~NoConditions(r) /\ r.deleting -> "refetchDeleted"
    [] OTHER -> "getCM"

\* The chain of early returns at the top of Reconcile.
Branch(r) ==
  CASE ~r.exists -> "idle"
    [] r.exists /\ NoConditions(r) -> "initStatus"
    [] r.exists /\ ~NoConditions(r) /\ ~HasFinalizer(r, Finalizer) -> "addFinalizer"
    [] r.exists /\ ~NoConditions(r) /\ HasFinalizer(r, Finalizer) /\ r.deleting
         -> "refetchDeleted"
    [] OTHER -> "getCM"

Reconcile ==
  /\ pc = "idle" /\ queued
  /\ queued' = FALSE
  /\ pc' = Branch(Cached(rule))
  /\ rcopy' = IF Cached(rule).exists THEN Cached(rule) ELSE NoRule
  /\ ruleFresh' = (Synced(rule) /\ Cached(rule).exists)
  /\ UNCHANGED <<objects, cmFresh, depFresh, mcopy, nfin, idx, todo, listed,
                 timer, pods, bounds>>

initStatus ==
  /\ pc = "initStatus"
  /\ WriteStatus([rcopy EXCEPT !.available = "Starting"], "requeue", "requeue")

\* Mutant of AddFinalizerAccepted: an Update that carries no resourceVersion.
AddFinalizerUnconditional == Live(rule).exists /\ ~Live(rule).deleting

\* The API server refuses new finalizers on an object marked for deletion.
AddFinalizerAccepted == Current /\ ~Live(rule).deleting

\* Update stores spec and metadata of the copy.
addFinalizer ==
  /\ pc = "addFinalizer"
  /\ WriteRule(AddFinalizerAccepted,
               [Live(rule) EXCEPT !.spec = rcopy.spec, !.labels = rcopy.labels,
                                  !.fins = Append(rcopy.fins, Finalizer)],
               "requeue", "requeue")
  /\ UNCHANGED <<nfin, idx>>

\* villipRulesMarkedToBeDeleted: the re-fetch, then one patch per finalizer
\* of the re-fetched copy, each removing the next index.
refetchDeleted ==
  /\ pc = "refetchDeleted"
  /\ IF Cached(rule).exists /\ Cached(rule).fins # <<>>
     THEN /\ GoOn("removeFinalizers", Cached(rule), Synced(rule), mcopy, cmFresh)
          /\ nfin' = Len(Cached(rule).fins) /\ idx' = 0
     ELSE /\ GoOn(IF Cached(rule).exists THEN "done" ELSE "requeue",
                  rcopy, ruleFresh, mcopy, cmFresh)
          /\ UNCHANGED <<nfin, idx>>
  /\ UNCHANGED <<objects, depFresh, todo, listed, queued, pods, bounds>>

\* Mutant of PatchPosition: the patch counts from 1.
PatchPositionFromOne == idx + 2

\* /metadata/finalizers/<idx> counts from 0, sequences from 1.
PatchPosition == idx + 1

PatchAccepted == Live(rule).exists /\ PatchPosition <= Len(Live(rule).fins)

\* A JSON patch carries no resourceVersion: it applies to whatever is stored.
removeFinalizers ==
  /\ pc = "removeFinalizers"
  /\ WriteRule(PatchAccepted,
               Reap([Live(rule) EXCEPT !.fins = RemoveAt(@, PatchPosition)]),
               IF idx + 1 < nfin THEN "removeFinalizers" ELSE "done", "requeue")
  /\ idx' = IF pc' = "removeFinalizers" THEN idx + 1 ELSE 0
  /\ nfin' = IF pc' = "removeFinalizers" THEN nfin ELSE 0

------------------------------------------------------------------------------
(***************************************************************************)
(* Reconcile, from the lookup of the ConfigMap on.                         *)
(***************************************************************************)
\* Mutant of Differs: trust LastSum instead of the ConfigMap.
DiffersFromLastSum(m, r) == r.lastSum # sumVillipRulesData(Marshal(r.spec))

\* Mutant of Differs: a ConfigMap that the operator did not create is left alone.
DiffersIfOwned(m, r) ==
  m.owner # 0 /\ sumVillipRulesData(m.data) # sumVillipRulesData(Marshal(r.spec))

\* Mutant of Differs: the text itself is compared with the checksum.
DiffersFromText(m, r) == m.data # sumVillipRulesData(Marshal(r.spec))

Differs(m, r) == sumVillipRulesData(m.data) # sumVillipRulesData(Marshal(r.spec))

getCM ==
  /\ pc = "getCM"
  /\ LET m == Cached(cm)
         to == CASE ~m.exists -> "createCM"
                 [] m.exists /\ Differs(m, rcopy) -> "updating"
                 [] OTHER -> "requeue"
     IN  GoOn(to, rcopy, ruleFresh, [m EXCEPT !.data = Marshal(rcopy.spec)], Synced(cm))
  /\ UNCHANGED <<objects, depFresh, nfin, idx, todo, listed, queued, pods, bounds>>

\* Mutant of configMapForVillipRule: the owner is set after Create only.
configMapWithoutOwner(r) ==
  [exists |-> TRUE, owner |-> 0, labels |-> r.labels, data |-> Marshal(r.spec)]

\* Mutant of configMapForVillipRule: the checksum is stored for the text.
configMapOfSum(r) ==
  [exists |-> TRUE, owner |-> r.uid, labels |-> r.labels,
   data |-> sumVillipRulesData(Marshal(r.spec))]

configMapForVillipRule(r) ==
  [exists |-> TRUE, owner |-> r.uid, labels |-> r.labels, data |-> Marshal(r.spec)]

\* A write of the ConfigMap, with the outcomes of WriteRule.
WriteCM(accepts, new, ok, err) ==
  /\ \/ /\ accepts
        /\ cm' = Commit(cm, new)
        /\ GoOn(ok, rcopy, ruleFresh, new, TRUE)
        /\ UNCHANGED faults
     \/ /\ ~accepts
        /\ GoOn(err, rcopy, ruleFresh, mcopy, cmFresh)
        /\ UNCHANGED <<cm, faults>>
     \/ /\ faults < MaxFaults
        /\ faults' = faults + 1
        /\ cm' \in IF accepts THEN {cm, Commit(cm, new)} ELSE {cm}
        /\ GoOn(err, rcopy, ruleFresh, mcopy, cmFresh /\ cm' = cm)
  /\ UNCHANGED <<rule, dep, depFresh, nfin, idx, todo, listed, queued, pods, edits, touches>>

createCM ==
  /\ pc = "createCM"
  /\ WriteCM(~Live(cm).exists, configMapForVillipRule(rcopy), "created", "createFailed")

createFailed ==
  /\ pc = "createFailed"
  /\ WriteStatus([rcopy EXCEPT !.available = "CreateFailed"], "requeue", "requeue")

created ==
  /\ pc = "created"
  /\ WriteStatus([rcopy EXCEPT !.available = "Created",
                               !.lastSum = sumVillipRulesData(mcopy.data)],
                 "done", "requeue")

\* updateConfigMap, call by call.
updating ==
  /\ pc = "updating"
  /\ WriteStatus([rcopy EXCEPT !.degraded = "Updating"], "updateCM", "requeue")

\* Mutant of UpdateCMAccepted: an Update that carries no resourceVersion.
UpdateCMUnconditional == Live(cm).exists

UpdateCMAccepted == cmFresh /\ Live(cm).exists

updateCM ==
  /\ pc = "updateCM"
  /\ WriteCM(UpdateCMAccepted, mcopy, "updated", "refetch")

refetch ==
  /\ pc = "refetch"
  /\ GoOn(IF Cached(rule).exists THEN "updateFailed" ELSE "requeue",
          Cached(rule), Synced(rule), mcopy, cmFresh)
  /\ UNCHANGED <<objects, depFresh, nfin, idx, todo, listed, queued, pods, bounds>>

\* There is no return after this status: the success path below follows it.
updateFailed ==
  /\ pc = "updateFailed"
  /\ WriteStatus([rcopy EXCEPT !.available = "UpdateFailed"], "updated", "requeue")

updated ==
  /\ pc = "updated"
  /\ WriteStatus([rcopy EXCEPT !.available = "Updated",
                               !.lastSum = sumVillipRulesData(mcopy.data)],
                 "listDeployments", "requeue")

\* rolloutDependentProxies: the list comes from the cache at one instant (the
\* cache ignores the raw label selector), the updates follow one by one.
listDeployments ==
  /\ pc = "listDeployments"
  /\ listed' = [p \in Deps |-> Cached(dep[p])]
  /\ todo' = {p \in Deps : Cached(dep[p]).conf}
  /\ depFresh' = {p \in Deps : Synced(dep[p])}
  /\ pc' = "rollout"
  /\ UNCHANGED <<objects, ruleFresh, cmFresh, rcopy, mcopy, nfin, idx, queue, pods, bounds>>

\* Mutant of RolloutAccepted: an Update that carries no resourceVersion.
RolloutUnconditional(p) == TRUE

\* Update stores the listed copy with a new time stamp on the pod template,
\* which restarts the pods.  A failed Update is logged and forgotten.
RolloutAccepted(p) == p \in depFresh

rolloutOne(p) ==
  /\ pc = "rollout" /\ p \in todo
  /\ \/ /\ RolloutAccepted(p)
        /\ dep' = [dep EXCEPT ![p] = Append(@, listed[p])]
        /\ pods' = [pods EXCEPT ![p].rolling = TRUE]
        /\ UNCHANGED faults
     \/ /\ ~RolloutAccepted(p)
        /\ UNCHANGED <<dep, pods, faults>>
     \/ /\ faults < MaxFaults
        /\ faults' = faults + 1
        /\ UNCHANGED <<dep, pods>>
  /\ todo' = todo \ {p}
  /\ depFresh' = depFresh \ {p}
  /\ UNCHANGED <<rule, cm, ruleFresh, cmFresh, pc, rcopy, mcopy, nfin, idx, listed,
                 queue, edits, touches>>

rolloutDone ==
  /\ pc = "rollout" /\ todo = {}
  /\ GoOn("requeue", rcopy, ruleFresh, mcopy, cmFresh)
  /\ listed' = NotListed /\ depFresh' = {}
  /\ UNCHANGED <<objects, nfin, idx, todo, queued, pods, bounds>>

Work ==
  \/ Reconcile \/ initStatus \/ addFinalizer \/ refetchDeleted \/ removeFinalizers
  \/ getCM \/ createCM \/ createFailed \/ created
  \/ updating \/ updateCM \/ refetch \/ updateFailed \/ updated
  \/ listDeployments \/ (\E p \in Deps : rolloutOne(p)) \/ rolloutDone

------------------------------------------------------------------------------
(***************************************************************************)
(* SetupWithManager: events of the rule, and of ConfigMaps a rule owns,    *)
(* queue the key.  Deployments are read through the cache but not watched. *)
(***************************************************************************)
DeliverRule ==
  /\ ~Synced(rule)
  /\ rule' = Catchup(rule)
  /\ queued' = TRUE
  /\ UNCHANGED <<cm, dep, fresh, locals, timer, pods, bounds>>

Owned(m) == m.exists /\ m.owner # 0

DeliverCM ==
  /\ ~Synced(cm)
  /\ cm' = Catchup(cm)
  /\ queued' = (queued \/ Owned(cm[1]) \/ Owned(cm[2]))
  /\ UNCHANGED <<rule, dep, fresh, locals, timer, pods, bounds>>

DeliverDep(p) ==
  /\ ~Synced(dep[p])
  /\ dep' = [dep EXCEPT ![p] = Catchup(@)]
  /\ UNCHANGED <<rule, cm, fresh, locals, queue, pods, bounds>>

TimerFires ==
  /\ timer
  /\ timer' = FALSE /\ queued' = TRUE
  /\ UNCHANGED <<objects, fresh, locals, pods, bounds>>

(***************************************************************************)
(* The manager is killed and started again: what Reconcile had in hand is  *)
(* lost, the caches are listed anew, every listed object queues its key.   *)
(***************************************************************************)
Restart ==
  /\ faults < MaxFaults /\ faults' = faults + 1
  /\ rule' = Relist(rule) /\ cm' = Relist(cm)
  /\ dep' = [p \in Deps |-> Relist(dep[p])]
  /\ ruleFresh' = FALSE /\ cmFresh' = FALSE /\ depFresh' = {}
  /\ pc' = "idle" /\ rcopy' = NoRule /\ mcopy' = NoCM /\ nfin' = 0 /\ idx' = 0
  /\ todo' = {} /\ listed' = NotListed
  /\ queued' = (Live(rule).exists \/ Owned(Live(cm))) /\ timer' = FALSE
  /\ UNCHANGED <<pods, edits, touches>>

------------------------------------------------------------------------------
(***************************************************************************)
(* Users, with kubectl.  Their writes are atomic (kubectl retries its own  *)
(* conflicts) and make the copies of Reconcile out of date.                *)
(***************************************************************************)
UserRule(op, new) ==
  /\ op \in UserOps /\ edits < MaxEdits
  /\ edits' = edits + 1
  /\ rule' = Append(rule, new) /\ ruleFresh' = FALSE
  /\ UNCHANGED <<cm, dep, cmFresh, depFresh, locals, queue, pods, touches, faults>>

EditRule ==
  /\ Live(rule).exists
  /\ UserRule("edit", [Live(rule) EXCEPT !.spec = @ + 1])

RelabelRule ==
  /\ Live(rule).exists
  /\ \E labels \in (SUBSET Labels) \ {Live(rule).labels} :
       UserRule("relabel", [Live(rule) EXCEPT !.labels = labels])

DeleteRule ==
  /\ Live(rule).exists /\ ~Live(rule).deleting
  /\ \/ UserRule("delete", Reap(Marked(Live(rule), FALSE)))
     \/ UserRule("foreground", Reap(Marked(Live(rule), TRUE)))

CreateRule ==
  /\ ~Live(rule).exists
  /\ \E labels \in SUBSET Labels : UserRule("create", NewRule(Live(rule), labels))

UserCM(op, new) ==
  /\ op \in UserOps /\ edits < MaxEdits
  /\ edits' = edits + 1
  /\ cm' = Append(cm, new) /\ cmFresh' = FALSE
  /\ UNCHANGED <<rule, dep, ruleFresh, depFresh, locals, queue, pods, touches, faults>>

EditCM == Live(cm).exists /\ Live(cm).data # NoText /\ UserCM("editCM", [Live(cm) EXCEPT !.data = NoText])

DeleteCM == Live(cm).exists /\ UserCM("deleteCM", NoCM)

CreateCM == ~Live(cm).exists /\ UserCM("createCM", [NoCM EXCEPT !.exists = TRUE])

Users == EditRule \/ RelabelRule \/ DeleteRule \/ CreateRule \/ EditCM \/ DeleteCM \/ CreateCM

------------------------------------------------------------------------------
(***************************************************************************)
(* The garbage collector removes a ConfigMap whose owner is gone, or is    *)
(* being deleted in the foreground, and releases a rule deleted in the     *)
(* foreground once the rule owns nothing.                                  *)
(***************************************************************************)
OwnedBy(m, r) == m.exists /\ m.owner = r.uid /\ r.exists

GCConfigMap ==
  /\ Owned(Live(cm)) /\ Len(cm) <= MaxLag
  /\ OwnedBy(Live(cm), Live(rule)) =>
       Live(rule).deleting /\ HasFinalizer(Live(rule), Foreground)
  /\ cm' = Append(cm, NoCM) /\ cmFresh' = FALSE
  /\ UNCHANGED <<rule, dep, ruleFresh, depFresh, locals, queue, pods, bounds>>

GCRule ==
  /\ Live(rule).exists /\ Live(rule).deleting /\ ~OwnedBy(Live(cm), Live(rule))
  /\ \E i \in 1..Len(Live(rule).fins) :
       /\ Live(rule).fins[i] = Foreground
       /\ rule' = Append(rule, Reap([Live(rule) EXCEPT !.fins = RemoveAt(@, i)]))
  /\ ruleFresh' = FALSE
  /\ UNCHANGED <<cm, dep, cmFresh, depFresh, locals, queue, pods, bounds>>

(***************************************************************************)
(* Other writers of the Deployments: the Deployment controller, autoscaler *)
(* or another rule's rollout writes a version without changing what is     *)
(* mounted; the VillipProxy reconciler changes what is mounted, and the    *)
(* pods with it.                                                           *)
(***************************************************************************)
DepTouched(p) ==
  /\ touches < MaxTouches /\ touches' = touches + 1
  /\ dep' = [dep EXCEPT ![p] = Append(@, Live(@))]
  /\ depFresh' = depFresh \ {p}
  /\ UNCHANGED <<rule, cm, ruleFresh, cmFresh, locals, queue, pods, edits, faults>>

ProxyMounts(p) ==
  /\ touches < MaxTouches /\ touches' = touches + 1
  /\ dep' = [dep EXCEPT ![p] = Append(@, [conf |-> ~Live(@).conf])]
  /\ depFresh' = depFresh \ {p}
  /\ pods' = [pods EXCEPT ![p].rolling = TRUE]
  /\ UNCHANGED <<rule, cm, ruleFresh, cmFresh, locals, queue, edits, faults>>

\* New pods read the ConfigMap once, when they start; without it they wait.
PodsStart(p) ==
  /\ pods[p].rolling
  /\ Live(dep[p]).conf => Live(cm).exists
  /\ pods' = [pods EXCEPT ![p] =
                [rolling |-> FALSE,
                 loaded |-> IF Live(dep[p]).conf THEN Live(cm).data ELSE NoText]]
  /\ UNCHANGED <<objects, fresh, locals, queue, bounds>>

Environment ==
  \/ DeliverRule \/ DeliverCM \/ TimerFires \/ GCConfigMap \/ GCRule
  \/ \E p \in Deps : DeliverDep(p) \/ DepTouched(p) \/ ProxyMounts(p) \/ PodsStart(p)

Next == Work \/ Restart \/ Users \/ Environment

(***************************************************************************)
(* Fairness: the controller's worker goroutine, the watch streams, the     *)
(* delaying queue, the garbage collector and the kubelets keep running.    *)
(* Users, other writers and failures owe nothing.                          *)
(***************************************************************************)
Fairness ==
  /\ WF_vars(Work) /\ WF_vars(DeliverRule) /\ WF_vars(DeliverCM) /\ WF_vars(TimerFires)
  /\ WF_vars(GCConfigMap) /\ WF_vars(GCRule)
  /\ \A p \in Deps : WF_vars(DeliverDep(p)) /\ WF_vars(PodsStart(p))

Spec == Init /\ [][Next]_vars /\ Fairness

------------------------------------------------------------------------------
(***************************************************************************)
(* Properties that hold.                                                   *)
(***************************************************************************)
CMCalls == Calls \ {"initStatus", "addFinalizer", "refetchDeleted", "removeFinalizers"}

\* Past the check of the finalizer, Reconcile works for a rule that is still
\* stored, in the same incarnation, and held by the finalizer, whatever users,
\* the garbage collector and the age of the cache are up to: the ConfigMap it
\* creates or updates never belongs to a rule that is gone.
RulePinned ==
  pc \in CMCalls =>
    /\ Live(rule).exists /\ Live(rule).uid = rcopy.uid
    /\ HasFinalizer(Live(rule), Finalizer)

\* No step but a user's changes the spec or the labels of a stored rule: the
\* Update of addFinalizer, which stores a copy read earlier, reverts no edit.
NoLostEdit ==
  [][edits' = edits =>
       /\ Live(rule').spec = Live(rule).spec
       /\ Live(rule').exists => Live(rule').labels = Live(rule).labels]_vars

\* A rollout, which stores Deployments listed earlier, never reverts the
\* volumes and the conf annotation the VillipProxy reconciler has set since.
RolloutKeepsMounts ==
  [][touches' = touches => \A p \in Deps : Live(dep'[p]).conf = Live(dep[p]).conf]_vars

\* The version of the rule that Reconcile goes by: its copy's when it is at work
\* on the ConfigMap, else what it will read next.
ReadVersion == IF pc \in CMCalls THEN rcopy.spec ELSE Cached(rule).spec

M == INSTANCE Mirror WITH
       source <- [exists |-> Live(rule).exists, uid |-> Live(rule).uid,
                  version |-> Live(rule).spec, deleting |-> Live(rule).deleting],
       read   <- ReadVersion,
       mirror <- [exists |-> Live(cm).exists, owner |-> Live(cm).owner,
                  text |-> Live(cm).data.text],
       ops    <- edits

\* The reconciler, its cache, failed calls and restarts implement the mirror:
\* the ConfigMap is written only while its rule is stored, with a version of the
\* spec that is never older than one written before, belongs to that rule if it
\* is new, and no step but a user's or a due removal changes rule or ConfigMap.
ImplementsMirror == M!Spec

\* Once users stop, the ConfigMap of a rule holds the YAML of its spec, even
\* if the ConfigMap was edited or deleted by hand, calls failed, the manager
\* was restarted, or the rule was deleted and created again.
ConfigMapConverges ==
  <>[](Live(rule).exists /\ ~Live(rule).deleting =>
         Live(cm).exists /\ Live(cm).data = Marshal(Live(rule).spec))

\* A rule marked for deletion goes away, in the background and in the
\* foreground: the finalizers that Reconcile adds are removed again.
DeletionCompletes == []<>~(Live(rule).exists /\ Live(rule).deleting)

\* The ConfigMap goes after its rule ("it will be automatically deleted when
\* villipRule is deleted", comment in createConfigMap).
ConfigMapCollected == <>[](~Live(rule).exists => ~Live(cm).exists)

------------------------------------------------------------------------------
(***************************************************************************)
(* Properties the repository states and the code does not have.            *)
(***************************************************************************)
\* Available "represents the status of the Deployment reconciliation": a rule
\* that is reconciled for good says so.
AvailableReported ==
  <>[](Live(rule).exists /\ ~Live(rule).deleting => Live(rule).available \in AvailableTrue)

\* "Rolling out deployment to update configuration": pods of the Deployments
\* that use the rule end up with the rule's last configuration.
PodsUpToDate ==
  <>[](Live(rule).exists /\ ~Live(rule).deleting =>
         \A p \in Deps : Live(dep[p]).conf => pods[p].loaded = Marshal(Live(rule).spec))
==============================================================================
