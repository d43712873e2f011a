----------------------------- MODULE VillipProxy -----------------------------
(***************************************************************************)
(* The VillipProxy reconciler: it keeps a Deployment and a Service, named  *)
(* after the proxy, in line with the proxy's spec, and mounts into the     *)
(* Deployment the ConfigMaps that the proxy's rulesets select.             *)
(*                                                                         *)
(* One proxy, one worker, every read of the cache and every call to the    *)
(* API server a step, as in VillipRules.                                   *)
(***************************************************************************)
EXTENDS KubeApi

CONSTANTS
  Names, Labels,  \* ConfigMaps of the namespace, the labels they can carry
  Specs,          \* the specs users give to the proxy
  UserOps,        \* the operations users perform in this instance
  Resync,         \* does the informer's periodic resync happen?
  MaxEdits,       \* bound: operations of users and of other controllers
  MaxFaults,      \* bound: failed calls and restarts of the manager
  MaxLag          \* bound: versions the cache may lag behind the garbage collector

AllUserOps == {"edit", "delete", "foreground", "create", "scaleDep", "rollDep",
               "deleteDep", "deleteSvc", "makeDep", "makeSvc", "configMap"}

\* A ruleset is the set of labels of its matchlabels; a target stands for its
\* namespace, name, port and uri.
VillipProxySpec ==
  [size : Nat, ports : SUBSET Nat, rulesets : Seq(SUBSET Labels), target : STRING]

ASSUME BoundsAssumption == MaxEdits \in Nat /\ MaxFaults \in Nat /\ MaxLag \in Nat \ {0}
ASSUME UserOpsAssumption == UserOps \subseteq AllUserOps /\ Resync \in BOOLEAN
ASSUME SpecsAssumption == Specs \subseteq VillipProxySpec /\ Specs # {}

VARIABLES
  proxy, dep, svc, cms, \* object logs; cms is one per ConfigMap
  fresh,                \* which copies carry the stored resourceVersion
  pc, loc,              \* Reconcile: its next call and its local variables
  queued, timer,        \* the work queue: key due; key due later
  edits, faults         \* how much of the bounds is used

objects == <<proxy, dep, svc, cms>>
vars    == <<objects, fresh, pc, loc, queued, timer, edits, faults>>

(***************************************************************************)
(* Objects.  Ports are sets: both sides of every comparison are sorted     *)
(* first.  A condition is identified by the message it is set with; the    *)
(* message of "Created" quotes the number of replicas.                     *)
(***************************************************************************)
Available == {"None", "Starting", "Created", "CreateFailed", "DepFailed", "SvcFailed"} \X Nat

Degraded == {"None", "Finalizing", "Finalized"}

NoSpec == [size |-> 0, ports |-> {}, rulesets |-> <<>>, target |-> ""]

\* The targets the specs name: what a Deployment can point villip at.
Targets == {spec.target : spec \in Specs} \cup {NoSpec.target}

NoStatus == [available |-> <<"None", 0>>, degraded |-> "None"]

ProxyObj ==
  [exists : BOOLEAN, uid : Nat, spec : Specs \cup {NoSpec}, fins : SUBSET Finalizers,
   deleting : BOOLEAN, status : [available : Available, degraded : Degraded]]

NoProxy == [exists |-> FALSE, uid |-> 0, spec |-> NoSpec, fins |-> {}, deleting |-> FALSE,
            status |-> NoStatus]

\* How often each ConfigMap is named: the sorted, joined list of the annotation
\* villip.carmier.fr/conf, which is also the list of volumes.
NoNames == [n \in Names |-> 0]

\* owner is the uid of the owning proxy, 0 for an object made by hand; tagged says
\* that there is an annotation conf; stamp counts the rollouts of VillipRules.
DepObj ==
  [exists : BOOLEAN, owner : Nat, size : Nat, ports : SUBSET Nat,
   tagged : BOOLEAN, conf : [Names -> Nat], url : [http : Targets], stamp : Nat]

NoDep == [exists |-> FALSE, owner |-> 0, size |-> 0, ports |-> {},
          tagged |-> FALSE, conf |-> NoNames, url |-> [http |-> ""], stamp |-> 0]

SvcObj == [exists : BOOLEAN, owner : Nat, ports : SUBSET Nat]

NoSvc == [exists |-> FALSE, owner |-> 0, ports |-> {}]

CMObj == [exists : BOOLEAN, labels : SUBSET Labels]

NoCM == [exists |-> FALSE, labels |-> {}]

Gone(p) == [NoProxy EXCEPT !.uid = p.uid]

Reap(p) == IF p.deleting /\ p.fins = {} THEN Gone(p) ELSE p

Calls == {"initStatus", "addFinalizer", "finalizing", "refetchDeleted", "finalized",
          "removeFinalizer", "getDep", "checkRulesets", "listMounts", "createDep",
          "createFailed", "updateDep", "refetchForDep", "depFailed", "getSvc", "createSvc",
          "updateSvc", "refetchForSvc", "svcFailed", "available"}

Returns == {"done", "requeue"}

\* The copies Reconcile holds, the loop over the rulesets (next index, names so
\* far) and what follows deploymentUpdate or mountsForVillipProxy.
NoLocals == [proxy |-> NoProxy, dep |-> NoDep, svc |-> NoSvc,
             k |-> 1, names |-> NoNames, after |-> "requeue"]

\* One type invariant for every variable.
TypeOK ==
  /\ proxy \in Seq(ProxyObj) /\ proxy # <<>>
  /\ dep \in Seq(DepObj) /\ dep # <<>>
  /\ svc \in Seq(SvcObj) /\ svc # <<>>
  /\ cms \in [Names -> Seq(CMObj)] /\ \A n \in Names : cms[n] # <<>>
  /\ fresh \subseteq {"proxy", "dep", "svc"}
  /\ pc \in Calls \cup {"idle"}
  /\ loc \in [proxy : ProxyObj, dep : DepObj, svc : SvcObj, k : Nat \ {0},
              names : [Names -> Nat], after : Calls \cup Returns]
  /\ queued \in BOOLEAN /\ timer \in BOOLEAN
  /\ edits \in 0..MaxEdits /\ faults \in 0..MaxFaults

NewProxy(old, spec) ==
  [NoProxy EXCEPT !.exists = TRUE, !.uid = old.uid + 1, !.spec = spec]

\* A proxy was just applied, in a namespace with some ConfigMaps.
Init ==
  /\ \E spec \in Specs : proxy = <<NoProxy, NewProxy(NoProxy, spec)>>
  /\ dep = <<NoDep>> /\ svc = <<NoSvc>>
  /\ \E m \in [Names -> {o \in CMObj : o.exists \/ o = NoCM}] :
       cms = [n \in Names |-> <<m[n]>>]
  /\ fresh = {} /\ pc = "idle" /\ loc = NoLocals
  /\ queued = FALSE /\ timer = FALSE
  /\ edits = 0 /\ faults = 0

------------------------------------------------------------------------------
(***************************************************************************)
(* How Reconcile goes on after a call; see VillipRules.                    *)
(***************************************************************************)
GoOn(to, l, f) ==
  LET returns == to \in Returns IN
  /\ pc' = IF returns THEN "idle" ELSE to
  /\ timer' = (timer \/ to = "requeue")
  /\ loc' = IF returns THEN NoLocals ELSE l
  /\ fresh' = IF returns THEN {} ELSE f

\* Freshness of a copy just read from the cache.
Read(f, kind, log) == IF Synced(log) THEN f \cup {kind} ELSE f \ {kind}

\* A step of Reconcile that reads the caches or computes.
Step(to, l, f) ==
  GoOn(to, l, f) /\ UNCHANGED <<objects, queued, edits, faults>>

\* A write of the object `log` of kind `kind`: log' and the way on.
Write(log, newlog, kind, accepts, new, ok, err) ==
  /\ \E o \in Outcomes(log, accepts, new) :
       /\ faults' = faults + o.fault /\ faults' <= MaxFaults
       /\ newlog = o.log
       /\ IF o.ok
          THEN GoOn(ok, [loc EXCEPT ![kind] = new], fresh \cup {kind})
          ELSE GoOn(err, loc, IF o.log = log THEN fresh ELSE fresh \ {kind})
  /\ UNCHANGED <<cms, queued, edits>>

WriteProxy(accepts, new, ok, err) ==
  Write(proxy, proxy', "proxy", accepts, new, ok, err) /\ UNCHANGED <<dep, svc>>

WriteDep(accepts, new, ok, err) ==
  Write(dep, dep', "dep", accepts, new, ok, err) /\ UNCHANGED <<proxy, svc>>

WriteSvc(accepts, new, ok, err) ==
  Write(svc, svc', "svc", accepts, new, ok, err) /\ UNCHANGED <<proxy, dep>>

\* Mutant of Current: Updates of copies that carry no resourceVersion.
CurrentWithoutVersion(kind, log) == Live(log).exists

\* The stored version is the one Reconcile read: no conflict, no NotFound.
Current(kind, log) == kind \in fresh /\ Live(log).exists

\* Status().Update stores the status of the copy only, here with one condition
\* set; a condition set to what it already is makes no new version.
WriteStatus(condition, value, ok, err) ==
  WriteProxy(Current("proxy", proxy),
             [Live(proxy) EXCEPT !.status = [loc.proxy.status EXCEPT ![condition] = value]],
             ok, err)

\* Update stores spec and metadata of the copy, here with other finalizers.
WriteFinalizers(accepts, fins, ok, err) ==
  WriteProxy(accepts, Reap([Live(proxy) EXCEPT !.spec = loc.proxy.spec, !.fins = fins]),
             ok, err)

\* The re-fetch of the proxy, from the cache.
Refetch(to) ==
  IF Cached(proxy).exists
  THEN Step(to, [loc EXCEPT !.proxy = Cached(proxy)], Read(fresh, "proxy", proxy))
  ELSE Step("requeue", loc, fresh)

------------------------------------------------------------------------------
(***************************************************************************)
(* Reconcile, up to the lookup of the Deployment.                          *)
(***************************************************************************)
\* The chain of early returns at the top of Reconcile.
Branch(p) ==
  CASE ~p.exists -> "idle"
    [] p.exists /\ p.status = NoStatus -> "initStatus"
    [] p.exists /\ p.status # NoStatus /\ Finalizer \notin p.fins -> "addFinalizer"
    [] p.exists /\ p.status # NoStatus /\ Finalizer \in p.fins /\ p.deleting
         -> "finalizing"
    [] OTHER -> "getDep"

Reconcile ==
  /\ pc = "idle" /\ queued
  /\ queued' = FALSE
  /\ pc' = Branch(Cached(proxy))
  /\ IF Cached(proxy).exists
     THEN loc' = [NoLocals EXCEPT !.proxy = Cached(proxy)] /\ fresh' = Read({}, "proxy", proxy)
     ELSE UNCHANGED <<loc, fresh>>
  /\ UNCHANGED <<objects, timer, edits, faults>>

initStatus ==
  /\ pc = "initStatus"
  /\ WriteStatus("available", <<"Starting", 0>>, "requeue", "requeue")

\* The API server refuses new finalizers on an object marked for deletion.
addFinalizer ==
  /\ pc = "addFinalizer"
  /\ WriteFinalizers(Current("proxy", proxy) /\ ~Live(proxy).deleting,
                     loc.proxy.fins \cup {Finalizer}, "requeue", "requeue")

\* villipProxyMarkedToBeDeleted, call by call.
finalizing ==
  /\ pc = "finalizing"
  /\ WriteStatus("degraded", "Finalizing", "refetchDeleted", "requeue")

refetchDeleted == pc = "refetchDeleted" /\ Refetch("finalized")

\* Mutant of finalized: the error of the status update is not returned.
FinalizedIgnoringError ==
  /\ pc = "finalized"
  /\ WriteStatus("degraded", "Finalized", "removeFinalizer", "removeFinalizer")

\* Mutant of finalized: a failed status update ends the reconciliation.
FinalizedWithoutRetry ==
  /\ pc = "finalized"
  /\ WriteStatus("degraded", "Finalized", "removeFinalizer", "done")

finalized ==
  /\ pc = "finalized"
  /\ WriteStatus("degraded", "Finalized", "removeFinalizer", "requeue")

\* controllerutil.RemoveFinalizer says whether there was one to remove.
removeFinalizer ==
  /\ pc = "removeFinalizer"
  /\ IF Finalizer \in loc.proxy.fins
     THEN WriteFinalizers(Current("proxy", proxy), loc.proxy.fins \ {Finalizer},
                          "done", "requeue")
     ELSE Step("requeue", loc, fresh)

------------------------------------------------------------------------------
(***************************************************************************)
(* The Deployment: its size, then its volumes.                             *)
(***************************************************************************)
\* Mutant of SizeDiffers: only replicas too many count.
TooManyReplicas(d, spec) == d.size > spec.size

SizeDiffers(d, spec) == d.size # spec.size

getDep ==
  /\ pc = "getDep"
  /\ LET d    == Cached(dep)
         spec == loc.proxy.spec
         f    == Read(fresh, "dep", dep)
     IN  CASE ~d.exists ->
                Step("listMounts", [loc EXCEPT !.after = "createDep"], f)
           [] d.exists /\ SizeDiffers(d, spec) ->
                Step("updateDep", [loc EXCEPT !.dep = [d EXCEPT !.size = spec.size]], f)
           [] OTHER -> Step("checkRulesets", [loc EXCEPT !.dep = d], f)

\* client.MatchingLabels: every label of the ruleset, and all ConfigMaps of the
\* namespace for a ruleset without labels.
Selects(ruleset, m) == m.exists /\ ruleset \subseteq m.labels

\* One List of ConfigMaps, from the cache; each match is appended to cmNames.
listRuleset ==
  /\ pc \in {"checkRulesets", "listMounts"}
  /\ loc.k <= Len(loc.proxy.spec.rulesets)
  /\ LET ruleset == loc.proxy.spec.rulesets[loc.k]
         more    == [n \in Names |->
                       loc.names[n] + (IF Selects(ruleset, Cached(cms[n])) THEN 1 ELSE 0)]
     IN  Step(pc, [loc EXCEPT !.k = @ + 1, !.names = more], fresh)

\* Mutant of isRulesetsChanged: only ConfigMaps to add count as a change.
RulesetsGrew(d, names) == \E n \in Names : names[n] > d.conf[n]

\* Mutant of isRulesetsChanged: an empty selection does not count.
RulesetsNotEmpty(d, names) == d.tagged /\ d.conf # names /\ names # NoNames

\* Without the annotation, no change is ever seen.
isRulesetsChanged(d, names) == d.tagged /\ d.conf # names

checkRulesets ==
  /\ pc = "checkRulesets"
  /\ loc.k > Len(loc.proxy.spec.rulesets)
  /\ LET rewound == [loc EXCEPT !.k = 1, !.names = NoNames] IN
     IF isRulesetsChanged(loc.dep, loc.names)
     THEN Step("listMounts", [rewound EXCEPT !.after = "updateDep"], fresh)
     ELSE Step("getSvc", rewound, fresh)

targetForVillipProxy(target) == [http |-> target]

\* Mutant of deploymentForVillipProxy: the target is not made into a URL.
deploymentWithRawTarget(p, names) ==
  [NoDep EXCEPT !.exists = TRUE, !.owner = p.uid, !.size = p.spec.size,
                !.ports = p.spec.ports, !.tagged = TRUE, !.conf = names,
                !.url = [raw |-> p.spec.target]]

deploymentForVillipProxy(p, names) ==
  [NoDep EXCEPT !.exists = TRUE, !.owner = p.uid, !.size = p.spec.size,
                !.ports = p.spec.ports, !.tagged = TRUE, !.conf = names,
                !.url = targetForVillipProxy(p.spec.target)]

\* mountsForVillipProxy has listed everything: a new Deployment gets all its
\* fields, an existing one its annotation, volumes and mounts.
listMounts ==
  /\ pc = "listMounts"
  /\ loc.k > Len(loc.proxy.spec.rulesets)
  /\ LET new == IF loc.after = "createDep"
                THEN deploymentForVillipProxy(loc.proxy, loc.names)
                ELSE [loc.dep EXCEPT !.tagged = TRUE, !.conf = loc.names]
     IN  Step(loc.after,
              [loc EXCEPT !.k = 1, !.names = NoNames, !.dep = new, !.after = "requeue"],
              fresh)

\* The API server refuses a pod template with two volumes of one name.
Mountable(d) == \A n \in Names : d.conf[n] <= 1

createDep ==
  /\ pc = "createDep"
  /\ WriteDep(~Live(dep).exists /\ Mountable(loc.dep), loc.dep, "requeue", "createFailed")

createFailed ==
  /\ pc = "createFailed"
  /\ WriteStatus("available", <<"CreateFailed", 0>>, "requeue", "requeue")

\* deploymentUpdate: a failed Update is reported in the status of a re-fetched
\* proxy; when that succeeds the caller goes on as if the Update had.
updateDep ==
  /\ pc = "updateDep"
  /\ WriteDep(Current("dep", dep) /\ Mountable(loc.dep), loc.dep, loc.after, "refetchForDep")

refetchForDep == pc = "refetchForDep" /\ Refetch("depFailed")

depFailed ==
  /\ pc = "depFailed"
  /\ WriteStatus("available", <<"DepFailed", 0>>, loc.after, "requeue")

------------------------------------------------------------------------------
(***************************************************************************)
(* The Service, and the ports of both.                                     *)
(***************************************************************************)
\* Mutant of PortsDiffer: the two lists are never found equal.
PortsAlwaysDiffer(want, have) == TRUE

\* reflect.DeepEqual tells the empty list that Reconcile computes from the nil
\* list that the API server stores: no ports always counts as a change.
PortsDiffer(want, have) == want = {} \/ want # have

\* ManagePortChange up to its first call.  When both lists differ, the Service's
\* follows the Deployment's.
ManagePortChange(s, f) ==
  LET ports == loc.proxy.spec.ports
      onDep == PortsDiffer(ports, loc.dep.ports)
      onSvc == PortsDiffer(ports, s.ports)
      l     == [loc EXCEPT !.dep.ports = ports, !.svc = [s EXCEPT !.ports = ports],
                           !.after = IF onDep /\ onSvc THEN "updateSvc" ELSE "requeue"]
  IN  CASE onDep            -> Step("updateDep", l, f)
        [] ~onDep /\ onSvc  -> Step("updateSvc", l, f)
        [] ~onDep /\ ~onSvc -> Step("available", l, f)

\* The lookup of the Service.
getSvc ==
  /\ pc = "getSvc"
  /\ LET s == Cached(svc)
         f == Read(fresh, "svc", svc)
     IN  IF s.exists THEN ManagePortChange(s, f) ELSE Step("createSvc", loc, f)

\* Mutant of serviceForVillipProxy: ctrl.SetControllerReference forgotten.
serviceWithoutOwner(p) == [exists |-> TRUE, owner |-> 0, ports |-> p.spec.ports]

serviceForVillipProxy(p) == [exists |-> TRUE, owner |-> p.uid, ports |-> p.spec.ports]

\* The API server refuses a Service without ports.
createSvc ==
  /\ pc = "createSvc"
  /\ LET new == serviceForVillipProxy(loc.proxy)
     IN  WriteSvc(~Live(svc).exists /\ new.ports # {}, new, "requeue", "requeue")

\* serviceUpdate, as deploymentUpdate.
updateSvc ==
  /\ pc = "updateSvc"
  /\ WriteSvc(Current("svc", svc) /\ loc.svc.ports # {}, loc.svc, "requeue", "refetchForSvc")

refetchForSvc == pc = "refetchForSvc" /\ Refetch("svcFailed")

svcFailed ==
  /\ pc = "svcFailed"
  /\ WriteStatus("available", <<"SvcFailed", 0>>, "requeue", "requeue")

available ==
  /\ pc = "available"
  /\ WriteStatus("available", <<"Created", loc.proxy.spec.size>>, "done", "requeue")

Work ==
  \/ Reconcile \/ initStatus \/ addFinalizer
  \/ finalizing \/ refetchDeleted \/ finalized \/ removeFinalizer
  \/ getDep \/ listRuleset \/ checkRulesets \/ listMounts \/ createDep \/ createFailed
  \/ updateDep \/ refetchForDep \/ depFailed
  \/ getSvc \/ createSvc \/ updateSvc \/ refetchForSvc \/ svcFailed \/ available

------------------------------------------------------------------------------
(***************************************************************************)
(* SetupWithManager: events of the proxy, and of the Deployments and       *)
(* Services a proxy owns, queue the key.  ConfigMaps are read through the  *)
(* cache but not watched.                                                  *)
(***************************************************************************)
DeliverProxy ==
  /\ ~Synced(proxy)
  /\ proxy' = Catchup(proxy)
  /\ queued' = TRUE
  /\ UNCHANGED <<dep, svc, cms, fresh, pc, loc, timer, edits, faults>>

Owned(o) == o.exists /\ o.owner # 0

\* Mutant of Owns: the controller is built without Owns().
OwnsNothing(old, new) == FALSE

\* The handler of Owns looks at both versions of an event.
Owns(old, new) == Owned(old) \/ Owned(new)

DeliverDep ==
  /\ ~Synced(dep)
  /\ dep' = Catchup(dep)
  /\ queued' = (queued \/ Owns(dep[1], dep[2]))
  /\ UNCHANGED <<proxy, svc, cms, fresh, pc, loc, timer, edits, faults>>

DeliverSvc ==
  /\ ~Synced(svc)
  /\ svc' = Catchup(svc)
  /\ queued' = (queued \/ Owns(svc[1], svc[2]))
  /\ UNCHANGED <<proxy, dep, cms, fresh, pc, loc, timer, edits, faults>>

DeliverCM(n) ==
  /\ ~Synced(cms[n])
  /\ cms' = [cms EXCEPT ![n] = Catchup(@)]
  /\ UNCHANGED <<proxy, dep, svc, fresh, pc, loc, queued, timer, edits, faults>>

TimerFires ==
  /\ timer
  /\ timer' = FALSE /\ queued' = TRUE
  /\ UNCHANGED <<objects, fresh, pc, loc, edits, faults>>

\* Every ten hours the informer replays what is in the cache.
ResyncFires ==
  /\ Resync /\ Cached(proxy).exists /\ ~queued
  /\ queued' = TRUE
  /\ UNCHANGED <<objects, fresh, pc, loc, timer, edits, faults>>

\* The manager is killed and started again; see VillipRules.
Restart ==
  /\ faults < MaxFaults /\ faults' = faults + 1
  /\ proxy' = Relist(proxy) /\ dep' = Relist(dep) /\ svc' = Relist(svc)
  /\ cms' = [n \in Names |-> Relist(cms[n])]
  /\ fresh' = {} /\ pc' = "idle" /\ loc' = NoLocals
  /\ queued' = (Live(proxy).exists \/ Owned(Live(dep)) \/ Owned(Live(svc)))
  /\ timer' = FALSE
  /\ UNCHANGED edits

------------------------------------------------------------------------------
(***************************************************************************)
(* Users, with kubectl, and the rollouts of VillipRules.  Their writes are *)
(* atomic and make the copies of Reconcile out of date.                    *)
(***************************************************************************)
User(op) ==
  /\ op \in UserOps /\ edits < MaxEdits
  /\ edits' = edits + 1
  /\ UNCHANGED <<pc, loc, queued, timer, faults>>

UserProxy(op, new) ==
  /\ User(op)
  /\ proxy' = Append(proxy, new) /\ fresh' = fresh \ {"proxy"}
  /\ UNCHANGED <<dep, svc, cms>>

EditProxy ==
  /\ Live(proxy).exists
  /\ \E spec \in Specs \ {Live(proxy).spec} :
       UserProxy("edit", [Live(proxy) EXCEPT !.spec = spec])

DeleteProxy ==
  /\ Live(proxy).exists /\ ~Live(proxy).deleting
  /\ \/ UserProxy("delete", Reap([Live(proxy) EXCEPT !.deleting = TRUE]))
     \/ UserProxy("foreground",
                  [Live(proxy) EXCEPT !.deleting = TRUE, !.fins = @ \cup {Foreground}])

CreateProxy ==
  /\ ~Live(proxy).exists
  /\ \E spec \in Specs : UserProxy("create", NewProxy(Live(proxy), spec))

UserDep(op, new) ==
  /\ User(op)
  /\ Live(dep).exists
  /\ dep' = Append(dep, new) /\ fresh' = fresh \ {"dep"}
  /\ UNCHANGED <<proxy, svc, cms>>

ScaleDep == Live(dep).size # 0 /\ UserDep("scaleDep", [Live(dep) EXCEPT !.size = 0])

RollDep == UserDep("rollDep", [Live(dep) EXCEPT !.stamp = @ + 1])

DeleteDep == UserDep("deleteDep", NoDep)

DeleteSvc ==
  /\ User("deleteSvc")
  /\ Live(svc).exists
  /\ svc' = Append(svc, NoSvc) /\ fresh' = fresh \ {"svc"}
  /\ UNCHANGED <<proxy, dep, cms>>

\* A Deployment or a Service of the proxy's name that is not the operator's.
MakeDep ==
  /\ User("makeDep")
  /\ ~Live(dep).exists
  /\ dep' = Append(dep, [NoDep EXCEPT !.exists = TRUE]) /\ UNCHANGED <<proxy, svc, cms, fresh>>

MakeSvc ==
  /\ User("makeSvc")
  /\ ~Live(svc).exists
  /\ svc' = Append(svc, [NoSvc EXCEPT !.exists = TRUE, !.ports = {1}])
  /\ UNCHANGED <<proxy, dep, cms, fresh>>

\* A rule's ConfigMap comes, goes or gets other labels.
ConfigMapChanges(n) ==
  /\ User("configMap")
  /\ \E m \in CMObj \ {Live(cms[n])} :
       /\ m.exists \/ m = NoCM
       /\ cms' = [cms EXCEPT ![n] = Append(@, m)]
  /\ UNCHANGED <<proxy, dep, svc, fresh>>

Users ==
  \/ EditProxy \/ DeleteProxy \/ CreateProxy
  \/ ScaleDep \/ RollDep \/ DeleteDep \/ DeleteSvc \/ MakeDep \/ MakeSvc
  \/ \E n \in Names : ConfigMapChanges(n)

(***************************************************************************)
(* The garbage collector removes what a proxy that is gone, or is being    *)
(* deleted in the foreground, owns, and releases a proxy deleted in the    *)
(* foreground once it owns nothing.                                        *)
(***************************************************************************)
OwnedBy(o, p) == o.exists /\ o.owner = p.uid /\ p.exists

Collectable(log) ==
  /\ Owned(Live(log)) /\ Len(log) <= MaxLag
  /\ OwnedBy(Live(log), Live(proxy)) => Foreground \in Live(proxy).fins

GCDep ==
  /\ Collectable(dep)
  /\ dep' = Append(dep, NoDep) /\ fresh' = fresh \ {"dep"}
  /\ UNCHANGED <<proxy, svc, cms, pc, loc, queued, timer, edits, faults>>

GCSvc ==
  /\ Collectable(svc)
  /\ svc' = Append(svc, NoSvc) /\ fresh' = fresh \ {"svc"}
  /\ UNCHANGED <<proxy, dep, cms, pc, loc, queued, timer, edits, faults>>

GCProxy ==
  /\ Foreground \in Live(proxy).fins
  /\ ~OwnedBy(Live(dep), Live(proxy)) /\ ~OwnedBy(Live(svc), Live(proxy))
  /\ proxy' = Append(proxy, Reap([Live(proxy) EXCEPT !.fins = @ \ {Foreground}]))
  /\ fresh' = fresh \ {"proxy"}
  /\ UNCHANGED <<dep, svc, cms, pc, loc, queued, timer, edits, faults>>

Environment ==
  \/ DeliverProxy \/ DeliverDep \/ DeliverSvc \/ (\E n \in Names : DeliverCM(n))
  \/ TimerFires \/ ResyncFires \/ GCDep \/ GCSvc \/ GCProxy

Next == Work \/ Restart \/ Users \/ Environment

\* As in VillipRules; the resync is periodic too.
Fairness ==
  /\ WF_vars(Work)
  /\ WF_vars(DeliverProxy) /\ WF_vars(DeliverDep) /\ WF_vars(DeliverSvc)
  /\ \A n \in Names : WF_vars(DeliverCM(n))
  /\ WF_vars(TimerFires) /\ WF_vars(ResyncFires)
  /\ WF_vars(GCDep) /\ WF_vars(GCSvc) /\ WF_vars(GCProxy)

Spec == Init /\ [][Next]_vars /\ Fairness

------------------------------------------------------------------------------
(***************************************************************************)
(* Properties that hold.                                                   *)
(***************************************************************************)
\* The finalizer leaves a proxy only when it is being deleted and the status
\* "Finalizer operations ... were successfully accomplished" is stored, however
\* old the copies are that villipProxyMarkedToBeDeleted works with.
FinalizedFirst ==
  [][(Finalizer \in Live(proxy).fins \ Live(proxy').fins) =>
       Live(proxy).deleting /\ Live(proxy).status.degraded = "Finalized"]_vars

\* No step but a user's changes the spec of a stored proxy: the Updates of
\* addFinalizer and of the finalizer's removal revert no edit.
NoLostEdit ==
  [][edits' = edits /\ Live(proxy').exists => Live(proxy').spec = Live(proxy).spec]_vars

\* A foreground deletion that arrives while Reconcile works with an older copy is
\* not taken back: no Update of the whole copy drops the garbage collector's
\* finalizer, that of the finalizer's removal included.
ForegroundKept ==
  [][Work /\ Foreground \in Live(proxy).fins => Foreground \in Live(proxy').fins]_vars

\* Reconcile, which updates a Deployment read earlier (its size, its mounts, its
\* ports), never takes back a rollout that VillipRules has asked for since.
StampKept ==
  [][edits' = edits /\ Live(dep).exists /\ Live(dep').exists =>
       Live(dep').stamp = Live(dep).stamp]_vars

Wanted(p) == p.exists /\ ~p.deleting

\* The API server takes no Service without ports.
Serves(p) == Wanted(p) /\ p.spec.ports # {}

\* Once users stop, Deployment and Service have the size and the ports of the
\* proxy's spec and belong to it, and Available says so, even if they were
\* scaled or deleted by hand, calls failed, the manager was restarted, or the
\* proxy was deleted and created again.  A proxy without ports, whose Service the
\* API server refuses over and over, still gets its Deployment and its replicas.
ProxyConverges ==
  <>[](LET p == Live(proxy) IN
       /\ Wanted(p) => OwnedBy(Live(dep), p) /\ Live(dep).size = p.spec.size
       /\ Serves(p) =>
            /\ OwnedBy(Live(svc), p)
            /\ Live(dep).ports = p.spec.ports /\ Live(svc).ports = p.spec.ports
            /\ p.status.available = <<"Created", p.spec.size>>)

\* Objects made by hand under the proxy's name are taken over: they get size and
\* ports of the spec, although they have no owner and so raise no events.
HandMadeConverge ==
  <>[](LET p == Live(proxy) IN
       Serves(p) =>
         /\ Live(dep).exists /\ Live(dep).size = p.spec.size
         /\ Live(svc).exists
         /\ Live(dep).ports = p.spec.ports /\ Live(svc).ports = p.spec.ports)

Quiet ==
  /\ pc = "idle" /\ ~queued /\ ~timer
  /\ Synced(proxy) /\ Synced(dep) /\ Synced(svc) /\ \A n \in Names : Synced(cms[n])

\* Reconciliation comes to an end: the events of Reconcile's own writes and its
\* requeues do not keep it going for ever, save for a proxy without ports.
Settles == <>[](Quiet \/ (Wanted(Live(proxy)) /\ ~Serves(Live(proxy))))

\* A proxy marked for deletion goes away, in the background and in the
\* foreground.
DeletionCompletes == []<>~(Live(proxy).exists /\ Live(proxy).deleting)

\* Deployment and Service go after their proxy.
DependentsCollected ==
  <>[](~Live(proxy).exists => ~Live(dep).exists /\ ~Live(svc).exists)

\* The ConfigMaps that at least one ruleset selects.
Mounted(p) ==
  {n \in Names : \E i \in 1..Len(p.spec.rulesets) :
                   Selects(p.spec.rulesets[i], Live(cms[n]))}

RightMounts ==
  Wanted(Live(proxy)) /\ Live(dep).exists /\ Live(dep).tagged =>
    {n \in Names : Live(dep).conf[n] > 0} = Mounted(Live(proxy))

\* With the periodic resync, the Deployment ends up with the ConfigMaps that
\* the rulesets select, whatever happened to ConfigMaps, labels and rulesets, and
\* although an Update of the mounts is refused whenever a rollout came first.
MountsConverge == <>[]RightMounts

------------------------------------------------------------------------------
(***************************************************************************)
(* Properties the repository states and the code does not have.            *)
(***************************************************************************)
\* "ensuring that the actual state of the resource matches the desired state":
\* with no work left, the Deployment has the mounts that the rulesets ask for.
MountedWhenQuiet == Quiet => RightMounts
==============================================================================
