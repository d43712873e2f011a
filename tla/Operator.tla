------------------------------ MODULE Operator -------------------------------
(***************************************************************************)
(* Both reconcilers of the operator in one manager, over one API server: a *)
(* rule and a proxy of one namespace, with the ConfigMap that the first    *)
(* writes and the second lists, and the Deployment that both write.        *)
(*                                                                         *)
(* Nothing of the reconcilers is repeated here.  Each is an instance of    *)
(* its module that sees the shared objects through a view: VillipRules     *)
(* sees of the Deployment whether it names the rule's ConfigMap,           *)
(* VillipProxy sees of the ConfigMap whether it exists and its labels.     *)
(* An action of one reconciler leaves the locals of the other alone, save  *)
(* that a write of a shared object puts the other's copy out of date.      *)
(***************************************************************************)
EXTENDS KubeApi

CONSTANTS
  RuleName, ProxyName,  \* the rule and its ConfigMap; the proxy and its Deployment
  Labels, Specs,        \* the labels of rules, the specs of proxies
  RuleOps, ProxyOps,    \* the operations users perform on either side
  MaxEdits, MaxFaults, MaxLag

VARIABLES
  rule, cm, proxy, dep, svc,           \* object logs
  pods,                                \* what the pods have loaded
  ruleFresh, cmFresh, depFresh,        \* VillipRules: resourceVersions,
  rpc, rcopy, mcopy, nfin, idx, todo, listed, rqueued, rtimer,  \* locals, queue
  fresh, ppc, loc, pqueued, ptimer,    \* VillipProxy: the same
  edits, faults

ruleLocals  == <<ruleFresh, cmFresh, rpc, rcopy, mcopy, nfin, idx, todo, listed, rqueued, rtimer>>
proxyLocals == <<ppc, loc, pqueued, ptimer>>
objects     == <<rule, cm, proxy, dep, svc, pods>>
vars        == <<objects, ruleLocals, depFresh, proxyLocals, fresh, edits, faults>>

\* What VillipRules sees of the Deployment's log.
Annotated(log) ==
  [i \in 1..Len(log) |-> [conf |-> log[i].exists /\ log[i].conf[RuleName] > 0]]

\* What VillipProxy sees of the ConfigMap's log.
Labelled(log) ==
  [i \in 1..Len(log) |-> [exists |-> log[i].exists, labels |-> log[i].labels]]

R == INSTANCE VillipRules WITH
       Deps <- {ProxyName}, UserOps <- RuleOps, MaxTouches <- 0, touches <- 0,
       dep <- [p \in {ProxyName} |-> Annotated(dep)],
       pc <- rpc, queued <- rqueued, timer <- rtimer

P == INSTANCE VillipProxy WITH
       Names <- {RuleName}, UserOps <- ProxyOps, Resync <- TRUE,
       cms <- [n \in {RuleName} |-> Labelled(cm)],
       pc <- ppc, queued <- pqueued, timer <- ptimer

\* The rule as its reconciler leaves it when nothing else happens, or no rule.
InitRule(there) ==
  \E labels \in SUBSET Labels :
    LET new == R!NewRule(R!NoRule, labels) IN
    /\ rule = <<IF there
                THEN [new EXCEPT !.fins = <<Finalizer>>, !.available = "Created",
                                 !.lastSum = R!sumVillipRulesData(R!Marshal(new.spec))]
                ELSE R!NoRule>>
    /\ cm = <<IF there THEN R!configMapForVillipRule(new) ELSE R!NoCM>>
    /\ rtimer = there

\* Likewise the proxy, with its pods running.
InitProxy(there) ==
  \E spec \in Specs :
    LET new   == P!NewProxy(P!NoProxy, spec)
        names == [n \in {RuleName} |-> IF n \in P!Mounted(new) THEN 1 ELSE 0]
    IN  /\ proxy = <<IF there
                     THEN [new EXCEPT !.fins = {Finalizer},
                                      !.status.available = <<"Created", spec.size>>]
                     ELSE P!NoProxy>>
        /\ dep = <<IF there THEN P!deploymentForVillipProxy(new, names) ELSE P!NoDep>>
        /\ svc = <<IF there THEN P!serviceForVillipProxy(new) ELSE P!NoSvc>>

\* Rule and proxy are both in place, or one of them is yet to be created; pods
\* with the rule's ConfigMap may still be starting, after an earlier rollout.
Init ==
  /\ \E ruleThere, proxyThere \in BOOLEAN :
       (ruleThere \/ proxyThere) /\ InitRule(ruleThere) /\ InitProxy(proxyThere)
  /\ \E rolling \in {FALSE, Live(cm).exists /\ Live(dep).conf[RuleName] > 0} :
       pods = [p \in {ProxyName} |->
               [rolling |-> rolling,
                loaded |-> IF Live(dep).conf[RuleName] > 0 THEN Live(cm).data ELSE R!NoText]]
  /\ ruleFresh = FALSE /\ cmFresh = FALSE /\ depFresh = {}
  /\ rpc = "idle" /\ rcopy = R!NoRule /\ mcopy = R!NoCM /\ nfin = 0 /\ idx = 0
  /\ todo = {} /\ listed = R!NotListed /\ rqueued = FALSE
  /\ fresh = {} /\ ppc = "idle" /\ loc = P!NoLocals /\ pqueued = FALSE /\ ptimer = FALSE
  /\ edits = 0 /\ faults = 0

------------------------------------------------------------------------------
(***************************************************************************)
(* The VillipRules side.                                                   *)
(***************************************************************************)
ProxyAlone == UNCHANGED <<dep, proxy, svc, proxyLocals, fresh>>

\* Every call of Reconcile but a rollout that is accepted.
RulesWork == ProxyAlone /\ R!Work

\* An accepted rollout: a new time stamp on the pod template.
Rollout ==
  /\ rpc = "rollout"
  /\ dep' = Append(dep, [Live(dep) EXCEPT !.stamp = 1 - @])
  /\ fresh' = fresh \ {"dep"}
  /\ UNCHANGED <<proxy, svc, proxyLocals>>
  /\ R!rolloutOne(ProxyName)

DeliverRule == ProxyAlone /\ R!DeliverRule

DeliverCM == ProxyAlone /\ R!DeliverCM

RulesTimer == ProxyAlone /\ R!TimerFires

RulesCollect == ProxyAlone /\ (R!GCConfigMap \/ R!GCRule)

RulesUsers == ProxyAlone /\ R!Users

\* New pods of a Deployment that exists.
PodsStart == Live(dep).exists /\ ProxyAlone /\ R!PodsStart(ProxyName)

------------------------------------------------------------------------------
(***************************************************************************)
(* The VillipProxy side.  A write of the Deployment puts the listed copy   *)
(* of VillipRules out of date, and a new pod template replaces the pods.   *)
(***************************************************************************)
RulesAlone == UNCHANGED <<rule, cm, ruleLocals>>

Template(d) == [exists |-> d.exists, ports |-> d.ports, conf |-> d.conf,
                url |-> d.url, stamp |-> d.stamp]

DepFollowers ==
  /\ depFresh' = IF Live(dep') = Live(dep) THEN depFresh ELSE {}
  /\ pods' = IF Template(Live(dep')) = Template(Live(dep)) THEN pods
             ELSE [pods EXCEPT ![ProxyName].rolling = Live(dep').exists]

ProxyWork == RulesAlone /\ P!Work /\ DepFollowers

ProxyDeliver ==
  RulesAlone /\ (P!DeliverProxy \/ P!DeliverDep \/ P!DeliverSvc) /\ UNCHANGED <<depFresh, pods>>

ProxyTimer == RulesAlone /\ P!TimerFires /\ UNCHANGED <<depFresh, pods>>

ProxyResync == RulesAlone /\ P!ResyncFires /\ UNCHANGED <<depFresh, pods>>

ProxyCollect == RulesAlone /\ (P!GCDep \/ P!GCSvc \/ P!GCProxy) /\ DepFollowers

ProxyUsers == RulesAlone /\ P!Users /\ DepFollowers

------------------------------------------------------------------------------
\* One process runs both controllers: they die and start again together.
Restart ==
  /\ cm' = Relist(cm) /\ dep' = Relist(dep)
  /\ R!Restart /\ P!Restart

Next ==
  \/ RulesWork \/ Rollout \/ DeliverRule \/ DeliverCM \/ RulesTimer \/ RulesCollect \/ RulesUsers
  \/ PodsStart
  \/ ProxyWork \/ ProxyDeliver \/ ProxyTimer \/ ProxyResync \/ ProxyCollect \/ ProxyUsers
  \/ Restart

(***************************************************************************)
(* Fairness: each worker with the timers of its queue, the watch of        *)
(* ConfigMaps, and, as one, the other watches, the garbage collector and   *)
(* the kubelets.  This is less than either module assumes of them.         *)
(***************************************************************************)
RulesSide == RulesWork \/ Rollout \/ RulesTimer

ProxySide == ProxyWork \/ ProxyTimer \/ ProxyResync

Cluster == DeliverRule \/ ProxyDeliver \/ RulesCollect \/ ProxyCollect \/ PodsStart

Fairness ==
  WF_vars(RulesSide) /\ WF_vars(ProxySide) /\ WF_vars(DeliverCM) /\ WF_vars(Cluster)

Spec == Init /\ [][Next]_vars /\ Fairness

------------------------------------------------------------------------------
(***************************************************************************)
(* Properties that hold.                                                   *)
(***************************************************************************)
Mounts == Live(dep).exists /\ Live(dep).conf[RuleName] > 0

\* What isRulesetsChanged and mountsForVillipProxy see of the other reconciler's
\* ConfigMap, which comes and goes with its rule, is old, and only the resync makes
\* them look again; in the end the Deployment mounts the ConfigMap just when a
\* ruleset selects it.
MountsSelected ==
  <>[](P!Wanted(Live(proxy)) => (Mounts <=> RuleName \in P!Mounted(Live(proxy))))

\* Pods that start while rolloutDependentProxies restarts them, or the rule and
\* its ConfigMap are deleted under them, do not wait for ever for a ConfigMap.
PodsNotStuck == <>[]~pods[ProxyName].rolling

\* The reconcilers, which write the same Deployment and watch it, do not keep
\* each other busy: objects stop changing and pods are no longer restarted.
ComesToRest == <>[][UNCHANGED objects]_vars

------------------------------------------------------------------------------
(***************************************************************************)
(* Properties the repository states and the code does not have.            *)
(***************************************************************************)
\* "The operator relies on labels to determine which villiprule will be used by
\* a proxy instance": the labels of the rule, as they are now.
RuleLabelsCount ==
  <>[](Live(rule).exists /\ ~Live(rule).deleting /\ P!Wanted(Live(proxy)) =>
         (Mounts <=> \E i \in 1..Len(Live(proxy).spec.rulesets) :
                       Live(proxy).spec.rulesets[i] \subseteq Live(rule).labels))
==============================================================================
