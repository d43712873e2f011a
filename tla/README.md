# A TLA+ model of the villip operator

The villip operator (`src/`) is a Kubernetes operator built with
controller-runtime. It reconciles two custom resources: a **VillipRules**
becomes a ConfigMap with a villip configuration, and a **VillipProxy** becomes
a Deployment of the villip proxy, with the ConfigMaps that its rulesets select
mounted into it, and a Service. This directory models both reconcilers, call by
call, against an API server that other actors write to and a cache that lags
behind it, and composes the two. TLC checks small instances; TLAPS proves every safety
property of the two reconcilers, and that the first implements an abstract mirror, for all
instances.

## 1. Inventory

### The system's parts

| Part | State it keeps | Operations | Interacts through |
|---|---|---|---|
| VillipRules reconciler (`villiprules_controller*.go`) | none of its own: local variables of one `Reconcile` | `Reconcile`, `initStatus`, `addFinalizer`, `villipRulesMarkedToBeDeleted`, `createConfigMap`, `updateConfigMap`, `rolloutDependentProxies` | reads the cache; writes rule, status, ConfigMap, **and the Deployments of the other reconciler** |
| VillipProxy reconciler (`villipproxy_controller*.go`) | ditto | `Reconcile`, `initStatus`, `addFinalizer`, `villipProxyMarkedToBeDeleted`, `createDeployment`, `deploymentUpdate`, `isRulesetsChanged`, `mountsForVillipProxy`, `createService`, `serviceUpdate`, `ManagePortChange` | reads the cache, **including the ConfigMaps of the other reconciler**; writes proxy, status, Deployment, Service |
| controller-runtime (external) | informer cache, work queue | delivers events, requeues, resyncs, serves `Get`/`List` from the cache | `SetupWithManager` says which events queue a key |
| API server, garbage collector, kubelets (external) | stored objects | compare resourceVersions, validate, mark and remove objects with finalizers, collect dependents | every `Create`/`Update`/`Patch`/`Status().Update` |
| API types (`api/v1`) | the shape of both resources | defaulting, validation | |
| `cmd/main.go` | none | flags, TLS, metrics; registers both controllers and runs them in one process | one API server, one restart for both |

Each controller has one worker (`MaxConcurrentReconciles` is not set), so two
reconciliations of one key never overlap. The two controllers, users, the
garbage collector and the Deployment controller do run concurrently.

### What is hard here

* **Everything read is old.** The manager's client serves `Get` and `List` from
  the informer cache, also the "re-fetch" before a status update. A decision may
  be about an object that has been edited, deleted or created again.
* **Writes store whole copies.** Only the resourceVersion stops an `Update` from
  undoing what others wrote; the JSON patches that remove finalizers carry none.
* **Any call may fail**, before or after it took effect, and several functions
  go on after a failure.
* **Both reconcilers write the same Deployments.**
* **Events are the only reason to look again.** What is not watched (ConfigMaps
  for a proxy, Deployments for a rule) is noticed late or never.
* Deletion in two modes, and deletion followed at once by re-creation.

`PROJECT.json` lists these hazards at their lines under `hazards`.

### What makes each part correct

* VillipRules: the ConfigMap converges to the YAML of the spec and carries the
  rule's labels; it is created only for a rule that the finalizer still holds;
  a deleted rule and its ConfigMap go away; users' edits survive; pods get the
  last configuration; the status tells the truth.
* Both together: the Deployment mounts a rule's ConfigMap just when a ruleset selects
  it, whichever came first; pods do not wait for a ConfigMap that is gone; the two do
  not keep each other busy.
* VillipProxy: Deployment, Service and status converge to the spec, mounts to
  the selected ConfigMaps; reconciliation comes to rest; the finalizer leaves
  after the final status; edits, foreground deletions and rollouts survive; a deleted proxy and its
  dependents go away.

## 2. Modules

| Module | Models |
|---|---|
| `KubeApi` | the environment: object logs, outcomes of a write, watch delivery, finalizers |
| `Mirror` | abstract: a reconciler that keeps one object equal to another |
| `VillipRules` | the VillipRules reconciler, its users, the garbage collector, the pods; implements `Mirror` |
| `KubeApiProofs` | lemmas on logs |
| `VillipRulesProofs` | proofs: types of `VillipRules`, `RulePinned` |
| `VillipRulesStepProofs` | proofs: its action properties |
| `VillipRulesMirrorProofs` | proof: it implements `Mirror` |
| `VillipProxy` | the VillipProxy reconciler, its users, the garbage collector |
| `VillipProxyProofs` | proofs: types of `VillipProxy` |
| `VillipProxyStepProofs` | proofs: `NoLostEdit`, `StampKept` |
| `VillipProxyFinalizerProofs` | proofs: `FinalizedFirst`, `ForegroundKept` |
| `MCVillipProxy` | specs of proxies for model checking |
| `Operator` | both reconcilers in one manager: instances of `VillipRules` and `VillipProxy` |
| `MCOperator` | specs of proxies for model checking `Operator` |

### Objects and the cache (`KubeApi`)

An object is a *log*: the sequence of the versions that the informer has not yet
passed. `Cached` (its head) is what `Get` and `List` return, `Live` (its last
element) is what the API server stores. A write appends, delivery of an event
takes the head off. A write that changes nothing creates no version and no
event, as in Kubernetes.

resourceVersions are abstracted to the one question they answer: is this copy
still the stored version? `ruleFresh`, `cmFresh`, `depFresh` (and `fresh` in
`VillipProxy`) say so; a read from the cache sets the flag if the cache is
synced, a write by anybody else clears it. An `Update` is accepted if the flag
is set; a JSON patch always is.

A write has three more outcomes than success: refusal (conflict, NotFound,
validation), a request that is lost, and an answer that is lost. The last two
count against `MaxFaults`, as does a restart of the manager, which forgets the
queue and the local variables and lists all objects anew.

### The reconcilers

`pc` names the next call of `Reconcile`; one action per read of the cache or
call to the API server, computation in between belongs to the action before it.
Actions keep the names of the functions (`initStatus`, `addFinalizer`,
`createCM` and so on). `GoOn` is the way on: to the next call, or out of `Reconcile`
with `"done"` (`Result{}, nil`) or `"requeue"` (an error or `RequeueAfter`,
either of which sets `timer`).

* `VillipRules`: a rule's spec is a version number, `Marshal` and
  `sumVillipRulesData` turn it into a text and a checksum of that text (SHA-256
  is taken to be injective). Deployments are abstracted to whether their `conf`
  annotation names the rule; `pods` records what text their pods have read. The
  List of `rolloutDependentProxies` returns all Deployments of the namespace: the
  cached client does not evaluate the label selector in `ListOptions.Raw`.
* `VillipProxy`: a spec has size, ports, rulesets (a sequence of label sets) and
  a target. Ports are sets, since both sides of every comparison are sorted; a
  port is listed at most once. `conf` counts how often each ConfigMap is named:
  the annotation and the volumes are lists and may name one twice, which the API
  server refuses (`Mountable`). `PortsDiffer` keeps the difference that
  `reflect.DeepEqual` sees between an empty list and nil. `tagged` and `owner` tell
  the operator's Deployment and Service from ones that users made by hand under the
  proxy's name. The target stands for every field that is applied on creation only
  (image, debug flag and labels are). `loc` holds the local
  variables, among them the loop over the rulesets, one `List` per step.

### The abstract specification and the refinement (`Mirror`)

`Mirror` says what `VillipRules` is for without caches, resourceVersions,
finalizers, failures or restarts: a reconciler reads ever newer versions of a
source and stores what it has read in a mirror. The mirror is written only while
the source is stored, a new one belongs to that source, the source is released
only once it is marked, and a collector removes the mirror of an earlier or
deleted source. `VillipRules` has the instance

| `Mirror` | `VillipRules` |
|---|---|
| `source` | uid, spec, existence and deletion mark of the stored rule |
| `read` | the spec of the copy while `Reconcile` is at work on the ConfigMap, else of the cached rule (`ReadVersion`) |
| `mirror` | existence, owner and text of the stored ConfigMap |
| `ops` | `edits`: users act freely, the reconciler and the collector do not |

and `ImplementsMirror` (`M!Spec`) is checked as a property. A step of `Mirror` may
write only `read`, and `read` never decreases: the hard part is that a pass with
an old copy, a restart in the middle of one, or a retry never stores an older text
over a newer one, nor one for a rule that is gone. `Mirror` states safety; that
the mirror catches up is `ConfigMapConverges`.

### The composition (`Operator`)

`Operator` repeats nothing. Each reconciler is an instance of its module that
sees the shared objects through a view: `Annotated` shows `VillipRules` of
each version of the Deployment only whether it names the rule's ConfigMap, `Labelled` shows
`VillipProxy` of each version of the ConfigMap only existence and labels. Where the
modules alone let "somebody else" write (`ProxyMounts`, `DepTouched`,
`RollDep`, `ConfigMapChanges`), here it is the other reconciler that does. A write of
the Deployment by one makes the other's copy of it out of date, which is
how conflicts between the two come about; an accepted rollout puts a new stamp on
the pod template (`Rollout`), and any change of the template replaces the
pods (`DepFollowers`). One process runs both controllers (`cmd/main.go:205-249`), so a
restart hits both. Both caches are one: one informer per kind.

### Abstractions, for both

* Cached reads do not fail once the cache is synced (error branches of `Get` and
  `List` other than NotFound are not taken), nor do `yaml.Marshal`, the hash and
  `SetControllerReference`.
* A condition is identified by its message; error texts inside messages, events
  and logs are left out.
* A restarted manager lists the objects as they are stored at that moment (`Relist`).
  client-go's first list may be answered from an API server's watch cache that is a little
  older; `RulePinned` and `ImplementsMirror` rest on its not being older than what the
  previous process had acted on.
* Removal of a Deployment, Service or ConfigMap is one step; deletion of rules and
  proxies goes through finalizers.
* `kubectl` retries its own conflicts, so a user's write is one step.

## 3. Runs

Every run ends within about two minutes on two cores. `CHECK_DEADLOCK FALSE` stands
where the system may really come to rest: when the resource is deleted, or (for
a proxy) when everything agrees and `Reconcile` returned without a requeue.

| Run | Expect | Shows |
|---|---|---|
| `rules_safety` | pass | `TypeOK`, `RulePinned`, `NoLostEdit` and the refinement `ImplementsMirror`, under user operations of every kind but a ConfigMap edited by hand (in `rules_live`), and one failure |
| `rules_rollout` | pass | `RolloutKeepsMounts`: a rollout never undoes a change of mounts; `ConfigMapConverges` also for a ConfigMap made by hand, without owner |
| `rules_live` | pass | `ConfigMapConverges`, `DeletionCompletes`, `ConfigMapCollected` after user operations and two failures |
| `proxy_safety` | pass | `TypeOK`, `FinalizedFirst`, `NoLostEdit`, `ForegroundKept`, `StampKept` |
| `proxy_live` | pass | `ProxyConverges`, `Settles`, `DeletionCompletes`, `DependentsCollected`, also for a proxy that has no ports or loses them |
| `proxy_mounts` | pass | `MountsConverge`, with the resync and with rollouts that compete with the Update of the mounts; `StampKept`: that Update undoes no rollout; `HandMadeConverge` for a Deployment or Service that was there before |
| `operator` | pass | `MountsSelected`, `PodsNotStuck`, `ComesToRest` of both reconcilers together |
| `rules_available` | violation | a lost status update leaves Available Unknown for ever |
| `rules_pods` | violation | a refused rollout is never retried |
| `proxy_watch` | violation | a ConfigMap that starts to match is not mounted |
| `proxy_overlap` | violation | overlapping rulesets can never be deployed |
| `operator_labels` | violation | proxies go by the labels a rule had when its ConfigMap was created |

A violation is a disagreement between the code and a comment or document of the
repository, quoted in `PROJECT.json` under `findings`. Further disagreements that the models
show under other constants, and that have no run of their own:

* After a failed Update of the ConfigMap, `updateConfigMap` goes on to record LastSum
  and Available=True, "ConfigMap updated" (`villiprules_controller configmap.go:134-171`).
  The next pass repairs it.
* Finalizers of a rule are removed by index of a re-fetched list, with patches that
  carry no resourceVersion (`villiprules_controller steps.go:69-75`): the
  garbage collector's foreground finalizer goes with the operator's, or instead of it.
* While the cache of ConfigMaps lags, a pass finds the old text again, fails to store the
  new one and nevertheless rolls out (`villiprules_controller configmap.go:134-173`):
  pods restart once more than they need to. `ComesToRest` shows that it ends.
* A ConfigMap of the rule's name that was there first is updated (`rules_rollout`) but
  gets no owner reference, and outlives the rule (`villiprules_controller.go:117`).
* A Deployment made by hand under the proxy's name has no `conf` annotation, which
  `isRulesetsChanged` takes for "no change": it never gets any mounts
  (`villipproxy_controller deployments.go:291-294`), nor rollouts.
* The re-fetch "so that we have the latest state" reads the cache and does not avoid
  the conflict it is meant to avoid (`villipproxy_controller steps.go:103-110`).
* A new target (and, by the same code, image or debug flag) never reaches an existing Deployment
  (`villipproxy_controller.go:129-164`).
* A proxy without ports, as in `config/samples/villip_v1_villipproxy.yaml`, never
  gets a Service and never becomes Available, nor is the failed Create reported in its
  status (`villipproxy_controller service.go:139`). That is why `Settles` and the
  second half of `ProxyConverges` are about proxies with ports.

**Bounds.** `MaxEdits` counts operations of users (and, for a proxy, rollouts and changes of ConfigMaps),
`MaxTouches` other writers of Deployments, `MaxFaults` failed calls and restarts.
Three edits let a rule be deleted, created again and edited while `Reconcile`
still works with its first incarnation; one fault between any two calls reaches
every error path; conflicts, the most frequent failure, need no fault and are
not bounded. `MaxLag` bounds how far the cache may lag before the garbage
collector acts again: with a cache that is never updated, `Reconcile` could create
an object and the collector remove it for ever. Two covers a creation and a
removal that the cache has both missed; `proxy_safety` and `proxy_live`, the largest
instances, have one: the collector removes only what the cache has seen created,
and `Reconcile` goes on for a while without having seen the removal.
`VillipRules` has one rule and at most
one Deployment, `VillipProxy` one proxy: rules and proxies are independent keys
that share nothing but the Deployments, and the other side's writes to those
are actions here (`ProxyMounts`, `DepTouched`, `RollDep`, `ConfigMapChanges`).
`SizeOrNoPorts` has two specs that differ in size and ports, one of them without ports.
`Operator` starts from rule and proxy in place (pods possibly still starting after
an earlier rollout), or one of them about to be created, and has one operation and
one fault: each operation then meets the other reconciler at every one of
its calls. What needs two operations is left to the larger bounds of the single
reconcilers' runs: races between two operations on one side, and an Update of the
mounts that competes with a rollout, which takes an edit of the proxy or a change of
the ConfigMap and one of the rule. `proxy_mounts` has that from the proxy's side
(`MountsConverge`, `StampKept`), `rules_rollout` from the rule's (`RolloutKeepsMounts`);
`StampKept` and `RolloutKeepsMounts` are also proved. With two operations, or with mounts
out of date at the start, `Operator` has several million states.

**Fairness.** Weak fairness of `Work` (the worker goroutine takes the next key
and `Reconcile` does not block for ever), of each watch stream, of the delaying
queue (`TimerFires`), of the garbage collector and the kubelets, and, in
`proxy_mounts`, of the informers' resync (ten hours by default; `main.go` does
not change it). Users, other writers, failures and restarts have none. That is
what controller-runtime and a running cluster provide; there is no strong
fairness. `Operator` assumes less: one weak fairness for each worker with its timers,
one for the watch of ConfigMaps, and one for all other watches, the garbage
collector and the kubelets together.

## 4. Proofs

TLAPS proves every invariant and every action property that the runs of the two
reconcilers check, and the refinement of `Mirror`, for any Deployments, ConfigMaps,
labels, specs, user operations and bounds. The assumptions are `BoundsAssumption` and
`UserOpsAssumption` of either module (natural bounds, known operations) and
`SpecsAssumption` of `VillipProxy` (some spec, of the right shape).

| Theorem | States | Invariant it rests on |
|---|---|---|
| `VillipRulesProofs!TypeCorrect` | `[]TypeOK` | inductive as it stands |
| `VillipRulesProofs!RuleStaysPinned` | `[]RulePinned` | `PinInv` |
| `VillipRulesStepProofs!EditsKept` | `NoLostEdit` | `PinInv` |
| `VillipRulesStepProofs!MountsKept` | `RolloutKeepsMounts` | `ListedCurrent` |
| `VillipRulesMirrorProofs!RulesImplementMirror` | `ImplementsMirror` | `PinInv`, `MirrorInv` |
| `VillipProxyProofs!TypeCorrect` | `[]TypeOK` | inductive as it stands |
| `VillipProxyStepProofs!ProxyEditsKept` | `NoLostEdit` | `CopyCurrent` |
| `VillipProxyStepProofs!RolloutsKept` | `StampKept` | `DepCurrent` |
| `VillipProxyFinalizerProofs!FinalizerKept` | `FinalizedFirst` | `FinalInv`, `AfterKnown` |
| `VillipProxyFinalizerProofs!ForegroundDeletionKept` | `ForegroundKept` | `CopyCurrent` |

`KubeApiProofs` has the lemmas on logs that all of them need: what a write, a
delivery and a relist make of the head, the end and the entries of a log. Every proof
of a step first says what a call does to a log (`WriteProxyEffect` and its like: accepted,
refused, or accepted with the answer lost) and how `Reconcile` goes on, then goes
through the actions.

**`VillipRules`.**

* `RulePinned` is not inductive: that the *cached* rule has the finalizer says
  nothing about the *stored* one. `PinInv` adds what relates them, for the versions
  of the rule that the cache has yet to see: uids never decrease (`UidsGrow`); only
  the incarnation that the cache knows can hold the finalizer, since `Reconcile` adds
  it to a version from the cache (`HeldByCached`); a deletion is not undone
  (`DeletionSticks`); and what any of them shows as held and not marked is stored and
  held (`HeldStaysHeld`). `Reconcile` removes finalizers only when every version that
  holds the finalizer is marked (`RemovesFromDeleted`), so that no later read can take
  the rule for a live one, and a fresh copy in `addFinalizer` is the cached and stored
  version (`AddsToCached`).
* `EditsKept`: the one call that stores a spec is the Update of `addFinalizer`, and by
  `AddsToCached` it stores the stored one.
* `MountsKept`: a listed copy that still carries the stored resourceVersion is the
  stored Deployment (`ListedCurrent`), so an accepted rollout writes back what it found.
* `RulesImplementMirror`: specs never decrease from cache to store (`SpecsGrow`), the
  copy that `Reconcile` goes by is not ahead of the cache, and is the stored spec when
  fresh (`CopyNotAhead`), and what `updateCM` is about to store is that copy's text in
  the ConfigMap that is there (`CopyToStore`). With `PinInv`, which keeps the rule in
  place meanwhile, each action is a read, a write or a release of the mirror, or a stutter.

**`VillipProxy`.**

* `ProxyEditsKept`: a copy of the proxy that carries the stored resourceVersion is the
  stored proxy (`CopyCurrent`), through re-fetches and after `Reconcile`'s own writes.
* `ForegroundDeletionKept`: by the same invariant an accepted Update of the finalizers
  starts from the stored ones, and drops none but the operator's; a proxy that keeps one
  is not removed.
* `RolloutsKept`: the copy of the Deployment is changed in between (size, mounts,
  ports) and survives failed calls and the re-fetch of the *proxy*; what is kept is
  its stamp (`DepCurrent`), at the calls that still have it in hand (`HoldsDep`).
* `FinalizerKept`: `FinalInv` says, of the versions between cache and store, `UidsGrow`,
  `HeldByCached` and `DeletionSticks` as above, and that what has finalizers is there
  (`Present`: the garbage collector releases whatever is held by its own). In the deletion
  branch every version held by the finalizer is marked. The branch is entered with a
  cached version that is held and marked; by `HeldByCached` and `DeletionSticks` all later
  held ones are of that incarnation and marked, and it stays so, since nobody but
  `addFinalizer` adds the finalizer, and that only when nothing is on its way to the cache.
  With an accepted `finalized` before it, a fresh `removeFinalizer` finds "Finalized" stored.
  `AfterKnown` keeps the calls for the Deployment and the Service from leading into that branch.

Each of these invariants was first checked by TLC on the instances of `rules_safety` and
`proxy_safety` (or of the runs with mounts), save for `Present`, which an attempt to
prove the step of the garbage collector turned out to need. `TypeOK` of `VillipProxy`
types the target of a Deployment by the specs that there are (`Targets`).

**Only model-checked.** Liveness under fairness (`ConfigMapConverges`, `ProxyConverges`,
`Settles`, `MountsConverge`, `HandMadeConverge`, the deletions and collections, and all
properties of `Operator`, which are liveness too), which is out of this prover's reach, as
is `ENABLED`. The five expected violations are counterexamples of TLC.

## 5. Not modelled

* Most of `cmd/main.go` (flags, TLS, metrics, probes), generated deep copies, manifests
  and the Helm chart, test helpers: no behaviour of the operator.
* Two managers at a time. The flag `--leader-elect` is off by default
  (`cmd/main.go:70`), but the shipped manifests set it
  (`config/manager/manager.yaml:64`, `dist/chart/values.yaml:9`); the lease itself is
  controller-runtime's.
* Image, debug flag and labels of a proxy as fields of their own: like the target,
  which is modelled, they are applied on creation only.
* The Service's selector (`villip: <name>`), which no pod label of the Deployment
  matches (`villipproxy_controller service.go:102-104`); no property here is about traffic.
* The form of names: a rule's name that is no valid name of a volume is refused by the API
  server, as a duplicate is (`Mountable` has the duplicates only).
* ConfigMaps that are not the operator's: a ruleset without labels selects those, too
  (`villipproxy_controller deployments.go:241-249`). `Names` has the rules' ConfigMaps only.
* Finalizers removed by hand, and resources that are created with finalizers, as a
  restored backup may be.
* The field index on `.metadata.controller`: nothing queries it.

## 6. Plan

1. Done: `KubeApi`, `VillipRules` with its runs and its refinement of `Mirror`,
   `VillipProxy` with its runs, `Operator`; proofs of all safety properties of the two
   reconcilers and of the refinement.
2. Safety of `Operator`: the invariants and action properties of each reconciler hold
   in the composition too, where the other one makes the writes that the modules alone
   leave to somebody else, the race of rollouts and mounts included. Each step of
   `Operator` is, in the view of one reconciler, a step of its module or one that
   `ListedCurrent`, `DepCurrent` and the rest survive.
