# kube-vnet: a TLA+ verification project

kube-vnet is a Kubernetes operator. Users declare `VirtualNetwork`s and let pods
join them by labels, bindings and baselines; the operator turns that into
NetworkPolicies. This directory holds TLA+ models of its controllers and webhooks, TLC
configurations that check them on small instances, and TLAPS proofs, for instances of
any size, of every safety property that those runs find to hold: of the loop that resolves
directions, of the resolution controller and the webhooks beside it, of the vnet controller,
of the network wait, and of the other controllers, which are shown to implement what
`LevelTriggered` promises of all.

```
cd tla
tlc -workers 2 -config Resolution.cfg MCResolution     # one run
tlapm MembershipProofs.tla                             # the proofs of one module
```

`PROJECT.json` lists the runs, the source lines each definition models, one
mutant per checked property (a plausible bug the property must catch), the
hazards and the theorems.

## 1. Inventory of the system

Paths are relative to `src/internal/controller/` unless they start with `src/`.
Everything the operator does is a reconcile loop over informer caches. A watch
event updates a cache, a handler maps the event to work items, one worker per
controller takes an item, reads the caches (a few reads go to the API server
directly), and issues one API call after the other. An error puts the item back
into the queue. Nothing is persisted except the Kubernetes objects.

| Component | State | Operations | Talks to |
|---|---|---|---|
| Direction algebra, `Resolve` (`policy_generator.go`, `resolution.go`) | none | intersect within a tier, cascade over tiers, report conflicts and rejections | called by the Resolver |
| Resolver, permits, namespace filter (`resolver.go`, `permits.go`, `namespace.go`) | none | read three tiers, drop rules that are not permitted, `DesiredLabels` | called by the resolution controller, the webhook, and for permissions by the vnet controller |
| Resolution controller (`resolution_controller.go`, `stamps.go`) | stamps and marker on pods | `Reconcile`, `applyResolution`, `stripStampedLabels`, six watches | stamps are the vnet controller's input |
| VirtualNetwork controller (`virtualnetwork_controller.go`, `policy_generator.go`, `sweep.go`) | NetworkPolicies and vnet status | discover members, generate, apply, sweep, update status, purge; four watches and a ten-minute timer | reads stamps, watches its own policies |
| Binding controller (`virtualnetworkbinding_controller.go`) | binding status | report how many pods a binding reaches | shares `isStampedMember` |
| System vnet controller (`system_vnet_controller.go`) | the vnets named `cluster` and `namespace` | create, repair, remove | vnet controller serves them |
| Namespace baseline controller (`namespace_reconciler.go`, `baseline.go`) | default-deny policies | apply or remove per namespace | |
| External-allow and apiserver-reachable controllers | policies per Service | select ports, wait for named ports, apply, sweep | `sweep.go`, `pod_ports.go` |
| HostPort controller | a policy per hostPort | apply, sweep | |
| Pod webhook (`src/internal/webhook/podresolution`) | none | stamp at admission, protect stamps, inject network wait | the second writer of stamps |
| Network wait (`src/internal/networkwait`, `src/cmd`) | none | poll until the network is up | |
| Signals, metrics | which policies this process applied, which warnings it gave; counters | emit events | every controller |

What is hard here, and what makes each part right:

* *Stale and non-atomic reads.* Every reconcile mixes reads of different caches
  at different times. Correct if whatever was read too early is read again.
* *Missed triggers* (ADR 0044). A mapping that reads caches, or a predicate that
  drops an event, may leave an object nobody looks at again. Correct if an
  object at rest is always what its inputs call for.
* *Partial failure.* A reconcile is a series of API calls; each may fail, and
  the operator may stop between any two of them. Correct if the rest is still
  done in the end, without undoing what other namespaces have.
* *Objects that outlive their owner.* Membership policies live in foreign
  namespaces; only the policies' own labels lead back to a deleted vnet.
* *Feedback.* The controllers watch what they write. Correct if they come to rest.
* *Two writers.* With the webhook on (it is off by default) pods are stamped at
  admission and by the controller, each from caches of its own moment. Correct
  if the two agree in the end, and if the validator never stands in the way of
  a request nobody tampered with.
* *Field ownership.* Objects are written by server-side apply, which sets what the
  desired form contains and leaves other fields to whoever set them.
* *Two controllers, one Service.* External-allow and apiserver-reachable sweep
  policies of the same owner. Correct if neither ever takes the other's for stale.
* *Timeouts.* The network wait polls, dials and sleeps against one deadline, and
  a named port is waited for with a timer. Correct if the deadline holds and the
  timer is never what correctness depends on.
* *The cascade.* Conflict detection and pinning work on running values. Correct
  if the result does not depend on the order of rules.

## 2. Modules

| Module | Models | Kind |
|---|---|---|
| `Direction` | directions, parsing, `intersect`, and the closed form of a cascade | operators |
| `Resolve` | the nested loop of `Resolve`, one action per loop step | state machine |
| `Resolver` | objects, permissions, tier rules, `DesiredLabels`, as operators over a view of the cluster | operators |
| `Resolution` | resolution controller between API server and caches; extends `Resolver` | state machine |
| `ResolutionProofs` | theorems about `Resolve`, `Resolution`, `Admission` and `NetworkWait` | proofs |
| `Membership` | vnet controller, on the stamps that resolution leaves; extends `Resolver` | state machine |
| `MembershipProofs` | theorems about `Membership` | proofs |
| `Admission` | the webhooks beside the resolution controller; extends `Resolution` | state machine |
| `LevelTriggered` | what every controller promises, over keys that are right and keys that are attended to | abstract specification |
| `Namespaced` | namespaces that come and go with a few objects of the operator in each, their watches, users and server-side apply | shared actions |
| `Baseline` | namespace controller with `applyPolicy` and sweep; extends `Namespaced`, implements `LevelTriggered` | state machine |
| `SystemVnets` | system vnet controller; extends `Namespaced`, implements `LevelTriggered` | state machine |
| `HostPort` | hostPort controller and the pods it reads; extends `Namespaced`, implements `LevelTriggered` | state machine |
| `ServicePolicies` | external-allow and apiserver-reachable controllers side by side; implements `LevelTriggered` | state machine |
| `BindingStatus` | binding controller; extends `Resolver`, implements `LevelTriggered` | state machine |
| `NetworkWait` | the wait's injection, its loop over beacons, and the report of a skipped wait | state machine |
| `NamespacedProofs` | lemmas about `Namespaced` that the next three share | proofs |
| `BaselineProofs`, `SystemVnetsProofs`, `HostPortProofs` | theorems about the namespace-keyed controllers | proofs |
| `ServicePoliciesProofs`, `BindingStatusProofs` | theorems about `ServicePolicies` and `BindingStatus` | proofs |
| `MCResolve`, `MCResolution`, `MCMembership`, `MCAdmission`, `MCBaseline`, `MCSystemVnets`, `MCHostPort`, `MCServicePolicies`, `MCBindingStatus`, `MCNetworkWait` | the instances | model values |

`ResolutionProofs` extends four state machines, three of which have prefixes of their own:
`ASpec`, `ATypeOK` and so on are `Admission`'s, `RSpec` is `Resolve`'s, `WSpec` and `WTypeOK`
are `NetworkWait`'s.

### Direction, Resolve, Resolver

A direction is the string of the code. `Resolve` takes for each tier and vnet
the sequence of rules in it and runs the code's loop: `StartVnet`, `MergeRule`
(intersect, disagreement against the running value, tags), `Cascade` (re-tag,
conflict, pin), `NextLayer`, `Finish`. Go iterates the vnets of a tier in
sorted order; the model takes any order. Its properties compare the outcome with the
closed form `EffectiveDirection` of `Direction`, which is also what
`Resolver!DesiredLabels` uses, so the controllers rest on a form that the run
`resolve_loop` compares with the loop.

`Resolver` works on a *view*: a record of namespaces, vnets, baselines,
bindings and pods. The API server's objects and a cache are both views. Labels
are abstract values (one label value per namespace and pod), selectors are sets
of them. A vnet is keyed by home and name; the cluster vnet has its own key.

### Resolution

`api` is what the API server stores and `cache` what the informers show;
`Deliver<Kind>` brings one object of the cache up to date (a watch may skip
intermediate versions, as a relist does) and leaves a note; `Handle<Kind>` maps
the note to pods with the caches as they then are; `Begin`, `ReadNamespace`,
`ReadTiers` (once per tier), `applyResolution` and `stripStampedLabels` are the
stages of `Reconcile`. `Patch` writes the difference to the pod as it was read
(`client.MergeFrom`): fields that did not differ keep the API server's value.
`ReconcileError` is any failing call, `Restart` loses queue, notes and job.
Users edit, create and delete every kind of object in between.

### Membership

The vnet controller with the same structure. `Restamp` is resolution from
outside: it patches a pod with what the caches call for. That is what
`Resolution` shows of its controller (a pod at rest has these stamps; before
that it may hold others for a while, which here is a `Restamp` that has not happened
yet). `behind` records the vnets and policies of which the cache has
not seen the latest version; it matters because status writes conflict on an
old version and because policies are applied against a live read but swept from the
cached list. The reconcile is `Begin` (missing vnet: purge), `CheckHome`
(excluded: `reportExcluded`, then purge), `discover`, `applyPolicy` per
namespace, `sweep`, `updateStatus`. Policies are reduced to their existence and
their peer namespaces; together with the stamps this determines which
connections they admit (`PolicyAdmits`). `Labelled` is the set of vnets with the operator's
managed-by label, which exempts them from the check of their home (`isSystem`).

Namespaces are deleted and created again under the same name. While one is terminating
its policies are left out of the applies but stay desired, creating anything
in it fails, and Kubernetes deletes its pods, vnets and policies and then
the namespace itself (`EmptyNamespace`), at any pace. The name `cluster` and the label are
reserved to the operator's own vnets by the chart's `system-vnet-vap.yaml`, and pods are found in namespaces
that exist.

### LevelTriggered

The abstract specification. A key (a namespace, a Service of one controller, a
binding) is *right* when the operator's objects for it are as the API server's
state calls for, and *attended* when it is queued, being reconciled, or an event that
leads to it is on its way. A key may leave `attended` only when it is right,
and a key that is not attended changes only by becoming attended in the same step
(`Safety`); and no key stays attended for ever (`ComesToRest`). Five modules
instantiate it (`Level == INSTANCE LevelTriggered WITH ...`). The safety half says
that no trigger is missed and no reconcile ends early: `IsLevelTriggered`, which is
checked and proved for all five. The liveness half (`ComesToRest`) is checked, and says that
the controller does not feed on its own writes or on retries that cannot succeed. Timers count
as attention nowhere, so none of this depends on one.

### Admission

A request in flight (`req`) passes `namespaceManaged`, `ReadTierFor` once per
tier and `Mutate`, then `Validate`, `ReadTierFor` again and `Judge`, and is
stored. Everything of `Resolution` may happen between any two of these steps
(`Meanwhile`). A failing mutator is skipped (`failurePolicy: Ignore`), a failing
validator denies (`Fail`). A request sets labels and joins, and may set stamps
itself (`forged`). An update is refused if the pod was written since it was
read (`latest`). `unseen` holds the pods with a write that passes `podPredicate` and
that the controller's watch has yet to show: a webhook's write may be undone by
the controller's next patch, and is an event nevertheless. Webhook and
controller share their caches, as in one replica.

### Namespaced, Baseline, SystemVnets, HostPort

The three controllers are keyed by namespace, watch all namespaces and their own
objects, and map an object's event to its namespace without reading caches.
An object is present or not, has the operator's labels or not (`labelled`), has
the fields an apply sets as desired or not (`owned`), and may have fields that
an apply does not set (`extra`: an ingress rule in the baseline,
`allowedNamespaces` in a `namespace` vnet). `Applied` is what a server-side apply
with forced ownership makes of it. `behind` holds the objects whose latest version
the cache lacks, `due` those with an event that passes the watch's predicate;
a write without effect makes neither. Users edit and delete objects, and create objects of
their own, without the operator's labels, under the names it uses (`CreateObject`): nothing reserves
the names of policies, and `system-vnet-vap.yaml`, which reserves those of vnets, may be absent
or disabled, which the code allows for (`system_vnet_controller.go:107`). So an object of the operator's
may be deleted and one of a user's stand in its place before a cache shows either. Users neither
add nor remove the operator's labels (`EditObject`): `system-labels-vap.yaml` refuses that. A
terminating namespace is emptied by Kubernetes and goes; creating an object in it fails.

`Baseline`: `Begin` reads the namespace, `applyPolicy` the cached policy, `Patch`
writes, `sweepStalePolicies` lists the cache, `DeleteStale` deletes one policy after
the other. `SystemVnets`: `applySystemVnet` patches without a read,
`deleteNamespaceSystemVnet` looks into the cache and deletes. `HostPort` adds the pods
and their own informer: `listPods` collects the declared ports from it, then one
`applyPolicy` and `Patch` per port, whose failure (`ApplyFails`) is remembered, keeps
the port's policy from the sweep and is returned at the end.

### ServicePolicies

Both controllers (`Kinds`) run the same actions with their own queue, worker and
timers, and read one cache after the other: `Begin` the Service (gone: `deleteByServiceKey`),
`Decide` the namespace (which with the opt-outs may close the Service), `Collect` the discovery
resources that refer to it (`collectReferencedPorts`, apiserver-reachable only), `Build` the
pods, from which `desired` resolves the ports of the policy. A named port without a pod makes
the Service wait: it is reported once per Service uid (`pending`, the `onceSet`
of `signals.go`), a timer is set, and the reconcile ends before the sweep. Otherwise
`applyPolicy` and `Patch`, then `sweep` of the other policies of the same owner and
kind. A Service, its pods, discovery resources and policies each have watches with
the mappings of the code (`namespaceToServices`, `podToSelectingServices`,
`discoveryToServices`, the owner of a policy). A Service that is deleted loses its policies
by garbage collection, at any time; one created under the same name has a new uid.
The keys of `LevelTriggered` are Services of one kind: such a key is attended while the
Service is in that kind's queue or work, or an event of its policy or of an object it
depends on (`Inputs`) is on its way.

### BindingStatus

`Begin` reads the binding, `CheckTarget` decides about namespace, direction, target
vnet and permission (`verdict`), `ListPods` selects and counts (`accepted`),
`writeStatus` writes if something differs, on the version that was read.
Resolution is seen from outside, as in `Membership`. The controller makes its
decision a second time, apart from `Resolver` and from the vnet controller;
the properties compare the two.

### NetworkWait

`Admit` is the creation of a pod with the webhook in reach or not, `ReportSkipped` the
resolution controller's check that a pod which asked has its container. The wait
itself: `Resolve` or `ResolveFails`, one dial per beacon at a time of its own (`Accept`,
`DialFails`), `Check`, then `Again` or `Expire`. Time passes in ticks while a
lookup, the dials or the sleep last. Beacons join and leave, nodes are programmed
at any time or never.

### Abstractions

* A pod is created only after the deletion of its predecessor has been seen
  (pods have generated names; a name is not reused within the watch's delay).
* In `Resolution` and `Membership` pods are created without stamps, as they are
  with the webhook off (the default) or failing; `Admission` has the webhook.
* In `Admission` one request is in flight at a time, and the network wait that the
  mutator injects is left out (`NetworkWait` has it). Namespaces and pods that the
  webhooks' selectors exclude are left to the chart's admission policy.
* Watches resume without losing events. (An object created and deleted again within a gap
  that ends in a relist would be invisible to an informer, and one replaced in it would look
  updated.)
* All rules of one tier are read in one step.
* Binding selectors are matched on the users' labels of a pod.
* Outside `Admission` users do not write stamps: the chart's admission policy
  or the webhook's validator refuses it.
* In `Membership` policies are not stripped of their labels (the chart's admission
  policy keeps users from it, from Kubernetes 1.30 on; the same in `Namespaced`), and which vnets have the managed-by label does not
  change; owner references and garbage collection are
  left out, so the purge alone removes policies (harder than in the code).
* In `HostPort` a namespace is disabled by either of the two annotations that the
  controller treats alike; a hostPort key is a port with its protocol.
* In `ServicePolicies` there is one namespace, a selector is a label value, one port
  name is in use, and a headless Service stands for an `ExternalName` too.
* In `BindingStatus` a binding under deletion counts as gone, and the two messages of
  one reason are told apart.
* In `NetworkWait` the program's own steps take no time, a restarted beacon is a new
  address, and the pod's and the container's restarts are left out. Bad
  arguments end `runNetworkWait` at once with an error, which the injected container
  does not give.
* A vnet's name is valid (the CRD's rule rejects others) and a vnet is deleted at
  once, without finalizers (`BindingStatus` has vnets under deletion); Events other than
  the reports of waits, metrics and wording are left out.

## 3. Runs

| Run | Question | Result |
|---|---|---|
| `resolve_loop` | Does the loop compute the closed form, report exactly the disagreements of a tier, and name the deciding tier in each rejection? | holds |
| `resolution` | A pod's namespace, vnet, baselines, binding and labels change while the worker reads the tiers one by one, a call fails or the operator restarts: does the pod come to rest, on events alone, with the right stamps? | holds |
| `membership_faults` | Any one edit and a failed call or restart, racing the worker and resolution, from starts a step from the hard cases (a team's vnet being served, a namespace under teardown that may come back, a joiner with an invalid direction whose namespace may lose its label, the cluster vnet without stamps): do policies and statuses converge, and do the controller's own writes stop feeding it? | holds |
| `admission` | Webhooks and controller write the same stamps; the caches move between mutator, validator and store; webhooks fail. | holds |
| `baseline` | Namespaces are disabled, enabled, deleted, recreated, baselines deleted, edited and replaced, with a failed call or restart: is the controller level-triggered? | holds |
| `system_vnets` | The same question for the system vnets; does a managed namespace keep its vnet? | holds |
| `host_ports` | The same question for hostPorts, with applies that fail one by one; does a failure close a declared port? | holds |
| `service_policies` | Two controllers on one Service, with pods, discovery resources, teardown, recreation and failures: are both level-triggered, do they leave each other's policies alone, is each wait reported? | holds |
| `binding_status` | Does a binding's status agree with the vnet controller and with resolution, and is it never frozen? | holds |
| `network_wait` | Does the wait release only what is programmed, end in time, tell the truth about why, and is it never skipped silently? | holds |
| `baseline_added_rule` | Is a rule added to `kube-vnet.base` removed? | violated |
| `service_policies_waiting` | Is the policy of a Service that waits for a named port held back? | violated |

Properties:

* `NoMissedTrigger`: a pod that is neither queued, nor about to be, nor being
  worked on, nor awaiting the echo of a write, has the stamps its cached inputs
  call for.
* `JobIsCurrent`: what the worker has read so far is what the caches say, or its
  pod is due again.
* `QuietStampsAreGranted`: at rest, every stamp names a vnet that exists and
  admits the pod's namespace, and the namespace is managed.
* `Stabilises`, `Converges`: users stop, and everything comes to rest in the right state.
* `TrafficMatchesMembership`: at rest the policies admit a connection exactly
  when a served vnet makes one pod an initiator and the other a receiver.
* `NoOrphanPolicies`: at rest no policy of a vnet that is gone or excluded exists.
* `StatusIsAccurate`: at rest a served vnet's status lists its members, policies
  and invalid joiners for the current generation. Vnets with a terminating pod
  that still carries a stamp are exempt: such a pod stays a member until it is
  gone, and the pod's deletion brings the vnet back. The invalid joiners of a vnet with a
  selector may be out of date only while the vnet's ten-minute timer is running.

* `PodsAreRevisited`: `NoMissedTrigger` with the webhooks as a second writer.
* `HonestRequestsPass`: a request that touches no stamp itself is denied only if
  the validator failed or a cache moved between the two handlers' reads.
* `NoForgedStamps`: a pod never carries a stamp for a vnet that nothing anybody wrote
  to vnets and namespaces could let its namespace join, not even between two reconciles.
* `IsLevelTriggered`: the controller implements `LevelTriggered`. Right means: the
  baseline (`Baseline`), the system vnets (`SystemVnets`) exactly in the managed
  namespaces, a policy for exactly the declared hostPorts (`HostPort`), for the
  ports a Service asks for, owned by this incarnation of it (`ServicePolicies`), a
  status as the API server's state calls for (`BindingStatus`). A namespace that is
  being torn down, or a Service in it, is right whatever it holds: Kubernetes empties it.
  Right is about what the operator sets. A rule added to a baseline, which an apply leaves to others,
  and the policy that a waiting Service had before are the subject of the two violated properties;
  `allowedNamespaces` of a `namespace` vnet are left to others too (see the disagreements).
* `ComesToRest`: no key stays attended for ever, once edits and failures have ended;
  the two controllers of `ServicePolicies` do not undo each other's work.
* `VnetsInUseStay`: the operator takes the vnet from a namespace that is managed only while
  the namespace's own event is on its way or has queued it again, so that the vnet comes back.
* `DeclaredPortsStayOpen`: the operator deletes a policy of a declared hostPort only
  if another reconcile is certain to follow and put it back.
* `WaitsAreReported`: a Service that waits for a pod at rest has been reported, under
  its own uid, and has a timer.
* `PoliciesInUseStay`: the operator deletes a policy that is as it should be only on
  older information, and then looks again.
* `AttachedPodsAreMembers`: at rest the attached pods are the selected pods that the
  vnet controller takes for members.
* `ReadyMeansInEffect`: at rest a Ready binding is a rule of resolution for every pod
  it selects, and one that is not Ready adds nothing.
* `ReleasedMeansProgrammed`: a pod released before its time finds every node
  programmed that the last lookup knew and that is still there, and there was one.
* `NeverResolvedIsTrue`: a wait that says the Service never resolved is right.
* `SkippedWaitsAreReported`: a pod that asked for a wait and has none gets the Event.
* `EveryPodStarts`: the wait ends, whatever nodes, lookups and dials do. `WTypeOK`
  bounds its time by the maximum.

Each state machine has one type invariant, which its run checks in `Resolution`, `Membership`
and `NetworkWait`. In `Baseline`, `SystemVnets`, `HostPort`, `ServicePolicies`, `BindingStatus`,
`Admission` (`ATypeOK`) and `Resolve` (`LoopTypes` of the proofs) it is proved only.

### Disagreements with the documentation

Two are shown by a run that expects a violation; `PROJECT.json` quotes the sentence.

* `baseline_added_rule` (`baseline.go:37`): the desired baseline sets no `ingress`, so its apply
  does not own the field: a rule somebody adds to `kube-vnet.base` is noticed as drift, applied
  over, and stays (`docs/internals/architecture.md:81`: "a hand-added allow rule on an
  operator policy is removed on the next apply"). Membership policies do set the field and
  are repaired.
* `service_policies_waiting` (`external_allow_controller.go:214`): a Service that starts to wait
  for a named port returns before the sweep, so the policy it already has stays, with ports it
  no longer declares (`docs/guides/auto-allow.md:41`, the policy is held back; `:113`, other
  ports stay protected).

The others were met while modelling and are recorded here; no run expects them.

* `virtualnetwork_controller.go:633`: `nsToVnets` maps a namespace event to the vnets that admit
  the namespace *now*. A namespace that loses the label a vnet selects on is no longer mapped
  to it. Members do not depend on it, since their stamps change and the pod watch
  brings the vnet back. But a pod with an invalid direction has no stamp: it stays among the
  vnet's `InvalidJoiners` until the ten-minute timer, although pods of namespaces that are not
  admitted are to be left out (`docs/reference/api.md:167`). `StatusIsAccurate` says how
  long: a vnet whose invalid joiners are out of date has its timer running.
* `virtualnetwork_controller.go:147`: for an excluded home namespace the status write's error is
  dropped and no timer is set. After one failed write the vnet goes on reporting
  `PoliciesGenerated`, without a policy, until something else touches it
  (`docs/reference/api.md:159`). `StatusIsAccurate` speaks of served vnets only.
* `namespace_reconciler.go:88`: the watch's predicate looks at the new object's labels, so the
  edit that removes them is the one edit that is not noticed (`system-labels-vap.yaml:12` says
  that without the admission policy drift correction overwrites it within one reconcile cycle).
  Users of the model do not change the operator's labels.
* `system_vnet_controller.go:112`: the label that protects a vnet of others "in case the
  reserved-name VAP is absent or disabled" is that of the cached vnet; the delete goes by name.
  When the operator's vnet has been deleted and a user's created in its place before the
  informer shows either, the user's is deleted. The model has the history (`CreateObject`) and
  the delete by name, and no property says that it does not happen. A precondition on the uid
  would prevent it.
* `system_vnet_controller.go:133`: the desired `namespace` vnet sets no `allowedNamespaces`, so an
  apply leaves those somebody has set (`system-vnet-vap.yaml:34`: the reconciler "will also undo
  unauthorized edits within a reconcile cycle anyway"). `SystemVnets!Right` asks for the
  fields an apply sets.
* `external_allow_controller.go:506`: an update with equal labels is dropped, since "container
  ports are immutable" (`:483`). A pod replaced under its name while the watch is interrupted
  is such an update, and has ports of its own: the Service's policy would go on opening
  the old pod's. Watches of the model resume without losing events.
* `namespace_reconciler.go:64`: the controller decides by the cached policy whether it
  creates one. A second reconcile that comes before the cache shows the first one's
  policy reports `PolicyRestored` for a policy that nobody deleted
  (`docs/guides/troubleshooting.md:674`: "absent immediately before its apply call").

### Bounds and why they are enough

`MaxEdits` bounds user edits (in Membership timer expiries too) and `MaxFaults`
failed calls and restarts. Between edits everything may run to rest or not
at all. A missed trigger needs one event that is dropped and one reconcile that
has read too early, so two edits with any interleaving are the smallest
interesting case, which the two-edit runs below have. `resolution` has one edit and a fault, with
every tier in play, and `membership_faults` one edit, or expiry of the timer, and a fault, from
starts that are one step from the hard cases (a namespace in the middle of its teardown, a
joiner with an invalid direction, a vnet with stamps and no policies): what several edits can do
to their safety properties is covered by the theorems of section 4, and the runs' own question is
whether the system comes to rest.
Two namespaces tell a vnet's home from a member's; the cluster vnet needs a third (the
operator's, excluded). One policy per namespace and two namespaces make an apply
that fails while another succeeds. Sets of values are chosen so that every
edit changes what some pod may do. `Resolve` treats vnets independently,
so two vnets show interference if there were any; up to three rules in a tier
are needed for an intersection that is disjoint only with the third.

`admission` has one pod and two edits, since each request already interleaves
with everything `Resolution` does. The namespace-keyed controllers treat
namespaces independently; a managed and an unmanaged (or the operator's) one cover
the branches; two edits disable and enable (or delete and recreate) within one
reconcile, and `system_vnets` has a third, to damage an object or to put a user's in its place meanwhile. `host_ports` has
two edits and two faults: a rollout takes both edits, and both ports' applies may fail.
`service_policies` has one edit and one fault, but starts in five clusters that
are each a step from the hard cases (a legacy policy, a named port with and without its
pod, an internal Service that opted in, and a Service that is gone with its policies still
there, so that the one edit creates it again while they are deleted by label), and two uids
(`MaxUid`), which is one recreation. The runs that expect a violation have the
fewest edits and faults that show it. `binding_status` has two edits, so that the target's namespace changes while
a status is computed, and one fault. `network_wait` has two beacons, one of which may
leave while the other joins, a maximum of four ticks, which allows two rounds of dials
that time out (two ticks each) or more rounds with sleeps of one, and two changes of pod
and namespace.

Deadlock checking is off: with bounded edits, a system at rest is the goal, and
`Resolve` returns.

### Fairness

`Resolution!FairSpec` assumes weak fairness of `Work` (informers, handlers and worker
together): every step of it makes progress towards rest, and goroutines of a
running process do run. In Membership a worker that retries on an old version
could postpone the event it waits for, so `FairSpec` has a weak fairness condition
for informers, handlers and resolution and one for the worker; the code gives
more, as each of these is a goroutine of its own. `Baseline`, `SystemVnets`, `HostPort` and
`BindingStatus` assume weak fairness of the informers and of the worker,
`ServicePolicies` of the informers of inputs, the informer of policies and of each
controller's worker, `NetworkWait` of the container (its own steps and the passing of
time) and of the kubelet that starts the app. Nothing is assumed of timers, of
the garbage collector, the teardown of namespaces, nodes, lookups and dials,
of resolution in `BindingStatus`, nor of users, failures and restarts (which are
bounded).

## 4. Proofs

Every theorem holds for all values of the constants that satisfy the assumptions of the
module it is about: any sets of namespaces, pods, vnets, bindings, ports, beacons, any
bounds on edits and failures. The assumptions say that constants have their types and
that users write well-typed objects (`LayerInputsAssumption`, `NamesAssumption`, `ValuesAssumption`,
`NamespacedAssumption`, `PodsAssumption`, `BindingsAssumption`, `ClustersAssumption`,
`RequestsAssumption`, `ServicesAssumption`, `TicksAssumption`, `SystemAssumption`, `PoliciesAssumption`). Three
say more:

* `StampsAssumption` (`Admission`): the stamps a starting operator finds were put there by
  an operator, so they name vnets that could be made to admit the namespace.
* `ReservedNameAssumption` (`Membership`): the chart's `system-vnet-vap.yaml` lets only the
  operator make a vnet named `cluster`, in its own namespace and with its label, and
  the operator's admits every namespace.
* `HomesAssumption` (`Membership`): the pods a starting operator finds are in namespaces
  that exist.

The proofs about controllers have the same shape. The property says something of objects nobody is going to
look at again; it is not inductive, since the worker stops looking at an object on the
strength of what it read some steps ago. So the invariant adds three things: what the
cache does not show has an event under way (`CacheFollows`); what the worker holds is what
the caches say, or its object is due again (`JobIsCurrent`); and an object that is neither
due nor being worked on is right (`RestingIsRight`, `Rested`, `NoMissedTrigger`). In every
module the proof that the invariant is kept has one step per action.

### ResolutionProofs: Resolve

* `LoopInvariant`: `RSpec => []LoopInv`.
* `ResolveIsClosedForm`: `RSpec => []ResultIsClosedForm`.
* `ConflictsAreReported`: `RSpec => []ConflictsAreDisagreements`.
* `RejectionsAreReported`: `RSpec => []RejectionsNameTheDecidingTier`.

The closed form is defined by sets, of directions and of tiers, so the loop needs no
induction over sequences, only an invariant. `Heard(v)` is what the tiers have asked for a
vnet up to where the loops have got. At every step `current` is the closed form of that, with
the default tag exactly while no tier has pinned the vnet (`CurrentIsClosedForm`), and the
reports are those due so far (`ReportsAreRight`). Within a group the running intersection has
the capabilities that the rules merged so far have in common, and `disagree` is set exactly
when two of them differ (`GroupIsMerged`): the code compares each rule with the running
intersection only, and `MergeRuleKept` shows that this misses no pair. `OneTierMore` is the
step of the cascade: a tier that speaks after the others decides unless one of them pinned.

### ResolutionProofs: Resolution

* `TypeCorrect`: `Spec => []TypeOK`.
* `InductiveInvariant`: `Spec => []IInv`, where `IInv` is the conjunction of `TypeOK`,
  `TerminationIsFinal`, `JobIsCurrent` and `NoMissedTrigger`.
* `NoTriggerIsMissed`, `ReadsAreCurrent`: its parts.
* `StampsAreGranted`: `Spec => []QuietStampsAreGranted`.

When the pod in the cache starts terminating the worker's copy is not updated and no
further look is needed; that the API server's pod then also is on its way
out is `TerminationIsFinal`, which makes the awaited echo of a patch arrive on a
pod that may be ignored.

The argument, in lemmas: what a tier's rules depend on (`LayerReads`,
`PermitsReads`); a delivery that changes one of these leaves a note that names
the pod (`UnnotedUnchanged`), an old note goes on naming it (`NotedPersists`), and
handling the note queues the pod (`HandledIsQueued`). The subtle case is a vnet
note: it is mapped with the admitted namespaces of the cache at handling
time, which may differ from those at delivery; a namespace whose labels change
in between has a note of its own. The worker's steps touch one pod
(`WorkerConcernsItsPod`), and a patch either changes nothing or is awaited
(`PatchIsAwaited`). `StampsAreGranted` follows since at rest a pod is settled,
and desired stamps come only from permitted rules.

### ResolutionProofs: Admission

Everything of `Resolution` may happen between two steps of a request, so these proofs
reuse the lemmas above.

* `AdmissionTypeCorrect`.
* `StoredPodsAreRevisited`: `ASpec => []PodsAreRevisited`. Invariant `WatchInv`: besides the
  core of `Resolution`'s, a pod that differs from the cached one in what `podPredicate` looks at
  is known to be unseen (`UnseenIsBehind`), and a request that is still `latest` replaces the
  pod it was made from (`LatestIsStored`). A store that changes what `podPredicate` looks at makes
  the pod unseen; one that does not changes nothing the controller would act on.
* `HonestRequestsArePassed`: `ASpec => []HonestRequestsPass`. While no cache has moved since
  the mutator's first read, both handlers have read the same tiers, and what the mutator
  wrote is what the validator expects (`HandlersAgree`).
* `StampsAreNotForged`: `ASpec => []NoForgedStamps`. Wherever a stamp can come from (the
  stored and the cached objects, the rules that the worker and the handlers have read, a request
  about to be stored), its vnet is one that the namespace could be let into
  (`SourcesAreGrantable`).

### BaselineProofs, SystemVnetsProofs, HostPortProofs

Each proves `TypeCorrect`, `InductiveInvariant` and `LevelTriggeredCorrect`:
`Spec => IsLevelTriggered`, the safety of the abstract specification, step by step under
the refinement mapping. The lemmas about watches, users and teardown are shared
(`NamespacedProofs`): after a step of users, Kubernetes or the informers an event is
due for the namespace, or none was before and nothing has changed that the
controller goes by (`Noticed`, `QuietNamespace`).

* `SystemVnetsProofs!VnetsInUseAreKept`: the worker deletes a vnet from a managed namespace only
  if the namespace is reconciled again. The decision to delete is made from the cache and
  carried out later; the conjunct `DeletesUnmanaged` says that from the first read on
  the namespace is not managed, or its own event is under way or has queued it.
* `HostPortProofs!DeclaredPortsAreKept`: the sweep deletes a declared port's policy only if
  the namespace is reconciled again. `KeepIsDeclared` carries what was listed through the
  loop of applies, and `PodsFollow` relates the pods' own informer to the pods.

### ServicePoliciesProofs

* `TypeCorrect`, `InductiveInvariant`, `LevelTriggeredCorrect` as above, for a Service and one of
  the two controllers (`Kinds \X Services` are the keys).
* `WaitsAreAlwaysReported`: `Spec => []WaitsAreReported`.
* `PoliciesInUseAreKept`: `Spec => PoliciesInUseStay`.

Here the invariant compares with the caches (`Wants`, what the caches ask for), since both
controllers decide from them, and `CacheFollows` carries that over to the API server. For
each key (`KeyInv`): unless it is queued again, what the worker has read so far of the Service,
its namespace and the discovery resources is what the caches show, and the policy it means to
apply is `Wants` (`ReadsAreCurrent`). The pods need a fact of their own: the handler enqueues
a Service whose selector a pod enters or leaves, and that is enough because a pod the cache shows
has the ports of the stored pod (`PortsAreKnown`). Then, what it has
applied is still there and what it has yet to delete is on its list (`WorkIsKept`); a key
without work or event has the policies it wants (`RestIsRight`) and, if it has to wait,
the report and the timer (`WaitIsReported`). `StageIsRight` keeps the stages apart: no stage
deletes a policy of the other kind, nor the one it has applied. A policy with a name from before
an upgrade (`legacy`) is never created, so the cache shows every one there is (`LegacyIsKnown`), which
makes the sweep from the cached list complete although nothing queues its owner for it.
The events of either kind's policies are handled by that kind alone; a step of one
controller leaves every key of the other as it was.

### BindingStatusProofs

* `TypeCorrect`, `InductiveInvariant`, `LevelTriggeredCorrect` as above, with a binding's
  status as what has to be right. The core of the proof is that a status depends on
  the binding, two namespaces, the vnet and the binding's pods only (`Concerning`), and that
  the mappings lead from each of these to the binding.
* `AttachedPodsCorrect`: the status agrees with the vnet controller on who is a member.
* `ReadyIsInEffect`: it agrees with resolution on whether the binding is a rule.

### ResolutionProofs: NetworkWait

* `WaitTypeCorrect`, with the clock within its maximum; `WaitInvariant`, whose conjunct
  `RoundsAreKept` says what the loop keeps from one round to the next: an address
  that accepted belongs to a programmed node, and the loop goes on exactly while one of
  the looked-up addresses has not.
* `ReleasedPodsAreProgrammed`, `NeverResolvedIsSaidTruly`, `NoWaitIsSkippedSilently`.

### MembershipProofs

* `TypeCorrect`: `Spec => []TypeOK`.
* `InductiveInvariant`: `IInv == Base /\ Rested /\ JobIsCurrent`.
* `OrphansAreSwept`: `Spec => []NoOrphanPolicies`.
* `TrafficIsMembership`: `Spec => []TrafficMatchesMembership`.
* `StatusesAreAccurate`: `Spec => []StatusIsAccurate`, with `TimerRuns`: a served vnet that is not
  due has its timer running (`Timed`).

Here "at rest means right" is false between events. A namespace that stops being admitted
is mapped to no vnet (see the disagreement above), so a vnet may rest with policies
for pods that are no longer its members; it is brought back only when resolution has
taken their stamps away. What does hold is a bound. `Sight(v)` is what the caches show
of a vnet: the pods that are certainly members (`Sure`: stamped, managed,
admitted, with no note under way), the pods that may have been when the worker looked
(`Possible`), and the same for reported joiners and terminating
namespaces. A vnet that is not `Due` has members, policies and status between the two
(`AtRest`), and so has what the worker has computed and applied so far (`TaskRight`).

The argument: a step after which the vnet is not due makes fewer pods sure and more
possible (`Narrows`), which keeps whatever lies between (`Kept`, `KeptIsRight`); every
other step makes the vnet due. The worker's plan is right when it is made
(`PlanIsMade`), an apply carries it on (`TaskAdvances`), and after the sweep
(`NothingStale`) and the status write it is the state of rest (`PlanIsRest`); a write that
changes anything makes the vnet due, since the controller watches what it writes.
`GoneIsEmpty` is needed where the cache stops showing a namespace as terminating: the
policies left out of the applies then must be gone. When nothing is in flight
every pod has the stamps its inputs call for, except terminating ones, so a live member
is a sure one (`LiveMembersAreSure`), the bounds coincide, and the theorems follow.

### Only model-checked

* Liveness: `Stabilises`, `Converges`, `ComesToRest` and `EveryPodStarts`. The prover does not
  handle fairness and `ENABLED`.

## 5. Not modelled

* The trackers behind `PolicyRestored` (`policyTracker` in
  `signals.go`), Events other than the reports of waits, and metrics: they report,
  nothing reads them.
* The manager, the command line (`src/cmd/main.go`) and the chart: what they fix is in the
  constants (excluded namespaces, the operator's namespace, the configured wait), and the
  admission policies appear as what users may not do.
* The beacon's accept loop (`Serve`, with its back-off): the wait sees a beacon that
  accepts or does not.
* Leader election: one operator works at a time; `Restart` is a change of leader too.
* Generated code (`zz_generated.deepcopy.go`), CRD manifests.
* Edits that strip the operator's labels from membership, hostPort and Service policies: the
  chart's admission policy refuses them; without it the watch predicates
  (`virtualnetwork_controller.go:605`) would not see the edit.

## 6. Plan

Done: `Direction`, `Resolve`, `Resolver`, `Resolution`, `Membership` with
terminating namespaces, `Admission`, `LevelTriggered` and the five modules that implement
it, `NetworkWait`; proofs about all state machines.

What is left: `Isolation`, an abstract specification of membership as an eventually
consistent function of the users' objects, implemented by `Resolution` and `Membership`
together. Now `Membership` takes from `Resolution` what `NoTriggerIsMissed` says of it (section 2).
