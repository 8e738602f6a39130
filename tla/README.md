# TLA+ specifications of the Conduit operator

The operator turns a `Conduit` resource into a running Conduit server: a ConfigMap
with the pipeline, a Secret with the schema registry, a volume claim, a deployment
and a service. It does so in a reconcile loop against an API server that others
write to at the same time, reading from a cache that lags behind, and every write of
a `Conduit` passes through the operator's own webhook. These modules specify the loop,
the webhook and what they hand to the server, check them with TLC on small instances
and prove the most important safety properties with TLAPS for every instance.

## 1. The system

| part | source | state | operations |
|---|---|---|---|
| reconcile loop | `internal/controller/conduit_controller.go` | the Conduit being reconciled, the work queue; in the cluster the Conduit and its five objects | `Reconcile`, `CreateOrUpdate{Config,Secret,Volume,Deployment,Service}`, `UpdateStatus` |
| condition set | `api/v1alpha/condition.go`, `conduit_types.go` | the list of conditions in the status | `SetCondition`, `GetCondition` |
| configuration | `internal/controller/conduit_config.go` | none | `PipelineConfigYAML`, `SchemaRegistryConfig`, `EnvVars`, `envVarsFromSecret` |
| pod template | `conduit_containers.go`, `conduit_volumes.go` | none (a builder that deduplicates) | `ConduitInitContainers`, `ConduitRuntimeContainer` |
| arguments by version | `pkg/conduit/version.go` | none | `ForVersion` |
| admission webhook | `internal/webhook/v1alpha/conduit_webhook.go` | none | `Default`, `ValidateCreate`, `ValidateUpdate` |
| plugin validation | `pkg/conduit/conduit_validator.go`, `plugin.go` | list of connectors fetched at start | `ValidateConnector`, `ValidateProcessor` |
| manager | `cmd/operator/main.go` | none | start-up |

How they interact. A user writes a Conduit; the API server asks the webhook, which
asks the plugin validation. The informers bring the Conduit into the operator's
cache and put its key into the queue; a worker takes it and runs `Reconcile`, which
reads from the cache and writes to the API server. The cluster's own controllers
bind the volume, run the pod, report it in the deployment's status and collect the
objects of a Conduit that is gone. The operator's own update of the Conduit, for
the finalizer, goes through the webhook as well.

What is hard about it:

- every read is from the cache: an object just created is not there yet, the
  Conduit or its objects may have changed since;
- a reconcile is seven separate API interactions, any of which may fail, lose its
  answer, or be the last one before a restart, while users edit, delete and
  re-create the Conduit;
- ConfigMap, deployment, volume and service are not watched; only the requeue
  after 10 seconds brings the operator back;
- the status is put together from steps that partly fail without setting a
  condition;
- the webhook defaults and validates what the operator writes too, with a list of
  connectors fetched when it started and parameters fetched at every request;
- several results come out of Go maps, in another order every time: constraints on
  versions, the list of connectors, the variables of a secret.

`PROJECT.json` lists the hazards with the line where each bites and the property
that would catch it.

## 2. Modules

| module | what it is |
|---|---|
| `Conditions` | the condition set, as a function of the condition type |
| `ConditionList` | the same on the sorted list of the code, shown to do the same |
| `ConduitController` | the reconcile loop, API server, cache, webhook and cluster |
| `MCController` | specs, initial states and the handover between instances, which the runs share |
| `MCLifecycle`, `MCRollout`, `MCDeletion` | what happens in each run |
| `MCFindings` | statements of comments that the code does not keep |
| `ConduitLifecycle` | what the operator promises about a Conduit, without cache and loop |
| `ConduitImplements` | the refinement mapping from `ConduitController` to it |
| `Admission`, `MCAdmission` | both webhooks, the validator, and the requests that pass them |
| `Plugins` | names of plugins: which are allowed, what is derived from them, how they are looked up |
| `Versions` | versions, the constraints on them and the server's arguments |
| `Environment`, `MCEnvironment` | settings, the references in `pipeline.yaml` and the variables of the deployment |
| `InitContainers`, `MCInitContainers` | the init containers of a pod: builds, scripts and the volume they fill |
| `Lists` | loops that append to a list, and the sorts |
| `ListProofs` | lemmas about those, by induction over lists |
| `ConditionListProofs` | the sorted list: canonical, its times, and that it does what `Conditions` does |
| `ConduitControllerTypes` | lemmas about `SetCondition`, and type correctness |
| `ConduitControllerProofs` | finalizer, spec, status and Ready, writes to managed objects, and the pipeline a pod runs |
| `ConduitImplementsProofs` | `ConduitController` implements `ConduitLifecycle` |
| `AdmissionProofs` | the arguments of every version; defaulting, package, outage, parameters and arguments of stored Conduits |
| `EnvironmentProofs` | the variables of the deployment |
| `InitContainersProofs` | what is on the volume when the server starts, and when a command runs |

Definitions whose comment calls them a *variant* are not used: each is a plausible
mistake in the definition after it, put in its place to see that a property
notices.

### State and actions of `ConduitController`

| variable | stands for |
|---|---|
| `conduit`, `objs`, `ver` | the Conduit and the managed objects in the API server, with the last resource version of each |
| `cachedConduit`, `cachedObjs` | what the client of each instance of the operator reads |
| `ext` | contents of the ConfigMap and Secret of others a spec takes values from |
| `webhook` | the webhook answers and finds the plugins it looks up |
| `pod` | the server pod, with the template, pipeline and registry it was started with |
| `queued`, `pc`, `c` | for each instance: the key is queued; the step the worker is at; the Conduit it holds |
| `left` | bounds, see below |

Each `CreateOrUpdate*` call and `UpdateStatus` is one action, including the
condition it sets in its mutate function, the write it attempts and the condition an
error leaves. The beginning of `Reconcile` is four actions, one per return.

- *Why a step is atomic.* Within a step all reads are from the cache and there is at
  most one write. A change by others between read and write is the same as one that
  happened before the read and had not reached the cache.
- *What a write meets.* A create fails if the object exists, an update if it is gone
  or its version is another one than was read, an update of the Conduit also if the
  webhook refuses. Any write may lose its answer, carried out or not
  (`Spend("fault")`).
- *Panics.* An unparsable version panics inside the mutate function
  (`DeploymentPanic`); controller-runtime recovers the panic and retries.
- *Errors and delays.* A rate limited retry and the requeue after 10 seconds both
  are `queued = TRUE`: only real time tells them apart. Hence `Requeue` is `TRUE` at
  the end of every reconcile, and `FALSE` only after a successful removal of the
  finalizer and for a Conduit that is not there.
- *Times.* A `LastTransitionTime` is either the one that was stored or one of this
  reconcile; that is all the comparison in `UpdateStatus` depends on.
- *Resource versions* are counted per object, from 1. The code only compares them
  for equality, so nothing depends on other objects' writes in between. A uid is the
  version of the write that created the Conduit.
- *The webhook.* An update has to name a schema registry, whatever is in it besides;
  the version is only looked at on creation. Everything the webhook fetches from
  elsewhere is the variable `webhook`; `Admission` has it in detail. It fails closed.
- *Kept from the code on purpose.* A pipeline that cannot be rendered, a missing
  ConfigMap in the cache and a pending deployment set no condition; `UpdateStatus`
  records the generation only with other changes.

Left out: events and logs; labels and annotations other than
`config-map-version`; errors of reads (the cached client has only "not found");
more than one Conduit (they share nothing but the workers); finalizers of others;
a registry URL that does not parse (`Admission` and `Environment` have it).

The cluster (volume, pod, deployment status, garbage collection) is not part of the
repository and is modelled from how the operator uses it: the Recreate strategy
stops a pod whose template is not the deployment's before it starts another, and a
pod reads ConfigMap and Secret when it starts.

### The condition set

`Conditions` has `SetCondition` for a function from types to entries, which is what
the controller's specification needs. `ConditionList` has it as the code does:
replace or append in a list, sort, then look for failed and unknown ones and set
Ready. The property `ImplementsConditions` says that each call on the list is the
same call on the function. `Ready` itself is not among the types that are set: the
controller never sets it. The webhook's `Default` does, with all others, to Unknown where
a condition is missing (`conduit_webhook.go:85-90`), but on the submitted object. The
status is a subresource (`conduit_types.go:150`), so the API server drops what a create or
an update of the object says about it, and none of this is ever stored. `Admission` leaves
that loop out for the same reason.

### Init containers

`InitContainers` has `ConduitInitContainers` with its two builders (`addBuild` keeps
the first build of each key: the package of a connector, the name of a processor)
and the commands they render to, and the pod that runs them: `Run` and `Exit` for a
command that succeeds and a container that ends, `Fail` and `PodLost` for an attempt
that starts over, `Rollout` for the pod of another spec on the same volume. A
container loses its own files (`tmp`) when it ends or fails, the volume keeps its
own. `ConduitController` knows the outcome as the field `builds` of a template.

The package a connector is built from is the stored `pluginPkg`, which need not be that of
its plugin: a plugin written `Builtin:kafka` is a built-in one for the webhook, which then
leaves `pluginPkg` alone, and not for `ConduitInitContainers`, which looks for `builtin` in
small letters (`conduit_containers.go:127`). The package is then missing or left from the
plugin before an edit. `Published` is the set of packages `go install` finds; the run has
such connectors, with either package.

### What the operator promises

`ConduitLifecycle` has one variable for where a Conduit is (absent, accepted, guarded
by the finalizer, terminating), its spec, its status, whether that status is of the
current generation, and the kinds of objects it owns. `Guard`, `Adopt`, `Report` and
`Release` are the operator's, and their guards are the promise: nothing is adopted or
reported before the Conduit is guarded, a report is about the current generation, and
only what a user has deleted is released. `Accept` starts without status and objects,
whatever an earlier Conduit of the name left behind. `ConduitImplements` maps
`ConduitController` to it; an object counts as owned when its owner reference has the
uid of the stored Conduit.

### Admission

`Default`, `ValidateCreate` and `ValidateUpdate` are operators on a spec, named like
the code, with the validator's functions below them. The actions are the requests:
`UserCreates`, `UserReplaces` (another input), `UserEdits` (the stored object with all
that was defaulted in it, and another plugin), `AddFinalizer` and `RemoveFinalizer`
(the operator's). `Restart` fetches the list of connectors again or, when conduit.io
is down, starts without one; `SiteChanges` are changes of the web.

- A validator returns the set of verdicts it may reach. There is more than one where
  the code takes the first match in a map (`filterConnector`).
- A plugin is a record of its form (`kafka`, `builtin:kafka`, `org/name`,
  `github.com/org/name`, `Builtin:kafka`), organization and name, whether it has capital
  letters and whether blanks follow. The package made of it is the list of the path's parts,
  with `github.com` before whatever the plugin is, and the version. `conduit-connector-` is not part of a name; containment of
  names, which is what the validator compares with, is the constant `PartOf`.
- Of a release's parameters the model has which are required and which are known. A
  setting that takes its value from a ConfigMap has an empty one for the validator, which
  looks at values and secrets only; a required parameter given that way is refused.
- A registry URL that does not parse is refused on creation; on update the client
  library decides, so both verdicts are possible.
- The validation of a processor's module is "can be downloaded and registered".
- `answer` is the last request with its verdict, for the properties.

### Versions

A version is major, minor, patch and whether it is a pre-release. `ForVersion` returns
the set of argument lists the loop over the map may end with. `Wanted` is the
reference: what changed in the server's arguments, told feature by feature: the `run`
command, the dashes, what makes the server exit, how often it retries, and whether it gets
the pipeline file or its directory.

### Environment

One reconcile is the steps that write the ConfigMap, the operator's secret and the
environment of the deployment, with edits and changes of the ConfigMap and the secret
with credentials that a spec refers to between any two of them. Each may fail and leave
its object as it was: the pipeline for a missing ConfigMap, the secret for a registry URL
that does not parse or credentials that are not there, the deployment for a missing
ConfigMap or Secret of its own and for a version without arguments, known or not
(`ForVersion` returns an error or panics). Keys differ in a word, a separator and case, so that
`envVarName` maps different keys to one name. `MergeEnv` is the effect of the JSON
round trip on the list: element by element into what is there, cut off after the last,
and not at all if the new list is empty. Reads are of the stored objects here; the
cache is the business of `ConduitController`.

### Instances of the operator

`Operators` is the set of instances that share the API server; each has its own cache,
work queue and worker. There can be more than one: leader election is off by default
(`cmd/operator/main.go:75`, `charts/conduit-operator/values.yaml:17`), and with it an
instance that has lost its lease may be in the middle of a reconcile. The specification,
and with it every proof, is for any number of them, all of them reconciling at any time.

The runs have two at most, one of which is in charge (`leader` in `MCController`).
`TakeOver` is a start after which the old instance may still be in the middle of a
reconcile: it carries on with the cache it had, which no informer updates any more, and
does not start another. `lag` bounds, for each instance, its steps on outdated objects.

## 3. Runs

| run | module, cfg | checks |
|---|---|---|
| conditions | `ConditionList`, `Conditions.cfg` | `Canonical`, `TimeOfTransition`, `ImplementsConditions` |
| lifecycle | `MCLifecycle`, `Lifecycle.cfg` | `TypeOK`, `FinalizerFirst`, `SpecBelongsToUser`, `StatusOfCurrentSpec`, `ImplementsLifecycle` |
| rollout | `MCRollout`, `Rollout.cfg` | `PodRunsAnnotatedConfig`, `ReadySumsUp`, `StaysDone`, `Converges`, `UnsupportedNotReady` |
| deletion | `MCDeletion`, `Deletion.cfg` | `NoLostUpdate`, `DeletionCompletes`, `NothingLeftBehind` |
| init_containers | `MCInitContainers`, `InitContainers.cfg` | `ConnectorsInstalled`, `ProcessorsInstalled`, `OnlyFaultsFail`, `ServerStarts` |
| admission | `MCAdmission`, `Admission.cfg` | `PackageFollowsPlugin`, `OutageAdmits`, `BuiltinParametersChecked`, `ArgumentsFit`, `WriteBackKeepsSpec`, `DeletionSurvivesOutage` |
| environment | `MCEnvironment`, `Environment.cfg` | `VariablesWhole`, `WrittenFromOneSpec`, `ReferencesDefined`, `SourcesFollow`, `Settles` |

Run one with `tlc -config Lifecycle.cfg MCLifecycle`. Deadlock is checked where the
system never stops (rollout, admission, environment). It is not where it may: once the
budgets are used up and the Conduit is gone, or the pod serves, or the calls are over.

What the properties say:

- `FinalizerFirst`: a Conduit without the finalizer owns no object and has no status,
  also when another one of the same name had one before.
- `SpecBelongsToUser`: writing the Conduit back with another finalizer list never
  brings back an older spec.
- `StatusOfCurrentSpec`: conditions are stored only with the generation they were
  computed from, which is the current one.
- `NoLostUpdate`: no worker undoes what it has not seen. A step of a reconcile changes an
  object that is there only if its cache has that very object, whatever another instance,
  the cluster or a collected and re-created object has made of it.
- `ReadySumsUp`: Ready is True if and only if all others are, False if and only if
  one of them is.
- `PodRunsAnnotatedConfig`: a pod labelled with the current version of the ConfigMap
  runs the pipeline in it.
- `StaysDone`: when objects, conditions and caches are as the spec asks (`Done`), no
  step of the operator writes anything, and it stays that way, although a reconcile
  goes over all of it every 10 seconds. Resource versions are not bounded in the model,
  so that the run ends at all shows that other Conduits, those that cannot be deployed
  for example, come to rest as well.
- `Converges`: once users, faults and churn are over, objects, pod and Ready are as
  the spec asks.
- `UnsupportedNotReady`: a version without arguments ends in Ready = False, even if
  the pod of the version before still runs, provided the Conduit's ConfigMap and Secret
  are there. If one was deleted and cannot be written again, because a reference does not
  resolve, `CreateOrUpdateDeployment` returns before it gets to the version
  (`conduit_controller.go:352-362`) and sets no condition; the run has that case.
- `DeletionCompletes`, `NothingLeftBehind`: a deleted Conduit goes away, and so does
  everything created for it, even what is created after its deletion.
- `Canonical`, `TimeOfTransition`: the condition list is sorted without repetitions,
  and a transition time moves exactly when the entry says something else. Otherwise
  `UpdateStatus` would write a status every 10 seconds, and each write would queue the
  Conduit again.
- `ImplementsLifecycle`: every step is one of `ConduitLifecycle` or concerns nothing in
  it.
- `WriteBackKeepsSpec`: a finalizer update is defaulted again and comes out with the
  same spec.
- `PackageFollowsPlugin`: `pluginPkg` and `pluginName`, which are stored and submitted
  again, are those the connector has now. For a plugin `org/name` the package is that of
  the repository `github.com/org/name` in the version asked for, and the name is the
  standalone one; a built-in connector, however the prefix is written, has the plugin for
  a name. A plugin with `github.com/` is a case of its own (`BuiltFromRepository`, below).
- `OutageAdmits`, `DeletionSurvivesOutage`: while conduit.io is down, a stored Conduit
  without modules to download is admitted for certain, and a deleted one goes away even
  if the outage does not end. A registry URL that does not parse is left out: there the
  client library decides.
- `BuiltinParametersChecked`: a built-in connector that is admitted while its release
  can be fetched has settings that fit that release, if no other listed name contains
  its own.
- `ArgumentsFit`: a stored Conduit has the arguments its version takes, whichever
  constraint is tried first, or none.
- `VariablesWhole`, `SourcesFollow`: merging by position never makes a variable of two,
  and in the end the variables come from the secrets and keys of the current spec, if
  it has any, its version has arguments and the registry's data can be had. If it has no
  variables the list is not part of the document, and those of the spec before stay.
- `WrittenFromOneSpec`: a write of the deployment has the variables of the one spec the
  reconcile works on and of the operator's secret as it is stored, and among them all that
  the connectors' settings of the spec refer to. The secret may be of an older spec, when
  the registry's data cannot be had.
- `ReferencesDefined`: in the end the connectors' settings in `pipeline.yaml` refer to
  variables the deployment defines, if the pipeline can be rendered and the version has
  arguments. Without arguments `pipeline.yaml` is written and the deployment is not.
- `Settles`: the environment is not rewritten forever.
- `ConnectorsInstalled`, `ProcessorsInstalled`: when the server starts, every
  standalone connector and every processor with a URL is on the volume; the connectors
  provided each has the package of its own plugin and version. Otherwise a build may be
  dropped for that of another connector with the same package and another name. Two
  connectors of the same base name and version, or two URLs with the same last
  element, share a file, and two URLs of one processor name give one download; the
  properties allow for that.
- `OnlyFaultsFail`: whatever earlier attempts and specs have left on the volume, the next
  command finds the directory it writes to and the binary it installs, and is about a
  package of the spec; only a fault of the network or the node makes it fail, or a package
  that does not exist.
- `ServerStarts`: a script that broke off anywhere can be run again, if the packages exist.

### Bounds

`Bounds` is a set of alternatives; a behaviour starts with one of them, kept in
`left`. Each bounds what need not happen: edits by users, lost answers (`fault`),
restarts (`crash`), changes in the cluster (`churn`), and how many steps of a
reconcile may read an object that is not up to date in the cache (`lag`, one bound for
each instance). There is no bound on how long the cached Conduit is behind. A hazard here
takes two or three of these: an edit or a deletion at a particular moment, one stale
read, one fault.

| run | edits | faults | restarts | churn | lag | starts from |
|---|---|---|---|---|---|---|
| lifecycle | 4 (create, edit, delete, re-create) | 0 | 0 | 0 | 0 | nothing |
| | 3 (create, delete, re-create) | 0 | 0 | 0 | 1 | nothing |
| | 3 | 1 | 0 | 1 | 0 | nothing |
| | 2 (create, then edit or delete) | 0 | 1 (takeover) | 0 | 0 | nothing |
| rollout | 2 | 0 | 0 | 0 | 0 | deployed |
| | 1 | 0 | 0 | 0 | 1 | deployed |
| | 1 | 0 | 0 | 1 | 0 | deployed |
| | 0 | 1 | 0 | 1 | 1 | deployed |
| deletion | 2 (edit, delete) | 0 | 0 | 1 | 0 | deployed |
| | 1 (delete) | 0 | 1 (takeover) | 0 | 0 | deployed |
| | 1 (delete) | 1 | 0 | 0 | 1 | deployed |

In the run of the init containers there are one edit and two failures, of commands
or of the pod, over 67 specs with up to two connectors; it has 66,115 distinct states.

After a takeover the old instance may take further steps on outdated objects (`OldLag`):
one in the run of the lifecycle, four in that of the deletion. The rollout has one
instance; its safety properties are proved for any number. The runs have 783,951
(lifecycle), 173,148 (rollout) and 115,669 (deletion) distinct states.

The run of the admission has two requests of users and one change of the web; the
operator's writes and restarts are not bounded. Two requests are enough to store a
Conduit and edit it. One change is enough because it may begin with any list, and with
conduit.io up or down: a list fetched in one state meets a web in another, and while
conduit.io is down nothing else of it can be read; the safety properties are proved for
any number of changes. The processor's module is there in the beginning (`MCInit`), so
that the change may be its loss. The inputs
have at most one connector and one processor, since connectors are validated one by
one; versions lie on both sides of every boundary of the constraints. The run of the
environment has three edits among eight specs, so that the list of variables grows,
shrinks and moves more than once and a step fails in between, and two changes of the
ConfigMap and the credentials. They have 24,636 (admission) and 123,409 (environment)
distinct states.

Three edits are what it takes to delete a Conduit and meet its successor with a copy
of the first still around, and with the fourth that copy may be of either spec. The
state "deployed" (`Settled`) is one the specification reaches from `Init`: a ready pod,
all conditions True, an up-to-date cache.

`LateSync` lets an object reach the cache only right before a step that reads it.
Nothing else looks at the cached object, so this leaves out no behaviour of the
other variables except in when a Secret's event queues the key, which is queued by
every reconcile anyway.

### Fairness

The liveness runs of the controller assume weak fairness of the worker and the informers
of the instance in charge, and of the cluster's controllers. An old instance need not go
on. controller-runtime keeps handing out a queued key, watches are re-established, and
the Kubernetes controllers keep working; a step that may fail succeeds once the budget of faults is used up. Nothing is assumed of users,
faults, restarts and disturbances. A webhook that went down comes back
(`WebhookUp` is one of the cluster's steps): without it, a Conduit in deletion really
stays there. A Conduit that has become inadmissible in itself (a newer release has
another required parameter, a module is gone) stays in deletion too, until it is
edited; `webhook` stands for the other cases. For the admission it is weak fairness of
the removal of the finalizer, which the reconciler retries, for the environment that of
`Reconcile`, which is requeued. For the init containers it is weak fairness of `Run \/ Exit`: the
kubelet goes on with a pod, and commands do not fail for ever.

### Where the code and its comments disagree

Five runs are expected to find a violation. The first two are on `MCFindings`, start
from a deployed Conduit and need one edit; the other three are on `MCAdmission`,
with one input each.

| run | what the repository says | what the run shows |
|---|---|---|
| `registry_reaches_pod` | updates trigger a rolling upgrade (`conduit_controller.go:319`) | a new registry changes the Secret alone; the pod keeps the old one |
| `unparsable_version_shows` | conditions are set depending on the outcome (`:320`) | an edit to a version that does not parse is admitted, every reconcile panics, and the Conduit stays Ready |
| `secret_settings_admitted` | the samples put settings into secrets, a test "successfully decodes secret" (`conduit_validator_test.go:303`) | the secret is looked up without a namespace, and the Conduit is refused |
| `appropriate_plugin_checked` | the parameters are fetched "for the appropriate plugin" (`conduit_validator.go:217`) | a standalone connector is held against any entry of the list |
| `built_from_repository` | a plugin "with full url github organization" is accepted (`plugin_test.go:17`) | its package gets `github.com/` a second time and cannot be installed (`conduit_webhook.go:134`) |

More of the kind have no run: `UpdateStatus` "keeps the Conduit resource status
current" (`conduit_controller.go:543`) but records the generation only when a
condition changed; a pending deployment sets no condition at all (`:450`); a pipeline or
registry data that cannot be had (`:171`, `:226`) leave ConfigReady and SecretReady as
they were.

## 4. Proofs

For every set of specs, inputs, releases, lists and versions, any set of instances of
the operator and all bounds (that is, for any number of edits, faults, restarts and stale
reads), TLAPS proves

| theorem | module |
|---|---|
| `TypeCorrect`: `Spec => []TypeOK` | `ConduitControllerTypes` |
| `FinalizerFirstCorrect`: `Spec => []FinalizerFirst` | `ConduitControllerProofs` |
| `SpecBelongsToUserCorrect`: `Spec => SpecBelongsToUser` | `ConduitControllerProofs` |
| `StatusOfCurrentSpecCorrect`: `Spec => StatusOfCurrentSpec` | `ConduitControllerProofs` |
| `NoLostUpdateCorrect`: `Spec => NoLostUpdate` | `ConduitControllerProofs` |
| `ReadySumsUpCorrect`: `Spec => []ReadySumsUp` | `ConduitControllerProofs` |
| `StaysDoneCorrect`: `Spec => StaysDone` | `ConduitControllerProofs` |
| `PodRunsAnnotatedConfigCorrect`: `Spec => []PodRunsAnnotatedConfig` | `ConduitControllerProofs` |
| `ImplementsLifecycleCorrect`: `Spec => ImplementsLifecycle` | `ConduitImplementsProofs` |
| `ForVersionCorrect`, `AdmittedVersions`: what `ForVersion` returns for every version | `AdmissionProofs` |
| `WriteBackCorrect`: `Spec => WriteBackKeepsSpec` | `AdmissionProofs` |
| `PackageCorrect`: `Spec => []PackageFollowsPlugin` | `AdmissionProofs` |
| `OutageCorrect`: `Spec => []OutageAdmits` | `AdmissionProofs` |
| `ArgumentsCorrect`: `Spec => []ArgumentsFit` | `AdmissionProofs` |
| `BuiltinParametersCorrect`: `Spec => []BuiltinParametersChecked` | `AdmissionProofs` |
| `CanonicalCorrect`: `Spec => []Canonical` | `ConditionListProofs` |
| `TimeOfTransitionCorrect`: `Spec => TimeOfTransition` | `ConditionListProofs` |
| `ImplementsConditionsCorrect`: `Spec => ImplementsConditions` | `ConditionListProofs` |
| `VariablesWholeCorrect`: `Spec => []VariablesWhole` | `EnvironmentProofs` |
| `WrittenFromOneSpecCorrect`: `Spec => WrittenFromOneSpec` | `EnvironmentProofs` |
| `ConnectorsInstalledCorrect`: `Spec => []ConnectorsInstalled` | `InitContainersProofs` |
| `ProcessorsInstalledCorrect`: `Spec => []ProcessorsInstalled` | `InitContainersProofs` |
| `OnlyFaultsFailCorrect`: `Spec => []OnlyFaultsFail` | `InitContainersProofs` |

from assumptions named in the modules that declare the constants:

- `ConduitController`: specs are records of the right type, `None` is not a value, a
  Conduit or an object, a version is not both supported and unparsable, bounds are
  natural numbers;
- `Admission`: the versions of inputs are versions, left out or unparsable, every
  secret has a namespace and every release a tag;
- `ConditionList`: the types that are set are the dependent ones, as the controller does,
  never Ready itself;
- `Environment`: connectors and settings are lists, and the words of all keys have a
  place in the order of names;
- `InitContainers`: connectors and processors are lists, of any length.

**Finalizer, spec and status.** None of the three is inductive. `FinalizerFirst`
fails in the next step if the worker already holds a copy of the Conduit that says
it has the finalizer; the other two depend on what an accepted resource version says
about the rest of the copy, whichever instance sends it. `CoreInv` adds, for the cache and
the worker of every instance,

- `VersionsInv`: the stored Conduit has the last version handed out, every copy and
  every owner is no newer. So a new Conduit's uid is not in use anywhere;
- `CopiesInv`: a copy with the stored version is the stored Conduit (the worker's up
  to conditions). So an accepted finalizer update changes nothing else, and an
  accepted status was computed from the stored generation;
- `FinalizerInv`: while the Conduit has no finalizer, no cached copy of it has one
  and no reconcile past the check is about it.

`NextCore` goes through the actions; `StepEffect` and `QuietEffect` say what the five
`CreateOrUpdate*` steps, and the cluster, do to the part of the state these are about.
The two action properties follow from `ConduitEffect`, which lists what a single step
may do to a Conduit.

**No lost update.** The API server compares resource versions, the property compares
objects. `ObjectCopiesInv` connects them: the stored object has the last version of its
kind, no cached one is newer, and a cached one with the stored version is the stored
object. It holds because every change of an object, by an instance (`StepRenews`) or by the
cluster (`ClusterRenews`), uses up a version, its removal included (`RenewedCopies`).

**Ready.** `ConditionsInv` says Ready agrees with the others in the stored, the cached
and the worker's conditions. That `SetCondition` establishes it, whatever was there
before, is `SetConditionAgrees` in `ConduitControllerTypes`.

**Nothing to do.** `StaysDone` needs `ConditionsInv` as well: `Done` speaks of the five
conditions the steps set, and `SetCondition` then sets Ready, which has to say already,
reason and message included, what they amount to (`ConditionStays`). `CallStays` is
about `CreateOrUpdate`, `DeploymentStays` about the merge of the deployment, and
`DoneStays` goes through the steps. It is the half of convergence that is a safety
property; that `Done` is reached is left to `Converges`.

**Pipeline of a pod.** `ConfigInv`: no annotation, in the cache, in the deployment or
in a pod, is ahead of the ConfigMap, and a pod's is not ahead of what it has read. So
if the annotation is the current version, so is what it has read.

**The life of a Conduit.** Initial states map to initial states, and `NextLives` maps
each action: a creation to `Accept` (`VersionsInv` says that nothing carries the new
uid yet), a finalizer update to `Guard` or `Release`, `UpdateStatus` to `Report`, a
`CreateOrUpdate*` step to `Adopt`, which needs `FinalizerInv` for the guard, or to
`Lose` when it takes an object for a Conduit that is no longer there. One invariant is
new: `GenerationInv`, no status is ahead of the spec, so that an edit makes it one that
is not of the current generation.

**Admission.** `AdmissionInv`: what is stored is what `Default` made of something, has
a version, and has passed the checks that depend on nothing but the spec. The first
part and `DefaultedOnce` (defaulting twice is defaulting once, by cases on the form of
the plugin) give `WriteBackCorrect`; `DefaultFollowsPlugin`, with `PrefixedPath` for the
path of the package, gives `PackageCorrect`. The
last part gives `OutageCorrect`: what is left to check depends on conduit.io, and
without an answer it accepts. `ArgumentsCorrect` is `ForVersionCorrect` for the stored
version. `BuiltinParametersCorrect` follows the look-up of a built-in connector:
`Default` gives it the name the list has, the entries that contain this name are that
one alone, and the description that is fetched is the release's; so the verdict that
let the request pass is about the right parameters (`AdmittedSettingsFit`). The answer
is forgotten when the list or the web changes, so the property is inductive as it is.

**Arguments.** `RuleMeans` says which versions each constraint stands for, `SomeRule`
that every known version has one, `RuleFits` that the arguments of any that applies are
the wanted ones.

**Lists.** The condition list, the variables and the scripts are made by loops that
append, and sorted. What such a loop computes for a list of any length needs induction.
The library's induction theorems cannot be applied here, since they take the statement
as a parameter. `ListProofs` gets by with one set at a time: `LeastNumber` says that a
nonempty set of numbers has a least one, and a statement about all `n` is proved by
looking at the least `n` that fails it. On this rest

- `ConcatUnfolds`: the recursive function in `Concat` exists and is what its definition
  says; from it, which elements `Concat` has, and that each piece is in it as a whole
  and in order;
- the lemmas about `StableOrder`: every place is taken by exactly one element (the
  numbers of predecessors are all different and fill the range), so sorting is a
  permutation and puts keys in order.

**Condition list.** `ListInv`: the list is sorted by type with one entry at most for
each, and its times are in the past. `setCondition` keeps it: replacing an entry changes
no type, an appended one has a type that was not there, and the sort leaves no two types
in the wrong order. From it `GetCondition` finds the one entry, which gives
`TimeOfTransition` (a new time is later than any in the list, so it differs) and, with
`HasFailed` and `HasUnknown` restated for the function of types (`SummarySeen`), that a
call does what `SetCondition` in `Conditions` does. So the proofs about the controller,
which use the function, are about the list of the code.

**Variables.** `EnvInv`: the reconcile works on a submitted spec, the operator's secret, if
it is there, is the one for some spec (not for this one when its data could not be had), and
every stored variable comes from some spec. `RuntimeEnvIs` says which variables any order of
the secret's keys gives, sorted or not: exactly the declared ones. `MergeEnvKeeps`: merging keeps name, secret and
key of the new variable at every place and cuts off the rest. `LastSetting` and
`ReferencesDeclared` give the second half of `WrittenFromOneSpec`: the setting that counts
among several with one name is one of the list, so the variable its reference names is
declared.

**Init containers.** The properties speak of the moment the server starts, and hold
because each script has done its work by then, in spite of failures and of whatever was
on the volume. `Contract` says what scripts do for a spec: they build and download only
what it lists, install only what an earlier command of the same container has built, have
all downloads in the last container, and give every connector (when all of them have
their own packages, `ListedOwn`) and the name of every processor its turn. `ContractKept` proves it for `ConduitInitContainers` of every spec,
from the lemmas about loops and deduplication. `PodInv` then says that the commands that
are done, in containers before the current one and before the next command, have had
their effect: `Built` and `Installed` for connectors, `Downloaded` for processors. `Run`
and `Exit` keep it by the contract. `Fail` keeps it because the half file it may leave is
one of the last container, which is started over and has no download done any more; a
start from the first container (`PodLost`, `Rollout`) leaves nothing done at all.
`OnlyFaultsFail` needs in addition that past the first container the volume has its
directories (`DirectoriesMade`), which nothing removes; that a binary is there to be
installed is `Built`, and that a package can be installed if all listed ones can is the
contract.

Only model-checked: the liveness properties (`Converges`, `UnsupportedNotReady`,
`DeletionCompletes`, `NothingLeftBehind`, `DeletionSurvivesOutage`, `ReferencesDefined`,
`SourcesFollow`, `Settles`, `ServerStarts`), which need fairness and are out of the
prover's reach. What is a safety property about some of them is proved: `StaysDone` for
`Converges`, `OutageAdmits` for `DeletionSurvivesOutage`, `WrittenFromOneSpec` for
`ReferencesDefined`, `OnlyFaultsFail` for `ServerStarts`. For `Settles` it would be that a
second reconcile computes the same list, that is, that a stable sort has one result only,
which is an induction over the list. Every other property of a passing run is a theorem.

## 5. Not modelled

- Labels and annotations of the pod besides `config-map-version`, the service's ports,
  and ports, probes, mounts and pull policies of the containers: they are the same for
  every spec, or copied from the resource and the metadata file.
- The manager's flags, certificates, metrics, probes and metadata file: read once at
  start-up, pure I/O.
- HTTP transfers, the file a module is saved to, the WASM runtime and the parameters'
  own validations (types, ranges): they succeed or fail as a whole.
- Values of secrets and of the schema registry's credentials; what matters is where
  they are taken from.
- More than twelve variables with equal names among them: the sort of the code is then
  not stable. More Conduits than one: they share nothing but the workers.
- `ValidateDelete`: the webhook is registered for creations and updates.
- Generated deep copies, mocks and test fixtures.
