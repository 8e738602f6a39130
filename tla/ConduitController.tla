--------------------------- MODULE ConduitController ---------------------------
(*****************************************************************************)
(* The reconcile loop of the Conduit operator                                *)
(* (internal/controller/conduit_controller.go) for one Conduit resource,     *)
(* together with what it talks to: the API server, the informer cache every  *)
(* read of an operator goes through, and the cluster that runs the           *)
(* deployment.                                                               *)
(*                                                                           *)
(*  - Any number of instances of the operator run side by side: a new one is *)
(*    started before an old one has stopped, and leader election is off by   *)
(*    default.  Cache, work queue, pc and c are an instance's own.           *)
(*  - Reads (r.Get, the Get of CreateOrUpdate) see cachedConduit and         *)
(*    cachedObjs, which lag behind the API server and catch up one object at *)
(*    a time.  Writes go to conduit and objs and are refused when the        *)
(*    resource version they carry is not the stored one.                     *)
(*  - One reconcile is a sequence of steps, one per CreateOrUpdate* call and *)
(*    one for UpdateStatus; in between, anyone else may act.  The steps work *)
(*    on c, the copy of the Conduit read when the reconcile started.         *)
(*  - Every read within a step comes from the cache, so a change that lands  *)
(*    between the read and the write of one step is the same as one that     *)
(*    lands before it and has not reached the cache yet: a step is atomic.   *)
(*  - The work queue hands the key to one worker at a time.  A delayed or    *)
(*    rate limited requeue differs from an immediate one only in real time:  *)
(*    all of them are queued = TRUE.                                         *)
(*                                                                           *)
(* Error values decide only the condition that is stored and the delay of    *)
(* the next reconcile, so the accumulated error itself is not kept.          *)
(*****************************************************************************)
EXTENDS Conditions, Integers

CONSTANTS
  None,         \* no such object
  Specs,        \* the specs a user may submit, after defaulting
  Supported,    \* the versions Flags.ForVersion has arguments for
  Unparsable,   \* the versions that are not semantic versions
  ExtValues,    \* contents of the objects a spec may refer to
  Operators,    \* the instances of the operator
  Bounds        \* the alternative bounds on what the environment does

VARIABLES
  conduit,        \* the Conduit resource in the API server
  objs,           \* the objects the operator manages, in the API server
  ver,            \* last resource version handed out, per object
  cachedConduit,  \* the informer cache's Conduit
  cachedObjs,     \* the informer cache's managed objects
  ext,            \* contents of the referenced ConfigMap and Secret
  webhook,        \* whether the webhook answers and finds what it looks up
  pod,            \* the Conduit server pod
  queued,         \* the key is in the work queue, or will be added to it
  pc,             \* the step the worker is at
  c,              \* the Conduit the worker is reconciling
  left            \* how often the environment may still act

apiVars   == <<conduit, objs, ver>>
cacheVars == <<cachedConduit, cachedObjs>>
envVars   == <<ext, webhook, pod>>
opVars    == <<queued, pc, c>>
vars      == <<apiVars, cacheVars, envVars, opVars, left>>

Kinds == {"ConfigMap", "Secret", "Volume", "Deployment", "Service"}

Refs == {"ConfigMap", "Secret"}

\* The fields of ConduitSpec the operator tells apart.  pipeline is what ends up
\* in pipeline.yaml, builds the init containers, env the names of the connector
\* settings taken from a secret, registry the schema registry ("" when unset),
\* refs the kinds of outside objects it takes values from.
ConduitSpec ==
  [running : BOOLEAN, pipeline : STRING, builds : STRING, env : SUBSET STRING,
   version : STRING, registry : STRING, refs : SUBSET Refs]

\* Bounds on what the environment does: edits by users, API calls that fail,
\* starts of an operator, and changes in the cluster.
Budgets == {"edit", "fault", "crash", "churn"}

ASSUME NoneAssumption == None \notin ExtValues
ASSUME SpecsAssumption == Specs \subseteq ConduitSpec
ASSUME VersionsAssumption == Supported \cap Unparsable = {}
ASSUME BoundsAssumption == Bounds \subseteq [Budgets -> Nat]

-------------------------------------------------------------------------------
\* What the operator computes from a spec

\* The two times a condition's LastTransitionTime is told apart by: the one it
\* had when the Conduit was read and one set during this reconcile.
Stored == 0
Now    == 1

\* Variant that does not look at the error.
ResolvableAssumed(spec, ref) == TRUE

Resolvable(spec, ref) == ref \in spec.refs => ext[ref] # None

Resolve(spec, ref) == IF ref \in spec.refs THEN ext[ref] ELSE ""

\* The data of the ConfigMap; an error unless Resolvable(spec, "ConfigMap").
PipelineConfigYAML(spec) ==
  [status   |-> IF spec.running THEN "running" ELSE "stopped",
   pipeline |-> spec.pipeline,
   values   |-> Resolve(spec, "ConfigMap")]

\* The data of the Secret; an error unless Resolvable(spec, "Secret").  Without
\* a registry the secret is empty.
SchemaRegistryConfig(spec) ==
  [url  |-> spec.registry,
   auth |-> IF spec.registry = "" THEN "" ELSE Resolve(spec, "Secret")]

\* Both entries of a registry secret are known by one name here.
envVarsFromSecret(secret) == IF secret.data.url = "" THEN {} ELSE {"registry"}

getReplicas(spec) == IF spec.running THEN 1 ELSE 0

\* An empty list is left out of the JSON document, so merging it into the stored
\* deployment keeps the list that is there.
MergeEnv(current, updated) == IF updated = {} THEN current ELSE updated

\* Variant that takes the version of the Conduit.
ConfigVersionOfConduit(o) == c[o].rv

\* The config-map-version annotation of the pod template.
ConfigVersion(o) == cachedObjs[o]["ConfigMap"].rv

\* The deployment built from the Conduit and from what the cache holds for the
\* ConfigMap, the Secret and the deployment itself.
DeploymentSpec(o, spec) ==
  [replicas |-> getReplicas(spec),
   template |-> [builds  |-> spec.builds,
                 version |-> spec.version,
                 env     |-> MergeEnv(IF cachedObjs[o]["Deployment"] = None THEN {}
                                        ELSE cachedObjs[o]["Deployment"].data.template.env,
                                      spec.env \cup envVarsFromSecret(cachedObjs[o]["Secret"])),
                 configVersion |-> ConfigVersion(o)]]

ConduitVolumeClaim == [size |-> "1Gi"]

NoPods == [replicas |-> 0, ready |-> 0, unavailable |-> 0]

\* Status and reason reported for a deployment that asks for replicas.
deploymentRunningStatus(replicas, status) ==
  CASE replicas = 0 -> <<"False", "Stopped">>
    [] replicas # 0 /\ status.replicas = 0 -> <<"Unknown", "Pending">>
    [] replicas # 0 /\ status.replicas # 0 /\ status.ready >= status.replicas -> <<"True", "Running">>
    [] replicas # 0 /\ status.replicas # 0 /\ status.ready < status.replicas
       /\ status.unavailable >= status.replicas -> <<"False", "Degraded">>
    [] OTHER -> <<"Unknown", "Pending">>

ReadyReplicas(ready, replicas) ==
  CASE ready = 0 /\ replicas = 0 -> "0/0"
    [] ready = 0 /\ replicas # 0 -> "0/1"
    [] ready # 0 /\ replicas = 0 -> "1/0"
    [] OTHER -> "1/1"

\* The status subresource as a new object of kind k starts with.
InitialState(k) ==
  CASE k = "Deployment" -> NoPods
    [] k = "Service" -> [address |-> "clusterIP"]
    [] k \in {"ConfigMap", "Secret", "Volume"} -> [phase |-> ""]

ConditionOf(k) ==
  CASE k = "ConfigMap" -> "ConfigReady"
    [] k = "Secret" -> "SecretReady"
    [] k = "Volume" -> "VolumeBound"
    [] k = "Deployment" -> "DeploymentRunning"
    [] k = "Service" -> "ServiceReady"

-------------------------------------------------------------------------------
Init ==
  /\ conduit = None
  /\ objs = [k \in Kinds |-> None]
  /\ ver = [k \in Kinds \cup {"Conduit"} |-> 0]
  /\ cachedConduit = [o \in Operators |-> None]
  /\ cachedObjs = [o \in Operators |-> [k \in Kinds |-> None]]
  /\ ext \in [Refs -> ExtValues \cup {None}]
  /\ webhook = TRUE
  /\ pod = None
  /\ queued = [o \in Operators |-> FALSE]
  /\ pc = [o \in Operators |-> "idle"]
  /\ c = [o \in Operators |-> None]
  /\ left \in Bounds

Spend(b) ==
  /\ left[b] > 0
  /\ left' = [left EXCEPT ![b] = @ - 1]

-------------------------------------------------------------------------------
\* The user.  Creates and updates are admitted by the webhook only.

\* An update has to name a schema registry; whatever else the webhook looks up
\* for it (plugins, secrets, the WASM of a processor) is in the variable webhook.
ValidateUpdate(spec) == webhook /\ spec.registry # ""

\* The version is looked at on creation only.  Specs has no version older than
\* the minimum.
ValidateCreate(spec) == ValidateUpdate(spec) /\ spec.version \notin Unparsable

NextVersion(k) == ver' = [ver EXCEPT ![k] = @ + 1]

StoreConduit(new) ==
  /\ conduit' = [new EXCEPT !.rv = ver["Conduit"] + 1]
  /\ NextVersion("Conduit")

RemoveConduit ==
  /\ conduit' = None
  /\ NextVersion("Conduit")

UserCreate(s) ==
  /\ conduit = None
  /\ ValidateCreate(s)
  /\ Spend("edit")
  /\ StoreConduit([uid |-> ver["Conduit"] + 1, rv |-> 0, gen |-> 1, spec |-> s, fin |-> FALSE,
                   del |-> FALSE, obs |-> 0, conds |-> NoConditions])
  /\ UNCHANGED <<objs, cacheVars, envVars, opVars>>

UserEdit(s) ==
  /\ conduit # None
  /\ conduit.spec # s
  /\ ValidateUpdate(s)
  /\ Spend("edit")
  /\ StoreConduit([conduit EXCEPT !.spec = s, !.gen = @ + 1])
  /\ UNCHANGED <<objs, cacheVars, envVars, opVars>>

\* Without finalizers the resource is gone at once.
UserDelete ==
  /\ conduit # None
  /\ ~conduit.del
  /\ Spend("edit")
  /\ IF conduit.fin
       THEN StoreConduit([conduit EXCEPT !.del = TRUE, !.gen = @ + 1])
       ELSE RemoveConduit
  /\ UNCHANGED <<objs, cacheVars, envVars, opVars>>

-------------------------------------------------------------------------------
\* The informers.  Conduits and the Secrets they own are watched: a change of
\* either puts the key into the queue.

SyncConduit(o) ==
  /\ cachedConduit[o] # conduit
  /\ cachedConduit' = [cachedConduit EXCEPT ![o] = conduit]
  /\ queued' = [queued EXCEPT ![o] = TRUE]
  /\ UNCHANGED <<apiVars, cachedObjs, envVars, pc, c, left>>

SyncObject(o, k) ==
  /\ cachedObjs[o][k] # objs[k]
  /\ cachedObjs' = [cachedObjs EXCEPT ![o][k] = objs[k]]
  /\ queued' = [queued EXCEPT ![o] = @ \/ k = "Secret"]
  /\ UNCHANGED <<apiVars, cachedConduit, envVars, pc, c, left>>

-------------------------------------------------------------------------------
\* Reconcile, up to the point where it starts creating objects

Start(o) ==
  /\ pc[o] = "idle"
  /\ queued[o]

\* Variant without the check of the finalizer list.
HasFinalizerAssumed(obj) == TRUE

HasFinalizer(obj) == obj.fin

\* The Conduit does not exist: nothing to do, and no requeue.
ReconcileNotFound(o) ==
  /\ Start(o)
  /\ cachedConduit[o] = None
  /\ queued' = [queued EXCEPT ![o] = FALSE]
  /\ UNCHANGED <<apiVars, cacheVars, envVars, pc, c, left>>

\* Variant that writes the Conduit without its resource version.
UpdateAcceptedBlindly(o) == conduit # None /\ ValidateUpdate(cachedConduit[o].spec)

\* The API server asks the webhook about an update and checks the resource
\* version it carries.
UpdateAccepted(o) ==
  /\ conduit # None
  /\ conduit.rv = cachedConduit[o].rv
  /\ ValidateUpdate(cachedConduit[o].spec)

\* An update of the Conduit that was read, with another finalizer list.  The spec
\* and the finalizers are those of the update, the status stays as stored; an
\* object that is being deleted goes away with its last finalizer.
UpdateConduit(o, fin) ==
  IF conduit.del /\ ~fin
    THEN RemoveConduit
    ELSE StoreConduit([conduit EXCEPT !.fin = fin, !.spec = cachedConduit[o].spec,
                         !.gen = IF conduit.spec = cachedConduit[o].spec THEN @ ELSE @ + 1])

\* Variant that drops an error of the update: the key is not added again.
UpdateFinalizerOnce(o, fin, requeue) ==
  \/ /\ UpdateAccepted(o)
     /\ UpdateConduit(o, fin)
     /\ queued' = [queued EXCEPT ![o] = requeue]
     /\ UNCHANGED left
  \/ /\ ~UpdateAccepted(o)
     /\ queued' = [queued EXCEPT ![o] = requeue]
     /\ UNCHANGED <<conduit, ver, left>>

\* An answer that does not reach the operator is an error to it, whether or not
\* the API server has carried out the write.
UpdateFinalizer(o, fin, requeue) ==
  \/ /\ UpdateAccepted(o)
     /\ UpdateConduit(o, fin)
     /\ queued' = [queued EXCEPT ![o] = requeue]
     /\ UNCHANGED left
  \/ /\ ~UpdateAccepted(o)
     /\ queued' = [queued EXCEPT ![o] = TRUE]
     /\ UNCHANGED <<conduit, ver, left>>
  \/ /\ Spend("fault")
     /\ queued' = [queued EXCEPT ![o] = TRUE]
     /\ \/ UpdateAccepted(o) /\ UpdateConduit(o, fin)
        \/ UNCHANGED <<conduit, ver>>

\* Variant that does not look at the deletion timestamp.
ReconcileReleased(o) ==
  /\ Start(o)
  /\ cachedConduit[o] # None
  /\ HasFinalizer(cachedConduit[o])
  /\ UpdateFinalizer(o, FALSE, FALSE)
  /\ UNCHANGED <<objs, cacheVars, envVars, pc, c>>

ReconcileDeleted(o) ==
  /\ Start(o)
  /\ cachedConduit[o] # None
  /\ cachedConduit[o].del
  /\ UpdateFinalizer(o, FALSE, FALSE)
  /\ UNCHANGED <<objs, cacheVars, envVars, pc, c>>

ReconcileAddFinalizer(o) ==
  /\ Start(o)
  /\ cachedConduit[o] # None
  /\ ~cachedConduit[o].del
  /\ ~HasFinalizer(cachedConduit[o])
  /\ UpdateFinalizer(o, TRUE, TRUE)
  /\ UNCHANGED <<objs, cacheVars, envVars, pc, c>>

ReconcileBegin(o) ==
  /\ Start(o)
  /\ cachedConduit[o] # None
  /\ ~cachedConduit[o].del
  /\ HasFinalizer(cachedConduit[o])
  /\ c' = [c EXCEPT ![o] = cachedConduit[o]]
  /\ pc' = [pc EXCEPT ![o] = "config"]
  /\ queued' = [queued EXCEPT ![o] = FALSE]
  /\ UNCHANGED <<apiVars, cacheVars, envVars, left>>

-------------------------------------------------------------------------------
\* The steps of a reconcile

WithConditions(o, conds) == c' = [c EXCEPT ![o].conds = conds]

WithCondition(conds, k, status, reason, message) ==
  SetCondition(conds, ConditionOf(k), status, reason, message, Now)

\* Variant that returns the error and leaves the conditions alone.
FailureUnreported(conds, k, reason, message) == conds

\* What an error leaves in the conditions.
Failure(conds, k, reason, message) == WithCondition(conds, k, "False", reason, message)

\* Variant that leaves objects without an owner.
ControllerReferenceUnset(o) == 0

\* The owner SetControllerReference records; 0 would be no owner.
ControllerReference(o) == c[o].uid

Write(o, k, data) ==
  /\ objs' = [objs EXCEPT ![k] = [rv    |-> ver[k] + 1,
                                  owner |-> ControllerReference(o),
                                  data  |-> data,
                                  state |-> IF objs[k] = None THEN InitialState(k) ELSE objs[k].state]]
  /\ NextVersion(k)

\* Variant that updates whatever is there.
WriteAcceptedBlindly(o, k) == cachedObjs[o][k] # None <=> objs[k] # None

\* The API server creates an object that does not exist, and updates one that has the
\* resource version the update carries.
WriteAccepted(o, k) ==
  IF cachedObjs[o][k] = None THEN objs[k] = None ELSE objs[k] # None /\ objs[k].rv = cachedObjs[o][k].rv

\* controllerutil.CreateOrUpdate of an object with this data, owned by c.  The
\* mutate function has already left its conditions in mutated; an error replaces
\* the object's condition.  Creating fails when the object exists after all,
\* updating when it is not the version that was read.
CreateOrUpdate(o, k, data, mutated, reason) ==
  LET cur      == cachedObjs[o][k]
      same     == cur # None /\ cur.data = data /\ cur.owner = ControllerReference(o)
      accepted == WriteAccepted(o, k)
      refusal  == CASE cur = None -> "already exists"
                    [] cur # None /\ objs[k] = None -> "not found"
                    [] cur # None /\ objs[k] # None -> "conflict"
      Failed(message) == WithConditions(o, Failure(mutated, k, reason, message))
  IN  \/ /\ same
         /\ WithConditions(o, mutated)
         /\ UNCHANGED <<objs, ver, left>>
      \/ /\ ~same /\ accepted
         /\ Write(o, k, data)
         /\ WithConditions(o, mutated)
         /\ UNCHANGED left
      \/ /\ ~same /\ ~accepted
         /\ Failed(refusal)
         /\ UNCHANGED <<objs, ver, left>>
      \/ /\ ~same
         /\ Spend("fault")
         /\ Failed("unavailable")
         /\ \/ accepted /\ Write(o, k, data)
            \/ UNCHANGED <<objs, ver>>

Step(o, from, to) ==
  /\ pc[o] = from
  /\ pc' = [pc EXCEPT ![o] = to]
  /\ UNCHANGED <<conduit, cacheVars, envVars, queued>>

\* A pipeline that cannot be rendered is an error that sets no condition.
CreateOrUpdateConfig(o) ==
  /\ Step(o, "config", "secret")
  /\ IF Resolvable(c[o].spec, "ConfigMap")
       THEN CreateOrUpdate(o, "ConfigMap", PipelineConfigYAML(c[o].spec),
              WithCondition(c[o].conds, "ConfigMap", "True", "ConfigReady", "Pipeline configuration created"),
              "ConfigError")
       ELSE UNCHANGED <<objs, ver, c, left>>

CreateOrUpdateSecret(o) ==
  /\ Step(o, "secret", "volume")
  /\ IF c[o].spec.registry = "" \/ Resolvable(c[o].spec, "Secret")
       THEN CreateOrUpdate(o, "Secret", SchemaRegistryConfig(c[o].spec),
              WithCondition(c[o].conds, "Secret", "True", "SecretReady", "Conduit secret created"),
              "ConduitSecretError")
       ELSE UNCHANGED <<objs, ver, c, left>>

\* The claim is never changed once it exists.
CreateOrUpdateVolume(o) ==
  LET phase == IF cachedObjs[o]["Volume"] = None THEN "" ELSE cachedObjs[o]["Volume"].state.phase
  IN  /\ Step(o, "volume", "deployment")
      /\ CreateOrUpdate(o, "Volume", ConduitVolumeClaim,
           WithCondition(c[o].conds, "Volume", IF phase = "Bound" THEN "True" ELSE "False",
                         "VolumeReady", phase),
           "VolumeClaimError")

\* The conditions the mutate function leaves: a pending deployment sets none.
DeploymentConditions(o, spec) ==
  LET replicas == getReplicas(spec)
      status   == IF cachedObjs[o]["Deployment"] = None THEN NoPods ELSE cachedObjs[o]["Deployment"].state
      running  == deploymentRunningStatus(replicas, status)
  IN  IF running[1] = "Unknown"
        THEN c[o].conds
        ELSE WithCondition(c[o].conds, "Deployment", running[1], running[2],
                           ReadyReplicas(status.ready, replicas))

ConfigKnown(o) == cachedObjs[o]["ConfigMap"] # None /\ cachedObjs[o]["Secret"] # None

\* ConfigMap and Secret are read back from the cache; when either is not there
\* yet the step fails without setting a condition.  A version without arguments
\* is an error of the mutate function.
CreateOrUpdateDeployment(o) ==
  /\ Step(o, "deployment", "service")
  /\ \/ /\ ~ConfigKnown(o)
        /\ UNCHANGED <<objs, ver, c, left>>
     \/ /\ ConfigKnown(o)
        /\ c[o].spec.version \notin Supported \cup Unparsable
        /\ WithConditions(o, Failure(c[o].conds, "Deployment", "DeploymentError", "not supported"))
        /\ UNCHANGED <<objs, ver, left>>
     \/ /\ ConfigKnown(o)
        /\ c[o].spec.version \in Supported
        /\ CreateOrUpdate(o, "Deployment", DeploymentSpec(o, c[o].spec), DeploymentConditions(o, c[o].spec),
                          "DeploymentError")

\* A version that does not parse makes the constraint check panic.  The panic is
\* recovered around Reconcile, which is then retried from the start.
DeploymentPanic(o) ==
  /\ pc[o] = "deployment"
  /\ ConfigKnown(o)
  /\ c[o].spec.version \in Unparsable
  /\ pc' = [pc EXCEPT ![o] = "idle"]
  /\ c' = [c EXCEPT ![o] = None]
  /\ queued' = [queued EXCEPT ![o] = TRUE]
  /\ UNCHANGED <<apiVars, cacheVars, envVars, left>>

CreateOrUpdateService(o) ==
  LET address == IF cachedObjs[o]["Service"] = None THEN "" ELSE cachedObjs[o]["Service"].state.address
  IN  /\ Step(o, "service", "status")
      /\ CreateOrUpdate(o, "Service", [ports |-> "http, grpc"],
           WithCondition(c[o].conds, "Service", "True", "ServiceReady", address),
           "ServiceError")

\* Status as stored: the times in it are now times of the past.
StoredConditions(conds) == [t \in ConditionTypes |-> [conds[t] EXCEPT !.at = Stored]]

\* Variant that writes the status without the resource version of the Conduit.
StatusAcceptedBlindly(o) == conduit # None

StatusAccepted(o) == conduit # None /\ conduit.rv = c[o].rv

\* Variant without RequeueAfter: only a watch adds the key again.
RequeueOnWatch(o) == queued[o]

\* Every reconcile ends with an error or with a requeue after 10 seconds.
Requeue(o) == TRUE

\* Variant that writes the status of every Conduit that is there.
StatusAlwaysNew(o) == cachedConduit[o] = None

\* The Conduit has left the cache, or has this status there.
StatusKnown(o) ==
  cachedConduit[o] # None =>
    cachedConduit[o].conds = c[o].conds /\ cachedConduit[o].obs = c[o].obs

\* The status is written only when it is not known yet, against the resource
\* version that was read when the reconcile started.
UpdateStatus(o) ==
  LET skip     == StatusKnown(o)
      accepted == StatusAccepted(o)
      WriteStatus ==
        StoreConduit([conduit EXCEPT !.conds = StoredConditions(c[o].conds), !.obs = c[o].gen])
  IN  /\ pc[o] = "status"
      /\ \/ (skip \/ ~accepted) /\ UNCHANGED <<conduit, ver, left>>
         \/ ~skip /\ accepted /\ WriteStatus /\ UNCHANGED left
         \/ /\ ~skip
            /\ Spend("fault")
            /\ \/ accepted /\ WriteStatus
               \/ UNCHANGED <<conduit, ver>>
      /\ pc' = [pc EXCEPT ![o] = "idle"]
      /\ c' = [c EXCEPT ![o] = None]
      /\ queued' = [queued EXCEPT ![o] = Requeue(o)]
      /\ UNCHANGED <<objs, cacheVars, envVars>>

\* An operator starts, or dies and starts again: the caches are filled before the
\* first reconcile, and every Conduit and owned Secret found is put into the queue.
Restart(o) ==
  /\ Spend("crash")
  /\ pc' = [pc EXCEPT ![o] = "idle"]
  /\ c' = [c EXCEPT ![o] = None]
  /\ cachedConduit' = [cachedConduit EXCEPT ![o] = conduit]
  /\ cachedObjs' = [cachedObjs EXCEPT ![o] = objs]
  /\ queued' = [queued EXCEPT ![o] = conduit # None \/ objs["Secret"] # None]
  /\ UNCHANGED <<apiVars, envVars>>

Reconcile(o) ==
  \/ ReconcileNotFound(o)
  \/ ReconcileDeleted(o)
  \/ ReconcileAddFinalizer(o)
  \/ ReconcileBegin(o)
  \/ CreateOrUpdateConfig(o)
  \/ CreateOrUpdateSecret(o)
  \/ CreateOrUpdateVolume(o)
  \/ CreateOrUpdateDeployment(o)
  \/ DeploymentPanic(o)
  \/ CreateOrUpdateService(o)
  \/ UpdateStatus(o)

-------------------------------------------------------------------------------
\* The cluster (external): what the operator's objects are used for

TouchObject(k, obj) ==
  /\ objs' = [objs EXCEPT ![k] = [obj EXCEPT !.rv = ver[k] + 1]]
  /\ NextVersion(k)

RemoveObject(k) ==
  /\ objs' = [objs EXCEPT ![k] = None]
  /\ NextVersion(k)

\* Garbage collection of an object whose owner does not exist.
CollectGarbage(k) ==
  /\ objs[k] # None
  /\ objs[k].owner # 0
  /\ conduit # None => conduit.uid # objs[k].owner
  /\ RemoveObject(k)
  /\ UNCHANGED <<conduit, cacheVars, envVars, opVars, left>>

\* Someone else deletes an object, or changes something in it that the operator
\* does not look at.
Meddle(k) ==
  /\ objs[k] # None
  /\ Spend("churn")
  /\ RemoveObject(k) \/ TouchObject(k, objs[k])
  /\ UNCHANGED <<conduit, cacheVars, envVars, opVars>>

BindVolume ==
  /\ objs["Volume"] # None
  /\ objs["Volume"].state.phase # "Bound"
  /\ TouchObject("Volume", [objs["Volume"] EXCEPT !.state = [phase |-> "Bound"]])
  /\ UNCHANGED <<conduit, cacheVars, envVars, opVars, left>>

\* The Recreate strategy: a pod that is not what the deployment asks for goes
\* before another is started.
StopPod ==
  /\ pod # None
  /\ ~(/\ objs["Deployment"] # None
       /\ objs["Deployment"].data.replicas = 1
       /\ objs["Deployment"].data.template = pod.template)
  /\ pod' = None
  /\ UNCHANGED <<apiVars, cacheVars, ext, webhook, opVars, left>>

\* A pod reads the pipeline and its environment when it starts, and never again.
StartPod ==
  /\ pod = None
  /\ \A k \in {"ConfigMap", "Secret", "Volume", "Deployment"} : objs[k] # None
  /\ objs["Volume"].state.phase = "Bound"
  /\ objs["Deployment"].data.replicas = 1
  /\ pod' = [template      |-> objs["Deployment"].data.template,
             pipeline      |-> objs["ConfigMap"].data,
             configVersion |-> objs["ConfigMap"].rv,
             registry      |-> objs["Secret"].data,
             ready         |-> FALSE]
  /\ UNCHANGED <<apiVars, cacheVars, ext, webhook, opVars, left>>

PodReady ==
  /\ pod # None
  /\ ~pod.ready
  /\ pod' = [pod EXCEPT !.ready = TRUE]
  /\ UNCHANGED <<apiVars, cacheVars, ext, webhook, opVars, left>>

PodFails ==
  /\ pod # None
  /\ pod.ready
  /\ Spend("churn")
  /\ pod' = [pod EXCEPT !.ready = FALSE]
  /\ UNCHANGED <<apiVars, cacheVars, ext, webhook, opVars>>

PodCounts ==
  CASE pod = None -> NoPods
    [] pod # None /\ pod.ready -> [replicas |-> 1, ready |-> 1, unavailable |-> 0]
    [] OTHER -> [replicas |-> 1, ready |-> 0, unavailable |-> 1]

\* The deployment controller reports the pods in the deployment's status.
ReportPods ==
  /\ objs["Deployment"] # None
  /\ objs["Deployment"].state # PodCounts
  /\ TouchObject("Deployment", [objs["Deployment"] EXCEPT !.state = PodCounts])
  /\ UNCHANGED <<conduit, cacheVars, envVars, opVars, left>>

\* The objects a spec refers to come, change and go.
ChangeExternal(ref, value) ==
  /\ ext[ref] # value
  /\ Spend("churn")
  /\ ext' = [ext EXCEPT ![ref] = value]
  /\ UNCHANGED <<apiVars, cacheVars, webhook, pod, opVars>>

\* The webhook fails closed: while it cannot be reached, or what it looks up
\* cannot be fetched, every update of the Conduit is refused.
WebhookDown ==
  /\ webhook
  /\ Spend("churn")
  /\ webhook' = FALSE
  /\ UNCHANGED <<apiVars, cacheVars, ext, pod, opVars>>

WebhookUp ==
  /\ ~webhook
  /\ webhook' = TRUE
  /\ UNCHANGED <<apiVars, cacheVars, ext, pod, opVars, left>>

User ==
  \/ \E s \in Specs : UserCreate(s) \/ UserEdit(s)
  \/ UserDelete

Informers(o) ==
  \/ SyncConduit(o)
  \/ \E k \in Kinds : SyncObject(o, k)

\* What the cluster does about the operator's objects.
Cluster ==
  \/ \E k \in Kinds : CollectGarbage(k)
  \/ BindVolume
  \/ StopPod
  \/ StartPod
  \/ PodReady
  \/ ReportPods
  \/ WebhookUp

Disturbance ==
  \/ \E k \in Kinds : Meddle(k)
  \/ PodFails
  \/ \E ref \in Refs, value \in ExtValues \cup {None} : ChangeExternal(ref, value)
  \/ WebhookDown

Next ==
  \/ User
  \/ \E o \in Operators : Informers(o) \/ Reconcile(o) \/ Restart(o)
  \/ Cluster
  \/ Disturbance

\* The workers, the informers and the controllers of the cluster keep going.
\* Users, faults, restarts and disturbances need not happen at all.
Fairness ==
  /\ \A o \in Operators : WF_vars(Reconcile(o)) /\ WF_vars(Informers(o))
  /\ WF_vars(Cluster)

Spec == Init /\ [][Next]_vars

FairSpec == Spec /\ Fairness

-------------------------------------------------------------------------------
\* Types

Conduits ==
  [uid : Nat, rv : Nat, gen : Nat, spec : Specs, fin : BOOLEAN, del : BOOLEAN,
   obs : Nat, conds : ConditionSets]

Templates ==
  [builds : STRING, version : STRING, env : SUBSET (STRING \cup {"registry"}),
   configVersion : Nat]

Pipelines == [status : {"running", "stopped"}, pipeline : STRING, values : ExtValues \cup {""}]

Registries == [url : STRING, auth : ExtValues \cup {""}]

Counts == [replicas : 0 .. 1, ready : 0 .. 1, unavailable : 0 .. 1]

Data(k) ==
  CASE k = "ConfigMap" -> Pipelines
    [] k = "Secret" -> Registries
    [] k = "Volume" -> [size : {"1Gi"}]
    [] k = "Deployment" -> [replicas : 0 .. 1, template : Templates]
    [] k = "Service" -> [ports : {"http, grpc"}]

State(k) ==
  CASE k = "Deployment" -> Counts
    [] k = "Service" -> [address : {"clusterIP"}]
    [] k \in {"ConfigMap", "Secret", "Volume"} -> [phase : {"", "Bound"}]

Objects(k) == [rv : Nat, owner : Nat, data : Data(k), state : State(k)]

ASSUME NoObjectAssumption == None \notin Conduits /\ \A k \in Kinds : None \notin Objects(k)

Pods ==
  [template : Templates, pipeline : Pipelines, configVersion : Nat, registry : Registries,
   ready : BOOLEAN]

Steps == {"config", "secret", "volume", "deployment", "service", "status"}

\* What an instance has is well typed, and its worker holds a Conduit exactly while
\* it is between two steps of Reconcile.
OperatorOK(o) ==
  /\ cachedConduit[o] \in Conduits \cup {None}
  /\ \A k \in Kinds : cachedObjs[o][k] \in Objects(k) \cup {None}
  /\ DOMAIN cachedObjs[o] = Kinds
  /\ queued[o] \in BOOLEAN
  /\ \/ pc[o] = "idle" /\ c[o] = None
     \/ pc[o] \in Steps /\ c[o] \in Conduits

\* Every variable has a value of its type.
TypeOK ==
  /\ conduit \in Conduits \cup {None}
  /\ \A k \in Kinds : objs[k] \in Objects(k) \cup {None}
  /\ DOMAIN objs = Kinds
  /\ ver \in [Kinds \cup {"Conduit"} -> Nat]
  /\ ext \in [Refs -> ExtValues \cup {None}]
  /\ webhook \in BOOLEAN
  /\ pod \in Pods \cup {None}
  /\ DOMAIN cachedConduit = Operators /\ DOMAIN cachedObjs = Operators
  /\ DOMAIN queued = Operators /\ DOMAIN pc = Operators /\ DOMAIN c = Operators
  /\ \A o \in Operators : OperatorOK(o)
  /\ left \in [Budgets -> Nat]

-------------------------------------------------------------------------------
\* Safety

\* A Conduit that does not carry the finalizer owns no object and has no status:
\* Reconcile adds the finalizer in a pass of its own before it creates anything,
\* whatever the cache shows it and wherever it is interrupted.
FinalizerFirst ==
  conduit # None /\ ~conduit.fin =>
    /\ conduit.conds = NoConditions
    /\ \A k \in Kinds : objs[k] # None => objs[k].owner # conduit.uid

\* In the stored status, Ready is True exactly when all the other conditions are
\* and False exactly when one of them is, however many steps of however many
\* interrupted reconciles it was put together from.
ReadySumsUp ==
  conduit # None /\ conduit.conds # NoConditions =>
    /\ IsTrue(conduit.conds[Main]) <=> \A d \in Deps : IsTrue(conduit.conds[d])
    /\ IsFalse(conduit.conds[Main]) <=> \E d \in Deps : IsFalse(conduit.conds[d])

\* A pod labelled with the current version of the ConfigMap runs the pipeline in
\* it: the config-map-version annotation never runs ahead of what the pod read,
\* although it is taken from a cache that may be behind.
PodRunsAnnotatedConfig ==
  pod # None /\ objs["ConfigMap"] # None /\ pod.template.configVersion = objs["ConfigMap"].rv
    => pod.pipeline = objs["ConfigMap"].data

\* The same Conduit before and after a step.
SameConduit == conduit # None /\ conduit' # None /\ conduit'.uid = conduit.uid

\* Conditions are only ever stored for the spec they were computed from: when
\* they change, the observed generation is the current one.  A reconcile that
\* started from an older Conduit does not get its status in.
StatusOfCurrentSpec ==
  [][SameConduit /\ conduit'.conds # conduit.conds => conduit'.obs = conduit'.gen]_vars

\* Adding and removing the finalizer writes the whole Conduit back, from a cache
\* that may be behind; the spec changes by no step but a user's.
SpecBelongsToUser ==
  [][SameConduit /\ conduit'.spec # conduit.spec => left'["edit"] < left["edit"]]_vars

\* No worker undoes what it has not seen: a step of a reconcile changes an object that
\* is there only when the cache it reads has that very object, whoever else has written
\* to it, deleted it or created it again in the meantime.
NoLostUpdate ==
  [][\A o \in Operators, k \in Kinds :
       pc'[o] # pc[o] /\ objs[k] # None /\ objs'[k] # objs[k] => cachedObjs[o][k] = objs[k]]_vars

Deployable(spec) == spec.version \in Supported /\ \A ref \in Refs : Resolvable(spec, ref)

\* Every object is what the spec asks for.
ObjectsFollow ==
  /\ \A k \in Kinds : objs[k] # None /\ objs[k].owner = conduit.uid
  /\ objs["ConfigMap"].data = PipelineConfigYAML(conduit.spec)
  /\ objs["Secret"].data = SchemaRegistryConfig(conduit.spec)
  /\ LET deployment == objs["Deployment"].data
         template   == deployment.template
         env        == conduit.spec.env \cup envVarsFromSecret(objs["Secret"])
     IN  /\ deployment.replicas = getReplicas(conduit.spec)
         /\ template.builds = conduit.spec.builds
         /\ template.version = conduit.spec.version
         /\ template.configVersion = objs["ConfigMap"].rv
         /\ env # {} => template.env = env

\* Every condition but Ready says how its object is doing.
ConditionsFollow ==
  LET Says(k, status, reason, message) ==
        condEquals(conduit.conds[ConditionOf(k)], status, reason, message)
      phase   == objs["Volume"].state.phase
      pods    == objs["Deployment"].state
      running == deploymentRunningStatus(getReplicas(conduit.spec), pods)
  IN  /\ Says("ConfigMap", "True", "ConfigReady", "Pipeline configuration created")
      /\ Says("Secret", "True", "SecretReady", "Conduit secret created")
      /\ Says("Volume", IF phase = "Bound" THEN "True" ELSE "False", "VolumeReady", phase)
      /\ Says("Service", "True", "ServiceReady", objs["Service"].state.address)
      /\ running[1] # "Unknown" =>
           Says("Deployment", running[1], running[2], ReadyReplicas(pods.ready, getReplicas(conduit.spec)))

\* The operators have done all there is to do for the Conduit, and know it.
Done ==
  /\ conduit # None /\ conduit.fin /\ ~conduit.del
  /\ Deployable(conduit.spec)
  /\ ObjectsFollow
  /\ ConditionsFollow
  /\ \A o \in Operators : /\ cachedConduit[o] = conduit /\ cachedObjs[o] = objs
                          /\ pc[o] # "idle" => c[o] = conduit

\* Operators that are done leave the API server alone: going over the Conduit again
\* every 10 seconds, none of them takes an object for changed or a condition for
\* new, undoes what another has written, or is not done any more.
StaysDone ==
  [][Done /\ (\E o \in Operators : Reconcile(o) \/ Informers(o)) => UNCHANGED apiVars /\ Done']_vars

-------------------------------------------------------------------------------
\* Liveness

\* The cluster is as the Conduit asks.
Deployed ==
  /\ ObjectsFollow
  /\ pod # None <=> conduit.spec.running
  /\ pod # None => pod.pipeline = objs["ConfigMap"].data
  /\ IsTrue(conduit.conds[Main]) <=> conduit.spec.running

\* Once users, faults and churn are over, every managed object, the pipeline the
\* pod runs and the Ready condition follow the spec for good, although nothing
\* but the 10 second requeue makes the operator look again.
Converges == <>[](conduit # None /\ Deployable(conduit.spec) => Deployed)

\* A version the operator has no arguments for ends up as Ready = False, even on
\* a Conduit that was deployed and whose pod keeps running, as long as its ConfigMap
\* and its Secret are there.  CreateOrUpdateDeployment reads these two first and returns
\* without a condition when one is missing: one that was deleted, and cannot be written
\* again because something it is made of is gone, leaves Ready as it was.
UnsupportedNotReady ==
  <>[](/\ conduit # None /\ ~conduit.del
       /\ conduit.spec.version \notin Supported \cup Unparsable
       /\ \A ref \in Refs : objs[ref] # None
       => IsFalse(conduit.conds[Main]))

\* A Conduit that is being deleted goes away: losing the race for its resource
\* version, an API error or a webhook that is down only delays the removal of
\* the finalizer.
DeletionCompletes == (conduit # None /\ conduit.del) ~> (conduit = None)

\* Nothing the operator created outlives the Conduit for good, even what a
\* reconcile that did not notice the deletion creates after it.
NothingLeftBehind == <>[](conduit = None => pod = None /\ \A k \in Kinds : objs[k] = None)
===============================================================================
