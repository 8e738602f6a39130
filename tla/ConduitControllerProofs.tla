------------------------ MODULE ConduitControllerProofs ------------------------
(*****************************************************************************)
(* The safety properties of ConduitController, for every value of the        *)
(* constants.  None of them is inductive as it stands: what the API server   *)
(* may accept depends on what the cache and the worker of every instance may *)
(* still hold.                                                               *)
(*****************************************************************************)
EXTENDS ConduitControllerTypes

\* Versions and uids are handed out once: the stored Conduit has the last
\* version, and whatever is held anywhere else is no newer.
VersionsInv ==
  /\ conduit # None => conduit.rv = ver["Conduit"] /\ conduit.uid <= ver["Conduit"]
  /\ \A o \in Operators :
       /\ cachedConduit[o] # None =>
            cachedConduit[o].rv <= ver["Conduit"] /\ cachedConduit[o].uid <= ver["Conduit"]
       /\ pc[o] # "idle" => c[o].rv <= ver["Conduit"] /\ c[o].uid <= ver["Conduit"]
  /\ \A k \in Kinds : objs[k] # None => objs[k].owner <= ver["Conduit"]

\* A resource version stands for one state of the Conduit: the cached Conduit
\* with the stored version is the stored Conduit, and the one a worker holds
\* differs from it in its conditions at most.
CopiesInv ==
  conduit # None => \A o \in Operators :
    /\ cachedConduit[o] # None /\ cachedConduit[o].rv = conduit.rv => cachedConduit[o] = conduit
    /\ pc[o] # "idle" /\ c[o].rv = conduit.rv => c[o].uid = conduit.uid /\ c[o].gen = conduit.gen

\* Before a Conduit gets its finalizer, nobody holds a copy of it that has one
\* and no reconcile past the finalizer check is about it.
FinalizerInv ==
  conduit # None /\ ~conduit.fin =>
    /\ conduit.conds = NoConditions
    /\ \A o \in Operators :
         /\ cachedConduit[o] # None /\ cachedConduit[o].uid = conduit.uid => ~cachedConduit[o].fin
         /\ pc[o] # "idle" => c[o].uid # conduit.uid
    /\ \A k \in Kinds : objs[k] # None => objs[k].owner # conduit.uid

\* Ready sums up the conditions wherever they are held.
ConditionsInv ==
  /\ conduit # None => ReadyAgrees(conduit.conds)
  /\ \A o \in Operators : /\ cachedConduit[o] # None => ReadyAgrees(cachedConduit[o].conds)
                          /\ pc[o] # "idle" => ReadyAgrees(c[o].conds)

-------------------------------------------------------------------------------
\* What the steps do to the part of the state the Conduit's invariants are about

\* The objects of new are among those of old, with the same owners.
SameOwners(new, old) ==
  \A k \in Kinds : new[k] # None => old[k] # None /\ new[k].owner = old[k].owner

\* Removing an object gives no other object an owner.
LEMMA RemoveObjectEffect ==
  ASSUME TypeOK, NEW k \in Kinds, RemoveObject(k)
  PROVE  SameOwners(objs', objs) /\ ver'["Conduit"] = ver["Conduit"]
BY Zenon DEF RemoveObject, NextVersion, SameOwners, TypeOK, Kinds

\* Neither does changing one and keeping its owner.
LEMMA TouchObjectEffect ==
  ASSUME TypeOK, NEW k \in Kinds, objs[k] # None, NEW obj \in Objects(k), obj.owner = objs[k].owner,
         TouchObject(k, obj)
  PROVE  SameOwners(objs', objs) /\ ver'["Conduit"] = ver["Conduit"]
<1>1. [obj EXCEPT !.rv = ver[k] + 1].owner = obj.owner
  BY DEF Objects
<1>2. ver'["Conduit"] = ver["Conduit"]
  BY DEF TouchObject, NextVersion, TypeOK, Kinds
<1>3. QED
  BY <1>1, <1>2 DEF TouchObject, SameOwners, TypeOK

\* What the cluster and the informers of the objects do concerns neither the
\* Conduit, nor the worker, nor who owns an object.
LEMMA QuietEffect ==
  ASSUME TypeOK, Cluster \/ Disturbance \/ \E o \in Operators, k \in Kinds : SyncObject(o, k)
  PROVE  /\ UNCHANGED <<conduit, cachedConduit, pc, c>>
         /\ ver'["Conduit"] = ver["Conduit"]
         /\ SameOwners(objs', objs)
<1>1. SameOwners(objs, objs)
  BY DEF SameOwners
<1>2. CASE UNCHANGED <<conduit, objs, ver, cachedConduit, pc, c>>
  BY <1>1, <1>2
<1>3. ASSUME NEW k \in Kinds, CollectGarbage(k) \/ Meddle(k)
      PROVE  /\ UNCHANGED <<conduit, cachedConduit, pc, c>>
             /\ ver'["Conduit"] = ver["Conduit"]
             /\ SameOwners(objs', objs)
  <2>1. UNCHANGED <<conduit, cachedConduit, pc, c>>
    BY <1>3 DEF CollectGarbage, Meddle, cacheVars, opVars
  <2>2. objs[k] # None /\ objs[k] \in Objects(k)
    BY <1>3 DEF CollectGarbage, Meddle, TypeOK
  <2>3. RemoveObject(k) \/ TouchObject(k, objs[k])
    BY <1>3 DEF CollectGarbage, Meddle
  <2>4. QED
    BY <2>1, <2>2, <2>3, RemoveObjectEffect, TouchObjectEffect
<1>4. CASE BindVolume
  <2> DEFINE new == [objs["Volume"] EXCEPT !.state = [phase |-> "Bound"]]
  <2>1. UNCHANGED <<conduit, cachedConduit, pc, c>>
    BY <1>4 DEF BindVolume, cacheVars, opVars
  <2>2. objs["Volume"] # None /\ objs["Volume"] \in Objects("Volume") /\ "Volume" \in Kinds
    BY <1>4 DEF BindVolume, TypeOK, Kinds
  <2>3. [phase |-> "Bound"] \in State("Volume")
    BY DEF State
  <2>4. new \in Objects("Volume") /\ new.owner = objs["Volume"].owner
    BY <2>2, <2>3 DEF Objects
  <2>5. TouchObject("Volume", new)
    BY <1>4 DEF BindVolume
  <2> HIDE DEF new
  <2>6. QED
    BY <2>1, <2>2, <2>4, <2>5, TouchObjectEffect
<1>5. CASE ReportPods
  <2> DEFINE new == [objs["Deployment"] EXCEPT !.state = PodCounts]
  <2>1. UNCHANGED <<conduit, cachedConduit, pc, c>>
    BY <1>5 DEF ReportPods, cacheVars, opVars
  <2>2. objs["Deployment"] # None /\ objs["Deployment"] \in Objects("Deployment") /\ "Deployment" \in Kinds
    BY <1>5 DEF ReportPods, TypeOK, Kinds
  <2>3. PodCounts \in State("Deployment")
    BY DEF State, Counts, PodCounts, NoPods
  <2>4. new \in Objects("Deployment") /\ new.owner = objs["Deployment"].owner
    BY <2>2, <2>3 DEF Objects
  <2>5. TouchObject("Deployment", new)
    BY <1>5 DEF ReportPods
  <2> HIDE DEF new
  <2>6. QED
    BY <2>1, <2>2, <2>4, <2>5, TouchObjectEffect
<1>6. CASE \/ StopPod \/ StartPod \/ PodReady \/ PodFails \/ WebhookUp \/ WebhookDown
           \/ \E ref \in Refs, value \in ExtValues \cup {None} : ChangeExternal(ref, value)
  BY <1>2, <1>6, Zenon DEF StopPod, StartPod, PodReady, PodFails, WebhookUp, WebhookDown, ChangeExternal,
                    apiVars, cacheVars, opVars
<1>7. CASE \E o \in Operators, k \in Kinds : SyncObject(o, k)
  BY <1>2, <1>7 DEF SyncObject, apiVars
<1>8. QED
  BY <1>3, <1>4, <1>5, <1>6, <1>7 DEF Cluster, Disturbance

\* The steps of an instance between ReconcileBegin and UpdateStatus.
ObjectSteps(o) ==
  \/ CreateOrUpdateConfig(o) \/ CreateOrUpdateSecret(o) \/ CreateOrUpdateVolume(o)
  \/ CreateOrUpdateDeployment(o) \/ CreateOrUpdateService(o)

\* Each of them works on at most one object, and on conditions in which Ready
\* sums up the others if it did before.
LEMMA StepCalls ==
  ASSUME TypeOK, NEW o \in Operators, ObjectSteps(o)
  PROVE  /\ pc[o] \in Steps /\ pc'[o] \in Steps
         /\ UNCHANGED <<conduit, cachedConduit>>
         /\ \/ UNCHANGED <<objs, ver, c, left>>
            \/ \E conds \in ConditionSets :
                 WithConditions(o, conds) /\ ReadyAgrees(conds) /\ UNCHANGED <<objs, ver, left>>
            \/ \E k \in Kinds, mutated \in ConditionSets, reason \in Reasons : \E data \in Data(k) :
                 /\ ReadyAgrees(c[o].conds) => ReadyAgrees(mutated)
                 /\ CreateOrUpdate(o, k, data, mutated, reason)
<1> DEFINE Call == \E k \in Kinds, mutated \in ConditionSets, reason \in Reasons : \E data \in Data(k) :
                     /\ ReadyAgrees(c[o].conds) => ReadyAgrees(mutated)
                     /\ CreateOrUpdate(o, k, data, mutated, reason)
<1> USE DEF Kinds
<1>1. /\ pc[o] \in Steps /\ pc'[o] \in Steps
      /\ UNCHANGED <<conduit, cachedConduit>>
  <2>1. PICK from \in Steps, to \in Steps : Step(o, from, to)
    BY Zenon DEF ObjectSteps, CreateOrUpdateConfig, CreateOrUpdateSecret, CreateOrUpdateVolume,
         CreateOrUpdateDeployment, CreateOrUpdateService, Steps
  <2>2. QED
    BY <2>1 DEF Step, cacheVars, TypeOK
<1>2. pc[o] # "idle" /\ c[o].conds \in ConditionSets /\ c[o].spec \in Specs
  BY <1>1, StepFrom
<1>3. ASSUME NEW k \in Kinds, NEW status \in Statuses, NEW good \in Reasons, NEW bad \in Reasons,
             NEW message \in Messages, NEW data \in Data(k),
             CreateOrUpdate(o, k, data, WithCondition(c[o].conds, k, status, good, message), bad)
      PROVE  Call
  BY <1>2, <1>3, WithConditionType
<1>4. CASE CreateOrUpdateConfig(o)
  <2>1. /\ "True" \in Statuses /\ "ConfigReady" \in Reasons /\ "ConfigError" \in Reasons
        /\ "Pipeline configuration created" \in Messages
    BY DEF Statuses, Reasons, Messages
  <2>2. Resolvable(c[o].spec, "ConfigMap") => PipelineConfigYAML(c[o].spec) \in Data("ConfigMap")
    BY <1>2, PipelineConfigType
  <2>3. QED
    BY <1>1, <1>3, <1>4, <2>1, <2>2, Zenon DEF CreateOrUpdateConfig
<1>5. CASE CreateOrUpdateSecret(o)
  <2>1. /\ "True" \in Statuses /\ "SecretReady" \in Reasons /\ "ConduitSecretError" \in Reasons
        /\ "Conduit secret created" \in Messages
    BY DEF Statuses, Reasons, Messages
  <2>2. c[o].spec.registry = "" \/ Resolvable(c[o].spec, "Secret") => SchemaRegistryConfig(c[o].spec) \in Data("Secret")
    BY <1>2, SchemaRegistryType, Zenon
  <2>3. QED
    BY <1>1, <1>3, <1>5, <2>1, <2>2, Zenon DEF CreateOrUpdateSecret
<1>6. CASE CreateOrUpdateVolume(o)
  <2> DEFINE phase  == IF cachedObjs[o]["Volume"] = None THEN "" ELSE cachedObjs[o]["Volume"].state.phase
             status == IF phase = "Bound" THEN "True" ELSE "False"
  <2>1. phase \in {"", "Bound"}
    BY Zenon DEF TypeOK, OperatorOK, Objects, State
  <2>2. phase \in Messages
    <3> HIDE DEF phase
    <3>1. QED
      BY <2>1, Zenon DEF Messages
  <2>3. status \in Statuses /\ "VolumeReady" \in Reasons /\ "VolumeClaimError" \in Reasons
    BY DEF Statuses, Reasons
  <2>4. CreateOrUpdate(o, "Volume", ConduitVolumeClaim, WithCondition(c[o].conds, "Volume", status, "VolumeReady", phase),
                       "VolumeClaimError")
    BY <1>6, Zenon DEF CreateOrUpdateVolume
  <2>5. ConduitVolumeClaim \in Data("Volume")
    BY DEF Data, ConduitVolumeClaim
  <2> HIDE DEF phase, status
  <2>6. QED
    BY <1>1, <1>3, <2>2, <2>3, <2>4, <2>5
<1>7. CASE CreateOrUpdateDeployment(o)
  <2>1. "DeploymentError" \in Reasons /\ "not supported" \in Messages
    BY DEF Reasons, Messages
  <2>2. CASE UNCHANGED <<objs, ver, c, left>>
    BY <1>1, <2>2
  <2>3. CASE /\ WithConditions(o, Failure(c[o].conds, "Deployment", "DeploymentError", "not supported"))
             /\ UNCHANGED <<objs, ver, left>>
    BY <1>1, <1>2, <2>1, <2>3, FailureType, Zenon
  <2>4. CASE /\ ConfigKnown(o)
             /\ CreateOrUpdate(o, "Deployment", DeploymentSpec(o, c[o].spec), DeploymentConditions(o, c[o].spec),
                               "DeploymentError")
    BY <1>1, <1>2, <2>1, <2>4, DeploymentSpecType, DeploymentConditionsType, Zenon
  <2>5. QED
    BY <1>7, <2>2, <2>3, <2>4, Zenon DEF CreateOrUpdateDeployment
<1>8. CASE CreateOrUpdateService(o)
  <2> DEFINE address == IF cachedObjs[o]["Service"] = None THEN "" ELSE cachedObjs[o]["Service"].state.address
  <2>1. address \in {"", "clusterIP"}
    BY Zenon DEF TypeOK, OperatorOK, Objects, State
  <2>2. address \in Messages
    <3> HIDE DEF address
    <3>1. QED
      BY <2>1, Zenon DEF Messages
  <2>3. "True" \in Statuses /\ "ServiceReady" \in Reasons /\ "ServiceError" \in Reasons
    BY DEF Statuses, Reasons
  <2>4. CreateOrUpdate(o, "Service", [ports |-> "http, grpc"],
                       WithCondition(c[o].conds, "Service", "True", "ServiceReady", address), "ServiceError")
    BY <1>8, Zenon DEF CreateOrUpdateService
  <2>5. [ports |-> "http, grpc"] \in Data("Service")
    BY DEF Data
  <2> HIDE DEF address
  <2>6. QED
    BY <1>1, <1>3, <2>2, <2>3, <2>4, <2>5, Zenon
<1>9. QED
  BY <1>4, <1>5, <1>6, <1>7, <1>8, Zenon DEF ObjectSteps

\* The steps leave the identity of the Conduit they work on alone, and a new
\* owner of an object is that Conduit.
LEMMA StepEffect ==
  ASSUME TypeOK, NEW o \in Operators, ObjectSteps(o)
  PROVE  /\ pc[o] # "idle" /\ pc'[o] # "idle"
         /\ UNCHANGED <<conduit, cachedConduit>> /\ OthersUnchanged(o)
         /\ ver'["Conduit"] = ver["Conduit"]
         /\ c'[o].uid = c[o].uid /\ c'[o].rv = c[o].rv /\ c'[o].gen = c[o].gen
         /\ ReadyAgrees(c[o].conds) => ReadyAgrees(c'[o].conds)
         /\ \A k \in Kinds : objs'[k] # None => \/ objs[k] # None /\ objs'[k].owner = objs[k].owner
                                               \/ objs'[k].owner = c[o].uid
         /\ \A k \in Kinds : objs[k] # None => objs'[k] # None
         /\ left'["edit"] = left["edit"]
<1>1. pc[o] # "idle" /\ pc'[o] # "idle" /\ UNCHANGED <<conduit, cachedConduit>> /\ OthersUnchanged(o)
  BY StepCalls, CreateOrUpdateStepsType DEF Steps, ObjectSteps
<1>2. c[o] \in Conduits
  BY <1>1, Zenon DEF TypeOK, OperatorOK
<1>3. ASSUME NEW conds \in ConditionSets, WithConditions(o, conds)
      PROVE  c'[o].uid = c[o].uid /\ c'[o].rv = c[o].rv /\ c'[o].gen = c[o].gen /\ c'[o].conds = conds
  <2>1. ASSUME NEW d \in Conduits
        PROVE  LET new == [d EXCEPT !.conds = conds]
               IN  new.uid = d.uid /\ new.rv = d.rv /\ new.gen = d.gen /\ new.conds = conds
    BY DEF Conduits
  <2>2. c'[o] = [c[o] EXCEPT !.conds = conds]
    BY <1>3, WithConditionsEffect
  <2>3. QED
    BY <1>2, <2>1, <2>2
<1>4. ASSUME NEW k \in Kinds, NEW data \in Data(k), Write(o, k, data)
      PROVE  /\ ver'["Conduit"] = ver["Conduit"]
             /\ \A j \in Kinds : objs'[j] # None => \/ objs[j] # None /\ objs'[j].owner = objs[j].owner
                                                   \/ objs'[j].owner = c[o].uid
             /\ \A j \in Kinds : objs[j] # None => objs'[j] # None
  <2>1. ver'["Conduit"] = ver["Conduit"]
    BY <1>4, Zenon DEF Write, NextVersion, TypeOK, Kinds
  <2>2. objs'[k] # None
    BY <1>1, <1>4, WriteType, NoObjectAssumption
  <2>3. QED
    BY <1>4, <2>1, <2>2 DEF Write, ControllerReference, TypeOK
<1>5. CASE UNCHANGED <<objs, ver, c, left>>
  BY <1>1, <1>5
<1>6. ASSUME NEW conds \in ConditionSets, WithConditions(o, conds), ReadyAgrees(conds), UNCHANGED <<objs, ver>>
      PROVE  /\ c'[o].uid = c[o].uid /\ c'[o].rv = c[o].rv /\ c'[o].gen = c[o].gen /\ ReadyAgrees(c'[o].conds)
             /\ UNCHANGED <<objs, ver>>
  BY <1>3, <1>6
<1>7. ASSUME NEW k \in Kinds, NEW mutated \in ConditionSets, NEW reason \in Reasons, NEW data \in Data(k),
             ReadyAgrees(c[o].conds) => ReadyAgrees(mutated), CreateOrUpdate(o, k, data, mutated, reason)
      PROVE  /\ c'[o].uid = c[o].uid /\ c'[o].rv = c[o].rv /\ c'[o].gen = c[o].gen
             /\ ReadyAgrees(c[o].conds) => ReadyAgrees(c'[o].conds)
             /\ Write(o, k, data) \/ UNCHANGED <<objs, ver>>
             /\ left'["edit"] = left["edit"]
  <2>1. (Write(o, k, data) \/ UNCHANGED <<objs, ver>>) /\ left'["edit"] = left["edit"]
    BY <1>7, CreateOrUpdateEffect
  <2>2. CASE WithConditions(o, mutated)
    BY <1>3, <1>7, <2>1, <2>2, Zenon
  <2>3. ASSUME NEW message \in Messages, WithConditions(o, Failure(mutated, k, reason, message))
        PROVE  c'[o].uid = c[o].uid /\ c'[o].rv = c[o].rv /\ c'[o].gen = c[o].gen /\ ReadyAgrees(c'[o].conds)
    BY <1>3, <1>7, <2>3, FailureType, Zenon
  <2>4. QED
    BY <1>7, <2>1, <2>2, <2>3, CreateOrUpdateEffect, Zenon
<1>8. QED
  BY <1>1, <1>4, <1>5, <1>6, <1>7, StepCalls, Zenon

\* A stored Conduit gets the next version, and so is newer than any copy.
LEMMA StoreConduitEffect ==
  ASSUME TypeOK, NEW new \in Conduits, StoreConduit(new)
  PROVE  /\ ver'["Conduit"] = ver["Conduit"] + 1
         /\ conduit' = [new EXCEPT !.rv = ver["Conduit"] + 1]
         /\ conduit'.rv = ver["Conduit"] + 1 /\ conduit'.uid = new.uid /\ conduit'.gen = new.gen
         /\ conduit'.fin = new.fin /\ conduit'.conds = new.conds /\ conduit'.spec = new.spec
         /\ conduit'.obs = new.obs /\ conduit'.del = new.del
<1>1. ver'["Conduit"] = ver["Conduit"] + 1
  BY DEF StoreConduit, NextVersion, TypeOK
<1>2. QED
  BY <1>1 DEF StoreConduit, Conduits

\* A removed Conduit uses up a version, too.
LEMMA RemoveConduitEffect ==
  ASSUME TypeOK, RemoveConduit
  PROVE  conduit' = None /\ ver'["Conduit"] = ver["Conduit"] + 1
BY DEF RemoveConduit, NextVersion, TypeOK

-------------------------------------------------------------------------------
\* The invariant about the Conduit and its copies.
CoreInv == VersionsInv /\ CopiesInv /\ FinalizerInv

\* The numbers it compares.
LEMMA CoreNumbers ==
  ASSUME TypeOK
  PROVE  /\ ver["Conduit"] \in Nat
         /\ \A o \in Operators : /\ cachedConduit[o] # None => cachedConduit[o].rv \in Nat /\ cachedConduit[o].uid \in Nat
                                 /\ pc[o] # "idle" => c[o].rv \in Nat /\ c[o].uid \in Nat
         /\ \A k \in Kinds : objs[k] # None => objs[k].owner \in Nat
BY Zenon DEF TypeOK, OperatorOK, Conduits, Objects

\* Every instance keeps the copies it has, except that its worker may let go of one.
CopiesKept ==
  \A o \in Operators : /\ cachedConduit'[o] = cachedConduit[o]
                       /\ (pc'[o] = pc[o] /\ c'[o] = c[o]) \/ pc'[o] = "idle"

\* Storing a changed Conduit under the uid it had keeps the invariant, if it does
\* not lose its finalizer and gets conditions only when it has one.
LEMMA StoreKeepsCore ==
  ASSUME TypeOK, CoreInv, conduit # None, NEW new \in Conduits, StoreConduit(new),
         new.uid = conduit.uid, conduit.fin => new.fin, ~new.fin => new.conds = conduit.conds,
         UNCHANGED objs, CopiesKept
  PROVE  CoreInv'
<1> DEFINE v == ver["Conduit"]
<1>1. /\ ver'["Conduit"] = v + 1 /\ conduit'.rv = v + 1 /\ conduit'.uid = conduit.uid
      /\ conduit'.fin = new.fin /\ conduit'.conds = new.conds
  BY StoreConduitEffect
<1>2. v \in Nat /\ conduit \in Conduits /\ conduit.uid \in Nat
  BY Zenon DEF TypeOK, Conduits
<1>3. VersionsInv'
  BY <1>1, <1>2, CoreNumbers DEF CoreInv, VersionsInv, CopiesKept
<1>4. CopiesInv'
  BY <1>1, <1>2, CoreNumbers DEF CoreInv, VersionsInv, CopiesInv, CopiesKept
<1>5. new.fin \in BOOLEAN /\ conduit.fin \in BOOLEAN
  BY <1>2 DEF Conduits
<1>6. FinalizerInv'
  BY <1>1, <1>5 DEF CoreInv, FinalizerInv, CopiesKept
<1>7. QED
  BY <1>3, <1>4, <1>6 DEF CoreInv

\* So does removing it.
LEMMA RemoveKeepsCore ==
  ASSUME TypeOK, CoreInv, RemoveConduit, UNCHANGED objs, CopiesKept
  PROVE  CoreInv'
<1>1. conduit' = None /\ ver'["Conduit"] = ver["Conduit"] + 1 /\ ver["Conduit"] \in Nat
  BY RemoveConduitEffect, Zenon DEF TypeOK
<1>2. VersionsInv'
  BY <1>1, CoreNumbers DEF CoreInv, VersionsInv, CopiesKept
<1>3. QED
  BY <1>1, <1>2 DEF CoreInv, CopiesInv, FinalizerInv

\* The owner of an object is who it was, or the Conduit o's worker holds.
OwnersFrom(o) ==
  \A k \in Kinds : objs'[k] # None => \/ objs[k] # None /\ objs'[k].owner = objs[k].owner
                                      \/ pc[o] # "idle" /\ objs'[k].owner = c[o].uid

\* The cache of o has its Conduit from the API server, and the worker from the cache
\* and with a finalizer.
CopiesFrom(o) ==
  /\ cachedConduit'[o] \in {cachedConduit[o], conduit}
  /\ \/ pc'[o] = "idle"
     \/ pc[o] # "idle" /\ pc'[o] # "idle" /\ c'[o].uid = c[o].uid /\ c'[o].rv = c[o].rv /\ c'[o].gen = c[o].gen
     \/ cachedConduit[o] # None /\ cachedConduit[o].fin /\ c'[o] = cachedConduit[o]

\* So does a step of an instance that leaves the stored Conduit alone.
LEMMA CopyKeepsCore ==
  ASSUME TypeOK, CoreInv, NEW o \in Operators, OthersUnchanged(o),
         UNCHANGED conduit, ver'["Conduit"] = ver["Conduit"], OwnersFrom(o), CopiesFrom(o)
  PROVE  CoreInv'
<1>1. \A p \in Operators \ {o} : cachedConduit'[p] = cachedConduit[p] /\ pc'[p] = pc[p] /\ c'[p] = c[p]
  BY DEF OthersUnchanged
<1>2. VersionsInv'
  <2>1. \A k \in Kinds : objs'[k] # None => objs'[k].owner <= ver["Conduit"]
    BY DEF CoreInv, VersionsInv, OwnersFrom
  <2>2. ASSUME NEW p \in Operators
        PROVE  /\ cachedConduit'[p] # None =>
                    cachedConduit'[p].rv <= ver["Conduit"] /\ cachedConduit'[p].uid <= ver["Conduit"]
               /\ pc'[p] # "idle" => c'[p].rv <= ver["Conduit"] /\ c'[p].uid <= ver["Conduit"]
    <3>1. CASE p = o
      BY <3>1, CoreNumbers DEF CoreInv, VersionsInv, CopiesFrom
    <3>2. CASE p # o
      BY <1>1, <3>2 DEF CoreInv, VersionsInv
    <3>3. QED
      BY <3>1, <3>2
  <2>3. QED
    BY <2>1, <2>2, Zenon DEF CoreInv, VersionsInv
<1>3. CopiesInv'
  BY <1>1 DEF CoreInv, CopiesInv, CopiesFrom
<1>4. FinalizerInv'
  BY <1>1 DEF CoreInv, FinalizerInv, OwnersFrom, CopiesFrom
<1>5. QED
  BY <1>2, <1>3, <1>4 DEF CoreInv

\* The users' actions keep the invariant.
LEMMA UserCore == TypeOK /\ CoreInv /\ User => CoreInv'
<1> SUFFICES ASSUME TypeOK, CoreInv, User PROVE CoreInv'
  OBVIOUS
<1>1. ASSUME NEW s \in Specs, UserCreate(s) PROVE CoreInv'
  <2> DEFINE v   == ver["Conduit"]
             new == [uid |-> v + 1, rv |-> 0, gen |-> 1, spec |-> s, fin |-> FALSE,
                     del |-> FALSE, obs |-> 0, conds |-> NoConditions]
  <2>1. v \in Nat
    BY DEF TypeOK
  <2>2. conduit' = [new EXCEPT !.rv = v + 1] /\ ver'["Conduit"] = v + 1
    BY <1>1 DEF UserCreate, StoreConduit, NextVersion, TypeOK
  <2>3. conduit'.uid = v + 1 /\ conduit'.rv = v + 1 /\ conduit'.conds = NoConditions
    BY <2>2
  <2>4. UNCHANGED <<cachedConduit, objs, pc, c>>
    BY <1>1 DEF UserCreate, cacheVars, opVars
  <2> HIDE DEF v, new
  <2>5. VersionsInv'
    BY <2>1, <2>2, <2>3, <2>4, CoreNumbers DEF CoreInv, VersionsInv, v
  <2>6. CopiesInv'
    BY <2>1, <2>2, <2>3, <2>4, CoreNumbers DEF CoreInv, VersionsInv, CopiesInv, v
  <2>7. FinalizerInv'
    BY <2>1, <2>2, <2>3, <2>4, CoreNumbers DEF CoreInv, VersionsInv, FinalizerInv, v
  <2>8. QED
    BY <2>5, <2>6, <2>7 DEF CoreInv
<1>2. ASSUME NEW s \in Specs, UserEdit(s) PROVE CoreInv'
  <2> DEFINE new == [conduit EXCEPT !.spec = s, !.gen = @ + 1]
  <2>1. conduit # None /\ conduit \in Conduits /\ conduit.gen + 1 \in Nat
    BY <1>2 DEF UserEdit, TypeOK, Conduits
  <2>2. new \in Conduits /\ new.uid = conduit.uid /\ new.fin = conduit.fin /\ new.conds = conduit.conds
    BY <2>1, Zenon DEF Conduits
  <2>3. StoreConduit(new) /\ UNCHANGED <<cachedConduit, objs, pc, c>>
    BY <1>2 DEF UserEdit, cacheVars, opVars
  <2> HIDE DEF new
  <2>4. QED
    BY <2>1, <2>2, <2>3, StoreKeepsCore DEF CopiesKept
<1>3. ASSUME UserDelete PROVE CoreInv'
  <2> DEFINE new == [conduit EXCEPT !.del = TRUE, !.gen = @ + 1]
  <2>1. conduit # None /\ conduit \in Conduits /\ conduit.gen + 1 \in Nat
    BY <1>3 DEF UserDelete, TypeOK, Conduits
  <2>2. new \in Conduits /\ new.uid = conduit.uid /\ new.fin = conduit.fin /\ new.conds = conduit.conds
    BY <2>1, Zenon DEF Conduits
  <2>3. (StoreConduit(new) \/ RemoveConduit) /\ UNCHANGED <<cachedConduit, objs, pc, c>>
    BY <1>3 DEF UserDelete, cacheVars, opVars
  <2> HIDE DEF new
  <2>4. QED
    BY <2>1, <2>2, <2>3, StoreKeepsCore, RemoveKeepsCore DEF CopiesKept
<1>4. QED
  BY <1>1, <1>2, <1>3 DEF User

\* A finalizer update the API server accepts is one of the stored Conduit itself:
\* adding the finalizer changes nothing else, and removing it removes the Conduit.
LEMMA FinalizerEffect ==
  ASSUME TypeOK, NEW o \in Operators, CoreInv, ReconcileDeleted(o) \/ ReconcileAddFinalizer(o)
  PROVE  /\ UNCHANGED <<objs, cachedConduit, pc, c>>
         /\ \/ UNCHANGED <<conduit, ver>>
            \/ conduit # None /\ conduit.del /\ RemoveConduit
            \/ /\ conduit # None /\ ~conduit.del /\ ~conduit.fin
               /\ \E new \in Conduits : /\ StoreConduit(new)
                                       /\ new.uid = conduit.uid /\ new.fin = TRUE
                                       /\ new.conds = conduit.conds /\ new.spec = conduit.spec
                                       /\ new.gen = conduit.gen /\ new.obs = conduit.obs
                                       /\ new.del = conduit.del
<1>1. UNCHANGED <<objs, cachedConduit, pc, c>>
  BY Zenon DEF ReconcileDeleted, ReconcileAddFinalizer, cacheVars
<1>2. ASSUME UpdateAccepted(o), cachedConduit[o] # None
      PROVE  conduit # None /\ cachedConduit[o] = conduit /\ conduit \in Conduits
  BY <1>2 DEF UpdateAccepted, CoreInv, CopiesInv, TypeOK
<1>3. CASE ReconcileDeleted(o)
  <2>1. UpdateFinalizer(o, FALSE, FALSE) /\ cachedConduit[o] # None /\ cachedConduit[o].del
    BY <1>3, Zenon DEF ReconcileDeleted
  <2>2. (UpdateAccepted(o) /\ UpdateConduit(o, FALSE)) \/ UNCHANGED <<conduit, ver>>
    BY <2>1, UpdateFinalizerEffect, Zenon
  <2>3. QED
    BY <1>1, <1>2, <2>1, <2>2 DEF UpdateConduit
<1>4. CASE ReconcileAddFinalizer(o)
  <2> DEFINE new == [conduit EXCEPT !.fin = TRUE, !.spec = cachedConduit[o].spec,
                       !.gen = IF conduit.spec = cachedConduit[o].spec THEN @ ELSE @ + 1]
  <2>1. UpdateFinalizer(o, TRUE, TRUE) /\ cachedConduit[o] # None /\ ~cachedConduit[o].del /\ ~cachedConduit[o].fin
    BY <1>4, Zenon DEF ReconcileAddFinalizer, HasFinalizer
  <2>2. (UpdateAccepted(o) /\ UpdateConduit(o, TRUE)) \/ UNCHANGED <<conduit, ver>>
    BY <2>1, UpdateFinalizerEffect, Zenon
  <2>3. ASSUME UpdateAccepted(o), UpdateConduit(o, TRUE)
        PROVE  /\ conduit # None /\ ~conduit.del /\ ~conduit.fin /\ new \in Conduits /\ StoreConduit(new)
               /\ new.uid = conduit.uid /\ new.fin = TRUE
               /\ new.conds = conduit.conds /\ new.spec = conduit.spec
               /\ new.gen = conduit.gen /\ new.obs = conduit.obs /\ new.del = conduit.del
    <3>1. /\ conduit # None /\ cachedConduit[o] = conduit /\ conduit \in Conduits
          /\ ~conduit.del /\ ~conduit.fin
      BY <1>2, <2>1, <2>3
    <3>2. /\ new \in Conduits /\ new.uid = conduit.uid /\ new.fin = TRUE
          /\ new.conds = conduit.conds /\ new.spec = conduit.spec
          /\ new.gen = conduit.gen /\ new.obs = conduit.obs /\ new.del = conduit.del
      BY <3>1, Zenon DEF Conduits
    <3>3. StoreConduit(new)
      BY <2>3 DEF UpdateConduit
    <3>4. QED
      BY <3>1, <3>2, <3>3
  <2> HIDE DEF new
  <2>4. QED
    BY <1>1, <2>2, <2>3, Zenon
<1>5. QED
  BY <1>3, <1>4, Zenon

\* A status that is stored was computed from the stored generation of a Conduit
\* with a finalizer.
LEMMA UpdateStatusEffect ==
  ASSUME TypeOK, NEW o \in Operators, CoreInv, UpdateStatus(o)
  PROVE  /\ UNCHANGED <<objs, cachedConduit>> /\ pc'[o] = "idle" /\ OthersUnchanged(o)
         /\ pc[o] # "idle" /\ c[o] \in Conduits
         /\ \/ UNCHANGED <<conduit, ver>>
            \/ /\ conduit # None /\ conduit.fin
               /\ \E new \in Conduits : /\ StoreConduit(new)
                                       /\ new.uid = conduit.uid /\ new.fin = conduit.fin
                                       /\ new.spec = conduit.spec /\ new.gen = conduit.gen
                                       /\ new.conds = StoredConditions(c[o].conds)
                                       /\ new.obs = conduit.gen /\ new.del = conduit.del
<1> DEFINE new == [conduit EXCEPT !.conds = StoredConditions(c[o].conds), !.obs = c[o].gen]
<1>1. UNCHANGED <<objs, cachedConduit>> /\ pc'[o] = "idle" /\ pc[o] = "status"
  BY Zenon DEF UpdateStatus, cacheVars, TypeOK
<1>2. pc[o] # "idle" /\ c[o] \in Conduits
  BY <1>1, StepFrom DEF Steps
<1>3. UNCHANGED <<conduit, ver>> \/ (StatusAccepted(o) /\ StoreConduit(new))
  BY DEF UpdateStatus
<1>4. ASSUME StatusAccepted(o)
      PROVE  /\ conduit # None /\ conduit.fin /\ new \in Conduits
             /\ new.uid = conduit.uid /\ new.fin = conduit.fin
             /\ new.spec = conduit.spec /\ new.gen = conduit.gen
             /\ new.conds = StoredConditions(c[o].conds) /\ new.obs = conduit.gen
             /\ new.del = conduit.del
  <2>1. conduit # None /\ conduit \in Conduits /\ c[o].uid = conduit.uid /\ c[o].gen = conduit.gen
    BY <1>2, <1>4 DEF StatusAccepted, CoreInv, CopiesInv, TypeOK
  <2>2. conduit.fin
    BY <1>2, <2>1 DEF CoreInv, FinalizerInv
  <2>3. StoredConditions(c[o].conds) \in ConditionSets
    BY <1>2 DEF Conduits, StoredConditions, ConditionSets, Condition, Stored
  <2>4. QED
    BY <2>1, <2>2, <2>3, Zenon DEF Conduits
<1> HIDE DEF new
<1>5. QED
  BY <1>1, <1>2, <1>3, <1>4, ReconcileEndType

\* Every step keeps the invariant.
LEMMA NextCore == TypeOK /\ CoreInv /\ [Next]_vars => CoreInv'
<1> SUFFICES ASSUME TypeOK, CoreInv, [Next]_vars PROVE CoreInv'
  OBVIOUS
<1>1. CASE User
  BY <1>1, UserCore
<1>2. ASSUME NEW o \in Operators, SyncConduit(o) \/ Restart(o) PROVE CoreInv'
  <2>1. /\ cachedConduit'[o] = conduit /\ UNCHANGED <<conduit, objs, ver>>
        /\ UNCHANGED <<pc, c>> \/ pc'[o] = "idle"
    BY <1>2 DEF SyncConduit, Restart, apiVars, TypeOK
  <2>2. OthersUnchanged(o)
    BY <1>2, CacheType DEF Informers
  <2>3. QED
    BY <2>1, <2>2, CopyKeepsCore DEF OwnersFrom, CopiesFrom
<1>3. ASSUME NEW o \in Operators, ReconcileDeleted(o) \/ ReconcileAddFinalizer(o) PROVE CoreInv'
  <2>1. CASE UNCHANGED <<conduit, ver>>
    BY <1>3, <2>1, FinalizerEffect DEF CoreInv, VersionsInv, CopiesInv, FinalizerInv
  <2>2. QED
    BY <1>3, <2>1, FinalizerEffect, RemoveKeepsCore, StoreKeepsCore DEF CopiesKept
<1>4. ASSUME NEW o \in Operators, ReconcileBegin(o) PROVE CoreInv'
  <2>1. /\ cachedConduit[o] # None /\ cachedConduit[o].fin /\ c'[o] = cachedConduit[o]
        /\ UNCHANGED <<conduit, objs, ver, cachedConduit>>
    BY <1>4 DEF ReconcileBegin, HasFinalizer, apiVars, cacheVars, TypeOK
  <2>2. OthersUnchanged(o)
    BY <1>4, ReconcileStartType
  <2>3. QED
    BY <2>1, <2>2, CopyKeepsCore DEF OwnersFrom, CopiesFrom
<1>5. ASSUME NEW o \in Operators, ObjectSteps(o) PROVE CoreInv'
  <2>1. OwnersFrom(o) /\ CopiesFrom(o)
    BY <1>5, StepEffect DEF OwnersFrom, CopiesFrom
  <2>2. QED
    BY <1>5, <2>1, StepEffect, CopyKeepsCore
<1>6. ASSUME NEW o \in Operators, DeploymentPanic(o) PROVE CoreInv'
  <2>1. pc'[o] = "idle" /\ UNCHANGED <<conduit, objs, ver, cachedConduit>>
    BY <1>6 DEF DeploymentPanic, apiVars, cacheVars, TypeOK
  <2>2. OthersUnchanged(o)
    BY <1>6, ReconcileEndType
  <2>3. QED
    BY <2>1, <2>2, CopyKeepsCore DEF OwnersFrom, CopiesFrom
<1>7. ASSUME NEW o \in Operators, UpdateStatus(o) PROVE CoreInv'
  <2>1. CopiesKept
    BY <1>7, UpdateStatusEffect DEF CopiesKept, OthersUnchanged
  <2>2. CASE UNCHANGED <<conduit, ver>>
    <3>1. OwnersFrom(o) /\ CopiesFrom(o)
      BY <1>7, UpdateStatusEffect DEF OwnersFrom, CopiesFrom
    <3>2. QED
      BY <1>7, <2>2, <3>1, UpdateStatusEffect, CopyKeepsCore
  <2>3. QED
    BY <1>7, <2>1, <2>2, UpdateStatusEffect, StoreKeepsCore, Zenon
<1>8. CASE Cluster \/ Disturbance \/ \E o \in Operators, k \in Kinds : SyncObject(o, k)
  BY <1>8, QuietEffect DEF SameOwners, CoreInv, VersionsInv, CopiesInv, FinalizerInv
<1>9. CASE (\E o \in Operators : ReconcileNotFound(o)) \/ UNCHANGED vars
  <2>1. UNCHANGED <<conduit, objs, ver, cachedConduit, pc, c>>
    BY <1>9 DEF ReconcileNotFound, vars, apiVars, cacheVars, opVars
  <2>2. QED
    BY <2>1, Zenon DEF CoreInv, VersionsInv, CopiesInv, FinalizerInv
<1>10. QED
  BY <1>1, <1>2, <1>3, <1>4, <1>5, <1>6, <1>7, <1>8, <1>9
     DEF Next, Informers, Reconcile, ObjectSteps

\* It holds to begin with, and so always.
THEOREM CoreCorrect == Spec => [](TypeOK /\ CoreInv)
<1>1. Init => CoreInv
  BY DEF Init, CoreInv, VersionsInv, CopiesInv, FinalizerInv
<1>2. QED
  BY <1>1, InitType, NextType, NextCore, PTL DEF Spec

\* FinalizerFirst: nothing is created for, and no status stored in, a Conduit
\* without the finalizer, whatever the cache shows Reconcile.
THEOREM FinalizerFirstCorrect == Spec => []FinalizerFirst
<1>1. CoreInv => FinalizerFirst
  BY DEF CoreInv, FinalizerInv, FinalizerFirst
<1>2. QED
  BY <1>1, CoreCorrect, PTL

-------------------------------------------------------------------------------
\* What may happen to a Conduit in one step

\* A user's step that leaves the same Conduit there spends an edit and keeps the
\* status; any other step keeps the spec, and changes the conditions only
\* together with the observed generation.
LEMMA ConduitEffect ==
  ASSUME TypeOK, CoreInv, [Next]_vars, SameConduit
  PROVE  \/ left'["edit"] < left["edit"] /\ conduit'.conds = conduit.conds
         \/ conduit'.spec = conduit.spec /\ conduit'.conds = conduit.conds
         \/ conduit'.spec = conduit.spec /\ conduit'.obs = conduit'.gen
<1> DEFINE Goal == \/ left'["edit"] < left["edit"] /\ conduit'.conds = conduit.conds
                   \/ conduit'.spec = conduit.spec /\ conduit'.conds = conduit.conds
                   \/ conduit'.spec = conduit.spec /\ conduit'.obs = conduit'.gen
<1>1. conduit # None /\ conduit' # None /\ conduit \in Conduits
  BY Zenon DEF SameConduit, TypeOK
<1>2. CASE UNCHANGED conduit
  BY <1>2
<1>3. ASSUME Spend("edit") PROVE left'["edit"] < left["edit"]
  BY <1>3 DEF Spend, TypeOK, Budgets
<1>4. ASSUME NEW s \in Specs, UserCreate(s) PROVE FALSE
  BY <1>1, <1>4, Zenon DEF UserCreate
<1>5. ASSUME NEW s \in Specs, UserEdit(s) PROVE Goal
  <2> DEFINE new == [conduit EXCEPT !.spec = s, !.gen = @ + 1]
  <2>1. conduit.gen + 1 \in Nat
    BY <1>1 DEF Conduits
  <2>2. new \in Conduits /\ new.conds = conduit.conds
    BY <1>1, <2>1, Zenon DEF Conduits
  <2>3. StoreConduit(new) /\ Spend("edit")
    BY <1>5 DEF UserEdit
  <2> HIDE DEF new
  <2>4. QED
    BY <1>3, <2>2, <2>3, StoreConduitEffect
<1>6. CASE UserDelete
  <2> DEFINE new == [conduit EXCEPT !.del = TRUE, !.gen = @ + 1]
  <2>1. conduit.gen + 1 \in Nat
    BY <1>1 DEF Conduits
  <2>2. new \in Conduits /\ new.conds = conduit.conds
    BY <1>1, <2>1, Zenon DEF Conduits
  <2>3. StoreConduit(new) /\ Spend("edit")
    BY <1>1, <1>6 DEF UserDelete, RemoveConduit
  <2> HIDE DEF new
  <2>4. QED
    BY <1>3, <2>2, <2>3, StoreConduitEffect
<1>7. ASSUME NEW o \in Operators, ReconcileDeleted(o) \/ ReconcileAddFinalizer(o) PROVE Goal
  BY <1>1, <1>2, <1>7, FinalizerEffect, StoreConduitEffect, Zenon DEF RemoveConduit
<1>8. ASSUME NEW o \in Operators, UpdateStatus(o) PROVE Goal
  BY <1>2, <1>8, UpdateStatusEffect, StoreConduitEffect
<1>9. ASSUME NEW o \in Operators, ObjectSteps(o) PROVE Goal
  BY <1>2, <1>9, StepEffect
<1>10. CASE Cluster \/ Disturbance \/ \E o \in Operators, k \in Kinds : SyncObject(o, k)
  BY <1>2, <1>10, QuietEffect
<1>11. CASE \/ \E o \in Operators : \/ SyncConduit(o) \/ Restart(o) \/ ReconcileNotFound(o) \/ ReconcileBegin(o)
                                    \/ DeploymentPanic(o)
            \/ UNCHANGED vars
  BY <1>2, <1>11, Zenon DEF SyncConduit, Restart, ReconcileNotFound, ReconcileBegin, DeploymentPanic,
     apiVars, vars
<1>12. QED
  BY <1>4, <1>5, <1>6, <1>7, <1>8, <1>9, <1>10, <1>11, Zenon DEF Next, User, Informers, Reconcile, ObjectSteps

\* SpecBelongsToUser: writing the Conduit back with or without its finalizer never
\* puts an older spec in place of the stored one.
THEOREM SpecBelongsToUserCorrect == Spec => SpecBelongsToUser
<1>1. TypeOK /\ CoreInv /\ [Next]_vars
        => [SameConduit /\ conduit'.spec # conduit.spec => left'["edit"] < left["edit"]]_vars
  BY ConduitEffect
<1>2. QED
  BY <1>1, CoreCorrect, PTL DEF Spec, SpecBelongsToUser

\* StatusOfCurrentSpec: conditions are stored only together with the generation of
\* the spec they were computed from, and that is the stored one.
THEOREM StatusOfCurrentSpecCorrect == Spec => StatusOfCurrentSpec
<1>1. TypeOK /\ CoreInv /\ [Next]_vars
        => [SameConduit /\ conduit'.conds # conduit.conds => conduit'.obs = conduit'.gen]_vars
  BY ConduitEffect
<1>2. QED
  BY <1>1, CoreCorrect, PTL DEF Spec, StatusOfCurrentSpec

-------------------------------------------------------------------------------
\* Ready and the other conditions

\* Storing the status changes times only.
LEMMA StoredConditionsAgree ==
  ASSUME NEW conds \in ConditionSets, ReadyAgrees(conds)
  PROVE  ReadyAgrees(StoredConditions(conds))
<1> DEFINE stored == StoredConditions(conds)
<1>1. \A t \in ConditionTypes :
        condEquals(stored[t], conds[t].status, conds[t].reason, conds[t].message)
  BY DEF condEquals, StoredConditions, ConditionSets, Condition
<1>2. CASE conds = NoConditions
  <2>1. [NoCondition EXCEPT !.at = Stored] = NoCondition
    <3>1. ASSUME NEW cond \in Condition PROVE [cond EXCEPT !.at = cond.at] = cond
      BY DEF Condition
    <3>2. NoCondition \in Condition /\ NoCondition.at = Stored
      BY DEF NoCondition, Condition, Stored, Reasons, Messages
    <3>3. QED
      BY <3>1, <3>2
  <2>2. stored = NoConditions
    BY <1>2, <2>1 DEF StoredConditions, NoConditions
  <2>3. QED
    BY <2>2 DEF ReadyAgrees
<1>3. CASE conds # NoConditions
  <2>1. MainStatus(stored) = MainStatus(conds)
    BY <1>1, MainStatusOfDeps DEF ConditionTypes, condEquals
  <2>2. ReadyAgrees(stored)
    <3> HIDE DEF stored
    <3>1. QED
      BY <1>1, <1>3, <2>1 DEF ReadyAgrees, ConditionTypes, condEquals
  <2>3. QED
    BY <2>2
<1>4. QED
  BY <1>2, <1>3

\* Every step keeps Ready in line with the other conditions, wherever they are.
LEMMA NextConditions == TypeOK /\ CoreInv /\ ConditionsInv /\ [Next]_vars => ConditionsInv'
<1> SUFFICES ASSUME TypeOK, CoreInv, ConditionsInv, [Next]_vars PROVE ConditionsInv'
  OBVIOUS
<1>1. ASSUME NEW new \in Conduits, StoreConduit(new), ReadyAgrees(new.conds), CopiesKept
      PROVE  ConditionsInv'
  BY <1>1, StoreConduitEffect DEF ConditionsInv, CopiesKept
<1>2. ASSUME RemoveConduit, CopiesKept
      PROVE  ConditionsInv'
  BY <1>2 DEF RemoveConduit, ConditionsInv, CopiesKept
<1>3. ASSUME UNCHANGED conduit, CopiesKept
      PROVE  ConditionsInv'
  BY <1>3 DEF ConditionsInv, CopiesKept
<1>4. ASSUME NEW s \in Specs, UserCreate(s) PROVE ConditionsInv'
  <2>1. conduit'.conds = NoConditions /\ UNCHANGED <<cachedConduit, pc, c>>
    BY <1>4 DEF UserCreate, StoreConduit, cacheVars, opVars
  <2>2. QED
    BY <2>1 DEF ConditionsInv, ReadyAgrees
<1>5. ASSUME NEW s \in Specs, UserEdit(s) PROVE ConditionsInv'
  <2> DEFINE new == [conduit EXCEPT !.spec = s, !.gen = @ + 1]
  <2>1. conduit # None /\ conduit \in Conduits /\ conduit.gen + 1 \in Nat
    BY <1>5 DEF UserEdit, TypeOK, Conduits
  <2>2. new \in Conduits /\ new.conds = conduit.conds
    BY <2>1, Zenon DEF Conduits
  <2>3. StoreConduit(new) /\ UNCHANGED <<cachedConduit, pc, c>>
    BY <1>5 DEF UserEdit, cacheVars, opVars
  <2> HIDE DEF new
  <2>4. ReadyAgrees(new.conds)
    BY <2>1, <2>2 DEF ConditionsInv
  <2>5. QED
    BY <1>1, <2>2, <2>3, <2>4 DEF CopiesKept
<1>6. CASE UserDelete
  <2> DEFINE new == [conduit EXCEPT !.del = TRUE, !.gen = @ + 1]
  <2>1. conduit # None /\ conduit \in Conduits /\ conduit.gen + 1 \in Nat
    BY <1>6 DEF UserDelete, TypeOK, Conduits
  <2>2. new \in Conduits /\ new.conds = conduit.conds
    BY <2>1, Zenon DEF Conduits
  <2>3. (StoreConduit(new) \/ RemoveConduit) /\ UNCHANGED <<cachedConduit, pc, c>>
    BY <1>6 DEF UserDelete, cacheVars, opVars
  <2> HIDE DEF new
  <2>4. ReadyAgrees(new.conds)
    BY <2>1, <2>2 DEF ConditionsInv
  <2>5. QED
    BY <1>1, <1>2, <2>2, <2>3, <2>4 DEF CopiesKept
<1>7. ASSUME NEW o \in Operators, ReconcileDeleted(o) \/ ReconcileAddFinalizer(o) PROVE ConditionsInv'
  <2>1. CopiesKept
    BY <1>7, FinalizerEffect DEF CopiesKept
  <2>2. QED
    BY <1>1, <1>2, <1>3, <1>7, <2>1, FinalizerEffect, Zenon DEF ConditionsInv
<1>8. ASSUME NEW o \in Operators, UpdateStatus(o) PROVE ConditionsInv'
  <2>1. CopiesKept
    BY <1>8, UpdateStatusEffect DEF CopiesKept, OthersUnchanged
  <2>2. c[o].conds \in ConditionSets /\ ReadyAgrees(c[o].conds)
    BY <1>8, UpdateStatusEffect, Zenon DEF ConditionsInv, Conduits
  <2>3. QED
    BY <1>1, <1>3, <1>8, <2>1, <2>2, UpdateStatusEffect, StoredConditionsAgree, Zenon
<1>9. ASSUME NEW o \in Operators, OthersUnchanged(o), UNCHANGED conduit,
             cachedConduit'[o] \in {cachedConduit[o], conduit},
             pc'[o] # "idle" => ReadyAgrees(c'[o].conds)
      PROVE  ConditionsInv'
  BY <1>9 DEF ConditionsInv, OthersUnchanged
<1>10. ASSUME NEW o \in Operators, ObjectSteps(o) PROVE ConditionsInv'
  BY <1>9, <1>10, StepEffect DEF ConditionsInv
<1>11. CASE Cluster \/ Disturbance \/ \E o \in Operators, k \in Kinds : SyncObject(o, k)
  BY <1>3, <1>11, QuietEffect DEF CopiesKept
<1>12. ASSUME NEW o \in Operators, SyncConduit(o) \/ Restart(o) PROVE ConditionsInv'
  <2>1. /\ cachedConduit'[o] = conduit /\ UNCHANGED conduit
        /\ UNCHANGED <<pc, c>> \/ pc'[o] = "idle"
    BY <1>12 DEF SyncConduit, Restart, apiVars, TypeOK
  <2>2. OthersUnchanged(o)
    BY <1>12, CacheType DEF Informers
  <2>3. QED
    BY <1>9, <2>1, <2>2 DEF ConditionsInv
<1>13. ASSUME NEW o \in Operators, ReconcileBegin(o) \/ DeploymentPanic(o) PROVE ConditionsInv'
  <2>1. /\ UNCHANGED <<conduit, cachedConduit>>
        /\ (cachedConduit[o] # None /\ c'[o] = cachedConduit[o]) \/ pc'[o] = "idle"
    BY <1>13 DEF ReconcileBegin, DeploymentPanic, apiVars, cacheVars, TypeOK
  <2>2. OthersUnchanged(o)
    BY <1>13, ReconcileStartType, ReconcileEndType
  <2>3. QED
    BY <1>9, <2>1, <2>2 DEF ConditionsInv
<1>14. CASE (\E o \in Operators : ReconcileNotFound(o)) \/ UNCHANGED vars
  BY <1>3, <1>14 DEF ReconcileNotFound, apiVars, cacheVars, opVars, vars, CopiesKept
<1>15. QED
  BY <1>4, <1>5, <1>6, <1>7, <1>8, <1>10, <1>11, <1>12, <1>13, <1>14
     DEF Next, User, Informers, Reconcile, ObjectSteps

\* ReadySumsUp: the Ready condition in the stored status is what the others say.
THEOREM ReadySumsUpCorrect == Spec => []ReadySumsUp
<1>1. Init => ConditionsInv
  BY DEF Init, ConditionsInv
<1>2. TypeOK /\ ConditionsInv => ReadySumsUp
  BY ReadyAgreesMeans, Zenon DEF TypeOK, Conduits, ConditionsInv, ReadySumsUp
<1>3. QED
  BY <1>1, <1>2, CoreCorrect, NextConditions, PTL DEF Spec

-------------------------------------------------------------------------------
\* That operators with nothing left to do write nothing

\* Setting a condition to what it says already changes nothing, Ready included,
\* since Ready says already what the conditions amount to.
LEMMA ConditionStays ==
  ASSUME NEW conds, NEW k \in Kinds, NEW status, NEW reason, NEW message,
         ReadyAgrees(conds), conds # NoConditions,
         condEquals(conds[ConditionOf(k)], status, reason, message)
  PROVE  WithCondition(conds, k, status, reason, message) = conds
<1>1. setCondition(conds, ConditionOf(k), status, reason, message, Now) = conds
  BY DEF setCondition
<1>2. QED
  BY <1>1, SetConditionSetsMain DEF WithCondition, setCondition, ReadyAgrees

\* CreateOrUpdate of an object that is as it should be does nothing.
LEMMA CallStays ==
  ASSUME TypeOK, NEW o \in Operators, c[o] \in Conduits, NEW k \in Kinds, NEW data, NEW reason,
         cachedObjs[o][k] # None, cachedObjs[o][k].data = data, cachedObjs[o][k].owner = c[o].uid,
         CreateOrUpdate(o, k, data, c[o].conds, reason)
  PROVE  UNCHANGED <<objs, ver>> /\ c'[o] = c[o]
<1>1. WithConditions(o, c[o].conds) /\ UNCHANGED <<objs, ver>>
  BY Zenon DEF CreateOrUpdate, ControllerReference
<1>2. [c[o] EXCEPT !.conds = c[o].conds] = c[o]
  BY DEF Conduits
<1>3. QED
  BY <1>1, <1>2, WithConditionsEffect

\* What the deployment step would write for a Conduit that is done is there.
LEMMA DeploymentStays ==
  ASSUME TypeOK, NEW o \in Operators, Done
  PROVE  DeploymentSpec(o, conduit.spec) = objs["Deployment"].data
<1> DEFINE deployment == objs["Deployment"].data
           template   == deployment.template
           env        == conduit.spec.env \cup envVarsFromSecret(objs["Secret"])
<1>1. objs["Deployment"] # None /\ cachedObjs[o] = objs
  BY DEF Done, ObjectsFollow, Kinds
<1>2. deployment \in [replicas : 0 .. 1, template : Templates]
  <2>1. Data("Deployment") = [replicas : 0 .. 1, template : Templates]
    BY Zenon DEF Data
  <2>2. objs["Deployment"] \in Objects("Deployment")
    BY <1>1 DEF TypeOK, Kinds
  <2>3. QED
    BY <2>1, <2>2, Zenon DEF Objects
<1>3. template = [builds |-> template.builds, version |-> template.version, env |-> template.env,
                  configVersion |-> template.configVersion]
  BY <1>2 DEF Templates
<1>4. deployment = [replicas |-> deployment.replicas, template |-> template]
  BY <1>2
<1>5. /\ deployment.replicas = getReplicas(conduit.spec)
      /\ template.builds = conduit.spec.builds
      /\ template.version = conduit.spec.version
      /\ template.configVersion = objs["ConfigMap"].rv
      /\ env # {} => template.env = env
  BY DEF Done, ObjectsFollow
<1>6. MergeEnv(template.env, env) = template.env
  BY <1>5, Zenon DEF MergeEnv
<1>7. DeploymentSpec(o, conduit.spec) =
        [replicas |-> getReplicas(conduit.spec),
         template |-> [builds |-> conduit.spec.builds, version |-> conduit.spec.version,
                       env |-> MergeEnv(template.env, env), configVersion |-> objs["ConfigMap"].rv]]
  BY <1>1, Zenon DEF DeploymentSpec, ConfigVersion
<1> HIDE DEF deployment, env
<1>8. QED
  BY <1>3, <1>4, <1>5, <1>6, <1>7 DEF deployment

\* The conditions the deployment step would set are there.
LEMMA DeploymentConditionsStay ==
  ASSUME TypeOK, NEW o \in Operators, Done, c[o] = conduit, ReadyAgrees(c[o].conds), c[o].conds # NoConditions
  PROVE  DeploymentConditions(o, c[o].spec) = c[o].conds
<1> DEFINE replicas == getReplicas(conduit.spec)
           status   == objs["Deployment"].state
           running  == deploymentRunningStatus(replicas, status)
<1>1. cachedObjs[o] = objs /\ objs["Deployment"] # None /\ "Deployment" \in Kinds
  BY DEF Done, ObjectsFollow, Kinds
<1>2. running[1] # "Unknown" =>
        condEquals(c[o].conds[ConditionOf("Deployment")], running[1], running[2],
                   ReadyReplicas(status.ready, replicas))
  BY Zenon DEF Done, ConditionsFollow
<1>3. running[1] # "Unknown" =>
        WithCondition(c[o].conds, "Deployment", running[1], running[2],
                      ReadyReplicas(status.ready, replicas)) = c[o].conds
  <2> HIDE DEF running
  <2>1. QED
    BY <1>1, <1>2, ConditionStays
<1>4. QED
  BY <1>1, <1>3, Zenon DEF DeploymentConditions

\* None of the steps between ReconcileBegin and UpdateStatus finds anything to do.
LEMMA StepsStay ==
  ASSUME TypeOK, NEW o \in Operators, ConditionsInv, Done, ObjectSteps(o)
  PROVE  UNCHANGED <<conduit, objs, ver, cacheVars, envVars>> /\ c'[o] = c[o]
<1>1. pc[o] \in Steps /\ UNCHANGED <<conduit, cacheVars, envVars>>
  BY Zenon DEF ObjectSteps, CreateOrUpdateConfig, CreateOrUpdateSecret, CreateOrUpdateVolume,
         CreateOrUpdateDeployment, CreateOrUpdateService, Step, Steps
<1> SUFFICES UNCHANGED <<objs, ver>> /\ c'[o] = c[o]
  BY <1>1
<1>2. c[o] = conduit /\ c[o] \in Conduits /\ ReadyAgrees(c[o].conds)
  <2>1. pc[o] # "idle"
    BY <1>1 DEF Steps
  <2>2. QED
    BY <2>1, Zenon DEF Done, TypeOK, OperatorOK, ConditionsInv
<1>3. c[o].conds # NoConditions
  <2>1. condEquals(c[o].conds["ConfigReady"], "True", "ConfigReady", "Pipeline configuration created")
    BY <1>2, Zenon DEF Done, ConditionsFollow, ConditionOf
  <2>2. NoConditions["ConfigReady"].status = "Absent"
    BY Zenon DEF NoConditions, NoCondition, ConditionTypes, Deps
  <2>3. QED
    BY <2>1, <2>2, Zenon DEF condEquals
<1>4. \A k \in Kinds : cachedObjs[o][k] = objs[k] /\ objs[k] # None /\ objs[k] \in Objects(k) /\ objs[k].owner = c[o].uid
  BY <1>2 DEF Done, ObjectsFollow, TypeOK
<1>5. ASSUME NEW k \in Kinds, NEW status, NEW reason, NEW message, NEW bad,
             condEquals(conduit.conds[ConditionOf(k)], status, reason, message),
             CreateOrUpdate(o, k, objs[k].data, WithCondition(c[o].conds, k, status, reason, message), bad)
      PROVE  UNCHANGED <<objs, ver>> /\ c'[o] = c[o]
  <2>1. WithCondition(c[o].conds, k, status, reason, message) = c[o].conds
    BY <1>2, <1>3, <1>5, ConditionStays
  <2>2. CreateOrUpdate(o, k, objs[k].data, c[o].conds, bad)
    BY <1>5, <2>1
  <2>3. QED
    BY <1>2, <1>4, <2>2, CallStays
<1>6. /\ "ConfigMap" \in Kinds /\ "Secret" \in Kinds /\ "Volume" \in Kinds
      /\ "Deployment" \in Kinds /\ "Service" \in Kinds
  BY DEF Kinds
<1>7. CASE CreateOrUpdateConfig(o)
  <2>1. objs["ConfigMap"].data = PipelineConfigYAML(c[o].spec) /\ Resolvable(c[o].spec, "ConfigMap")
    BY <1>2 DEF Done, ObjectsFollow, Deployable, Refs
  <2>2. condEquals(conduit.conds[ConditionOf("ConfigMap")], "True", "ConfigReady", "Pipeline configuration created")
    BY Zenon DEF Done, ConditionsFollow
  <2>3. QED
    BY <1>5, <1>6, <1>7, <2>1, <2>2, Zenon DEF CreateOrUpdateConfig
<1>8. CASE CreateOrUpdateSecret(o)
  <2>1. objs["Secret"].data = SchemaRegistryConfig(c[o].spec) /\ Resolvable(c[o].spec, "Secret")
    BY <1>2 DEF Done, ObjectsFollow, Deployable, Refs
  <2>2. condEquals(conduit.conds[ConditionOf("Secret")], "True", "SecretReady", "Conduit secret created")
    BY Zenon DEF Done, ConditionsFollow
  <2>3. QED
    BY <1>5, <1>6, <1>8, <2>1, <2>2, Zenon DEF CreateOrUpdateSecret
<1>9. CASE CreateOrUpdateVolume(o)
  <2> DEFINE phase  == objs["Volume"].state.phase
             status == IF phase = "Bound" THEN "True" ELSE "False"
  <2>1. objs["Volume"].data = ConduitVolumeClaim
    <3>1. Data("Volume") = [size : {"1Gi"}]
      BY Zenon DEF Data
    <3>2. objs["Volume"].data \in [size : {"1Gi"}]
      BY <1>4, <1>6, <3>1, Zenon DEF Objects
    <3>3. QED
      BY <3>2 DEF ConduitVolumeClaim
  <2>2. condEquals(conduit.conds[ConditionOf("Volume")], status, "VolumeReady", phase)
    BY Zenon DEF Done, ConditionsFollow
  <2>3. CreateOrUpdate(o, "Volume", objs["Volume"].data, WithCondition(c[o].conds, "Volume", status, "VolumeReady", phase),
                       "VolumeClaimError")
    BY <1>4, <1>9, <2>1, Zenon DEF CreateOrUpdateVolume, Kinds
  <2>4. QED
    BY <1>5, <1>6, <2>2, <2>3
<1>10. CASE CreateOrUpdateDeployment(o)
  <2>1. c[o].spec.version \in Supported /\ ConfigKnown(o)
    BY <1>2, <1>4 DEF Done, Deployable, ConfigKnown, Kinds
  <2>2. CreateOrUpdate(o, "Deployment", DeploymentSpec(o, c[o].spec), DeploymentConditions(o, c[o].spec), "DeploymentError")
    BY <1>10, <2>1, Zenon DEF CreateOrUpdateDeployment
  <2>3. DeploymentSpec(o, c[o].spec) = objs["Deployment"].data /\ DeploymentConditions(o, c[o].spec) = c[o].conds
    BY <1>2, <1>3, DeploymentStays, DeploymentConditionsStay
  <2>4. QED
    BY <1>2, <1>4, <1>6, <2>2, <2>3, CallStays
<1>11. CASE CreateOrUpdateService(o)
  <2> DEFINE address == objs["Service"].state.address
  <2>1. objs["Service"].data = [ports |-> "http, grpc"]
    <3>1. Data("Service") = [ports : {"http, grpc"}]
      BY Zenon DEF Data
    <3>2. objs["Service"].data \in [ports : {"http, grpc"}]
      BY <1>4, <1>6, <3>1, Zenon DEF Objects
    <3>3. QED
      BY <3>2, Zenon
  <2>2. condEquals(conduit.conds[ConditionOf("Service")], "True", "ServiceReady", address)
    BY Zenon DEF Done, ConditionsFollow
  <2>3. CreateOrUpdate(o, "Service", objs["Service"].data,
                       WithCondition(c[o].conds, "Service", "True", "ServiceReady", address), "ServiceError")
    BY <1>4, <1>11, <2>1, Zenon DEF CreateOrUpdateService, Kinds
  <2>4. QED
    BY <1>5, <1>6, <2>2, <2>3
<1>12. QED
  BY <1>1, <1>7, <1>8, <1>9, <1>10, <1>11, Zenon DEF ObjectSteps

\* Nor does any other step of an instance.
LEMMA DoneStays ==
  ASSUME TypeOK, NEW o \in Operators, ConditionsInv, Done, Reconcile(o) \/ Informers(o)
  PROVE  UNCHANGED apiVars /\ Done'
<1>1. /\ conduit # None /\ conduit.fin /\ ~conduit.del /\ conduit.spec.version \in Supported
      /\ cachedConduit[o] = conduit /\ cachedObjs[o] = objs
      /\ pc[o] # "idle" => c[o] = conduit
  BY DEF Done, Deployable
<1>2. ASSUME UNCHANGED <<conduit, objs, cachedConduit, cachedObjs, ext>>, pc'[o] # "idle" => c'[o] = conduit
      PROVE  Done'
  <2>1. Deployable(conduit.spec)' /\ ObjectsFollow' /\ ConditionsFollow'
    <3>1. Deployable(conduit.spec)'
      BY <1>2 DEF Done, Deployable, Resolvable
    <3>2. ObjectsFollow'
      BY <1>2, Zenon DEF Done, ObjectsFollow, PipelineConfigYAML, SchemaRegistryConfig, Resolve
    <3>3. ConditionsFollow'
      BY <1>2, Zenon DEF Done, ConditionsFollow
    <3>4. QED
      BY <3>1, <3>2, <3>3
  <2>2. QED
    <3>1. OthersUnchanged(o)
      BY OneInstance
    <3>2. \A p \in Operators : /\ cachedConduit[p] = conduit /\ cachedObjs[p] = objs
                              /\ pc'[p] # "idle" => c'[p] = conduit
      BY <1>2, <3>1 DEF Done, OthersUnchanged
    <3>3. QED
      BY <1>1, <1>2, <2>1, <3>2 DEF Done
<1>3. CASE Informers(o)
  BY <1>1, <1>3 DEF Informers, SyncConduit, SyncObject
<1>4. CASE ReconcileNotFound(o) \/ ReconcileDeleted(o) \/ ReconcileAddFinalizer(o)
  BY <1>1, <1>4, Zenon DEF ReconcileNotFound, ReconcileDeleted, ReconcileAddFinalizer, HasFinalizer
<1>5. CASE ReconcileBegin(o)
  BY <1>1, <1>2, <1>5 DEF ReconcileBegin, apiVars, cacheVars, envVars, TypeOK
<1>6. CASE ObjectSteps(o)
  <2>1. pc[o] # "idle"
    BY <1>6, StepEffect
  <2>2. QED
    BY <1>1, <1>2, <1>6, <2>1, StepsStay DEF apiVars, cacheVars, envVars
<1>7. CASE DeploymentPanic(o)
  BY <1>1, <1>7, VersionsAssumption DEF DeploymentPanic
<1>8. CASE UpdateStatus(o)
  <2>1. c[o] = conduit
    BY <1>1, <1>8 DEF UpdateStatus
  <2>2. StatusKnown(o)
    BY <1>1, <2>1 DEF StatusKnown
  <2>3. UNCHANGED <<conduit, objs, ver, cacheVars, envVars>> /\ pc'[o] = "idle"
    BY <1>8, <2>2, Zenon DEF UpdateStatus, TypeOK
  <2>4. QED
    BY <1>2, <2>3 DEF apiVars, cacheVars, envVars
<1>9. QED
  BY <1>3, <1>4, <1>5, <1>6, <1>7, <1>8, Zenon DEF Reconcile, ObjectSteps

\* StaysDone: operators that have nothing left to do write nothing, and still have
\* nothing left to do, however many of them go over the Conduit at the same time.
THEOREM StaysDoneCorrect == Spec => StaysDone
<1>1. Init => ConditionsInv
  BY DEF Init, ConditionsInv
<1>2. TypeOK /\ ConditionsInv => (Done /\ (\E o \in Operators : Reconcile(o) \/ Informers(o)) => UNCHANGED apiVars /\ Done')
  BY DoneStays
<1>3. QED
  BY <1>1, <1>2, CoreCorrect, NextConditions, PTL DEF Spec, StaysDone

-------------------------------------------------------------------------------
\* That no worker writes over what it has not seen.  The API server compares resource
\* versions only: the property needs that a version stands for one content.

\* The stored object has the last version of its kind, a cached one is no newer, and
\* the cached object with the stored version is the stored object.
ObjectCopiesInv ==
  \A k \in Kinds :
    /\ objs[k] # None => objs[k].rv = ver[k]
    /\ \A o \in Operators : cachedObjs[o][k] # None =>
         /\ cachedObjs[o][k].rv <= ver[k]
         /\ objs[k] # None /\ cachedObjs[o][k].rv = ver[k] => cachedObjs[o][k] = objs[k]

\* Object k becomes obj, or goes away, and uses up a version.
Renewed(k, obj) ==
  /\ objs' = [objs EXCEPT ![k] = obj]
  /\ NextVersion(k)
  /\ obj # None => obj.rv = ver[k] + 1

\* The numbers ObjectCopiesInv compares.
LEMMA ObjectNumbers ==
  ASSUME TypeOK, NEW k \in Kinds
  PROVE  /\ ver[k] \in Nat
         /\ \A o \in Operators : cachedObjs[o][k] # None => cachedObjs[o][k].rv \in Nat
BY DEF TypeOK, OperatorOK, Objects

\* A renewed object is newer than every copy of it.
LEMMA RenewedCopies ==
  ASSUME TypeOK, ObjectCopiesInv, NEW k \in Kinds, NEW obj, Renewed(k, obj), UNCHANGED cachedObjs
  PROVE  ObjectCopiesInv'
<1> SUFFICES ASSUME NEW j \in Kinds
             PROVE  /\ objs'[j] # None => objs'[j].rv = ver'[j]
                    /\ \A o \in Operators : cachedObjs[o][j] # None =>
                         /\ cachedObjs[o][j].rv <= ver'[j]
                         /\ objs'[j] # None /\ cachedObjs[o][j].rv = ver'[j] => cachedObjs[o][j] = objs'[j]
  BY DEF ObjectCopiesInv
<1>1. DOMAIN objs = Kinds /\ ver \in [Kinds \cup {"Conduit"} -> Nat]
  BY DEF TypeOK
<1>2. CASE j = k
  <2>1. objs'[j] = obj /\ ver'[j] = ver[j] + 1
    BY <1>1, <1>2 DEF Renewed, NextVersion
  <2>2. obj # None => obj.rv = ver[j] + 1
    BY <1>2 DEF Renewed
  <2>3. QED
    BY <2>1, <2>2, ObjectNumbers DEF ObjectCopiesInv
<1>3. CASE j # k
  <2>1. objs'[j] = objs[j] /\ ver'[j] = ver[j]
    BY <1>1, <1>3 DEF Renewed, NextVersion
  <2>2. QED
    BY <2>1 DEF ObjectCopiesInv
<1>4. QED
  BY <1>2, <1>3

\* A step of a reconcile renews one object at most, with a write that is accepted.
LEMMA StepRenews ==
  ASSUME TypeOK, NEW o \in Operators, ObjectSteps(o)
  PROVE  /\ UNCHANGED cachedObjs
         /\ UNCHANGED <<objs, ver>> \/ \E k \in Kinds : WriteAccepted(o, k) /\ \E obj : Renewed(k, obj)
<1>1. UNCHANGED cachedObjs
  BY Zenon DEF ObjectSteps, CreateOrUpdateConfig, CreateOrUpdateSecret, CreateOrUpdateVolume,
         CreateOrUpdateDeployment, CreateOrUpdateService, Step, cacheVars
<1>2. ASSUME NEW k \in Kinds, NEW data, Write(o, k, data)
      PROVE  \E obj : Renewed(k, obj)
  <2> DEFINE new == [rv    |-> ver[k] + 1,
                     owner |-> ControllerReference(o),
                     data  |-> data,
                     state |-> IF objs[k] = None THEN InitialState(k) ELSE objs[k].state]
  <2>1. new.rv = ver[k] + 1
    OBVIOUS
  <2>2. objs' = [objs EXCEPT ![k] = new] /\ NextVersion(k)
    BY <1>2 DEF Write
  <2> HIDE DEF new
  <2>3. QED
    BY <2>1, <2>2 DEF Renewed
<1>3. QED
  BY <1>1, <1>2, StepCalls, CreateOrUpdateEffect

\* So does a step of the cluster, or of whoever meddles with the objects.
LEMMA ClusterRenews ==
  ASSUME TypeOK, Cluster \/ Disturbance
  PROVE  /\ UNCHANGED cachedObjs
         /\ UNCHANGED <<objs, ver>> \/ \E k \in Kinds : \E obj : Renewed(k, obj)
<1>1. ASSUME NEW k \in Kinds, RemoveObject(k) PROVE Renewed(k, None)
  BY <1>1 DEF RemoveObject, Renewed
<1>2. ASSUME NEW k \in Kinds, NEW obj \in Objects(k), TouchObject(k, obj)
      PROVE  Renewed(k, [obj EXCEPT !.rv = ver[k] + 1])
  BY <1>2 DEF TouchObject, Renewed, Objects
<1>3. ASSUME NEW k \in Kinds, CollectGarbage(k) \/ Meddle(k)
      PROVE  UNCHANGED cachedObjs /\ \E obj : Renewed(k, obj)
  <2>1. objs[k] \in Objects(k) /\ (RemoveObject(k) \/ TouchObject(k, objs[k]))
    BY <1>3 DEF CollectGarbage, Meddle, TypeOK
  <2>2. UNCHANGED cachedObjs
    BY <1>3 DEF CollectGarbage, Meddle, cacheVars
  <2>3. QED
    BY <1>1, <1>2, <2>1, <2>2
<1>4. ASSUME BindVolume PROVE UNCHANGED cachedObjs /\ \E obj : Renewed("Volume", obj)
  <2> DEFINE new == [objs["Volume"] EXCEPT !.state = [phase |-> "Bound"]]
  <2>1. objs["Volume"] \in Objects("Volume") /\ "Volume" \in Kinds
    BY <1>4 DEF BindVolume, TypeOK, Kinds
  <2>2. new \in Objects("Volume")
    BY <2>1 DEF Objects, State
  <2>3. TouchObject("Volume", new) /\ UNCHANGED cachedObjs
    BY <1>4 DEF BindVolume, cacheVars
  <2> HIDE DEF new
  <2>4. QED
    BY <1>2, <2>1, <2>2, <2>3
<1>5. ASSUME ReportPods PROVE UNCHANGED cachedObjs /\ \E obj : Renewed("Deployment", obj)
  <2> DEFINE new == [objs["Deployment"] EXCEPT !.state = PodCounts]
  <2>1. objs["Deployment"] \in Objects("Deployment") /\ "Deployment" \in Kinds
    BY <1>5 DEF ReportPods, TypeOK, Kinds
  <2>2. PodCounts \in State("Deployment")
    BY DEF State, Counts, PodCounts, NoPods
  <2>3. new \in Objects("Deployment")
    BY <2>1, <2>2 DEF Objects
  <2>4. TouchObject("Deployment", new) /\ UNCHANGED cachedObjs
    BY <1>5 DEF ReportPods, cacheVars
  <2> HIDE DEF new
  <2>5. QED
    BY <1>2, <2>1, <2>3, <2>4
<1>6. CASE \/ StopPod \/ StartPod \/ PodReady \/ PodFails \/ WebhookUp \/ WebhookDown
           \/ \E ref \in Refs, value \in ExtValues \cup {None} : ChangeExternal(ref, value)
  BY <1>6, Zenon DEF StopPod, StartPod, PodReady, PodFails, WebhookUp, WebhookDown, ChangeExternal,
                    apiVars, cacheVars
<1>7. "Volume" \in Kinds /\ "Deployment" \in Kinds
  BY DEF Kinds
<1>8. QED
  BY <1>3, <1>4, <1>5, <1>6, <1>7, Zenon DEF Cluster, Disturbance

\* Every other step leaves the objects and their versions alone.
LEMMA OthersKeepObjects ==
  ASSUME TypeOK, \/ User \/ UNCHANGED vars
                 \/ \E o \in Operators : \/ SyncConduit(o) \/ (\E k \in Kinds : SyncObject(o, k)) \/ Restart(o)
                                         \/ ReconcileNotFound(o) \/ ReconcileDeleted(o)
                                         \/ ReconcileAddFinalizer(o) \/ ReconcileBegin(o)
                                         \/ DeploymentPanic(o) \/ UpdateStatus(o)
  PROVE  objs' = objs /\ \A k \in Kinds : ver'[k] = ver[k]
<1>1. objs' = objs
  BY Zenon DEF User, UserCreate, UserEdit, UserDelete, SyncConduit, SyncObject, Restart, ReconcileNotFound,
         ReconcileDeleted, ReconcileAddFinalizer, ReconcileBegin, DeploymentPanic, UpdateStatus, vars, apiVars
<1>2. NextVersion("Conduit") \/ UNCHANGED ver
  BY Zenon DEF User, UserCreate, UserEdit, UserDelete, SyncConduit, SyncObject, Restart, ReconcileNotFound,
         ReconcileDeleted, ReconcileAddFinalizer, ReconcileBegin, DeploymentPanic, UpdateStatus, vars, apiVars,
         UpdateFinalizer, UpdateConduit, StoreConduit, RemoveConduit
<1>3. QED
  BY <1>1, <1>2 DEF NextVersion, TypeOK, Kinds

\* Every step keeps the invariant: what enters a cache is the stored object.
LEMMA NextObjectCopies == TypeOK /\ ObjectCopiesInv /\ [Next]_vars => ObjectCopiesInv'
<1> SUFFICES ASSUME TypeOK, ObjectCopiesInv, [Next]_vars PROVE ObjectCopiesInv'
  OBVIOUS
<1>1. CASE Cluster \/ Disturbance
  BY <1>1, ClusterRenews, RenewedCopies DEF ObjectCopiesInv
<1>2. ASSUME NEW o \in Operators, ObjectSteps(o) PROVE ObjectCopiesInv'
  BY <1>2, StepRenews, RenewedCopies DEF ObjectCopiesInv
<1>3. ASSUME NEW o \in Operators, Restart(o) \/ \E k \in Kinds : SyncObject(o, k) PROVE ObjectCopiesInv'
  <2>1. objs' = objs /\ \A k \in Kinds : ver'[k] = ver[k]
    BY <1>3, OthersKeepObjects
  <2>2. \A k \in Kinds : cachedObjs'[o][k] = cachedObjs[o][k] \/ cachedObjs'[o][k] = objs[k]
    BY <1>3 DEF Restart, SyncObject, TypeOK, OperatorOK
  <2>3. \A p \in Operators \ {o} : cachedObjs'[p] = cachedObjs[p]
    BY <1>3, CacheType DEF Informers, OthersUnchanged
  <2>4. QED
    BY <2>1, <2>2, <2>3, ObjectNumbers DEF ObjectCopiesInv
<1>4. CASE \/ User \/ UNCHANGED vars
           \/ \E o \in Operators : \/ SyncConduit(o) \/ ReconcileNotFound(o) \/ ReconcileDeleted(o)
                                   \/ ReconcileAddFinalizer(o) \/ ReconcileBegin(o)
                                   \/ DeploymentPanic(o) \/ UpdateStatus(o)
  <2>1. objs' = objs /\ \A k \in Kinds : ver'[k] = ver[k]
    BY <1>4, OthersKeepObjects
  <2>2. UNCHANGED cachedObjs
    BY <1>4, Zenon DEF User, UserCreate, UserEdit, UserDelete, SyncConduit, ReconcileNotFound, ReconcileDeleted,
         ReconcileAddFinalizer, ReconcileBegin, DeploymentPanic, UpdateStatus, vars, cacheVars
  <2>3. QED
    BY <2>1, <2>2 DEF ObjectCopiesInv
<1>5. QED
  BY <1>1, <1>2, <1>3, <1>4 DEF Next, Informers, Reconcile, ObjectSteps

\* A step in which the worker of o moves on replaces an object that is there only if
\* the cache of o has it.
LEMMA NextNoLostUpdate ==
  ASSUME TypeOK, ObjectCopiesInv, [Next]_vars, NEW o \in Operators, NEW k \in Kinds,
         pc'[o] # pc[o], objs[k] # None, objs'[k] # objs[k]
  PROVE  cachedObjs[o][k] = objs[k]
<1>1. CASE Cluster \/ Disturbance
  BY <1>1, QuietEffect
<1>2. ASSUME NEW p \in Operators, ObjectSteps(p) PROVE cachedObjs[o][k] = objs[k]
  <2>1. p = o
    BY <1>2, StepEffect DEF OthersUnchanged
  <2>2. PICK j \in Kinds : WriteAccepted(o, j) /\ \E obj : Renewed(j, obj)
    BY <1>2, <2>1, StepRenews
  <2>3. j = k
    BY <2>2 DEF Renewed, TypeOK
  <2>4. cachedObjs[o][k] # None /\ objs[k].rv = cachedObjs[o][k].rv
    BY <2>2, <2>3 DEF WriteAccepted
  <2>5. QED
    BY <2>4 DEF ObjectCopiesInv
<1>3. CASE \/ User \/ UNCHANGED vars
           \/ \E p \in Operators : \/ SyncConduit(p) \/ (\E j \in Kinds : SyncObject(p, j)) \/ Restart(p)
                                   \/ ReconcileNotFound(p) \/ ReconcileDeleted(p)
                                   \/ ReconcileAddFinalizer(p) \/ ReconcileBegin(p)
                                   \/ DeploymentPanic(p) \/ UpdateStatus(p)
  BY <1>3, OthersKeepObjects
<1>4. QED
  BY <1>1, <1>2, <1>3 DEF Next, Informers, Reconcile, ObjectSteps

\* NoLostUpdate: whatever two instances, the cluster and whoever else do to an object,
\* a reconcile replaces it only if its cache has the object as it is stored.
THEOREM NoLostUpdateCorrect == Spec => NoLostUpdate
<1>1. Init => ObjectCopiesInv
  BY DEF Init, ObjectCopiesInv
<1>2. TypeOK /\ ObjectCopiesInv /\ [Next]_vars
        => [\A o \in Operators, k \in Kinds :
              pc'[o] # pc[o] /\ objs[k] # None /\ objs'[k] # objs[k] => cachedObjs[o][k] = objs[k]]_vars
  BY NextNoLostUpdate
<1>3. QED
  BY <1>1, <1>2, InitType, NextType, NextObjectCopies, PTL DEF Spec, NoLostUpdate

-------------------------------------------------------------------------------
\* That a pod which carries the current config-map-version runs the current pipeline.
\* The property alone is not inductive: it needs that no version is ever held, in a
\* cache, in a deployment or by a pod, before the ConfigMap has had it.

\* No annotation is ahead of the ConfigMap, none of a pod's is ahead of what it
\* has read, and a pod that has read the stored version runs its pipeline.
ConfigInv ==
  /\ objs["ConfigMap"] # None => objs["ConfigMap"].rv = ver["ConfigMap"]
  /\ \A o \in Operators : cachedObjs[o]["ConfigMap"] # None => cachedObjs[o]["ConfigMap"].rv <= ver["ConfigMap"]
  /\ objs["Deployment"] # None => objs["Deployment"].data.template.configVersion <= ver["ConfigMap"]
  /\ pod # None => /\ pod.template.configVersion <= pod.configVersion
                   /\ pod.configVersion <= ver["ConfigMap"]
  /\ pod # None /\ objs["ConfigMap"] # None /\ pod.configVersion = ver["ConfigMap"]
       => pod.pipeline = objs["ConfigMap"].data

-------------------------------------------------------------------------------
\* The annotation an object of kind k carries, if any, is no newer than the
\* ConfigMap.
AnnotationKnown(k, obj) ==
  obj # None /\ k = "Deployment" => obj.data.template.configVersion <= ver["ConfigMap"]

\* Object k is renewed, and carries no annotation ahead of the ConfigMap.
Replaced(k, obj) == Renewed(k, obj) /\ AnnotationKnown(k, obj)

\* The numbers ConfigInv compares.
LEMMA ConfigNumbers ==
  ASSUME TypeOK
  PROVE  /\ ver["ConfigMap"] \in Nat
         /\ objs["ConfigMap"] # None => objs["ConfigMap"].rv \in Nat
         /\ \A o \in Operators : cachedObjs[o]["ConfigMap"] # None => cachedObjs[o]["ConfigMap"].rv \in Nat
         /\ objs["Deployment"] # None => objs["Deployment"].data.template.configVersion \in Nat
         /\ pod # None => pod.template.configVersion \in Nat /\ pod.configVersion \in Nat
<1>1. /\ objs["ConfigMap"] # None => objs["ConfigMap"].rv \in Nat
      /\ \A o \in Operators : cachedObjs[o]["ConfigMap"] # None => cachedObjs[o]["ConfigMap"].rv \in Nat
  BY DEF TypeOK, OperatorOK, Kinds, Objects
<1>2. objs["Deployment"] # None => objs["Deployment"].data.template.configVersion \in Nat
  BY Zenon DEF TypeOK, Kinds, Objects, Data, Templates
<1>3. pod # None => pod.template.configVersion \in Nat /\ pod.configVersion \in Nat
  BY DEF TypeOK, Pods, Templates
<1>4. ver["ConfigMap"] \in Nat
  BY DEF TypeOK, Kinds
<1>5. QED
  BY <1>1, <1>2, <1>3, <1>4

\* Replacing an object keeps the invariant: a new ConfigMap is newer than what
\* any pod has read.
LEMMA ReplacedConfig ==
  ASSUME TypeOK, ConfigInv, NEW k \in Kinds, NEW obj, Replaced(k, obj), UNCHANGED <<cachedObjs, pod>>
  PROVE  ConfigInv'
<1>1. DOMAIN objs = Kinds /\ ver \in [Kinds \cup {"Conduit"} -> Nat]
  BY DEF TypeOK
<1>2. CASE k = "ConfigMap"
  <2>1. objs'["ConfigMap"] = obj /\ objs'["Deployment"] = objs["Deployment"]
    BY <1>1, <1>2 DEF Replaced, Renewed, Kinds
  <2>2. ver'["ConfigMap"] = ver["ConfigMap"] + 1
    BY <1>1, <1>2 DEF Replaced, Renewed, NextVersion, Kinds
  <2>3. obj # None => obj.rv = ver["ConfigMap"] + 1
    BY <1>2 DEF Replaced, Renewed
  <2>4. objs'["ConfigMap"] # None => objs'["ConfigMap"].rv = ver'["ConfigMap"]
    BY <2>1, <2>2, <2>3
  <2>5. \A o \in Operators : cachedObjs'[o]["ConfigMap"] # None =>
          cachedObjs'[o]["ConfigMap"].rv <= ver'["ConfigMap"]
    BY <2>2, ConfigNumbers DEF ConfigInv
  <2>6. objs'["Deployment"] # None => objs'["Deployment"].data.template.configVersion <= ver'["ConfigMap"]
    BY <2>1, <2>2, ConfigNumbers DEF ConfigInv
  <2>7. pod' # None => /\ pod'.template.configVersion <= pod'.configVersion
                       /\ pod'.configVersion <= ver'["ConfigMap"]
                       /\ pod'.configVersion # ver'["ConfigMap"]
    BY <2>2, ConfigNumbers DEF ConfigInv
  <2>8. QED
    BY <2>4, <2>5, <2>6, <2>7 DEF ConfigInv
<1>3. CASE k = "Deployment"
  <2>1. objs'["ConfigMap"] = objs["ConfigMap"] /\ objs'["Deployment"] = obj
    BY <1>1, <1>3 DEF Replaced, Renewed, Kinds
  <2>2. ver'["ConfigMap"] = ver["ConfigMap"]
    BY <1>1, <1>3 DEF Replaced, Renewed, NextVersion, Kinds
  <2>3. obj # None => obj.data.template.configVersion <= ver["ConfigMap"]
    BY <1>3 DEF Replaced, Renewed, AnnotationKnown
  <2>4. QED
    BY <2>1, <2>2, <2>3 DEF ConfigInv
<1>4. CASE k \notin {"ConfigMap", "Deployment"}
  <2>1. objs'["ConfigMap"] = objs["ConfigMap"] /\ objs'["Deployment"] = objs["Deployment"]
    BY <1>1, <1>4 DEF Replaced, Renewed, Kinds
  <2>2. ver'["ConfigMap"] = ver["ConfigMap"]
    BY <1>1, <1>4 DEF Replaced, Renewed, NextVersion, Kinds
  <2>3. QED
    BY <2>1, <2>2 DEF ConfigInv
<1>5. QED
  BY <1>2, <1>3, <1>4

\* A removed object is replaced by none.
LEMMA RemoveObjectConfig ==
  ASSUME TypeOK, ConfigInv, NEW k \in Kinds, RemoveObject(k), UNCHANGED <<cachedObjs, pod>>
  PROVE  ConfigInv'
<1>1. Replaced(k, None)
  BY DEF RemoveObject, Replaced, Renewed, AnnotationKnown
<1>2. QED
  BY <1>1, ReplacedConfig

\* An object that is changed in other parts keeps its annotation.
LEMMA TouchObjectConfig ==
  ASSUME TypeOK, ConfigInv, NEW k \in Kinds, objs[k] # None, NEW obj \in Objects(k),
         obj.data = objs[k].data, TouchObject(k, obj), UNCHANGED <<cachedObjs, pod>>
  PROVE  ConfigInv'
<1> DEFINE new == [obj EXCEPT !.rv = ver[k] + 1]
<1>1. new.rv = ver[k] + 1 /\ new.data = objs[k].data
  BY DEF Objects
<1>2. objs' = [objs EXCEPT ![k] = new] /\ NextVersion(k)
  BY DEF TouchObject
<1> HIDE DEF new
<1>3. Replaced(k, new)
  BY <1>1, <1>2 DEF Replaced, Renewed, AnnotationKnown, ConfigInv
<1>4. QED
  BY <1>3, ReplacedConfig

\* An object the operator writes: the deployment gets the version the cache has.
LEMMA WriteConfig ==
  ASSUME TypeOK, NEW o \in Operators, ConfigInv, NEW k \in Kinds, NEW data,
         k = "Deployment" => ConfigKnown(o) /\ data = DeploymentSpec(o, c[o].spec),
         Write(o, k, data), UNCHANGED <<cachedObjs, pod>>
  PROVE  ConfigInv'
<1> DEFINE new == [rv    |-> ver[k] + 1,
                   owner |-> ControllerReference(o),
                   data  |-> data,
                   state |-> IF objs[k] = None THEN InitialState(k) ELSE objs[k].state]
<1>1. new.rv = ver[k] + 1 /\ new.data = data
  OBVIOUS
<1>2. objs' = [objs EXCEPT ![k] = new] /\ NextVersion(k)
  BY DEF Write
<1> HIDE DEF new
<1>3. k = "Deployment" => data.template.configVersion <= ver["ConfigMap"]
  <2> SUFFICES ASSUME k = "Deployment" PROVE data.template.configVersion <= ver["ConfigMap"]
    OBVIOUS
  <2>1. data.template.configVersion = ConfigVersion(o)
    BY DEF DeploymentSpec
  <2>2. ConfigVersion(o) <= ver["ConfigMap"]
    BY DEF ConfigVersion, ConfigKnown, ConfigInv
  <2>3. QED
    BY <2>1, <2>2
<1>4. Replaced(k, new)
  BY <1>1, <1>2, <1>3 DEF Replaced, Renewed, AnnotationKnown
<1>5. QED
  BY <1>4, ReplacedConfig

\* The steps of a reconcile that create or update objects.
LEMMA StepsConfig ==
  ASSUME TypeOK, NEW o \in Operators, ConfigInv,
         \/ CreateOrUpdateConfig(o) \/ CreateOrUpdateSecret(o) \/ CreateOrUpdateVolume(o)
         \/ CreateOrUpdateDeployment(o) \/ CreateOrUpdateService(o)
  PROVE  ConfigInv'
<1> USE DEF Kinds
<1>1. UNCHANGED <<cachedObjs, pod>>
  BY Zenon DEF CreateOrUpdateConfig, CreateOrUpdateSecret, CreateOrUpdateVolume, CreateOrUpdateDeployment,
         CreateOrUpdateService, Step, cacheVars, envVars
<1>2. CASE UNCHANGED <<objs, ver>>
  BY <1>1, <1>2 DEF ConfigInv
<1>3. ASSUME NEW k \in Kinds, NEW data, NEW mutated, NEW reason,
             CreateOrUpdate(o, k, data, mutated, reason),
             k = "Deployment" => ConfigKnown(o) /\ data = DeploymentSpec(o, c[o].spec)
      PROVE  ConfigInv'
  BY <1>1, <1>2, <1>3, CreateOrUpdateEffect, WriteConfig
<1>4. CASE CreateOrUpdateConfig(o)
  BY <1>2, <1>3, <1>4, Zenon DEF CreateOrUpdateConfig
<1>5. CASE CreateOrUpdateSecret(o)
  BY <1>2, <1>3, <1>5, Zenon DEF CreateOrUpdateSecret
<1>6. CASE CreateOrUpdateVolume(o)
  BY <1>3, <1>6, Zenon DEF CreateOrUpdateVolume
<1>7. CASE CreateOrUpdateDeployment(o)
  BY <1>2, <1>3, <1>7, Zenon DEF CreateOrUpdateDeployment
<1>8. CASE CreateOrUpdateService(o)
  BY <1>3, <1>8, Zenon DEF CreateOrUpdateService
<1>9. QED
  BY <1>4, <1>5, <1>6, <1>7, <1>8

\* The cluster's own writes to the objects.
LEMMA ClusterConfig ==
  ASSUME TypeOK, ConfigInv,
         \/ \E k \in Kinds : CollectGarbage(k) \/ Meddle(k)
         \/ BindVolume \/ ReportPods
  PROVE  ConfigInv'
<1>1. UNCHANGED <<cachedObjs, pod>>
  BY DEF CollectGarbage, Meddle, BindVolume, ReportPods, cacheVars, envVars
<1>2. ASSUME NEW k \in Kinds, CollectGarbage(k) \/ Meddle(k) PROVE ConfigInv'
  <2>1. objs[k] # None /\ objs[k] \in Objects(k)
    BY <1>2 DEF CollectGarbage, Meddle, TypeOK
  <2>2. RemoveObject(k) \/ TouchObject(k, objs[k])
    BY <1>2 DEF CollectGarbage, Meddle
  <2>3. QED
    BY <1>1, <2>1, <2>2, RemoveObjectConfig, TouchObjectConfig
<1>3. CASE BindVolume
  <2> DEFINE new == [objs["Volume"] EXCEPT !.state = [phase |-> "Bound"]]
  <2>1. objs["Volume"] # None /\ objs["Volume"] \in Objects("Volume") /\ "Volume" \in Kinds
    BY <1>3 DEF BindVolume, TypeOK, Kinds
  <2>2. [phase |-> "Bound"] \in State("Volume")
    BY DEF State
  <2>3. new \in Objects("Volume") /\ new.data = objs["Volume"].data
    BY <2>1, <2>2 DEF Objects
  <2>4. TouchObject("Volume", new)
    BY <1>3 DEF BindVolume
  <2> HIDE DEF new
  <2>5. QED
    BY <1>1, <2>1, <2>3, <2>4, TouchObjectConfig
<1>4. CASE ReportPods
  <2> DEFINE new == [objs["Deployment"] EXCEPT !.state = PodCounts]
  <2>1. /\ objs["Deployment"] # None /\ objs["Deployment"] \in Objects("Deployment")
        /\ "Deployment" \in Kinds
    BY <1>4 DEF ReportPods, TypeOK, Kinds
  <2>2. PodCounts \in State("Deployment")
    BY DEF State, Counts, PodCounts, NoPods
  <2>3. new \in Objects("Deployment") /\ new.data = objs["Deployment"].data
    BY <2>1, <2>2 DEF Objects
  <2>4. TouchObject("Deployment", new)
    BY <1>4 DEF ReportPods
  <2> HIDE DEF new
  <2>5. QED
    BY <1>1, <2>1, <2>3, <2>4, TouchObjectConfig
<1>5. QED
  BY <1>2, <1>3, <1>4

\* Starting, readying, failing and stopping the pod.
LEMMA PodConfig ==
  ASSUME TypeOK, ConfigInv, StopPod \/ StartPod \/ PodReady \/ PodFails
  PROVE  ConfigInv'
<1>1. UNCHANGED <<objs, ver, cachedObjs>>
  BY DEF StopPod, StartPod, PodReady, PodFails, apiVars, cacheVars
<1>2. CASE StopPod
  BY <1>1, <1>2 DEF StopPod, ConfigInv
<1>3. CASE StartPod
  <2>1. objs["ConfigMap"] # None /\ objs["Deployment"] # None
    BY <1>3 DEF StartPod
  <2>2. /\ pod'.template = objs["Deployment"].data.template
        /\ pod'.configVersion = objs["ConfigMap"].rv
        /\ pod'.pipeline = objs["ConfigMap"].data
    BY <1>3 DEF StartPod
  <2>3. QED
    BY <1>1, <2>1, <2>2, ConfigNumbers DEF ConfigInv
<1>4. CASE PodReady \/ PodFails
  <2>1. pod # None /\ pod \in Pods
    BY <1>4 DEF PodReady, PodFails, TypeOK
  <2>2. /\ pod'.template = pod.template /\ pod'.configVersion = pod.configVersion
        /\ pod'.pipeline = pod.pipeline
    BY <1>4, <2>1 DEF PodReady, PodFails, Pods
  <2>3. QED
    BY <1>1, <2>1, <2>2 DEF ConfigInv
<1>5. QED
  BY <1>2, <1>3, <1>4

\* Steps that write the Conduit alone use up none of the ConfigMap's versions.
LEMMA ConduitConfig ==
  ASSUME TypeOK, ConfigInv,
         User \/ \E o \in Operators : ReconcileDeleted(o) \/ ReconcileAddFinalizer(o) \/ UpdateStatus(o)
  PROVE  ConfigInv'
<1>1. UNCHANGED <<objs, cachedObjs, pod>>
  BY Zenon DEF User, UserCreate, UserEdit, UserDelete, ReconcileDeleted, ReconcileAddFinalizer, UpdateStatus,
         cacheVars, envVars
<1>2. NextVersion("Conduit") \/ UNCHANGED ver
  BY Zenon DEF User, UserCreate, UserEdit, UserDelete, ReconcileDeleted, ReconcileAddFinalizer, UpdateStatus,
         UpdateFinalizer, UpdateConduit, StoreConduit, RemoveConduit
<1>3. ver'["ConfigMap"] = ver["ConfigMap"]
  BY <1>2 DEF NextVersion, TypeOK, Kinds
<1>4. QED
  BY <1>1, <1>3 DEF ConfigInv

\* Every step keeps the invariant.
LEMMA NextConfig == TypeOK /\ ConfigInv /\ [Next]_vars => ConfigInv'
<1> SUFFICES ASSUME TypeOK, ConfigInv, [Next]_vars PROVE ConfigInv'
  OBVIOUS
<1>1. CASE User \/ \E o \in Operators : ReconcileDeleted(o) \/ ReconcileAddFinalizer(o) \/ UpdateStatus(o)
  BY <1>1, ConduitConfig
<1>2. CASE UNCHANGED <<objs, ver, cachedObjs, pod>>
  BY <1>2 DEF ConfigInv
<1>3. CASE \/ \E o \in Operators : SyncConduit(o) \/ ReconcileNotFound(o) \/ ReconcileBegin(o) \/ DeploymentPanic(o)
           \/ WebhookUp \/ WebhookDown \/ UNCHANGED vars
           \/ \E ref \in Refs, value \in ExtValues \cup {None} : ChangeExternal(ref, value)
  BY <1>2, <1>3 DEF SyncConduit, ReconcileNotFound, ReconcileBegin, DeploymentPanic, WebhookUp,
                    WebhookDown, ChangeExternal, vars, apiVars, cacheVars, envVars
<1>4. ASSUME NEW o \in Operators, Restart(o) \/ \E k \in Kinds : SyncObject(o, k) PROVE ConfigInv'
  <2>1. UNCHANGED <<objs, ver, pod>>
    BY <1>4 DEF Restart, SyncObject, apiVars, envVars
  <2>2. cachedObjs'[o]["ConfigMap"] \in {cachedObjs[o]["ConfigMap"], objs["ConfigMap"]}
    BY <1>4 DEF Restart, SyncObject, TypeOK, OperatorOK, Kinds
  <2>3. \A p \in Operators \ {o} : cachedObjs'[p] = cachedObjs[p]
    BY <1>4, CacheType DEF Informers, OthersUnchanged
  <2>4. ASSUME NEW p \in Operators, cachedObjs'[p]["ConfigMap"] # None
        PROVE  cachedObjs'[p]["ConfigMap"].rv <= ver["ConfigMap"]
    <3>1. CASE p = o
      BY <2>2, <2>4, <3>1, ConfigNumbers DEF ConfigInv
    <3>2. CASE p # o
      BY <2>3, <2>4, <3>2 DEF ConfigInv
    <3>3. QED
      BY <3>1, <3>2
  <2>5. QED
    BY <2>1, <2>4 DEF ConfigInv
<1>5. ASSUME NEW o \in Operators,
             \/ CreateOrUpdateConfig(o) \/ CreateOrUpdateSecret(o) \/ CreateOrUpdateVolume(o)
             \/ CreateOrUpdateDeployment(o) \/ CreateOrUpdateService(o)
      PROVE  ConfigInv'
  BY <1>5, StepsConfig
<1>6. CASE \/ \E k \in Kinds : CollectGarbage(k) \/ Meddle(k)
           \/ BindVolume \/ ReportPods
  BY <1>6, ClusterConfig
<1>7. CASE StopPod \/ StartPod \/ PodReady \/ PodFails
  BY <1>7, PodConfig
<1>8. QED
  BY <1>1, <1>3, <1>4, <1>5, <1>6, <1>7 DEF Next, Informers, Reconcile, Cluster, Disturbance

\* PodRunsAnnotatedConfig: a pod whose template carries the version of the stored
\* ConfigMap has read that version.
THEOREM PodRunsAnnotatedConfigCorrect == Spec => []PodRunsAnnotatedConfig
<1>1. Init => ConfigInv
  BY DEF Init, ConfigInv, Kinds
<1>2. TypeOK /\ ConfigInv => PodRunsAnnotatedConfig
  BY ConfigNumbers DEF ConfigInv, PodRunsAnnotatedConfig
<1>3. QED
  BY <1>1, <1>2, InitType, NextType, NextConfig, PTL DEF Spec
===============================================================================
