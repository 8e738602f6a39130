------------------------ MODULE ConduitControllerTypes ------------------------
(*****************************************************************************)
(* Type correctness of ConduitController, for every set of specs, every      *)
(* budget and any number of instances of the operator.                       *)
(*****************************************************************************)
EXTENDS ConduitController, TLAPS

-------------------------------------------------------------------------------
\* What SetCondition guarantees, whatever it is called with

\* setCondition keeps the type of a condition set.
LEMMA setConditionType ==
  ASSUME NEW conds \in ConditionSets, NEW ct \in ConditionTypes, NEW status \in Statuses,
         NEW reason \in Reasons, NEW message \in Messages, NEW now \in Nat
  PROVE  setCondition(conds, ct, status, reason, message, now) \in ConditionSets
<1>1. [status |-> status, reason |-> reason, message |-> message, at |-> now] \in Condition
  BY DEF Condition
<1>2. QED
  BY <1>1 DEF setCondition, ConditionSets

\* The entry that setCondition sets says what it was given, and the other
\* entries are left alone.
LEMMA setConditionEntries ==
  ASSUME NEW conds \in ConditionSets, NEW ct \in ConditionTypes, NEW status \in Statuses,
         NEW reason \in Reasons, NEW message \in Messages, NEW now \in Nat
  PROVE  /\ condEquals(setCondition(conds, ct, status, reason, message, now)[ct], status, reason, message)
         /\ \A t \in ConditionTypes \ {ct} :
              setCondition(conds, ct, status, reason, message, now)[t] = conds[t]
BY DEF setCondition, condEquals, ConditionSets

\* The main condition takes one of the three statuses.
LEMMA MainStatusType ==
  ASSUME NEW conds
  PROVE  MainStatus(conds) \in Statuses
BY DEF MainStatus, Statuses

\* Reason and message of the main condition are among those conditions have.
LEMMA MainTextType ==
  ASSUME NEW s
  PROVE  MainReason(s) \in Reasons /\ MainMessage(s) \in Messages
<1>1. CASE s = "False"
  BY <1>1 DEF MainReason, MainMessage, Reasons, Messages
<1>2. CASE s = "Unknown"
  BY <1>2 DEF MainReason, MainMessage, Reasons, Messages
<1>3. CASE s # "False" /\ s # "Unknown"
  BY <1>3 DEF MainReason, MainMessage, Reasons, Messages
<1>4. QED
  BY <1>1, <1>2, <1>3

\* The status of the main condition depends on the dependent conditions only.
LEMMA MainStatusOfDeps ==
  ASSUME NEW f, NEW g, \A d \in Deps : f[d].status = g[d].status
  PROVE  MainStatus(f) = MainStatus(g)
<1>1. hasFailedCond(f) <=> hasFailedCond(g)
  BY DEF hasFailedCond, IsFalse
<1>2. hasUnknownCond(f) <=> hasUnknownCond(g)
  BY DEF hasUnknownCond, IsUnknown
<1>3. QED
  BY <1>1, <1>2 DEF MainStatus

\* Whichever way SetCondition returns, it sets the main condition to what MainStatus
\* makes of the others.
LEMMA SetConditionSetsMain ==
  ASSUME NEW conds, NEW ct, NEW status, NEW reason, NEW message, NEW now
  PROVE  LET new   == setCondition(conds, ct, status, reason, message, now)
             ready == MainStatus(new)
         IN  SetCondition(conds, ct, status, reason, message, now) =
               setCondition(new, Main, ready, MainReason(ready), MainMessage(ready), now)
<1> DEFINE new == setCondition(conds, ct, status, reason, message, now)
<1> HIDE DEF new
<1>1. CASE hasFailedCond(new)
  BY <1>1 DEF SetCondition, MainStatus, MainReason, MainMessage, new
<1>2. CASE ~hasFailedCond(new) /\ hasUnknownCond(new)
  BY <1>2 DEF SetCondition, MainStatus, MainReason, MainMessage, new
<1>3. CASE ~hasFailedCond(new) /\ ~hasUnknownCond(new)
  BY <1>3 DEF SetCondition, MainStatus, MainReason, MainMessage, new
<1>4. QED
  BY <1>1, <1>2, <1>3

\* SetCondition returns a condition set.
LEMMA SetConditionType ==
  ASSUME NEW conds \in ConditionSets, NEW ct \in ConditionTypes, NEW status \in Statuses,
         NEW reason \in Reasons, NEW message \in Messages, NEW now \in Nat
  PROVE  SetCondition(conds, ct, status, reason, message, now) \in ConditionSets
<1> DEFINE new   == setCondition(conds, ct, status, reason, message, now)
           ready == MainStatus(new)
<1>1. new \in ConditionSets
  BY setConditionType
<1>2. ready \in Statuses
  BY MainStatusType
<1>3. MainReason(ready) \in Reasons /\ MainMessage(ready) \in Messages
  BY MainTextType
<1>4. Main \in ConditionTypes
  BY DEF ConditionTypes
<1> HIDE DEF new, ready
<1>5. setCondition(new, Main, ready, MainReason(ready), MainMessage(ready), now) \in ConditionSets
  BY <1>1, <1>2, <1>3, <1>4, setConditionType
<1>6. QED
  BY <1>5, SetConditionSetsMain DEF new, ready

\* After SetCondition the main condition sums up the dependent ones, whatever
\* it said before.
LEMMA SetConditionAgrees ==
  ASSUME NEW conds \in ConditionSets, NEW ct \in ConditionTypes, NEW status \in Statuses,
         NEW reason \in Reasons, NEW message \in Messages, NEW now \in Nat
  PROVE  ReadyAgrees(SetCondition(conds, ct, status, reason, message, now))
<1> DEFINE new   == setCondition(conds, ct, status, reason, message, now)
           ready == MainStatus(new)
           final == setCondition(new, Main, ready, MainReason(ready), MainMessage(ready), now)
<1>1. new \in ConditionSets
  BY setConditionType
<1>2. ready \in Statuses
  BY MainStatusType
<1>3. MainReason(ready) \in Reasons /\ MainMessage(ready) \in Messages
  BY MainTextType
<1>4. Main \in ConditionTypes /\ Deps \subseteq ConditionTypes \ {Main}
  BY DEF ConditionTypes, Main, Deps
<1> HIDE DEF new
<1>5. /\ condEquals(final[Main], ready, MainReason(ready), MainMessage(ready))
      /\ \A d \in Deps : final[d] = new[d]
  <2> DEFINE r == MainReason(ready)
             m == MainMessage(ready)
  <2>1. r \in Reasons /\ m \in Messages
    BY <1>3
  <2> HIDE DEF ready, r, m
  <2>2. /\ condEquals(setCondition(new, Main, ready, r, m, now)[Main], ready, r, m)
        /\ \A t \in ConditionTypes \ {Main} : setCondition(new, Main, ready, r, m, now)[t] = new[t]
    BY <1>1, <1>2, <1>4, <2>1, setConditionEntries
  <2>3. QED
    BY <1>4, <2>2 DEF r, m
<1>6. MainStatus(final) = ready
  BY <1>5, MainStatusOfDeps
<1>7. ReadyAgrees(final)
  <2> HIDE DEF ready, final
  <2>1. QED
    BY <1>5, <1>6 DEF ReadyAgrees
<1>8. QED
  BY <1>7, SetConditionSetsMain DEF new

\* What agreement of the main condition means: Ready is True exactly when every
\* dependent condition is, and False exactly when one of them is.
LEMMA ReadyAgreesMeans ==
  ASSUME NEW conds \in ConditionSets, ReadyAgrees(conds), conds # NoConditions
  PROVE  /\ IsTrue(conds[Main]) <=> \A d \in Deps : IsTrue(conds[d])
         /\ IsFalse(conds[Main]) <=> \E d \in Deps : IsFalse(conds[d])
<1>1. conds[Main].status = MainStatus(conds)
  BY DEF ReadyAgrees, condEquals
<1>2. \A d \in Deps : conds[d].status \in {"True", "False", "Unknown", "Absent"}
  BY DEF ConditionSets, Condition, Statuses, ConditionTypes
<1>3. (\A d \in Deps : IsTrue(conds[d])) <=> ~hasFailedCond(conds) /\ ~hasUnknownCond(conds)
  BY <1>2 DEF hasFailedCond, hasUnknownCond, IsTrue, IsFalse, IsUnknown
<1>4. QED
  BY <1>1, <1>3 DEF MainStatus, hasFailedCond, IsTrue, IsFalse

-------------------------------------------------------------------------------
\* Type correctness

\* The types of versions and of the environment's budgets, after a step that
\* hands out a version or spends a budget.
LEMMA NextVersionType ==
  ASSUME TypeOK, NEW k \in Kinds \cup {"Conduit"}, NextVersion(k)
  PROVE  ver' \in [Kinds \cup {"Conduit"} -> Nat]
BY DEF TypeOK, NextVersion

\* Spending leaves every budget a natural number.
LEMMA SpendType ==
  ASSUME TypeOK, NEW b \in Budgets, Spend(b)
  PROVE  left' \in [Budgets -> Nat]
BY DEF TypeOK, Spend

\* A Conduit that is stored, or removed, leaves conduit and ver well typed.
LEMMA StoreConduitType ==
  ASSUME TypeOK, NEW new \in Conduits, StoreConduit(new)
  PROVE  conduit' \in Conduits /\ ver' \in [Kinds \cup {"Conduit"} -> Nat]
<1>1. ver' \in [Kinds \cup {"Conduit"} -> Nat]
  BY NextVersionType DEF StoreConduit
<1>2. ver["Conduit"] + 1 \in Nat
  BY DEF TypeOK
<1>3. QED
  BY <1>1, <1>2 DEF StoreConduit, Conduits

\* So does one that is removed.
LEMMA RemoveConduitType ==
  ASSUME TypeOK, RemoveConduit
  PROVE  conduit' = None /\ ver' \in [Kinds \cup {"Conduit"} -> Nat]
BY NextVersionType DEF RemoveConduit

\* The managed objects, as TypeOK has them.
ObjectsOK(os) == DOMAIN os = Kinds /\ \A k \in Kinds : os[k] \in Objects(k) \cup {None}

\* A step of instance o leaves the caches, queues and workers of the others alone.
OthersUnchanged(o) ==
  /\ DOMAIN cachedConduit' = Operators /\ DOMAIN cachedObjs' = Operators
  /\ DOMAIN queued' = Operators /\ DOMAIN pc' = Operators /\ DOMAIN c' = Operators
  /\ \A p \in Operators \ {o} :
       /\ cachedConduit'[p] = cachedConduit[p] /\ cachedObjs'[p] = cachedObjs[p]
       /\ queued'[p] = queued[p] /\ pc'[p] = pc[p] /\ c'[p] = c[p]

\* An object that is removed, or written to, leaves objs and ver well typed.
LEMMA RemoveObjectType ==
  ASSUME TypeOK, NEW k \in Kinds, RemoveObject(k)
  PROVE  ObjectsOK(objs') /\ ver' \in [Kinds \cup {"Conduit"} -> Nat]
BY NextVersionType DEF RemoveObject, TypeOK, ObjectsOK

\* The same for an object someone else has changed.
LEMMA TouchObjectType ==
  ASSUME TypeOK, NEW k \in Kinds, NEW obj \in Objects(k), TouchObject(k, obj)
  PROVE  ObjectsOK(objs') /\ ver' \in [Kinds \cup {"Conduit"} -> Nat]
<1>1. ver' \in [Kinds \cup {"Conduit"} -> Nat]
  BY NextVersionType, Zenon DEF TouchObject
<1>2. ver[k] + 1 \in Nat
  BY DEF TypeOK
<1>3. [obj EXCEPT !.rv = ver[k] + 1] \in Objects(k)
  BY <1>2 DEF Objects
<1>4. QED
  BY <1>1, <1>3, Zenon DEF TouchObject, TypeOK, ObjectsOK

\* The status a new object starts with is one of its kind.
LEMMA InitialStateType ==
  ASSUME NEW k \in Kinds
  PROVE  InitialState(k) \in State(k)
<1>1. CASE k = "Deployment"
  BY <1>1 DEF InitialState, State, NoPods, Counts
<1>2. CASE k = "Service"
  BY <1>2 DEF InitialState, State
<1>3. CASE k \in {"ConfigMap", "Secret", "Volume"}
  BY <1>3, Zenon DEF InitialState, State
<1>4. QED
  BY <1>1, <1>2, <1>3 DEF Kinds

\* The same for an object the operator writes.
LEMMA WriteType ==
  ASSUME TypeOK, NEW o \in Operators, pc[o] # "idle", NEW k \in Kinds, NEW data \in Data(k),
         Write(o, k, data)
  PROVE  ObjectsOK(objs') /\ objs'[k] \in Objects(k) /\ ver' \in [Kinds \cup {"Conduit"} -> Nat]
<1> DEFINE state == IF objs[k] = None THEN InitialState(k) ELSE objs[k].state
           new   == [rv |-> ver[k] + 1, owner |-> ControllerReference(o), data |-> data, state |-> state]
<1>1. ver' \in [Kinds \cup {"Conduit"} -> Nat]
  BY NextVersionType, Zenon DEF Write
<1>2. ver[k] + 1 \in Nat
  BY DEF TypeOK
<1>3. ControllerReference(o) \in Nat
  BY DEF TypeOK, OperatorOK, ControllerReference, Conduits
<1>4. state \in State(k)
  BY InitialStateType DEF TypeOK, Objects
<1>5. new \in Objects(k)
  <2> HIDE DEF state
  <2>1. QED
    BY <1>2, <1>3, <1>4 DEF Objects
<1>6. objs' = [objs EXCEPT ![k] = new]
  BY DEF Write
<1> HIDE DEF new
<1>7. QED
  BY <1>1, <1>5, <1>6 DEF TypeOK, ObjectsOK

-------------------------------------------------------------------------------
\* Setting the condition of an object leaves a condition set in which Ready sums
\* up the others.
LEMMA WithConditionType ==
  ASSUME NEW conds \in ConditionSets, NEW k \in Kinds, NEW status \in Statuses,
         NEW reason \in Reasons, NEW message \in Messages
  PROVE  /\ WithCondition(conds, k, status, reason, message) \in ConditionSets
         /\ ReadyAgrees(WithCondition(conds, k, status, reason, message))
<1>1. ConditionOf(k) \in ConditionTypes
  BY DEF ConditionOf, Kinds, ConditionTypes, Deps
<1>2. Now \in Nat
  BY DEF Now
<1>3. QED
  BY <1>1, <1>2, SetConditionType, SetConditionAgrees DEF WithCondition

\* The condition of an error is a condition, and Ready sums it up.
LEMMA FailureType ==
  ASSUME NEW conds \in ConditionSets, NEW k \in Kinds, NEW reason \in Reasons, NEW message \in Messages
  PROVE  /\ Failure(conds, k, reason, message) \in ConditionSets
         /\ ReadyAgrees(Failure(conds, k, reason, message))
BY WithConditionType DEF Failure, Statuses

\* A step of instance o that touches nothing of c but its own conditions.
OnlyConditions(o) ==
  /\ DOMAIN c' = Operators
  /\ \A p \in Operators \ {o} : c'[p] = c[p]
  /\ \E conds : c'[o] = [c[o] EXCEPT !.conds = conds]

\* Setting conditions is such a step.
LEMMA WithConditionsEffect ==
  ASSUME TypeOK, NEW o \in Operators, NEW conds, WithConditions(o, conds)
  PROVE  OnlyConditions(o) /\ c'[o] = [c[o] EXCEPT !.conds = conds]
BY DEF TypeOK, WithConditions, OnlyConditions

\* What a CreateOrUpdate call can do: leave the conditions of the mutate function
\* or those of an error, and write the object, if that is accepted, or not.
LEMMA CreateOrUpdateEffect ==
  ASSUME TypeOK, NEW o \in Operators, NEW k \in Kinds, NEW data, NEW mutated, NEW reason,
         CreateOrUpdate(o, k, data, mutated, reason)
  PROVE  /\ \/ WithConditions(o, mutated)
            \/ \E message \in Messages : WithConditions(o, Failure(mutated, k, reason, message))
         /\ (WriteAccepted(o, k) /\ Write(o, k, data)) \/ UNCHANGED <<objs, ver>>
         /\ left' \in [Budgets -> Nat]
         /\ left'["edit"] = left["edit"]
<1> DEFINE cur      == cachedObjs[o][k]
           same     == cur # None /\ cur.data = data /\ cur.owner = ControllerReference(o)
           accepted == WriteAccepted(o, k)
           refusal  == CASE cur = None -> "already exists"
                         [] cur # None /\ objs[k] = None -> "not found"
                         [] cur # None /\ objs[k] # None -> "conflict"
<1>1. left \in [Budgets -> Nat]
  BY DEF TypeOK
<1>2. refusal \in Messages /\ "unavailable" \in Messages
  BY Zenon DEF Messages
<1> HIDE DEF refusal
<1>3. CASE same /\ WithConditions(o, mutated) /\ UNCHANGED <<objs, ver, left>>
  BY <1>1, <1>3
<1>4. CASE accepted /\ Write(o, k, data) /\ WithConditions(o, mutated) /\ UNCHANGED left
  BY <1>1, <1>4
<1>5. CASE WithConditions(o, Failure(mutated, k, reason, refusal)) /\ UNCHANGED <<objs, ver, left>>
  BY <1>1, <1>2, <1>5
<1>6. CASE /\ Spend("fault")
           /\ WithConditions(o, Failure(mutated, k, reason, "unavailable"))
           /\ (accepted /\ Write(o, k, data)) \/ UNCHANGED <<objs, ver>>
  <2>1. left' \in [Budgets -> Nat] /\ left'["edit"] = left["edit"]
    BY <1>1, <1>6, SpendType DEF Spend, Budgets
  <2>2. QED
    BY <1>2, <1>6, <2>1
<1>7. QED
  BY <1>3, <1>4, <1>5, <1>6, Zenon DEF CreateOrUpdate, refusal

\* A CreateOrUpdate call with data of its kind keeps the types.
LEMMA CreateOrUpdateType ==
  ASSUME TypeOK, NEW o \in Operators, pc[o] # "idle", NEW k \in Kinds, NEW data \in Data(k),
         NEW mutated \in ConditionSets, NEW reason \in Reasons, CreateOrUpdate(o, k, data, mutated, reason)
  PROVE  /\ OnlyConditions(o) /\ c'[o] \in Conduits
         /\ ObjectsOK(objs')
         /\ ver' \in [Kinds \cup {"Conduit"} -> Nat]
         /\ left' \in [Budgets -> Nat]
<1>1. PICK conds \in ConditionSets : WithConditions(o, conds)
  BY CreateOrUpdateEffect, FailureType
<1>2. OnlyConditions(o) /\ c'[o] \in Conduits
  <2>1. OnlyConditions(o) /\ c'[o] = [c[o] EXCEPT !.conds = conds]
    BY <1>1, WithConditionsEffect
  <2>2. c[o] \in Conduits
    BY DEF TypeOK, OperatorOK
  <2>3. QED
    BY <2>1, <2>2 DEF Conduits
<1>3. ObjectsOK(objs') /\ ver' \in [Kinds \cup {"Conduit"} -> Nat]
  <2>1. CASE Write(o, k, data)
    BY <2>1, WriteType
  <2>2. CASE UNCHANGED <<objs, ver>>
    BY <2>2 DEF TypeOK, ObjectsOK
  <2>3. QED
    BY <2>1, <2>2, CreateOrUpdateEffect
<1>4. QED
  BY <1>2, <1>3, CreateOrUpdateEffect

-------------------------------------------------------------------------------
\* What the operator computes has the type of what it is written to.
LEMMA PipelineConfigType ==
  ASSUME TypeOK, NEW spec \in Specs, Resolvable(spec, "ConfigMap")
  PROVE  PipelineConfigYAML(spec) \in Data("ConfigMap")
<1>1. spec \in ConduitSpec
  BY SpecsAssumption
<1>2. Resolve(spec, "ConfigMap") \in ExtValues \cup {""}
  BY Zenon DEF TypeOK, Resolve, Resolvable, Refs
<1>3. PipelineConfigYAML(spec) \in Pipelines
  BY <1>1, <1>2, Zenon DEF PipelineConfigYAML, Pipelines, ConduitSpec
<1>4. QED
  BY <1>3 DEF Data

\* The data of the Secret is well typed unless its reference is missing.
LEMMA SchemaRegistryType ==
  ASSUME TypeOK, NEW spec \in Specs, spec.registry = "" \/ Resolvable(spec, "Secret")
  PROVE  SchemaRegistryConfig(spec) \in Data("Secret")
<1>1. spec \in ConduitSpec
  BY SpecsAssumption, Zenon
<1>2. (IF spec.registry = "" THEN "" ELSE Resolve(spec, "Secret")) \in ExtValues \cup {""}
  BY Zenon DEF TypeOK, Resolve, Resolvable, Refs
<1>3. SchemaRegistryConfig(spec) \in Registries
  BY <1>1, <1>2, Zenon DEF SchemaRegistryConfig, Registries, ConduitSpec
<1>4. QED
  BY <1>3, Zenon DEF Data

\* The deployment is well typed once ConfigMap and Secret are in the cache.
LEMMA DeploymentSpecType ==
  ASSUME TypeOK, NEW o \in Operators, NEW spec \in Specs, ConfigKnown(o)
  PROVE  DeploymentSpec(o, spec) \in Data("Deployment")
<1> DEFINE current == IF cachedObjs[o]["Deployment"] = None THEN {}
                        ELSE cachedObjs[o]["Deployment"].data.template.env
           updated == spec.env \cup envVarsFromSecret(cachedObjs[o]["Secret"])
           names   == STRING \cup {"registry"}
<1>1. spec \in ConduitSpec
  BY SpecsAssumption
<1>2. current \in SUBSET names
  BY Zenon DEF TypeOK, OperatorOK, Kinds, Objects, Data, Templates
<1>3. updated \in SUBSET names
  BY <1>1, Zenon DEF envVarsFromSecret, ConduitSpec
<1>4. MergeEnv(current, updated) \in SUBSET names
  BY <1>2, <1>3 DEF MergeEnv
<1>5. ConfigVersion(o) \in Nat
  BY DEF TypeOK, OperatorOK, ConfigKnown, ConfigVersion, Kinds, Objects
<1>6. getReplicas(spec) \in 0 .. 1
  BY DEF getReplicas
<1> HIDE DEF current, updated
<1>7. [builds |-> spec.builds, version |-> spec.version, env |-> MergeEnv(current, updated),
       configVersion |-> ConfigVersion(o)] \in Templates
  BY <1>1, <1>4, <1>5 DEF Templates, ConduitSpec
<1>8. DeploymentSpec(o, spec) \in [replicas : 0 .. 1, template : Templates]
  BY <1>6, <1>7 DEF DeploymentSpec, current, updated
<1>9. QED
  BY <1>8 DEF Data

\* So are the conditions it leaves, and Ready still sums up the others.
LEMMA DeploymentConditionsType ==
  ASSUME TypeOK, NEW o \in Operators, pc[o] # "idle"
  PROVE  /\ DeploymentConditions(o, c[o].spec) \in ConditionSets
         /\ ReadyAgrees(c[o].conds) => ReadyAgrees(DeploymentConditions(o, c[o].spec))
<1> DEFINE replicas == getReplicas(c[o].spec)
           status   == IF cachedObjs[o]["Deployment"] = None THEN NoPods
                         ELSE cachedObjs[o]["Deployment"].state
           running  == deploymentRunningStatus(replicas, status)
           message  == ReadyReplicas(status.ready, replicas)
<1>1. c[o].conds \in ConditionSets
  BY DEF TypeOK, OperatorOK, Conduits
<1>2. running \in Statuses \X (Reasons \cup {"Pending"}) /\ (running[1] # "Unknown" => running[2] \in Reasons)
  BY Zenon DEF deploymentRunningStatus, Statuses, Reasons
<1>3. message \in Messages
  BY DEF ReadyReplicas, Messages
<1> HIDE DEF replicas, running, message
<1>4. CASE running[1] = "Unknown"
  BY <1>1, <1>4 DEF DeploymentConditions, running, replicas
<1>5. CASE running[1] # "Unknown"
  <2>1. DeploymentConditions(o, c[o].spec) =
          WithCondition(c[o].conds, "Deployment", running[1], running[2], message)
    BY <1>5 DEF DeploymentConditions, running, message, replicas
  <2>2. QED
    BY <1>1, <1>2, <1>3, <1>5, <2>1, WithConditionType DEF Kinds
<1>6. QED
  BY <1>4, <1>5

-------------------------------------------------------------------------------
\* The initial state is well typed.
LEMMA InitType == Init => TypeOK
<1> SUFFICES ASSUME Init PROVE TypeOK
  OBVIOUS
<1>1. webhook \in BOOLEAN /\ \A o \in Operators : OperatorOK(o)
  BY DEF Init, OperatorOK
<1>2. left \in [Budgets -> Nat]
  BY BoundsAssumption DEF Init, Budgets
<1>3. ver \in [Kinds \cup {"Conduit"} -> Nat]
  BY DEF Init
<1>4. QED
  BY <1>1, <1>2, <1>3 DEF Init, TypeOK

\* Actions of the users keep the types.
LEMMA UserType == TypeOK /\ User => TypeOK'
<1> SUFFICES ASSUME TypeOK, User PROVE TypeOK'
  OBVIOUS
<1>1. ASSUME NEW s \in Specs, UserCreate(s) PROVE TypeOK'
  <2> DEFINE new == [uid |-> ver["Conduit"] + 1, rv |-> 0, gen |-> 1, spec |-> s, fin |-> FALSE,
                     del |-> FALSE, obs |-> 0, conds |-> NoConditions]
  <2>1. NoConditions \in ConditionSets
    BY DEF NoConditions, NoCondition, ConditionSets, Condition, Reasons, Messages
  <2>2. ver["Conduit"] + 1 \in Nat
    BY DEF TypeOK
  <2>3. new \in Conduits
    BY <2>1, <2>2 DEF Conduits
  <2>4. StoreConduit(new)
    BY <1>1 DEF UserCreate
  <2> HIDE DEF new
  <2>5. conduit' \in Conduits /\ ver' \in [Kinds \cup {"Conduit"} -> Nat]
    BY <2>3, <2>4, StoreConduitType
  <2>6. left' \in [Budgets -> Nat]
    BY <1>1, SpendType DEF UserCreate, Budgets
  <2>7. QED
    BY <1>1, <2>5, <2>6 DEF UserCreate, TypeOK, OperatorOK, cacheVars, envVars, opVars
<1>2. ASSUME NEW s \in Specs, UserEdit(s) PROVE TypeOK'
  <2> DEFINE new == [conduit EXCEPT !.spec = s, !.gen = @ + 1]
  <2>1. new \in Conduits
    <3>1. conduit \in Conduits /\ conduit.gen + 1 \in Nat
      BY <1>2 DEF UserEdit, TypeOK, Conduits
    <3>2. QED
      BY <3>1, Zenon DEF Conduits
  <2>2. StoreConduit(new)
    BY <1>2 DEF UserEdit
  <2> HIDE DEF new
  <2>3. conduit' \in Conduits /\ ver' \in [Kinds \cup {"Conduit"} -> Nat]
    BY <2>1, <2>2, StoreConduitType
  <2>4. left' \in [Budgets -> Nat]
    BY <1>2, SpendType DEF UserEdit, Budgets
  <2>5. QED
    BY <1>2, <2>3, <2>4 DEF UserEdit, TypeOK, OperatorOK, cacheVars, envVars, opVars
<1>3. ASSUME UserDelete PROVE TypeOK'
  <2> DEFINE new == [conduit EXCEPT !.del = TRUE, !.gen = @ + 1]
  <2>1. new \in Conduits
    <3>1. conduit \in Conduits /\ conduit.gen + 1 \in Nat
      BY <1>3 DEF UserDelete, TypeOK, Conduits
    <3>2. QED
      BY <3>1, Zenon DEF Conduits
  <2>2. StoreConduit(new) \/ RemoveConduit
    BY <1>3 DEF UserDelete
  <2> HIDE DEF new
  <2>3. conduit' \in Conduits \cup {None} /\ ver' \in [Kinds \cup {"Conduit"} -> Nat]
    BY <2>1, <2>2, StoreConduitType, RemoveConduitType
  <2>4. left' \in [Budgets -> Nat]
    BY <1>3, SpendType DEF UserDelete, Budgets
  <2>5. QED
    BY <1>3, <2>3, <2>4 DEF UserDelete, TypeOK, OperatorOK, cacheVars, envVars, opVars
<1>4. QED
  BY <1>1, <1>2, <1>3 DEF User

\* A step of one instance keeps the types if what it does to its own variables and to
\* those all share does.
LEMMA InstanceStepType ==
  ASSUME TypeOK, NEW o \in Operators, OthersUnchanged(o), OperatorOK(o)',
         conduit' \in Conduits \cup {None}, ObjectsOK(objs'), ver' \in [Kinds \cup {"Conduit"} -> Nat],
         left' \in [Budgets -> Nat], UNCHANGED envVars
  PROVE  TypeOK'
<1>1. ASSUME NEW p \in Operators PROVE OperatorOK(p)'
  <2>1. CASE p = o
    BY <2>1
  <2>2. CASE p # o
    BY <2>2, Zenon DEF TypeOK, OperatorOK, OthersUnchanged
  <2>3. QED
    BY <2>1, <2>2
<1>2. QED
  BY <1>1, Zenon DEF TypeOK, ObjectsOK, OthersUnchanged, envVars

\* The informers and a restart copy what the API server has.
LEMMA CacheType ==
  ASSUME TypeOK, NEW o \in Operators, Informers(o) \/ Restart(o)
  PROVE  TypeOK' /\ OthersUnchanged(o)
<1>1. CASE SyncConduit(o)
  <2>1. OthersUnchanged(o) /\ OperatorOK(o)'
    BY <1>1 DEF SyncConduit, TypeOK, OperatorOK, OthersUnchanged
  <2>2. QED
    BY <1>1, <2>1, InstanceStepType DEF SyncConduit, TypeOK, ObjectsOK, apiVars
<1>2. ASSUME NEW k \in Kinds, SyncObject(o, k) PROVE TypeOK' /\ OthersUnchanged(o)
  <2>1. OthersUnchanged(o) /\ OperatorOK(o)'
    BY <1>2 DEF SyncObject, TypeOK, OperatorOK, OthersUnchanged, apiVars
  <2>2. QED
    BY <1>2, <2>1, InstanceStepType DEF SyncObject, TypeOK, ObjectsOK, apiVars
<1>3. CASE Restart(o)
  <2>1. left' \in [Budgets -> Nat]
    BY <1>3, SpendType DEF Restart, Budgets
  <2>2. OthersUnchanged(o) /\ OperatorOK(o)'
    BY <1>3 DEF Restart, TypeOK, OperatorOK, OthersUnchanged, apiVars
  <2>3. QED
    BY <1>3, <2>1, <2>2, InstanceStepType DEF Restart, TypeOK, ObjectsOK, apiVars
<1>4. QED
  BY <1>1, <1>2, <1>3 DEF Informers

\* What an update of the finalizer list can do: be carried out, or nothing.
LEMMA UpdateFinalizerEffect ==
  ASSUME TypeOK, NEW o \in Operators, NEW fin \in BOOLEAN, NEW requeue \in BOOLEAN,
         UpdateFinalizer(o, fin, requeue)
  PROVE  /\ (UpdateAccepted(o) /\ UpdateConduit(o, fin)) \/ UNCHANGED <<conduit, ver>>
         /\ \E b \in BOOLEAN : queued' = [queued EXCEPT ![o] = b]
         /\ left' \in [Budgets -> Nat]
         /\ left'["edit"] = left["edit"]
<1>1. left \in [Budgets -> Nat]
  BY DEF TypeOK
<1>2. CASE /\ UpdateAccepted(o) /\ UpdateConduit(o, fin)
           /\ queued' = [queued EXCEPT ![o] = requeue] /\ UNCHANGED left
  BY <1>1, <1>2, Zenon
<1>3. CASE queued' = [queued EXCEPT ![o] = TRUE] /\ UNCHANGED <<conduit, ver, left>>
  BY <1>1, <1>3
<1>4. CASE /\ Spend("fault")
           /\ queued' = [queued EXCEPT ![o] = TRUE]
           /\ (UpdateAccepted(o) /\ UpdateConduit(o, fin)) \/ UNCHANGED <<conduit, ver>>
  <2>1. left' \in [Budgets -> Nat] /\ left'["edit"] = left["edit"]
    BY <1>1, <1>4, SpendType DEF Spend, Budgets
  <2>2. QED
    BY <1>4, <2>1
<1>5. QED
  BY <1>2, <1>3, <1>4, Zenon DEF UpdateFinalizer

\* An accepted update of the finalizers keeps the types.
LEMMA UpdateConduitType ==
  ASSUME TypeOK, NEW o \in Operators, cachedConduit[o] # None, conduit # None, NEW fin \in BOOLEAN,
         UpdateConduit(o, fin)
  PROVE  conduit' \in Conduits \cup {None} /\ ver' \in [Kinds \cup {"Conduit"} -> Nat]
<1> DEFINE gen == IF conduit.spec = cachedConduit[o].spec THEN conduit.gen ELSE conduit.gen + 1
           new == [conduit EXCEPT !.fin = fin, !.spec = cachedConduit[o].spec, !.gen = gen]
<1>1. CASE conduit.del /\ ~fin
  BY <1>1, RemoveConduitType DEF UpdateConduit
<1>2. CASE ~(conduit.del /\ ~fin)
  <2>1. conduit \in Conduits /\ cachedConduit[o].spec \in Specs
    BY DEF TypeOK, OperatorOK, Conduits
  <2>2. gen \in Nat
    BY <2>1 DEF Conduits
  <2> HIDE DEF gen
  <2>3. new \in Conduits
    BY <2>1, <2>2, Zenon DEF Conduits
  <2>4. StoreConduit(new)
    BY <1>2 DEF UpdateConduit, gen
  <2> HIDE DEF new
  <2>5. QED
    BY <2>3, <2>4, StoreConduitType
<1>3. QED
  BY <1>1, <1>2

\* The steps of Reconcile before it creates anything keep the types.
LEMMA ReconcileStartType ==
  ASSUME TypeOK, NEW o \in Operators,
         ReconcileNotFound(o) \/ ReconcileDeleted(o) \/ ReconcileAddFinalizer(o) \/ ReconcileBegin(o)
  PROVE  TypeOK' /\ OthersUnchanged(o)
<1>1. CASE ReconcileNotFound(o)
  <2>1. OthersUnchanged(o) /\ OperatorOK(o)'
    BY <1>1 DEF ReconcileNotFound, TypeOK, OperatorOK, OthersUnchanged, cacheVars
  <2>2. QED
    BY <1>1, <2>1, InstanceStepType DEF ReconcileNotFound, TypeOK, ObjectsOK, apiVars
<1>2. ASSUME NEW fin \in BOOLEAN, NEW requeue \in BOOLEAN, UpdateFinalizer(o, fin, requeue),
             cachedConduit[o] # None, UNCHANGED <<objs, cacheVars, envVars, pc, c>>
      PROVE  TypeOK' /\ OthersUnchanged(o)
  <2>1. conduit' \in Conduits \cup {None} /\ ver' \in [Kinds \cup {"Conduit"} -> Nat]
    BY <1>2, UpdateFinalizerEffect, UpdateConduitType, Zenon DEF UpdateAccepted, TypeOK
  <2>2. PICK b \in BOOLEAN : queued' = [queued EXCEPT ![o] = b]
    BY <1>2, UpdateFinalizerEffect
  <2>3. left' \in [Budgets -> Nat]
    BY <1>2, UpdateFinalizerEffect
  <2>4. OthersUnchanged(o) /\ OperatorOK(o)'
    BY <1>2, <2>2 DEF TypeOK, OperatorOK, OthersUnchanged, cacheVars
  <2>5. QED
    BY <1>2, <2>1, <2>3, <2>4, InstanceStepType DEF TypeOK, ObjectsOK
<1>3. CASE ReconcileDeleted(o)
  BY <1>2, <1>3, Zenon DEF ReconcileDeleted
<1>4. CASE ReconcileAddFinalizer(o)
  BY <1>2, <1>4, Zenon DEF ReconcileAddFinalizer
<1>5. CASE ReconcileBegin(o)
  <2>1. OthersUnchanged(o) /\ OperatorOK(o)'
    BY <1>5 DEF ReconcileBegin, TypeOK, OperatorOK, OthersUnchanged, Steps, cacheVars
  <2>2. QED
    BY <1>5, <2>1, InstanceStepType DEF ReconcileBegin, TypeOK, ObjectsOK, apiVars
<1>6. QED
  BY <1>1, <1>3, <1>4, <1>5

\* A step keeps the types if what it does to its own variables does.
LEMMA StepType ==
  ASSUME TypeOK, NEW o \in Operators, NEW from \in Steps, NEW to \in Steps, Step(o, from, to),
         OnlyConditions(o) \/ UNCHANGED c, c'[o] \in Conduits,
         ObjectsOK(objs'), ver' \in [Kinds \cup {"Conduit"} -> Nat], left' \in [Budgets -> Nat]
  PROVE  TypeOK' /\ OthersUnchanged(o)
<1>1. OthersUnchanged(o) /\ OperatorOK(o)'
  BY DEF Step, TypeOK, OperatorOK, OthersUnchanged, OnlyConditions, cacheVars
<1>2. QED
  BY <1>1, InstanceStepType DEF Step, TypeOK

\* The state between two steps: the worker is not idle and holds a Conduit.
LEMMA StepFrom ==
  ASSUME TypeOK, NEW o \in Operators, NEW from \in Steps, pc[o] = from
  PROVE  pc[o] # "idle" /\ c[o] \in Conduits /\ c[o].spec \in Specs /\ c[o].conds \in ConditionSets
BY Zenon DEF TypeOK, OperatorOK, Steps, Conduits

\* The steps that create or update an object keep the types.
LEMMA CreateOrUpdateStepsType ==
  ASSUME TypeOK, NEW o \in Operators,
         \/ CreateOrUpdateConfig(o) \/ CreateOrUpdateSecret(o) \/ CreateOrUpdateVolume(o)
         \/ CreateOrUpdateDeployment(o) \/ CreateOrUpdateService(o)
  PROVE  TypeOK' /\ OthersUnchanged(o)
<1> USE DEF Kinds
<1>1. CASE CreateOrUpdateConfig(o)
  <2> DEFINE mutated == WithCondition(c[o].conds, "ConfigMap", "True", "ConfigReady",
                                      "Pipeline configuration created")
  <2>1. Step(o, "config", "secret") /\ "config" \in Steps /\ "secret" \in Steps
    BY <1>1, Zenon DEF CreateOrUpdateConfig, Steps
  <2>2. pc[o] # "idle" /\ c[o] \in Conduits /\ c[o].spec \in Specs /\ c[o].conds \in ConditionSets
    BY <2>1, StepFrom DEF Step
  <2>3. mutated \in ConditionSets /\ "ConfigError" \in Reasons
    <3>1. "Pipeline configuration created" \in Messages
      BY DEF Messages
    <3>2. "ConfigReady" \in Reasons /\ "ConfigError" \in Reasons
      BY DEF Reasons
    <3>3. "True" \in Statuses
      BY DEF Statuses
    <3>4. QED
      BY <2>2, <3>1, <3>2, <3>3, WithConditionType, Zenon
  <2> HIDE DEF mutated
  <2>4. CASE /\ Resolvable(c[o].spec, "ConfigMap")
             /\ CreateOrUpdate(o, "ConfigMap", PipelineConfigYAML(c[o].spec), mutated, "ConfigError")
    BY <2>1, <2>2, <2>3, <2>4, PipelineConfigType, CreateOrUpdateType, StepType
  <2>5. CASE UNCHANGED <<objs, ver, c, left>>
    BY <2>1, <2>2, <2>5, StepType, Zenon DEF TypeOK, ObjectsOK
  <2>6. QED
    BY <1>1, <2>4, <2>5, Zenon DEF CreateOrUpdateConfig, mutated
<1>2. CASE CreateOrUpdateSecret(o)
  <2> DEFINE mutated == WithCondition(c[o].conds, "Secret", "True", "SecretReady", "Conduit secret created")
  <2>1. Step(o, "secret", "volume") /\ "secret" \in Steps /\ "volume" \in Steps
    BY <1>2, Zenon DEF CreateOrUpdateSecret, Steps
  <2>2. pc[o] # "idle" /\ c[o] \in Conduits /\ c[o].spec \in Specs /\ c[o].conds \in ConditionSets
    BY <2>1, StepFrom DEF Step
  <2>3. mutated \in ConditionSets /\ "ConduitSecretError" \in Reasons
    <3>1. "Conduit secret created" \in Messages
      BY DEF Messages
    <3>2. "SecretReady" \in Reasons /\ "ConduitSecretError" \in Reasons
      BY DEF Reasons
    <3>3. "True" \in Statuses
      BY DEF Statuses
    <3>4. QED
      BY <2>2, <3>1, <3>2, <3>3, WithConditionType, Zenon
  <2> HIDE DEF mutated
  <2>4. CASE /\ c[o].spec.registry = "" \/ Resolvable(c[o].spec, "Secret")
             /\ CreateOrUpdate(o, "Secret", SchemaRegistryConfig(c[o].spec), mutated, "ConduitSecretError")
    BY <2>1, <2>2, <2>3, <2>4, SchemaRegistryType, CreateOrUpdateType, StepType, Zenon
  <2>5. CASE UNCHANGED <<objs, ver, c, left>>
    BY <2>1, <2>2, <2>5, StepType, Zenon DEF TypeOK, ObjectsOK
  <2>6. QED
    BY <1>2, <2>4, <2>5, Zenon DEF CreateOrUpdateSecret, mutated
<1>3. CASE CreateOrUpdateVolume(o)
  <2> DEFINE phase   == IF cachedObjs[o]["Volume"] = None THEN ""
                          ELSE cachedObjs[o]["Volume"].state.phase
             mutated == WithCondition(c[o].conds, "Volume", IF phase = "Bound" THEN "True" ELSE "False",
                                      "VolumeReady", phase)
  <2>1. Step(o, "volume", "deployment") /\ "volume" \in Steps /\ "deployment" \in Steps
    BY <1>3, Zenon DEF CreateOrUpdateVolume, Steps
  <2>2. pc[o] # "idle" /\ c[o] \in Conduits /\ c[o].spec \in Specs /\ c[o].conds \in ConditionSets
    BY <2>1, StepFrom, Zenon DEF Step
  <2>3. phase \in {"", "Bound"}
    BY Zenon DEF TypeOK, OperatorOK, Objects, State
  <2> HIDE DEF phase
  <2>4. mutated \in ConditionSets /\ "VolumeClaimError" \in Reasons
    <3>1. phase \in Messages
      BY <2>3, Zenon DEF Messages
    <3>2. "VolumeReady" \in Reasons /\ "VolumeClaimError" \in Reasons
      BY DEF Reasons
    <3>3. (IF phase = "Bound" THEN "True" ELSE "False") \in Statuses
      BY DEF Statuses
    <3>4. QED
      BY <2>2, <3>1, <3>2, <3>3, WithConditionType
  <2>5. ConduitVolumeClaim \in Data("Volume")
    BY DEF Data, ConduitVolumeClaim
  <2> HIDE DEF mutated
  <2>6. CreateOrUpdate(o, "Volume", ConduitVolumeClaim, mutated, "VolumeClaimError")
    BY <1>3, Zenon DEF CreateOrUpdateVolume, mutated, phase
  <2>7. QED
    BY <2>1, <2>2, <2>4, <2>5, <2>6, CreateOrUpdateType, StepType
<1>4. CASE CreateOrUpdateDeployment(o)
  <2>1. /\ Step(o, "deployment", "service")
        /\ "deployment" \in Steps /\ "service" \in Steps
    BY <1>4, Zenon DEF CreateOrUpdateDeployment, Steps
  <2>2. pc[o] # "idle" /\ c[o] \in Conduits /\ c[o].spec \in Specs /\ c[o].conds \in ConditionSets
    BY <2>1, StepFrom DEF Step
  <2>3. "DeploymentError" \in Reasons /\ "not supported" \in Messages
    BY DEF Reasons, Messages
  <2>4. CASE UNCHANGED <<objs, ver, c, left>>
    BY <2>1, <2>2, <2>4, StepType, Zenon DEF TypeOK, ObjectsOK
  <2>5. CASE /\ WithConditions(o, Failure(c[o].conds, "Deployment", "DeploymentError", "not supported"))
             /\ UNCHANGED <<objs, ver, left>>
    <3>1. Failure(c[o].conds, "Deployment", "DeploymentError", "not supported") \in ConditionSets
      BY <2>2, <2>3, FailureType, Zenon
    <3>2. /\ OnlyConditions(o)
          /\ c'[o] = [c[o] EXCEPT !.conds =
                         Failure(c[o].conds, "Deployment", "DeploymentError", "not supported")]
      BY <2>5, WithConditionsEffect
    <3>3. c'[o] \in Conduits
      BY <2>2, <3>1, <3>2, Zenon DEF Conduits
    <3>4. QED
      BY <2>1, <2>5, <3>2, <3>3, StepType, Zenon DEF TypeOK, ObjectsOK
  <2>6. CASE /\ ConfigKnown(o)
             /\ CreateOrUpdate(o, "Deployment", DeploymentSpec(o, c[o].spec),
                               DeploymentConditions(o, c[o].spec), "DeploymentError")
    BY <2>1, <2>2, <2>3, <2>6, DeploymentSpecType, DeploymentConditionsType,
       CreateOrUpdateType, StepType, Zenon
  <2>7. QED
    BY <1>4, <2>4, <2>5, <2>6, Zenon DEF CreateOrUpdateDeployment
<1>5. CASE CreateOrUpdateService(o)
  <2> DEFINE address == IF cachedObjs[o]["Service"] = None THEN ""
                          ELSE cachedObjs[o]["Service"].state.address
             mutated == WithCondition(c[o].conds, "Service", "True", "ServiceReady", address)
  <2>1. Step(o, "service", "status") /\ "service" \in Steps /\ "status" \in Steps
    BY <1>5, Zenon DEF CreateOrUpdateService, Steps
  <2>2. pc[o] # "idle" /\ c[o] \in Conduits /\ c[o].spec \in Specs /\ c[o].conds \in ConditionSets
    BY <2>1, StepFrom DEF Step
  <2>3. address \in {"", "clusterIP"}
    BY Zenon DEF TypeOK, OperatorOK, Objects, State
  <2> HIDE DEF address
  <2>4. mutated \in ConditionSets /\ "ServiceError" \in Reasons
    <3>1. address \in Messages
      BY <2>3, Zenon DEF Messages
    <3>2. "ServiceReady" \in Reasons /\ "ServiceError" \in Reasons /\ "True" \in Statuses
      BY DEF Reasons, Statuses
    <3>3. QED
      BY <2>2, <3>1, <3>2, WithConditionType
  <2>5. [ports |-> "http, grpc"] \in Data("Service")
    BY DEF Data
  <2> HIDE DEF mutated
  <2>6. CreateOrUpdate(o, "Service", [ports |-> "http, grpc"], mutated, "ServiceError")
    BY <1>5, Zenon DEF CreateOrUpdateService, mutated, address
  <2>7. QED
    BY <2>1, <2>2, <2>4, <2>5, <2>6, CreateOrUpdateType, StepType, Zenon
<1>6. QED
  BY <1>1, <1>2, <1>3, <1>4, <1>5

\* The end of a reconcile keeps the types.
LEMMA ReconcileEndType ==
  ASSUME TypeOK, NEW o \in Operators, DeploymentPanic(o) \/ UpdateStatus(o)
  PROVE  TypeOK' /\ OthersUnchanged(o)
<1>1. CASE DeploymentPanic(o)
  <2>1. OthersUnchanged(o) /\ OperatorOK(o)'
    BY <1>1 DEF DeploymentPanic, TypeOK, OperatorOK, OthersUnchanged, cacheVars
  <2>2. QED
    BY <1>1, <2>1, InstanceStepType DEF DeploymentPanic, TypeOK, ObjectsOK, apiVars
<1>2. CASE UpdateStatus(o)
  <2> DEFINE new == [conduit EXCEPT !.conds = StoredConditions(c[o].conds), !.obs = c[o].gen]
  <2>1. c[o] \in Conduits
    BY <1>2, StepFrom DEF UpdateStatus, Steps
  <2>2. StoredConditions(c[o].conds) \in ConditionSets
    BY <2>1 DEF Conduits, StoredConditions, ConditionSets, Condition, Stored
  <2>3. conduit # None => new \in Conduits
    BY <2>1, <2>2, Zenon DEF TypeOK, Conduits
  <2>4. (conduit # None /\ StoreConduit(new)) \/ UNCHANGED <<conduit, ver>>
    BY <1>2 DEF UpdateStatus, StatusAccepted
  <2> HIDE DEF new
  <2>5. conduit' \in Conduits \cup {None} /\ ver' \in [Kinds \cup {"Conduit"} -> Nat]
    BY <2>3, <2>4, StoreConduitType DEF TypeOK
  <2>6. left' \in [Budgets -> Nat]
    <3>1. Spend("fault") \/ UNCHANGED left
      BY <1>2 DEF UpdateStatus
    <3>2. QED
      BY <3>1, SpendType, Zenon DEF TypeOK, Budgets
  <2>7. OthersUnchanged(o) /\ OperatorOK(o)'
    BY <1>2 DEF UpdateStatus, Requeue, TypeOK, OperatorOK, OthersUnchanged, cacheVars
  <2>8. QED
    BY <1>2, <2>5, <2>6, <2>7, InstanceStepType DEF UpdateStatus, TypeOK, ObjectsOK
<1>3. QED
  BY <1>1, <1>2

\* What the cluster and the disturbances do to the objects keeps the types.
LEMMA ClusterObjectsType ==
  ASSUME TypeOK,
         \/ \E k \in Kinds : CollectGarbage(k) \/ Meddle(k)
         \/ BindVolume \/ ReportPods
  PROVE  TypeOK'
<1>1. ASSUME ObjectsOK(objs'), ver' \in [Kinds \cup {"Conduit"} -> Nat], left' \in [Budgets -> Nat],
             UNCHANGED <<conduit, cacheVars, envVars, opVars>>
      PROVE  TypeOK'
  BY <1>1, Zenon DEF TypeOK, OperatorOK, ObjectsOK, cacheVars, envVars, opVars
<1>2. left \in [Budgets -> Nat]
  BY Zenon DEF TypeOK
<1>3. ASSUME NEW k \in Kinds, CollectGarbage(k) PROVE TypeOK'
  BY <1>1, <1>2, <1>3, RemoveObjectType, Zenon DEF CollectGarbage
<1>4. ASSUME NEW k \in Kinds, Meddle(k) PROVE TypeOK'
  <2>1. objs[k] \in Objects(k)
    BY <1>4, Zenon DEF Meddle, TypeOK
  <2>2. ObjectsOK(objs') /\ ver' \in [Kinds \cup {"Conduit"} -> Nat]
    BY <1>4, <2>1, RemoveObjectType, TouchObjectType DEF Meddle
  <2>3. left' \in [Budgets -> Nat]
    BY <1>4, SpendType DEF Meddle, Budgets
  <2>4. QED
    BY <1>1, <1>4, <2>2, <2>3 DEF Meddle
<1>5. CASE BindVolume
  <2> DEFINE new == [objs["Volume"] EXCEPT !.state = [phase |-> "Bound"]]
  <2>1. "Volume" \in Kinds
    BY DEF Kinds
  <2>2. objs["Volume"] \in Objects("Volume")
    BY <1>5, <2>1 DEF BindVolume, TypeOK
  <2>3. [phase |-> "Bound"] \in State("Volume")
    BY DEF State
  <2>4. new \in Objects("Volume")
    BY <2>2, <2>3 DEF Objects
  <2>5. TouchObject("Volume", new)
    BY <1>5 DEF BindVolume
  <2> HIDE DEF new
  <2>6. QED
    BY <1>1, <1>2, <1>5, <2>1, <2>4, <2>5, TouchObjectType, Zenon DEF BindVolume
<1>6. CASE ReportPods
  <2> DEFINE new == [objs["Deployment"] EXCEPT !.state = PodCounts]
  <2>1. "Deployment" \in Kinds
    BY DEF Kinds
  <2>2. objs["Deployment"] \in Objects("Deployment")
    BY <1>6, <2>1 DEF ReportPods, TypeOK
  <2>3. PodCounts \in State("Deployment")
    BY DEF State, Counts, PodCounts, NoPods
  <2>4. new \in Objects("Deployment")
    BY <2>2, <2>3 DEF Objects
  <2>5. TouchObject("Deployment", new)
    BY <1>6 DEF ReportPods
  <2> HIDE DEF new
  <2>6. QED
    BY <1>1, <1>2, <1>6, <2>1, <2>4, <2>5, TouchObjectType DEF ReportPods
<1>7. QED
  BY <1>3, <1>4, <1>5, <1>6

\* What happens to the pod and to the environment keeps the types.
LEMMA ClusterPodType ==
  ASSUME TypeOK,
         \/ StopPod \/ StartPod \/ PodReady \/ PodFails \/ WebhookUp \/ WebhookDown
         \/ \E ref \in Refs, value \in ExtValues \cup {None} : ChangeExternal(ref, value)
  PROVE  TypeOK'
<1> USE DEF apiVars, cacheVars, opVars, OperatorOK
<1>1. CASE StopPod
  BY <1>1, Zenon DEF StopPod, TypeOK
<1>2. CASE StartPod
  <2>1. /\ objs["Deployment"] \in Objects("Deployment")
        /\ objs["ConfigMap"] \in Objects("ConfigMap")
        /\ objs["Secret"] \in Objects("Secret")
    BY <1>2, Zenon DEF StartPod, TypeOK, Kinds
  <2>2. objs["Deployment"].data.template \in Templates
    BY <2>1 DEF Objects, Data
  <2>3. objs["ConfigMap"].data \in Pipelines /\ objs["ConfigMap"].rv \in Nat
    BY <2>1 DEF Objects, Data
  <2>4. objs["Secret"].data \in Registries
    BY <2>1 DEF Objects, Data
  <2>5. pod' \in Pods
    BY <1>2, <2>2, <2>3, <2>4, Zenon DEF StartPod, Pods
  <2>6. QED
    BY <1>2, <2>5, Zenon DEF StartPod, TypeOK
<1>3. CASE PodReady
  <2>1. pod' \in Pods
    BY <1>3, Zenon DEF PodReady, TypeOK, Pods
  <2>2. QED
    BY <1>3, <2>1 DEF PodReady, TypeOK
<1>4. CASE PodFails
  <2>1. pod' \in Pods
    BY <1>4, Zenon DEF PodFails, TypeOK, Pods
  <2>2. left' \in [Budgets -> Nat]
    BY <1>4, SpendType DEF PodFails, Budgets
  <2>3. QED
    BY <1>4, <2>1, <2>2 DEF PodFails, TypeOK
<1>5. CASE WebhookUp
  BY <1>5, Zenon DEF WebhookUp, TypeOK
<1>6. CASE WebhookDown
  <2>1. left' \in [Budgets -> Nat]
    BY <1>6, SpendType DEF WebhookDown, Budgets
  <2>2. QED
    BY <1>6, <2>1, Zenon DEF WebhookDown, TypeOK
<1>7. ASSUME NEW ref \in Refs, NEW value \in ExtValues \cup {None}, ChangeExternal(ref, value)
      PROVE  TypeOK'
  <2>1. left' \in [Budgets -> Nat]
    BY <1>7, SpendType, Zenon DEF ChangeExternal, Budgets
  <2>2. ext' \in [Refs -> ExtValues \cup {None}]
    BY <1>7, Zenon DEF ChangeExternal, TypeOK
  <2>3. QED
    BY <1>7, <2>1, <2>2, Zenon DEF ChangeExternal, TypeOK
<1>8. QED
  BY <1>1, <1>2, <1>3, <1>4, <1>5, <1>6, <1>7

-------------------------------------------------------------------------------
\* A step of one instance leaves the variables of the others alone.
LEMMA OneInstance ==
  ASSUME TypeOK, NEW o \in Operators, Informers(o) \/ Restart(o) \/ Reconcile(o)
  PROVE  OthersUnchanged(o)
BY CacheType, ReconcileStartType, CreateOrUpdateStepsType, ReconcileEndType DEF Reconcile

\* Every step of the operator, of its users and of the cluster keeps the types.
LEMMA NextType == TypeOK /\ [Next]_vars => TypeOK'
<1> SUFFICES ASSUME TypeOK, [Next]_vars PROVE TypeOK'
  OBVIOUS
<1>1. CASE User
  BY <1>1, UserType
<1>2. ASSUME NEW o \in Operators, Informers(o) \/ Restart(o) PROVE TypeOK'
  BY <1>2, CacheType
<1>3. ASSUME NEW o \in Operators, Reconcile(o) PROVE TypeOK'
  BY <1>3, ReconcileStartType, CreateOrUpdateStepsType, ReconcileEndType DEF Reconcile
<1>4. CASE Cluster
  BY <1>4, ClusterObjectsType, ClusterPodType DEF Cluster
<1>5. CASE Disturbance
  BY <1>5, ClusterObjectsType, ClusterPodType DEF Disturbance
<1>6. CASE UNCHANGED vars
  BY <1>6, Zenon DEF TypeOK, OperatorOK, vars, apiVars, cacheVars, envVars, opVars
<1>7. QED
  BY <1>1, <1>2, <1>3, <1>4, <1>5, <1>6 DEF Next

\* Whatever users, faults, restarts and the cluster do, every variable keeps its
\* type, and a worker holds a Conduit exactly while a reconcile is under way.
THEOREM TypeCorrect == Spec => []TypeOK
BY InitType, NextType, PTL DEF Spec
===============================================================================
