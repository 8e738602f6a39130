---------------------------- MODULE MCController ----------------------------
(***************************************************************************)
(* What the runs of ConduitController share: specs, versions, a sound      *)
(* restriction of when the cache catches up, and bounds on how often a     *)
(* step reads a cache that has not caught up and on what two instances do  *)
(* at the same time.  One instance is in charge until another is started;  *)
(* the one before it may be gone, or be in the middle of a reconcile,      *)
(* which it carries on with the cache it had.                              *)
(***************************************************************************)
EXTENDS ConduitController

VARIABLES
  lag,      \* how many steps of an instance may still read what has changed since
  leader    \* the instance that was started last

mcVars == <<vars, lag, leader>>

Base == [running |-> TRUE, pipeline |-> "p1", builds |-> "b1", env |-> {},
         version |-> "v0.13.6", registry |-> "r1", refs |-> {}]

Versions == {"v0.13.6"}
NotVersions == {"latest"}

\* A state the specification reaches with no disturbance (in 31 steps from Init): Base
\* is deployed, its pod is ready, the status says so and the cache knows it.
SettledConditions ==
  [t \in ConditionTypes |->
     LET Holds(reason, message) ==
           [status |-> "True", reason |-> reason, message |-> message, at |-> Stored]
     IN  CASE t = "ConfigReady" -> Holds("ConfigReady", "Pipeline configuration created")
           [] t = "SecretReady" -> Holds("SecretReady", "Conduit secret created")
           [] t = "VolumeBound" -> Holds("VolumeReady", "Bound")
           [] t = "DeploymentRunning" -> Holds("Running", "1/1")
           [] t = "ServiceReady" -> Holds("ServiceReady", "clusterIP")
           [] OTHER -> Holds("OK", "")]

SettledTemplate ==
  [builds |-> Base.builds, version |-> Base.version, env |-> {"registry"}, configVersion |-> 1]

SettledPipeline == [status |-> "running", pipeline |-> Base.pipeline, values |-> ""]

SettledRegistry == [url |-> Base.registry, auth |-> ""]

SettledObject(k) ==
  CASE k = "ConfigMap" -> [rv |-> 1, owner |-> 1, data |-> SettledPipeline, state |-> InitialState(k)]
    [] k = "Secret" -> [rv |-> 1, owner |-> 1, data |-> SettledRegistry, state |-> InitialState(k)]
    [] k = "Volume" -> [rv |-> 2, owner |-> 1, data |-> ConduitVolumeClaim, state |-> [phase |-> "Bound"]]
    [] k = "Deployment" -> [rv |-> 2, owner |-> 1,
                            data |-> [replicas |-> 1, template |-> SettledTemplate],
                            state |-> [replicas |-> 1, ready |-> 1, unavailable |-> 0]]
    [] OTHER -> [rv |-> 1, owner |-> 1, data |-> [ports |-> "http, grpc"], state |-> InitialState(k)]

SettledConduit ==
  [uid |-> 1, rv |-> 4, gen |-> 1, spec |-> Base, fin |-> TRUE, del |-> FALSE, obs |-> 1,
   conds |-> SettledConditions]

Settled ==
  /\ conduit = SettledConduit
  /\ objs = [k \in Kinds |-> SettledObject(k)]
  /\ ver = [k \in Kinds \cup {"Conduit"} |-> IF k = "Conduit" THEN 4 ELSE SettledObject(k).rv]
  /\ cachedConduit = [o \in Operators |-> conduit]
  /\ cachedObjs = [o \in Operators |-> objs]
  /\ ext \in [Refs -> ExtValues \cup {None}]
  /\ webhook = TRUE
  /\ pod = [template |-> SettledTemplate, pipeline |-> SettledPipeline, configVersion |-> 1,
            registry |-> SettledRegistry, ready |-> TRUE]
  /\ queued = [o \in Operators |-> TRUE]
  /\ pc = [o \in Operators |-> "idle"]
  /\ c = [o \in Operators |-> None]

\* Bounds on the environment, with one on the lag of every instance.
Case(edit, fault, crash, churn, behind) ==
  [left |-> [edit |-> edit, fault |-> fault, crash |-> crash, churn |-> churn],
   lag  |-> [o \in Operators |-> behind]]

BoundsOf(cases) == {case.left : case \in cases}

StartWith(cases) ==
  /\ \E case \in cases : left = case.left /\ lag = case.lag
  /\ leader = "first"

\* The steps that read objects of kind k.
ReadAt(k) ==
  CASE k = "ConfigMap" -> {"config", "deployment"}
    [] k = "Secret" -> {"secret", "deployment"}
    [] k = "Volume" -> {"volume"}
    [] k = "Deployment" -> {"deployment"}
    [] OTHER -> {"service"}

\* The step the worker is at reads an object that has changed.
Behind(o) == \E k \in Kinds : pc[o] \in ReadAt(k) /\ cachedObjs[o][k] # objs[k]

Worker(o) ==
  /\ Reconcile(o)
  /\ IF Behind(o)
       THEN lag[o] > 0 /\ lag' = [lag EXCEPT ![o] = @ - 1]
       ELSE UNCHANGED lag
  /\ UNCHANGED leader

\* Only the steps of ReadAt look at the cached object, so an object may as well
\* reach the cache just before one of them.
LateSync(o) == \E k \in Kinds : pc[o] \in ReadAt(k) /\ SyncObject(o, k)

LateInformers(o) == (SyncConduit(o) \/ LateSync(o)) /\ UNCHANGED <<lag, leader>>

\* The rest of the reconcile of an instance that is not in charge any more; it does
\* not start another.
OldWorker == \E o \in Operators \ {leader} : pc[o] # "idle" /\ Worker(o)

Instances == LateInformers(leader) \/ Worker(leader) \/ OldWorker

\* An instance is started, and the steps of the one before it may be this far behind.
TakeOver(behind) ==
  \E o \in Operators :
    /\ Restart(o)
    /\ leader' = o
    /\ lag' = IF o = leader THEN lag ELSE [lag EXCEPT ![leader] = behind]

Kubernetes == Cluster /\ UNCHANGED <<lag, leader>>

\* The instance in charge keeps going; another one need not.
LateFairness ==
  /\ WF_mcVars(Worker(leader))
  /\ WF_mcVars(LateInformers(leader))
  /\ WF_mcVars(Kubernetes)
=============================================================================
