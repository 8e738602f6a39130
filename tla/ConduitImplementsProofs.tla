------------------------ MODULE ConduitImplementsProofs ------------------------
(*****************************************************************************)
(* ConduitController implements ConduitLifecycle, for every value of the     *)
(* constants: an initial state maps to an initial state, and every step to a *)
(* step of the life of a Conduit or to a stutter.                            *)
(*****************************************************************************)
EXTENDS ConduitImplements, ConduitControllerProofs

\* No status is ahead of the spec.
GenerationInv == conduit # None => conduit.obs <= conduit.gen

\* What the life of a Conduit depends on stays as it is.
SameLife == UNCHANGED <<conduit, objs>> /\ left'["edit"] = left["edit"]

\* Nobody but a user uses up an edit.
LEMMA EditsKept ==
  ASSUME TypeOK, Cluster \/ Disturbance \/ \E o \in Operators : Informers(o) \/ Reconcile(o) \/ Restart(o)
  PROVE  left'["edit"] = left["edit"]
<1>1. ASSUME NEW b \in Budgets \ {"edit"}, Spend(b) PROVE left'["edit"] = left["edit"]
  BY <1>1 DEF Spend, TypeOK, Budgets
<1>2. /\ "fault" \in Budgets \ {"edit"} /\ "crash" \in Budgets \ {"edit"}
      /\ "churn" \in Budgets \ {"edit"}
  BY DEF Budgets
<1>3. ASSUME NEW o \in Operators, Informers(o) PROVE left'["edit"] = left["edit"]
  BY <1>3 DEF Informers, SyncConduit, SyncObject
<1>4. ASSUME NEW o \in Operators, ReconcileDeleted(o) \/ ReconcileAddFinalizer(o)
      PROVE left'["edit"] = left["edit"]
  BY <1>1, <1>2, <1>4, Zenon DEF ReconcileDeleted, ReconcileAddFinalizer, UpdateFinalizer
<1>5. ASSUME NEW o \in Operators, ObjectSteps(o) PROVE left'["edit"] = left["edit"]
  BY <1>5, StepEffect
<1>6. ASSUME NEW o \in Operators, ReconcileNotFound(o) \/ ReconcileBegin(o) \/ DeploymentPanic(o)
      PROVE left'["edit"] = left["edit"]
  BY <1>6 DEF ReconcileNotFound, ReconcileBegin, DeploymentPanic
<1>7. ASSUME NEW o \in Operators, UpdateStatus(o) PROVE left'["edit"] = left["edit"]
  BY <1>1, <1>2, <1>7 DEF UpdateStatus
<1>8. ASSUME NEW o \in Operators, Restart(o) PROVE left'["edit"] = left["edit"]
  BY <1>1, <1>2, <1>8 DEF Restart
<1>9. CASE Cluster
  BY <1>9, Zenon DEF Cluster, CollectGarbage, BindVolume, StopPod, StartPod, PodReady, ReportPods, WebhookUp
<1>10. CASE Disturbance
  BY <1>1, <1>2, <1>10 DEF Disturbance, Meddle, PodFails, ChangeExternal, WebhookDown
<1>11. QED
  BY <1>3, <1>4, <1>5, <1>6, <1>7, <1>8, <1>9, <1>10 DEF Reconcile, ObjectSteps

-------------------------------------------------------------------------------
\* Every step by what it does to the life of a Conduit

\* A step that leaves the Conduit, its objects and the edits alone stutters.
LEMMA SameLifeStutters == SameLife => UNCHANGED Life!vars
BY DEF SameLife, Life!vars, Stage, Owned

\* A step that gives no object a new owner at most loses some.
LEMMA LosesObjects ==
  ASSUME UNCHANGED conduit, left'["edit"] = left["edit"], SameOwners(objs', objs)
  PROVE  Life!Lose
<1>1. Owned' \subseteq Owned
  BY DEF Owned, SameOwners
<1>2. QED
  BY <1>1 DEF Life!Lose, Stage

\* A new Conduit owns nothing: its uid is used by no object.
LEMMA CreateAccepts ==
  ASSUME TypeOK, CoreInv, NEW s \in Specs, UserCreate(s)
  PROVE  Life!Accept(s)
<1> DEFINE v   == ver["Conduit"]
           new == [uid |-> v + 1, rv |-> 0, gen |-> 1, spec |-> s, fin |-> FALSE,
                   del |-> FALSE, obs |-> 0, conds |-> NoConditions]
<1>1. v \in Nat /\ new \in Conduits
  <2>1. v \in Nat
    BY DEF TypeOK
  <2>2. NoConditions \in ConditionSets
    BY DEF NoConditions, NoCondition, ConditionSets, Condition, Reasons, Messages
  <2>3. QED
    BY <2>1, <2>2 DEF Conduits
<1>2. StoreConduit(new) /\ conduit = None /\ UNCHANGED objs /\ Spend("edit")
  BY DEF UserCreate
<1>3. /\ new.uid = v + 1 /\ ~new.fin /\ ~new.del /\ new.spec = s /\ new.conds = NoConditions
      /\ new.gen = 1 /\ new.obs = 0
  OBVIOUS
<1> HIDE DEF new
<1>4. /\ conduit' \in Conduits /\ conduit'.uid = v + 1 /\ ~conduit'.fin /\ ~conduit'.del /\ conduit'.spec = s
      /\ conduit'.conds = NoConditions /\ conduit'.gen = 1 /\ conduit'.obs = 0
  BY <1>1, <1>2, <1>3, StoreConduitEffect, StoreConduitType
<1>5. conduit' # None
  BY <1>4, NoObjectAssumption, Zenon
<1>6. Stage = "absent" /\ Stage' = "accepted"
  BY <1>2, <1>4, <1>5 DEF Stage
<1>7. Owned = {} /\ Owned' = {}
  <2>1. \A k \in Kinds : objs[k] # None => objs[k].owner # v + 1
    BY <1>1 DEF CoreInv, VersionsInv, TypeOK, Objects
  <2>2. QED
    BY <1>2, <1>4, <2>1 DEF Owned
<1>8. left["edit"] > 0 /\ left'["edit"] = left["edit"] - 1
  BY <1>2, Zenon DEF Spend, TypeOK, Budgets
<1>9. conduit'.obs # conduit'.gen
  BY <1>4
<1>10. QED
  BY <1>2, <1>4, <1>5, <1>6, <1>7, <1>8, <1>9, Zenon DEF Life!Accept, Life!UserActs

\* An edit of the spec makes the status one of an earlier generation.
LEMMA EditEdits ==
  ASSUME TypeOK, GenerationInv, NEW s \in Specs, UserEdit(s)
  PROVE  Life!Edit(s)
<1> DEFINE new == [conduit EXCEPT !.spec = s, !.gen = @ + 1]
<1>1. /\ conduit # None /\ conduit \in Conduits /\ conduit.gen \in Nat /\ conduit.obs \in Nat
      /\ conduit.gen + 1 \in Nat
      /\ conduit.spec # s /\ UNCHANGED objs /\ Spend("edit")
  BY DEF UserEdit, TypeOK, Conduits
<1>2. /\ new \in Conduits /\ new.uid = conduit.uid /\ new.fin = conduit.fin /\ new.del = conduit.del
      /\ new.conds = conduit.conds /\ new.obs = conduit.obs /\ new.gen = conduit.gen + 1 /\ new.spec = s
  BY <1>1, Zenon DEF Conduits
<1>3. StoreConduit(new)
  BY DEF UserEdit
<1> HIDE DEF new
<1>4. /\ conduit' \in Conduits /\ conduit'.uid = conduit.uid /\ conduit'.fin = conduit.fin
      /\ conduit'.del = conduit.del /\ conduit'.conds = conduit.conds /\ conduit'.spec = s
      /\ conduit'.obs = conduit.obs /\ conduit'.gen = conduit.gen + 1
  BY <1>2, <1>3, StoreConduitEffect, StoreConduitType
<1>5. conduit' # None
  BY <1>4, NoObjectAssumption
<1>6. conduit'.obs # conduit'.gen
  BY <1>1, <1>4 DEF GenerationInv
<1>7. Stage' = Stage /\ Stage # "absent" /\ Owned' = Owned
  BY <1>1, <1>4, <1>5 DEF Stage, Owned
<1>8. left["edit"] > 0 /\ left'["edit"] = left["edit"] - 1
  BY <1>1, Zenon DEF Spend, TypeOK, Budgets
<1>9. QED
  BY <1>1, <1>4, <1>5, <1>6, <1>7, <1>8 DEF Life!Edit, Life!UserActs

\* A deletion withdraws a Conduit or makes it wait for the operator.
LEMMA DeleteEnds ==
  ASSUME TypeOK, GenerationInv, UserDelete
  PROVE  Life!Withdraw \/ Life!Terminate
<1> DEFINE new == [conduit EXCEPT !.del = TRUE, !.gen = @ + 1]
<1>1. /\ conduit # None /\ conduit \in Conduits /\ conduit.gen \in Nat /\ conduit.obs \in Nat
      /\ conduit.gen + 1 \in Nat
      /\ ~conduit.del /\ UNCHANGED objs /\ Spend("edit")
  BY DEF UserDelete, TypeOK, Conduits
<1>2. left["edit"] > 0 /\ left'["edit"] = left["edit"] - 1
  BY <1>1 DEF Spend, TypeOK, Budgets
<1>3. CASE conduit.fin
  <2>1. /\ new \in Conduits /\ new.uid = conduit.uid /\ new.fin = conduit.fin /\ new.del
        /\ new.conds = conduit.conds /\ new.obs = conduit.obs /\ new.gen = conduit.gen + 1
        /\ new.spec = conduit.spec
    BY <1>1, Zenon DEF Conduits
  <2>2. StoreConduit(new)
    BY <1>3 DEF UserDelete
  <2> HIDE DEF new
  <2>3. /\ conduit' \in Conduits /\ conduit'.uid = conduit.uid /\ conduit'.del
        /\ conduit'.conds = conduit.conds /\ conduit'.spec = conduit.spec
        /\ conduit'.obs = conduit.obs /\ conduit'.gen = conduit.gen + 1
    BY <2>1, <2>2, StoreConduitEffect, StoreConduitType
  <2>4. conduit' # None
    BY <2>3, NoObjectAssumption
  <2>5. conduit'.obs # conduit'.gen
    BY <1>1, <2>3 DEF GenerationInv
  <2>6. Stage = "guarded" /\ Stage' = "terminating" /\ Owned' = Owned
    BY <1>1, <1>3, <2>3, <2>4 DEF Stage, Owned
  <2>7. QED
    BY <1>1, <1>2, <2>3, <2>4, <2>5, <2>6 DEF Life!Terminate, Life!UserActs
<1>4. CASE ~conduit.fin
  <2>1. conduit' = None
    BY <1>4, RemoveConduitEffect DEF UserDelete
  <2>2. Stage = "accepted" /\ Stage' = "absent" /\ Owned' = {}
    BY <1>1, <1>4, <2>1 DEF Stage, Owned
  <2>3. QED
    BY <1>2, <2>1, <2>2 DEF Life!Withdraw, Life!Clear, Life!UserActs
<1>5. QED
  BY <1>3, <1>4

\* Adding the finalizer guards a Conduit, removing it releases the Conduit.
LEMMA FinalizerGuards ==
  ASSUME TypeOK, CoreInv, NEW o \in Operators, ReconcileDeleted(o) \/ ReconcileAddFinalizer(o)
  PROVE  Life!Guard \/ Life!Release \/ UNCHANGED Life!vars
<1>1. left'["edit"] = left["edit"] /\ UNCHANGED objs
  BY EditsKept, FinalizerEffect, Zenon DEF Reconcile
<1>2. CASE UNCHANGED conduit
  BY <1>1, <1>2, SameLifeStutters DEF SameLife
<1>3. CASE conduit # None /\ conduit.del /\ RemoveConduit
  <2>1. conduit' = None
    BY <1>3, RemoveConduitEffect
  <2>2. Stage = "terminating" /\ Stage' = "absent" /\ Owned' = {}
    BY <1>3, <2>1 DEF Stage, Owned
  <2>3. QED
    BY <1>1, <2>1, <2>2 DEF Life!Release, Life!Clear
<1>4. ASSUME conduit # None, ~conduit.del, ~conduit.fin,
             NEW new \in Conduits, StoreConduit(new), new.uid = conduit.uid, new.fin = TRUE,
             new.conds = conduit.conds, new.spec = conduit.spec, new.gen = conduit.gen,
             new.obs = conduit.obs, new.del = conduit.del
      PROVE  Life!Guard
  <2>1. /\ conduit' \in Conduits /\ conduit'.uid = conduit.uid /\ conduit'.fin /\ ~conduit'.del
        /\ conduit'.conds = conduit.conds /\ conduit'.spec = conduit.spec
        /\ conduit'.obs = conduit.obs /\ conduit'.gen = conduit.gen
    BY <1>4, StoreConduitEffect, StoreConduitType
  <2>2. conduit' # None
    BY <2>1, NoObjectAssumption
  <2>3. Stage = "accepted" /\ Stage' = "guarded" /\ Owned' = Owned
    BY <1>1, <1>4, <2>1, <2>2 DEF Stage, Owned
  <2>4. QED
    BY <1>1, <1>4, <2>1, <2>2, <2>3 DEF Life!Guard
<1>5. QED
  BY <1>2, <1>3, <1>4, FinalizerEffect, Zenon

\* A status that is stored is a report on a guarded Conduit.
LEMMA StatusReports ==
  ASSUME TypeOK, CoreInv, NEW o \in Operators, UpdateStatus(o)
  PROVE  Life!Report \/ UNCHANGED Life!vars
<1>1. left'["edit"] = left["edit"] /\ UNCHANGED objs
  BY EditsKept, UpdateStatusEffect DEF Reconcile
<1>2. CASE UNCHANGED conduit
  BY <1>1, <1>2, SameLifeStutters DEF SameLife
<1>3. ASSUME conduit # None, conduit.fin,
             NEW new \in Conduits, StoreConduit(new), new.uid = conduit.uid, new.fin = conduit.fin,
             new.spec = conduit.spec, new.gen = conduit.gen, new.obs = conduit.gen,
             new.del = conduit.del
      PROVE  Life!Report
  <2>1. /\ conduit' \in Conduits /\ conduit'.uid = conduit.uid /\ conduit'.fin = conduit.fin
        /\ conduit'.del = conduit.del /\ conduit'.spec = conduit.spec
        /\ conduit'.obs = conduit'.gen
    BY <1>3, StoreConduitEffect, StoreConduitType
  <2>2. conduit' # None /\ conduit'.conds \in ConditionSets
    BY <2>1, NoObjectAssumption DEF Conduits
  <2>3. Stage' = Stage /\ Stage \in {"guarded", "terminating"} /\ Owned' = Owned
    BY <1>1, <1>3, <2>1, <2>2 DEF Stage, Owned
  <2>4. QED
    BY <1>1, <1>3, <2>1, <2>2, <2>3 DEF Life!Report, Life!Guarded
<1>4. QED
  BY <1>2, <1>3, UpdateStatusEffect

\* A step of a reconcile adopts an object for the Conduit it is about, which is
\* guarded, or takes one for an earlier Conduit.
LEMMA StepAdopts ==
  ASSUME TypeOK, CoreInv, NEW o \in Operators, ObjectSteps(o)
  PROVE  Life!Adopt \/ Life!Lose \/ UNCHANGED Life!vars
<1>1. /\ pc[o] # "idle" /\ UNCHANGED conduit /\ left'["edit"] = left["edit"] /\ Stage' = Stage
      /\ \A k \in Kinds : objs'[k] # None => \/ objs[k] # None /\ objs'[k].owner = objs[k].owner
                                            \/ objs'[k].owner = c[o].uid
      /\ \A k \in Kinds : objs[k] # None => objs'[k] # None
  BY StepEffect DEF Stage
<1>2. CASE conduit = None
  BY <1>1, <1>2 DEF Life!vars, Stage, Owned
<1>3. CASE conduit # None /\ c[o].uid # conduit.uid
  <2>1. Owned' \subseteq Owned
    BY <1>1, <1>3 DEF Owned
  <2>2. QED
    BY <1>1, <2>1 DEF Life!Lose
<1>4. CASE conduit # None /\ c[o].uid = conduit.uid
  <2>1. conduit.fin /\ conduit \in Conduits
    BY <1>1, <1>4, Zenon DEF CoreInv, FinalizerInv, TypeOK
  <2>2. Stage \in {"guarded", "terminating"}
    BY <1>4, <2>1 DEF Stage, Conduits
  <2>3. Owned \subseteq Owned' /\ Owned' \subseteq Kinds
    <3>1. \A k \in Kinds : objs[k] # None /\ objs[k].owner = conduit.uid => objs'[k].owner = conduit.uid
      BY <1>1, <1>4
    <3>2. QED
      BY <1>1, <1>4, <3>1 DEF Owned
  <2>4. QED
    BY <1>1, <2>2, <2>3 DEF Life!Adopt, Life!Guarded
<1>5. QED
  BY <1>2, <1>3, <1>4

\* Every step is one of the life of a Conduit, or a stutter.
LEMMA NextLives ==
  ASSUME TypeOK, CoreInv, GenerationInv, [Next]_vars
  PROVE  [Life!Next]_(Life!vars)
<1>1. CASE User
  BY <1>1, CreateAccepts, EditEdits, DeleteEnds DEF User, Life!Next, Life!User
<1>2. ASSUME NEW o \in Operators, ReconcileDeleted(o) \/ ReconcileAddFinalizer(o)
      PROVE  [Life!Next]_(Life!vars)
  BY <1>2, FinalizerGuards DEF Life!Next
<1>3. ASSUME NEW o \in Operators, UpdateStatus(o) PROVE [Life!Next]_(Life!vars)
  BY <1>3, StatusReports DEF Life!Next
<1>4. ASSUME NEW o \in Operators, ObjectSteps(o) PROVE [Life!Next]_(Life!vars)
  BY <1>4, StepAdopts DEF Life!Next
<1>5. CASE Cluster \/ Disturbance \/ \E o \in Operators, k \in Kinds : SyncObject(o, k)
  BY <1>5, QuietEffect, EditsKept, LosesObjects DEF Informers, Life!Next
<1>6. CASE \E o \in Operators : \/ SyncConduit(o) \/ Restart(o) \/ ReconcileNotFound(o) \/ ReconcileBegin(o)
                                \/ DeploymentPanic(o)
  <2>1. UNCHANGED <<conduit, objs>>
    BY <1>6 DEF SyncConduit, Restart, ReconcileNotFound, ReconcileBegin, DeploymentPanic, apiVars
  <2>2. QED
    BY <1>6, <2>1, EditsKept, SameLifeStutters DEF Informers, Reconcile, SameLife
<1>7. CASE UNCHANGED vars
  BY <1>7, SameLifeStutters DEF vars, apiVars, SameLife
<1>8. QED
  BY <1>1, <1>2, <1>3, <1>4, <1>5, <1>6, <1>7 DEF Next, Informers, Reconcile, ObjectSteps

\* No step stores a status of a generation that is not there yet.
LEMMA NextGeneration == TypeOK /\ CoreInv /\ GenerationInv /\ [Next]_vars => GenerationInv'
<1> SUFFICES ASSUME TypeOK, CoreInv, GenerationInv, [Next]_vars PROVE GenerationInv'
  BY Zenon
<1>1. CASE UNCHANGED conduit
  BY <1>1 DEF GenerationInv
<1>2. CASE conduit' = None
  BY <1>2 DEF GenerationInv
<1>3. ASSUME NEW new \in Conduits, StoreConduit(new), new.obs <= new.gen PROVE GenerationInv'
  BY <1>3, StoreConduitEffect DEF GenerationInv
<1>4. ASSUME NEW s \in Specs, UserCreate(s) PROVE GenerationInv'
  <2>1. conduit'.obs = 0 /\ conduit'.gen = 1
    BY <1>4 DEF UserCreate, StoreConduit
  <2>2. QED
    BY <2>1 DEF GenerationInv
<1>5. ASSUME conduit # None PROVE conduit \in Conduits /\ conduit.gen \in Nat /\ conduit.gen + 1 \in Nat
                                  /\ conduit.obs \in Nat /\ conduit.obs <= conduit.gen + 1
  BY <1>5 DEF TypeOK, Conduits, GenerationInv
<1>6. ASSUME NEW s \in Specs, UserEdit(s) PROVE GenerationInv'
  <2> DEFINE new == [conduit EXCEPT !.spec = s, !.gen = @ + 1]
  <2>1. StoreConduit(new) /\ conduit # None
    BY <1>6 DEF UserEdit
  <2>2. new \in Conduits /\ new.obs <= new.gen
    BY <1>5, <2>1, Zenon DEF Conduits
  <2> HIDE DEF new
  <2>3. QED
    BY <1>3, <2>1, <2>2
<1>7. CASE UserDelete
  <2> DEFINE new == [conduit EXCEPT !.del = TRUE, !.gen = @ + 1]
  <2>1. (StoreConduit(new) \/ conduit' = None) /\ conduit # None
    BY <1>7 DEF UserDelete, RemoveConduit
  <2>2. new \in Conduits /\ new.obs <= new.gen
    BY <1>5, <2>1, Zenon DEF Conduits
  <2> HIDE DEF new
  <2>3. QED
    BY <1>2, <1>3, <2>1, <2>2
<1>8. ASSUME NEW o \in Operators, ReconcileDeleted(o) \/ ReconcileAddFinalizer(o)
      PROVE  GenerationInv'
  BY <1>1, <1>2, <1>3, <1>8, FinalizerEffect, Zenon DEF RemoveConduit, GenerationInv
<1>9. ASSUME NEW o \in Operators, UpdateStatus(o) PROVE GenerationInv'
  BY <1>1, <1>3, <1>5, <1>9, UpdateStatusEffect
<1>10. ASSUME NEW o \in Operators, ObjectSteps(o) PROVE GenerationInv'
  BY <1>1, <1>10, StepEffect, Zenon
<1>11. CASE Cluster \/ Disturbance \/ \E o \in Operators, k \in Kinds : SyncObject(o, k)
  BY <1>1, <1>11, QuietEffect
<1>12. CASE \/ \E o \in Operators : \/ SyncConduit(o) \/ Restart(o) \/ ReconcileNotFound(o) \/ ReconcileBegin(o)
                                    \/ DeploymentPanic(o)
            \/ UNCHANGED vars
  BY <1>1, <1>12, Zenon DEF SyncConduit, Restart, ReconcileNotFound, ReconcileBegin, DeploymentPanic,
     apiVars, vars
<1>13. QED
  BY <1>4, <1>6, <1>7, <1>8, <1>9, <1>10, <1>11, <1>12 DEF Next, User, Informers, Reconcile, ObjectSteps

\* ImplementsLifecycle: every behaviour of any number of operators, their caches and
\* the cluster is, seen from outside, one of the life of a Conduit.
THEOREM ImplementsLifecycleCorrect == Spec => ImplementsLifecycle
<1>1. Init => Life!Init
  <2>1. Init => left["edit"] \in Nat
    BY BoundsAssumption DEF Init, Budgets
  <2>2. QED
    BY <2>1 DEF Init, Life!Init, Stage, Owned
<1>2. Init => GenerationInv
  BY DEF Init, GenerationInv
<1>3. TypeOK /\ CoreInv /\ GenerationInv /\ [Next]_vars => [Life!Next]_(Life!vars)
  BY NextLives
<1>4. Spec => [](TypeOK /\ CoreInv /\ GenerationInv)
  BY <1>2, CoreCorrect, NextGeneration, PTL DEF Spec
<1>5. QED
  BY <1>1, <1>3, <1>4, PTL DEF Spec, ImplementsLifecycle, Life!Spec
===============================================================================
