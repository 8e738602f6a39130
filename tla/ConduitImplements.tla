--------------------------- MODULE ConduitImplements ---------------------------
(*****************************************************************************)
(* How the state of ConduitController is one of ConduitLifecycle.  A Conduit *)
(* is guarded once it carries the finalizer and terminating once it is       *)
(* marked for deletion; an object belongs to it when its owner reference has *)
(* its uid, and to nobody when that is the uid of an earlier Conduit.        *)
(*****************************************************************************)
EXTENDS ConduitController

Stage ==
  CASE conduit = None -> "absent"
    [] conduit # None /\ conduit.del -> "terminating"
    [] conduit # None /\ ~conduit.del /\ conduit.fin -> "guarded"
    [] conduit # None /\ ~conduit.del /\ ~conduit.fin -> "accepted"

Owned == IF conduit = None THEN {} ELSE {k \in Kinds : objs[k] # None /\ objs[k].owner = conduit.uid}

Life ==
  INSTANCE ConduitLifecycle WITH
    NoSpec   <- None,
    Statuses <- ConditionSets,
    NoStatus <- NoConditions,
    stage    <- Stage,
    spec     <- IF conduit = None THEN None ELSE conduit.spec,
    status   <- IF conduit = None THEN NoConditions ELSE conduit.conds,
    observed <- IF conduit = None THEN FALSE ELSE conduit.obs = conduit.gen,
    owned    <- Owned,
    edits    <- left["edit"]

\* The reconcile loop keeps the promise: whatever the cache shows it and wherever
\* it is interrupted, every step of the system is one of the life of a Conduit or
\* does not concern it.  The operator guards before it adopts or reports, reports
\* on the current generation only, changes no spec, and releases a Conduit only
\* when a user has deleted it.
ImplementsLifecycle == Life!Spec
===============================================================================
