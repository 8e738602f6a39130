---------------------------- MODULE MCLifecycle ----------------------------
(***************************************************************************)
(* Creating, editing, deleting and re-creating a Conduit, with API faults, *)
(* restarts of the operator, a second instance and an unavailable webhook. *)
(* No pod is ever scheduled.                                               *)
(***************************************************************************)
EXTENDS MCController, ConduitImplements

\* The second cannot be deployed: what it refers to does not exist, and there
\* are no arguments for its version.
LifecycleSpecs == {Base, [Base EXCEPT !.version = "v0.14.0", !.refs = {"ConfigMap"}]}

\* A life with an edit and a successor; a successor and a step that reads an object
\* that is not up to date; a successor, a lost answer and a webhook that is down; and
\* a life during which another instance takes over.
LifecycleCases == {Case(4, 0, 0, 0, 0), Case(3, 0, 0, 0, 1), Case(3, 1, 0, 1, 0), Case(2, 0, 1, 0, 0)}

LifecycleBounds == BoundsOf(LifecycleCases)

\* How many steps of an old instance may read what has changed since.
OldLag == 1

Others ==
  \/ UserCreate(Base)
  \/ \E s \in Specs : UserEdit(s)
  \/ UserDelete
  \/ \E k \in Kinds : CollectGarbage(k)
  \/ WebhookDown
  \/ WebhookUp

LifecycleNext == Instances \/ TakeOver(OldLag) \/ (Others /\ UNCHANGED <<lag, leader>>)

LifecycleInit == Init /\ StartWith(LifecycleCases)

LifecycleSpec == LifecycleInit /\ [][LifecycleNext]_mcVars
=============================================================================
