----------------------------- MODULE MCDeletion -----------------------------
(***************************************************************************)
(* A deployed Conduit is edited and deleted, at any moment of any          *)
(* reconcile, while the webhook fails, an answer is lost or another        *)
(* instance of the operator takes over.                                    *)
(***************************************************************************)
EXTENDS MCController

DeletionSpecs == {Base, [Base EXCEPT !.pipeline = "p2"]}

DeletionCases == {Case(2, 0, 0, 1, 0), Case(1, 0, 1, 0, 0), Case(1, 1, 0, 0, 1)}

DeletionBounds == BoundsOf(DeletionCases)

\* How many steps of the old instance may read what has changed since.
OldLag == 4

\* The Conduit is not created again.
Others ==
  \/ \E s \in Specs : UserEdit(s)
  \/ UserDelete
  \/ WebhookDown

DeletionNext ==
  \/ Instances
  \/ TakeOver(OldLag)
  \/ Kubernetes
  \/ Others /\ UNCHANGED <<lag, leader>>

DeletionInit == Settled /\ StartWith(DeletionCases)

DeletionSpec == DeletionInit /\ [][DeletionNext]_mcVars /\ LateFairness
=============================================================================
