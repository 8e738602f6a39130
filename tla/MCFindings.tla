----------------------------- MODULE MCFindings -----------------------------
(***************************************************************************)
(* Statements the comments of conduit_controller.go make that the code     *)
(* does not keep.  Each is checked from a Conduit that is deployed.        *)
(***************************************************************************)
EXTENDS MCController

FindingSpecs ==
  {Base,
   [Base EXCEPT !.pipeline = "p2"],
   [Base EXCEPT !.registry = "r2"],
   [Base EXCEPT !.version = "latest"]}

OneEdit == {Case(1, 0, 0, 0, 0)}

OneEditBounds == BoundsOf(OneEdit)

FindingNext ==
  \/ Instances
  \/ Kubernetes
  \/ \E s \in Specs : UserEdit(s) /\ UNCHANGED <<lag, leader>>

FindingInit == Settled /\ StartWith(OneEdit)

FindingSpec == FindingInit /\ [][FindingNext]_mcVars /\ LateFairness

\* "Updates on the Conduit resource will result in changes to the deployment and
\* trigger a rolling upgrade": in the end the pod has the registry settings the
\* operator stored for it.
RegistryReachesPod == <>[](pod # None /\ objs["Secret"] # None => pod.registry = objs["Secret"].data)

\* CreateOrUpdateDeployment: "Status conditions are set depending on the outcome
\* of the operation".  A Conduit edited to a version that is not one does not
\* stay Ready.
UnparsableVersionShows ==
  <>[](conduit # None /\ conduit.spec.version \in Unparsable => ~IsTrue(conduit.conds[Main]))
=============================================================================
