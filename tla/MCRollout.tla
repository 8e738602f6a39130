----------------------------- MODULE MCRollout -----------------------------
(***************************************************************************)
(* Rolling edits of a deployed Conduit out to the pod: with a cache that   *)
(* may be behind, a pod that may fail, an answer that may be lost, someone *)
(* else changing or deleting the operator's objects, and objects of others *)
(* that the Conduit refers to coming and going.                            *)
(***************************************************************************)
EXTENDS MCController

\* A Conduit that is stopped, one with another pipeline and values from objects of
\* others, and two with versions the operator cannot run, one of which refers to an
\* object that is not there: its Secret, once deleted, cannot be written again.
RolloutSpecs ==
  {Base,
   [Base EXCEPT !.running = FALSE],
   [Base EXCEPT !.builds = "b2", !.pipeline = "p2", !.refs = {"ConfigMap", "Secret"}, !.env = {"token"}],
   [Base EXCEPT !.version = "v0.14.0", !.refs = {"Secret"}],
   [Base EXCEPT !.version = "latest"]}

\* Two edits, one and a cache that is behind, one and a disturbance, or none and
\* something to repair.
RolloutCases == {Case(2, 0, 0, 0, 0), Case(1, 0, 0, 0, 1), Case(1, 0, 0, 1, 0), Case(0, 1, 0, 1, 1)}

RolloutBounds == BoundsOf(RolloutCases)

\* One of the two objects a spec refers to is there, the other is not: either may
\* change.
RolloutInit == Settled /\ StartWith(RolloutCases) /\ ext["ConfigMap"] # None /\ ext["Secret"] = None

Others ==
  \/ \E s \in Specs : UserEdit(s)
  \/ \E k \in Kinds : Meddle(k)
  \/ PodFails
  \/ \E ref \in Refs, value \in ExtValues \cup {None} : ChangeExternal(ref, value)

RolloutNext == Instances \/ Kubernetes \/ (Others /\ UNCHANGED <<lag, leader>>)

RolloutSpec == RolloutInit /\ [][RolloutNext]_mcVars /\ LateFairness
=============================================================================
