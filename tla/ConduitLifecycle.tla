--------------------------- MODULE ConduitLifecycle ---------------------------
(*****************************************************************************)
(* What the operator promises about one Conduit name, without the reconcile  *)
(* loop, the cache and the API server it is kept with.  A Conduit is         *)
(* accepted, then guarded by the operator's finalizer, and only from then on *)
(* does it own objects and have a status; a guarded one that is deleted is   *)
(* released by the operator and by no one else.                              *)
(*****************************************************************************)
EXTENDS Naturals

CONSTANTS
  Specs,      \* what users may ask for
  NoSpec,     \* the spec of no Conduit
  Statuses,   \* what a status may say
  NoStatus,   \* the status of a Conduit that was never reported on
  Kinds       \* the kinds of objects a Conduit owns, at most one of each

VARIABLES
  stage,      \* absent, accepted, guarded or terminating
  spec,       \* what the user asks for
  status,     \* what the operator says about it
  observed,   \* the status is about the current generation
  owned,      \* the kinds of objects owned by the Conduit
  edits       \* how often users may still act

vars == <<stage, spec, status, observed, owned, edits>>

\* The operator's finalizer keeps the Conduit.
Guarded == stage \in {"guarded", "terminating"}

Clear ==
  /\ stage' = "absent"
  /\ spec' = NoSpec
  /\ status' = NoStatus
  /\ observed' = FALSE
  /\ owned' = {}

Init ==
  /\ stage = "absent"
  /\ spec = NoSpec
  /\ status = NoStatus
  /\ observed = FALSE
  /\ owned = {}
  /\ edits \in Nat

UserActs == edits > 0 /\ edits' = edits - 1

\* Nothing of an earlier Conduit of that name belongs to the new one.
Accept(s) ==
  /\ stage = "absent"
  /\ UserActs
  /\ stage' = "accepted"
  /\ spec' = s
  /\ UNCHANGED <<status, observed, owned>>

Edit(s) ==
  /\ stage # "absent"
  /\ s # spec
  /\ UserActs
  /\ spec' = s
  /\ observed' = FALSE
  /\ UNCHANGED <<stage, status, owned>>

\* A Conduit the operator has not taken charge of is gone at once.
Withdraw ==
  /\ stage = "accepted"
  /\ UserActs
  /\ Clear

Terminate ==
  /\ stage = "guarded"
  /\ UserActs
  /\ stage' = "terminating"
  /\ observed' = FALSE
  /\ UNCHANGED <<spec, status, owned>>

Guard ==
  /\ stage = "accepted"
  /\ stage' = "guarded"
  /\ UNCHANGED <<spec, status, observed, owned, edits>>

Adopt ==
  /\ Guarded
  /\ owned' \in SUBSET Kinds
  /\ owned \subseteq owned'
  /\ UNCHANGED <<stage, spec, status, observed, edits>>

Report ==
  /\ Guarded
  /\ status' \in Statuses
  /\ observed' = TRUE
  /\ UNCHANGED <<stage, spec, owned, edits>>

Release ==
  /\ stage = "terminating"
  /\ Clear
  /\ UNCHANGED edits

\* Objects are deleted by others, or claimed by a reconcile for an earlier
\* Conduit of that name that is still going on.
Lose ==
  /\ owned' \in SUBSET owned
  /\ UNCHANGED <<stage, spec, status, observed, edits>>

User == (\E s \in Specs : Accept(s) \/ Edit(s)) \/ Withdraw \/ Terminate

Next == User \/ Guard \/ Adopt \/ Report \/ Release \/ Lose

Spec == Init /\ [][Next]_vars
===============================================================================
