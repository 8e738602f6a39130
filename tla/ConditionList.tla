---------------------------- MODULE ConditionList ----------------------------
(***************************************************************************)
(* The condition list of a Conduit's status as api/v1alpha/condition.go    *)
(* keeps it: a slice with one entry per type that has been set, sorted by  *)
(* type, under any sequence of SetCondition calls.  Module Conditions      *)
(* treats the same list as a function of the type; Entries is the mapping  *)
(* between the two.                                                        *)
(***************************************************************************)
EXTENDS Lists

C == INSTANCE Conditions

CONSTANTS
  Types,     \* the condition types that get set
  Causes,   \* the reasons they are set with
  MaxCalls   \* bound on the number of calls

\* The controller sets the dependent conditions; Ready only follows from them.  The
\* webhook's Default does set all six to Unknown where they are missing, but on an object
\* whose status the API server drops: it is a subresource.
ASSUME TypesAssumption == Types \subseteq C!Deps

VARIABLES
  conds,  \* ConduitStatus.Conditions
  now     \* the clock

vars == <<conds, now>>

\* The order of the type names as strings.
ByName == <<"ConfigReady", "DeploymentRunning", "Ready", "SecretReady", "ServiceReady", "VolumeBound">>

Rank == [t \in C!ConditionTypes |-> CHOOSE i \in DOMAIN ByName : ByName[i] = t]

\* sort.Sort, by the names of the types.
SortByType(list) ==
  LET order == StableOrder([i \in DOMAIN list |-> Rank[list[i].type]])
  IN  [k \in DOMAIN list |-> list[order[k]]]

GetCondition(list, t) ==
  IF \E i \in DOMAIN list : list[i].type = t
    THEN list[CHOOSE i \in DOMAIN list : list[i].type = t /\ \A j \in 1 .. i - 1 : list[j].type # t]
    ELSE C!NoCondition

NewCondition(ct, status, reason, message, at) ==
  [type |-> ct, status |-> status, reason |-> reason, message |-> message, at |-> at]

\* Variants of setCondition: without the sort, and with a new time on every call.
setConditionUnsorted(list, ct, status, reason, message, at) ==
  LET updated == NewCondition(ct, status, reason, message, at)
  IN  IF \E i \in DOMAIN list : list[i].type = ct
        THEN [i \in DOMAIN list |-> IF list[i].type = ct THEN updated ELSE list[i]]
        ELSE Append(list, updated)

setConditionAlways(list, ct, status, reason, message, at) ==
  SortByType(setConditionUnsorted(list, ct, status, reason, message, at))

\* Replace the entry that says something else, or append the missing one; sort.
setCondition(list, ct, status, reason, message, at) ==
  LET updated == NewCondition(ct, status, reason, message, at)
      newConds ==
        IF \E i \in DOMAIN list : list[i].type = ct
          THEN [i \in DOMAIN list |->
                  IF list[i].type = ct /\ ~C!condEquals(list[i], status, reason, message)
                    THEN updated
                    ELSE list[i]]
          ELSE Append(list, updated)
  IN  SortByType(newConds)

\* Variant that does not count a dependent condition without an entry.
HasUnknownListed(list) ==
  \E dep \in C!Deps, i \in DOMAIN list : list[i].type = dep /\ list[i].status = "Unknown"

HasFailed(list) ==
  \E dep \in C!Deps, i \in DOMAIN list : list[i].type = dep /\ C!IsFalse(list[i])

HasUnknown(list) ==
  \E dep \in C!Deps :
    \/ \E i \in DOMAIN list : list[i].type = dep /\ ~C!IsFalse(list[i]) /\ C!IsUnknown(list[i])
    \/ \A i \in DOMAIN list : list[i].type # dep

SetCondition(list, ct, status, reason, message, at) ==
  LET newConds == setCondition(list, ct, status, reason, message, at)
  IN  CASE HasFailed(newConds) ->
             setCondition(newConds, C!Main, "False", "ConditionFailed", "Conditions failed", at)
        [] ~HasFailed(newConds) /\ HasUnknown(newConds) ->
             setCondition(newConds, C!Main, "Unknown", "ConditionUnknown", "Conditions unknown", at)
        [] OTHER ->
             setCondition(newConds, C!Main, "True", "OK", "", at)

-----------------------------------------------------------------------------
Init ==
  /\ conds = <<>>
  /\ now = 1

\* A SetCondition call at its own moment.
Call(ct, status, reason) ==
  /\ now <= MaxCalls
  /\ conds' = SetCondition(conds, ct, status, reason, "", now)
  /\ now' = now + 1

Next == \E ct \in Types, status \in C!Statuses, reason \in Causes : Call(ct, status, reason)

Spec == Init /\ [][Next]_vars

-----------------------------------------------------------------------------
\* The list is sorted and has one entry per type, so two lists that say the same
\* are equal; UpdateStatus compares them entry by entry.
Canonical ==
  \A i, j \in DOMAIN conds : i < j => Rank[conds[i].type] < Rank[conds[j].type]

\* The list as module Conditions sees it.
Entry(t) ==
  LET cond == GetCondition(conds, t)
  IN  [status |-> cond.status, reason |-> cond.reason, message |-> cond.message, at |-> cond.at]

Entries ==
  [Ready             |-> Entry("Ready"),
   ConfigReady       |-> Entry("ConfigReady"),
   SecretReady       |-> Entry("SecretReady"),
   VolumeBound       |-> Entry("VolumeBound"),
   DeploymentRunning |-> Entry("DeploymentRunning"),
   ServiceReady      |-> Entry("ServiceReady")]

\* Every call does to the list what SetCondition of module Conditions, which the
\* controller's specification uses, does to the function.
ImplementsConditions ==
  [][\E before \in {Entries}, after \in {Entries'} :
       \E ct \in Types, status \in C!Statuses, reason \in Causes :
         after = C!SetCondition(before, ct, status, reason, "", now)]_vars

\* A LastTransitionTime moves exactly when its entry says something else: only
\* then does a reconcile that finds nothing new leave the status as it was.
TimeOfTransition ==
  [][\A t \in C!ConditionTypes :
       \E before \in {GetCondition(conds, t)}, after \in {GetCondition(conds', t)} :
         after.at # before.at <=> ~C!condEquals(before, after.status, after.reason, after.message)]_vars
=============================================================================
