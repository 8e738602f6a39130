----------------------------- MODULE Conditions -----------------------------
EXTENDS Naturals

(***************************************************************************)
(* The condition set of a Conduit resource (api/v1alpha/condition.go and   *)
(* the status part of conduit_types.go).                                   *)
(*                                                                         *)
(* The Go code keeps the conditions as a list with at most one entry per   *)
(* type.  Here that list is a function of the type, with NoCondition for a *)
(* type that has no entry; module ConditionList keeps the list itself and  *)
(* is shown to implement these operators.                                  *)
(*                                                                         *)
(* The field "at" stands for LastTransitionTime, a natural number supplied *)
(* by the caller of SetCondition (the Go code reads the clock): all that   *)
(* matters is whether an entry still carries the time it had before.       *)
(***************************************************************************)

Main == "Ready"

Deps == {"ConfigReady", "SecretReady", "VolumeBound", "DeploymentRunning",
         "ServiceReady"}

ConditionTypes == {Main} \cup Deps

Statuses == {"True", "False", "Unknown"}

\* The reasons and messages conditions are set with.  An error's message is what
\* kind of error it is.
Reasons ==
  {"", "ConditionFailed", "ConditionUnknown", "OK", "ConfigReady", "ConfigError",
   "SecretReady", "ConduitSecretError", "VolumeReady", "VolumeClaimError", "Running",
   "Stopped", "Degraded", "DeploymentError", "ServiceReady", "ServiceError"}

Messages ==
  {"", "Conditions failed", "Conditions unknown", "Pipeline configuration created",
   "Conduit secret created", "Bound", "0/0", "0/1", "1/0", "1/1", "clusterIP",
   "already exists", "not found", "conflict", "unavailable", "not supported"}

\* What GetCondition returns when the list has no entry of the type (nil).
NoCondition == [status |-> "Absent", reason |-> "", message |-> "", at |-> 0]

NoConditions == [t \in ConditionTypes |-> NoCondition]

IsTrue(cond) == cond.status = "True"

IsFalse(cond) == cond.status = "False"

IsUnknown(cond) == cond.status \in {"Unknown", "Absent"}

condEquals(cond, status, reason, message) ==
  /\ cond.status = status
  /\ cond.reason = reason
  /\ cond.message = message

\* An entry that already says the same keeps its LastTransitionTime.
setCondition(conds, ct, status, reason, message, now) ==
  IF condEquals(conds[ct], status, reason, message)
    THEN conds
    ELSE [conds EXCEPT ![ct] = [status |-> status, reason |-> reason,
                                message |-> message, at |-> now]]

hasFailedCond(conds) == \E d \in Deps : IsFalse(conds[d])

hasUnknownCond(conds) == \E d \in Deps : IsUnknown(conds[d])

\* The status of the main condition is a function of the dependent ones.
MainStatus(conds) ==
  CASE hasFailedCond(conds) -> "False"
    [] ~hasFailedCond(conds) /\ hasUnknownCond(conds) -> "Unknown"
    [] OTHER -> "True"

MainReason(status) ==
  CASE status = "False" -> "ConditionFailed"
    [] status = "Unknown" -> "ConditionUnknown"
    [] OTHER -> "OK"

MainMessage(status) ==
  CASE status = "False" -> "Conditions failed"
    [] status = "Unknown" -> "Conditions unknown"
    [] OTHER -> ""

\* Variant that sums up the conditions before the new one is among them.
SetConditionStale(conds, ct, status, reason, message, now) ==
  LET ready == MainStatus(conds)
  IN  setCondition(setCondition(conds, ct, status, reason, message, now),
                   Main, ready, MainReason(ready), MainMessage(ready), now)

\* Set one condition, then bring the main condition in line with the others.
SetCondition(conds, ct, status, reason, message, now) ==
  LET newConds == setCondition(conds, ct, status, reason, message, now)
  IN  CASE hasFailedCond(newConds) ->
             setCondition(newConds, Main, "False", "ConditionFailed", "Conditions failed", now)
        [] ~hasFailedCond(newConds) /\ hasUnknownCond(newConds) ->
             setCondition(newConds, Main, "Unknown", "ConditionUnknown", "Conditions unknown", now)
        [] OTHER ->
             setCondition(newConds, Main, "True", "OK", "", now)

-----------------------------------------------------------------------------
\* The values a condition, and a whole set of them, may take.
Condition ==
  [status : Statuses \cup {"Absent"}, reason : Reasons, message : Messages, at : Nat]

ConditionSets == [ConditionTypes -> Condition]

\* A condition set as SetCondition leaves it: nothing has been set yet, or the
\* main condition says what the dependent conditions amount to.
ReadyAgrees(conds) ==
  LET ready == MainStatus(conds)
  IN  conds = NoConditions \/ condEquals(conds[Main], ready, MainReason(ready), MainMessage(ready))
=============================================================================
