------------------------------- MODULE Versions -------------------------------
(*****************************************************************************)
(* Versions of Conduit, the constraints on them (pkg/conduit/version.go and  *)
(* the webhook's minimum) and the arguments a version of the server gets.    *)
(* A version that parses is a record; pre says whether it is a pre-release.  *)
(* The operators of the semver library are modelled as far as the            *)
(* constraints in the code use them.                                         *)
(*****************************************************************************)
EXTENDS Naturals

Version == [major : Nat, minor : Nat, patch : Nat, pre : BOOLEAN]

\* v is x.y.z or later; pre-releases never get this far.
AtLeast(v, x, y, z) ==
  \/ v.major > x
  \/ v.major = x /\ v.minor > y
  \/ v.major = x /\ v.minor = y /\ v.patch >= z

\* No constraint in the code names a pre-release, and such constraints refuse
\* every pre-release.
Check(v, holds) == ~v.pre /\ holds

\* ~x.y.x: any patch of x.y.
Tilde(v, x, y) == v.major = x /\ v.minor = y

\* ^0.y.z: from 0.y.z up to the next minor version.
Caret(v, y, z) == AtLeast(v, 0, y, z) /\ v.major = 0 /\ v.minor = y

\* The keys of the constraints ForVersion goes through.
Rules == {"v011", "v012", "v013.4", "v013.5+"}

\* Variant with both constraints on 0.13 including the version between them.
AppliesToFive(rule, v) ==
  CASE rule = "v011" -> Check(v, Tilde(v, 0, 11))
    [] rule = "v012" -> Check(v, Tilde(v, 0, 12))
    [] rule = "v013.4" -> Check(v, AtLeast(v, 0, 13, 0) /\ ~AtLeast(v, 0, 13, 6))
    [] rule = "v013.5+" -> Check(v, Caret(v, 13, 5))

Applies(rule, v) ==
  CASE rule = "v011" -> Check(v, Tilde(v, 0, 11))
    [] rule = "v012" -> Check(v, Tilde(v, 0, 12))
    [] rule = "v013.4" -> Check(v, AtLeast(v, 0, 13, 0) /\ ~AtLeast(v, 0, 13, 5))
    [] rule = "v013.5+" -> Check(v, Caret(v, 13, 5))

-------------------------------------------------------------------------------
\* The arguments, by what they differ in: the command that comes first,
\* how many dashes the flags have, what makes the server exit, whether it is given
\* the pipeline file or its directory, and how often it is told to retry a pipeline
\* that failed ("" when it is told nothing).  The paths, the database and the log
\* format are the same for all.

v011      == [command |-> "", dashes |-> 1, exit |-> "exit-on-error", path |-> "file", retries |-> ""]
v012      == [command |-> "", dashes |-> 2, exit |-> "exit-on-degraded", path |-> "file", retries |-> "0"]
v013upto4 == [command |-> "run", dashes |-> 2, exit |-> "exit-on-degraded", path |-> "file", retries |-> "0"]
v0134plus == [command |-> "run", dashes |-> 2, exit |-> "exit-on-degraded", path |-> "directory", retries |-> "0"]

Arguments(rule) ==
  CASE rule = "v011" -> v011
    [] rule = "v012" -> v012
    [] rule = "v013.4" -> v013upto4
    [] rule = "v013.5+" -> v0134plus

\* What ForVersion may return: the constraints are in a map, so it is the
\* arguments of any one that applies; none is an error.
ForVersion(v) == {Arguments(rule) : rule \in {r \in Rules : Applies(r, v)}}

\* The webhook's constraint on the version of a new Conduit.
validateConduitVersion(v) == Check(v, AtLeast(v, 0, 11, 0))

-------------------------------------------------------------------------------
\* What a server of version v takes, told by when each thing changed.
Wanted(v) ==
  [command |-> IF AtLeast(v, 0, 13, 0) THEN "run" ELSE "",
   dashes  |-> IF AtLeast(v, 0, 12, 0) THEN 2 ELSE 1,
   exit    |-> IF AtLeast(v, 0, 12, 0) THEN "exit-on-degraded" ELSE "exit-on-error",
   path    |-> IF AtLeast(v, 0, 13, 5) THEN "directory" ELSE "file",
   retries |-> IF AtLeast(v, 0, 12, 0) THEN "0" ELSE ""]

Known(v) == ~v.pre /\ AtLeast(v, 0, 11, 0) /\ ~AtLeast(v, 0, 14, 0)
===============================================================================
