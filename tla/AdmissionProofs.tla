--------------------------- MODULE AdmissionProofs ---------------------------
(***************************************************************************)
(* What holds of the admission of Conduits for every list of connectors,   *)
(* every set of releases and every input.  The invariant says what a       *)
(* stored spec is: the result of Default, with a version that parses or    *)
(* was never asked about, and past all checks that do not depend on        *)
(* anything outside of it.                                                 *)
(***************************************************************************)
EXTENDS Admission, SequenceTheorems, TLAPS

-------------------------------------------------------------------------------
\* ForVersion for every version there is: the order in which the map of constraints is
\* gone through does not matter, and nothing between the first and the last is left out.

\* What each constraint says of the parts of a version.
LEMMA RuleMeans ==
  ASSUME NEW v \in Version
  PROVE  /\ Applies("v011", v) <=> ~v.pre /\ v.major = 0 /\ v.minor = 11
         /\ Applies("v012", v) <=> ~v.pre /\ v.major = 0 /\ v.minor = 12
         /\ Applies("v013.4", v) <=> ~v.pre /\ v.major = 0 /\ v.minor = 13 /\ v.patch < 5
         /\ Applies("v013.5+", v) <=> ~v.pre /\ v.major = 0 /\ v.minor = 13 /\ v.patch >= 5
<1>1. v.major \in Nat /\ v.minor \in Nat /\ v.patch \in Nat
  BY DEF Version
<1>2. /\ Applies("v011", v) = Check(v, Tilde(v, 0, 11))
      /\ Applies("v012", v) = Check(v, Tilde(v, 0, 12))
      /\ Applies("v013.4", v) = Check(v, AtLeast(v, 0, 13, 0) /\ ~AtLeast(v, 0, 13, 5))
      /\ Applies("v013.5+", v) = Check(v, Caret(v, 13, 5))
  BY DEF Applies
<1>3. /\ Check(v, Tilde(v, 0, 11)) <=> ~v.pre /\ v.major = 0 /\ v.minor = 11
      /\ Check(v, Tilde(v, 0, 12)) <=> ~v.pre /\ v.major = 0 /\ v.minor = 12
  BY DEF Check, Tilde
<1>4. AtLeast(v, 0, 13, 0) /\ ~AtLeast(v, 0, 13, 5) <=> v.major = 0 /\ v.minor = 13 /\ v.patch < 5
  BY <1>1 DEF AtLeast
<1>5. Caret(v, 13, 5) <=> v.major = 0 /\ v.minor = 13 /\ v.patch >= 5
  BY <1>1 DEF Caret, AtLeast
<1>6. QED
  BY <1>2, <1>3, <1>4, <1>5 DEF Check

\* One of them applies to every version from 0.11.0 up to 0.14.0.
LEMMA SomeRule ==
  ASSUME NEW v \in Version, Known(v)
  PROVE  \E r \in Rules : Applies(r, v)
<1>1. ~v.pre /\ v.major = 0 /\ v.minor \in {11, 12, 13} /\ v.patch \in Nat
  BY DEF Version, Known, AtLeast
<1>2. v.patch < 5 \/ v.patch >= 5
  BY <1>1
<1>3. QED
  BY <1>1, <1>2, RuleMeans DEF Rules

\* A constraint applies to known versions only, and its arguments are those such
\* a version takes.
LEMMA RuleFits ==
  ASSUME NEW v \in Version, NEW r \in Rules, Applies(r, v)
  PROVE  Known(v) /\ Arguments(r) = Wanted(v)
<1>1. v.major \in Nat /\ v.minor \in Nat /\ v.patch \in Nat
  BY DEF Version
<1>2. ASSUME ~v.pre, v.major = 0
      PROVE  /\ v.minor = 11 => Known(v) /\ Wanted(v) = v011
             /\ v.minor = 12 => Known(v) /\ Wanted(v) = v012
             /\ v.minor = 13 /\ v.patch < 5 => Known(v) /\ Wanted(v) = v013upto4
             /\ v.minor = 13 /\ v.patch >= 5 => Known(v) /\ Wanted(v) = v0134plus
  <2>1. v.minor \in {11, 12, 13} => Known(v)
    BY <1>1, <1>2 DEF AtLeast, Known
  <2>2. ASSUME v.minor = 11 PROVE Wanted(v) = v011
    <3>1. ~AtLeast(v, 0, 12, 0) /\ ~AtLeast(v, 0, 13, 0) /\ ~AtLeast(v, 0, 13, 5)
      BY <1>1, <1>2, <2>2 DEF AtLeast
    <3>2. QED
      BY <3>1 DEF Wanted, v011
  <2>3. ASSUME v.minor = 12 PROVE Wanted(v) = v012
    <3>1. AtLeast(v, 0, 12, 0) /\ ~AtLeast(v, 0, 13, 0) /\ ~AtLeast(v, 0, 13, 5)
      BY <1>1, <1>2, <2>3 DEF AtLeast
    <3>2. QED
      BY <3>1 DEF Wanted, v012
  <2>4. ASSUME v.minor = 13, v.patch < 5 PROVE Wanted(v) = v013upto4
    <3>1. AtLeast(v, 0, 12, 0) /\ AtLeast(v, 0, 13, 0) /\ ~AtLeast(v, 0, 13, 5)
      BY <1>1, <1>2, <2>4 DEF AtLeast
    <3>2. QED
      BY <3>1 DEF Wanted, v013upto4
  <2>5. ASSUME v.minor = 13, v.patch >= 5 PROVE Wanted(v) = v0134plus
    <3>1. AtLeast(v, 0, 12, 0) /\ AtLeast(v, 0, 13, 0) /\ AtLeast(v, 0, 13, 5)
      BY <1>1, <1>2, <2>5 DEF AtLeast
    <3>2. QED
      BY <3>1 DEF Wanted, v0134plus
  <2>6. QED
    BY <2>1, <2>2, <2>3, <2>4, <2>5
<1>3. /\ Arguments("v011") = v011 /\ Arguments("v012") = v012
      /\ Arguments("v013.4") = v013upto4 /\ Arguments("v013.5+") = v0134plus
  BY DEF Arguments
<1>4. QED
  BY <1>2, <1>3, RuleMeans DEF Rules

\* ForVersion has exactly one answer for a known version, the arguments it takes,
\* and an error for any other.
THEOREM ForVersionCorrect ==
  \A v \in Version : ForVersion(v) = IF Known(v) THEN {Wanted(v)} ELSE {}
BY SomeRule, RuleFits DEF ForVersion

\* Of the versions the webhook admits for a new Conduit, exactly those from 0.14.0 on
\* have no arguments.
THEOREM AdmittedVersions ==
  \A v \in Version : validateConduitVersion(v) => (ForVersion(v) = {} <=> AtLeast(v, 0, 14, 0))
BY ForVersionCorrect DEF validateConduitVersion, Check, Known

-------------------------------------------------------------------------------
\* What a stored spec is.

\* The checks of a processor and of a connector that need nothing but the spec.
StaticProcessors(pp) == \A i \in DOMAIN pp : pp[i].plugin # ""

Static(s) ==
  /\ s.registry # ""
  /\ StaticProcessors(s.processors)
  /\ \A i \in DOMAIN s.connectors :
       /\ ValidatePlugin(s.connectors[i].plugin)
       /\ ValidatePluginType(s.connectors[i].type)
       /\ StaticProcessors(s.connectors[i].processors)

Stored(s) ==
  /\ \E x : s = Default(x)
  /\ s.version \in Version \cup {Unparsable}
  /\ Static(s)

AdmissionInv == conduit # None => Stored(conduit.spec)

\* Defaulting the processors a second time changes nothing.
LEMMA ProcessorsDefaultedOnce ==
  ASSUME NEW pp
  PROVE  proccessorDefaulter(proccessorDefaulter(pp)) = proccessorDefaulter(pp)
  BY DEF proccessorDefaulter, DefaultWorkers

\* Defaulting a plugin a second time changes nothing, and neither does the name it
\* gives depend on whether it was defaulted.
LEMMA PluginDefaultedOnce ==
  ASSUME NEW p
  PROVE  /\ DefaultPlugin(DefaultPlugin(p)) = DefaultPlugin(p)
         /\ PluginName(DefaultPlugin(p)) = PluginName(p)
         /\ TakenAsBuiltin(DefaultPlugin(p)) <=> TakenAsBuiltin(p)
         /\ ~TakenAsBuiltin(p) => DefaultPlugin(p) = p
  BY Zenon DEF DefaultPlugin, PluginName, TakenAsBuiltin, IsBuiltinName, ToLower

\* Defaulting a connector a second time changes nothing.
LEMMA ConnectorDefaultedOnce ==
  ASSUME NEW c
  PROVE  DefaultConnector(DefaultConnector(c)) = DefaultConnector(c)
<1> DEFINE d == DefaultConnector(c)
<1>1. DefaultPlugin(d.plugin) = d.plugin /\ PluginName(d.plugin) = d.pluginName
  BY PluginDefaultedOnce DEF DefaultConnector
<1>2. DefaultPluginVersion(d) = d.pluginVersion
  BY Zenon DEF DefaultConnector, DefaultPluginVersion
<1>3. DefaultPluginPkg(d) = d.pluginPkg
  <2>1. d.plugin = DefaultPlugin(c.plugin) /\ d.pluginVersion = DefaultPluginVersion(c)
          /\ d.pluginPkg = DefaultPluginPkg(c)
    BY DEF DefaultConnector
  <2>2. TakenAsBuiltin(d.plugin) <=> TakenAsBuiltin(c.plugin)
    BY <2>1, PluginDefaultedOnce
  <2>3. CASE TakenAsBuiltin(c.plugin)
    BY <2>1, <2>2, <2>3 DEF DefaultPluginPkg
  <2>4. CASE ~TakenAsBuiltin(c.plugin)
    <3>1. d.plugin = c.plugin
      BY <2>1, <2>4, PluginDefaultedOnce
    <3> QED BY <1>2, <2>1, <2>2, <2>4, <3>1 DEF DefaultPluginPkg
  <2> QED BY <2>3, <2>4
<1>4. proccessorDefaulter(d.processors) = d.processors
  BY ProcessorsDefaultedOnce DEF DefaultConnector
<1>5. /\ (IF d.id = "" THEN d.name ELSE d.id) = d.id
      /\ d = [id |-> d.id, name |-> d.name, type |-> d.type, plugin |-> d.plugin,
              pluginVersion |-> d.pluginVersion, pluginName |-> d.pluginName,
              pluginPkg |-> d.pluginPkg, settings |-> d.settings, processors |-> d.processors]
  BY Zenon DEF DefaultConnector
<1> HIDE DEF d
<1>6. DefaultConnector(d) = d
  BY <1>1, <1>2, <1>3, <1>4, <1>5, Zenon DEF DefaultConnector
<1> QED BY <1>6 DEF d

\* A spec that was defaulted is not changed by being defaulted again.
LEMMA DefaultedOnce ==
  ASSUME NEW s
  PROVE  Default(Default(s)) = Default(s)
<1> DEFINE d == Default(s)
<1>1. [i \in DOMAIN d.connectors |-> DefaultConnector(d.connectors[i])] = d.connectors
  BY ConnectorDefaultedOnce DEF Default
<1>2. proccessorDefaulter(d.processors) = d.processors
  BY ProcessorsDefaultedOnce DEF Default
<1>3. DefaultName(d) = d.name
  BY Zenon DEF Default, DefaultName
<1>4. /\ (IF d.running = "" THEN "true" ELSE d.running) = d.running
      /\ (IF d.id = "" THEN d.name ELSE d.id) = d.id
      /\ (IF d.image = "" THEN DefaultImage ELSE d.image) = d.image
      /\ (IF d.version = NoVersion THEN DefaultVersion ELSE d.version) = d.version
  BY Zenon DEF Default
<1>5. d = [running |-> d.running, name |-> d.name, id |-> d.id, image |-> d.image,
           version |-> d.version, registry |-> d.registry, connectors |-> d.connectors,
           processors |-> d.processors]
  BY DEF Default
<1> HIDE DEF d
<1>6. Default(d) = d
  BY <1>1, <1>2, <1>3, <1>4, <1>5, Zenon DEF Default
<1> QED BY <1>6 DEF d

\* github.com/ in front of an organization and a name.
LEMMA PrefixedPath ==
  ASSUME NEW host, NEW org, NEW name
  PROVE  <<host>> \o <<org, name>> = <<host, org, name>>
<1> DEFINE S == {host, org, name}
           path == <<host>> \o <<org, name>>
<1>1. <<host>> \in Seq(S) /\ <<org, name>> \in Seq(S) /\ <<host, org, name>> \in Seq(S)
  OBVIOUS
<1>2. path \in Seq(S) /\ Len(path) = 3 /\ Len(<<host, org, name>>) = 3
  BY <1>1
<1>3. path[1] = host /\ path[2] = org /\ path[3] = name
  BY <1>1
<1>4. \A i \in 1 .. Len(path) : path[i] = <<host, org, name>>[i]
  BY <1>2, <1>3
<1> HIDE DEF path, S
<1> QED BY <1>1, <1>2, <1>4, SeqEqual DEF path

\* The plugin's package and name are what PackageFollowsPlugin says, once defaulted.
LEMMA DefaultFollowsPlugin ==
  ASSUME NEW x
  PROVE  LET c == DefaultConnector(x)
         IN  /\ c.plugin.form = "repo" =>
                  /\ c.pluginPkg.path = Repository(c.plugin) /\ c.pluginPkg.version = c.pluginVersion
                  /\ c.pluginName.form = "standalone" /\ c.pluginName.name = c.plugin.name
             /\ ToLower(c.plugin).form = "builtin" => c.pluginName = c.plugin
<1>1. CASE TakenAsBuiltin(x.plugin)
  <2>1. PluginName(x.plugin) = DefaultPlugin(x.plugin)
    BY <1>1 DEF PluginName
  <2>2. DefaultPlugin(x.plugin).form # "repo"
    BY <1>1, Zenon DEF DefaultPlugin, TakenAsBuiltin, IsBuiltinName, ToLower
  <2> QED BY <2>1, <2>2 DEF DefaultConnector
<1>2. CASE ~TakenAsBuiltin(x.plugin)
  <2>1. DefaultPlugin(x.plugin) = x.plugin /\ ToLower(x.plugin).form # "builtin"
    BY <1>2, PluginDefaultedOnce DEF TakenAsBuiltin
  <2>2. DefaultPluginPkg(x) = PluginPkg(x.plugin, DefaultPluginVersion(x))
    BY <1>2 DEF DefaultPluginPkg
  <2>3. PluginPkg(x.plugin, DefaultPluginVersion(x)).version = DefaultPluginVersion(x)
    BY DEF PluginPkg
  <2>4. ASSUME x.plugin.form = "repo"
        PROVE  PluginPkg(x.plugin, DefaultPluginVersion(x)).path = Repository(x.plugin)
    <3>1. Path(x.plugin) = <<x.plugin.org, x.plugin.name>>
      BY <2>4 DEF Path
    <3>2. <<"github.com">> \o Path(x.plugin) = Repository(x.plugin)
      BY <3>1, PrefixedPath DEF Repository
    <3> QED BY <3>2 DEF PluginPkg
  <2>5. PluginName(x.plugin).form = "standalone" /\ PluginName(x.plugin).name = x.plugin.name
    BY <1>2 DEF PluginName
  <2> QED BY <2>1, <2>2, <2>3, <2>4, <2>5 DEF DefaultConnector
<1> QED BY <1>1, <1>2

\* A spec that ValidateUpdate may admit is past the checks that need nothing else.
LEMMA AdmittedStatic ==
  ASSUME NEW s, "admitted" \in ValidateUpdate(s)
  PROVE  Static(s)
<1>1. "admitted" \in registry(s.registry) /\ "admitted" \in validateParts(s)
  BY DEF ValidateUpdate
<1>2. s.registry # ""
  BY <1>1, Zenon DEF registry
<1>3. StaticProcessors(s.processors)
  BY <1>1, Zenon DEF validateParts, validateProcessors, ValidateProcessor, StaticProcessors
<1>4. ASSUME NEW i \in DOMAIN s.connectors
      PROVE  /\ StaticProcessors(s.connectors[i].processors)
             /\ ValidatePlugin(s.connectors[i].plugin)
             /\ ValidatePluginType(s.connectors[i].type)
  <2>1. /\ validateProcessors(s.connectors[i].processors, s.registry)
        /\ "admitted" \in ValidateConnector(s.connectors[i])
    BY <1>1 DEF validateParts
  <2> QED BY <2>1, Zenon DEF validateProcessors, ValidateProcessor, StaticProcessors, ValidateConnector
<1> QED BY <1>2, <1>3, <1>4, Zenon DEF Static

\* What ValidateCreate may admit, ValidateUpdate may admit.
LEMMA CreateLikeUpdate ==
  ASSUME NEW s, "admitted" \in ValidateCreate(s)
  PROVE  "admitted" \in ValidateUpdate(s)
  BY DEF ValidateCreate

\* A request that is answered leaves a stored Conduit as the invariant wants it, if the
\* submitted spec has been defaulted and has a version.
LEMMA SubmitKeeps ==
  ASSUME AdmissionInv, NEW verdicts, NEW x, NEW fin, NEW del,
         Default(x).version \in Version \cup {Unparsable},
         "admitted" \in verdicts => "admitted" \in ValidateUpdate(Default(x)),
         Submit(verdicts, Default(x), fin, del)
  PROVE  AdmissionInv'
<1>1. PICK verdict \in verdicts :
        conduit' = IF verdict = "admitted"
                     THEN [spec |-> Default(x), fin |-> fin, del |-> del]
                     ELSE conduit
  BY DEF Submit
<1>2. CASE verdict = "admitted"
  <2>1. conduit'.spec = Default(x)
    BY <1>1, <1>2
  <2>2. Static(Default(x))
    BY <1>2, AdmittedStatic
  <2> QED BY <2>1, <2>2 DEF AdmissionInv, Stored
<1>3. CASE verdict # "admitted"
  BY <1>1, <1>3 DEF AdmissionInv
<1> QED BY <1>2, <1>3

\* Every step keeps the invariant.
LEMMA AdmissionStep == AdmissionInv /\ [Next]_vars => AdmissionInv'
<1> SUFFICES ASSUME AdmissionInv, [Next]_vars
             PROVE  AdmissionInv'
  OBVIOUS
<1>1. CASE UserCreates
  <2>1. PICK input \in Inputs : Submit(ValidateCreate(Default(input)), Default(input), FALSE, FALSE)
    BY <1>1, Zenon DEF UserCreates
  <2>2. Default(input).version \in Version \cup {Unparsable}
    BY VersionsAssumption DEF Default
  <2> QED BY <2>1, <2>2, CreateLikeUpdate, SubmitKeeps, Zenon
<1>2. CASE UserReplaces
  <2>1. PICK input \in Inputs :
          Submit(ValidateUpdate(Default(input)), Default(input), conduit.fin, conduit.del)
    BY <1>2 DEF UserReplaces
  <2>2. Default(input).version \in Version \cup {Unparsable}
    BY VersionsAssumption DEF Default
  <2> QED BY <2>1, <2>2, SubmitKeeps
<1>3. CASE UserEdits
  <2>1. PICK plugin :
          /\ conduit # None
          /\ LET x == [conduit.spec EXCEPT !.connectors[1].plugin = plugin]
             IN  Submit(ValidateUpdate(Default(x)), Default(x), conduit.fin, conduit.del)
    BY <1>3, Zenon DEF UserEdits
  <2> DEFINE x == [conduit.spec EXCEPT !.connectors[1].plugin = plugin]
  <2>2. PICK y : conduit.spec = Default(y)
    BY <2>1 DEF AdmissionInv, Stored
  <2>3. x.version = conduit.spec.version
    BY <2>2, Zenon DEF Default
  <2>4. conduit.spec.version \in Version \cup {Unparsable}
    BY <2>1 DEF AdmissionInv, Stored
  <2> HIDE DEF x
  <2>5. Default(x).version \in Version \cup {Unparsable}
    BY <2>3, <2>4, VersionsAssumption DEF Default
  <2> QED BY <2>1, <2>5, SubmitKeeps DEF x
<1>4. CASE UserDeletes
  <2>1. conduit # None /\ (conduit' = [conduit EXCEPT !.del = TRUE] \/ conduit' = None)
    BY <1>4 DEF UserDeletes
  <2>2. CASE conduit' = [conduit EXCEPT !.del = TRUE]
    <3>1. conduit'.spec = conduit.spec
      BY <2>2
    <3> QED BY <2>1, <3>1 DEF AdmissionInv
  <2> QED BY <2>1, <2>2 DEF AdmissionInv
<1>5. CASE AddFinalizer
  <2>1. /\ conduit # None
        /\ Submit(ValidateUpdate(Default(conduit.spec)), Default(conduit.spec), TRUE, FALSE)
    BY <1>5, Zenon DEF AddFinalizer
  <2>2. Default(conduit.spec).version \in Version \cup {Unparsable}
    BY <2>1, VersionsAssumption, Zenon DEF AdmissionInv, Stored, Default
  <2> QED BY <2>1, <2>2, SubmitKeeps, Zenon
<1>6. CASE RemoveFinalizer
  BY <1>6 DEF RemoveFinalizer, AdmissionInv
<1>7. CASE Restart
  BY <1>7 DEF Restart, AdmissionInv
<1>8. CASE SiteChanges
  BY <1>8 DEF SiteChanges, Change, AdmissionInv
<1>9. CASE UNCHANGED vars
  BY <1>9 DEF vars, AdmissionInv
<1> QED BY <1>1, <1>2, <1>3, <1>4, <1>5, <1>6, <1>7, <1>8, <1>9 DEF Next

\* A stored Conduit is always as the invariant says.
THEOREM AdmissionInvariant == Spec => []AdmissionInv
<1>1. Init => AdmissionInv
  BY DEF Init, AdmissionInv
<1> QED BY <1>1, AdmissionStep, PTL DEF Spec

\* For any inputs and any sequence of requests, the operator's writes of the finalizer
\* leave the spec as it is, in spite of the defaulting webhook they pass through.
THEOREM WriteBackCorrect == Spec => WriteBackKeepsSpec
<1>1. AdmissionInv /\ [Next]_vars =>
        [conduit # None /\ conduit' # None /\ conduit'.fin # conduit.fin
           => conduit'.spec = conduit.spec]_vars
  <2> SUFFICES ASSUME AdmissionInv, Next, conduit # None, conduit' # None,
                      conduit'.fin # conduit.fin
               PROVE  conduit'.spec = conduit.spec
    BY DEF vars
  <2>1. ASSUME NEW verdicts, NEW s, NEW del, Submit(verdicts, s, conduit.fin, del)
        PROVE  FALSE
    BY <2>1 DEF Submit
  <2>2. CASE UserCreates
    BY <2>2 DEF UserCreates
  <2>3. CASE UserReplaces
    BY <2>1, <2>3 DEF UserReplaces
  <2>4. CASE UserEdits
    BY <2>1, <2>4 DEF UserEdits
  <2>5. CASE UserDeletes
    BY <2>5 DEF UserDeletes
  <2>6. CASE AddFinalizer
    <3>1. PICK x : conduit.spec = Default(x)
      BY DEF AdmissionInv, Stored
    <3>2. Default(conduit.spec) = conduit.spec
      BY <3>1, DefaultedOnce
    <3> QED BY <2>6, <3>2 DEF AddFinalizer, Submit
  <2>7. CASE RemoveFinalizer \/ Restart \/ SiteChanges
    BY <2>7 DEF RemoveFinalizer, Restart, SiteChanges, Change
  <2> QED BY <2>2, <2>3, <2>4, <2>5, <2>6, <2>7 DEF Next
<1> QED BY <1>1, AdmissionInvariant, PTL DEF Spec, WriteBackKeepsSpec

\* For any inputs and any sequence of requests, the package of a connector that names
\* its repository is this repository's at the connector's version, and the name of a
\* connector is its plugin's.
THEOREM PackageCorrect == Spec => []PackageFollowsPlugin
<1>1. AdmissionInv => PackageFollowsPlugin
  <2> SUFFICES ASSUME AdmissionInv, conduit # None,
                      NEW i \in DOMAIN conduit.spec.connectors
               PROVE  LET c == conduit.spec.connectors[i]
                      IN  /\ c.plugin.form = "repo" =>
                               /\ c.pluginPkg.path = Repository(c.plugin)
                               /\ c.pluginPkg.version = c.pluginVersion
                               /\ c.pluginName.form = "standalone"
                               /\ c.pluginName.name = c.plugin.name
                          /\ ToLower(c.plugin).form = "builtin" => c.pluginName = c.plugin
    BY Zenon DEF PackageFollowsPlugin
  <2>1. PICK x : conduit.spec = Default(x)
    BY DEF AdmissionInv, Stored
  <2>2. Default(x).connectors = [j \in DOMAIN x.connectors |-> DefaultConnector(x.connectors[j])]
    BY Zenon DEF Default
  <2>3. conduit.spec.connectors[i] = DefaultConnector(x.connectors[i])
    BY <2>1, <2>2
  <2> QED BY <2>3, DefaultFollowsPlugin
<1> QED BY <1>1, AdmissionInvariant, PTL

\* For any list of connectors, a stored Conduit without modules is admitted again
\* whenever conduit.io does not answer.
THEOREM OutageCorrect == Spec => []OutageAdmits
<1>1. AdmissionInv => OutageAdmits
  <2> DEFINE s == conduit.spec
  <2> SUFFICES ASSUME AdmissionInv, conduit # None, ~site.up, NoModules(s),
                      s.registry # "unparsable"
               PROVE  ValidateUpdate(s) = {"admitted"}
    BY DEF OutageAdmits
  <2>1. Static(s)
    BY DEF AdmissionInv, Stored
  <2> HIDE DEF s
  <2>2. ASSUME NEW i \in DOMAIN s.connectors
        PROVE  ValidateConnector(s.connectors[i]) = {"admitted"}
    <3> DEFINE c == s.connectors[i]
    <3>1. ASSUME NEW p
          PROVE  ParametersFit(c, p)
      BY Zenon DEF ParametersFit, fetchYAMLSpec
    <3> HIDE DEF c
    <3>2. validateConnectorParameters(c) = {"admitted"}
      BY <3>1 DEF validateConnectorParameters, Verdict
    <3>3. ValidatePlugin(c.plugin) /\ ValidatePluginType(c.type)
      BY <2>1, Zenon DEF Static, c
    <3> QED BY <3>2, <3>3 DEF ValidateConnector, c
  <2>3. validateProcessors(s.processors, s.registry)
    BY <2>1, Zenon DEF Static, StaticProcessors, NoModules, validateProcessors, ValidateProcessor,
                validateStandaloneProcessor
  <2>4. ASSUME NEW i \in DOMAIN s.connectors
        PROVE  validateProcessors(s.connectors[i].processors, s.registry)
    BY <2>1, Zenon DEF Static, StaticProcessors, NoModules, validateProcessors, ValidateProcessor,
                validateStandaloneProcessor
  <2>5. validateParts(s) = {"admitted"}
    BY <2>2, <2>3, <2>4 DEF validateParts
  <2>6. registry(s.registry) = {"admitted"}
    BY <2>1, Zenon DEF Static, registry
  <2> QED BY <2>5, <2>6 DEF ValidateUpdate
<1> QED BY <1>1, AdmissionInvariant, PTL

\* For any inputs, a stored Conduit whose version parses has exactly the arguments that
\* version understands, or none when it is not one of the known ones.
THEOREM ArgumentsCorrect == Spec => []ArgumentsFit
<1>1. AdmissionInv => ArgumentsFit
  BY ForVersionCorrect DEF AdmissionInv, Stored, ArgumentsFit
<1> QED BY <1>1, AdmissionInvariant, PTL

-------------------------------------------------------------------------------
\* The settings of built-in connectors.

\* What BuiltinParametersChecked says of an admitted spec, with the list and the state
\* of conduit.io it was held against.
SettingsFit(s, entries, up) ==
  \A i \in DOMAIN s.connectors :
    LET c == s.connectors[i]
    IN  \A p \in entries, r \in Releases :
          /\ ToLower(c.plugin).form = "builtin" /\ c.plugin.tail = ""
          /\ p.name = c.plugin.name /\ \A q \in entries : Contains(q.name, p.name) => q = p
          /\ up /\ r.org = p.org /\ r.name = p.name /\ r.version = p.version
          => Validate(SettingNames(c), SettingsGiven(c), ParamsOf(r, c.type))

\* A defaulted spec that ValidateUpdate may admit has been held against the only entry
\* of the list its built-in connector can be taken for.
LEMMA AdmittedSettingsFit ==
  ASSUME NEW x, "admitted" \in ValidateUpdate(Default(x))
  PROVE  SettingsFit(Default(x), list, site.up)
<1> DEFINE s == Default(x)
<1> SUFFICES ASSUME NEW i \in DOMAIN s.connectors, NEW p \in list, NEW r \in Releases,
                    ToLower(s.connectors[i].plugin).form = "builtin",
                    s.connectors[i].plugin.tail = "",
                    p.name = s.connectors[i].plugin.name,
                    \A q \in list : Contains(q.name, p.name) => q = p,
                    site.up, r.org = p.org, r.name = p.name, r.version = p.version
             PROVE  Validate(SettingNames(s.connectors[i]), SettingsGiven(s.connectors[i]),
                             ParamsOf(r, s.connectors[i].type))
  BY Zenon DEF SettingsFit
<1>1. s.connectors[i] = DefaultConnector(x.connectors[i])
  BY DEF Default
<1>2. "admitted" \in ValidateConnector(s.connectors[i])
  BY DEF ValidateUpdate, validateParts
<1> DEFINE c == s.connectors[i]
<1>3. c.pluginName = c.plugin
  <2>1. ToLower(DefaultConnector(x.connectors[i]).plugin).form = "builtin"
    BY <1>1, Zenon
  <2>2. DefaultConnector(x.connectors[i]).pluginName = DefaultConnector(x.connectors[i]).plugin
    BY <2>1, DefaultFollowsPlugin, Zenon
  <2> QED BY <1>1, <2>2, Zenon
<1> HIDE DEF s, c
<1> USE DEF c
<1>4. ValidatePlugin(c.plugin) /\ "admitted" \in validateConnectorParameters(c)
  BY <1>2 DEF ValidateConnector
<1>5. c.plugin.name \in BuiltinConnectors
  BY <1>4 DEF ValidatePlugin, ToLower, Trim
<1>6. formatPluginName(c.pluginName) = p.name
  <2>1. ToLower(c.plugin).name = c.plugin.name /\ ToLower(c.plugin).tail = ""
    BY DEF ToLower
  <2> QED BY <1>3, <1>5, <2>1 DEF formatPluginName
<1>7. filterConnector(list, c.pluginName) = {p}
  BY <1>6 DEF filterConnector, Contains
<1>8. ParametersFit(c, p)
  BY <1>4, <1>7 DEF validateConnectorParameters, Verdict
<1>9. r \in fetchYAMLSpec(p)
  BY ReleasesAssumption DEF fetchYAMLSpec
<1> QED BY <1>8, <1>9 DEF ParametersFit

\* An answer to a defaulted spec, by either of the validating webhooks, is as
\* BuiltinParametersChecked wants it.
LEMMA AnswerChecked ==
  ASSUME NEW verdicts, NEW x, NEW verdict \in verdicts,
         "admitted" \in verdicts => "admitted" \in ValidateUpdate(Default(x)),
         answer' = [spec |-> Default(x), verdict |-> verdict],
         UNCHANGED <<list, site>>
  PROVE  BuiltinParametersChecked'
<1>1. answer'.spec = Default(x) /\ answer'.verdict = verdict
  OBVIOUS
<1>2. verdict = "admitted" => SettingsFit(Default(x), list, site.up)
  BY AdmittedSettingsFit
<1>3. answer'.verdict = "admitted" => SettingsFit(answer'.spec, list', site'.up)
  BY <1>1, <1>2
<1> QED BY <1>3 DEF BuiltinParametersChecked, SettingsFit, Unmistakable

\* For any list, releases, inputs and sequence of requests, restarts and changes of the
\* site: the settings of a built-in connector that is listed and cannot be taken for
\* another satisfy its own release in every request that is admitted.
THEOREM BuiltinParametersCorrect == Spec => []BuiltinParametersChecked
<1>1. Init => BuiltinParametersChecked
  BY DEF Init, BuiltinParametersChecked
<1>2. BuiltinParametersChecked /\ [Next]_vars => BuiltinParametersChecked'
  <2> SUFFICES ASSUME BuiltinParametersChecked, [Next]_vars
               PROVE  BuiltinParametersChecked'
    OBVIOUS
  <2>1. ASSUME NEW verdicts, NEW x, NEW fin, NEW del,
               "admitted" \in verdicts => "admitted" \in ValidateUpdate(Default(x)),
               Submit(verdicts, Default(x), fin, del)
        PROVE  BuiltinParametersChecked'
    BY <2>1, AnswerChecked, Zenon DEF Submit
  <2>2. CASE UserCreates
    BY <2>1, <2>2, CreateLikeUpdate, Zenon DEF UserCreates
  <2>3. CASE UserReplaces
    BY <2>1, <2>3, Zenon DEF UserReplaces
  <2>4. CASE UserEdits
    BY <2>1, <2>4, Zenon DEF UserEdits
  <2>5. CASE AddFinalizer
    BY <2>1, <2>5, Zenon DEF AddFinalizer
  <2>6. CASE RemoveFinalizer
    BY <2>6, AnswerChecked, Zenon DEF RemoveFinalizer
  <2>7. CASE UserDeletes \/ Restart \/ SiteChanges
    BY <2>7 DEF UserDeletes, Restart, SiteChanges, Change, BuiltinParametersChecked
  <2>8. CASE UNCHANGED vars
    BY <2>8 DEF vars, BuiltinParametersChecked, Unmistakable
  <2> QED BY <2>2, <2>3, <2>4, <2>5, <2>6, <2>7, <2>8 DEF Next
<1> QED BY <1>1, <1>2, PTL DEF Spec
===============================================================================
