------------------------------ MODULE Admission ------------------------------
(***************************************************************************)
(* The admission of a Conduit: the defaulting and validating webhooks      *)
(* (internal/webhook/v1alpha/conduit_webhook.go) with the validator behind *)
(* them (pkg/conduit/conduit_validator.go), and the requests that pass     *)
(* through them, which are the users' and the operator's own writes of the *)
(* finalizer.  conduit.io serves the list of connectors, which is fetched  *)
(* once when the operator starts, and the parameters of their releases,    *)
(* which are fetched at every request.                                     *)
(***************************************************************************)
EXTENDS Plugins, Versions, FiniteSets

CONSTANTS
  MetaName,        \* the name of the object
  DefaultImage, DefaultVersion,
  NoVersion, Unparsable,    \* a version left out, one that does not parse
  Urls,            \* where processors are downloaded from
  NoSecret,        \* a setting with a value
  Secrets,         \* the secrets of the cluster: namespace, name and keys
  Namespace,       \* the namespace of the Conduit
  Releases,        \* the releases conduit.io has a description of: org, name, version,
                   \* source and destination with the required and the known parameters
  Listings,        \* the lists of connectors conduit.io may have
  Inputs,          \* what users submit
  None,            \* what is not there
  MaxRequests, MaxChanges   \* bounds on the users' requests and on the changes outside

ASSUME VersionsAssumption ==
  /\ DefaultVersion \in Version
  /\ \A input \in Inputs : input.version \in Version \cup {NoVersion, Unparsable}

ASSUME SecretsAssumption == \A s \in Secrets : s.namespace # ""

\* A release has a tag.
ASSUME ReleasesAssumption == \A r \in Releases : r.version # ""

VARIABLES
  conduit,     \* the stored object: spec, fin, del
  list,        \* the validator's list of connectors
  site,        \* conduit.io and the rest of the web: up, listing, wasm
  answer,      \* the webhooks' last answer, None when something changed since
  left         \* what remains of the bounds

vars == <<conduit, list, site, answer, left>>

-------------------------------------------------------------------------------
\* Defaulting.  Default also sets the conditions that are not there to Unknown on the
\* object it is given.  They have no effect on what is stored: the status is a
\* subresource, and the API server drops what a create or an update of the object itself
\* says about it.

\* Variant that gives a processor with one worker another.
DefaultWorkersOffByOne(p) == IF p.workers <= 1 THEN p.workers + 1 ELSE p.workers

DefaultWorkers(p) == IF p.workers = 0 THEN 1 ELSE p.workers

proccessorDefaulter(pp) ==
  [i \in DOMAIN pp |->
     [id      |-> IF pp[i].id = "" THEN pp[i].name ELSE pp[i].id,
      name    |-> pp[i].name,
      plugin  |-> pp[i].plugin,
      url     |-> pp[i].url,
      workers |-> DefaultWorkers(pp[i])]]

DefaultPluginVersion(c) == IF c.pluginVersion = "" THEN "latest" ELSE c.pluginVersion

\* Variant that keeps the package it finds.
DefaultPluginPkgOnce(c) ==
  IF TakenAsBuiltin(c.plugin) \/ c.pluginPkg # None
    THEN c.pluginPkg
    ELSE PluginPkg(c.plugin, DefaultPluginVersion(c))

\* That of a built-in connector is left as it was.
DefaultPluginPkg(c) ==
  IF TakenAsBuiltin(c.plugin) THEN c.pluginPkg ELSE PluginPkg(c.plugin, DefaultPluginVersion(c))

DefaultConnector(c) ==
  [id            |-> IF c.id = "" THEN c.name ELSE c.id,
   name          |-> c.name,
   type          |-> c.type,
   plugin        |-> DefaultPlugin(c.plugin),
   pluginVersion |-> DefaultPluginVersion(c),
   pluginName    |-> PluginName(c.plugin),
   pluginPkg     |-> DefaultPluginPkg(c),
   settings      |-> c.settings,
   processors    |-> proccessorDefaulter(c.processors)]

DefaultName(s) == IF s.name = "" THEN MetaName ELSE s.name

Default(s) ==
  [running    |-> IF s.running = "" THEN "true" ELSE s.running,
   name       |-> DefaultName(s),
   id         |-> IF s.id = "" THEN DefaultName(s) ELSE s.id,
   image      |-> IF s.image = "" THEN DefaultImage ELSE s.image,
   version    |-> IF s.version = NoVersion THEN DefaultVersion ELSE s.version,
   registry   |-> s.registry,
   connectors |-> [i \in DOMAIN s.connectors |-> DefaultConnector(s.connectors[i])],
   processors |-> proccessorDefaulter(s.processors)]

-------------------------------------------------------------------------------
\* Validation.  A validator answers with the set of its possible verdicts where
\* the code leaves a choice, with a Boolean where it does not.

\* A read of a secret through the manager's client, by namespace and name.
Get(namespace, name) == {s \in Secrets : s.namespace = namespace /\ s.name = name}

\* The value of the setting can be had.  The key of the read has no namespace in it.
valueOrSecret(setting) ==
  \/ setting.secret = NoSecret
  \/ \E s \in Get("", setting.secret.name) : setting.secret.key \in s.keys

\* The release whose connector.yaml conduit.io returns for an entry of the list.
fetchYAMLSpec(p) ==
  {r \in Releases : site.up /\ p.version # "" /\ r.org = p.org /\ r.name = p.name /\ r.version = p.version}

\* The library's check of settings against parameters; an empty value is no value for a
\* parameter that is required.
Validate(names, given, params) == params.required \subseteq given /\ names \subseteq params.known

SettingNames(c) == {s.name : s \in c.settings}

\* The settings whose value is not empty.  That of a setting taken from a ConfigMap is:
\* the validator looks at values and secrets only.
SettingsGiven(c) == {s.name : s \in {x \in c.settings : x.secret # NoSecret \/ x.value # ""}}

ParamsOf(release, type) == IF type = "source" THEN release.source ELSE release.destination

\* Variant that refuses what it cannot look up.
ParametersFitKnown(c, p) ==
  \E r \in fetchYAMLSpec(p) :
    /\ \A s \in c.settings : valueOrSecret(s)
    /\ Validate(SettingNames(c), SettingsGiven(c), ParamsOf(r, c.type))

\* The verdict on the settings by one entry of the list; without its description
\* they are accepted.
ParametersFit(c, p) ==
  \A r \in fetchYAMLSpec(p) :
    /\ \A s \in c.settings : valueOrSecret(s)
    /\ Validate(SettingNames(c), SettingsGiven(c), ParamsOf(r, c.type))

Verdict(fits) == IF fits THEN "admitted" ELSE "refused"

validateConnectorParameters(c) ==
  LET entries == filterConnector(list, c.pluginName)
  IN  IF entries = {} THEN {"admitted"} ELSE {Verdict(ParametersFit(c, p)) : p \in entries}

ValidateConnector(c) ==
  IF ValidatePlugin(c.plugin) /\ ValidatePluginType(c.type)
    THEN validateConnectorParameters(c)
    ELSE {"refused"}

\* The module is downloaded.
pluginWASM(url) == site.wasm[url] # "missing"

\* The registry takes the file for a processor.  One that knows it already is one more
\* way to accept it.
Register(url) == site.wasm[url] = "good"

\* A module that cannot be downloaded or registered refuses the processor, and so
\* does a registry that is not there: the call on it panics.
validateStandaloneProcessor(p, r) ==
  p.url # "" => pluginWASM(p.url) /\ r # "" /\ Register(p.url)

ValidateProcessor(p, r) == p.plugin # "" /\ validateStandaloneProcessor(p, r)

validateProcessors(pp, r) == \A i \in DOMAIN pp : ValidateProcessor(pp[i], r)

\* The verdicts on all connectors and processors together.
validateParts(s) ==
  LET sure == /\ validateProcessors(s.processors, s.registry)
              /\ \A i \in DOMAIN s.connectors :
                   validateProcessors(s.connectors[i].processors, s.registry)
      each(i) == ValidateConnector(s.connectors[i])
  IN  {v \in {"admitted", "refused"} :
         IF v = "admitted"
           THEN sure /\ \A i \in DOMAIN s.connectors : "admitted" \in each(i)
           ELSE ~sure \/ \E i \in DOMAIN s.connectors : "refused" \in each(i)}

\* The schema registry's client may refuse a URL that does not parse.
registry(r) ==
  CASE r = "" -> {"refused"}
    [] r = "unparsable" -> {"admitted", "refused"}
    [] OTHER -> {"admitted"}

ValidateUpdate(s) ==
  (registry(s.registry) \cap {"refused"})
    \cup (IF "admitted" \in registry(s.registry) THEN validateParts(s) ELSE {})

\* A registry whose URL does not parse is refused, but only here.
validateRegistry(r) == r # "unparsable"

ValidateCreate(s) ==
  IF /\ s.version # Unparsable
     /\ validateConduitVersion(s.version)
     /\ validateRegistry(s.registry)
    THEN ValidateUpdate(s)
    ELSE {"refused"}

-------------------------------------------------------------------------------
NewValidator == IF site.up THEN connectorList(site.listing) ELSE {}

Init ==
  /\ conduit = None
  /\ site \in [up : BOOLEAN, listing : Listings, wasm : [Urls -> {"good", "missing"}]]
  /\ list = NewValidator
  /\ answer = None
  /\ left = [requests |-> MaxRequests, changes |-> MaxChanges]

\* The webhooks answer a request to store s; fin and del are those of the object
\* stored if they admit it.
Submit(verdicts, s, fin, del) ==
  \E verdict \in verdicts :
    /\ UNCHANGED <<list, site>>
    /\ answer' = [spec |-> s, verdict |-> verdict]
    /\ conduit' = IF verdict = "admitted" THEN [spec |-> s, fin |-> fin, del |-> del] ELSE conduit

Request == left.requests > 0 /\ left' = [left EXCEPT !.requests = @ - 1]

UserCreates ==
  \E input \in Inputs :
    /\ conduit = None
    /\ Request
    /\ LET s == Default(input) IN Submit(ValidateCreate(s), s, FALSE, FALSE)

\* The object is replaced by another input.
UserReplaces ==
  \E input \in Inputs :
    /\ conduit # None
    /\ Request
    /\ LET s == Default(input) IN Submit(ValidateUpdate(s), s, conduit.fin, conduit.del)

\* The plugin of the stored object's first connector is edited, with all that was
\* defaulted before in it.
UserEdits ==
  \E plugin \in {input.connectors[1].plugin : input \in {i \in Inputs : i.connectors # <<>>}} :
    /\ conduit # None /\ conduit.spec.connectors # <<>>
    /\ Request
    /\ LET s == Default([conduit.spec EXCEPT !.connectors[1].plugin = plugin])
       IN  Submit(ValidateUpdate(s), s, conduit.fin, conduit.del)

\* No webhook is asked about a deletion.
UserDeletes ==
  /\ conduit # None /\ ~conduit.del
  /\ conduit' = IF conduit.fin THEN [conduit EXCEPT !.del = TRUE] ELSE None
  /\ answer' = None
  /\ UNCHANGED <<list, site, left>>

\* The operator writes the object it read back with the finalizer,
AddFinalizer ==
  /\ conduit # None /\ ~conduit.fin /\ ~conduit.del
  /\ UNCHANGED left
  /\ LET s == Default(conduit.spec) IN Submit(ValidateUpdate(s), s, TRUE, FALSE)

\* Variant in which the webhook checks the version of every request.
RemoveFinalizerVersioned ==
  /\ conduit # None /\ conduit.fin /\ conduit.del
  /\ UNCHANGED <<list, site, left>>
  /\ LET s == Default(conduit.spec)
     IN  \E verdict \in ValidateCreate(s) :
           /\ conduit' = IF verdict = "admitted" THEN None ELSE conduit
           /\ answer' = [spec |-> s, verdict |-> verdict]

\* and without it, which removes the object, until it is admitted.
RemoveFinalizer ==
  /\ conduit # None /\ conduit.fin /\ conduit.del
  /\ UNCHANGED <<list, site, left>>
  /\ LET s == Default(conduit.spec)
     IN  \E verdict \in ValidateUpdate(s) :
           /\ conduit' = IF verdict = "admitted" THEN None ELSE conduit
           /\ answer' = [spec |-> s, verdict |-> verdict]

\* The operator starts again, with the list it can get then.
Restart ==
  /\ list' = NewValidator
  /\ answer' = None
  /\ UNCHANGED <<conduit, site, left>>

Change(new) ==
  /\ left.changes > 0
  /\ left' = [left EXCEPT !.changes = @ - 1]
  /\ site' = new
  /\ answer' = None
  /\ UNCHANGED <<conduit, list>>

\* conduit.io fails or is back, a connector is released or listed, and a module
\* appears or goes away.
SiteChanges ==
  \/ Change([site EXCEPT !.up = ~site.up])
  \/ \E listing \in Listings \ {site.listing} : Change([site EXCEPT !.listing = listing])
  \/ \E url \in Urls, w \in {"good", "bad", "missing"} :
       site.wasm[url] # w /\ Change([site EXCEPT !.wasm[url] = w])

Next ==
  \/ UserCreates \/ UserReplaces \/ UserEdits \/ UserDeletes
  \/ AddFinalizer \/ RemoveFinalizer
  \/ Restart \/ SiteChanges

\* The reconciler tries again until the finalizer is written.
Spec == Init /\ [][Next]_vars /\ WF_vars(AddFinalizer) /\ WF_vars(RemoveFinalizer)

-------------------------------------------------------------------------------
\* What the operator writes back goes through the defaulting webhook again and comes
\* out as it went in: a write of the finalizer never changes the spec, and so never
\* starts a new generation of it.
WriteBackKeepsSpec ==
  [][conduit # None /\ conduit' # None /\ conduit'.fin # conduit.fin
       => conduit'.spec = conduit.spec]_vars

\* The repository a plugin of one of the forms repo and url names.
Repository(p) == <<"github.com", p.org, p.name>>

\* However a Conduit was created, replaced and edited, the package of a connector that
\* names its repository as organization and name is that repository's, at the version
\* the connector now has, and the pipeline uses the name of this plugin, although both
\* are stored and submitted again; a built-in connector is used by the name it is given.
\* The package is only as good as the plugin: github.com/ is put before one that has it
\* already (BuiltFromRepository) and before a bare name that blanks follow.  That of a
\* built-in connector is what an earlier edit left there; it is not used, unless the
\* prefix is written with a capital letter, which the init containers do not see.
PackageFollowsPlugin ==
  conduit # None =>
    \A i \in DOMAIN conduit.spec.connectors :
      LET c == conduit.spec.connectors[i]
      IN  /\ c.plugin.form = "repo" =>
               /\ c.pluginPkg.path = Repository(c.plugin) /\ c.pluginPkg.version = c.pluginVersion
               /\ c.pluginName.form = "standalone" /\ c.pluginName.name = c.plugin.name
          /\ ToLower(c.plugin).form = "builtin" => c.pluginName = c.plugin

\* No module has to be downloaded for the Conduit.
NoModules(s) ==
  /\ \A i \in DOMAIN s.processors : s.processors[i].url = ""
  /\ \A i \in DOMAIN s.connectors :
       \A j \in DOMAIN s.connectors[i].processors : s.connectors[i].processors[j].url = ""

\* While conduit.io does not answer, whatever list the operator started with, a
\* stored Conduit without modules is admitted again for certain.
OutageAdmits ==
  conduit # None /\ ~site.up /\ NoModules(conduit.spec) /\ conduit.spec.registry # "unparsable"
    => ValidateUpdate(conduit.spec) = {"admitted"}

\* Such a Conduit, once deleted, is gone in spite of an outage that does not end: the
\* webhook does not keep the operator from removing the finalizer.
DeletionSurvivesOutage ==
  (conduit # None /\ conduit.del /\ NoModules(conduit.spec) /\ conduit.spec.registry # "unparsable")
    ~> (conduit = None \/ site.up \/ ~NoModules(conduit.spec) \/ conduit.spec.registry = "unparsable")

\* Nobody else in the list has the plugin's name in theirs.
Unmistakable(p) == \A q \in list : Contains(q.name, p.name) => q = p

\* The settings of a built-in connector that is listed, and cannot be taken for
\* another, satisfy its own release whenever a request is admitted and the release's
\* description can be had.
BuiltinParametersChecked ==
  answer # None /\ answer.verdict = "admitted" =>
    \A i \in DOMAIN answer.spec.connectors :
      LET c == answer.spec.connectors[i]
      IN  \A p \in list, r \in Releases :
            /\ ToLower(c.plugin).form = "builtin" /\ c.plugin.tail = ""
            /\ p.name = c.plugin.name /\ Unmistakable(p)
            /\ site.up /\ r.org = p.org /\ r.name = p.name /\ r.version = p.version
            => Validate(SettingNames(c), SettingsGiven(c), ParamsOf(r, c.type))

\* A stored Conduit whose version parses has the arguments its server understands,
\* whichever constraint is tried first, or none at all when the version is not known.
ArgumentsFit ==
  conduit # None /\ conduit.spec.version # Unparsable =>
    ForVersion(conduit.spec.version) =
      IF Known(conduit.spec.version) THEN {Wanted(conduit.spec.version)} ELSE {}

-------------------------------------------------------------------------------
\* The Conduit with the values of its secrets in the place of the references.
WithValues(s) ==
  LET Found(x) == \E secret \in Get(Namespace, x.secret.name) : x.secret.key \in secret.keys
      Value(x) == IF x.secret # NoSecret /\ Found(x) THEN [x EXCEPT !.secret = NoSecret, !.value = "text"] ELSE x
  IN  [s EXCEPT !.connectors =
         [i \in DOMAIN @ |-> [@[i] EXCEPT !.settings = {Value(x) : x \in @}]]]

\* A Conduit is not refused for settings in secrets of its namespace when it would be
\* admitted with their values.
SecretSettingsAdmitted ==
  answer # None /\ answer.verdict = "refused" => "refused" \in ValidateCreate(WithValues(answer.spec))

\* The parameters a connector is held against are those of its own plugin: a new Conduit
\* is refused for what else is wrong with it, or by the entry of the list that has the
\* name of the connector's plugin.
AppropriatePluginChecked ==
  answer # None /\ answer.verdict = "refused" =>
    \/ "refused" \in ValidateCreate([answer.spec EXCEPT !.connectors = <<>>])
    \/ \E i \in DOMAIN answer.spec.connectors :
         LET c == answer.spec.connectors[i]
         IN  \/ ~ValidatePlugin(c.plugin) \/ ~ValidatePluginType(c.type)
             \/ ~validateProcessors(c.processors, answer.spec.registry)
             \/ \E p \in list : p.name = c.plugin.name /\ ~ParametersFit(c, p)

\* A connector whose plugin is a repository of an allowed organization, written with or
\* without github.com/ as ValidatePlugin allows, is built from this repository.
BuiltFromRepository ==
  conduit # None =>
    \A i \in DOMAIN conduit.spec.connectors :
      LET c == conduit.spec.connectors[i]
      IN  c.plugin.form \in {"repo", "url"} => c.pluginPkg.path = Repository(c.plugin)
===============================================================================
