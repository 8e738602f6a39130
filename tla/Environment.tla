----------------------------- MODULE Environment -----------------------------
(***************************************************************************)
(* How the settings of connectors and processors reach the Conduit server  *)
(* (internal/controller/conduit_config.go and the environment of the       *)
(* deployment, conduit_controller.go).  A setting taken from a secret      *)
(* becomes a reference to an environment variable in pipeline.yaml, and    *)
(* the deployment defines the variable from the secret.  The two are       *)
(* written in different steps of a reconcile, and the variables are merged *)
(* into the ones the stored deployment has, position by position.          *)
(*                                                                         *)
(* A key of a secret is a word with a separator in it, in one case or the  *)
(* other.  Reads are of the stored objects: ConduitController has the      *)
(* cache.                                                                  *)
(***************************************************************************)
EXTENDS Lists

CONSTANTS
  Specs,        \* the specs users submit
  OwnSecret,    \* the name of the secret the operator keeps for the Conduit
  Words,        \* the words of keys, in the order they sort in
  Supported,    \* the versions of Conduit the operator has arguments for
  None,         \* what is not there
  MaxEdits, MaxChanges    \* bounds on edits and on changes of objects of others

\* The words of all keys are in their order.
ASSUME SpecsAssumption ==
  /\ IsList(Words) /\ {"type", "connection"} \subseteq Range(Words)
  /\ \A s \in Specs :
       /\ IsList(s.connectors)
       /\ \A i \in DOMAIN s.connectors :
            /\ IsList(s.connectors[i].settings)
            /\ \A v \in Range(s.connectors[i].settings) :
                 v.secret # None => v.secret.key.word \in Range(Words)

VARIABLES
  spec,      \* the spec of the Conduit
  global,    \* the value in the ConfigMap settings refer to
  login,     \* whether the secret is there that credentials of a registry refer to
  config,    \* the ConfigMap with pipeline.yaml: rv and data
  own,       \* the keys of the operator's secret
  env,       \* the environment of the stored deployment
  pc, c,     \* the step of the reconcile and the spec it works on
  left       \* what remains of the bounds

vars == <<spec, global, login, config, own, env, pc, c, left>>

Key(word) == [word |-> word, sep |-> "_", case |-> "upper"]

\* The keys of the operator's secret, CONDUIT_SCHEMA_REGISTRY_..., are names of
\* variables already.
SchemaRegistryConfig(s) == IF s.registry = "" THEN {} ELSE {Key("type"), Key("connection")}

\* An error for a URL that does not parse, and for a user or a password in a secret that
\* is not there.
RegistryResolves(s) ==
  s.registry # "" => s.registry # "unparsable" /\ (s.credentials = "secret" => login)

\* Capital letters, and an underscore for what is not a letter or a digit.
envVarName(key) == Key(key.word)

-------------------------------------------------------------------------------
\* pipeline.yaml

Text(value) == [kind |-> "text", of |-> value]

\* ${NAME}
Reference(key) == [kind |-> "reference", of |-> envVarName(key)]

TakesReference(v) == v.secret # None /\ v.value = ""

TakesConfigMap(v) == ~TakesReference(v) /\ v.configMap # None

\* The key of the global ConfigMap is there.
configMapValue(v) == global # None

\* An error unless every ConfigMap that is read has the value.
SettingsResolve(settings) ==
  \A i \in DOMAIN settings : TakesConfigMap(settings[i]) => configMapValue(settings[i])

\* Of several settings with one name the last one counts.
settingsWithEnvVars(settings) ==
  [name \in {settings[i].name : i \in DOMAIN settings} |->
     LET Last(i) == settings[i].name = name /\ \A j \in DOMAIN settings : j > i => settings[j].name # name
         v       == settings[CHOOSE i \in DOMAIN settings : Last(i)]
     IN  CASE TakesReference(v) -> Reference(v.secret.key)
           [] TakesConfigMap(v) -> Text(global)
           [] OTHER -> Text(v.value)]

processorConfig(p) == settingsWithEnvVars(p)

connectorConfig(cc) ==
  [settings   |-> settingsWithEnvVars(cc.settings),
   processors |-> [i \in DOMAIN cc.processors |-> processorConfig(cc.processors[i])]]

PipelineConfigYAML(s) ==
  [connectors |-> [i \in DOMAIN s.connectors |-> connectorConfig(s.connectors[i])],
   processors |-> [i \in DOMAIN s.processors |-> processorConfig(s.processors[i])]]

PipelineResolves(s) ==
  /\ \A i \in DOMAIN s.connectors :
       /\ SettingsResolve(s.connectors[i].settings)
       /\ \A j \in DOMAIN s.connectors[i].processors : SettingsResolve(s.connectors[i].processors[j])
  /\ \A i \in DOMAIN s.processors : SettingsResolve(s.processors[i])

-------------------------------------------------------------------------------
\* The variables of the deployment

Variable(name, ref) == [name |-> name, secret |-> ref.name, key |-> ref.key, optional |-> ref.optional]

FromSecrets(settings) ==
  Concat([i \in DOMAIN settings |-> IF settings[i].secret # None THEN <<settings[i]>> ELSE <<>>])

SecretSettings(s) == Concat([i \in DOMAIN s.connectors |-> FromSecrets(s.connectors[i].settings)])

\* One for every setting of a connector that names a secret, in their order; the
\* settings of processors have none.
EnvVars(s) ==
  LET from == SecretSettings(s)
  IN  [i \in DOMAIN from |-> Variable(envVarName(from[i].secret.key), from[i].secret)]

\* One for every key, in any order: the keys are those of a map.
envVarsFromSecret(keys) ==
  {[i \in DOMAIN order |-> Variable(order[i], [name |-> OwnSecret, key |-> order[i], optional |-> ""])] :
     order \in Bijection(1 .. Cardinality(keys), keys)}

Rank(name) == CHOOSE i \in DOMAIN Words : Words[i] = name.word

\* Variant without the sort.
SortedNot(e) == e

\* By name; up to twelve variables are sorted by insertion, which keeps the order of
\* those with one name.
Sorted(e) ==
  LET order == StableOrder([i \in DOMAIN e |-> Rank(e[i].name)])
  IN  [k \in DOMAIN e |-> e[order[k]]]

\* The environments a deployment may get: sorted only with something from the secret.
RuntimeEnv(s, keys) ==
  IF keys = {} THEN {EnvVars(s)}
  ELSE {Sorted(e) : e \in {EnvVars(s) \o ownVars : ownVars \in envVarsFromSecret(keys)}}

\* Variant that keeps the key of the variable that is there.
MergeVariableKeepsKey(current, updated) ==
  [name |-> updated.name, secret |-> updated.secret, key |-> current.key, optional |-> updated.optional]

\* The document of a variable is read into the stored one: optional is left out when it
\* is not set and then stays as it was.
MergeVariable(current, updated) ==
  [name |-> updated.name, secret |-> updated.secret, key |-> updated.key,
   optional |-> IF updated.optional = "" THEN current.optional ELSE updated.optional]

\* Variant that leaves what is stored after the last new variable.
MergeEnvKeepsTail(current, updated) ==
  [i \in DOMAIN updated |-> IF i \in DOMAIN current THEN MergeVariable(current[i], updated[i]) ELSE updated[i]]
    \o SubSeq(current, Len(updated) + 1, Len(current))

\* An empty list is not part of the document.
MergeEnv(current, updated) ==
  IF updated = <<>> THEN current
  ELSE [i \in DOMAIN updated |->
          IF i \in DOMAIN current THEN MergeVariable(current[i], updated[i]) ELSE updated[i]]

-------------------------------------------------------------------------------
Init ==
  /\ spec \in Specs
  /\ global = None
  /\ login = FALSE
  /\ config = None
  /\ own = None
  /\ env = None
  /\ pc = "idle"
  /\ c = None
  /\ left = [edits |-> MaxEdits, changes |-> MaxChanges]

UserEdit ==
  \E s \in Specs \ {spec} :
    /\ left.edits > 0
    /\ left' = [left EXCEPT !.edits = @ - 1]
    /\ spec' = s
    /\ UNCHANGED <<global, login, config, own, env, pc, c>>

ChangeGlobal ==
  \E value \in {None, "one", "two"} \ {global} :
    /\ left.changes > 0
    /\ left' = [left EXCEPT !.changes = @ - 1]
    /\ global' = value
    /\ UNCHANGED <<spec, login, config, own, env, pc, c>>

ChangeLogin ==
  /\ left.changes > 0
  /\ left' = [left EXCEPT !.changes = @ - 1]
  /\ login' = ~login
  /\ UNCHANGED <<spec, global, config, own, env, pc, c>>

Begin ==
  /\ pc = "idle"
  /\ pc' = "config" /\ c' = spec
  /\ UNCHANGED <<spec, global, login, config, own, env, left>>

\* Variant that does not write a ConfigMap that is there.
CreateOrUpdateConfigOnce ==
  /\ pc = "config"
  /\ pc' = "secret"
  /\ config' = IF PipelineResolves(c) /\ config = None THEN [rv |-> 1, data |-> PipelineConfigYAML(c)] ELSE config
  /\ UNCHANGED <<spec, global, login, own, env, c, left>>

\* An error of a step is kept for the end, and the next step is taken.
CreateOrUpdateConfig ==
  /\ pc = "config"
  /\ pc' = "secret"
  /\ LET data == PipelineConfigYAML(c)
     IN  config' = CASE ~PipelineResolves(c) -> config
                     [] PipelineResolves(c) /\ config = None -> [rv |-> 1, data |-> data]
                     [] PipelineResolves(c) /\ config # None ->
                          IF config.data = data THEN config ELSE [rv |-> config.rv + 1, data |-> data]
  /\ UNCHANGED <<spec, global, login, own, env, c, left>>

\* The secret is left as it is, or missing, when the registry's data cannot be had.
CreateOrUpdateSecret ==
  /\ pc = "secret"
  /\ pc' = "deployment"
  /\ own' = IF RegistryResolves(c) THEN SchemaRegistryConfig(c) ELSE own
  /\ UNCHANGED <<spec, global, login, config, env, c, left>>

\* Variant that does not write a deployment that is there.
CreateOrUpdateDeploymentOnce ==
  /\ pc = "deployment"
  /\ pc' = "idle" /\ c' = None
  /\ IF config = None \/ own = None \/ c.version \notin Supported \/ env # None
       THEN env' = env
       ELSE env' \in RuntimeEnv(c, own)
  /\ UNCHANGED <<spec, global, login, config, own, left>>

\* Both objects are read back first.  Nothing is written without them, nor when there
\* are no arguments for the version: ForVersion returns an error for one that is not
\* known and panics for one that does not parse, and either ends the step.
CreateOrUpdateDeployment ==
  /\ pc = "deployment"
  /\ pc' = "idle" /\ c' = None
  /\ IF config = None \/ own = None \/ c.version \notin Supported
       THEN env' = env
       ELSE \E updated \in RuntimeEnv(c, own) :
              env' = MergeEnv(IF env = None THEN <<>> ELSE env, updated)
  /\ UNCHANGED <<spec, global, login, config, own, left>>

Reconcile == Begin \/ CreateOrUpdateConfig \/ CreateOrUpdateSecret \/ CreateOrUpdateDeployment

Next == UserEdit \/ ChangeGlobal \/ ChangeLogin \/ Reconcile

\* Every reconcile is followed by another.
Spec == Init /\ [][Next]_vars /\ WF_vars(Reconcile)

-------------------------------------------------------------------------------
Source(v) == [name |-> v.name, secret |-> v.secret, key |-> v.key]

\* The variable of every secret that a connector of the spec names, and one for each of
\* the keys of the operator's secret.
Declares(s, keys) ==
  {[name |-> envVarName(v.secret.key), secret |-> v.secret.name, key |-> v.secret.key] :
     v \in Range(SecretSettings(s))}
    \cup {[name |-> key, secret |-> OwnSecret, key |-> key] : key \in keys}

\* What a spec wants defined.
Declared == [s \in Specs |-> Declares(s, SchemaRegistryConfig(s))]

\* Although a variable is merged into whatever is stored at its place, every stored
\* variable takes one key of one secret, as some submitted spec says: never the name of
\* one variable and the source of another.
VariablesWhole ==
  env # None => {Source(v) : v \in Range(env)} \subseteq UNION {Declared[s] : s \in Specs}

\* The names pipeline.yaml refers to in the settings of connectors.
References(data) ==
  UNION {{data.connectors[i].settings[n].of :
            n \in {m \in DOMAIN data.connectors[i].settings :
                     data.connectors[i].settings[m].kind = "reference"}} :
         i \in DOMAIN data.connectors}

\* Whenever the deployment is written, by merging the variables into the stored ones
\* place by place, they are those of the one spec the reconcile works on and of the
\* operator's secret as it is stored, which is an older spec's when the registry's data
\* could not be had; and among them is every variable that the pipeline of the spec
\* refers to in a connector.
WrittenFromOneSpec ==
  [][pc = "deployment" /\ env' # env =>
       /\ {Source(v) : v \in Range(env')} = Declares(c, own)
       /\ References(PipelineConfigYAML(c)) \subseteq {v.name : v \in Range(env')}]_vars

\* In the end the deployment defines every variable that the connectors' settings in
\* pipeline.yaml refer to, although the two are written in different steps and either
\* may fail in between.  Not so when the pipeline cannot be rendered, or when there are
\* no arguments for the version: pipeline.yaml is then written and the deployment not.
ReferencesDefined ==
  <>[](config # None /\ env # None /\ PipelineResolves(spec) /\ spec.version \in Supported =>
         References(config.data) \subseteq {v.name : v \in Range(env)})

\* In the end the variables are those of the current spec, however the edits have moved
\* them about in the list, as long as there are arguments for its version and its
\* registry's data can be had; unless it has no variables, for an empty list is not
\* part of the document and those stored stay.
SourcesFollow ==
  <>[](env # None /\ spec.version \in Supported /\ RegistryResolves(spec) /\ Declared[spec] # {} =>
         {Source(v) : v \in Range(env)} = Declared[spec])

\* The deployment is not rewritten forever, although the variables of the secret come in
\* another order each time: every rewrite would start another pod.
Settles == <>[][env' = env]_vars
===============================================================================
