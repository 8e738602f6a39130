-------------------------- MODULE EnvironmentProofs --------------------------
(***************************************************************************)
(* What holds of the environment of the deployment for any specs, with any *)
(* number of connectors and settings.  A reconcile writes variables that   *)
(* come from the one spec it works on and from the operator's secret:      *)
(* collecting them, sorting them and merging them into the stored ones     *)
(* changes where a variable is, and whether it is optional, and never what *)
(* it is taken from.                                                       *)
(***************************************************************************)
EXTENDS Environment, ListProofs

Sources(e) == {Source(v) : v \in Range(e)}

\* The settings of the connectors of a spec that name a secret.
OfSecrets(s) ==
  UNION {{v \in Range(s.connectors[i].settings) : v.secret # None} : i \in DOMAIN s.connectors}

\* The loop over the settings of a connector keeps those that name a secret.
LEMMA FromSecretsAre ==
  ASSUME NEW settings, IsList(settings)
  PROVE  /\ IsList(FromSecrets(settings))
         /\ Range(FromSecrets(settings)) = {v \in Range(settings) : v.secret # None}
<1> DEFINE ss == [i \in DOMAIN settings |-> IF settings[i].secret # None THEN <<settings[i]>> ELSE <<>>]
<1>1. DOMAIN ss = DOMAIN settings /\ ss = [i \in DOMAIN settings |-> ss[i]]
  OBVIOUS
<1>2. \A i \in DOMAIN ss : ss[i] = <<>> \/ \E v : ss[i] = <<v>>
  OBVIOUS
<1>3. \A v : v \in Range(settings) /\ v.secret # None <=> \E i \in DOMAIN ss : ss[i] = <<v>>
  BY DEF Range
<1>4. FromSecrets(settings) = Concat(ss)
  BY DEF FromSecrets
<1> HIDE DEF ss
<1>5. IsList(ss)
  BY <1>1, MappedList
<1>6. IsList(Concat(ss)) /\ \A v : v \in Range(Concat(ss)) <=> \E i \in DOMAIN ss : ss[i] = <<v>>
  BY <1>2, <1>5, SelectedList
<1> QED BY <1>3, <1>4, <1>6

\* The loop over the connectors collects them all.
LEMMA SecretSettingsAre ==
  ASSUME NEW s \in Specs
  PROVE  IsList(SecretSettings(s)) /\ Range(SecretSettings(s)) = OfSecrets(s)
<1> DEFINE ss == [i \in DOMAIN s.connectors |-> FromSecrets(s.connectors[i].settings)]
<1>1. IsList(s.connectors) /\ \A i \in DOMAIN s.connectors : IsList(s.connectors[i].settings)
  BY SpecsAssumption
<1>2. \A i \in DOMAIN s.connectors :
        IsList(ss[i]) /\ Range(ss[i]) = {v \in Range(s.connectors[i].settings) : v.secret # None}
  BY <1>1, FromSecretsAre
<1>3. DOMAIN ss = DOMAIN s.connectors /\ ss = [i \in DOMAIN s.connectors |-> ss[i]]
  OBVIOUS
<1>4. SecretSettings(s) = Concat(ss)
  BY DEF SecretSettings
<1> HIDE DEF ss
<1>5. IsList(Concat(ss)) /\ Range(Concat(ss)) = UNION {Range(ss[i]) : i \in DOMAIN ss}
  BY <1>1, <1>2, <1>3, MappedList, ConcatList
<1>6. UNION {Range(ss[i]) : i \in DOMAIN ss} = OfSecrets(s)
  BY <1>2, <1>3 DEF OfSecrets
<1> QED BY <1>4, <1>5, <1>6

\* A name made of a word of the list has a place in the order of the names.
LEMMA RankOfName ==
  ASSUME NEW name, name.word \in Range(Words)
  PROVE  Rank(name) \in Int
<1>1. DOMAIN Words \subseteq Int
  BY SpecsAssumption DEF IsList
<1>2. \E i \in DOMAIN Words : Words[i] = name.word
  BY DEF Range
<1> QED BY <1>1, <1>2 DEF Rank

\* Sorting the variables loses none and adds none.
LEMMA SortedKeeps ==
  ASSUME NEW e, IsList(e), \A v \in Range(e) : v.name.word \in Range(Words)
  PROVE  IsList(Sorted(e)) /\ Range(Sorted(e)) = Range(e)
<1> DEFINE keys == [i \in DOMAIN e |-> Rank(e[i].name)]
           order == StableOrder(keys)
           new == [k \in DOMAIN e |-> e[order[k]]]
<1>1. DOMAIN e = 1 .. Len(e) /\ Len(e) \in Nat
  BY DEF IsList
<1>2. \A i \in DOMAIN e : Rank(e[i].name) \in Int
  BY RankOfName DEF Range
<1>3. keys \in Seq(Int) /\ DOMAIN keys = DOMAIN e
  BY <1>1, <1>2
<1>4. /\ order \in [DOMAIN e -> DOMAIN e]
      /\ \A i \in DOMAIN e : \E k \in DOMAIN e : order[k] = i
  <2> HIDE DEF keys
  <2> QED BY <1>3, StableOrderSorts
<1>5. Sorted(e) = new
  BY DEF Sorted
<1> HIDE DEF order, keys
<1>6. Range(new) = Range(e)
  BY <1>4 DEF Range
<1>7. new = [k \in DOMAIN e |-> new[k]]
  OBVIOUS
<1> HIDE DEF new
<1>8. IsList(new)
  BY <1>7, MappedList
<1> QED BY <1>5, <1>6, <1>8

\* EnvVars has one variable for every setting that names a secret, taken from it.
LEMMA EnvVarsAre ==
  ASSUME NEW s \in Specs
  PROVE  /\ IsList(EnvVars(s))
         /\ \A v \in Range(EnvVars(s)) : v.name.word \in Range(Words)
         /\ Sources(EnvVars(s)) =
              {[name |-> envVarName(v.secret.key), secret |-> v.secret.name, key |-> v.secret.key] :
                 v \in Range(SecretSettings(s))}
<1> DEFINE from == SecretSettings(s)
           Var(v) == Variable(envVarName(v.secret.key), v.secret)
           new == [i \in DOMAIN from |-> Var(from[i])]
<1>1. IsList(from) /\ Range(from) = OfSecrets(s)
  BY SecretSettingsAre
<1>2. EnvVars(s) = new
  BY DEF EnvVars
<1> HIDE DEF from
<1>3. \A v : v \in Range(from) <=> \E i \in DOMAIN from : v = from[i]
  BY DEF Range
<1>4. \A x : x \in Range(new) <=> \E v \in Range(from) : x = Var(v)
  BY <1>3 DEF Range
<1>5. IsList(new)
  <2>1. new = [i \in DOMAIN from |-> new[i]]
    OBVIOUS
  <2> HIDE DEF new
  <2> QED BY <1>1, <2>1, MappedList
<1> HIDE DEF new
<1>6. ASSUME NEW v \in Range(from)
      PROVE  /\ Var(v).name.word \in Range(Words)
             /\ Source(Var(v)) = [name |-> envVarName(v.secret.key), secret |-> v.secret.name, key |-> v.secret.key]
  <2>1. PICK i \in DOMAIN s.connectors : v \in Range(s.connectors[i].settings) /\ v.secret # None
    BY <1>1 DEF OfSecrets
  <2>2. v.secret.key.word \in Range(Words)
    BY <2>1, SpecsAssumption
  <2> QED BY <2>2 DEF Variable, envVarName, Key, Source
<1> HIDE DEF Var
<1>7. \A v \in Range(new) : v.name.word \in Range(Words)
  BY <1>4, <1>6
<1>8. Sources(new) =
        {[name |-> envVarName(v.secret.key), secret |-> v.secret.name, key |-> v.secret.key] : v \in Range(from)}
  BY <1>4, <1>6 DEF Sources
<1> QED BY <1>2, <1>5, <1>7, <1>8 DEF from

\* Whatever order the keys of the operator's secret come in, there is one variable for
\* each, taken from it.
LEMMA OwnVarsAre ==
  ASSUME NEW s \in Specs, NEW ownVars \in envVarsFromSecret(SchemaRegistryConfig(s))
  PROVE  /\ IsList(ownVars)
         /\ \A v \in Range(ownVars) : v.name.word \in Range(Words)
         /\ Sources(ownVars) =
              {[name |-> key, secret |-> OwnSecret, key |-> key] : key \in SchemaRegistryConfig(s)}
<1> DEFINE keys == SchemaRegistryConfig(s)
           Var(key) == Variable(key, [name |-> OwnSecret, key |-> key, optional |-> ""])
<1>1. PICK order \in Bijection(1 .. Cardinality(keys), keys) : ownVars = [i \in DOMAIN order |-> Var(order[i])]
  BY DEF envVarsFromSecret
<1>2. IsFiniteSet(keys) /\ \A key \in keys : key.word \in Range(Words)
  <2>1. CASE s.registry = ""
    BY <2>1, FS_EmptySet DEF SchemaRegistryConfig
  <2>2. CASE s.registry # ""
    <3>1. keys = {Key("type")} \cup {Key("connection")}
      BY <2>2 DEF SchemaRegistryConfig
    <3>2. IsFiniteSet({Key("type")}) /\ IsFiniteSet({Key("connection")})
      BY FS_Singleton
    <3>3. IsFiniteSet(keys)
      BY <3>1, <3>2, FS_Union
    <3>4. Key("type").word = "type" /\ Key("connection").word = "connection"
      BY DEF Key
    <3>5. \A key \in keys : key = Key("type") \/ key = Key("connection")
      BY <3>1
    <3>6. \A key \in keys : key.word \in Range(Words)
      BY <3>4, <3>5, SpecsAssumption
    <3> QED BY <3>3, <3>6
  <2> QED BY <2>1, <2>2
<1> HIDE DEF keys
<1>3. Cardinality(keys) \in Nat
  BY <1>2, FS_CardinalityType
<1>4. DOMAIN order = 1 .. Cardinality(keys) /\ order \in [1 .. Cardinality(keys) -> keys]
  BY DEF Bijection, Injection
<1>5. \A key : key \in keys <=> \E i \in DOMAIN order : key = order[i]
  BY <1>4 DEF Bijection, Surjection
<1>6. IsList(order)
  <2>1. order \in Seq(keys)
    BY <1>3, <1>4
  <2> QED BY <2>1, ListOfOwn
<1>7. \A x : x \in Range(ownVars) <=> \E key \in keys : x = Var(key)
  BY <1>1, <1>5 DEF Range
<1>8. IsList(ownVars)
  <2>1. ownVars = [i \in DOMAIN order |-> ownVars[i]]
    BY <1>1
  <2> QED BY <1>6, <2>1, MappedList
<1>9. \A key \in keys :
        Var(key).name = key /\ Source(Var(key)) = [name |-> key, secret |-> OwnSecret, key |-> key]
  BY DEF Variable, Source
<1> HIDE DEF Var
<1>10. \A v \in Range(ownVars) : v.name.word \in Range(Words)
  BY <1>2, <1>7, <1>9
<1>11. Sources(ownVars) = {[name |-> key, secret |-> OwnSecret, key |-> key] : key \in keys}
  BY <1>7, <1>9 DEF Sources
<1> QED BY <1>8, <1>10, <1>11 DEF keys

\* What a deployment may get defines exactly what the spec declares with the keys of the
\* operator's secret, which may be those of another spec.
LEMMA RuntimeEnvIs ==
  ASSUME NEW s \in Specs, NEW t \in Specs, NEW updated \in RuntimeEnv(s, SchemaRegistryConfig(t))
  PROVE  IsList(updated) /\ Sources(updated) = Declares(s, SchemaRegistryConfig(t))
<1> DEFINE keys == SchemaRegistryConfig(t)
           fromKeys == {[name |-> key, secret |-> OwnSecret, key |-> key] : key \in keys}
<1>1. Declares(s, keys) = Sources(EnvVars(s)) \cup fromKeys
  BY EnvVarsAre DEF Declares
<1>2. CASE keys = {}
  <2>1. updated = EnvVars(s)
    BY <1>2 DEF RuntimeEnv
  <2> QED BY <1>1, <1>2, <2>1, EnvVarsAre
<1>3. CASE keys # {}
  <2>1. PICK ownVars \in envVarsFromSecret(keys) : updated = Sorted(EnvVars(s) \o ownVars)
    BY <1>3 DEF RuntimeEnv
  <2> DEFINE e == EnvVars(s) \o ownVars
  <2>2. /\ IsList(EnvVars(s)) /\ IsList(ownVars)
        /\ \A v \in Range(EnvVars(s)) \cup Range(ownVars) : v.name.word \in Range(Words)
        /\ Sources(ownVars) = fromKeys
    BY EnvVarsAre, OwnVarsAre
  <2>3. IsList(e) /\ Range(e) = Range(EnvVars(s)) \cup Range(ownVars)
    BY <2>2, AppendedList
  <2>4. updated = Sorted(e)
    BY <2>1
  <2> HIDE DEF e
  <2>5. IsList(updated) /\ Range(updated) = Range(EnvVars(s)) \cup Range(ownVars)
    BY <2>2, <2>3, <2>4, SortedKeeps
  <2>6. Sources(updated) = Sources(EnvVars(s)) \cup Sources(ownVars)
    BY <2>5 DEF Sources
  <2> QED BY <1>1, <2>2, <2>5, <2>6
<1> QED BY <1>2, <1>3

\* Whatever is stored, the merge keeps what every new variable is taken from.
LEMMA MergeEnvKeeps ==
  ASSUME NEW current, NEW updated, updated # <<>>
  PROVE  Sources(MergeEnv(current, updated)) = Sources(updated)
<1> DEFINE new == MergeEnv(current, updated)
<1>1. \A v, w : Source(MergeVariable(v, w)) = Source(w)
  BY DEF MergeVariable, Source
<1>2. new = [i \in DOMAIN updated |->
               IF i \in DOMAIN current THEN MergeVariable(current[i], updated[i]) ELSE updated[i]]
  BY DEF MergeEnv
<1> HIDE DEF new
<1>3. DOMAIN new = DOMAIN updated /\ \A i \in DOMAIN updated : Source(new[i]) = Source(updated[i])
  BY <1>1, <1>2
<1>4. \A e, x : x \in Sources(e) <=> \E i \in DOMAIN e : x = Source(e[i])
  BY DEF Sources, Range
<1>5. \A x : x \in Sources(new) <=> x \in Sources(updated)
  BY <1>3, <1>4
<1> QED BY <1>5 DEF new

\* Of several settings with one name there is a last.
LEMMA LastSetting ==
  ASSUME NEW settings, IsList(settings), NEW name, \E i \in DOMAIN settings : settings[i].name = name
  PROVE  \E i \in DOMAIN settings :
           settings[i].name = name /\ \A j \in DOMAIN settings : j > i => settings[j].name # name
<1> DEFINE n == Len(settings)
           T == {k \in 0 .. n : n - k \in DOMAIN settings /\ settings[n - k].name = name}
<1>1. DOMAIN settings = 1 .. n /\ n \in Nat
  BY DEF IsList
<1> HIDE DEF n
<1>2. T \in SUBSET Nat /\ T # {}
  <2>1. PICK i \in DOMAIN settings : settings[i].name = name
    OBVIOUS
  <2>2. n - i \in 0 .. n /\ n - (n - i) = i
    BY <1>1
  <2>3. n - (n - i) \in DOMAIN settings /\ settings[n - (n - i)].name = name
    BY <2>1, <2>2
  <2>4. n - i \in T
    BY <2>2, <2>3
  <2>5. T \subseteq 0 .. n
    OBVIOUS
  <2> HIDE DEF T
  <2> QED BY <1>1, <2>4, <2>5
<1>3. PICK m \in T : \A k \in T : m <= k
  <2> HIDE DEF T
  <2> QED BY <1>2, LeastNumber
<1>4. ASSUME NEW j \in DOMAIN settings, j > n - m PROVE settings[j].name # name
  <2>1. n - j \in 0 .. n /\ n - (n - j) = j /\ n - j < m
    BY <1>1, <1>4
  <2>2. n - j \notin T
    BY <1>1, <1>3, <2>1
  <2> QED BY <2>1, <2>2
<1> QED BY <1>3, <1>4

\* Every name that the pipeline of a spec refers to in a connector is declared by it,
\* whatever the operator's secret has.
LEMMA ReferencesDeclared ==
  ASSUME NEW s \in Specs, NEW keys, NEW x \in References(PipelineConfigYAML(s))
  PROVE  \E d \in Declares(s, keys) : d.name = x
<1> DEFINE yaml == PipelineConfigYAML(s)
<1>1. /\ DOMAIN yaml.connectors = DOMAIN s.connectors
      /\ \A i \in DOMAIN s.connectors :
           yaml.connectors[i].settings = settingsWithEnvVars(s.connectors[i].settings)
  BY DEF PipelineConfigYAML, connectorConfig
<1> HIDE DEF yaml
<1>2. PICK i \in DOMAIN s.connectors :
        \E n \in DOMAIN yaml.connectors[i].settings :
          yaml.connectors[i].settings[n].kind = "reference" /\ x = yaml.connectors[i].settings[n].of
  BY <1>1 DEF References, yaml
<1> DEFINE settings == s.connectors[i].settings
<1>3. PICK n \in DOMAIN settingsWithEnvVars(settings) :
        /\ settingsWithEnvVars(settings)[n].kind = "reference"
        /\ x = settingsWithEnvVars(settings)[n].of
  BY <1>1, <1>2
<1>4. IsList(settings)
  BY SpecsAssumption
<1> DEFINE Last(k) == settings[k].name = n /\ \A j \in DOMAIN settings : j > k => settings[j].name # n
           v == settings[CHOOSE k \in DOMAIN settings : Last(k)]
<1> HIDE DEF settings
<1>5. /\ n \in {settings[k].name : k \in DOMAIN settings}
      /\ settingsWithEnvVars(settings)[n] =
           CASE TakesReference(v) -> Reference(v.secret.key)
             [] TakesConfigMap(v) -> Text(global)
             [] OTHER -> Text(v.value)
  BY <1>3 DEF settingsWithEnvVars
<1>6. \E k \in DOMAIN settings : Last(k)
  BY <1>4, <1>5, LastSetting
<1>7. v \in Range(settings)
  BY <1>6 DEF Range
<1> HIDE DEF v
<1>8. TakesReference(v)
  <2> SUFFICES ASSUME ~TakesReference(v) PROVE FALSE
    OBVIOUS
  <2>1. \A w : Text(w).kind = "text"
    BY DEF Text
  <2> QED BY <1>3, <1>5, <2>1
<1>9. x = envVarName(v.secret.key) /\ v.secret # None
  <2>1. ~TakesConfigMap(v)
    BY <1>8 DEF TakesConfigMap
  <2>2. settingsWithEnvVars(settings)[n] = Reference(v.secret.key)
    BY <1>5, <1>8, <2>1
  <2>3. v.secret # None
    BY <1>8 DEF TakesReference
  <2>4. Reference(v.secret.key).of = envVarName(v.secret.key)
    BY DEF Reference
  <2> QED BY <1>3, <2>2, <2>3, <2>4
<1>10. v \in Range(SecretSettings(s))
  BY <1>7, <1>9, SecretSettingsAre DEF OfSecrets, settings
<1>11. [name |-> envVarName(v.secret.key), secret |-> v.secret.name, key |-> v.secret.key]
         \in Declares(s, keys)
  BY <1>10 DEF Declares
<1> QED BY <1>9, <1>11

-------------------------------------------------------------------------------
\* The invariant: a reconcile works on a submitted spec, and what is stored, in the
\* operator's secret as in the environment, comes from submitted specs.
EnvInv ==
  /\ spec \in Specs
  /\ pc # "idle" => c \in Specs
  /\ own = None \/ \E s \in Specs : own = SchemaRegistryConfig(s)
  /\ VariablesWhole

\* The step that writes the deployment leaves the environment, or makes it the one of the
\* spec the reconcile works on and of the operator's secret, whatever was stored.
LEMMA DeploymentWritten ==
  ASSUME EnvInv, CreateOrUpdateDeployment, env' # env
  PROVE  /\ c \in Specs
         /\ \E t \in Specs : own = SchemaRegistryConfig(t)
         /\ Sources(env') = Declares(c, own)
<1> DEFINE current == IF env = None THEN <<>> ELSE env
<1>1. c \in Specs /\ \E t \in Specs : own = SchemaRegistryConfig(t)
  BY DEF EnvInv, CreateOrUpdateDeployment
<1>2. PICK updated \in RuntimeEnv(c, own) : env' = MergeEnv(current, updated)
  BY DEF CreateOrUpdateDeployment
<1>3. Sources(updated) = Declares(c, own)
  BY <1>1, RuntimeEnvIs
<1>4. CASE updated = <<>>
  <2>1. env' = current
    BY <1>2, <1>4 DEF MergeEnv
  <2>2. env' = <<>>
    BY <2>1
  <2> QED BY <1>1, <1>3, <1>4, <2>2
<1>5. CASE updated # <<>>
  BY <1>1, <1>2, <1>3, <1>5, MergeEnvKeeps
<1> QED BY <1>4, <1>5

\* The invariant holds.
THEOREM EnvInvariant == Spec => []EnvInv
<1>1. Init => EnvInv
  BY DEF Init, EnvInv, VariablesWhole
<1>2. EnvInv /\ [Next]_vars => EnvInv'
  <2> SUFFICES ASSUME EnvInv, [Next]_vars PROVE EnvInv'
    OBVIOUS
  <2>1. CASE UserEdit
    BY <2>1 DEF UserEdit, EnvInv, VariablesWhole
  <2>2. CASE ChangeGlobal \/ ChangeLogin
    BY <2>2 DEF ChangeGlobal, ChangeLogin, EnvInv, VariablesWhole
  <2>3. CASE Begin
    BY <2>3 DEF Begin, EnvInv, VariablesWhole
  <2>4. CASE CreateOrUpdateConfig
    BY <2>4 DEF CreateOrUpdateConfig, EnvInv, VariablesWhole
  <2>5. CASE CreateOrUpdateSecret
    BY <2>5 DEF CreateOrUpdateSecret, EnvInv, VariablesWhole
  <2>6. CASE CreateOrUpdateDeployment
    <3>1. spec' \in Specs /\ pc' = "idle"
      BY <2>6 DEF CreateOrUpdateDeployment, EnvInv
    <3>2. CASE env' = env
      BY <2>6, <3>1, <3>2 DEF CreateOrUpdateDeployment, EnvInv, VariablesWhole
    <3>3. CASE env' # env
      <4>1. c \in Specs /\ Sources(env') = Declares(c, own)
        BY <2>6, <3>3, DeploymentWritten
      <4>2. PICK t \in Specs : own = SchemaRegistryConfig(t)
        BY <2>6, <3>3, DeploymentWritten
      <4>3. Declares(c, own) \subseteq Declared[c] \cup Declared[t]
        BY <4>1, <4>2 DEF Declares, Declared
      <4>4. VariablesWhole'
        BY <4>1, <4>3 DEF VariablesWhole, Sources
      <4>5. own' = own
        BY <2>6 DEF CreateOrUpdateDeployment
      <4> QED BY <3>1, <4>4, <4>5 DEF EnvInv
    <3> QED BY <3>2, <3>3
  <2>7. CASE UNCHANGED vars
    BY <2>7 DEF vars, EnvInv, VariablesWhole
  <2> QED BY <2>1, <2>2, <2>3, <2>4, <2>5, <2>6, <2>7 DEF Next, Reconcile
<1> QED BY <1>1, <1>2, PTL DEF Spec

\* Every stored variable takes one key of one secret as some submitted spec says,
\* although it is merged into whatever is stored at its place.
THEOREM VariablesWholeCorrect == Spec => []VariablesWhole
<1>1. EnvInv => VariablesWhole
  BY DEF EnvInv
<1> QED BY <1>1, EnvInvariant, PTL

\* Whenever the deployment is written its variables are those of the spec the reconcile
\* works on and of the stored secret of the operator, with every one that the pipeline of
\* this spec refers to in a connector.
THEOREM WrittenFromOneSpecCorrect == Spec => WrittenFromOneSpec
<1> DEFINE Written ==
             pc = "deployment" /\ env' # env =>
               /\ {Source(v) : v \in Range(env')} = Declares(c, own)
               /\ References(PipelineConfigYAML(c)) \subseteq {v.name : v \in Range(env')}
<1>1. EnvInv /\ [Next]_vars => [Written]_vars
  <2> SUFFICES ASSUME EnvInv, Next, pc = "deployment", env' # env PROVE Written
    BY Zenon
  <2>1. CreateOrUpdateDeployment
    BY DEF Next, UserEdit, ChangeGlobal, ChangeLogin, Reconcile, Begin, CreateOrUpdateConfig, CreateOrUpdateSecret
  <2>2. c \in Specs /\ Sources(env') = Declares(c, own)
    BY <2>1, DeploymentWritten
  <2>3. ASSUME NEW x \in References(PipelineConfigYAML(c))
        PROVE  x \in {v.name : v \in Range(env')}
    <3>1. PICK d \in Declares(c, own) : d.name = x
      BY <2>2, ReferencesDeclared
    <3>2. PICK v \in Range(env') : d = Source(v)
      BY <2>2 DEF Sources
    <3> QED BY <3>1, <3>2 DEF Source
  <2> QED BY <2>2, <2>3 DEF Sources
<1> QED BY <1>1, EnvInvariant, PTL DEF Spec, WrittenFromOneSpec
==============================================================================
