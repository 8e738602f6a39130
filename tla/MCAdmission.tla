----------------------------- MODULE MCAdmission -----------------------------
(***************************************************************************)
(* Instances of Admission: one connector that is built in, built from a    *)
(* repository or refused, at most one processor, and two releases of a     *)
(* connector of which the later one has another required parameter.        *)
(***************************************************************************)
EXTENDS Admission

MCNames == {"kafka", "kafka-sink", "log", "file"}
MCOrgs == {"conduitio", "meroxa", "elsewhere"}
MCPartOf == {<<"kafka", "kafka-sink">>}

Release(org, name, version, required, known) ==
  [org |-> org, name |-> name, version |-> version,
   source      |-> [required |-> required, known |-> known],
   destination |-> [required |-> {}, known |-> {}]]

MCReleases ==
  {Release("conduitio", "kafka", "v1", {"topic"}, {"topic"}),
   Release("conduitio", "kafka", "v2", {"topic", "servers"}, {"topic", "servers"}),
   Release("meroxa", "kafka-sink", "v1", {}, {})}

Info(org, name, latest) == [org |-> org, name |-> name, parts |-> 2, latest |-> latest]

MCListings ==
  {<<Info("conduitio", "kafka", "v1"), Info("elsewhere", "kafka", "v1"),
     [Info("conduitio", "kafka", "") EXCEPT !.parts = 1]>>,
   <<Info("conduitio", "kafka", "v1"), Info("conduitio", "kafka", "v2"), Info("conduitio", "log", "")>>,
   <<Info("meroxa", "kafka-sink", "v1"), Info("conduitio", "kafka", "v1")>>}

MCSecrets == {[namespace |-> "team", name |-> "login", keys |-> {"topic"}]}

V(minor, patch, pre) == [major |-> 0, minor |-> minor, patch |-> patch, pre |-> pre]

MCDefaultVersion == V(13, 6, FALSE)

Named(form, org, name, case, tail) ==
  [form |-> form, org |-> org, name |-> name, case |-> case, tail |-> tail]

Value(name) == [name |-> name, value |-> "text", secret |-> NoSecret]

\* Of a setting taken from a ConfigMap the validator sees no value.
FromConfigMap(name) == [name |-> name, value |-> "", secret |-> NoSecret]

Reader(plugin, settings) ==
  [id |-> "", name |-> "reader", type |-> "source", plugin |-> plugin, pluginVersion |-> "",
   pluginName |-> None, pluginPkg |-> None, settings |-> settings, processors |-> <<>>]

Filter(url) == [id |-> "", name |-> "filter", plugin |-> "standalone", url |-> url, workers |-> 0]

Pipeline(connectors) ==
  [running |-> "", name |-> "", id |-> "", image |-> "", version |-> NoVersion, registry |-> "url",
   connectors |-> connectors, processors |-> <<>>]

Kafka == Pipeline(<<Reader(Named("bare", "", "kafka", "mixed", ""), {Value("topic")})>>)

Versioned == {[Pipeline(<<>>) EXCEPT !.version = v] :
                v \in {V(10, 0, FALSE), V(11, 2, FALSE), V(12, 0, FALSE), V(13, 4, FALSE), V(13, 5, FALSE),
                       V(14, 0, FALSE), V(13, 5, TRUE), Unparsable}}

WithProcessors ==
  {[Pipeline(<<>>) EXCEPT !.processors = <<Filter(url)>>] : url \in Urls \cup {""}}
    \cup {[Kafka EXCEPT !.connectors[1].processors = <<Filter("")>>, !.running = "false"]}

Plugged ==
  {Kafka,
   Pipeline(<<Reader(Named("builtin", "", "kafka", "lower", ""), {Value("topic"), Value("servers")})>>),
   Pipeline(<<Reader(Named("bare", "", "log", "lower", " "), {})>>),
   Pipeline(<<Reader(Named("repo", "conduitio", "kafka", "mixed", ""), {Value("topic")})>>),
   Pipeline(<<Reader(Named("Builtin", "", "kafka", "lower", ""), {FromConfigMap("topic")})>>),
   Pipeline(<<Reader(Named("url", "conduitio", "file", "lower", ""), {})>>)}

SecretInputs ==
  {Pipeline(<<Reader(Named("builtin", "", "kafka", "lower", ""),
                     {[name |-> "topic", value |-> "", secret |-> [name |-> "login", key |-> "topic"]]})>>)}

UrlInputs == {Pipeline(<<Reader(Named("url", "meroxa", "kafka-sink", "lower", ""), {})>>)}

StandaloneInputs == {Pipeline(<<Reader(Named("repo", "meroxa", "kafka-sink", "lower", ""), {})>>)}

Odd ==
  {[Pipeline(<<>>) EXCEPT !.registry = ""], [Pipeline(<<>>) EXCEPT !.registry = "unparsable"],
   [Kafka EXCEPT !.connectors[1].type = "sink"]}

MCInputs == Versioned \cup WithProcessors \cup Plugged \cup SecretInputs \cup UrlInputs \cup Odd

\* The module is there in the beginning.
MCInit == Init /\ \A url \in Urls : site.wasm[url] = "good"

\* The operator keeps trying to remove the finalizer; nobody else has to do anything.
MCSpec == MCInit /\ [][Next]_vars /\ WF_vars(RemoveFinalizer)
===============================================================================
