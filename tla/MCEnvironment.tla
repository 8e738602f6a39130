---------------------------- MODULE MCEnvironment ----------------------------
(***************************************************************************)
(* An instance of Environment with keys that differ only in what a name of *)
(* a variable cannot show, lists that grow, shrink and move, a setting     *)
(* with a value and a secret, one from the global ConfigMap, specs with no *)
(* variables from connectors, from the registry or from either, and specs  *)
(* whose secret or whose deployment cannot be written.  A Conduit without  *)
(* a registry is one from before the webhook asked for it.                 *)
(***************************************************************************)
EXTENDS Environment

MCWords == <<"connection", "password", "type", "user">>

Secret(name, word, sep, optional) ==
  [name |-> name, key |-> [word |-> word, sep |-> sep, case |-> "lower"], optional |-> optional]

FromValue(name, value) == [name |-> name, value |-> value, secret |-> None, configMap |-> None]

FromSecret(name, value, secret) == [name |-> name, value |-> value, secret |-> secret, configMap |-> None]

FromGlobal(name) == [name |-> name, value |-> "", secret |-> None, configMap |-> "global"]

Of(registry, connectors, processors) ==
  [version |-> "v0.13.2", registry |-> registry, credentials |-> "",
   connectors |-> connectors, processors |-> processors]

Connector(settings) == [settings |-> settings, processors |-> <<>>]

Moved ==
  {Of("", <<Connector(<<FromValue("topic", "t")>>)>>, <<>>),
   Of("url", <<Connector(<<FromValue("topic", "t")>>)>>, <<>>),
   Of("", <<Connector(<<FromSecret("user", "", Secret("a", "user", ".", "")),
                        FromSecret("password", "", Secret("a", "password", ".", "true"))>>)>>, <<>>),
   Of("url", <<Connector(<<FromSecret("password", "", Secret("b", "password", "-", ""))>>),
               Connector(<<FromSecret("password", "", Secret("a", "password", "_", "")),
                           FromSecret("user", "me", Secret("b", "user", "_", ""))>>)>>,
      <<<<FromValue("field", "f"), FromValue("field", "g")>>>>),
   Of("url", <<[settings   |-> <<FromGlobal("topic"), FromSecret("user", "", Secret("a", "user", "-", ""))>>,
                processors |-> <<<<FromGlobal("field")>>>>]>>, <<>>)}

\* A version without arguments, a registry with credentials in a secret, and one whose
\* URL does not parse.
Failing ==
  {[Of("url", <<Connector(<<FromSecret("user", "", Secret("b", "user", "-", ""))>>)>>, <<>>)
      EXCEPT !.version = "v0.14.0"],
   [Of("url", <<Connector(<<FromSecret("password", "", Secret("a", "password", "-", ""))>>)>>, <<>>)
      EXCEPT !.credentials = "secret"],
   Of("unparsable", <<Connector(<<FromValue("topic", "t")>>)>>, <<>>)}

MCSpecs == Moved \cup Failing
===============================================================================
