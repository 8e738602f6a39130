------------------------------- MODULE Plugins -------------------------------
(***************************************************************************)
(* The names of connector plugins: which ones are allowed                  *)
(* (pkg/conduit/plugin.go), what the webhook makes of them                 *)
(* (conduit_webhook.go, Default) and how the validator looks them up       *)
(* (conduit_validator.go).                                                 *)
(*                                                                         *)
(* A plugin as a user writes it is told apart by its form: kafka is bare,  *)
(* builtin:kafka builtin, the same with a capital letter in the prefix     *)
(* Builtin, conduitio/conduit-connector-kafka a repo and the same with     *)
(* github.com/ in front a url.  name is what is left without prefixes,     *)
(* conduit-connector- included; case tells whether there are capital       *)
(* letters in it and tail whether blanks follow it.                        *)
(***************************************************************************)

EXTENDS Naturals, Sequences

CONSTANTS
  Names,    \* the names of plugins
  Orgs,     \* the GitHub organizations
  PartOf    \* the pairs of names of which the first is contained in the second

allowedGitHubOrgs == {"conduitio", "conduitio-labs", "meroxa"}

\* Of the organization conduitio.
forbiddenConnectors == {"file"}

BuiltinConnectors == {"kafka", "generator", "s3", "postgres", "log"}

Forms == {"bare", "builtin", "Builtin", "repo", "url"}

Plugin ==
  [form : Forms, org : Orgs \cup {""}, name : Names,
   case : {"lower", "mixed"}, tail : {"", " "}]

ToLower(p) ==
  [form |-> IF p.form = "Builtin" THEN "builtin" ELSE p.form,
   org |-> p.org, name |-> p.name, case |-> "lower", tail |-> p.tail]

Trim(p) == [form |-> p.form, org |-> p.org, name |-> p.name, case |-> p.case, tail |-> ""]

ValidatePlugin(plugin) ==
  LET p == ToLower(Trim(plugin))
  IN  \/ p.form \in {"bare", "builtin"} /\ p.name \in BuiltinConnectors
      \/ /\ p.form \in {"repo", "url"}
         /\ p.org \in allowedGitHubOrgs
         /\ ~(p.org = "conduitio" /\ p.name \in forbiddenConnectors)

ValidatePluginType(type) == type \in {"source", "destination"}

-------------------------------------------------------------------------------
\* What Default derives from a plugin

\* One of the bare names, which Default completes; blanks are not removed here.
IsBuiltinName(p) == p.form = "bare" /\ p.name \in BuiltinConnectors /\ p.tail = ""

DefaultPlugin(p) ==
  IF IsBuiltinName(p)
    THEN [form |-> "builtin", org |-> "", name |-> p.name, case |-> "lower", tail |-> ""]
    ELSE p

\* The plugin runs in the server, as far as Default can tell.
TakenAsBuiltin(p) == IsBuiltinName(p) \/ ToLower(p).form = "builtin"

\* The name Conduit knows the plugin by: the plugin itself, or standalone: and the
\* last part of it.
PluginName(p) ==
  IF TakenAsBuiltin(p)
    THEN DefaultPlugin(p)
    ELSE [form |-> "standalone", org |-> "", name |-> p.name, case |-> p.case, tail |-> p.tail]

\* The plugin, part by part.
Path(p) ==
  CASE p.form = "url" -> <<"github.com", p.org, p.name>>
    [] p.form = "repo" -> <<p.org, p.name>>
    [] OTHER -> <<p.name>>

\* github.com/<plugin>/cmd/connector@<version>, whatever the form of the plugin.
PluginPkg(p, version) ==
  [path |-> <<"github.com">> \o Path(p), case |-> p.case, tail |-> p.tail, version |-> version]

-------------------------------------------------------------------------------
\* How the validator finds the plugin of a connector in its list

\* Variant that looks for the prefix and leaves it there.
formatPluginNameWithPrefix(pn) ==
  LET p == ToLower(pn)
  IN  CASE p.form = "bare" /\ p.tail = "" /\ p.name \in BuiltinConnectors -> p.name
        [] p.form \in {"repo", "url"} -> p.name
        [] OTHER -> ""

\* The repository of the plugin.  A name with one part that is not that of a
\* built-in connector, with or without builtin:, comes out empty.
formatPluginName(pn) ==
  LET p == ToLower(pn)
  IN  CASE p.form \in {"bare", "builtin"} /\ p.tail = "" /\ p.name \in BuiltinConnectors -> p.name
        [] p.form \in {"repo", "url"} -> p.name
        [] OTHER -> ""

\* strings.Contains, which the empty name satisfies with every other.
Contains(name, part) == part = "" \/ name = part \/ <<part, name>> \in PartOf

\* The plugins filterConnector may return: the list is a map, so the first that
\* contains the name may be any of them.
filterConnector(list, pn) == {p \in list : Contains(p.name, formatPluginName(pn))}

\* The version of the latest release, "" without one.
LatestRelease(info) == info.latest

\* What connectorList makes of the document: only names of two parts in allowed
\* organizations, and of several with one name the last.
connectorList(listing) ==
  LET Usable(i) == listing[i].parts = 2 /\ listing[i].org \in allowedGitHubOrgs
      Last(i)   == \A j \in DOMAIN listing : j > i /\ Usable(j) => listing[j].name # listing[i].name
  IN  {[org |-> listing[i].org, name |-> listing[i].name, version |-> LatestRelease(listing[i])] :
         i \in {j \in DOMAIN listing : Usable(j) /\ Last(j)}}
===============================================================================
