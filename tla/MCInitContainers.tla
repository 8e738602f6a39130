-------------------------- MODULE MCInitContainers --------------------------
(***************************************************************************)
(* Specs whose connectors and processors share packages, file names,       *)
(* plugin names or URLs, or have no package or another connector's.        *)
(***************************************************************************)
EXTENDS InitContainers, SequencesExt

Processor(plugin, url) == [builtin |-> FALSE, plugin |-> plugin, url |-> url]

URL(dir, base) == [dir |-> dir, base |-> base]

P1 == Processor("p", URL("d1", "p.wasm"))
P2 == Processor("p", URL("d1", "p2.wasm"))
Q1 == Processor("q", URL("d2", "p.wasm"))
NotDownloaded == Processor("r", NoURL)
BuiltinProcessor == [P1 EXCEPT !.builtin = TRUE]

Package(org, version) == [plugin |-> [org |-> org, base |-> "x"], version |-> version]

Connector(org, version, pp) ==
  [builtin |-> FALSE, plugin |-> [org |-> org, base |-> "x"], version |-> version,
   pluginPkg |-> Package(org, version), processors |-> pp]

\* Two versions of one plugin, another plugin with the same base, and a builtin.
SomeConnectors ==
  {Connector("conduitio", "v1", <<>>),
   Connector("conduitio", "v2", <<P2, NotDownloaded>>),
   Connector("meroxa", "v1", <<Q1>>),
   [Connector("conduitio", "v1", <<BuiltinProcessor, P1>>) EXCEPT !.builtin = TRUE]}

\* A connector the webhook takes for a built-in one and the init containers do not.
Capital(package) ==
  [builtin |-> FALSE, plugin |-> [org |-> "", base |-> "Builtin:x"], version |-> "v1",
   pluginPkg |-> package, processors |-> <<>>]

Left == Capital(Package("conduitio", "v1"))
Missing == Capital([plugin |-> [org |-> "", base |-> ""], version |-> ""])

\* Alone, before a connector with the package it was left with, and after another.
CapitalConnectors ==
  {<<Left>>, <<Left, Connector("conduitio", "v1", <<>>)>>, <<Missing>>, <<Connector("meroxa", "v1", <<>>), Missing>>}

SomeProcessors == {<<>>, <<P1>>, <<Q1, P2>>}

SomeSpecs ==
  [connectors : SeqOf(SomeConnectors, 2), processors : SomeProcessors]
    \cup [connectors : CapitalConnectors, processors : {<<P1>>}]

\* All but the empty one.
SomePackages == {Package("conduitio", "v1"), Package("conduitio", "v2"), Package("meroxa", "v1")}
=============================================================================
