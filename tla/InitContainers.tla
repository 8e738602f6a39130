--------------------------- MODULE InitContainers ---------------------------
EXTENDS Lists

(***************************************************************************)
(* The init containers of a pod (conduit_containers.go): which scripts     *)
(* they are given, and what running them does to the persistent volume.    *)
(*                                                                         *)
(* A plugin is [org, base]: base is what filepath.Base returns.  Package   *)
(* paths, names and URLs are told apart by what they are put together      *)
(* from.  Contents of a file is the package or the URL it comes from.      *)
(* A connector is taken for a built-in one by the prefix builtin of its    *)
(* plugin, in small letters.  Its package is the one that is stored: the   *)
(* webhook does not touch it when it takes the connector for a built-in    *)
(* one, whatever the case of the prefix, and then it may be missing or     *)
(* left from another plugin.                                               *)
(*                                                                         *)
(* The pod is external.  Its init containers run one after the other, the  *)
(* commands of a script are joined by && and stop at the first that fails, *)
(* and a container that failed is started again, with its own files gone   *)
(* and those on the volume kept.                                           *)
(***************************************************************************)

CONSTANTS
  Specs,       \* records of a sequence of connectors and one of processors
  NoURL,       \* a processor without processorURL
  Published,   \* the packages that can be installed
  Edits,       \* how often the spec may change
  Faults       \* how often a command or the whole pod may fail

ASSUME SpecsAssumption ==
  \A s \in Specs :
    /\ IsList(s.connectors) /\ IsList(s.processors)
    /\ \A i \in DOMAIN s.connectors : IsList(s.connectors[i].processors)

VARIABLES
  template,    \* the pod's template and the spec it was made of
  dirs,        \* directories on the volume
  connectors,  \* files in the connectors directory, and what they were built from
  processors,  \* files in the processors directory, and where they came from
  tmp,         \* what the container that runs has built
  container,   \* index of that container; the server follows the last one
  step,        \* index of its next command
  edits,
  faults

volumeVars == <<dirs, connectors, processors>>
vars == <<template, volumeVars, tmp, container, step, edits, faults>>

Empty == [file \in {} |-> file]

Put(files, name, content) ==
  [n \in DOMAIN files \cup {name} |-> IF n = name THEN content ELSE files[n]]

-----------------------------------------------------------------------------
\* Builds and scripts

connectorBuild(c) == [name |-> <<c.plugin.base, c.version>>, goPkg |-> c.pluginPkg]

\* Variant that builds a plugin once, whatever its versions.
connectorKeyUnversioned(b) == b.goPkg.plugin

connectorKey(b) == b.goPkg

processorBuild(p) == [name |-> p.plugin, procURL |-> p.url]

processorKey(b) == b.name

\* Of the builds with one key the first is kept.
addBuild(builds, keys) ==
  Concat([i \in DOMAIN builds |->
            IF \E j \in 1 .. i - 1 : keys[j] = keys[i] THEN <<>> ELSE <<builds[i]>>])

ConnectorBuilds(cc) ==
  LET builds == Concat([i \in DOMAIN cc |-> IF cc[i].builtin THEN <<>> ELSE <<connectorBuild(cc[i])>>])
  IN  addBuild(builds, [i \in DOMAIN builds |-> connectorKey(builds[i])])

\* Variant that forgets the processors of connectors.
AllProcessorsOfPipeline(cc, cp) == cp

\* The pipeline's processors come first.
AllProcessors(cc, cp) == cp \o Concat([i \in DOMAIN cc |-> cc[i].processors])

Standalone(p) == ~p.builtin /\ p.url # NoURL

ProcessorBuilds(pp) ==
  LET builds == Concat([i \in DOMAIN pp |-> IF Standalone(pp[i]) THEN <<processorBuild(pp[i])>> ELSE <<>>])
  IN  addBuild(builds, [i \in DOMAIN builds |-> processorKey(builds[i])])

mkdir(names) == [op |-> "mkdir", dirs |-> names]

connectorSteps(b) ==
  <<mkdir({"connectors"}),
    [op |-> "go install", name |-> b.name, goPkg |-> b.goPkg],
    [op |-> "install", name |-> b.name]>>

processorSteps(b) == <<[op |-> "wget", file |-> b.procURL.base, url |-> b.procURL]>>

\* The method of whichever type of build it is.
steps(b) == IF "goPkg" \in DOMAIN b THEN connectorSteps(b) ELSE processorSteps(b)

renderScript(builds) == Concat([i \in DOMAIN builds |-> steps(builds[i])])

\* A container with nothing to do is left out.
appendContainer(containers, builds) ==
  IF builds = <<>> THEN containers ELSE Append(containers, renderScript(builds))

\* The scripts of the containers after the given ones.
containersAfter(containers, s) ==
  appendContainer(appendContainer(containers, ConnectorBuilds(s.connectors)),
                  ProcessorBuilds(AllProcessors(s.connectors, s.processors)))

\* Variant without the container that makes the directories.
ConduitInitContainersBare(s) == containersAfter(<<>>, s)

ConduitInitContainers(s) == containersAfter(<<<<mkdir({"processors", "connectors"})>>>>, s)

\* What the operator makes of the specs.
Templates == {[spec |-> s, initContainers |-> ConduitInitContainers(s)] : s \in Specs}

-----------------------------------------------------------------------------
\* The pod

Init ==
  /\ template \in Templates
  /\ dirs = {}
  /\ connectors = Empty
  /\ processors = Empty
  /\ tmp = Empty
  /\ container = 1
  /\ step = 1
  /\ edits = Edits
  /\ faults = Faults

Serving == container > Len(template.initContainers)

Script == template.initContainers[container]

Command == Script[step]

\* What a command needs: wget does not make the directory it writes to, and go install
\* finds only what there is.
Possible(cmd) ==
  /\ cmd.op = "wget" => "processors" \in dirs
  /\ cmd.op = "go install" => cmd.goPkg \in Published

\* The next command succeeds.
Run ==
  /\ ~Serving
  /\ step <= Len(Script)
  /\ Possible(Command)
  /\ dirs' = IF Command.op = "mkdir" THEN dirs \cup Command.dirs ELSE dirs
  /\ tmp' = IF Command.op = "go install" THEN Put(tmp, Command.name, Command.goPkg) ELSE tmp
  /\ connectors' = IF Command.op = "install"
                     THEN Put(connectors, Command.name, tmp[Command.name])
                     ELSE connectors
  /\ processors' = IF Command.op = "wget" THEN Put(processors, Command.file, Command.url) ELSE processors
  /\ step' = step + 1
  /\ UNCHANGED <<template, container, edits, faults>>

\* The container ends, and the next one starts with no files of its own.
Exit ==
  /\ ~Serving
  /\ step > Len(Script)
  /\ container' = container + 1
  /\ step' = 1
  /\ tmp' = Empty
  /\ UNCHANGED <<template, volumeVars, edits, faults>>

StartOver(first) ==
  /\ container' = first
  /\ step' = 1
  /\ tmp' = Empty

\* The next command fails: it has to, or the download breaks off.  wget then
\* leaves a file that is what no URL names.
Fail ==
  /\ ~Serving
  /\ step <= Len(Script)
  /\ IF Possible(Command)
       THEN faults > 0 /\ faults' = faults - 1
       ELSE UNCHANGED faults
  /\ processors' = IF Command.op = "wget" /\ Possible(Command)
                     THEN Put(processors, Command.file, NoURL)
                     ELSE processors
  /\ StartOver(container)
  /\ UNCHANGED <<template, dirs, connectors, edits>>

\* The pod is lost and replaced by another.
PodLost ==
  /\ faults > 0
  /\ faults' = faults - 1
  /\ StartOver(1)
  /\ UNCHANGED <<template, volumeVars, edits>>

\* The deployment has a new template: its pod takes the place of the one before
\* (strategy Recreate), on the same volume.
Rollout(new) ==
  /\ edits > 0
  /\ new # template
  /\ edits' = edits - 1
  /\ template' = new
  /\ StartOver(1)
  /\ UNCHANGED <<volumeVars, faults>>

Next ==
  \/ Run
  \/ Exit
  \/ Fail
  \/ PodLost
  \/ \E new \in Templates : Rollout(new)

Spec == Init /\ [][Next]_vars /\ WF_vars(Run \/ Exit)

-----------------------------------------------------------------------------
\* Properties

StandaloneConnectors == {c \in Range(template.spec.connectors) : ~c.builtin}

\* The package the webhook makes for a plugin that it does not take for built in.
PluginPkg(c) == [plugin |-> c.plugin, version |-> c.version]

\* No connector has a package that is not its own.
OwnPackages == \A c \in StandaloneConnectors : c.pluginPkg = PluginPkg(c)

\* The server starts with the binary of every standalone connector in place, provided
\* each has its own package.  It was built from that connector's package, unless another
\* listed connector has a file of the same name: then from one of theirs.  Without the
\* proviso a build is dropped for one with the same package and another name.
ConnectorsInstalled ==
  Serving /\ OwnPackages =>
    \A c \in StandaloneConnectors :
      LET name == connectorBuild(c).name
      IN  /\ name \in DOMAIN connectors
          /\ connectors[name] \in
               {d.pluginPkg : d \in {e \in StandaloneConnectors : connectorBuild(e).name = name}}

StandaloneProcessors ==
  {p \in Range(template.spec.processors)
           \cup UNION {Range(c.processors) : c \in Range(template.spec.connectors)} : Standalone(p)}

\* The server starts with a whole file for every standalone processor that has a
\* URL, wherever in the spec it is listed: the file of one of the URLs listed for
\* its name is there and is what some listed URL names, not what a broken download
\* or the pod of an earlier spec left behind.
ProcessorsInstalled ==
  Serving =>
    \A p \in StandaloneProcessors :
      \E q \in StandaloneProcessors :
        /\ q.plugin = p.plugin
        /\ q.url.base \in DOMAIN processors
        /\ processors[q.url.base] \in {r.url : r \in StandaloneProcessors}

\* Every package that is built can be installed.
PackagesPublished == \A c \in StandaloneConnectors : c.pluginPkg \in Published

\* Only a fault makes a command fail, as long as the packages can be installed: wherever
\* pods and containers were cut off before, the directory a download goes to is on the
\* volume by then, and the binary that is installed was built by the container that runs.
OnlyFaultsFail ==
  ~Serving /\ step <= Len(Script) =>
    /\ Command.op # "go install" \/ PackagesPublished => Possible(Command)
    /\ Command.op = "install" => Command.name \in DOMAIN tmp

\* Whatever an interrupted container left behind, running the scripts again gets
\* to the server, as long as the packages can be installed.
ServerStarts == <>[](PackagesPublished => Serving)
=============================================================================
