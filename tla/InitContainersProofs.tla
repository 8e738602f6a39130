------------------------ MODULE InitContainersProofs ------------------------
(***************************************************************************)
(* The server finds the connectors and processors of its spec installed,   *)
(* for any specs, however often containers fail, pods are lost and specs   *)
(* change.  The first part is about the scripts: whatever is listed is     *)
(* built or downloaded, and a file is built before it is installed.  The   *)
(* second is about running them: what the commands that are done since the *)
(* pod started have put on the volume is there and is what the spec lists. *)
(***************************************************************************)
EXTENDS InitContainers, ListProofs

\* Of the builds with one key, one is kept, and nothing else.
LEMMA AddBuildKeeps ==
  ASSUME NEW builds, IsList(builds), NEW keys
  PROVE  /\ IsList(addBuild(builds, keys))
         /\ \A b \in Range(addBuild(builds, keys)) : \E i \in DOMAIN builds : b = builds[i]
         /\ \A i \in DOMAIN builds :
              \E j \in DOMAIN builds : keys[j] = keys[i] /\ builds[j] \in Range(addBuild(builds, keys))
<1> DEFINE First(i) == ~\E j \in 1 .. i - 1 : keys[j] = keys[i]
           ss == [i \in DOMAIN builds |->
                    IF \E j \in 1 .. i - 1 : keys[j] = keys[i] THEN <<>> ELSE <<builds[i]>>]
<1>1. DOMAIN ss = DOMAIN builds /\ ss = [i \in DOMAIN builds |-> ss[i]]
  OBVIOUS
<1>2. \A i \in DOMAIN builds :
        (ss[i] = <<>> \/ \E b : ss[i] = <<b>>) /\ \A b : ss[i] = <<b>> <=> First(i) /\ b = builds[i]
  OBVIOUS
<1>3. addBuild(builds, keys) = Concat(ss)
  BY DEF addBuild
<1>4. DOMAIN builds = 1 .. Len(builds) /\ Len(builds) \in Nat
  BY DEF IsList
<1>5. ASSUME NEW i \in DOMAIN builds
      PROVE  \E j \in DOMAIN builds : First(j) /\ keys[j] = keys[i]
  <2> DEFINE T == {j \in DOMAIN builds : keys[j] = keys[i]}
  <2>1. T \in SUBSET Nat /\ T # {}
    BY <1>4
  <2>2. PICK j \in T : \A k \in T : j <= k
    <3> HIDE DEF T
    <3> QED BY <2>1, LeastNumber
  <2>3. ASSUME NEW k \in 1 .. j - 1, keys[k] = keys[j] PROVE FALSE
    <3>1. k \in DOMAIN builds /\ k < j
      BY <1>4, <2>2
    <3>2. k \in T
      BY <2>2, <2>3, <3>1
    <3> QED BY <1>4, <2>2, <3>1, <3>2
  <2> QED BY <2>2, <2>3
<1> HIDE DEF ss, First
<1>6. IsList(ss)
  BY <1>1, MappedList
<1>7. IsList(Concat(ss)) /\ \A b : b \in Range(Concat(ss)) <=> \E i \in DOMAIN ss : ss[i] = <<b>>
  BY <1>1, <1>2, <1>6, SelectedList, Zenon
<1>8. \A b : b \in Range(Concat(ss)) <=> \E i \in DOMAIN builds : First(i) /\ b = builds[i]
  <2>1. ASSUME NEW b \in Range(Concat(ss)) PROVE \E i \in DOMAIN builds : First(i) /\ b = builds[i]
    <3>1. PICK i \in DOMAIN builds : ss[i] = <<b>>
      BY <1>1, <1>7
    <3>2. First(i) /\ b = builds[i]
      BY <1>2, <3>1
    <3> QED BY <3>2
  <2>2. ASSUME NEW i \in DOMAIN builds, First(i) PROVE builds[i] \in Range(Concat(ss))
    <3>1. ss[i] = <<builds[i]>>
      BY <1>2, <2>2
    <3> QED BY <1>1, <1>7, <3>1
  <2> QED BY <2>1, <2>2
<1> QED BY <1>3, <1>5, <1>7, <1>8

\* Every standalone connector of the list has the package of its plugin.
ListedOwn(cc) == \A c \in Range(cc) : ~c.builtin => c.pluginPkg = PluginPkg(c)

\* There are builds for standalone connectors and for nothing else, and if these have
\* their own packages, for every one: connectors that share a build then have the same
\* plugin and version, and so the same file name.
LEMMA ConnectorBuildsAre ==
  ASSUME NEW cc, IsList(cc)
  PROVE  /\ IsList(ConnectorBuilds(cc))
         /\ \A b \in Range(ConnectorBuilds(cc)) :
              \E c \in Range(cc) : ~c.builtin /\ b = connectorBuild(c)
         /\ ListedOwn(cc) =>
              \A c \in Range(cc) : ~c.builtin => connectorBuild(c) \in Range(ConnectorBuilds(cc))
<1> DEFINE ss == [i \in DOMAIN cc |-> IF cc[i].builtin THEN <<>> ELSE <<connectorBuild(cc[i])>>]
           builds == Concat(ss)
           keys == [i \in DOMAIN builds |-> connectorKey(builds[i])]
<1>1. DOMAIN ss = DOMAIN cc /\ ss = [i \in DOMAIN cc |-> ss[i]]
  OBVIOUS
<1>2. \A i \in DOMAIN ss : ss[i] = <<>> \/ \E b : ss[i] = <<b>>
  OBVIOUS
<1>3. \A b : (\E i \in DOMAIN ss : ss[i] = <<b>>) <=> \E c \in Range(cc) : ~c.builtin /\ b = connectorBuild(c)
  BY Zenon DEF Range
<1>4. ConnectorBuilds(cc) = addBuild(builds, keys) /\ \A i \in DOMAIN builds : keys[i] = connectorKey(builds[i])
  BY DEF ConnectorBuilds
<1> HIDE DEF ss, keys
<1>5. IsList(ss)
  BY <1>1, MappedList
<1>6. IsList(builds) /\ \A b : b \in Range(builds) <=> \E c \in Range(cc) : ~c.builtin /\ b = connectorBuild(c)
  BY <1>2, <1>3, <1>5, SelectedList
<1> HIDE DEF builds
<1>7. ASSUME ListedOwn(cc), NEW c \in Range(cc), NEW d \in Range(cc), ~c.builtin, ~d.builtin,
             connectorKey(connectorBuild(c)) = connectorKey(connectorBuild(d))
      PROVE  connectorBuild(c) = connectorBuild(d)
  <2>1. c.pluginPkg = d.pluginPkg
    BY <1>7 DEF connectorKey, connectorBuild
  <2>2. PluginPkg(c) = PluginPkg(d)
    BY <1>7, <2>1 DEF ListedOwn
  <2>3. c.plugin = d.plugin /\ c.version = d.version
    BY <2>2 DEF PluginPkg
  <2> QED BY <2>1, <2>3 DEF connectorBuild
<1>8. \A b : b \in Range(builds) <=> \E i \in DOMAIN builds : b = builds[i]
  BY DEF Range
<1>9. /\ IsList(addBuild(builds, keys))
      /\ \A b \in Range(addBuild(builds, keys)) : b \in Range(builds)
      /\ \A b \in Range(builds) :
           \E d \in Range(builds) : connectorKey(d) = connectorKey(b) /\ d \in Range(addBuild(builds, keys))
  <2> DEFINE kept == addBuild(builds, keys)
  <2>1. /\ IsList(kept) /\ \A b \in Range(kept) : \E i \in DOMAIN builds : b = builds[i]
        /\ \A i \in DOMAIN builds : \E j \in DOMAIN builds : keys[j] = keys[i] /\ builds[j] \in Range(kept)
    BY <1>6, AddBuildKeeps
  <2> HIDE DEF kept
  <2>2. \A i \in DOMAIN builds :
          \E j \in DOMAIN builds : connectorKey(builds[j]) = connectorKey(builds[i]) /\ builds[j] \in Range(kept)
    BY <1>4, <2>1
  <2> QED BY <1>8, <2>1, <2>2 DEF kept
<1>10. ASSUME ListedOwn(cc), NEW b \in Range(builds)
       PROVE  b \in Range(addBuild(builds, keys))
  <2>1. PICK d \in Range(builds) : connectorKey(d) = connectorKey(b) /\ d \in Range(addBuild(builds, keys))
    BY <1>9
  <2>2. PICK x \in Range(cc) : ~x.builtin /\ b = connectorBuild(x)
    BY <1>6
  <2>3. PICK y \in Range(cc) : ~y.builtin /\ d = connectorBuild(y)
    BY <1>6
  <2>4. d = b
    BY <1>7, <1>10, <2>1, <2>2, <2>3
  <2> QED BY <2>1, <2>4
<1> QED BY <1>4, <1>6, <1>9, <1>10

\* For every standalone processor there is a build of one with its name, and there are
\* no other builds.
LEMMA ProcessorBuildsAre ==
  ASSUME NEW pp, IsList(pp)
  PROVE  /\ IsList(ProcessorBuilds(pp))
         /\ \A b \in Range(ProcessorBuilds(pp)) :
              \E p \in Range(pp) : Standalone(p) /\ b = processorBuild(p)
         /\ \A p \in Range(pp) : Standalone(p) =>
              \E q \in Range(pp) : /\ Standalone(q) /\ q.plugin = p.plugin
                                   /\ processorBuild(q) \in Range(ProcessorBuilds(pp))
<1> DEFINE ss == [i \in DOMAIN pp |-> IF Standalone(pp[i]) THEN <<processorBuild(pp[i])>> ELSE <<>>]
           builds == Concat(ss)
           keys == [i \in DOMAIN builds |-> processorKey(builds[i])]
<1>1. DOMAIN ss = DOMAIN pp /\ ss = [i \in DOMAIN pp |-> ss[i]]
  OBVIOUS
<1>2. \A i \in DOMAIN ss : ss[i] = <<>> \/ \E b : ss[i] = <<b>>
  OBVIOUS
<1>3. \A b : (\E i \in DOMAIN ss : ss[i] = <<b>>) <=> \E p \in Range(pp) : Standalone(p) /\ b = processorBuild(p)
  BY Zenon DEF Range
<1>4. ProcessorBuilds(pp) = addBuild(builds, keys) /\ \A i \in DOMAIN builds : keys[i] = processorKey(builds[i])
  BY DEF ProcessorBuilds
<1> HIDE DEF ss, keys
<1>5. IsList(ss)
  BY <1>1, MappedList
<1>6. IsList(builds) /\ \A b : b \in Range(builds) <=> \E p \in Range(pp) : Standalone(p) /\ b = processorBuild(p)
  BY <1>2, <1>3, <1>5, SelectedList
<1> HIDE DEF builds
<1>7. \A p : processorKey(processorBuild(p)) = p.plugin
  BY DEF processorKey, processorBuild
<1>8. \A b : b \in Range(builds) <=> \E i \in DOMAIN builds : b = builds[i]
  BY DEF Range
<1>9. /\ IsList(addBuild(builds, keys))
      /\ \A b \in Range(addBuild(builds, keys)) : b \in Range(builds)
      /\ \A b \in Range(builds) :
           \E d \in Range(builds) : processorKey(d) = processorKey(b) /\ d \in Range(addBuild(builds, keys))
  <2> DEFINE kept == addBuild(builds, keys)
  <2>1. /\ IsList(kept) /\ \A b \in Range(kept) : \E i \in DOMAIN builds : b = builds[i]
        /\ \A i \in DOMAIN builds : \E j \in DOMAIN builds : keys[j] = keys[i] /\ builds[j] \in Range(kept)
    BY <1>6, AddBuildKeeps
  <2> HIDE DEF kept
  <2>2. \A i \in DOMAIN builds :
          \E j \in DOMAIN builds : processorKey(builds[j]) = processorKey(builds[i]) /\ builds[j] \in Range(kept)
    BY <1>4, <2>1
  <2> QED BY <1>8, <2>1, <2>2 DEF kept
<1>10. ASSUME NEW p \in Range(pp), Standalone(p)
       PROVE  \E q \in Range(pp) : /\ Standalone(q) /\ q.plugin = p.plugin
                                   /\ processorBuild(q) \in Range(addBuild(builds, keys))
  <2>1. processorBuild(p) \in Range(builds)
    BY <1>6, <1>10
  <2>2. PICK d \in Range(builds) : /\ processorKey(d) = processorKey(processorBuild(p))
                                   /\ d \in Range(addBuild(builds, keys))
    BY <1>9, <2>1
  <2>3. PICK q \in Range(pp) : Standalone(q) /\ d = processorBuild(q)
    BY <1>6
  <2> QED BY <1>7, <2>2, <2>3
<1> QED BY <1>4, <1>6, <1>9, <1>10

\* The steps of every build are in the script as a block, and there is nothing else in it.
LEMMA ScriptMade ==
  ASSUME NEW builds, IsList(builds), \A b \in Range(builds) : IsList(steps(b))
  PROVE  /\ IsList(renderScript(builds))
         /\ \A b \in Range(builds) : \E o \in Nat : Placed(renderScript(builds), steps(b), o)
         /\ \A k \in 1 .. Len(renderScript(builds)) :
              \E b \in Range(builds), o \in Nat : /\ Placed(renderScript(builds), steps(b), o)
                                                  /\ k - o \in 1 .. Len(steps(b))
<1> DEFINE ss == [i \in DOMAIN builds |-> steps(builds[i])]
<1>1. DOMAIN ss = DOMAIN builds /\ ss = [i \in DOMAIN builds |-> ss[i]]
  OBVIOUS
<1>2. \A i \in DOMAIN builds : ss[i] = steps(builds[i])
  OBVIOUS
<1>3. renderScript(builds) = Concat(ss)
  BY DEF renderScript
<1> HIDE DEF ss
<1>4. IsList(ss) /\ \A i \in DOMAIN ss : IsList(ss[i])
  <2>1. IsList(ss)
    BY <1>1, MappedList
  <2>2. \A i \in DOMAIN ss : IsList(ss[i])
    BY <1>1, <1>2 DEF Range
  <2> QED BY <2>1, <2>2
<1> DEFINE script == Concat(ss)
<1>5. IsList(script) /\ Made(script, ss, Len(ss))
  BY <1>4, ConcatList
<1>6. DOMAIN ss = 1 .. Len(ss)
  BY <1>4 DEF IsList
<1> HIDE DEF script
<1>7. ASSUME NEW b \in Range(builds) PROVE \E o \in Nat : Placed(script, steps(b), o)
  <2>1. PICK i \in DOMAIN builds : b = builds[i]
    BY DEF Range
  <2>2. PICK o : Placed(script, ss[i], o)
    BY <1>1, <1>5, <1>6 DEF Made
  <2>3. o \in Nat
    BY <2>2 DEF Placed
  <2> QED BY <1>2, <2>1, <2>2, <2>3
<1>8. ASSUME NEW k \in 1 .. Len(script)
      PROVE  \E b \in Range(builds), o \in Nat : Placed(script, steps(b), o) /\ k - o \in 1 .. Len(steps(b))
  <2>1. PICK i \in 1 .. Len(ss) : \E o : Placed(script, ss[i], o) /\ k - o \in 1 .. Len(ss[i])
    BY <1>5 DEF Made
  <2>2. PICK o : Placed(script, ss[i], o) /\ k - o \in 1 .. Len(ss[i])
    BY <2>1
  <2>3. i \in DOMAIN builds /\ ss[i] = steps(builds[i]) /\ builds[i] \in Range(builds)
    BY <1>1, <1>2, <1>6 DEF Range
  <2>4. o \in Nat
    BY <2>2 DEF Placed
  <2> QED BY <2>2, <2>3, <2>4
<1> QED BY <1>3, <1>5, <1>7, <1>8 DEF script

\* The steps of a connector's build.
LEMMA ConnectorStepsAre ==
  ASSUME NEW c, NEW st, st = steps(connectorBuild(c))
  PROVE  /\ IsList(st) /\ Len(st) = 3
         /\ st[1].op = "mkdir"
         /\ st[2].op = "go install" /\ st[2].name = connectorBuild(c).name /\ st[2].goPkg = c.pluginPkg
         /\ st[3].op = "install" /\ st[3].name = connectorBuild(c).name
<1> DEFINE b == connectorBuild(c)
           s1 == mkdir({"connectors"})
           s2 == [op |-> "go install", name |-> b.name, goPkg |-> b.goPkg]
           s3 == [op |-> "install", name |-> b.name]
<1>1. "goPkg" \in DOMAIN b /\ b.goPkg = c.pluginPkg
  BY DEF connectorBuild
<1>2. st = <<s1, s2, s3>>
  BY <1>1 DEF steps, connectorSteps
<1>3. /\ s1.op = "mkdir" /\ s2.op = "go install" /\ s2.name = b.name /\ s2.goPkg = c.pluginPkg
      /\ s3.op = "install" /\ s3.name = b.name
  BY <1>1 DEF mkdir
<1> HIDE DEF b, s1, s2, s3
<1>4. <<s1, s2, s3>> \in Seq({s1, s2, s3})
  OBVIOUS
<1>5. IsList(<<s1, s2, s3>>)
  BY <1>4, ListOfOwn, Zenon
<1>6. /\ Len(<<s1, s2, s3>>) = 3 /\ <<s1, s2, s3>>[1] = s1
      /\ <<s1, s2, s3>>[2] = s2 /\ <<s1, s2, s3>>[3] = s3
  OBVIOUS
<1> QED BY <1>2, <1>3, <1>5, <1>6 DEF b

\* The one step of a processor's build.
LEMMA ProcessorStepsAre ==
  ASSUME NEW p, NEW st, st = steps(processorBuild(p))
  PROVE  /\ IsList(st) /\ Len(st) = 1
         /\ st[1].op = "wget" /\ st[1].file = p.url.base /\ st[1].url = p.url
<1> DEFINE b == processorBuild(p)
           s1 == [op |-> "wget", file |-> b.procURL.base, url |-> b.procURL]
<1>1. "goPkg" \notin DOMAIN b /\ b.procURL = p.url
  BY DEF processorBuild
<1>2. st = <<s1>>
  BY <1>1 DEF steps, processorSteps
<1>3. s1.op = "wget" /\ s1.file = p.url.base /\ s1.url = p.url
  BY <1>1
<1> HIDE DEF b, s1
<1> QED BY <1>2, <1>3, ShortLists DEF b

\* A script builds and installs connectors from the list.
ConnectorScript(script, cc) ==
  /\ IsList(script)
  /\ \A k \in DOMAIN script :
       /\ script[k].op \in {"mkdir", "go install", "install"}
       /\ script[k].op = "go install" =>
            \E c \in Range(cc) : /\ ~c.builtin /\ script[k].name = connectorBuild(c).name
                                 /\ script[k].goPkg = c.pluginPkg
       /\ script[k].op = "install" =>
            \E j \in DOMAIN script : j < k /\ script[j].op = "go install" /\ script[j].name = script[k].name

\* The script of the connectors' builds does, and installs every standalone one if they
\* have their own packages.
LEMMA ConnectorScriptMade ==
  ASSUME NEW cc, IsList(cc)
  PROVE  LET script == renderScript(ConnectorBuilds(cc))
         IN  /\ ConnectorScript(script, cc)
             /\ ListedOwn(cc) =>
                  \A c \in Range(cc) : ~c.builtin =>
                    \E k \in DOMAIN script : script[k].op = "install" /\ script[k].name = connectorBuild(c).name
<1> DEFINE builds == ConnectorBuilds(cc)
           script == renderScript(builds)
<1>1. /\ IsList(builds)
      /\ \A b \in Range(builds) : \E c \in Range(cc) : ~c.builtin /\ b = connectorBuild(c)
      /\ ListedOwn(cc) => \A c \in Range(cc) : ~c.builtin => connectorBuild(c) \in Range(builds)
  BY ConnectorBuildsAre
<1> HIDE DEF builds
<1>2. \A b \in Range(builds) : IsList(steps(b))
  BY <1>1, ConnectorStepsAre, Zenon
<1>3. /\ IsList(script)
      /\ \A b \in Range(builds) : \E o \in Nat : Placed(script, steps(b), o)
      /\ \A k \in 1 .. Len(script) :
           \E b \in Range(builds), o \in Nat : Placed(script, steps(b), o) /\ k - o \in 1 .. Len(steps(b))
  BY <1>1, <1>2, ScriptMade
<1>4. DOMAIN script = 1 .. Len(script) /\ Len(script) \in Nat
  BY <1>3 DEF IsList
<1> HIDE DEF script
\* Where the commands of the build of c are.
<1>5. ASSUME NEW c \in Range(cc), NEW o \in Nat, Placed(script, steps(connectorBuild(c)), o)
      PROVE  /\ o + 1 \in DOMAIN script /\ o + 2 \in DOMAIN script /\ o + 3 \in DOMAIN script
             /\ script[o + 1].op = "mkdir"
             /\ script[o + 2].op = "go install" /\ script[o + 2].name = connectorBuild(c).name
             /\ script[o + 2].goPkg = c.pluginPkg
             /\ script[o + 3].op = "install" /\ script[o + 3].name = connectorBuild(c).name
  <2> DEFINE st == steps(connectorBuild(c))
  <2>1. /\ Len(st) = 3 /\ st[1].op = "mkdir"
        /\ st[2].op = "go install" /\ st[2].name = connectorBuild(c).name /\ st[2].goPkg = c.pluginPkg
        /\ st[3].op = "install" /\ st[3].name = connectorBuild(c).name
    BY ConnectorStepsAre, Zenon
  <2> HIDE DEF st
  <2>2. Len(st) = 3
    BY <2>1
  <2>3. o + 3 <= Len(script) /\ \A i \in 1 .. 3 : script[o + i] = st[i]
    BY <1>5, <2>2 DEF Placed, st
  <2>4. script[o + 1] = st[1] /\ script[o + 2] = st[2] /\ script[o + 3] = st[3]
    BY <2>3
  <2>5. o + 1 \in DOMAIN script /\ o + 2 \in DOMAIN script /\ o + 3 \in DOMAIN script
    BY <1>4, <2>3
  <2> QED BY <2>1, <2>4, <2>5
<1>6. ASSUME NEW k \in DOMAIN script
      PROVE  /\ script[k].op \in {"mkdir", "go install", "install"}
             /\ script[k].op = "go install" =>
                  \E c \in Range(cc) : /\ ~c.builtin /\ script[k].name = connectorBuild(c).name
                                       /\ script[k].goPkg = c.pluginPkg
             /\ script[k].op = "install" =>
                  \E j \in DOMAIN script : j < k /\ script[j].op = "go install" /\ script[j].name = script[k].name
  <2>1. PICK b \in Range(builds), o \in Nat : Placed(script, steps(b), o) /\ k - o \in 1 .. Len(steps(b))
    BY <1>3, <1>4, Zenon
  <2>2. PICK c \in Range(cc) : ~c.builtin /\ b = connectorBuild(c)
    BY <1>1
  <2>3. k - o \in 1 .. 3
    BY <2>1, <2>2, ConnectorStepsAre
  <2>4. /\ o + 2 \in DOMAIN script
        /\ script[o + 1].op = "mkdir"
        /\ script[o + 2].op = "go install" /\ script[o + 2].name = connectorBuild(c).name
        /\ script[o + 2].goPkg = c.pluginPkg
        /\ script[o + 3].op = "install" /\ script[o + 3].name = connectorBuild(c).name
    BY <1>5, <2>1, <2>2, Zenon
  <2>5. k = o + 1 \/ k = o + 2 \/ k = o + 3
    BY <1>4, <2>3
  <2>6. o + 2 < o + 3
    OBVIOUS
  <2>7. CASE k = o + 1
    BY <2>4, <2>7
  <2>8. CASE k = o + 2
    BY <2>2, <2>4, <2>8
  <2>9. CASE k = o + 3
    BY <2>4, <2>6, <2>9
  <2> QED BY <2>5, <2>7, <2>8, <2>9
<1>7. ASSUME ListedOwn(cc), NEW c \in Range(cc), ~c.builtin
      PROVE  \E k \in DOMAIN script : script[k].op = "install" /\ script[k].name = connectorBuild(c).name
  <2>1. PICK o \in Nat : Placed(script, steps(connectorBuild(c)), o)
    BY <1>1, <1>3, <1>7
  <2>2. o + 3 \in DOMAIN script /\ script[o + 3].op = "install" /\ script[o + 3].name = connectorBuild(c).name
    BY <1>5, <2>1
  <2> QED BY <2>2
<1>8. ConnectorScript(script, cc)
  BY <1>3, <1>6 DEF ConnectorScript
<1> QED BY <1>7, <1>8 DEF script, builds

\* A script downloads processors from the list.
ProcessorScript(script, pp) ==
  /\ IsList(script)
  /\ \A k \in DOMAIN script :
       /\ script[k].op = "wget"
       /\ \E p \in Range(pp) : Standalone(p) /\ script[k].file = p.url.base /\ script[k].url = p.url

\* The script of the processors' builds does, for every name that is listed.
LEMMA ProcessorScriptMade ==
  ASSUME NEW pp, IsList(pp)
  PROVE  LET script == renderScript(ProcessorBuilds(pp))
         IN  /\ ProcessorScript(script, pp)
             /\ \A p \in Range(pp) : Standalone(p) =>
                  \E q \in Range(pp) : /\ Standalone(q) /\ q.plugin = p.plugin
                                       /\ \E k \in DOMAIN script : script[k].file = q.url.base
<1> DEFINE builds == ProcessorBuilds(pp)
           script == renderScript(builds)
<1>1. /\ IsList(builds)
      /\ \A b \in Range(builds) : \E p \in Range(pp) : Standalone(p) /\ b = processorBuild(p)
      /\ \A p \in Range(pp) : Standalone(p) =>
           \E q \in Range(pp) : Standalone(q) /\ q.plugin = p.plugin /\ processorBuild(q) \in Range(builds)
  BY ProcessorBuildsAre
<1> HIDE DEF builds
<1>2. \A b \in Range(builds) : IsList(steps(b))
  BY <1>1, ProcessorStepsAre
<1>3. /\ IsList(script)
      /\ \A b \in Range(builds) : \E o \in Nat : Placed(script, steps(b), o)
      /\ \A k \in 1 .. Len(script) :
           \E b \in Range(builds), o \in Nat : Placed(script, steps(b), o) /\ k - o \in 1 .. Len(steps(b))
  BY <1>1, <1>2, ScriptMade
<1>4. DOMAIN script = 1 .. Len(script) /\ Len(script) \in Nat
  BY <1>3 DEF IsList
<1> HIDE DEF script
<1>5. ASSUME NEW p \in Range(pp), NEW o \in Nat, Placed(script, steps(processorBuild(p)), o)
      PROVE  /\ o + 1 \in DOMAIN script /\ script[o + 1].op = "wget"
             /\ script[o + 1].file = p.url.base /\ script[o + 1].url = p.url
  <2> DEFINE st == steps(processorBuild(p))
  <2>1. Len(st) = 1 /\ st[1].op = "wget" /\ st[1].file = p.url.base /\ st[1].url = p.url
    BY ProcessorStepsAre
  <2> HIDE DEF st
  <2>2. Len(st) = 1
    BY <2>1
  <2>3. o + 1 <= Len(script) /\ \A i \in 1 .. 1 : script[o + i] = st[i]
    BY <1>5, <2>2 DEF Placed, st
  <2>4. o + 1 \in DOMAIN script /\ script[o + 1] = st[1]
    BY <1>4, <2>3
  <2> QED BY <2>1, <2>4
<1>6. ASSUME NEW k \in DOMAIN script
      PROVE  /\ script[k].op = "wget"
             /\ \E p \in Range(pp) : Standalone(p) /\ script[k].file = p.url.base /\ script[k].url = p.url
  <2>1. PICK b \in Range(builds), o \in Nat : Placed(script, steps(b), o) /\ k - o \in 1 .. Len(steps(b))
    BY <1>3, <1>4, Zenon
  <2>2. PICK p \in Range(pp) : Standalone(p) /\ b = processorBuild(p)
    BY <1>1
  <2>3. k - o \in 1 .. 1
    BY <2>1, <2>2, ProcessorStepsAre, Zenon
  <2>4. k = o + 1
    BY <1>4, <2>3
  <2> QED BY <1>5, <2>1, <2>2, <2>4
<1>7. ASSUME NEW p \in Range(pp), Standalone(p)
      PROVE  \E q \in Range(pp) : /\ Standalone(q) /\ q.plugin = p.plugin
                                  /\ \E k \in DOMAIN script : script[k].file = q.url.base
  <2>1. PICK q \in Range(pp) : /\ Standalone(q) /\ q.plugin = p.plugin
                               /\ processorBuild(q) \in Range(builds)
    BY <1>1, <1>7
  <2>2. PICK o \in Nat : Placed(script, steps(processorBuild(q)), o)
    BY <1>3, <2>1
  <2>3. o + 1 \in DOMAIN script /\ script[o + 1].file = q.url.base
    BY <1>5, <2>2
  <2> QED BY <2>1, <2>3
<1>8. ProcessorScript(script, pp)
  BY <1>3, <1>6 DEF ProcessorScript
<1> QED BY <1>7, <1>8 DEF script, builds

\* The processors of the pipeline and those of all connectors.
LEMMA AllProcessorsAre ==
  ASSUME NEW s \in Specs
  PROVE  /\ IsList(AllProcessors(s.connectors, s.processors))
         /\ Range(AllProcessors(s.connectors, s.processors)) =
              Range(s.processors) \cup UNION {Range(c.processors) : c \in Range(s.connectors)}
<1> DEFINE cc == s.connectors
           ss == [i \in DOMAIN cc |-> cc[i].processors]
<1>1. IsList(cc) /\ IsList(s.processors) /\ \A i \in DOMAIN cc : IsList(cc[i].processors)
  BY SpecsAssumption
<1>2. DOMAIN ss = DOMAIN cc /\ ss = [i \in DOMAIN cc |-> ss[i]]
  OBVIOUS
<1>3. \A i \in DOMAIN cc : ss[i] = cc[i].processors
  OBVIOUS
<1>4. AllProcessors(cc, s.processors) = s.processors \o Concat(ss)
  BY DEF AllProcessors
<1> HIDE DEF ss
<1>5. IsList(ss) /\ \A i \in DOMAIN ss : IsList(ss[i])
  BY <1>1, <1>2, <1>3, MappedList, Zenon
<1>6. IsList(Concat(ss)) /\ Range(Concat(ss)) = UNION {Range(ss[i]) : i \in DOMAIN ss}
  BY <1>5, ConcatList
<1>7. UNION {Range(ss[i]) : i \in DOMAIN ss} = UNION {Range(c.processors) : c \in Range(cc)}
  <2>1. \A c : c \in Range(cc) <=> \E i \in DOMAIN cc : c = cc[i]
    BY DEF Range
  <2> QED BY <1>2, <1>3, <2>1
<1>8. /\ IsList(s.processors \o Concat(ss))
      /\ Range(s.processors \o Concat(ss)) = Range(s.processors) \cup Range(Concat(ss))
  BY <1>1, <1>6, AppendedList
<1> QED BY <1>4, <1>6, <1>7, <1>8

\* Which containers there are, which is the first, and that the one with the second
\* script is the last.
LEMMA ContainersAre ==
  ASSUME NEW f, NEW a, NEW b
  PROVE  LET S == appendContainer(appendContainer(<<f>>, a), b)
         IN  /\ IsList(S)
             /\ S[1] = f
             /\ \A k \in DOMAIN S : \/ S[k] = f \/ S[k] = renderScript(a)
                                    \/ S[k] = renderScript(b) /\ k = Len(S)
             /\ a # <<>> => \E k \in DOMAIN S : S[k] = renderScript(a)
             /\ b # <<>> => \E k \in DOMAIN S : S[k] = renderScript(b)
<1> DEFINE x == renderScript(a)
           y == renderScript(b)
           T == {f, x, y}
           first == appendContainer(<<f>>, a)
           S == appendContainer(first, b)
<1>1. /\ first \in Seq(T) /\ 1 \in DOMAIN first /\ first[1] = f
      /\ \A k \in DOMAIN first : first[k] = f \/ first[k] = x
      /\ a # <<>> => \E k \in DOMAIN first : first[k] = x
  <2>1. CASE a = <<>>
    <3>1. first = <<f>>
      BY <2>1 DEF appendContainer
    <3> HIDE DEF x, y, first
    <3>2. first \in Seq(T) /\ DOMAIN first = {1} /\ first[1] = f
      BY <3>1
    <3> QED BY <2>1, <3>2
  <2>2. CASE a # <<>>
    <3>1. first = Append(<<f>>, x)
      BY <2>2 DEF appendContainer
    <3> HIDE DEF x, y, first
    <3>2. first \in Seq(T) /\ DOMAIN first = 1 .. 2 /\ first[1] = f /\ first[2] = x
      BY <3>1
    <3> QED BY <3>2
  <2> QED BY <2>1, <2>2
<1> HIDE DEF first
<1>2. /\ S \in Seq(T) /\ S[1] = f
      /\ \A k \in DOMAIN S : S[k] = f \/ S[k] = x \/ (S[k] = y /\ k = Len(S))
      /\ a # <<>> => \E k \in DOMAIN S : S[k] = x
      /\ b # <<>> => \E k \in DOMAIN S : S[k] = y
  <2>1. CASE b = <<>>
    <3>1. S = first
      BY <2>1 DEF appendContainer
    <3> QED BY <1>1, <2>1, <3>1
  <2>2. CASE b # <<>>
    <3>1. S = Append(first, y)
      BY <2>2 DEF appendContainer
    <3> HIDE DEF x, y, S
    <3>2. y \in T
      OBVIOUS
    <3> HIDE DEF T
    <3>3. /\ S \in Seq(T) /\ DOMAIN first = 1 .. Len(first) /\ DOMAIN S = 1 .. Len(first) + 1
          /\ Len(S) = Len(first) + 1 /\ S[Len(first) + 1] = y /\ Len(first) \in Nat
          /\ \A k \in 1 .. Len(first) : S[k] = first[k]
      BY <1>1, <3>1, <3>2
    <3>4. \A k \in DOMAIN S : k \in DOMAIN first \/ k = Len(first) + 1
      BY <3>3
    <3>5. DOMAIN first \subseteq DOMAIN S /\ Len(first) + 1 \in DOMAIN S
      BY <3>3
    <3> QED BY <1>1, <3>3, <3>4, <3>5
  <2> QED BY <2>1, <2>2
<1> HIDE DEF S
<1>3. IsList(S)
  BY <1>2, ListOfOwn
<1> QED BY <1>2, <1>3 DEF S, first, x, y

ConnectorsOf(s) == {c \in Range(s.connectors) : ~c.builtin}

ProcessorsOf(s) ==
  {p \in Range(s.processors) \cup UNION {Range(c.processors) : c \in Range(s.connectors)} : Standalone(p)}

\* What the scripts of a pod do for its spec: they build and download only what it lists,
\* they install what they have built, all downloads are in the last container, and every
\* connector, if all have their own packages, and the name of every processor has its turn.
Contract(s, S) ==
  /\ IsList(S)
  /\ \A k \in DOMAIN S :
       /\ IsList(S[k])
       /\ \A j \in DOMAIN S[k] :
            /\ S[k][j].op = "go install" =>
                 \E c \in ConnectorsOf(s) : S[k][j].name = connectorBuild(c).name /\ S[k][j].goPkg = c.pluginPkg
            /\ S[k][j].op = "install" =>
                 \E i \in DOMAIN S[k] : i < j /\ S[k][i].op = "go install" /\ S[k][i].name = S[k][j].name
            /\ S[k][j].op = "wget" =>
                 k = Len(S) /\ \E p \in ProcessorsOf(s) : S[k][j].file = p.url.base /\ S[k][j].url = p.url
  /\ ListedOwn(s.connectors) =>
       \A c \in ConnectorsOf(s) :
         \E k \in DOMAIN S : \E j \in DOMAIN S[k] :
           S[k][j].op = "install" /\ S[k][j].name = connectorBuild(c).name
  /\ \A p \in ProcessorsOf(s) :
       \E q \in ProcessorsOf(s) :
         q.plugin = p.plugin /\ \E k \in DOMAIN S : \E j \in DOMAIN S[k] :
                                  S[k][j].op = "wget" /\ S[k][j].file = q.url.base

\* The scripts the operator makes keep the contract.
LEMMA ContractKept ==
  ASSUME NEW s \in Specs
  PROVE  Contract(s, ConduitInitContainers(s))
<1> DEFINE cc == s.connectors
           pp == AllProcessors(s.connectors, s.processors)
           f == <<mkdir({"processors", "connectors"})>>
           a == ConnectorBuilds(cc)
           b == ProcessorBuilds(pp)
           S == ConduitInitContainers(s)
<1>1. IsList(cc) /\ IsList(pp)
  BY SpecsAssumption, AllProcessorsAre
<1>2. \A p : p \in ProcessorsOf(s) <=> p \in Range(pp) /\ Standalone(p)
  BY AllProcessorsAre DEF ProcessorsOf
<1>3. S = appendContainer(appendContainer(<<f>>, a), b)
  BY DEF ConduitInitContainers, containersAfter
<1>4. IsList(f) /\ \A j \in DOMAIN f : f[j].op = "mkdir"
  BY ShortLists DEF mkdir
<1> HIDE DEF pp, f, S
<1>5. /\ ConnectorScript(renderScript(a), cc)
      /\ ListedOwn(cc) => \A c \in Range(cc) : ~c.builtin =>
           \E j \in DOMAIN renderScript(a) :
             renderScript(a)[j].op = "install" /\ renderScript(a)[j].name = connectorBuild(c).name
  BY <1>1, ConnectorScriptMade
<1>6. /\ ProcessorScript(renderScript(b), pp)
      /\ \A p \in Range(pp) : Standalone(p) =>
           \E q \in Range(pp) : /\ Standalone(q) /\ q.plugin = p.plugin
                                /\ \E j \in DOMAIN renderScript(b) : renderScript(b)[j].file = q.url.base
  BY <1>1, ProcessorScriptMade
<1>7. /\ ListedOwn(cc) => \A c \in Range(cc) : ~c.builtin => a # <<>>
      /\ \A p \in Range(pp) : Standalone(p) => b # <<>>
  <2>1. ListedOwn(cc) => \A c \in Range(cc) : ~c.builtin => connectorBuild(c) \in Range(a)
    BY <1>1, ConnectorBuildsAre
  <2>2. \A p \in Range(pp) : Standalone(p) => \E x : x \in Range(b)
    BY <1>1, ProcessorBuildsAre
  <2> HIDE DEF a, b
  <2> QED BY <2>1, <2>2, ShortLists
<1> HIDE DEF a, b
<1>8. /\ IsList(S)
      /\ \A k \in DOMAIN S : \/ S[k] = f \/ S[k] = renderScript(a)
                             \/ S[k] = renderScript(b) /\ k = Len(S)
      /\ a # <<>> => \E k \in DOMAIN S : S[k] = renderScript(a)
      /\ b # <<>> => \E k \in DOMAIN S : S[k] = renderScript(b)
  BY <1>3, ContainersAre
<1>9. ASSUME NEW k \in DOMAIN S
      PROVE  /\ IsList(S[k])
             /\ \A j \in DOMAIN S[k] :
                  /\ S[k][j].op = "go install" =>
                       \E c \in ConnectorsOf(s) :
                         S[k][j].name = connectorBuild(c).name /\ S[k][j].goPkg = c.pluginPkg
                  /\ S[k][j].op = "install" =>
                       \E i \in DOMAIN S[k] : i < j /\ S[k][i].op = "go install" /\ S[k][i].name = S[k][j].name
                  /\ S[k][j].op = "wget" =>
                       k = Len(S) /\ \E p \in ProcessorsOf(s) : S[k][j].file = p.url.base /\ S[k][j].url = p.url
  <2>1. CASE S[k] = f
    BY <1>4, <2>1, Zenon
  <2>2. CASE S[k] = renderScript(a)
    <3> DEFINE script == S[k]
    <3>1. ConnectorScript(script, cc)
      BY <1>5, <2>2
    <3> HIDE DEF script
    <3>2. /\ IsList(script)
          /\ \A j \in DOMAIN script :
               /\ script[j].op # "wget"
               /\ script[j].op = "go install" =>
                    \E c \in ConnectorsOf(s) :
                      script[j].name = connectorBuild(c).name /\ script[j].goPkg = c.pluginPkg
               /\ script[j].op = "install" =>
                    \E i \in DOMAIN script : i < j /\ script[i].op = "go install" /\ script[i].name = script[j].name
      BY <3>1, Zenon DEF ConnectorScript, ConnectorsOf
    <3> QED BY <3>2, Zenon DEF script
  <2>3. CASE S[k] = renderScript(b) /\ k = Len(S)
    <3> DEFINE script == S[k]
    <3>1. ProcessorScript(script, pp)
      BY <1>6, <2>3
    <3> HIDE DEF script
    <3>2. /\ IsList(script)
          /\ \A j \in DOMAIN script :
               /\ script[j].op = "wget"
               /\ \E p \in ProcessorsOf(s) : script[j].file = p.url.base /\ script[j].url = p.url
      BY <1>2, <3>1 DEF ProcessorScript
    <3> QED BY <2>3, <3>2, Zenon DEF script
  <2> QED BY <1>8, <2>1, <2>2, <2>3, Zenon
<1>10. ASSUME ListedOwn(cc), NEW c \in ConnectorsOf(s)
       PROVE  \E k \in DOMAIN S : \E j \in DOMAIN S[k] :
                S[k][j].op = "install" /\ S[k][j].name = connectorBuild(c).name
  <2>1. PICK k \in DOMAIN S : S[k] = renderScript(a)
    BY <1>7, <1>8, <1>10 DEF ConnectorsOf
  <2> QED BY <1>5, <1>10, <2>1 DEF ConnectorsOf
<1>11. ASSUME NEW p \in ProcessorsOf(s)
       PROVE  \E q \in ProcessorsOf(s) :
                q.plugin = p.plugin /\ \E k \in DOMAIN S : \E j \in DOMAIN S[k] :
                                         S[k][j].op = "wget" /\ S[k][j].file = q.url.base
  <2>1. PICK k \in DOMAIN S : S[k] = renderScript(b)
    BY <1>2, <1>7, <1>8
  <2>2. PICK q \in ProcessorsOf(s) :
          q.plugin = p.plugin /\ \E j \in DOMAIN renderScript(b) : renderScript(b)[j].file = q.url.base
    BY <1>2, <1>6
  <2> QED BY <1>6, <2>1, <2>2 DEF ProcessorScript
<1> QED BY <1>8, <1>9, <1>10, <1>11, Zenon DEF Contract, S
-----------------------------------------------------------------------------
Scripts == template.initContainers

\* The packages that connectors of the spec with this file name are built from.
Packages(name) ==
  {d.pluginPkg : d \in {e \in ConnectorsOf(template.spec) : connectorBuild(e).name = name}}

URLs == {r.url : r \in ProcessorsOf(template.spec)}

\* Command j of container k was run since the pod was started, and since then its
\* container was not.
Done(k, j) == k < container \/ (k = container /\ j < step)

\* The pod runs scripts of the operator.
Running == template \in Templates /\ container \in Nat \ {0} /\ step \in Nat \ {0}

\* What is built is what the spec lists, and all that the running container has been told
\* to build is there.
Built ==
  /\ \A n \in DOMAIN tmp : tmp[n] \in Packages(n)
  /\ container \in DOMAIN Scripts =>
       \A j \in DOMAIN Scripts[container] :
         j < step /\ Scripts[container][j].op = "go install" => Scripts[container][j].name \in DOMAIN tmp

\* What the commands that are done have put on the volume is there, and comes from the
\* spec.
Installed ==
  \A k \in DOMAIN Scripts : \A j \in DOMAIN Scripts[k] :
    Done(k, j) /\ Scripts[k][j].op = "install" =>
      /\ Scripts[k][j].name \in DOMAIN connectors
      /\ connectors[Scripts[k][j].name] \in Packages(Scripts[k][j].name)

Downloaded ==
  \A k \in DOMAIN Scripts : \A j \in DOMAIN Scripts[k] :
    Done(k, j) /\ Scripts[k][j].op = "wget" =>
      Scripts[k][j].file \in DOMAIN processors /\ processors[Scripts[k][j].file] \in URLs

PodInv == Running /\ Built /\ Installed /\ Downloaded

\* The scripts of a pod keep the contract with its spec.
LEMMA PodContract ==
  ASSUME NEW t \in Templates
  PROVE  Contract(t.spec, t.initContainers)
<1>1. PICK s \in Specs : t = [spec |-> s, initContainers |-> ConduitInitContainers(s)]
  BY DEF Templates
<1>2. t.spec = s /\ t.initContainers = ConduitInitContainers(s)
  BY <1>1
<1> QED BY <1>2, ContractKept

\* Where its commands are.
LEMMA PodPlaces ==
  ASSUME NEW t \in Templates, NEW S, S = t.initContainers
  PROVE  /\ DOMAIN S = 1 .. Len(S) /\ Len(S) \in Nat
         /\ \A k \in DOMAIN S : /\ k \in Nat /\ DOMAIN S[k] = 1 .. Len(S[k]) /\ Len(S[k]) \in Nat
                                /\ \A j \in DOMAIN S[k] : j \in Nat /\ j >= 1
<1>1. IsList(S) /\ \A k \in DOMAIN S : IsList(S[k])
  BY PodContract, Zenon DEF Contract
<1> QED BY <1>1, ListPlaces

\* What a new file does to a directory.
LEMMA PutFile ==
  ASSUME NEW files, NEW name, NEW content, NEW new, new = Put(files, name, content)
  PROVE  /\ \A n : n \in DOMAIN new <=> n \in DOMAIN files \/ n = name
         /\ new[name] = content
         /\ \A n \in DOMAIN files : n # name => new[n] = files[n]
BY DEF Put

\* When containers are started again, from the first or a later one on, nothing is done
\* but what is done by those before.
LEMMA StartedOver ==
  ASSUME template' \in Templates, NEW first \in Nat \ {0}, StartOver(first)
  PROVE  /\ Running' /\ Built'
         /\ \A k \in DOMAIN Scripts' : \A j \in DOMAIN Scripts'[k] : Done(k, j)' => k < first
<1>1. container' = first /\ step' = 1 /\ DOMAIN tmp' = {}
  BY DEF StartOver, Empty
<1>2. Running'
  BY <1>1 DEF Running
<1>3. \A k \in DOMAIN Scripts' : \A j \in DOMAIN Scripts'[k] : k \in Nat /\ j \in Nat /\ j >= 1
  BY PodPlaces DEF Scripts
<1>4. Built'
  <2>1. \A n \in DOMAIN tmp' : tmp'[n] \in Packages(n)'
    BY <1>1
  <2>2. ASSUME container' \in DOMAIN Scripts', NEW j \in DOMAIN Scripts'[container'] PROVE ~(j < step')
    <3>1. j \in Nat /\ j >= 1
      BY <1>3, <2>2
    <3> QED BY <1>1, <3>1
  <2> QED BY <2>1, <2>2 DEF Built
<1>5. ASSUME NEW k \in DOMAIN Scripts', NEW j \in DOMAIN Scripts'[k], Done(k, j)' PROVE k < first
  BY <1>1, <1>3, <1>5 DEF Done
<1> QED BY <1>2, <1>4, <1>5

\* A new pod has done nothing, so that nothing is asked of the volume.
LEMMA PodStarted ==
  ASSUME template' \in Templates, StartOver(1)
  PROVE  PodInv'
<1>1. Running' /\ Built' /\ \A k \in DOMAIN Scripts' : \A j \in DOMAIN Scripts'[k] : Done(k, j)' => k < 1
  BY StartedOver
<1>2. DOMAIN Scripts' = 1 .. Len(Scripts') /\ Len(Scripts') \in Nat
  BY PodPlaces DEF Scripts
<1>3. \A k \in DOMAIN Scripts' : ~(k < 1)
  BY <1>2
<1>4. Installed' /\ Downloaded'
  BY <1>1, <1>3 DEF Installed, Downloaded
<1> QED BY <1>1, <1>4 DEF PodInv

\* A container that ends has done all of its commands.
LEMMA ExitKeeps ==
  ASSUME PodInv, Exit
  PROVE  PodInv'
<1>1. template' = template /\ connectors' = connectors /\ processors' = processors
  BY DEF Exit, volumeVars
<1>2. /\ template \in Templates /\ container \in Nat \ {0} /\ step \in Nat \ {0}
  BY DEF PodInv, Running
<1>3. Scripts' = Scripts /\ (\A n : Packages(n)' = Packages(n)) /\ URLs' = URLs
  BY <1>1 DEF Scripts, Packages, URLs
<1>4. StartOver(container + 1) /\ container + 1 \in Nat \ {0}
  BY <1>2 DEF Exit, StartOver
<1>5. /\ Running' /\ Built'
      /\ \A k \in DOMAIN Scripts : \A j \in DOMAIN Scripts[k] : Done(k, j)' => k < container + 1
  BY <1>1, <1>2, <1>3, <1>4, StartedOver
<1>6. \A k \in DOMAIN Scripts : /\ k \in Nat /\ DOMAIN Scripts[k] = 1 .. Len(Scripts[k])
                                /\ Len(Scripts[k]) \in Nat
  BY <1>2, PodPlaces DEF Scripts
<1>7. ASSUME NEW k \in DOMAIN Scripts, NEW j \in DOMAIN Scripts[k], Done(k, j)' PROVE Done(k, j)
  <2>1. k < container \/ k = container
    BY <1>2, <1>5, <1>6, <1>7
  <2>2. CASE k < container
    BY <2>2 DEF Done
  <2>3. CASE k = container
    <3>1. step > Len(Scripts[k])
      BY <2>3 DEF Exit, Script, Scripts
    <3>2. j < step
      BY <1>2, <1>6, <3>1
    <3> QED BY <2>3, <3>2 DEF Done
  <2> QED BY <2>1, <2>2, <2>3
<1>8. Installed'
  BY <1>1, <1>3, <1>7 DEF PodInv, Installed
<1>9. Downloaded'
  BY <1>1, <1>3, <1>7 DEF PodInv, Downloaded
<1> QED BY <1>5, <1>8, <1>9 DEF PodInv

\* A broken download is in the container that starts again: no other has downloads that
\* would count as done.
LEMMA FailKeeps ==
  ASSUME PodInv, Fail
  PROVE  PodInv'
<1>1. template' = template /\ connectors' = connectors /\ StartOver(container)
  BY DEF Fail
<1>2. template \in Templates /\ container \in Nat \ {0}
  BY DEF PodInv, Running
<1>3. Scripts' = Scripts /\ (\A n : Packages(n)' = Packages(n)) /\ URLs' = URLs
  BY <1>1 DEF Scripts, Packages, URLs
<1>4. /\ Running' /\ Built'
      /\ \A k \in DOMAIN Scripts : \A j \in DOMAIN Scripts[k] : Done(k, j)' => k < container
  BY <1>1, <1>2, <1>3, StartedOver
<1>5. Installed'
  <2>1. \A k \in DOMAIN Scripts : \A j \in DOMAIN Scripts[k] : Done(k, j)' => Done(k, j)
    BY <1>4 DEF Done
  <2> QED BY <1>1, <1>3, <2>1 DEF PodInv, Installed
<1>6. ASSUME NEW k \in DOMAIN Scripts, NEW j \in DOMAIN Scripts[k], Done(k, j)', Scripts[k][j].op = "wget"
      PROVE  FALSE
  <2>1. k < container
    BY <1>4, <1>6
  <2>2. k = Len(Scripts)
    BY <1>2, <1>6, PodContract, Zenon DEF Contract, Scripts
  <2>3. ~(container > Len(Scripts)) /\ Len(Scripts) \in Nat
    BY <1>2, PodPlaces DEF Fail, Serving, Scripts
  <2> QED BY <1>2, <2>1, <2>2, <2>3
<1>7. Downloaded'
  BY <1>3, <1>6 DEF Downloaded
<1> QED BY <1>4, <1>5, <1>7 DEF PodInv

\* A command that succeeds does its part.
LEMMA RunKeeps ==
  ASSUME PodInv, Run
  PROVE  PodInv'
<1> DEFINE cmd == Scripts[container][step]
<1>1. /\ template' = template /\ container' = container /\ step' = step + 1
  BY Zenon DEF Run
<1>2. /\ template \in Templates /\ container \in Nat \ {0} /\ step \in Nat \ {0}
  BY DEF PodInv, Running
<1>3. Scripts' = Scripts /\ (\A n : Packages(n)' = Packages(n)) /\ URLs' = URLs
  BY <1>1 DEF Scripts, Packages, URLs
<1>4. container \in DOMAIN Scripts /\ step \in DOMAIN Scripts[container]
  <2>1. /\ DOMAIN Scripts = 1 .. Len(Scripts) /\ Len(Scripts) \in Nat
        /\ \A k \in DOMAIN Scripts : DOMAIN Scripts[k] = 1 .. Len(Scripts[k]) /\ Len(Scripts[k]) \in Nat
    BY <1>2, PodPlaces DEF Scripts
  <2>2. ~(container > Len(Scripts)) /\ step <= Len(Scripts[container])
    BY DEF Run, Serving, Script, Scripts
  <2>3. container \in DOMAIN Scripts
    BY <1>2, <2>1, <2>2
  <2> QED BY <1>2, <2>1, <2>2, <2>3
<1>5. \A k \in DOMAIN Scripts : \A j \in DOMAIN Scripts[k] : k \in Nat /\ j \in Nat
  BY <1>2, PodPlaces DEF Scripts
<1>6. /\ tmp' = IF cmd.op = "go install" THEN Put(tmp, cmd.name, cmd.goPkg) ELSE tmp
      /\ connectors' = IF cmd.op = "install" THEN Put(connectors, cmd.name, tmp[cmd.name]) ELSE connectors
      /\ processors' = IF cmd.op = "wget" THEN Put(processors, cmd.file, cmd.url) ELSE processors
  BY Zenon DEF Run, Command, Script, Scripts
<1>7. Contract(template.spec, Scripts)
  BY <1>2, PodContract DEF Scripts
<1>8. /\ cmd.op = "go install" => cmd.goPkg \in Packages(cmd.name)
      /\ cmd.op = "install" =>
           \E i \in DOMAIN Scripts[container] :
             i < step /\ Scripts[container][i].op = "go install" /\ Scripts[container][i].name = cmd.name
      /\ cmd.op = "wget" => cmd.url \in URLs
  <2>1. cmd.op = "go install" => cmd.goPkg \in Packages(cmd.name)
    <3>1. cmd.op = "go install" =>
            \E c \in ConnectorsOf(template.spec) : cmd.name = connectorBuild(c).name /\ cmd.goPkg = c.pluginPkg
      BY <1>4, <1>7, Zenon DEF Contract
    <3> HIDE DEF cmd
    <3> QED BY <3>1, Zenon DEF Packages
  <2>2. cmd.op = "install" =>
          \E i \in DOMAIN Scripts[container] :
            i < step /\ Scripts[container][i].op = "go install" /\ Scripts[container][i].name = cmd.name
    BY <1>4, <1>7, Zenon DEF Contract
  <2>3. cmd.op = "wget" => cmd.url \in URLs
    <3>1. cmd.op = "wget" => \E p \in ProcessorsOf(template.spec) : cmd.url = p.url
      BY <1>4, <1>7, Zenon DEF Contract
    <3> HIDE DEF cmd
    <3> QED BY <3>1 DEF URLs
  <2> QED BY <2>1, <2>2, <2>3, Zenon
<1>9. \A k \in DOMAIN Scripts : \A j \in DOMAIN Scripts[k] :
        Done(k, j)' => Done(k, j) \/ (k = container /\ j = step)
  BY <1>1, <1>2, <1>5 DEF Done
<1>10. Running'
  BY <1>1, <1>2 DEF Running
<1> HIDE DEF cmd
<1>11. ASSUME NEW j \in Nat PROVE j < step' <=> j < step \/ j = step
  <2>1. step' = step + 1 /\ step \in Nat
    BY <1>1, <1>2
  <2> QED BY <2>1
<1>12. Built'
  <2>1. CASE cmd.op = "go install"
    <3>1. /\ \A n : n \in DOMAIN tmp' <=> n \in DOMAIN tmp \/ n = cmd.name
          /\ tmp'[cmd.name] = cmd.goPkg /\ \A n \in DOMAIN tmp : n # cmd.name => tmp'[n] = tmp[n]
      <4>1. tmp' = Put(tmp, cmd.name, cmd.goPkg)
        BY <1>6, <2>1
      <4> QED BY <4>1, PutFile
    <3>2. \A n \in DOMAIN tmp' : tmp'[n] \in Packages(n)
      BY <1>8, <2>1, <3>1 DEF PodInv, Built
    <3>3. ASSUME NEW j \in DOMAIN Scripts[container], j < step', Scripts[container][j].op = "go install"
          PROVE  Scripts[container][j].name \in DOMAIN tmp'
      <4>1. j \in Nat
        BY <1>4, <1>5
      <4>2. j < step \/ j = step
        BY <1>11, <3>3, <4>1
      <4>3. CASE j < step
        BY <1>4, <3>1, <3>3, <4>3, Zenon DEF PodInv, Built
      <4>4. CASE j = step
        BY <3>1, <4>4 DEF cmd
      <4> QED BY <4>2, <4>3, <4>4
    <3> QED BY <1>1, <1>3, <3>2, <3>3, Zenon DEF Built
  <2>2. CASE cmd.op # "go install"
    <3>1. tmp' = tmp
      BY <1>6, <2>2, Zenon
    <3>2. ASSUME NEW j \in DOMAIN Scripts[container], j < step', Scripts[container][j].op = "go install"
          PROVE  j < step
      <4>1. j \in Nat /\ j # step
        BY <1>4, <1>5, <2>2, <3>2 DEF cmd
      <4> QED BY <1>11, <3>2, <4>1
    <3> QED BY <1>1, <1>3, <1>4, <3>1, <3>2, Zenon DEF PodInv, Built
  <2> QED BY <2>1, <2>2
<1>13. Installed'
  <2> SUFFICES ASSUME NEW k \in DOMAIN Scripts, NEW j \in DOMAIN Scripts[k],
                      Done(k, j)', Scripts[k][j].op = "install"
               PROVE  /\ Scripts[k][j].name \in DOMAIN connectors'
                      /\ connectors'[Scripts[k][j].name] \in Packages(Scripts[k][j].name)
    BY <1>3 DEF Installed
  <2> DEFINE n == Scripts[k][j].name
  <2>1. (n \in DOMAIN connectors /\ connectors[n] \in Packages(n)) \/ (k = container /\ j = step)
    BY <1>9 DEF PodInv, Installed
  <2>2. CASE cmd.op = "install"
    <3>1. tmp[cmd.name] \in Packages(cmd.name)
      BY <1>4, <1>8, <2>2 DEF PodInv, Built
    <3>2. /\ \A x : x \in DOMAIN connectors' <=> x \in DOMAIN connectors \/ x = cmd.name
          /\ connectors'[cmd.name] = tmp[cmd.name]
          /\ \A x \in DOMAIN connectors : x # cmd.name => connectors'[x] = connectors[x]
      BY <1>6, <2>2, PutFile
    <3>3. (n \in DOMAIN connectors /\ connectors[n] \in Packages(n)) \/ n = cmd.name
      BY <2>1 DEF cmd
    <3> HIDE DEF n
    <3>4. n \in DOMAIN connectors' /\ connectors'[n] \in Packages(n)
      BY <3>1, <3>2, <3>3
    <3> QED BY <3>4 DEF n
  <2>3. CASE cmd.op # "install"
    <3>1. ~(k = container /\ j = step)
      BY <2>3 DEF cmd
    <3> QED BY <1>6, <2>1, <2>3, <3>1, Zenon
  <2> QED BY <2>2, <2>3
<1>14. Downloaded'
  <2> SUFFICES ASSUME NEW k \in DOMAIN Scripts, NEW j \in DOMAIN Scripts[k],
                      Done(k, j)', Scripts[k][j].op = "wget"
               PROVE  /\ Scripts[k][j].file \in DOMAIN processors'
                      /\ processors'[Scripts[k][j].file] \in URLs
    BY <1>3 DEF Downloaded
  <2> DEFINE n == Scripts[k][j].file
  <2>1. (n \in DOMAIN processors /\ processors[n] \in URLs) \/ (k = container /\ j = step)
    BY <1>9 DEF PodInv, Downloaded
  <2>2. CASE cmd.op = "wget"
    <3>1. /\ \A x : x \in DOMAIN processors' <=> x \in DOMAIN processors \/ x = cmd.file
          /\ processors'[cmd.file] = cmd.url
          /\ \A x \in DOMAIN processors : x # cmd.file => processors'[x] = processors[x]
      BY <1>6, <2>2, PutFile
    <3>2. (n \in DOMAIN processors /\ processors[n] \in URLs) \/ n = cmd.file
      BY <2>1 DEF cmd
    <3> HIDE DEF n
    <3>3. n \in DOMAIN processors' /\ processors'[n] \in URLs
      BY <1>8, <2>2, <3>1, <3>2
    <3> QED BY <3>3 DEF n
  <2>3. CASE cmd.op # "wget"
    <3>1. ~(k = container /\ j = step)
      BY <2>3 DEF cmd
    <3> QED BY <1>6, <2>1, <2>3, <3>1, Zenon
  <2> QED BY <2>2, <2>3
<1> QED BY <1>10, <1>12, <1>13, <1>14 DEF PodInv

\* The invariant holds.
THEOREM PodInvariant == Spec => []PodInv
<1>1. Init => PodInv
  <2> SUFFICES ASSUME Init PROVE PodInv
    OBVIOUS
  <2>1. Running /\ container = 1 /\ step = 1 /\ DOMAIN tmp = {}
    BY DEF Init, Running, Empty
  <2>2. \A k \in DOMAIN Scripts : \A j \in DOMAIN Scripts[k] : k \in Nat /\ k >= 1 /\ j \in Nat /\ j >= 1
    <3>1. /\ DOMAIN Scripts = 1 .. Len(Scripts) /\ Len(Scripts) \in Nat
          /\ \A k \in DOMAIN Scripts : \A j \in DOMAIN Scripts[k] : j \in Nat /\ j >= 1
      BY <2>1, PodPlaces, Zenon DEF Running, Scripts
    <3> QED BY <3>1
  <2>3. \A k \in DOMAIN Scripts : \A j \in DOMAIN Scripts[k] : ~Done(k, j)
    BY <2>1, <2>2 DEF Done
  <2>4. Installed /\ Downloaded
    BY <2>3 DEF Installed, Downloaded
  <2>5. Built
    <3>1. \A n \in DOMAIN tmp : tmp[n] \in Packages(n)
      BY <2>1
    <3>2. ASSUME container \in DOMAIN Scripts, NEW j \in DOMAIN Scripts[container] PROVE ~(j < step)
      BY <2>1, <2>2, <3>2
    <3> QED BY <3>1, <3>2 DEF Built
  <2> QED BY <2>1, <2>4, <2>5 DEF PodInv
<1>2. PodInv /\ [Next]_vars => PodInv'
  <2> SUFFICES ASSUME PodInv, [Next]_vars PROVE PodInv'
    OBVIOUS
  <2>1. CASE Run
    BY <2>1, RunKeeps
  <2>2. CASE Exit
    BY <2>2, ExitKeeps
  <2>3. CASE Fail
    BY <2>3, FailKeeps
  <2>4. CASE PodLost
    BY <2>4, PodStarted DEF PodLost, PodInv, Running
  <2>5. CASE \E new \in Templates : Rollout(new)
    BY <2>5, PodStarted DEF Rollout
  <2>6. CASE UNCHANGED vars
    <3>1. /\ template' = template /\ tmp' = tmp /\ container' = container /\ step' = step
          /\ connectors' = connectors /\ processors' = processors
      BY <2>6 DEF vars, volumeVars
    <3>2. Scripts' = Scripts /\ (\A n : Packages(n)' = Packages(n)) /\ URLs' = URLs
      BY <3>1 DEF Scripts, Packages, URLs
    <3>3. \A k, j : Done(k, j)' <=> Done(k, j)
      BY <3>1 DEF Done
    <3>4. Running' /\ Built'
      BY <3>1, <3>2 DEF PodInv, Running, Built
    <3>5. Installed'
      BY <3>1, <3>2, <3>3 DEF PodInv, Installed
    <3>6. Downloaded'
      BY <3>1, <3>2, <3>3 DEF PodInv, Downloaded
    <3> QED BY <3>4, <3>5, <3>6 DEF PodInv
  <2> QED BY <2>1, <2>2, <2>3, <2>4, <2>5, <2>6 DEF Next
<1> QED BY <1>1, <1>2, PTL DEF Spec

\* The server starts with the binary of every standalone connector in place, built from
\* its package or that of another listed connector with the same file name, provided no
\* connector has a package that is not its own.
THEOREM ConnectorsInstalledCorrect == Spec => []ConnectorsInstalled
<1>1. PodInv => ConnectorsInstalled
  <2> SUFFICES ASSUME PodInv, Serving, OwnPackages, NEW c \in StandaloneConnectors
               PROVE  LET name == connectorBuild(c).name
                      IN  /\ name \in DOMAIN connectors
                          /\ connectors[name] \in
                               {d.pluginPkg : d \in {e \in StandaloneConnectors : connectorBuild(e).name = name}}
    BY DEF ConnectorsInstalled
  <2> DEFINE name == connectorBuild(c).name
  <2>1. StandaloneConnectors = ConnectorsOf(template.spec) /\ template \in Templates
    BY DEF StandaloneConnectors, ConnectorsOf, PodInv, Running
  <2>2. Contract(template.spec, Scripts)
    BY <2>1, PodContract DEF Scripts
  <2>0. ListedOwn(template.spec.connectors)
    BY DEF OwnPackages, StandaloneConnectors, ListedOwn
  <2>3. PICK k \in DOMAIN Scripts : \E j \in DOMAIN Scripts[k] :
          Scripts[k][j].op = "install" /\ Scripts[k][j].name = name
    BY <2>0, <2>1, <2>2, Zenon DEF Contract
  <2>4. k < container
    <3>1. DOMAIN Scripts = 1 .. Len(Scripts) /\ Len(Scripts) \in Nat
      BY <2>1, PodPlaces DEF Scripts
    <3>2. container > Len(Scripts) /\ container \in Nat
      BY DEF Serving, Scripts, PodInv, Running
    <3> QED BY <3>1, <3>2
  <2>5. name \in DOMAIN connectors /\ connectors[name] \in Packages(name)
    BY <2>3, <2>4 DEF PodInv, Installed, Done
  <2> QED BY <2>1, <2>5 DEF Packages
<1> QED BY <1>1, PodInvariant, PTL

\* The server starts with a whole file for the name of every standalone processor.
THEOREM ProcessorsInstalledCorrect == Spec => []ProcessorsInstalled
<1>1. PodInv => ProcessorsInstalled
  <2> SUFFICES ASSUME PodInv, Serving, NEW p \in StandaloneProcessors
               PROVE  \E q \in StandaloneProcessors :
                        /\ q.plugin = p.plugin
                        /\ q.url.base \in DOMAIN processors
                        /\ processors[q.url.base] \in {r.url : r \in StandaloneProcessors}
    BY DEF ProcessorsInstalled
  <2>1. StandaloneProcessors = ProcessorsOf(template.spec) /\ template \in Templates
    BY DEF StandaloneProcessors, ProcessorsOf, PodInv, Running
  <2>2. Contract(template.spec, Scripts)
    BY <2>1, PodContract DEF Scripts
  <2>3. PICK q \in ProcessorsOf(template.spec) :
          q.plugin = p.plugin /\ \E k \in DOMAIN Scripts : \E j \in DOMAIN Scripts[k] :
                                   Scripts[k][j].op = "wget" /\ Scripts[k][j].file = q.url.base
    BY <2>1, <2>2, Zenon DEF Contract
  <2>4. PICK k \in DOMAIN Scripts : \E j \in DOMAIN Scripts[k] :
          Scripts[k][j].op = "wget" /\ Scripts[k][j].file = q.url.base
    BY <2>3
  <2>5. k < container
    <3>1. DOMAIN Scripts = 1 .. Len(Scripts) /\ Len(Scripts) \in Nat
      BY <2>1, PodPlaces DEF Scripts
    <3>2. container > Len(Scripts) /\ container \in Nat
      BY DEF Serving, Scripts, PodInv, Running
    <3> QED BY <3>1, <3>2
  <2>6. q.url.base \in DOMAIN processors /\ processors[q.url.base] \in URLs
    BY <2>4, <2>5 DEF PodInv, Downloaded, Done
  <2> QED BY <2>1, <2>3, <2>6 DEF URLs
<1> QED BY <1>1, PodInvariant, PTL

-----------------------------------------------------------------------------
\* That only a fault makes a command fail.  The property says nothing of a pod that is about
\* to make the directories; what carries over from there is that they are never removed.

\* Past the first container, or its only command, the volume has the directory downloads
\* go to.
DirectoriesMade == container > 1 \/ step > 1 => "processors" \in dirs

\* The first container makes the directories and does nothing else.
LEMMA FirstContainer ==
  ASSUME NEW t \in Templates
  PROVE  /\ Len(t.initContainers[1]) = 1
         /\ t.initContainers[1][1] = mkdir({"processors", "connectors"})
<1>1. PICK s \in Specs : t = [spec |-> s, initContainers |-> ConduitInitContainers(s)]
  BY DEF Templates
<1> DEFINE f == <<mkdir({"processors", "connectors"})>>
           a == ConnectorBuilds(s.connectors)
           b == ProcessorBuilds(AllProcessors(s.connectors, s.processors))
<1>2. t.initContainers = appendContainer(appendContainer(<<f>>, a), b)
  BY <1>1 DEF ConduitInitContainers, containersAfter
<1> HIDE DEF f, a, b
<1>3. t.initContainers[1] = f
  BY <1>2, ContainersAre
<1> DEFINE m == mkdir({"processors", "connectors"})
<1> HIDE DEF m
<1>4. Len(<<m>>) = 1 /\ <<m>>[1] = m
  OBVIOUS
<1> QED BY <1>3, <1>4 DEF f, m

\* Its only command is the one that is run first.
LEMMA RunMakesDirectories ==
  ASSUME PodInv, DirectoriesMade, Run
  PROVE  DirectoriesMade'
<1>1. template \in Templates /\ container \in Nat \ {0} /\ step \in Nat \ {0}
  BY DEF PodInv, Running
<1>2. dirs' = IF Command.op = "mkdir" THEN dirs \cup Command.dirs ELSE dirs
  BY Zenon DEF Run
<1>3. CASE container > 1 \/ step > 1
  BY <1>2, <1>3 DEF DirectoriesMade
<1>4. CASE container = 1 /\ step = 1
  <2>1. Command = mkdir({"processors", "connectors"})
    BY <1>1, <1>4, FirstContainer DEF Command, Script
  <2> QED BY <1>2, <2>1 DEF mkdir, DirectoriesMade
<1> QED BY <1>1, <1>3, <1>4

\* OnlyFaultsFail: a download runs when the directory is there, a build is of a package
\* the spec lists, and a binary is installed after it was built, however often pods and
\* containers were started over.
THEOREM OnlyFaultsFailCorrect == Spec => []OnlyFaultsFail
<1>1. Init => DirectoriesMade
  BY DEF Init, DirectoriesMade
<1>2. PodInv /\ DirectoriesMade /\ [Next]_vars => DirectoriesMade'
  <2> SUFFICES ASSUME PodInv, DirectoriesMade, [Next]_vars PROVE DirectoriesMade'
    OBVIOUS
  <2>1. CASE Run
    BY <2>1, RunMakesDirectories
  <2>2. CASE Exit
    <3>1. step > Len(Script) /\ dirs' = dirs /\ step \in Nat /\ container \in Nat \ {0}
      BY <2>2 DEF Exit, volumeVars, PodInv, Running
    <3>2. container = 1 => Len(Script) = 1
      BY FirstContainer DEF PodInv, Running, Script
    <3> QED BY <3>1, <3>2 DEF DirectoriesMade
  <2>3. CASE Fail
    BY <2>3 DEF Fail, StartOver, DirectoriesMade
  <2>4. CASE PodLost \/ \E new \in Templates : Rollout(new)
    BY <2>4 DEF PodLost, Rollout, StartOver, DirectoriesMade
  <2>5. CASE UNCHANGED vars
    BY <2>5 DEF vars, volumeVars, DirectoriesMade
  <2> QED BY <2>1, <2>2, <2>3, <2>4, <2>5 DEF Next
<1>3. PodInv /\ DirectoriesMade => OnlyFaultsFail
  <2> SUFFICES ASSUME PodInv, DirectoriesMade, ~Serving, step <= Len(Script)
               PROVE  /\ Command.op # "go install" \/ PackagesPublished => Possible(Command)
                      /\ Command.op = "install" => Command.name \in DOMAIN tmp
    BY DEF OnlyFaultsFail
  <2>1. template \in Templates /\ container \in Nat \ {0} /\ step \in Nat \ {0}
    BY DEF PodInv, Running
  <2>2. container \in DOMAIN Scripts /\ step \in DOMAIN Scripts[container]
    <3>1. /\ DOMAIN Scripts = 1 .. Len(Scripts) /\ Len(Scripts) \in Nat
          /\ \A k \in DOMAIN Scripts : DOMAIN Scripts[k] = 1 .. Len(Scripts[k]) /\ Len(Scripts[k]) \in Nat
      BY <2>1, PodPlaces DEF Scripts
    <3>2. ~(container > Len(Scripts)) /\ step <= Len(Scripts[container])
      BY DEF Serving, Script, Scripts
    <3>3. container \in DOMAIN Scripts
      BY <2>1, <3>1, <3>2
    <3> QED BY <2>1, <3>1, <3>2, <3>3
  <2>3. Command = Scripts[container][step]
    BY DEF Command, Script, Scripts
  <2>4. Command.op = "install" => Command.name \in DOMAIN tmp
    <3>1. Command.op = "install" =>
            \E i \in DOMAIN Scripts[container] :
              i < step /\ Scripts[container][i].op = "go install" /\ Scripts[container][i].name = Command.name
      <4>1. Contract(template.spec, Scripts)
        BY <2>1, PodContract DEF Scripts
      <4> QED BY <2>2, <2>3, <4>1, Zenon DEF Contract
    <3> QED BY <2>2, <3>1, Zenon DEF PodInv, Built
  <2>5. ASSUME Command.op = "wget" PROVE "processors" \in dirs
    <3>1. container # 1
      <4>1. container = 1 => step = 1
        <5>1. container = 1 => Len(Script) = 1
          BY <2>1, FirstContainer DEF Script
        <5>2. container = 1 => step <= 1
          BY <5>1, Zenon
        <5> QED BY <2>1, <5>2
      <4>2. container = 1 => Command = mkdir({"processors", "connectors"})
        BY <2>1, <4>1, FirstContainer DEF Command, Script
      <4> QED BY <2>5, <4>2 DEF mkdir
    <3> QED BY <2>1, <3>1 DEF DirectoriesMade
  <2>6. ASSUME Command.op = "go install", PackagesPublished PROVE Command.goPkg \in Published
    <3>1. Contract(template.spec, Scripts)
      BY <2>1, PodContract DEF Scripts
    <3>2. PICK c \in ConnectorsOf(template.spec) : Command.goPkg = c.pluginPkg
      BY <2>2, <2>3, <2>6, <3>1, Zenon DEF Contract
    <3>3. c \in StandaloneConnectors
      BY DEF ConnectorsOf, StandaloneConnectors
    <3> QED BY <2>6, <3>2, <3>3 DEF PackagesPublished
  <2> QED BY <2>4, <2>5, <2>6 DEF Possible
<1> QED BY <1>1, <1>2, <1>3, PodInvariant, PTL DEF Spec
=============================================================================
