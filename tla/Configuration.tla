----------------------------- MODULE Configuration -----------------------------
(***************************************************************************)
(* How a command loads its configuration and finds what its modules and    *)
(* inputs stand for: internal/configcue (discovery of the layers, the      *)
(* three compilations of buildModotValue, module layers, profiles),        *)
(* internal/modfile (what a reference names) and the module scanner of     *)
(* internal/source with its providers.                                     *)
(*                                                                         *)
(* A directory is a sequence of names.  The text of a modot.cue is a set   *)
(* of facts, each giving a field a value, both sequences of names; CUE     *)
(* unifies texts, which fails when a field has two values.  A spec such as *)
(* "self:modules/a" is <<"self", "modules", "a">>.                         *)
(***************************************************************************)
EXTENDS Integers, Sequences, FiniteSets

CONSTANTS Home, DotfilesRoot, ConfigDir,  \* what the environment driver names
          GitRoots,                       \* roots of git work trees
          Content,                        \* directory |-> the names in it, presets among them
          Locked,                         \* repository |-> the tag its row in the lock follows
          Commands,                       \* the commands that load a configuration
          Disks,                          \* what the modot.cue files may say at the start
          Saves,                          \* what may be saved: <<directory, text>> pairs
          MaxEdits                        \* how many times during a load

Absolute(path) == path # <<>> /\ path[1] = "/"

\* filepath.Join of a base with a relative path; an absolute one stands for itself.
Place(base, path) == IF Absolute(path) THEN Tail(path) ELSE base \o path

Prefixes(d) == {SubSeq(d, 1, n) : n \in 0 .. Len(d)}
Longest(ds) == CHOOSE d \in ds : \A e \in ds : Len(e) <= Len(d)
InGit(d) == Prefixes(d) \cap GitRoots # {}

--------------------------------------------------------------------------------
(* Texts and what is read from their unification. *)

Fact(field, value) == [field |-> field, value |-> value]
Prelude == {Fact(<<"inputs", "self", "from">>, <<"self">>)}

Profiles == {"home", "codebase", "system"}

Presets(mode) == CASE mode = "codebase" -> {"codebase"}
                   [] mode = "system" -> {"system", "root", "etc", "usr", "var", "bin"}
                   [] mode = "home" -> {"home"}
AllPresets == UNION {Presets(mode) : mode \in Profiles}

\* A value may refer to runtime.inputs.<alias>.path, which the first compilation lacks.
Filled(value, paths) ==
  IF value # <<>> /\ value[1] = "runtime" /\ value[2] \in DOMAIN paths
  THEN <<"dir">> \o paths[value[2]]
  ELSE value

Compiled(texts, paths) ==
  {Fact(f.field, Filled(f.value, paths)) : f \in Prelude \cup UNION texts}

Conflict(config) ==
  \/ \E f, g \in config : f.field = g.field /\ f.value # g.value
  \/ \E f \in config : f.field[1] = "file" /\ f.field[2] \notin Profiles

Incomplete(f) == f.value # <<>> /\ f.value[1] = "runtime"

\* decodeReadyMap leaves out what is not yet concrete.
Ready(config) == {f \in config : ~Incomplete(f)}

Get(config, field, default) ==
  LET found == {f \in config : f.field = field}
  IN  IF found = {} THEN default ELSE (CHOOSE f \in found : TRUE).value

Names(config, kind) == {f.field[2] : f \in {g \in config : g.field[1] = kind}}
Input(config, alias) == Get(config, <<"inputs", alias, "from">>, <<>>)
Version(config, alias) == Get(config, <<"inputs", alias, "version">>, <<>>)

Entry(config, m) ==
  [on    |-> Get(config, <<"modules", m, "enable">>, <<"true">>) = <<"true">>,
   from  |-> Get(config, <<"modules", m, "from">>, <<>>),
   input |-> Get(config, <<"modules", m, "input">>, <<"self">>),
   path  |-> Get(config, <<"modules", m, "path">>, <<>>)]

Enabled(config) == {m \in Names(config, "modules") : Entry(config, m).on}

ModulePath(m, e) == IF e.path = <<>> THEN <<"modules", m>> ELSE e.path

--------------------------------------------------------------------------------
(* What a reference names: three readers, which have to agree. *)

\* The loader: where the CUE file of a module is, {} for one that is not local.  An
\* absolute path is one below the root to it.
Below(root, path) == root \o (IF Absolute(path) THEN Tail(path) ELSE path)

SpecDir(root, path, spec) ==
  IF spec = <<>> \/ spec[1] # "self" THEN {}
  ELSE IF Len(spec) = 1 THEN {root \o path}
  ELSE IF path # <<"modules", path[Len(path)]>> THEN {Below(root, Tail(spec)) \o path}
  ELSE {Below(root, Tail(spec))}

\* Mistake: the loader looks where a module of that name would be.
LocalByName(config, m, root) == {root \o <<"modules", m>>}

LocalDir(config, m, root) ==
  LET e == Entry(config, m)
      path == ModulePath(m, e)
  IN  IF e.from # <<>> THEN SpecDir(root, path, e.from)
      ELSE IF Len(e.input) > 1 THEN SpecDir(root, path, e.input)
      ELSE IF e.input = <<"self">> THEN {root \o path}
      ELSE SpecDir(root, path, Input(config, e.input[1]))

\* The module scanner: a provider and the directory or name it looks up, {} on an error.
Ref(provider, at) == {[provider |-> provider, at |-> at]}
Direct == {"self", "core", "registry", "http", "https", "github", "local"}
Aliases(config) == {"self"} \cup {a \in Names(config, "inputs") : Input(config, a) # <<>>}

\* "spec:path" as one string: only the first colon separates.
Joined(spec, path) == IF Len(spec) = 1 THEN spec \o path ELSE spec \o <<":">> \o path

\* The base of an input "self", "self:dir" or "local:dir".
SourceBase(spec, root) == Place(root, Tail(spec))

ModuleSource(config, spec, root) ==
  IF Len(spec) < 2 THEN {}
  ELSE IF spec[1] \in Direct
  THEN Ref(spec[1], IF spec[1] = "self" THEN Place(root, Tail(spec)) ELSE Tail(spec))
  ELSE IF spec[1] \notin Aliases(config) THEN {}
  ELSE LET src == Input(config, spec[1])
       IN  IF src[1] \in {"self", "local"}
           THEN Ref("self", SourceBase(src, root) \o Tail(spec))
           ELSE Ref(src[1], Tail(src))

ModuleRef(config, m, root) ==
  LET e == Entry(config, m)
  IN  IF e.from # <<>> THEN ModuleSource(config, e.from, root)
      ELSE IF Len(e.input) > 1
      THEN ModuleSource(config, IF e.path = <<>> THEN e.input ELSE Joined(e.input, e.path), root)
      ELSE IF e.input = <<"self">> THEN Ref("self", root \o ModulePath(m, e))
      ELSE IF Input(config, e.input[1]) = <<>> THEN {}
      ELSE ModuleSource(config, Joined(Input(config, e.input[1]), ModulePath(m, e)), root)

\* Mounts and runtime.inputs: the directory of an input.  A fetched source has its
\* cache directory named by the URL of the lock, or by the repository and its ref.
Tagged(version) == version # <<>> /\ version[1] = "tag"

Fetched(config, alias) ==
  LET repo == Tail(Input(config, alias))
      version == Version(config, alias)
      row == repo \in DOMAIN Locked
  IN  IF version = <<>> THEN IF row THEN <<"cache", "url">> \o repo ELSE <<"cache">> \o repo \o <<"HEAD">>
      ELSE IF Tagged(version) /\ row THEN <<"cache">> \o repo \o <<Locked[repo]>>
      ELSE <<"cache">> \o repo \o version

InputDir(config, alias, root) ==
  LET spec == Input(config, alias)
  IN  CASE spec = <<>> -> {}
        [] spec # <<>> /\ spec[1] \in {"self", "local"} -> {SourceBase(spec, root)}
        [] spec # <<>> /\ spec[1] = "github" /\ Len(spec) > 1 -> {Fetched(config, alias)}
        [] OTHER -> {}

\* Mistake: the key of the cache without the version.
RuntimeHead(config, alias, root) ==
  LET spec == Input(config, alias)
  IN  IF spec[1] = "github" THEN {<<"cache">> \o Tail(spec) \o <<"HEAD">>} ELSE {root}

\* The path that the configuration itself sees, computed before anything is fetched.
RuntimePath(config, alias, root) ==
  LET spec == Input(config, alias)
      version == Version(config, alias)
  IN  CASE spec = <<"self">> \/ alias = "self" -> {root}
        [] Len(spec) > 1 /\ spec[1] = "github" ->
             {<<"cache">> \o Tail(spec) \o (IF version = <<>> THEN <<"HEAD">> ELSE version)}
        [] Len(spec) > 1 /\ spec[1] = "local" -> {Place(root, Tail(spec))}
        [] OTHER -> {}

BadInput(config) == \E a \in Names(config, "inputs") : Len(Input(config, a)) = 1 /\ a # "self"
                                                       /\ Input(config, a) # <<"self">>

RuntimePaths(config, root) ==
  [a \in {b \in Names(config, "inputs") : RuntimePath(config, b, root) # {}} |->
     CHOOSE d \in RuntimePath(config, a, root) : TRUE]

--------------------------------------------------------------------------------
VARIABLES cue,      \* disk: directory |-> text of its modot.cue
          cmd,      \* the command: its mode and the root of its workspace
          pc,
          layers,   \* the configuration files found: <<name, directory>> each
          paths,    \* runtime.inputs
          config,   \* the value of the last compilation
          todo,     \* modules still to be read or resolved
          joined,   \* modules whose CUE file was read: <<module, directory, text>>
          files,    \* template files of modules: <<module, directory, preset>>
          entry,    \* what the layers said when the modules were selected
          disks,    \* the contents the disk has had during the load
          read      \* what was read: directory and text of its modot.cue, {} for none

vars == <<cue, cmd, pc, layers, paths, config, todo, joined, files, entry, disks, read>>

HomeLayers == cmd.mode # "codebase" \/ cmd.root = DotfilesRoot

\* The nearest modot.cue at or above the root, never above its git work tree.
Upward(root) ==
  LET bound == IF InGit(root) THEN Longest(Prefixes(root) \cap GitRoots) ELSE <<>>
  IN  {d \in Prefixes(root) : Len(d) >= Len(bound)}

Nearest(root, disk) ==
  LET found == Upward(root) \cap DOMAIN disk
  IN  IF found = {} THEN <<>> ELSE << <<"repo", Longest(found)>> >>

Present(name, d, disk) == IF d \in DOMAIN disk THEN << <<name, d>> >> ELSE <<>>

Discovered(disk) ==
  IF HomeLayers
  THEN Present("dotfiles", DotfilesRoot, disk) \o Present("user", Home, disk)
         \o Present("home", ConfigDir, disk)
  ELSE Nearest(cmd.root, disk)

\* Where discovery looks and finds nothing.
Missed(disk) ==
  IF HomeLayers THEN {DotfilesRoot, Home, ConfigDir} \ DOMAIN disk
  ELSE {d \in Upward(cmd.root) : \A e \in Upward(cmd.root) \cap DOMAIN disk : Len(d) > Len(e)}

\* resolveModulesBaseDir: the layer of the repository or of the dotfiles, else the first.
\* It comes first whenever it is there.
Root(ls) == ls[1][2]

\* The scanner looks below the workspace of the command.
ScanRoot == IF cmd.mode = "codebase" THEN cmd.root ELSE DotfilesRoot

Read(ls) == {cue[ls[i][2]] : i \in DOMAIN ls}
Readable(ls) == \A i \in DOMAIN ls : ls[i][2] \in DOMAIN cue

Text(disk, d) == IF d \in DOMAIN disk THEN {disk[d]} ELSE {}
Readings(dirs) == {<<d, Text(cue, d)>> : d \in dirs}
LayerDirs == {layers[i][2] : i \in DOMAIN layers}

Init ==
  /\ cmd \in Commands /\ cue \in Disks
  /\ pc = "discover"
  /\ layers = <<>> /\ paths = <<>> /\ config = {} /\ entry = {}
  /\ todo = {} /\ joined = {} /\ files = {}
  /\ disks = {cue} /\ read = {}

Fail ==
  /\ pc' = "failed"
  /\ UNCHANGED <<cue, cmd, layers, paths, config, todo, joined, files, entry, disks, read>>

Discover ==
  /\ pc = "discover"
  /\ layers' = Discovered(cue) /\ read' = Readings(Missed(cue))
  /\ pc' = "inputs"
  /\ UNCHANGED <<cue, cmd, paths, config, todo, joined, files, entry, disks>>

Broken(texts, known) == Conflict(Compiled(texts, known))

\* The first compilation serves only to resolve the inputs.
ResolveInputs ==
  /\ pc = "inputs"
  /\ Readable(layers)
  /\ LET first == Ready(Compiled(Read(layers), <<>>))
     IN  /\ ~Broken(Read(layers), <<>>)
         /\ ~BadInput(first)
         /\ paths' = RuntimePaths(first, IF layers = <<>> THEN <<>> ELSE Root(layers))
  /\ pc' = "base" /\ read' = read \cup Readings(LayerDirs)
  /\ UNCHANGED <<cue, cmd, layers, config, todo, joined, files, entry, disks>>

InputsFail ==
  /\ pc = "inputs"
  /\ Readable(layers)
       => \/ Broken(Read(layers), <<>>)
          \/ BadInput(Ready(Compiled(Read(layers), <<>>)))
  /\ Fail

\* Mistake: disabled modules are joined as well.
CompileAll ==
  /\ pc = "base"
  /\ Readable(layers)
  /\ ~Broken(Read(layers), paths)
  /\ config' = Compiled(Read(layers), paths)
  /\ entry' = config'
  /\ todo' = IF layers = <<>> THEN {} ELSE Names(Ready(config'), "modules")
  /\ pc' = "join" /\ read' = read \cup Readings(LayerDirs)
  /\ UNCHANGED <<cue, cmd, layers, paths, joined, files, disks>>

\* The second compilation knows the inputs; it selects the modules to join.
CompileBase ==
  /\ pc = "base"
  /\ Readable(layers)
  /\ ~Broken(Read(layers), paths)
  /\ config' = Compiled(Read(layers), paths)
  /\ entry' = config'
  /\ todo' = IF layers = <<>> THEN {} ELSE Enabled(Ready(config'))
  /\ pc' = "join" /\ read' = read \cup Readings(LayerDirs)
  /\ UNCHANGED <<cue, cmd, layers, paths, joined, files, disks>>

BaseFails ==
  /\ pc = "base"
  /\ Readable(layers) => Broken(Read(layers), paths)
  /\ Fail

\* A module that is not local, or has no modot.cue, adds nothing.
Join(m) ==
  /\ pc = "join" /\ m \in todo
  /\ todo' = todo \ {m}
  /\ LET dirs == LocalDir(Ready(config), m, Root(layers))
     IN  /\ joined' = joined \cup {<<m, d, cue[d]>> : d \in dirs \cap DOMAIN cue}
         /\ read' = read \cup Readings(dirs)
  /\ UNCHANGED <<cue, cmd, pc, layers, paths, config, files, entry, disks>>

JoinedTexts == {j[3] : j \in joined}
FinalValue == IF joined = {} THEN config ELSE Compiled(Read(layers) \cup JoinedTexts, paths)

FinalFails ==
  joined = {} \/ Readable(layers) => Conflict(FinalValue) \/ \E f \in FinalValue : Incomplete(f)

\* The third compilation, over the layers as they are now and the modules.
CompileFinal ==
  /\ pc = "join" /\ todo = {}
  /\ ~FinalFails
  /\ config' = FinalValue
  /\ todo' = Enabled(config')
  /\ pc' = "scan" /\ read' = IF joined = {} THEN read ELSE read \cup Readings(LayerDirs)
  /\ UNCHANGED <<cue, cmd, layers, paths, joined, files, entry, disks>>

CompileFails ==
  /\ pc = "join" /\ todo = {} /\ FinalFails
  /\ Fail

\* What Resolve of the local provider returns for a directory.
Unusable(dir) ==
  \/ dir \notin DOMAIN Content
  \/ dir \notin DOMAIN cue
  \/ InGit(dir) /\ dir \notin GitRoots /\ ~(Content[dir] \subseteq AllPresets)

Contributes(dir) == InGit(dir) /\ dir \notin GitRoots

CoreModules == { <<"base16-icons-linux">> }

Resolvable(m) ==
  \E r \in ModuleRef(config, m, ScanRoot) :
     \/ r.provider = "core" /\ r.at \in CoreModules
     \/ r.provider = "self" /\ ~Unusable(r.at)

\* The modules of the final value are resolved by parallel tasks.
Scan(m) ==
  /\ pc = "scan" /\ m \in todo
  /\ Resolvable(m)
  /\ todo' = todo \ {m}
  /\ files' = files \cup
       UNION {IF r.provider = "core" THEN { <<m, r.at, "home">> }
              ELSE IF ~Contributes(r.at) THEN {}
              ELSE {<<m, r.at, p>> : p \in Content[r.at] \cap Presets(cmd.mode)} :
              r \in ModuleRef(config, m, ScanRoot)}
  /\ UNCHANGED <<cue, cmd, pc, layers, paths, config, joined, entry, disks, read>>

ScanFails(m) ==
  /\ pc = "scan" /\ m \in todo
  /\ ~Resolvable(m)
  /\ Fail

\* The profile of the mode: its files, and the mounts with their sources.
Visible == {f \in config : f.field[1] = "file" /\ f.field[2] = cmd.mode}
Mounts == {f \in Visible : f.value[1] = "place"}

\* What a mount source "alias:rel" is below; {} for a plain path.
MountDir(src) ==
  IF Len(src) < 2 \/ src[1] \notin Aliases(config) THEN {}
  ELSE InputDir(config, src[1], ScanRoot)

Mountable(f) ==
  LET src == Tail(f.value)
  IN  src # <<>> /\ (src[1] \in Aliases(config) /\ Len(src) > 1 => MountDir(src) # {})

Build ==
  /\ pc = "scan" /\ todo = {}
  /\ pc' = IF \A f \in Mounts : Mountable(f) THEN "done" ELSE "failed"
  /\ UNCHANGED <<cue, cmd, layers, paths, config, todo, joined, files, entry, disks, read>>

\* The operator saves or deletes a modot.cue while the command runs.
Edit(d, t) ==
  /\ pc \notin {"done", "failed"} /\ Cardinality(disks) <= MaxEdits
  /\ d \in DOMAIN cue => cue[d] # t
  /\ cue' = [e \in DOMAIN cue \cup {d} |-> IF e = d THEN t ELSE cue[e]]
  /\ disks' = disks \cup {cue'}
  /\ UNCHANGED <<cmd, pc, layers, paths, config, todo, joined, files, entry, read>>

Delete(d) ==
  /\ pc \notin {"done", "failed"} /\ Cardinality(disks) <= MaxEdits /\ d \in DOMAIN cue
  /\ cue' = [e \in DOMAIN cue \ {d} |-> cue[e]]
  /\ disks' = disks \cup {cue'}
  /\ UNCHANGED <<cmd, pc, layers, paths, config, todo, joined, files, entry, read>>

Load ==
  \/ Discover \/ ResolveInputs \/ InputsFail \/ CompileBase \/ BaseFails
  \/ CompileFinal \/ CompileFails \/ Build
  \/ \E m \in todo : Join(m) \/ Scan(m) \/ ScanFails(m)

Next ==
  \/ Load
  \/ \E s \in Saves : Edit(s[1], s[2])
  \/ \E d \in DOMAIN cue : Delete(d)

Spec == Init /\ [][Next]_vars

--------------------------------------------------------------------------------
(* Properties. *)

\* The value that a load of one unchanging disk computes.
Denoted(disk) ==
  LET ls == Discovered(disk)
      texts == {disk[ls[i][2]] : i \in DOMAIN ls}
      known == RuntimePaths(Ready(Compiled(texts, <<>>)), IF ls = <<>> THEN <<>> ELSE Root(ls))
      base == Compiled(texts, known)
      chosen == UNION {LocalDir(Ready(base), m, Root(ls)) : m \in Enabled(Ready(base))}
  IN  IF ls = <<>> THEN base
      ELSE Compiled(texts \cup {disk[d] : d \in chosen \cap DOMAIN disk}, known)

\* A file was not the same each time it was read.
Torn == \E r, s \in read : r[1] = s[1] /\ r[2] # s[2]

\* Although a file is read up to three times, a load during which one file is saved
\* gives the configuration of the disk before or after that save, whenever it happens,
\* unless the file is Torn: a layer, one that discovery missed, or the file of several
\* modules, read before and after (buildModotValue, loader.go:203-235).
LoadIsAtomic ==
  pc \in {"scan", "done"} /\ ~Torn /\ Cardinality(disks) <= 2
    => \E disk \in disks : config = Denoted(disk)

Calm == Cardinality(disks) = 1
SameRoot == layers # <<>> /\ Root(layers) = ScanRoot
SameEntry(m) == m \in Enabled(Ready(entry)) /\ Entry(config, m) = Entry(entry, m)

\* References of the form that loader and scanner read alike: all but those through
\* an input other than self, those with an absolute path, and a `from`, or an input
\* with a directory, together with a path.
PlainSpec(e, spec) == spec[1] \in {"self", "core"} /\ e.path = <<>> /\ ~Absolute(Tail(spec))
PlainRef(m) ==
  LET e == Entry(config, m)
  IN  IF e.from # <<>> THEN PlainSpec(e, e.from)
      ELSE e.input = <<"self">> \/ (Len(e.input) > 1 /\ PlainSpec(e, e.input))

\* The CUE of a module and its template files come from one directory, and a module
\* gives both or none, though two readers resolve the reference independently
\* (loader.go:604-653, module_ref.go, modfile.go:86-155) and at different times.
\* Left out: the references that they read differently (PlainRef), a workspace that
\* is not where the configuration was found, and modules that module files change.
ModuleWhole ==
  pc = "done" /\ Calm /\ SameRoot
    => /\ \A f \in files : PlainRef(f[1]) /\ SameEntry(f[1]) /\ f[2] \notin CoreModules
             => \E j \in joined : j[1] = f[1] /\ j[2] = f[2]
       /\ \A j \in joined : SameEntry(j[1]) /\ PlainRef(j[1])
                                  /\ Contributes(j[2])
             => \A p \in Content[j[2]] \cap Presets(cmd.mode) : <<j[1], j[2], p>> \in files

FollowsLock(alias) ==
  LET spec == Input(config, alias)
  IN  /\ spec[1] = "github" /\ Tail(spec) \in DOMAIN Locked
      /\ Version(config, alias) = <<>> \/ Tagged(Version(config, alias))

\* runtime.inputs.<alias>.path, computed before anything is fetched and before module
\* files are joined, is the directory that a mount of that input reads.  Left out:
\* inputs whose version comes from the lock or is itself a path of runtime.inputs, which
\* is not known by then, and those that a module file changes.
Literal(version) == version = <<>> \/ version[1] # "dir"
RefsAgree ==
  pc = "done" /\ Calm /\ SameRoot
    => \A a \in DOMAIN paths :
         /\ ~FollowsLock(a)
         /\ Version(config, a) = Version(entry, a) /\ Literal(Version(config, a))
         => InputDir(config, a, ScanRoot) = {paths[a]}

\* SPEC.md:178: "A module directory that the entry `modules` ref does not name
\* contributes no fields and no template files"; INV-03: "A module file does not add
\* modules".
EntryNamesModules ==
  pc = "done" => \A f \in files : f[1] \in Enabled(Ready(entry))
================================================================================
