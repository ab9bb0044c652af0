----------------------------- MODULE IconTheme -----------------------------
(***************************************************************************)
(* The core module base16-icons-linux: an icon theme generated from SVG    *)
(* masters and the palette of the configuration, and cached under a        *)
(* fingerprint of both (internal/module/provider/core/base16_icons.go,     *)
(* internal/icons).  Commands come one after another, may be killed        *)
(* anywhere, and the operator edits configuration and masters meanwhile.   *)
(*                                                                         *)
(* A master is a record of its path below input_dir; the masters on disk   *)
(* map each to its modification time.  What a file of the theme shows is   *)
(* the master, that time, and the colors it was painted with.              *)
(***************************************************************************)
EXTENDS Integers, FiniteSets, FiniteSetsExt, SequencesExt

CONSTANTS Settings,        \* what the configuration may say: [palette, rules]
          Libraries,       \* what input_dir may contain: functions master |-> time
          DefaultContext,
          Flags,           \* of the commands: [dryRun, noCache]
          Sizes,           \* of the rasters; {} is no_raster
          MaxDisturbances  \* bound on edits and kills

VARIABLES
  config,    \* the home configuration on disk
  masters,   \* input_dir
  cache,     \* fingerprint |-> the theme below ~/.cache, which has an index.theme:
             \* its files, and for the record the masters it was made for and `edited`
  work,      \* the files in <fingerprint>.tmp: of which contents each has something
  pc,
  flags,     \* [dryRun, noCache] of the command
  loaded,    \* the configuration that the command has loaded
  seen,      \* input_dir when it was fingerprinted
  colors,    \* the configuration that the engine has loaded for itself
  todo,      \* masters still to be rendered
  rasters,   \* rasters still to be written: <<content, size>>
  writing,   \* files that are being written: <<content, format>>
  files,     \* what the command hands to the deployer
  disturbances,
  edited     \* what this command works from was edited after it was fingerprinted

vars == <<config, masters, cache, work, pc, flags, loaded, seen, colors, todo, rasters, writing,
          files, disturbances, edited>>

--------------------------------------------------------------------------------
(* Masters and the files made of them. *)

\* stripLeadingSizeDir and the default context for a master at the root.
Context(m) == IF m.context = "." THEN DefaultContext ELSE m.context

\* dedupeIconInputs knows a master by its own context, before the default applies.
Key(m) == <<m.context, m.name>>
Score(m) == IF m.tmpl THEN 2 ELSE 1

\* A template wins over a plain file, then the first in the order of the paths.
Deduped(ms) ==
  {m \in ms : \A n \in ms : Key(n) = Key(m) /\ n # m =>
     \/ Score(m) > Score(n)
     \/ Score(m) = Score(n) /\ m.rank < n.rank}

Formats == {"scalable"} \cup Sizes
Target(m, format) == <<format, Context(m), m.name>>

\* Replacements are applied one by one in the order of a Go map.
Replace(color, rule) == IF color = rule[1] THEN rule[2] ELSE color
Painted(color, rules) ==
  {FoldLeft(Replace, color, order) : order \in SetToSeqs(rules)}

\* renderSVG and the rasters: every content that painting a master can give.
Rendered(m, time, settings) ==
  {<<m, time, settings.palette, color>> : color \in Painted(m.color, settings.rules)}

\* What tells two states of input_dir apart: the number and the newest time.
Stats(lib) ==
  <<Cardinality(DOMAIN lib), Max({0} \cup {lib[m] : m \in DOMAIN lib})>>

Fingerprint(settings, lib) == <<settings, Stats(lib)>>

Valid(settings) == settings.palette # "none"

--------------------------------------------------------------------------------
Init ==
  /\ config \in Settings /\ masters \in Libraries
  /\ cache = <<>> /\ work = <<>> /\ edited = FALSE
  /\ pc = "idle" /\ flags = CHOOSE f \in Flags : TRUE
  /\ loaded = config /\ seen = masters /\ colors = config /\ todo = {} /\ rasters = {} /\ writing = {}
  /\ files = <<>>
  /\ disturbances = 0

Begin(f) ==
  /\ pc \in {"idle", "done", "failed"}
  /\ pc' = "stat"
  /\ flags' = f
  /\ loaded' = config /\ seen' = masters /\ colors' = config
  /\ files' = <<>> /\ edited' = FALSE
  /\ UNCHANGED <<config, masters, cache, work, todo, rasters, writing, disturbances>>

Mine == Fingerprint(loaded, seen)

\* moduleFingerprint; a theme that is there is taken as it is, unless --no-cache is
\* given and this is not a plan.
Look ==
  /\ pc = "stat"
  /\ seen' = masters
  /\ pc' = IF /\ Fingerprint(loaded, masters) \in DOMAIN cache
              /\ flags.noCache => flags.dryRun
           THEN "walk" ELSE "clear"
  /\ UNCHANGED <<config, masters, cache, work, flags, loaded, colors, todo, rasters, writing,
                 files, disturbances, edited>>

\* workDir is emptied and made, and emptied again by the engine (Clean).
Clear ==
  /\ pc = "clear"
  /\ pc' = "colors" /\ work' = <<>>
  /\ UNCHANGED <<config, masters, cache, flags, loaded, seen, colors, todo, rasters, writing,
                 files, disturbances, edited>>

\* An error: workDir is removed, and with it what was written.
Fail ==
  /\ pc' = "failed" /\ work' = <<>> /\ todo' = {} /\ rasters' = {} /\ writing' = {}
  /\ colors' = loaded
  /\ UNCHANGED <<config, masters, cache, flags, loaded, seen, files, disturbances, edited>>

\* loadBase16Colors loads the home configuration once more.
ReadColors ==
  /\ pc = "colors" /\ Valid(config)
  /\ pc' = "collect" /\ colors' = config
  /\ UNCHANGED <<config, masters, cache, work, flags, loaded, seen, todo, rasters, writing, files,
                 disturbances, edited>>

NoColors == pc = "colors" /\ ~Valid(config) /\ Fail

Collect ==
  /\ pc = "collect" /\ masters # <<>>
  /\ pc' = "render"
  /\ todo' = Deduped(DOMAIN masters)
  /\ UNCHANGED <<config, masters, cache, work, flags, loaded, seen, colors, rasters, writing,
                 files, disturbances, edited>>

NoMasters == pc = "collect" /\ masters = <<>> /\ Fail

\* os.WriteFile and os.Create empty the file that they open.
Open(content, format) ==
  LET target == Target(content[1], format) IN
  /\ work' = [t \in DOMAIN work \cup {target} |-> IF t = target THEN {} ELSE work[t]]
  /\ writing' = writing \cup {<<content, format>>}

\* The tasks of the icons run in parallel.  Each reads its master and writes the
\* scalable file, then the rasters of what it has read.  The rules come from the
\* configuration of the module, which the command has loaded.
Render(m) ==
  /\ pc = "render" /\ m \in todo /\ m \in DOMAIN masters
  /\ \E content \in Rendered(m, masters[m], [palette |-> colors.palette, rules |-> loaded.rules]) :
       Open(content, "scalable")
  /\ todo' = todo \ {m}
  /\ UNCHANGED <<config, masters, cache, pc, flags, loaded, seen, colors, rasters, files,
                 disturbances, edited>>

Rasterize(content, size) ==
  /\ pc = "render" /\ <<content, size>> \in rasters
  /\ Open(content, size)
  /\ rasters' = rasters \ {<<content, size>>}
  /\ UNCHANGED <<config, masters, cache, pc, flags, loaded, seen, colors, todo, files,
                 disturbances, edited>>

\* Mistake: a raster is painted anew, the rules in whatever order they come then.
PaintAgain(content, format) ==
  LET target == Target(content[1], format) IN
  /\ pc = "render" /\ <<content, format>> \in writing
  /\ writing' = writing \ {<<content, format>>}
  /\ work' = [work EXCEPT ![target] = {content}]
  /\ \E anew \in Rendered(content[1], content[2], [palette |-> colors.palette, rules |-> loaded.rules]) :
       rasters' = IF format = "scalable" THEN rasters \cup ({anew} \X Sizes) ELSE rasters
  /\ UNCHANGED <<config, masters, cache, pc, flags, loaded, seen, colors, todo, files,
                 disturbances, edited>>

\* What another task wrote since the file was opened is overwritten, or some of it stays.
Write(content, format) ==
  LET target == Target(content[1], format) IN
  /\ pc = "render" /\ <<content, format>> \in writing
  /\ writing' = writing \ {<<content, format>>}
  /\ \E left \in SUBSET work[target] : work' = [work EXCEPT ![target] = {content} \cup left]
  /\ rasters' = IF format = "scalable" THEN rasters \cup ({content} \X Sizes) ELSE rasters
  /\ UNCHANGED <<config, masters, cache, pc, flags, loaded, seen, colors, todo, files,
                 disturbances, edited>>

Finished == todo = {} /\ rasters = {} /\ writing = {}
Rendering == pc = "render" /\ ~Finished
AllRendered == pc = "render" /\ Finished

\* A master cannot be read or parsed, or a file cannot be written.
RenderFails == Rendering /\ Fail

\* index.theme comes last; then the directory takes the place of the cached one.
Install ==
  /\ AllRendered
  /\ cache' = [k \in DOMAIN cache \cup {Mine} |->
                 IF k = Mine THEN [files |-> work, of |-> seen, edited |-> edited] ELSE cache[k]]
  /\ work' = <<>> /\ colors' = loaded /\ pc' = "walk"
  /\ UNCHANGED <<config, masters, flags, loaded, seen, todo, rasters, writing, files,
                 disturbances, edited>>

InstallFails == AllRendered /\ Fail

\* The files of the theme in the cache, which the deployer copies.
Walk ==
  /\ pc = "walk"
  /\ files' = cache[Mine].files /\ pc' = "done"
  /\ UNCHANGED <<config, masters, cache, work, flags, loaded, seen, colors, todo, rasters,
                 writing, disturbances, edited>>

Resolve ==
  \/ Look \/ Clear \/ ReadColors \/ NoColors \/ Collect \/ NoMasters
  \/ \E m \in todo : Render(m)
  \/ \E r \in rasters : Rasterize(r[1], r[2])
  \/ \E w \in writing : Write(w[1], w[2])
  \/ RenderFails \/ Install \/ InstallFails \/ Walk

Disturb == disturbances < MaxDisturbances /\ disturbances' = disturbances + 1

\* The command is killed; in the middle of the swap the theme is set aside for good.
Kill ==
  /\ pc \notin {"idle", "done", "failed"} /\ Disturb
  /\ pc' = "idle" /\ todo' = {} /\ rasters' = {} /\ writing' = {}
  /\ colors' = loaded
  /\ \/ cache' = cache
     \/ AllRendered /\ cache' = [k \in DOMAIN cache \ {Mine} |-> cache[k]]
  /\ UNCHANGED <<config, masters, work, flags, loaded, seen, files, edited>>

\* The operator changes the configuration, or adds, removes, renames or saves masters.
Edit ==
  /\ Disturb
  /\ \/ /\ config' \in Settings \ {config}
        /\ edited' = (edited \/ pc \in {"stat", "clear", "colors"})
        /\ UNCHANGED masters
     \/ /\ masters' \in Libraries \ {masters}
        /\ edited' = (edited \/ pc \in {"clear", "colors", "collect", "render"})
        /\ UNCHANGED config
  /\ UNCHANGED <<cache, work, pc, flags, loaded, seen, colors, todo, rasters, writing, files>>

Next == Resolve \/ Kill \/ Edit \/ \E f \in Flags : Begin(f)

Spec == Init /\ [][Next]_vars

--------------------------------------------------------------------------------
(* Properties. *)

\* What a file of the theme of these settings may show anything of.
Shows(target, settings, lib) ==
  UNION {Rendered(m, lib[m], settings) :
           m \in {n \in Deduped(DOMAIN lib) : Target(n, target[1]) = target}}

\* A master at the root and one in the default context may have the same files.
Alone(m, lib) ==
  \A n \in Deduped(DOMAIN lib) : Target(n, "scalable") = Target(m, "scalable") => n = m

\* Files that the masters ask for.
Wanted(lib) == {Target(m, f) : m \in Deduped(DOMAIN lib), f \in Formats}

\* What a command deploys, generated now or taken from the cache, is the theme that
\* its own configuration and masters ask for: no file of another theme or of a failed
\* run, none missing, empty or in other colors, and all sizes of a master as it was
\* painted once (base16_icons.go:67-206).  Where two masters have the same files their
\* tasks write them at the same time, and a file may be a mixture.  Left out: a theme
\* that was generated while something was edited, which stays under the fingerprint it
\* was made for, and masters that count and newest time do not tell apart from those it
\* was made of, such as renamed ones.
ThemeMatches ==
  pc = "done" /\ cache[Mine].of = seen /\ ~cache[Mine].edited
    => /\ DOMAIN files = Wanted(seen)
       /\ \A t \in DOMAIN files : files[t] # {} /\ files[t] \subseteq Shows(t, loaded, seen)
       /\ \A m \in Deduped(DOMAIN seen) : Alone(m, seen) =>
            \E content \in Rendered(m, seen[m], loaded) :
              \A f \in Formats : files[Target(m, f)] = {content}
================================================================================
