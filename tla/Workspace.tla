------------------------------ MODULE Workspace ------------------------------
(***************************************************************************)
(* What commands make of a workspace: the configuration that they load,    *)
(* the tree that its files compose, its sources, its icon theme, and what  *)
(* linters find in it.  The constants and the variables of a part begin    *)
(* with its letter.                                                        *)
(***************************************************************************)
EXTENDS Lists

CONSTANTS
  CNames, CLinesOf, CStripOf, CParts, CInputs,
  LHome, LDotfilesRoot, LConfigDir, LGitRoots, LContent, LLocked, LCommands, LDisks, LSaves,
  LMaxEdits,
  ISettings, ILibraries, IDefaultContext, IFlags, ISizes, IMaxDisturbances,
  SMachines, SCommits, SBranches, STags, SHexTags, SText, SAccepts, SGroups, SStarts, SVersions, SPageSize,
  SMaxPages, SMaxRuns, SMaxMoves,
  KRequests, KTrees, KSkipped, KFound, KMaxEdits

\* Files, mounts and declarations to compose have their fields; what a template made is no link,
\* and only a file of lines has more than one slot.
IsFile(f) ==
  /\ DOMAIN f = {"rel", "kind", "under", "id", "src", "body"}
  /\ IsSequence(f.rel) /\ IsSequence(f.under)
  /\ f.kind \in {"plain", "link", "found"} /\ (f.src = "rendered" => f.kind = "plain")
IsMount(m) ==
  /\ IsSequence(m.dest) /\ IsSequence(m.steps) /\ \A e \in m.entries : IsFile(e)
  /\ \A n \in DOMAIN m.steps :
       /\ m.steps[n].op \in {"move", "require"}
       /\ IsSequence(m.steps[n].from) /\ IsSequence(m.steps[n].to)
IsDeclared(a) ==
  /\ a = [path |-> a.path, kind |-> a.kind, slot |-> a.slot, val |-> a.val]
  /\ IsSequence(a.path)
  /\ a.kind # "lines" => a.slot = "all"
ASSUME InputsAssumption ==
  \A i \in CInputs :
    /\ \A f \in i.files : IsFile(f)
    /\ \A m \in i.mounts : IsMount(m)
    /\ \A a \in i.cue : IsDeclared(a)

\* Directories and what files say are sequences.
ASSUME LoadsAssumption ==
  /\ IsSequence(LDotfilesRoot) /\ \A c \in LCommands : IsSequence(c.root)
  /\ \A disk \in LDisks : \A d \in DOMAIN disk : \A f \in disk[d] : IsSequence(f.value)
  /\ \A s \in LSaves : \A f \in s[2] : IsSequence(f.value)

VARIABLES
  cPc, cFiles, cMounts, cCue, cRecorded, cDirect, cTodo, cOut, cLost,
  lCue, lCmd, lPc, lLayers, lPaths, lConfig, lTodo, lJoined, lFiles, lEntry, lDisks, lRead,
  iConfig, iMasters, iCache, iWork, iPc, iFlags, iLoaded, iSeen, iColors, iTodo, iRasters, iWriting,
  iFiles, iDisturbances, iEdited,
  sNames, sHead, sCue, sRow, sCache, sCmd, sMoved, sStayed, sRuns, sMoves,
  kReq, kPresent, kPc, kNext, kApplies, kSt, kSaid, kGot, kNotes, kEdits

Composing ==
  INSTANCE Compose WITH
    Names <- CNames, LinesOf <- CLinesOf, StripOf <- CStripOf, Parts <- CParts, Inputs <- CInputs,
    pc <- cPc, files <- cFiles, mounts <- cMounts, cue <- cCue,
    recorded <- cRecorded, direct <- cDirect, todo <- cTodo, out <- cOut,
    lost <- cLost

Loading ==
  INSTANCE Configuration WITH
    Home <- LHome, DotfilesRoot <- LDotfilesRoot, ConfigDir <- LConfigDir, GitRoots <- LGitRoots,
    Content <- LContent, Locked <- LLocked, Commands <- LCommands, Disks <- LDisks,
    Saves <- LSaves, MaxEdits <- LMaxEdits, cue <- lCue, cmd <- lCmd, pc <- lPc, layers <- lLayers,
    paths <- lPaths, config <- lConfig, todo <- lTodo, joined <- lJoined, files <- lFiles,
    entry <- lEntry, disks <- lDisks, read <- lRead

Theming ==
  INSTANCE IconTheme WITH
    Settings <- ISettings, Libraries <- ILibraries, DefaultContext <- IDefaultContext,
    Flags <- IFlags, Sizes <- ISizes, MaxDisturbances <- IMaxDisturbances, config <- iConfig,
    masters <- iMasters, cache <- iCache, work <- iWork, pc <- iPc, flags <- iFlags,
    loaded <- iLoaded, seen <- iSeen, colors <- iColors, todo <- iTodo, rasters <- iRasters,
    writing <- iWriting, files <- iFiles,
    disturbances <- iDisturbances, edited <- iEdited

Pinning ==
  INSTANCE SourcePins WITH
    Machines <- SMachines, Commits <- SCommits, Branches <- SBranches, Tags <- STags,
    HexTags <- SHexTags, Text <- SText, Accepts <- SAccepts, Groups <- SGroups, Starts <- SStarts,
    Versions <- SVersions, PageSize <- SPageSize, MaxPages <- SMaxPages, MaxRuns <- SMaxRuns,
    MaxMoves <- SMaxMoves,
    names <- sNames, head <- sHead, cue <- sCue, row <- sRow, cache <- sCache, cmd <- sCmd,
    moved <- sMoved, stayed <- sStayed, runs <- sRuns, moves <- sMoves

Checking ==
  INSTANCE Checks WITH
    Requests <- KRequests, Trees <- KTrees, Skipped <- KSkipped, Found <- KFound,
    MaxEdits <- KMaxEdits, req <- kReq, present <- kPresent, pc <- kPc, next <- kNext,
    applies <- kApplies, st <- kSt, said <- kSaid, got <- kGot, notes <- kNotes, edits <- kEdits

\* Tags, branches and commits are told apart by their names, and a pattern matches tags.  The text
\* of a tag is parts and a pre-release; a repository has a branch to start from.
ASSUME SourcesAssumption ==
  /\ IsSequence(STags) /\ SPageSize \in Nat \ {0} /\ SMachines # {} /\ Pinning!Gone \notin SCommits
  /\ "HEAD" \notin Pinning!TagSet /\ SBranches \cap Pinning!TagSet = {} /\ SCommits \cap Pinning!TagSet = {}
  /\ \A t \in Pinning!TagSet :
       /\ SText[t] = [main |-> SText[t].main, pre |-> SText[t].pre, raw |-> SText[t].raw]
       /\ SText[t].main \in Seq({"n", "w"} \X Nat) /\ SText[t].pre \in Seq({"n", "w"} \X Nat)
  /\ \A p \in DOMAIN SAccepts : SAccepts[p] \subseteq Pinning!TagSet
  /\ SStarts \subseteq [Pinning!Names -> SCommits \cup {Pinning!Gone}]
  /\ \A s \in SStarts : \E b \in SBranches : s[b] # Pinning!Gone
  /\ SVersions \subseteq {Pinning!Nothing, Pinning!HeadRef} \cup {Pinning!Ref(n) : n \in Pinning!Names \ SHexTags}
                           \cup {Pinning!Sha(c) : c \in SCommits} \cup {Pinning!Pattern(p) : p \in DOMAIN SAccepts}

\* A change is files with their hunks, of which one that goes gets no new lines; findings name
\* files, none of which has the name that stands for no file; and the codecs are those that the code knows, or none of them.
IsHunk(k) == k.at \in Nat /\ IsSequence(k.dels) /\ IsSequence(k.adds)
IsChange(diff) ==
  /\ IsSequence(diff)
  /\ \A n \in DOMAIN diff :
       /\ IsSequence(diff[n].hunks) /\ diff[n].plain \in BOOLEAN
       /\ \A i \in DOMAIN diff[n].hunks :
            /\ IsHunk(diff[n].hunks[i])
            /\ diff[n].file = <<>> => diff[n].hunks[i].adds = <<>>
ASSUME RequestsAssumption ==
  /\ \A r \in KRequests :
       /\ {"review", "fork", "target", "pushed", "parent"} \subseteq DOMAIN r.diffs
       /\ \A b \in DOMAIN r.diffs : IsChange(r.diffs[b])
       /\ \A t \in DOMAIN r.tools :
            r.tools[t].codec
              \in {"sarif", "actionlint_json", "shellcheck_json", "eslint_json", "other", ""}
  /\ \A found \in KFound : \A f \in found :
       /\ f = <<f[1], f[2], f[3]>> /\ IsSequence(f[1]) /\ f[1] # Checking!Garbage
       /\ \A r \in KRequests : r.root \o f[1] # Checking!Garbage

composeVars == <<cPc, cFiles, cMounts, cCue, cRecorded, cDirect, cTodo, cOut, cLost>>
loadVars ==
  <<lCue, lCmd, lPc, lLayers, lPaths, lConfig, lTodo, lJoined, lFiles, lEntry, lDisks, lRead>>
themeVars ==
  <<iConfig, iMasters, iCache, iWork, iPc, iFlags, iLoaded, iSeen, iColors, iTodo, iRasters, iWriting,
    iFiles, iDisturbances, iEdited>>
pinVars == <<sNames, sHead, sCue, sRow, sCache, sCmd, sMoved, sStayed, sRuns, sMoves>>
checkVars ==
  <<kReq, kPresent, kPc, kNext, kApplies, kSt, kSaid, kGot, kNotes, kEdits>>
=============================================================================
