---------------------------- MODULE PartsProofs ----------------------------
(***************************************************************************)
(* What the parts promise, for any values of their constants: a step of    *)
(* the whole is a step of a part or leaves it alone, so that the invariant *)
(* of a part, see WorkspaceProofs and MachineProofs, is one of the whole.  *)
(***************************************************************************)
EXTENDS Parts, WorkspaceProofs, MachineProofs

--------------------------------------------------------------------------------
(* The source pipeline. *)

LEMMA ComposingSteps == [AllNext]_allVars => [Composing!Next]_composeVars
  BY Zenon DEF AllNext, allVars

LEMMA ComposingInit == AllInit => ComposeInv
  <1>1. AllInit => Composing!Init
    BY DEF AllInit
  <1> QED BY <1>1, ComposeInit

LEMMA ComposingNext == ComposeInv /\ [AllNext]_allVars => ComposeInv'
  BY ComposingSteps, ComposeNext

(***************************************************************************)
(* The composed tree says what the configuration and the files say, all of *)
(* it and nothing else, whatever the order of the maps, but for the        *)
(* content of a link among fragments, and no step of a mount loses a file  *)
(* that no warning names, see composeTracked, fileMember and expandMount.  *)
(***************************************************************************)
THEOREM TreeSaysAll == AllSpec => []SaysAll
  <1>1. ComposeInv => SaysAll
    BY TreeSays DEF SaysAll
  <1> QED BY <1>1, ComposingInit, ComposingNext, PTL DEF AllSpec

(***************************************************************************)
(* Whether a tree is composed is settled by the files and the              *)
(* configuration, not by the order of the maps, see addDirect, add and     *)
(* absorbLineTargets.                                                      *)
(***************************************************************************)
THEOREM OrderSettlesNothing == AllSpec => []Settled
  <1>1. ComposeInv => Settled
    BY TreeSettled DEF Settled
  <1> QED BY <1>1, ComposingInit, ComposingNext, PTL DEF AllSpec

(***************************************************************************)
(* One file per path of the composed tree, and none where another needs a  *)
(* directory, but for a copy above or below the destination of fragments,  *)
(* see addDirect, pathSet and absorbLineTargets: what PrefixFree of        *)
(* Deployer takes for granted.                                             *)
(***************************************************************************)
THEOREM PathsHaveOneFile == AllSpec => []OneFilePerPath
  <1>1. ComposeInv => OneFilePerPath
    BY TreeOneFile DEF OneFilePerPath
  <1> QED BY <1>1, ComposingInit, ComposingNext, PTL DEF AllSpec

--------------------------------------------------------------------------------
(* Loading a configuration. *)

LEMMA LoadingSteps == [AllNext]_allVars => [Loading!Next]_loadVars
  BY Zenon DEF AllNext, allVars

LoadInv == ReadInv /\ FinalSound /\ ModulesFound

LEMMA LoadingInit == AllInit => LoadInv
  <1>1. AllInit => Loading!Init
    BY DEF AllInit
  <1>2. Loading!Init => ReadInv /\ FinalSound /\ ModulesFound
    BY LoadInit, NothingLoaded
  <1> QED BY <1>1, <1>2 DEF LoadInv

LEMMA LoadingNext == LoadInv /\ [AllNext]_allVars => LoadInv'
  BY LoadingSteps, LoadNext, SoundNext, FoundNext DEF LoadInv

\* Whenever one file is saved or deleted during a load, the configuration is that of the disk
\* before or after, unless a file was read before and after (buildModotValue,
\* internal/configcue/loader.go).
THEOREM LoadsAreAtomic == AllSpec => []LoadIsAtomic
  <1>1. LoadInv => LoadIsAtomic
    BY LoadAtomic DEF LoadInv, LoadIsAtomic
  <1> QED BY <1>1, LoadingInit, LoadingNext, PTL DEF AllSpec

(***************************************************************************)
(* The path that the configuration sees for an input is the directory that *)
(* a mount of it reads, but for versions taken from the lock, changed by   *)
(* modules or themselves a path (resolveRuntimeInputs of configcue and     *)
(* TryResolveSourceRefToPath of modfile).                                  *)
(***************************************************************************)
THEOREM InputsAgree == AllSpec => []RefsAgree
  <1>1. LoadInv => RefsAgree
    BY InputsSame DEF LoadInv, RefsAgree
  <1> QED BY <1>1, LoadingInit, LoadingNext, PTL DEF AllSpec

(***************************************************************************)
(* The CUE and the files of a module come from one directory, and a module *)
(* gives both or none, but for the forms of reference that the two readers *)
(* take differently, a workspace that is not where the configuration is,   *)
(* and modules that module files change (resolveLocalModulePath of         *)
(* configcue, ResolveModuleFromConfig of modfile).                         *)
(***************************************************************************)
THEOREM ModulesAreWhole == AllSpec => []ModuleWhole
  <1>1. LoadInv => ModuleWhole
    BY ModulesSame DEF LoadInv, ModuleWhole
  <1> QED BY <1>1, LoadingInit, LoadingNext, PTL DEF AllSpec

--------------------------------------------------------------------------------
(* The icon theme. *)

LEMMA ThemingSteps == [AllNext]_allVars => [Theming!Next]_themeVars
  BY Zenon DEF AllNext, allVars

LEMMA ThemingInit == AllInit => ThemeInv
  <1>1. AllInit => Theming!Init
    BY DEF AllInit
  <1> QED BY <1>1, ThemeInit

LEMMA ThemingNext == ThemeInv /\ [AllNext]_allVars => ThemeInv'
  BY ThemingSteps, ThemeNext

(***************************************************************************)
(* What a command deploys is the theme of its own configuration and        *)
(* masters, generated now or taken from the cache, unless something was    *)
(* edited while it was generated or the masters are told apart by neither  *)
(* number nor newest time; a file that two masters share shows nothing but *)
(* these, perhaps mixed, see Resolve of base16_icons.go and the tasks of   *)
(* runThemeGenerateEngine, which write in place.                           *)
(***************************************************************************)
THEOREM ThemesMatch == AllSpec => []ThemeMatches
  <1>1. ThemeInv => ThemeMatches
    BY ThemeMatched DEF ThemeMatches
  <1> QED BY <1>1, ThemingInit, ThemingNext, PTL DEF AllSpec

--------------------------------------------------------------------------------
(* Checks. *)

LEMMA CheckingSteps == [AllNext]_allVars => [Checking!Next]_checkVars
  BY Zenon DEF AllNext, allVars

LEMMA CheckingInit == AllInit => ChecksInv
  <1>1. AllInit => Checking!Init
    BY DEF AllInit
  <1> QED BY <1>1, ChecksInit

LEMMA CheckingNext == ChecksInv /\ [AllNext]_allVars => ChecksInv'
  BY CheckingSteps, ChecksNext

(***************************************************************************)
(* A review annotates exactly the findings on lines that the change adds   *)
(* to files whose names git writes plainly, of the linters whose output    *)
(* can be read, whatever becomes of the other tools and of files           *)
(* meanwhile, see annotateIfApplicable and parseUnifiedDiffLines.          *)
(***************************************************************************)
THEOREM FindingsAnnotated == AllSpec => []Annotated
  <1>1. ChecksInv => Annotated
    BY ChecksAnnotate DEF Annotated
  <1> QED BY <1>1, CheckingInit, CheckingNext, PTL DEF AllSpec

--------------------------------------------------------------------------------
(* What sources are pinned to. *)

LEMMA PinningSteps == [AllNext]_allVars => [Pinning!Next]_pinVars
  BY Zenon DEF AllNext, allVars

LEMMA PinningInit == AllInit => PinningProofs!PinsInv
  <1>1. AllInit => Pinning!Init
    BY DEF AllInit
  <1> QED BY <1>1, PinsInit

LEMMA PinningNext == PinningProofs!PinsInv /\ [AllNext]_allVars => PinningProofs!PinsInv'
  BY PinningSteps, PinsNext

(***************************************************************************)
(* The row of the lock names the newest tag of a pattern, unless that      *)
(* looks like a commit, and a reader reads what is pinned, whatever        *)
(* becomes of names upstream and however the pages of tags shift           *)
(* (GenerateLockWithConfig, trackingGitRef, applySourceLockOverlay).       *)
(***************************************************************************)
THEOREM SourcesArePinned == AllSpec => []Pinned
  <1>1. PinningProofs!PinsInv => Pinned
    BY PinsPinned DEF Pinned
  <1> QED BY <1>1, PinningInit, PinningNext, PTL DEF AllSpec

--------------------------------------------------------------------------------
(* The repositories of a backup. *)

LEMMA SyncingSteps == [AllNext]_allVars => [Syncing!Next]_syncVars
  BY Zenon DEF AllNext, allVars

LEMMA SyncingInit == AllInit => SyncInv
  <1>1. AllInit => Syncing!Init
    BY DEF AllInit
  <1> QED BY <1>1, SyncInit

LEMMA SyncingNext == SyncInv /\ [AllNext]_allVars => SyncInv'
  BY SyncingSteps, SyncNext

(***************************************************************************)
(* What a user wrote on a host stays in its tree or in a commit until the  *)
(* user deletes it, but for a file that came between the check and the     *)
(* removal, see GitRepoSyncAction.Run of internal/backup.                  *)
(***************************************************************************)
THEOREM SyncsLoseNothing == AllSpec => []NothingLost
  <1>1. SyncInv => NothingLost
    BY SyncKeeps DEF NothingLost
  <1> QED BY <1>1, SyncingInit, SyncingNext, PTL DEF AllSpec

(***************************************************************************)
(* A sync that returned without an error has what it saw in the history    *)
(* of the remote, for good, see GitRepoSyncAction.push.                    *)
(***************************************************************************)
THEOREM SyncsSave == AllSpec => []Saved
  <1>1. SyncInv => Saved
    BY SyncSaves DEF Saved
  <1> QED BY <1>1, SyncingInit, SyncingNext, PTL DEF AllSpec

(***************************************************************************)
(* A commit in the remote takes away only what a user deleted or an        *)
(* interrupted clone did not check out, see GitRepoSyncAction.pullRebase   *)
(* and commitIfDirty.                                                      *)
(***************************************************************************)
THEOREM SyncsDeleteNothing == AllSpec => []OnlyUsersDelete
  <1>1. SyncInv => OnlyUsersDelete
    BY SyncDeletes DEF OnlyUsersDelete
  <1> QED BY <1>1, SyncingInit, SyncingNext, PTL DEF AllSpec

--------------------------------------------------------------------------------
(* The update of the program. *)

LEMMA UpdatingSteps == [AllNext]_allVars => [Updating!Next]_updateVars
  BY Zenon DEF AllNext, allVars

LEMMA UpdatingInit == AllInit => UpdateInv
  <1>1. AllInit => Updating!Init
    BY DEF AllInit
  <1> QED BY <1>1, UpdateInit, ReleasesAssumption

LEMMA UpdatingNext == UpdateInv /\ [AllNext]_allVars => UpdateInv'
  BY UpdatingSteps, UpdateNext

(***************************************************************************)
(* The installed binary can always be run, with the two exceptions that    *)
(* Runnable names, see Update and InstallBinary of internal/selfupdate.    *)
(***************************************************************************)
THEOREM UpdatesStayRunnable == AllSpec => []Runnable
  <1>1. UpdateInv => Runnable
    BY UpdateRuns DEF Runnable
  <1> QED BY <1>1, UpdatingInit, UpdatingNext, PTL DEF AllSpec

--------------------------------------------------------------------------------
(* The history of commands. *)

LEMMA RecordingSteps == [AllNext]_allVars => [Recording!Next]_historyVars
  BY Zenon DEF AllNext, allVars

LEMMA RecordingInit == AllInit => HistoryInv
  <1>1. AllInit => Recording!Init
    BY DEF AllInit
  <1> QED BY <1>1, HistoryInit

LEMMA RecordingNext == HistoryInv /\ [AllNext]_allVars => HistoryInv'
  BY RecordingSteps, HistoryNext

(***************************************************************************)
(* The rows of the old database come in once and in front of every other,  *)
(* whatever is recorded and ingested meanwhile, see streamLegacyHistory of *)
(* internal/db.                                                            *)
(***************************************************************************)
THEOREM RowsImportedOnce == AllSpec => []ImportedOnce
  <1>1. HistoryInv => ImportedOnce
    BY HistoryImported DEF ImportedOnce
  <1> QED BY <1>1, RecordingInit, RecordingNext, PTL DEF AllSpec

LEMMA RecordingTimes == AllInit => HistoryTimed
  <1>1. AllInit => Recording!Init
    BY DEF AllInit
  <1> QED BY <1>1, TimedInit

LEMMA RecordingTimed == HistoryInv /\ HistoryTimed /\ [AllNext]_allVars => HistoryTimed'
  BY RecordingSteps, TimedNext

(***************************************************************************)
(* A list shows each command and directory among the newest rows once,     *)
(* with the number of its runs and when the newest was, and a search       *)
(* prefers the rows of the current directory, see collapseHistory of       *)
(* cmd/modot/utils/history and historyPreferCwd of internal/db.            *)
(***************************************************************************)
THEOREM RowsAreListed == AllSpec => []Listed
  <1>1. HistoryInv /\ HistoryTimed => Listed
    <2>1. HistoryInv => IsSequence(dRows)
      BY DEF HistoryInv
    <2>2. HistoryTimed => Timed(dRows)
      BY DEF HistoryTimed
    <2> QED BY <2>1, <2>2, RowsListed DEF Listed
  <1> QED BY <1>1, RecordingInit, RecordingNext, RecordingTimes, RecordingTimed, PTL DEF AllSpec

--------------------------------------------------------------------------------
(* The queue of commands that wait for an operator. *)

LEMMA AskingSteps == [AllNext]_allVars => [Asking!Next]_sudoVars
  BY Zenon DEF AllNext, allVars

LEMMA AskingInit == AllInit => QueueInv
  <1>1. AllInit => Asking!Init
    BY DEF AllInit
  <1> QED BY <1>1, QueueInit, SlugsAssumption

LEMMA AskingNext == QueueInv /\ [AllNext]_allVars => QueueInv'
  BY AskingSteps, QueueNext

(***************************************************************************)
(* A command that was enqueued waits until an approval ran it, it was      *)
(* rejected or replaced, or hides behind an approval of its slug, see      *)
(* Enqueue, Remove and Reject of internal/sudo.                            *)
(***************************************************************************)
THEOREM CommandsWait == AllSpec => []Waits
  <1>1. QueueInv => Waits
    BY QueueWaits DEF Waits
  <1> QED BY <1>1, AskingInit, AskingNext, PTL DEF AllSpec

--------------------------------------------------------------------------------
(* Commands of a machine that wait for an operator. *)

LEMMA HostingSteps == [AllNext]_allVars => [Hosting!Next]_hostVars
  BY Zenon DEF AllNext, allVars

LEMMA HostingInit == AllInit => HostInv
  <1>1. AllInit => Hosting!Init
    BY DEF AllInit
  <1> QED BY <1>1, HostInit

LEMMA HostingNext == HostInv /\ [AllNext]_allVars => HostInv'
  BY HostingSteps, HostNext

(***************************************************************************)
(* A command is still meant when an operator lets it run, unless it was    *)
(* outdated since, see Enqueue of internal/sudo, Rebuild and               *)
(* CleanupProfiles of internal/nix.                                        *)
(***************************************************************************)
THEOREM CommandsStayMeant == AllSpec => []StillMeant
  <1>1. HostInv => StillMeant
    BY HostMeans DEF StillMeant
  <1> QED BY <1>1, HostingInit, HostingNext, PTL DEF AllSpec

--------------------------------------------------------------------------------
(* Deploys. *)

LEMMA DeployingSteps == [AllNext]_allVars => [Deploying!Next]_deployVars
  BY Zenon DEF AllNext, allVars

LEMMA DeployingInit == AllInit => DeployInv
  <1>1. AllInit => Deploying!Init
    BY DEF AllInit
  <1> QED BY <1>1, DeployInit

LEMMA DeployingNext == DeployInv /\ [AllNext]_allVars => DeployInv'
  BY DeployingSteps, DeployNext

(***************************************************************************)
(* A deploy that ends well on a node that nobody else touched leaves it    *)
(* with what was asked for, and on its own never changes the nixpkgs of    *)
(* what runs, see Deploy of cmd/modot/utils/nix.                           *)
(***************************************************************************)
THEOREM DeploysEndWell == AllSpec => []Deployed
  <1>1. DeployInv => Deployed
    BY DeploysWell DEF Deployed
  <1> QED BY <1>1, DeployingInit, DeployingNext, PTL DEF AllSpec
=============================================================================
