-------------------------------- MODULE Parts --------------------------------
(***************************************************************************)
(* Parts that share no state, those of a workspace and those of machines,  *)
(* side by side: a behavior is one of the part chosen at the start, and    *)
(* the others stay where they are.                                         *)
(***************************************************************************)
EXTENDS Workspace, Machines

CONSTANT Active   \* the parts that may be chosen
VARIABLE part

allVars ==
  <<part, composeVars, loadVars, themeVars, syncVars, updateVars, historyVars, sudoVars,
    hostVars, deployVars, checkVars, backupVars, pinVars>>

\* A part that is not chosen rests in one of its initial states.
AnyOf(S) == CHOOSE x \in S : TRUE
Resting ==
  [inputs |-> AnyOf(CInputs), disk |-> AnyOf(LDisks), command |-> AnyOf(LCommands),
   settings |-> AnyOf(ISettings), library |-> AnyOf(ILibraries), repositories |-> AnyOf(GRepositories),
   bash |-> AnyOf(DBashFiles), action |-> AnyOf(PActions), request |-> AnyOf(KRequests),
   tree |-> AnyOf(KTrees), kind |-> AnyOf(BKinds), names |-> AnyOf(SStarts), version |-> AnyOf(SVersions)]

AllInit ==
  /\ part \in Active
  /\ part # "compose" => LET i == Resting.inputs IN cFiles = i.files /\ cMounts = i.mounts /\ cCue = i.cue
  /\ Composing!Init
  /\ part # "load" => lCue = Resting.disk /\ lCmd = Resting.command
  /\ Loading!Init
  /\ part # "theme" => iConfig = Resting.settings /\ iMasters = Resting.library
  /\ Theming!Init
  /\ part # "sync" => LET i == Resting.repositories IN gRepo = i.repo /\ gRemote = i.remote /\ gSymref = i.symref
  /\ Syncing!Init
  /\ part # "update" => uBin = Updating!None
  /\ Updating!Init
  /\ part # "history" => dRows = <<>> /\ dOld = <<>> /\ dBash = Resting.bash
  /\ Recording!Init
  /\ Asking!Init
  /\ part # "host" => nRemote = FALSE
  /\ Hosting!Init
  /\ part # "deploy" => pRev = 1 /\ pAsked = [t \in PTasks |-> Resting.action]
  /\ Deploying!Init
  /\ part # "check" => kReq = Resting.request /\ kPresent = Resting.tree
  /\ Checking!Init
  /\ part # "backup" => bKind = [i \in BActions |-> Resting.kind]
  /\ BackingUp!Init
  /\ part # "pins" => sNames = Resting.names /\ sCue = Resting.version
  /\ Pinning!Init

AllNext ==
  /\ UNCHANGED part
  /\ \/ /\ part = "compose" /\ Composing!Next
        /\ UNCHANGED <<loadVars, themeVars, syncVars, updateVars, historyVars, sudoVars,
                      hostVars, deployVars, checkVars, backupVars, pinVars>>
     \/ /\ part = "load" /\ Loading!Next
        /\ UNCHANGED <<composeVars, themeVars, syncVars, updateVars, historyVars, sudoVars,
                      hostVars, deployVars, checkVars, backupVars, pinVars>>
     \/ /\ part = "theme" /\ Theming!Next
        /\ UNCHANGED <<composeVars, loadVars, syncVars, updateVars, historyVars, sudoVars,
                      hostVars, deployVars, checkVars, backupVars, pinVars>>
     \/ /\ part = "sync" /\ Syncing!Next
        /\ UNCHANGED <<composeVars, loadVars, themeVars, updateVars, historyVars, sudoVars,
                      hostVars, deployVars, checkVars, backupVars, pinVars>>
     \/ /\ part = "update" /\ Updating!Next
        /\ UNCHANGED <<composeVars, loadVars, themeVars, syncVars, historyVars, sudoVars,
                      hostVars, deployVars, checkVars, backupVars, pinVars>>
     \/ /\ part = "history" /\ Recording!Next
        /\ UNCHANGED <<composeVars, loadVars, themeVars, syncVars, updateVars, sudoVars,
                      hostVars, deployVars, checkVars, backupVars, pinVars>>
     \/ /\ part = "sudo" /\ Asking!Next
        /\ UNCHANGED <<composeVars, loadVars, themeVars, syncVars, updateVars, historyVars,
                      hostVars, deployVars, checkVars, backupVars, pinVars>>
     \/ /\ part = "host" /\ Hosting!Next
        /\ UNCHANGED <<composeVars, loadVars, themeVars, syncVars, updateVars, historyVars,
                      sudoVars, deployVars, checkVars, backupVars, pinVars>>
     \/ /\ part = "deploy" /\ Deploying!Next
        /\ UNCHANGED <<composeVars, loadVars, themeVars, syncVars, updateVars, historyVars,
                      sudoVars, hostVars, checkVars, backupVars, pinVars>>
     \/ /\ part = "check" /\ Checking!Next
        /\ UNCHANGED <<composeVars, loadVars, themeVars, syncVars, updateVars, historyVars,
                      sudoVars, hostVars, deployVars, backupVars, pinVars>>
     \/ /\ part = "backup" /\ BackingUp!Next
        /\ UNCHANGED <<composeVars, loadVars, themeVars, syncVars, updateVars, historyVars,
                      sudoVars, hostVars, deployVars, checkVars, pinVars>>
     \/ /\ part = "pins" /\ Pinning!Next
        /\ UNCHANGED <<composeVars, loadVars, themeVars, syncVars, updateVars, historyVars,
                      sudoVars, hostVars, deployVars, checkVars, backupVars>>

AllSpec == AllInit /\ [][AllNext]_allVars

\* The properties of each part, stated and explained in its module; the others rest.
SaysAll == part = "compose" => Composing!SaysAll
Settled == part = "compose" => Composing!Settled
OneFilePerPath == part = "compose" => Composing!OneFilePerPath
LoadIsAtomic == part = "load" => Loading!LoadIsAtomic
ModuleWhole == part = "load" => Loading!ModuleWhole
RefsAgree == part = "load" => Loading!RefsAgree
ThemeMatches == part = "theme" => Theming!ThemeMatches
BackupReturns == part = "backup" => BackingUp!BackupReturns
NothingLost == part = "sync" => Syncing!NothingLost
Saved == part = "sync" => Syncing!Saved
OnlyUsersDelete == part = "sync" => Syncing!OnlyUsersDelete
Runnable == part = "update" => Updating!Runnable
ImportedOnce == part = "history" => Recording!ImportedOnce
Listed == part = "history" => Recording!Listed
Waits == part = "sudo" => Asking!Waits
StillMeant == part = "host" => Hosting!StillMeant
Deployed == part = "deploy" => Deploying!Deployed
Annotated == part = "check" => Checking!Annotated
Pinned == part = "pins" => Pinning!Pinned
EntryNamesModules == part = "load" => Loading!EntryNamesModules
=============================================================================
