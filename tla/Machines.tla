------------------------------ MODULE Machines ------------------------------
(***************************************************************************)
(* What happens on machines: the repositories that a backup syncs between  *)
(* them, the update of the program, the history of the shell, the commands *)
(* that wait for an operator, a NixOS host, deploys to nodes, and a backup *)
(* with its pools.  The constants and the variables of a part begin with   *)
(* its letter.                                                             *)
(***************************************************************************)
EXTENDS Integers, Lists

CONSTANTS
  GHosts, GRepositories, GMaxEdits, GMaxDeletes, GMaxRuns, GMaxInterrupts,
  UProcs, UMaxVersion, UMaxStarts, UMaxKills,
  DNames, DDirs, DBashFiles, DLimits, DImporters, DMaxRows, DMaxOld, DMaxTime,
  QSlugs, QOperators, QMaxCommands, QMaxKills,
  NUsers, NOperators, NActions, NProfiles, NMaxCommands, NMaxKills, NMaxGenerations, NMaxMoves,
  PTasks, PNodeOf, PActions, PNixpkgsOf, PMaxRevision, PMaxRestarts,
  BActions, BKinds, BIOSlots, BMaxLines

\* The code enqueues under two slugs of its own, and there is a release before an update.
ASSUME SlugsAssumption == QSlugs # {}
ASSUME ReleasesAssumption == UMaxVersion \in Nat \ {0}

\* Repositories as git makes them, before anybody deleted a file: what is no repository has no
\* commits, no commit takes a file away, and a branch has its files in the tree.
OnlyAdds(cs) == IsSequence(cs) /\ \A n \in DOMAIN cs : cs[n].dels = {}
ASSUME RepositoriesAssumption ==
  \A i \in GRepositories :
    /\ OnlyAdds(i.remote) /\ DOMAIN i.repo = GHosts
    /\ \A h \in GHosts :
         LET r == i.repo[h] IN
         /\ DOMAIN r = {"at", "commits", "tree"} /\ OnlyAdds(r.commits)
         /\ r.at \in {"absent", "dir", "file"} => r.commits = <<>>
         /\ r.at = "absent" => r.tree = {}
         /\ r.at = "branch" => \A n \in DOMAIN r.commits : r.commits[n].adds \subseteq r.tree

\* A history file is lines, each a time, a command or empty; a limit is not negative.
ASSUME HistoryAssumption ==
  /\ DLimits \subseteq Nat
  /\ \A f \in DBashFiles :
       /\ IsSequence(f) /\ \A n \in DOMAIN f : f[n].kind \in {"time", "empty", "command"}
       /\ \A n \in DOMAIN f : f[n].kind = "time" => f[n].at \in Int

VARIABLES
  gRepo, gRemote, gSymref, gPc, gSnap, gMade, gDeleted, gLate, gWiped, gMissing, gRuns,
  gInterrupts,
  uBin, uTmp, uLatest, uKind, uForce, uOwn, uWant, uPc, uShared, uBare, uStarts, uKills,
  dRows, dOld, dBash, dNow, dPc, dSeen, dLoaded, dCopied,
  qQueue, qLast, qPc, qSlug, qCmd, qTried, qRejected, qReplaced, qHidden, qKills,
  nQueue, nLast, nPc, nSlug, nCmd, nTried, nRejected, nReplaced, nHidden, nKills, nAsked, nRev,
  nRemote, nBuilt, nStore, nRunning, nBoot, nGens, nCurrent, nSt, nTodo, nDated, nStale, nMoves,
  pRev, pNodes, pPc, pTop, pAsked, pAction, pFound, pQuiet, pRestarts,
  bKind, bSt, bLeaf, bScanner, bLines, bResult, bCancelled

Syncing ==
  INSTANCE GitSync WITH
    Hosts <- GHosts, Repositories <- GRepositories, MaxEdits <- GMaxEdits,
    MaxDeletes <- GMaxDeletes, MaxRuns <- GMaxRuns, MaxInterrupts <- GMaxInterrupts,
    repo <- gRepo, remote <- gRemote, symref <- gSymref, pc <- gPc, snap <- gSnap, made <-
    gMade, deleted <- gDeleted, late <- gLate, wiped <- gWiped, missing <- gMissing, runs <-
    gRuns, interrupts <- gInterrupts

Updating ==
  INSTANCE SelfUpdate WITH
    Procs <- UProcs, MaxVersion <- UMaxVersion, MaxStarts <- UMaxStarts, MaxKills <- UMaxKills,
    bin <- uBin, tmp <- uTmp, latest <- uLatest, kind <- uKind, force <- uForce, own <- uOwn,
    want <- uWant, pc <- uPc, shared <- uShared, bare <- uBare, starts <- uStarts, kills <-
    uKills

Recording ==
  INSTANCE History WITH
    Names <- DNames, Dirs <- DDirs, BashFiles <- DBashFiles, Limits <- DLimits,
    Importers <- DImporters, MaxRows <- DMaxRows, MaxOld <- DMaxOld, MaxTime <- DMaxTime,
    rows <- dRows, old <- dOld, bash <- dBash, now <- dNow, pc <- dPc, seen <- dSeen, loaded <-
    dLoaded, copied <- dCopied

Asking ==
  INSTANCE SudoQueue WITH
    Slugs <- QSlugs, Operators <- QOperators, MaxCommands <- QMaxCommands,
    MaxKills <- QMaxKills,
    queue <- qQueue, last <- qLast, pc <- qPc, slug <- qSlug, cmd <- qCmd, tried <- qTried,
    rejected <- qRejected, replaced <- qReplaced, hidden <- qHidden, kills <- qKills

Hosting ==
  INSTANCE NixHost WITH
    Users <- NUsers, Operators <- NOperators, Actions <- NActions, Profiles <- NProfiles,
    MaxCommands <- NMaxCommands, MaxKills <- NMaxKills, MaxGenerations <- NMaxGenerations,
    MaxMoves <- NMaxMoves,
    queue <- nQueue, last <- nLast, pc <- nPc, slug <- nSlug, cmd <- nCmd, tried <- nTried,
    rejected <- nRejected, replaced <- nReplaced, hidden <- nHidden, kills <- nKills,
    asked <- nAsked, rev <- nRev, remote <- nRemote, built <- nBuilt, store <- nStore,
    running <- nRunning, boot <- nBoot, gens <- nGens, current <- nCurrent, st <- nSt,
    todo <- nTodo, dated <- nDated, stale <- nStale, moves <- nMoves

Deploying ==
  INSTANCE Deploy WITH
    Tasks <- PTasks, NodeOf <- PNodeOf, Actions <- PActions, NixpkgsOf <- PNixpkgsOf,
    MaxRevision <- PMaxRevision, MaxRestarts <- PMaxRestarts,
    rev <- pRev, nodes <- pNodes, pc <- pPc, top <- pTop, asked <- pAsked, action <- pAction,
    found <- pFound, quiet <- pQuiet, restarts <- pRestarts

BackingUp ==
  INSTANCE Backup WITH
    Actions <- BActions, Kinds <- BKinds, IOSlots <- BIOSlots, MaxLines <- BMaxLines,
    kind <- bKind, st <- bSt, leaf <- bLeaf, scanner <- bScanner, lines <- bLines,
    result <- bResult, cancelled <- bCancelled

syncVars ==
  <<gRepo, gRemote, gSymref, gPc, gSnap, gMade, gDeleted, gLate, gWiped, gMissing, gRuns,
    gInterrupts>>
updateVars ==
  <<uBin, uTmp, uLatest, uKind, uForce, uOwn, uWant, uPc, uShared, uBare, uStarts, uKills>>
historyVars ==
  <<dRows, dOld, dBash, dNow, dPc, dSeen, dLoaded, dCopied>>
sudoVars ==
  <<qQueue, qLast, qPc, qSlug, qCmd, qTried, qRejected, qReplaced, qHidden, qKills>>
hostVars ==
  <<nQueue, nLast, nPc, nSlug, nCmd, nTried, nRejected, nReplaced, nHidden, nKills, nAsked, nRev,
    nRemote, nBuilt, nStore, nRunning, nBoot, nGens, nCurrent, nSt, nTodo, nDated, nStale, nMoves>>
deployVars ==
  <<pRev, pNodes, pPc, pTop, pAsked, pAction, pFound, pQuiet, pRestarts>>
backupVars == <<bKind, bSt, bLeaf, bScanner, bLines, bResult, bCancelled>>
=============================================================================
