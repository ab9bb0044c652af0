------------------------------- MODULE Ledger -------------------------------
(***************************************************************************)
(* What an apply promises about state.json, whatever it does to the        *)
(* targets: each run is a transaction on the ledger of owned paths.  A run *)
(* takes a snapshot of the configuration when it begins; it either commits *)
(* exactly the ownership of that snapshot, or it leaves the ledger alone,  *)
(* and once at rest it has no further effect.                              *)
(***************************************************************************)
CONSTANTS
  Proc,        \* apply processes
  Configs,     \* configurations
  Nothing,     \* the empty ledger
  OwnedBy(_)   \* the ledger that belongs to a configuration

VARIABLES
  ledger,      \* what state.json says
  config,      \* the configuration on disk
  running,     \* the processes with a run under way
  snapshot     \* the configuration each process took

ledgerVars == <<ledger, config, running, snapshot>>

Init ==
  /\ ledger = Nothing
  /\ config \in Configs
  /\ running = {}
  /\ snapshot = [p \in Proc |-> config]

Begin(p) ==
  /\ p \notin running
  /\ running' = running \cup {p}
  /\ snapshot' = [snapshot EXCEPT ![p] = config]
  /\ UNCHANGED <<ledger, config>>

Commit(p) ==
  /\ p \in running
  /\ running' = running \ {p}
  /\ ledger' = OwnedBy(snapshot[p])
  /\ UNCHANGED <<config, snapshot>>

\* A run that fails, dies, is a dry run or finds nothing to do.
Leave(p) ==
  /\ p \in running
  /\ running' = running \ {p}
  /\ UNCHANGED <<ledger, config, snapshot>>

Reconfigure(c) ==
  /\ config' = c
  /\ UNCHANGED <<ledger, running, snapshot>>

Next ==
  \/ \E p \in Proc : Begin(p) \/ Commit(p) \/ Leave(p)
  \/ \E c \in Configs : Reconfigure(c)

Spec == Init /\ [][Next]_ledgerVars
=============================================================================
