--------------------------- MODULE MCVaultStores ---------------------------
(* Where a wallet is kept: the command line's vault file, the browser      *)
(* wallet's records, or what the recovery keeps of it.  They share         *)
(* nothing.                                                                *)
EXTENDS MCRecovery, CliVault, PwaVault

CONSTANTS a1, a2, a3, blob1, blob2

MCAccountsOf == blob1 :> {a1} @@ blob2 :> {a2}

VARIABLE surface

StoresInit ==
  /\ CliInit /\ PwaInit /\ Init
  /\ surface \in {"cli", "pwa", "recovery"}
  /\ surface # "cli" => file = Absent

StoresNext ==
  \/ surface = "cli" /\ CliNext /\ UNCHANGED <<pwaVars, vars, surface>>
  \/ surface = "pwa" /\ PwaNext /\ UNCHANGED <<cliVars, vars, surface>>
  \/ surface = "recovery" /\ Next /\ UNCHANGED <<cliVars, pwaVars, surface>>

storesVars == <<cliVars, pwaVars, vars, surface>>

StoresSpec == StoresInit /\ [][StoresNext]_storesVars

(* The type invariants of the two stores.                                  *)
StoresTypeOK == CliTypeOK /\ PwaTypeOK
=============================================================================
