------------------------------ MODULE CliVault ------------------------------
(***************************************************************************)
(* The command line wallet: every command is a process of its own, which   *)
(* loads the vault file, opens it, does its work and stores the vault back *)
(* (init, restore and vault-download only store).  Nothing locks the file, *)
(* commands that only read store it back too, and a store truncates the    *)
(* file before it writes it.                                               *)
(***************************************************************************)
EXTENDS Naturals, Sequences

CONSTANTS
  Procs,    \* processes: each runs one command
  Wallets,  \* mnemonics
  Labels,   \* names of accounts
  Absent, Empty, Garbled \* files that hold no vault

(* The accounts of a wallet are its keys in order; a vault knows how many  *)
(* were made, and their labels.                                            *)
VaultFiles == [wallet : Wallets, named : Seq(Labels)]

ASSUME FilesAssumption ==
  /\ Absent \notin VaultFiles /\ Empty \notin VaultFiles /\ Garbled \notin VaultFiles
  /\ Absent # Empty /\ Empty # Garbled /\ Garbled # Absent

VARIABLES
  file,     \* the vault file
  step,     \* where each process is
  cmd,      \* its command
  held,     \* the vault it holds
  knows,    \* history: the stores there were when it loaded the file
  began,    \* history: the stores there were when it truncated the file
  storedAs, \* history: which store its own was, 0 before
  stores,   \* history: the number of stores
  uploads   \* what vault-upload uploaded

cliVars == <<file, step, cmd, held, knows, began, storedAs, stores, uploads>>

Opening   == {"new-account", "vault-upload", "other"}
Replacing == {"create", "vault-download"}
CliSteps == {"idle", "opened", "store", "write", "done", "failed", "cut"}

CliTypeOK ==
  /\ file \in VaultFiles \cup {Absent, Empty, Garbled}
  /\ step \in [Procs -> CliSteps]
  /\ cmd \in [Procs -> Opening \cup Replacing \cup {"none"}]
  /\ held \in [Procs -> VaultFiles \cup {Absent, Garbled}]
  /\ knows \in [Procs -> Nat]
  /\ began \in [Procs -> Nat]
  /\ storedAs \in [Procs -> Nat]
  /\ stores \in Nat
  /\ uploads \subseteq VaultFiles

New(w) == [wallet |-> w, named |-> <<>>]

CliInit ==
  /\ file \in {Absent} \cup {New(w) : w \in Wallets}
  /\ step = [p \in Procs |-> "idle"]
  /\ cmd = [p \in Procs |-> "none"]
  /\ held = [p \in Procs |-> Absent]
  /\ knows = [p \in Procs |-> 0]
  /\ began = [p \in Procs |-> 0]
  /\ storedAs = [p \in Procs |-> 0]
  /\ stores = 0
  /\ uploads = {}

-----------------------------------------------------------------------------
Goes(p, to) == step' = [step EXCEPT ![p] = to]

(* init with a new mnemonic, restore with an old one. *)
CliCreate(p) ==
  /\ step[p] = "idle" /\ Goes(p, "store")
  /\ cmd' = [cmd EXCEPT ![p] = "create"]
  /\ \E w \in Wallets : held' = [held EXCEPT ![p] = New(w)]
  /\ UNCHANGED <<file, knows, began, storedAs, stores, uploads>>

(* vault-download stores what a CID leads to, a vault or not. *)
Download(p) ==
  /\ step[p] = "idle" /\ Goes(p, "store")
  /\ cmd' = [cmd EXCEPT ![p] = "vault-download"]
  /\ \E v \in uploads \cup {Garbled} : held' = [held EXCEPT ![p] = v]
  /\ UNCHANGED <<file, knows, began, storedAs, stores, uploads>>

(* All other commands load the file and unlock what is in it. *)
Open(p) ==
  /\ step[p] = "idle"
  /\ \E c \in Opening : cmd' = [cmd EXCEPT ![p] = c]
  /\ IF file \in VaultFiles
     THEN /\ Goes(p, "opened")
          /\ held' = [held EXCEPT ![p] = file]
          /\ knows' = [knows EXCEPT ![p] = stores]
     ELSE Goes(p, "failed") /\ UNCHANGED <<held, knows>>
  /\ UNCHANGED <<file, began, storedAs, stores, uploads>>

Names(v) == {v.named[i] : i \in 1..Len(v.named)}
WithAccount(v, l) == [v EXCEPT !.named = Append(@, l)]

(* Faulty variant: vault-upload sends the file instead of an export. *)
Run_FileUploaded(p) ==
  /\ step[p] = "opened" /\ Goes(p, "store")
  /\ cmd[p] = "vault-upload"
  /\ uploads' = uploads \cup {file}
  /\ UNCHANGED <<held, file, cmd, knows, began, storedAs, stores>>

(* Faulty variant: an account is made in fresh storage. *)
Run_Fresh(p) ==
  /\ step[p] = "opened" /\ Goes(p, "store")
  /\ \/ /\ cmd[p] = "new-account"
        /\ \E l \in Labels \ Names(held[p]) :
             held' = [held EXCEPT ![p] = WithAccount(New(@.wallet), l)]
     \/ cmd[p] # "new-account" /\ UNCHANGED held
  /\ UNCHANGED <<file, cmd, knows, began, storedAs, stores, uploads>>

(* Faulty variant: the vault is exported before the account is made. *)
Run_ExportedBefore(p) ==
  /\ step[p] = "opened" /\ Goes(p, "store")
  /\ UNCHANGED <<held, uploads, file, cmd, knows, began, storedAs, stores>>

(* The operation and the export after it.  new-account refuses a label in  *)
(* use; what else the other commands change, sync finds again.             *)
Run(p) ==
  /\ step[p] = "opened" /\ Goes(p, "store")
  /\ \/ /\ cmd[p] = "new-account"
        /\ \E l \in Labels \ Names(held[p]) :
             held' = [held EXCEPT ![p] = WithAccount(@, l)]
        /\ UNCHANGED uploads
     \/ /\ cmd[p] = "vault-upload"
        /\ uploads' = uploads \cup {held[p]}
        /\ UNCHANGED held
     \/ cmd[p] = "other" /\ UNCHANGED <<held, uploads>>
  /\ UNCHANGED <<file, cmd, knows, began, storedAs, stores>>

(* Faulty variant: the file is opened for writing as it is. *)
Truncate_Not(p) ==
  /\ step[p] = "store" /\ Goes(p, "write")
  /\ began' = [began EXCEPT ![p] = stores]
  /\ UNCHANGED <<file, cmd, held, knows, storedAs, stores, uploads>>

(* std::fs::write empties the file ... *)
Truncate(p) ==
  /\ step[p] = "store" /\ Goes(p, "write")
  /\ file' = Empty
  /\ began' = [began EXCEPT ![p] = stores]
  /\ UNCHANGED <<cmd, held, knows, storedAs, stores, uploads>>

(* ... and writes from its start: what another process wrote there in the  *)
(* meantime shows behind a shorter vault.                                  *)
Write(p) ==
  /\ step[p] = "write" /\ Goes(p, "done")
  /\ \/ file' = held[p]
     \/ file # Empty /\ file' = Garbled
  /\ stores' = stores + 1
  /\ storedAs' = [storedAs EXCEPT ![p] = stores + 1]
  /\ UNCHANGED <<cmd, held, knows, began, uploads>>

(* A process fails on an error, or is killed: maybe half-way through its   *)
(* write.                                                                  *)
Stop(p) ==
  /\ \/ step[p] \in {"opened", "store"} /\ Goes(p, "failed") /\ UNCHANGED file
     \/ step[p] = "write" /\ Goes(p, "cut") /\ file' \in {file, Garbled}
  /\ UNCHANGED <<cmd, held, knows, began, storedAs, stores, uploads>>

CliNext ==
  \E p \in Procs :
    \/ CliCreate(p) \/ Download(p) \/ Open(p) \/ Run(p)
    \/ Truncate(p) \/ Write(p) \/ Stop(p)

CliSpec == CliInit /\ [][CliNext]_cliVars

-----------------------------------------------------------------------------
(* Properties *)

Extends(v, u) ==
  /\ v.wallet = u.wallet
  /\ Len(u.named) <= Len(v.named)
  /\ \A i \in 1..Len(u.named) : v.named[i] = u.named[i]

Stored(p) == storedAs[p] > 0 /\ held[p] \in VaultFiles

(* Among the first n stores, one undid that of p: it replaced the vault,   *)
(* or its process had loaded the file before p stored.                     *)
UndoneBy(p, n) ==
  \E q \in Procs :
    /\ storedAs[p] < storedAs[q] /\ storedAs[q] <= n
    /\ cmd[q] \in Replacing \/ knows[q] < storedAs[p]

(* What a command reported as stored stays in the vault, whatever other    *)
(* commands, reads among them, store over it, until it is replaced or a    *)
(* command that was already under way stores.                              *)
AccountsSurvive ==
  file \in VaultFiles =>
    \A p \in Procs : Stored(p) => Extends(file, held[p]) \/ UndoneBy(p, stores)

(* Two new-account commands never hand out one account under two labels,   *)
(* unless the second began before the first had stored, or after its store *)
(* was undone.                                                             *)
AccountsAreHandedOutOnce ==
  \A p, q \in Procs :
    /\ cmd[p] = "new-account" /\ storedAs[p] > 0
    /\ cmd[q] = "new-account" /\ storedAs[q] > storedAs[p]
    /\ held[p].wallet = held[q].wallet
    /\ Len(held[p].named) = Len(held[q].named)
    => knows[q] < storedAs[p] \/ UndoneBy(p, knows[q])

(* The vault file cannot be opened only while it is written, after a       *)
(* process ended in its write, after two wrote at once, or after a         *)
(* download of something else.                                             *)
UnreadableHasReason ==
  /\ file = Empty => \E p \in Procs : step[p] \in {"write", "cut"}
  /\ file = Garbled =>
       \/ \E p \in Procs : step[p] = "cut"
       \/ \E p \in Procs : storedAs[p] > 0 /\ held[p] = Garbled
       \/ \E p, q \in Procs : /\ began[p] < storedAs[q]
                              /\ storedAs[q] < storedAs[p]
=============================================================================
