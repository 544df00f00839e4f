---------------------------- MODULE DesktopVault ----------------------------
(***************************************************************************)
(* The desktop wallet: the web view (Root of web/wallet and TauriBackend), *)
(* the Tauri shell (lez_op, vault_blob_get, vault_blob_set), the wsp-lezd  *)
(* helper with the worker's session, and the vault file.                   *)
(*                                                                         *)
(* TauriBackend methods are chains of awaited invoke()s: each awaited      *)
(* command is a request in `inbox`, served in order by the shell's main    *)
(* thread, and its reply in `outbox` resumes the method that awaits it.    *)
(* Several methods are under way at once.  The helper can die at any time, *)
(* taking the session with it; the application can be closed, or the power *)
(* lost, at any time, even while the vault file is being written.          *)
(*                                                                         *)
(* A vault blob is its seed and what a session writes into it: labelled    *)
(* accounts, and the note state a transfer or a program call leaves.       *)
(***************************************************************************)
EXTENDS Naturals, Sequences

CONSTANTS
  Tasks,     \* backend calls the web view may have under way at once
  Seeds,     \* mnemonics
  Items,     \* what sessions write into a vault
  BaseItems, \* what a vault starts with
  Torn,      \* the vault file after an interrupted write
  NoVault,   \* no vault file
  Nothing    \* no session, no argument

Vaults == [seed : Seeds, items : SUBSET (Items \cup BaseItems)]

Fresh(seed) == [seed |-> seed, items |-> BaseItems]

ASSUME VaultAssumption ==
  /\ Items \cap BaseItems = {}
  /\ {Torn, NoVault, Nothing} \cap Vaults = {}
  /\ Torn # NoVault /\ NoVault # Nothing /\ Torn # Nothing

VARIABLES
  disk,      \* lez-vault.blob in the app-data directory
  helper,    \* HelperState: no child, a running child, or a dead one
  session,   \* Worker.session of the running child
  inbox,     \* invoke()s the shell has not served yet
  outbox,    \* replies the web view has not processed yet
  unlocked,  \* TauriBackend.unlocked
  screen,    \* Root: needsOnboarding null, true or false
  task,      \* the backend calls under way
  confirmed, \* the writes whose success was reported to the user
  backups    \* vaults sealed and uploaded by an onboarding

vars == <<disk, helper, session, inbox, outbox, unlocked, screen, task,
          confirmed, backups>>

shell   == <<disk, helper, session>>
webview == <<unlocked, screen, task, backups>>

-----------------------------------------------------------------------------
(* The backend methods as chains of commands *)

(* Methods that call ensureUnlocked first.  "write" stands for             *)
(* createAccount, transfer and programCall, "list" for listAccounts and    *)
(* sync, "read" for balance, status, registryLookup and accountRead.       *)
Unlocking == {"list", "write", "export"}
Methods   == Unlocking \cup {"read", "init", "restore", "import"}
WorkerOps == {"read", "write", "export_blob", "unlock", "init", "restore"}
Commands  == WorkerOps \cup {"vault_blob_get", "vault_blob_set"}

MainOp(method) ==
  CASE method = "list"   -> "read"
    [] method = "export" -> "export_blob"
    [] method = "import" -> "vault_blob_set"
    [] OTHER             -> method

(* Faulty variant: every method unlocks the vault anew. *)
FirstCommand_AlwaysUnlock(method) ==
  IF method \in Unlocking THEN "vault_blob_get" ELSE MainOp(method)

FirstCommand(method) ==
  IF method \in Unlocking /\ ~unlocked THEN "vault_blob_get"
  ELSE MainOp(method)

(* Faulty variant: the blob is exported but never stored. *)
NextCommand_NoPersist(method, cmd) ==
  CASE cmd = "vault_blob_get" -> "unlock"
    [] cmd = "unlock" -> IF method = "import" THEN "done" ELSE MainOp(method)
    [] cmd \in {"write", "init", "restore"} -> "export_blob"
    [] cmd = "vault_blob_set" /\ method = "import" -> "unlock"
    [] OTHER -> "done"

(* The command a method awaits next once `cmd` has succeeded.              *)
NextCommand(method, cmd) ==
  CASE cmd = "vault_blob_get" -> "unlock"
    [] cmd = "unlock" -> IF method = "import" THEN "done" ELSE MainOp(method)
    [] cmd \in {"write", "init", "restore"} -> "export_blob"
    [] cmd = "export_blob" /\ method # "export" -> "vault_blob_set"
    [] cmd = "vault_blob_set" /\ method = "import" -> "unlock"
    [] OTHER -> "done"

Args == Seeds \cup Items \cup Vaults \cup {Torn, Nothing}

Idle == [method |-> "idle", awaits |-> "done", arg |-> Nothing]

TaskStates ==
  {Idle} \cup [method : Methods, awaits : Commands, arg : Args]

Requests == [task : Tasks, cmd : Commands, arg : Args]
Replies  == [task : Tasks, ok : BOOLEAN, value : Args \cup {NoVault}]

TypeOK ==
  /\ disk \in Vaults \cup {Torn, NoVault}
  /\ helper \in {"none", "running", "dead"}
  /\ session \in Vaults \cup {Nothing}
  /\ inbox \in Seq(Requests)
  /\ outbox \in Seq(Replies)
  /\ unlocked \in BOOLEAN
  /\ screen \in {"boot", "onboarding", "wallet"}
  /\ task \in [Tasks -> TaskStates]
  /\ confirmed \subseteq Seeds \X Items
  /\ backups \subseteq Vaults

(* The application has just been opened; Root's effect calls listAccounts. *)
Init ==
  /\ disk \in {NoVault} \cup {Fresh(s) : s \in Seeds}
  /\ helper = "none"
  /\ session = Nothing
  /\ inbox = <<>>
  /\ outbox = <<>>
  /\ unlocked = FALSE
  /\ screen = "boot"
  /\ task = [t \in Tasks |-> Idle]
  /\ confirmed = {}
  /\ backups = {}

-----------------------------------------------------------------------------
(* The web view *)

Request(t, cmd, arg) == [task |-> t, cmd |-> cmd, arg |-> arg]

AllIdle == \A t \in Tasks : task[t] = Idle

(* The synchronous part of a method, up to its first await. *)
Call(t, method, arg) ==
  /\ task[t] = Idle
  /\ task' = [task EXCEPT ![t] =
                [method |-> method, awaits |-> FirstCommand(method),
                 arg |-> arg]]
  /\ inbox' = Append(inbox, Request(t, FirstCommand(method), arg))
  /\ UNCHANGED <<outbox, unlocked, screen, confirmed, backups, shell>>

Boot ==
  /\ screen = "boot" /\ AllIdle
  /\ \E t \in Tasks : Call(t, "list", Nothing)

(* Onboarding: one flow at a time, the others are hidden while it is busy. *)
Onboard ==
  /\ screen = "onboarding" /\ AllIdle
  /\ \E t \in Tasks :
       \/ \E s \in Seeds : Call(t, "init", s) \/ Call(t, "restore", s)
       \/ \E v \in backups : Call(t, "import", v)

(* WalletApp: no button is disabled while a call is under way. *)
UseWallet ==
  /\ screen = "wallet"
  /\ \E t \in Tasks :
       \/ Call(t, "list", Nothing)
       \/ Call(t, "read", Nothing)
       \/ \E i \in Items : Call(t, "write", i)

Settle(t) ==
  /\ task' = [task EXCEPT ![t] = Idle]
  /\ UNCHANGED inbox

Await(t, method, cmd, arg) ==
  /\ task' = [task EXCEPT ![t] = [method |-> method, awaits |-> cmd,
                                  arg |-> task[t].arg]]
  /\ inbox' = Append(inbox, Request(t, cmd, arg))

(* A method goes on to its next command, with what it was called with or   *)
(* with what the last command returned.                                    *)
Proceed(t, value) ==
  LET m    == task[t].method
      cmd  == task[t].awaits
      next == NextCommand(m, cmd)
      passesValue == \/ next = "unlock" /\ m # "import"
                     \/ next = "vault_blob_set"
  IN  /\ next # "done"
      /\ cmd = "vault_blob_get" => value # NoVault
      /\ Await(t, m, next, IF passesValue THEN value ELSE task[t].arg)
      /\ unlocked' = (unlocked \/ cmd = "unlock")
      /\ UNCHANGED <<screen, confirmed, backups>>

(* A method resolves.  createWalletWithRecovery exports the blob of the    *)
(* vault it has just created, then uploads it.  At boot an empty list      *)
(* leads to the onboarding as a failure does; which accounts a new vault   *)
(* lists is WalletCore's, and left open.                                   *)
Resolve(t, value) ==
  LET m   == task[t].method
      cmd == task[t].awaits
  IN  /\ NextCommand(m, cmd) = "done"
      /\ unlocked' = (unlocked \/ m \in {"init", "restore", "import"})
      /\ confirmed' = IF m = "write" /\ disk \in Vaults
                      THEN confirmed \cup {<<disk.seed, task[t].arg>>}
                      ELSE confirmed
      /\ \/ /\ m = "init"
            /\ Await(t, "export", "export_blob", Nothing)
            /\ UNCHANGED <<screen, backups>>
         \/ /\ m = "export" /\ screen = "onboarding"
            /\ Settle(t)
            /\ \/ backups' = backups \cup {value} /\ screen' = "wallet"
               \/ UNCHANGED <<screen, backups>>       \* the upload fails
         \/ /\ m \in {"restore", "import"}
            /\ Settle(t)
            /\ screen' = "wallet" /\ UNCHANGED backups
         \/ /\ m \in {"list", "read", "write"}
            /\ Settle(t)
            /\ screen' \in IF screen = "boot" THEN {"wallet", "onboarding"}
                          ELSE {screen}
            /\ UNCHANGED backups

(* A method rejects: an error is shown, at boot the onboarding. *)
Fail(t) ==
  /\ Settle(t)
  /\ screen' = IF screen = "boot" THEN "onboarding" ELSE screen
  /\ UNCHANGED <<unlocked, confirmed, backups>>

Resume ==
  /\ outbox # <<>>
  /\ outbox' = Tail(outbox)
  /\ LET t == Head(outbox).task
         r == Head(outbox)
     IN  \/ r.ok /\ (Proceed(t, r.value) \/ Resolve(t, r.value))
         \/ /\ ~r.ok \/ (task[t].awaits = "vault_blob_get" /\ r.value = NoVault)
            /\ Fail(t)
  /\ UNCHANGED shell

-----------------------------------------------------------------------------
(* The shell and the helper *)

Reply(ok, value) ==
  /\ inbox' = Tail(inbox)
  /\ outbox' = Append(outbox, [task |-> Head(inbox).task, ok |-> ok,
                               value |-> value])

VaultBlobGet ==
  /\ inbox # <<>> /\ Head(inbox).cmd = "vault_blob_get"
  /\ Reply(TRUE, disk) \/ Reply(FALSE, Nothing)
  /\ UNCHANGED <<shell, webview, confirmed>>

(* Initializing, restoring or importing a vault is meant to replace the    *)
(* stored one: what was confirmed before no longer counts.                 *)
StillConfirmed ==
  IF task[Head(inbox).task].method \in {"init", "restore", "import"}
  THEN {} ELSE confirmed

(* fs::write truncates, then writes; it may fail at either. *)
VaultBlobSet ==
  /\ inbox # <<>> /\ Head(inbox).cmd = "vault_blob_set"
  /\ \/ /\ disk' = Head(inbox).arg /\ Reply(TRUE, Nothing)
        /\ confirmed' = StillConfirmed
     \/ /\ disk' \in {disk, Torn} /\ Reply(FALSE, Nothing)
        /\ UNCHANGED confirmed
  /\ UNCHANGED <<helper, session, webview>>

(* Faulty variant: unlock takes whatever the file holds for a vault. *)
Succeeds_AnyBlob(op, arg, s) ==
  op \in {"init", "restore", "unlock"} \/ s # Nothing

(* What the worker makes of an op: whether it can succeed, the session it  *)
(* then leaves and the value it returns.                                   *)
Succeeds(op, arg, s) ==
  CASE op \in {"init", "restore"} -> TRUE
    [] op = "unlock" -> arg \in Vaults
    [] OTHER -> s # Nothing                   \* session_mut: wallet locked

SessionAfter(op, arg, s) ==
  CASE op \in {"init", "restore"} -> Fresh(arg)
    [] op = "unlock" -> arg
    [] op = "write" -> [s EXCEPT !.items = @ \cup {arg}]
    [] OTHER -> s

Output(op, s) == IF op = "export_blob" THEN s ELSE Nothing

(* lez_op under the HelperState mutex: spawn when there is no child, send  *)
(* the op, wait for the reply.                                             *)
LezOp ==
  /\ inbox # <<>> /\ Head(inbox).cmd \in WorkerOps
  /\ helper # "dead"
  /\ LET op  == Head(inbox).cmd
         arg == Head(inbox).arg
         s   == IF helper = "none" THEN Nothing ELSE session
     IN  \/ /\ Succeeds(op, arg, s)
            /\ helper' = "running"
            /\ session' = SessionAfter(op, arg, s)
            /\ Reply(TRUE, Output(op, s))
         \/ /\ helper' = "running"       \* the op fails, maybe half way
            /\ session' \in {s} \cup IF op = "write" /\ s # Nothing
                                    THEN {SessionAfter(op, arg, s)} ELSE {}
            /\ Reply(FALSE, Nothing)
  /\ UNCHANGED <<disk, webview, confirmed>>

(* Faulty variant: a call on a dead child waits for it. *)
LezOpNoHelper_Waits ==
  /\ inbox # <<>> /\ Head(inbox).cmd \in WorkerOps
  /\ helper = "none"
  /\ helper' = "none" /\ session' = Nothing
  /\ Reply(FALSE, Nothing)
  /\ UNCHANGED <<disk, webview, confirmed>>

(* The child cannot be spawned, or is gone: the next call respawns it.     *)
LezOpNoHelper ==
  /\ inbox # <<>> /\ Head(inbox).cmd \in WorkerOps
  /\ helper \in {"none", "dead"}
  /\ helper' = "none" /\ session' = Nothing
  /\ Reply(FALSE, Nothing)
  /\ UNCHANGED <<disk, webview, confirmed>>

HelperDies ==
  /\ helper = "running"
  /\ helper' = "dead" /\ session' = Nothing
  /\ UNCHANGED <<disk, inbox, outbox, webview, confirmed>>

(* The window is closed or the machine stops: only the vault file and what *)
(* was uploaded remain, and a write under way may have been cut short.     *)
Restart ==
  /\ \/ UNCHANGED <<disk, confirmed>>
     \/ /\ inbox # <<>> /\ Head(inbox).cmd = "vault_blob_set"
        /\ disk' \in {Torn, Head(inbox).arg}
        /\ confirmed' = StillConfirmed
  /\ helper' = "none" /\ session' = Nothing
  /\ inbox' = <<>> /\ outbox' = <<>>
  /\ unlocked' = FALSE /\ screen' = "boot"
  /\ task' = [t \in Tasks |-> Idle]
  /\ UNCHANGED backups

Serve == VaultBlobGet \/ VaultBlobSet \/ LezOp \/ LezOpNoHelper

Next ==
  \/ Boot \/ Onboard \/ UseWallet \/ Resume
  \/ Serve \/ HelperDies \/ Restart

Spec == Init /\ [][Next]_vars

(* Serving a request and resuming its caller need nobody's cooperation;    *)
(* React runs Root's effect.                                               *)
FairSpec == Spec /\ WF_vars(Serve) /\ WF_vars(Resume) /\ WF_vars(Boot)

-----------------------------------------------------------------------------
(* Properties *)

(* A write the user was told had succeeded is in the vault file, whatever  *)
(* other calls were under way, until the user replaces the vault: no later *)
(* vault_blob_set puts back a blob exported before it.                     *)
ConfirmedWritesAreStored ==
  disk \in Vaults =>
    \A i \in Items : <<disk.seed, i>> \in confirmed => i \in disk.items

(* What the user works on is the vault that is stored, with everything     *)
(* that is stored in it.                                                   *)
SessionHoldsTheStoredVault ==
  screen = "wallet" /\ session # Nothing /\ disk \in Vaults =>
    session.seed = disk.seed /\ disk.items \subseteq session.items

(* Every backend call resolves or rejects, dead helper or not. *)
EveryCallSettles == \A t \in Tasks : task[t] # Idle ~> task[t] = Idle

(* web/wallet sends the user to the onboarding when listAccounts rejects,  *)
(* with the comment "no vault": there is no vault to lose.  A list that    *)
(* came and is empty is another case.                                      *)
OnboardingMeansNoVault ==
  [][screen = "boot" /\ screen' = "onboarding" =>
       \/ disk \notin Vaults
       \/ Head(outbox).ok /\ task[Head(outbox).task].awaits = "read"]_vars
=============================================================================
