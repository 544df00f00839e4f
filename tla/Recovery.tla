------------------------------ MODULE Recovery ------------------------------
(***************************************************************************)
(* Onboarding and recovery: createWalletWithRecovery, recoverWalletWithKit *)
(* and recoverWalletWithPasskey (onboarding.ts) over onboardVault,         *)
(* recoverVault and recover (enroll.ts), as the onboarding screen runs     *)
(* them.                                                                   *)
(*                                                                         *)
(* An enrollment is one run of createWalletWithRecovery: it has a passkey  *)
(* of its own (a PRF output, hence a pointer and a wrap key), a vault key, *)
(* three shares of it, a wrapped share and a sealed vault blob on the      *)
(* storage network, and a kit.  All of these are named by the enrollment.  *)
(* Every await is a step of its own and may fail; the application may be   *)
(* closed between any two of them.  The storage network is never asked to  *)
(* persist what was uploaded and may drop it.                              *)
(***************************************************************************)
EXTENDS Naturals, FiniteSets

CONSTANTS
  Devices,
  ViewOnly,     \* the devices that run the PWA: no init, no session needed
  Enrollments,
  MaxLost,      \* bound: ciphertexts the storage network drops
  None

ASSUME RecoveryAssumption ==
  /\ ViewOnly \subseteq Devices
  /\ MaxLost \in Nat
  /\ None \notin Enrollments

VARIABLES
  vault,    \* the vault stored on each device
  session,  \* whether the device's backend holds an unlocked session
  screen,   \* Root: booting, onboarding or the wallet
  secrets,  \* SecretStore: sDev, vaultKey and credentialId
  begun,    \* the enrollments begun so far
  share,    \* the wrapped identity shares that were uploaded
  backup,   \* the sealed vault blobs that were uploaded
  gone,     \* what the storage network no longer serves
  pointer,  \* the pointer records on chain
  kits,     \* the kit files the user has kept
  phrases,  \* the vaults whose mnemonic the user was shown
  flow      \* the onboarding flow of each device

vars == <<vault, session, screen, secrets, begun, share, backup, gone,
          pointer, kits, phrases, flow>>

device  == <<vault, session, screen, secrets>>
network == <<share, backup, gone, pointer>>
user    == <<begun, kits, phrases>>

(* A vault is the enrollment that created it. *)
Vaults == Enrollments
Sealed == [vault : Vaults, key : Enrollments \cup {None}]

SecretKeys == {"sDev", "vaultKey", "credentialId"}

Results == {"none", "error", "few_shares", "no_blob", "wrong_key"}

Kinds == {"none", "create", "kit", "passkey"}

Steps == {"choose", "init", "export", "share", "blob", "sDev", "vaultKey",
          "credentialId", "secrets", "resolve_blob", "resolve_share",
          "unwrap", "open", "import", "save", "done"}

(* The locals of a flow: the enrollment of its passkey or kit, the device  *)
(* share it read, the CIDs it knows, and the blob it is about to store.    *)
Flows ==
  [kind : Kinds, step : Steps, of : Enrollments \cup {None},
   sDev : Enrollments \cup {None}, blobCid : BOOLEAN, shareCid : BOOLEAN,
   blob : Vaults \cup {None}, result : Results]

NoFlow == [kind |-> "none", step |-> "choose", of |-> None, sDev |-> None,
           blobCid |-> FALSE, shareCid |-> FALSE, blob |-> None,
           result |-> "none"]

TypeOK ==
  /\ vault \in [Devices -> Vaults \cup {None}]
  /\ session \in [Devices -> BOOLEAN]
  /\ screen \in [Devices -> {"boot", "onboarding", "wallet"}]
  /\ secrets \in [Devices -> [SecretKeys -> Enrollments \cup {None}]]
  /\ begun \subseteq Enrollments
  /\ share \subseteq Enrollments
  /\ backup \in [Enrollments -> Sealed \cup {None}]
  /\ gone \subseteq {"share", "blob"} \X Enrollments
  /\ pointer \subseteq Enrollments
  /\ kits \subseteq Enrollments
  /\ phrases \subseteq Enrollments
  /\ flow \in [Devices -> Flows]

Init ==
  /\ vault = [d \in Devices |-> None]
  /\ session = [d \in Devices |-> FALSE]
  /\ screen = [d \in Devices |-> "boot"]
  /\ secrets = [d \in Devices |-> [k \in SecretKeys |-> None]]
  /\ begun = {}
  /\ share = {}
  /\ backup = [e \in Enrollments |-> None]
  /\ gone = {}
  /\ pointer = {}
  /\ kits = {}
  /\ phrases = {}
  /\ flow = [d \in Devices |-> NoFlow]

-----------------------------------------------------------------------------
(* Flows *)

At(d, kind, step) == flow[d].kind = kind /\ flow[d].step = step

(* "Busy": a flow waits for something, the screen shows nothing else. *)
Busy(d) == flow[d].step \notin {"choose", "done"}

Goto(d, step) == flow' = [flow EXCEPT ![d].step = step]

(* The flow throws: back to the choices, with the error. *)
Throw(d, result) ==
  flow' = [flow EXCEPT ![d].step = "choose", ![d].result = result]

Choose(d, kind, e, step) ==
  /\ screen[d] = "onboarding" /\ flow[d].step = "choose"
  /\ flow' = [flow EXCEPT ![d] = [NoFlow EXCEPT !.kind = kind, !.of = e,
                                                !.step = step]]
  /\ UNCHANGED <<device, network, kits, phrases>>

(* Whatever a flow awaits may fail: a ceremony is cancelled, a request to  *)
(* the backend or to the storage node is not answered.                     *)
AwaitFails(d) ==
  /\ Busy(d)
  /\ Throw(d, "error")
  /\ UNCHANGED <<device, network, user>>

-----------------------------------------------------------------------------
(* createWalletWithRecovery *)

(* A new passkey and, with it, a new enrollment. *)
BeginCreate(d) ==
  \E e \in Enrollments \ begun :
    /\ Choose(d, "create", e, "init")
    /\ begun' = begun \cup {e}

CreateInit(d) ==
  LET e == flow[d].of IN
  /\ At(d, "create", "init")
  /\ d \notin ViewOnly
  /\ vault' = [vault EXCEPT ![d] = e]
  /\ session' = [session EXCEPT ![d] = TRUE]
  /\ Goto(d, "export")
  /\ UNCHANGED <<screen, secrets, network, user>>

CreateExport(d) ==
  /\ At(d, "create", "export")
  /\ flow' = [flow EXCEPT ![d].step = "share", ![d].blob = vault[d]]
  /\ UNCHANGED <<device, network, user>>

UploadShare(d) ==
  /\ At(d, "create", "share")
  /\ share' = share \cup {flow[d].of}
  /\ Goto(d, "blob")
  /\ UNCHANGED <<device, backup, gone, pointer, user>>

(* Faulty variant: the key the device already has seals the new blob. *)
SealingKey_Saved(d) == secrets[d]["vaultKey"]

(* onboardVault seals the blob under the key it has just split. *)
SealingKey(d) == flow[d].of

UploadBlob(d) ==
  LET e == flow[d].of IN
  /\ At(d, "create", "blob")
  /\ backup' = [backup EXCEPT ![e] = [vault |-> flow[d].blob,
                                      key |-> SealingKey(d)]]
  /\ Goto(d, "sDev")
  /\ UNCHANGED <<device, share, gone, pointer, user>>

(* Faulty variant: the device that has a credential keeps it. *)
SaveSecret_Once(d, key, next) ==
  /\ flow[d].step = key
  /\ secrets' = IF secrets[d][key] = None
                THEN [secrets EXCEPT ![d][key] = flow[d].of] ELSE secrets
  /\ Goto(d, next)

(* secrets.set of one of the three, one after the other. *)
SaveSecret(d, key, next) ==
  /\ flow[d].step = key
  /\ secrets' = [secrets EXCEPT ![d][key] = flow[d].of]
  /\ Goto(d, next)

CreateSave(d) ==
  /\ flow[d].kind = "create"
  /\ \/ SaveSecret(d, "sDev", "vaultKey") /\ UNCHANGED phrases
     \/ SaveSecret(d, "vaultKey", "credentialId") /\ UNCHANGED phrases
     \/ /\ SaveSecret(d, "credentialId", "done")
        /\ phrases' = phrases \cup {flow[d].of}
  /\ UNCHANGED <<vault, session, screen, network, begun, kits>>

DownloadKit(d) ==
  /\ At(d, "create", "done")
  /\ kits' = kits \cup {flow[d].of}
  /\ UNCHANGED <<device, network, begun, phrases, flow>>

-----------------------------------------------------------------------------
(* recoverWalletWithKit and recoverWalletWithPasskey *)

BeginKit(d) ==
  /\ \E e \in kits : Choose(d, "kit", e, "secrets")
  /\ UNCHANGED begun

(* The credential id comes from the device's own secrets. *)
BeginPasskey(d) ==
  /\ secrets[d]["credentialId"] # None
  /\ Choose(d, "passkey", secrets[d]["credentialId"], "secrets")
  /\ UNCHANGED begun

ReadDeviceShare(d) ==
  /\ flow[d].step = "secrets"
  /\ LET kit == flow[d].kind = "kit" IN
     flow' = [flow EXCEPT ![d].sDev = secrets[d]["sDev"],
                          ![d].blobCid = kit, ![d].shareCid = kit,
                          ![d].step = IF kit THEN "unwrap"
                                      ELSE "resolve_blob"]
  /\ UNCHANGED <<device, network, user>>

(* makePointerResolver: accountRead needs an unlocked session; whatever    *)
(* goes wrong, the pointer counts as not published.                        *)
Resolvable(d) == flow[d].of \in pointer /\ (session[d] \/ d \in ViewOnly)

ResolveBlob(d) ==
  /\ flow[d].step = "resolve_blob"
  /\ \E found \in {Resolvable(d), FALSE} :
       flow' = [flow EXCEPT ![d].blobCid = found,
                            ![d].step = "resolve_share"]
  /\ UNCHANGED <<device, network, user>>

ResolveShare(d) ==
  /\ flow[d].step = "resolve_share"
  /\ \E found \in {Resolvable(d), FALSE} :
       flow' = [flow EXCEPT ![d].shareCid = found, ![d].step = "unwrap"]
  /\ UNCHANGED <<device, network, user>>

(* The shares recover() pushes, each with the enrollment it belongs to. *)
Shares(f) ==
  {<<"rec", e>> : e \in IF f.kind = "kit" THEN {f.of} ELSE {}}
    \cup {<<"dev", e>> : e \in {f.sDev} \ {None}}
    \cup {<<"id", e>> : e \in IF f.shareCid THEN {f.of} ELSE {}}

(* Shamir: two shares or more of one key give that key; a share of another *)
(* key among them gives no key of anybody.                                 *)
CombineShares(shares) ==
  LET owners == {s[2] : s \in shares} IN
  IF Cardinality(owners) = 1 THEN CHOOSE e \in owners : TRUE ELSE None

(* The share is downloaded and unwrapped, the shares are counted. *)
UnwrapShare(d) ==
  LET f == flow[d] IN
  /\ f.step = "unwrap"
  /\ f.shareCid => <<"share", f.of>> \notin gone
  /\ IF Cardinality(Shares(f)) < 2 THEN Throw(d, "few_shares")
     ELSE IF ~f.blobCid THEN Throw(d, "no_blob")
     ELSE Goto(d, "open")
  /\ UNCHANGED <<device, network, user>>

(* Faulty variant: a cipher that opens anything with any key. *)
OpensWith_Any(sealed, key) == sealed # None

(* openBlob: AES-GCM fails on any key but the sealing one. *)
OpensWith(sealed, key) == key # None /\ sealed.key = key

DownloadAndOpen(d) ==
  LET f == flow[d] IN
  /\ f.step = "open"
  /\ <<"blob", f.of>> \notin gone
  /\ IF OpensWith(backup[f.of], CombineShares(Shares(f)))
     THEN flow' = [flow EXCEPT ![d].blob = backup[f.of].vault,
                               ![d].step = "import"]
     ELSE Throw(d, "wrong_key")
  /\ UNCHANGED <<device, network, user>>

(* importBlob: stores the blob, then unlocks it, which may fail. *)
ImportBlob(d) ==
  /\ flow[d].step = "import"
  /\ vault' = [vault EXCEPT ![d] = flow[d].blob]
  /\ \/ session' = [session EXCEPT ![d] = TRUE] /\ Goto(d, "save")
     \/ Throw(d, "error") /\ UNCHANGED session
  /\ UNCHANGED <<screen, secrets, network, user>>

SaveKey(d) ==
  /\ flow[d].step = "save"
  /\ secrets' = [secrets EXCEPT ![d]["vaultKey"] = flow[d].of]
  /\ Goto(d, "done")
  /\ UNCHANGED <<vault, session, screen, network, user>>

-----------------------------------------------------------------------------
(* Around the flows *)

(* ImportStep: the mnemonic of any vault that was shown. *)
ImportMnemonic(d) ==
  /\ d \notin ViewOnly
  /\ screen[d] = "onboarding" /\ flow[d].step = "choose"
  /\ \E e \in phrases : vault' = [vault EXCEPT ![d] = e]
  /\ session' = [session EXCEPT ![d] = TRUE]
  /\ flow' = [flow EXCEPT ![d] = [NoFlow EXCEPT !.step = "done"]]
  /\ UNCHANGED <<screen, secrets, network, user>>

(* "Continue to wallet" *)
Continue(d) ==
  /\ screen[d] = "onboarding" /\ flow[d].step = "done"
  /\ screen' = [screen EXCEPT ![d] = "wallet"]
  /\ flow' = [flow EXCEPT ![d] = NoFlow]
  /\ UNCHANGED <<vault, session, secrets, network, user>>

(* Root's effect: the vault opens, or it is taken for missing. *)
Boot(d) ==
  /\ screen[d] = "boot"
  /\ \/ /\ vault[d] # None
        /\ screen' = [screen EXCEPT ![d] = "wallet"]
        /\ session' = [session EXCEPT ![d] = d \notin ViewOnly]
     \/ screen' = [screen EXCEPT ![d] = "onboarding"] /\ UNCHANGED session
  /\ UNCHANGED <<vault, secrets, network, user, flow>>

Close(d) ==
  /\ screen' = [screen EXCEPT ![d] = "boot"]
  /\ session' = [session EXCEPT ![d] = FALSE]
  /\ flow' = [flow EXCEPT ![d] = NoFlow]
  /\ UNCHANGED <<vault, secrets, network, user>>

(* The user publishes a pointer the onboarding named, from a funded        *)
(* account of any wallet.                                                  *)
PublishPointer(d) ==
  /\ screen[d] = "wallet" /\ d \notin ViewOnly
  /\ \E e \in phrases : pointer' = pointer \cup {e}
  /\ UNCHANGED <<device, share, backup, gone, user, flow>>

(* A closed device loses its vault file, or all it has. *)
LoseDevice(d) ==
  /\ screen[d] = "boot" /\ vault[d] # None
  /\ vault' = [vault EXCEPT ![d] = None]
  /\ secrets' \in {secrets, [secrets EXCEPT ![d] = [k \in SecretKeys |-> None]]}
  /\ UNCHANGED <<session, screen, network, user, flow>>

StorageDrops ==
  /\ Cardinality(gone) < MaxLost
  /\ \E cid \in {"share", "blob"} \X Enrollments :
       /\ IF cid[1] = "share" THEN cid[2] \in share ELSE backup[cid[2]] # None
       /\ gone' = gone \cup {cid}
  /\ UNCHANGED <<device, share, backup, pointer, user, flow>>

Create(d) ==
  \/ BeginCreate(d) \/ CreateInit(d) \/ CreateExport(d) \/ UploadShare(d)
  \/ UploadBlob(d) \/ CreateSave(d) \/ DownloadKit(d)

Recover(d) ==
  \/ BeginKit(d) \/ BeginPasskey(d) \/ ReadDeviceShare(d) \/ ResolveBlob(d)
  \/ ResolveShare(d) \/ UnwrapShare(d) \/ DownloadAndOpen(d)
  \/ ImportBlob(d) \/ SaveKey(d)

Around(d) ==
  \/ AwaitFails(d) \/ ImportMnemonic(d) \/ Continue(d) \/ Boot(d) \/ Close(d)
  \/ PublishPointer(d) \/ LoseDevice(d)

Next == (\E d \in Devices : Create(d) \/ Recover(d) \/ Around(d)) \/ StorageDrops

Spec == Init /\ [][Next]_vars

-----------------------------------------------------------------------------
(* Properties *)

(* A vault is only ever restored with two shares of its own key at least,  *)
(* and with no share of another one: whatever secrets earlier enrollments  *)
(* left on the device, no recovery stores what it could not have opened.   *)
RestoredWithItsOwnShares ==
  \A d \in Devices :
    flow[d].step = "import" =>
      /\ Cardinality(Shares(flow[d])) >= 2
      /\ \A s \in Shares(flow[d]) : s[2] = flow[d].of

(* "Wallet ready" after a creation means that the backup is complete: the  *)
(* share and the blob are uploaded, the blob opens with the new key, and   *)
(* the device's secrets are all of this enrollment.                        *)
ReadyMeansBackedUp ==
  \A d \in Devices :
    At(d, "create", "done") =>
      /\ flow[d].of \in share
      /\ backup[flow[d].of] = [vault |-> flow[d].of, key |-> flow[d].of]
      /\ secrets[d] = [k \in SecretKeys |-> flow[d].of]

(* A recovery that had all it asked for fails for one reason only: the     *)
(* device holds the share of another enrollment.  A kit always brings two  *)
(* shares and both CIDs.                                                   *)
FailureHasReason ==
  \A d \in Devices :
    /\ flow[d].result = "wrong_key" => flow[d].sDev \notin {None, flow[d].of}
    /\ flow[d].kind = "kit" => flow[d].result \notin {"few_shares", "no_blob"}

(* "Recover via a synced passkey alone (needs the on-chain pointer)": once *)
(* the pointer is published, the resolver of the onboarding can read it.   *)
PublishedPointerResolves ==
  \A d \in Devices :
    /\ flow[d].step \in {"resolve_blob", "resolve_share"}
    /\ flow[d].of \in pointer
    => Resolvable(d)
=============================================================================
