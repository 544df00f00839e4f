--------------------------- MODULE RecoveryProofs ---------------------------
(***************************************************************************)
(* Theorems about Recovery: what is restored was opened with its own       *)
(* shares, "wallet ready" means backed up, and failures have their reason, *)
(* for any number of devices and enrollments.                              *)
(***************************************************************************)
EXTENDS Recovery, FiniteSetTheorems, TLAPS

CreateSteps == {"init", "export", "share", "blob", "sDev", "vaultKey",
                "credentialId", "done"}

RecoverSteps == {"secrets", "resolve_blob", "resolve_share", "unwrap", "open",
                 "import", "save", "done"}

(* An enrollment whose blob is uploaded, and opens with its key. *)
BackedUp(e) ==
  e \in begun /\ e \in share /\ backup[e] = [vault |-> e, key |-> e]

(* Which flows there are, and where. *)
FlowOk(d) ==
  /\ flow[d].kind = "none" => flow[d].step \in {"choose", "done"}
  /\ flow[d].kind = "create" =>
       flow[d].of \in begun /\ flow[d].step \in CreateSteps \cup {"choose"}
  /\ flow[d].kind \in {"kit", "passkey"} =>
       /\ flow[d].step \in RecoverSteps \cup {"choose"}
       /\ flow[d].of # None /\ BackedUp(flow[d].of)
  /\ flow[d].step # "choose" =>
       screen[d] = "onboarding" /\ flow[d].result = "none"

FlowsInv == \A d \in Devices : FlowOk(d)

(* No two creations have one enrollment. *)
OwnersInv ==
  \A d, e \in Devices :
    /\ flow[d].kind = "create" /\ flow[e].kind = "create"
    /\ flow[d].of = flow[e].of
    => d = e

(* What each step of a creation has done so far. *)
CreateOk(d) ==
  flow[d].kind = "create" =>
    LET e == flow[d].of step == flow[d].step IN
    /\ step = "export" => vault[d] = e
    /\ step \in {"share", "blob"} => flow[d].blob = e
    /\ step \in {"blob", "sDev", "vaultKey", "credentialId", "done"} =>
         e \in share
    /\ step \in {"sDev", "vaultKey", "credentialId", "done"} => BackedUp(e)
    /\ step \in {"vaultKey", "credentialId", "done"} => secrets[d]["sDev"] = e
    /\ step \in {"credentialId", "done"} => secrets[d]["vaultKey"] = e
    /\ step = "done" => secrets[d]["credentialId"] = e

CreateInv == \A d \in Devices : CreateOk(d)

(* What a recovery can start from. *)
SourcesInv ==
  /\ \A e \in kits : e # None /\ BackedUp(e)
  /\ \A d \in Devices : LET e == secrets[d]["credentialId"] IN
       e # None => BackedUp(e)

(* What each step of a recovery knows. *)
RecoverOk(d) ==
  /\ flow[d].step \in {"resolve_blob", "resolve_share"} =>
       flow[d].kind = "passkey"
  /\ flow[d].kind = "kit" /\ flow[d].step \in {"unwrap", "open", "import"} =>
       flow[d].blobCid /\ flow[d].shareCid
  /\ flow[d].step \in {"open", "import"} => Cardinality(Shares(flow[d])) >= 2
  /\ flow[d].step = "import" => \A s \in Shares(flow[d]) : s[2] = flow[d].of

RecoverInv == \A d \in Devices : RecoverOk(d)

IInv ==
  /\ TypeOK /\ FlowsInv /\ OwnersInv /\ CreateInv /\ SourcesInv /\ RecoverInv
  /\ FailureHasReason

-----------------------------------------------------------------------------
(* What the helpers do to a flow. *)

LEMMA GotoFlow ==
  ASSUME flow \in [Devices -> Flows], NEW d \in Devices, NEW step \in Steps,
         Goto(d, step)
  PROVE  /\ flow' \in [Devices -> Flows]
         /\ \A c \in Devices : c # d => flow'[c] = flow[c]
         /\ flow'[d].step = step /\ flow'[d].kind = flow[d].kind
         /\ flow'[d].of = flow[d].of /\ flow'[d].sDev = flow[d].sDev
         /\ flow'[d].blob = flow[d].blob /\ flow'[d].result = flow[d].result
         /\ flow'[d].blobCid = flow[d].blobCid
         /\ flow'[d].shareCid = flow[d].shareCid
         /\ Shares(flow'[d]) = Shares(flow[d])
<1> DEFINE f == [flow[d] EXCEPT !.step = step]
<1>1. flow[d] \in Flows
  OBVIOUS
<1>2. /\ f.step = step /\ f.kind = flow[d].kind /\ f.of = flow[d].of
      /\ f.sDev = flow[d].sDev /\ f.blob = flow[d].blob
      /\ f.result = flow[d].result /\ f.blobCid = flow[d].blobCid
      /\ f.shareCid = flow[d].shareCid /\ f \in Flows
  BY <1>1 DEF Flows
<1>3. flow' = [flow EXCEPT ![d] = f]
  BY DEF Goto
<1>4. flow'[d] = f
  BY <1>3
<1>5. Shares(f) = Shares(flow[d])
  BY <1>2 DEF Shares
<1> HIDE DEF f
<1> QED
  BY <1>2, <1>3, <1>4, <1>5

LEMMA ThrowFlow ==
  ASSUME flow \in [Devices -> Flows], NEW d \in Devices, NEW result \in Results,
         Throw(d, result)
  PROVE  /\ flow' \in [Devices -> Flows]
         /\ \A c \in Devices : c # d => flow'[c] = flow[c]
         /\ flow'[d].step = "choose" /\ flow'[d].kind = flow[d].kind
         /\ flow'[d].of = flow[d].of /\ flow'[d].sDev = flow[d].sDev
         /\ flow'[d].result = result
<1> DEFINE f == [flow[d] EXCEPT !.step = "choose", !.result = result]
<1>1. flow[d] \in Flows
  OBVIOUS
<1>2. /\ f.step = "choose" /\ f.kind = flow[d].kind /\ f.of = flow[d].of
      /\ f.sDev = flow[d].sDev /\ f.result = result /\ f \in Flows
  BY <1>1 DEF Flows, Steps
<1>3. flow' = [flow EXCEPT ![d] = f]
  BY DEF Throw
<1> HIDE DEF f
<1> QED
  BY <1>2, <1>3

LEMMA ChooseFlow ==
  ASSUME flow \in [Devices -> Flows], NEW d \in Devices,
         NEW kind \in Kinds, NEW e \in Enrollments, NEW step \in Steps,
         Choose(d, kind, e, step)
  PROVE  /\ flow' \in [Devices -> Flows]
         /\ \A c \in Devices : c # d => flow'[c] = flow[c]
         /\ flow'[d].step = step /\ flow'[d].kind = kind
         /\ flow'[d].of = e /\ flow'[d].result = "none"
         /\ screen[d] = "onboarding"
<1> DEFINE f == [NoFlow EXCEPT !.kind = kind, !.of = e, !.step = step]
<1>1. /\ f.step = step /\ f.kind = kind /\ f.of = e /\ f.result = "none"
      /\ f.blobCid = FALSE /\ f.shareCid = FALSE /\ f.sDev = None /\ f.blob = None
  BY DEF NoFlow
<1>2. f \in Flows
  BY DEF NoFlow, Flows, Results
<1>3. flow' = [flow EXCEPT ![d] = f]
  BY DEF Choose
<1> HIDE DEF f
<1> QED
  BY <1>1, <1>2, <1>3 DEF Choose

(* Shares are three at most. *)
LEMMA SharesAreFinite == \A f : IsFiniteSet(Shares(f))
<1> TAKE f
<1> DEFINE three == {<<"rec", f.of>>, <<"dev", f.sDev>>, <<"id", f.of>>}
<1>1. IsFiniteSet(three)
  <2>1. IsFiniteSet({<<"rec", f.of>>})
    BY FS_Singleton
  <2>2. IsFiniteSet({<<"rec", f.of>>} \cup {<<"dev", f.sDev>>})
    BY <2>1, FS_AddElement
  <2>3. IsFiniteSet(({<<"rec", f.of>>} \cup {<<"dev", f.sDev>>})
                      \cup {<<"id", f.of>>})
    BY <2>2, FS_AddElement
  <2>4. three = ({<<"rec", f.of>>} \cup {<<"dev", f.sDev>>})
                  \cup {<<"id", f.of>>}
    OBVIOUS
  <2> QED
    BY <2>3, <2>4
<1>2. Shares(f) \subseteq three
  BY DEF Shares
<1> QED
  BY <1>1, <1>2, FS_Subset

(* A kit that has the CID of the share brings two. *)
LEMMA KitsBringTwo ==
  ASSUME NEW f, f.kind = "kit", f.shareCid
  PROVE  Cardinality(Shares(f)) >= 2
<1> DEFINE one == {<<"rec", f.of>>}
           two == one \cup {<<"id", f.of>>}
<1>1. IsFiniteSet(one) /\ Cardinality(one) = 1
  BY FS_Singleton
<1>2. <<"id", f.of>> \notin one
  OBVIOUS
<1>3. Cardinality(two) = 2
  <2> HIDE DEF one
  <2>1. Cardinality(one \cup {<<"id", f.of>>}) = Cardinality(one) + 1
    BY <1>1, <1>2, FS_AddElement
  <2> QED
    BY <1>1, <2>1
<1>4. two \subseteq Shares(f)
  BY DEF Shares
<1>5. IsFiniteSet(Shares(f))
  BY SharesAreFinite
<1>6. Cardinality(two) <= Cardinality(Shares(f))
  BY <1>4, <1>5, FS_Subset
<1>7. Cardinality(Shares(f)) \in Nat
  BY <1>5, FS_CardinalityType
<1> HIDE DEF two
<1> QED
  BY <1>3, <1>6, <1>7

(* The shares of one key give it, and shares that give a key are all of    *)
(* that key.                                                               *)
LEMMA CombinedSharesAgree ==
  ASSUME NEW f, IsFiniteSet(Shares(f))
  PROVE  /\ CombineShares(Shares(f)) # None =>
              \A s \in Shares(f) : s[2] = CombineShares(Shares(f))
         /\ \A e : /\ Shares(f) # {}
                   /\ \A s \in Shares(f) : s[2] = e
                   => CombineShares(Shares(f)) = e
<1> DEFINE owners == {s[2] : s \in Shares(f)}
<1>1. CombineShares(Shares(f)) =
        IF Cardinality(owners) = 1 THEN CHOOSE e \in owners : TRUE ELSE None
  BY DEF CombineShares
<1>2. IsFiniteSet(owners)
  <2>1. owners \subseteq {f.of, f.sDev}
    BY DEF Shares
  <2>2. IsFiniteSet({f.of} \cup {f.sDev})
    BY FS_Singleton, FS_AddElement
  <2>3. {f.of, f.sDev} = {f.of} \cup {f.sDev}
    OBVIOUS
  <2> QED
    BY <2>1, <2>2, <2>3, FS_Subset
<1>3. Cardinality(owners) = 1 => \E e : owners = {e}
  BY <1>2, FS_Singleton
<1>4. \A e : owners = {e} =>
        Cardinality(owners) = 1 /\ (CHOOSE x \in owners : TRUE) = e
  BY FS_Singleton
<1>5. ASSUME CombineShares(Shares(f)) # None
      PROVE  \A s \in Shares(f) : s[2] = CombineShares(Shares(f))
  <2>1. Cardinality(owners) = 1
    BY <1>1, <1>5
  <2>2. PICK e : owners = {e}
    BY <1>3, <2>1
  <2>3. CombineShares(Shares(f)) = e
    BY <1>1, <1>4, <2>2
  <2> QED
    BY <2>2, <2>3
<1>6. ASSUME NEW e, Shares(f) # {}, \A s \in Shares(f) : s[2] = e
      PROVE  CombineShares(Shares(f)) = e
  <2>1. owners = {e}
    BY <1>6
  <2> QED
    BY <1>1, <1>4, <2>1
<1> QED
  BY <1>5, <1>6

LEMMA NoFlowIsOne == NoFlow \in Flows /\ [NoFlow EXCEPT !.step = "done"] \in Flows
  BY DEF NoFlow, Flows, Kinds, Steps, Results

Act(r) == Create(r) \/ Recover(r) \/ Around(r)

(* The saves of a creation, one by one. *)
SavesOne(r, key, next) ==
  /\ flow[r].kind = "create"
  /\ SaveSecret(r, key, next)
  /\ IF key = "credentialId" THEN phrases' = phrases \cup {flow[r].of}
     ELSE UNCHANGED phrases
  /\ UNCHANGED <<vault, session, screen, network, begun, kits>>

LEMMA SavesAreThree ==
  ASSUME NEW r \in Devices, CreateSave(r)
  PROVE  \/ SavesOne(r, "sDev", "vaultKey")
         \/ SavesOne(r, "vaultKey", "credentialId")
         \/ SavesOne(r, "credentialId", "done")
  BY DEF CreateSave, SavesOne

LEMMA SaveSecrets ==
  ASSUME TypeOK, NEW r \in Devices, NEW key \in SecretKeys, flow[r].of # None,
         secrets' = [secrets EXCEPT ![r][key] = flow[r].of]
  PROVE  /\ secrets' \in [Devices -> [SecretKeys -> Enrollments \cup {None}]]
         /\ \A d \in Devices : d # r => secrets'[d] = secrets[d]
         /\ \A k \in SecretKeys : k # key => secrets'[r][k] = secrets[r][k]
         /\ secrets'[r][key] = flow[r].of
<1>1. flow[r].of \in Enrollments
  BY DEF TypeOK, Flows
<1> QED
  BY <1>1 DEF TypeOK

LEMMA ExportFlow ==
  ASSUME TypeOK, NEW r \in Devices, CreateExport(r)
  PROVE  /\ flow' \in [Devices -> Flows]
         /\ \A c \in Devices : c # r => flow'[c] = flow[c]
         /\ flow'[r].step = "share" /\ flow'[r].kind = flow[r].kind
         /\ flow'[r].of = flow[r].of /\ flow'[r].sDev = flow[r].sDev
         /\ flow'[r].blob = vault[r] /\ flow'[r].result = flow[r].result
<1> DEFINE f == [flow[r] EXCEPT !.step = "share", !.blob = vault[r]]
<1>1. flow[r] \in Flows /\ vault[r] \in Vaults \cup {None}
  BY DEF TypeOK
<1>2. /\ f.step = "share" /\ f.kind = flow[r].kind /\ f.of = flow[r].of
      /\ f.sDev = flow[r].sDev /\ f.blob = vault[r]
      /\ f.result = flow[r].result /\ f \in Flows
  BY <1>1 DEF Flows, Steps
<1>3. flow' = [flow EXCEPT ![r] = f]
  BY DEF CreateExport
<1> HIDE DEF f
<1> QED
  BY <1>2, <1>3 DEF TypeOK

LEMMA ReadFlow ==
  ASSUME TypeOK, NEW r \in Devices, ReadDeviceShare(r)
  PROVE  /\ flow' \in [Devices -> Flows]
         /\ \A c \in Devices : c # r => flow'[c] = flow[c]
         /\ flow'[r].step = IF flow[r].kind = "kit" THEN "unwrap"
                            ELSE "resolve_blob"
         /\ flow'[r].kind = flow[r].kind
         /\ flow'[r].of = flow[r].of /\ flow'[r].result = flow[r].result
         /\ flow[r].kind = "kit" => flow'[r].blobCid /\ flow'[r].shareCid
<1> DEFINE kit == flow[r].kind = "kit"
           next == IF kit THEN "unwrap" ELSE "resolve_blob"
           f == [flow[r] EXCEPT !.sDev = secrets[r]["sDev"],
                                !.blobCid = kit, !.shareCid = kit,
                                !.step = next]
<1>1. flow[r] \in Flows /\ secrets[r]["sDev"] \in Enrollments \cup {None}
  BY DEF TypeOK, SecretKeys
<1>2. /\ f.step = next /\ f.kind = flow[r].kind /\ f.of = flow[r].of
      /\ f.result = flow[r].result
  BY <1>1 DEF Flows
<1>3. f.blobCid = kit /\ f.shareCid = kit
  BY <1>1, Zenon DEF Flows
<1>4. next \in Steps /\ kit \in BOOLEAN
  BY DEF Steps
<1>5. f \in Flows
  <2> HIDE DEF next, kit
  <2> QED
    BY <1>1, <1>4 DEF Flows
<1>6. flow' = [flow EXCEPT ![r] = f]
  BY DEF ReadDeviceShare
<1>7. flow' \in [Devices -> Flows] /\ flow'[r] = f
      /\ \A c \in Devices : c # r => flow'[c] = flow[c]
  <2> HIDE DEF f
  <2> QED
    BY <1>5, <1>6 DEF TypeOK
<1>8. kit => flow'[r].blobCid /\ flow'[r].shareCid
  <2> HIDE DEF f, kit
  <2> QED
    BY <1>3, <1>7, Zenon
<1> QED
  BY <1>2, <1>7, <1>8

(* Both lookups of the pointer. *)
Resolves(r, next) ==
  /\ flow[r].step \in {"resolve_blob", "resolve_share"}
  /\ flow' \in [Devices -> Flows]
  /\ \A c \in Devices : c # r => flow'[c] = flow[c]
  /\ flow'[r].step = next /\ flow'[r].kind = flow[r].kind
  /\ flow'[r].of = flow[r].of /\ flow'[r].sDev = flow[r].sDev
  /\ flow'[r].result = flow[r].result

LEMMA ResolveFlow ==
  ASSUME TypeOK, NEW r \in Devices
  PROVE  /\ ResolveBlob(r) => Resolves(r, "resolve_share")
         /\ ResolveShare(r) => Resolves(r, "unwrap")
<1> USE DEF Steps
<1>1. flow[r] \in Flows /\ flow \in [Devices -> Flows]
  BY DEF TypeOK
<1>2. \A found \in {Resolvable(r), FALSE} : found \in BOOLEAN
  BY DEF Resolvable
<1>3. ASSUME ResolveBlob(r)
      PROVE  Resolves(r, "resolve_share")
  <2>1. PICK found \in {Resolvable(r), FALSE} :
          flow' = [flow EXCEPT ![r].blobCid = found,
                               ![r].step = "resolve_share"]
    BY <1>3 DEF ResolveBlob
  <2> DEFINE f == [flow[r] EXCEPT !.blobCid = found, !.step = "resolve_share"]
  <2>2. found \in BOOLEAN
    BY <1>2
  <2>3. /\ f \in Flows /\ f.step = "resolve_share" /\ f.kind = flow[r].kind
        /\ f.of = flow[r].of /\ f.sDev = flow[r].sDev
        /\ f.result = flow[r].result
    BY <1>1, <2>2 DEF Flows
  <2>4. flow' = [flow EXCEPT ![r] = f]
    BY <2>1
  <2> HIDE DEF f
  <2> QED
    BY <1>1, <1>3, <2>3, <2>4 DEF Resolves, ResolveBlob
<1>4. ASSUME ResolveShare(r)
      PROVE  Resolves(r, "unwrap")
  <2>1. PICK found \in {Resolvable(r), FALSE} :
          flow' = [flow EXCEPT ![r].shareCid = found, ![r].step = "unwrap"]
    BY <1>4 DEF ResolveShare
  <2> DEFINE f == [flow[r] EXCEPT !.shareCid = found, !.step = "unwrap"]
  <2>2. found \in BOOLEAN
    BY <1>2
  <2>3. /\ f \in Flows /\ f.step = "unwrap" /\ f.kind = flow[r].kind
        /\ f.of = flow[r].of /\ f.sDev = flow[r].sDev
        /\ f.result = flow[r].result
    BY <1>1, <2>2 DEF Flows
  <2>4. flow' = [flow EXCEPT ![r] = f]
    BY <2>1
  <2> HIDE DEF f
  <2> QED
    BY <1>1, <1>4, <2>3, <2>4 DEF Resolves, ResolveShare
<1> QED
  BY <1>3, <1>4

LEMMA OpenFlow ==
  ASSUME TypeOK, NEW r \in Devices, DownloadAndOpen(r),
         backup[flow[r].of] \in Sealed, flow[r].of # None
  PROVE  /\ flow' \in [Devices -> Flows]
         /\ \A c \in Devices : c # r => flow'[c] = flow[c]
         /\ flow'[r].kind = flow[r].kind /\ flow'[r].of = flow[r].of
         /\ flow'[r].sDev = flow[r].sDev
         /\ IF OpensWith(backup[flow[r].of], CombineShares(Shares(flow[r])))
            THEN /\ flow'[r].step = "import"
                 /\ flow'[r].result = flow[r].result
                 /\ flow'[r].blobCid = flow[r].blobCid
                 /\ flow'[r].shareCid = flow[r].shareCid
                 /\ Shares(flow'[r]) = Shares(flow[r])
            ELSE flow'[r].step = "choose" /\ flow'[r].result = "wrong_key"
<1>1. flow[r] \in Flows /\ flow \in [Devices -> Flows]
  BY DEF TypeOK
<1>2. CASE OpensWith(backup[flow[r].of], CombineShares(Shares(flow[r])))
  <2> DEFINE f == [flow[r] EXCEPT !.blob = backup[flow[r].of].vault,
                                  !.step = "import"]
  <2>1. backup[flow[r].of].vault \in Vaults
    BY DEF Sealed
  <2>2. /\ f \in Flows /\ f.step = "import" /\ f.kind = flow[r].kind
        /\ f.of = flow[r].of /\ f.sDev = flow[r].sDev
        /\ f.result = flow[r].result
        /\ f.blobCid = flow[r].blobCid /\ f.shareCid = flow[r].shareCid
    BY <1>1, <2>1 DEF Flows, Steps
  <2>3. Shares(f) = Shares(flow[r])
    BY <2>2 DEF Shares
  <2>4. flow' = [flow EXCEPT ![r] = f]
    BY <1>2 DEF DownloadAndOpen
  <2> HIDE DEF f
  <2> QED
    BY <1>1, <1>2, <2>2, <2>3, <2>4
<1>3. CASE ~OpensWith(backup[flow[r].of], CombineShares(Shares(flow[r])))
  <2>1. Throw(r, "wrong_key")
    BY <1>3 DEF DownloadAndOpen
  <2> QED
    BY <1>1, <1>3, <2>1, ThrowFlow DEF Results
<1> QED
  BY <1>2, <1>3

(* NoFlow, or the flow of an import that is done. *)
LEMMA ResetFlow ==
  ASSUME TypeOK, NEW r \in Devices
  PROVE  /\ flow' = [flow EXCEPT ![r] = NoFlow] =>
              /\ flow' \in [Devices -> Flows]
              /\ \A c \in Devices : c # r => flow'[c] = flow[c]
              /\ flow'[r].kind = "none" /\ flow'[r].step = "choose"
              /\ flow'[r].result = "none"
         /\ ImportMnemonic(r) =>
              /\ flow' \in [Devices -> Flows]
              /\ \A c \in Devices : c # r => flow'[c] = flow[c]
              /\ flow'[r].kind = "none" /\ flow'[r].step = "done"
              /\ flow'[r].result = "none"
<1> DEFINE f == [NoFlow EXCEPT !.step = "done"]
<1>1. /\ NoFlow.kind = "none" /\ NoFlow.step = "choose"
      /\ NoFlow.result = "none"
      /\ f.kind = "none" /\ f.step = "done" /\ f.result = "none"
  BY DEF NoFlow
<1>2. NoFlow \in Flows /\ f \in Flows
  BY NoFlowIsOne
<1>3. ImportMnemonic(r) => flow' = [flow EXCEPT ![r] = f]
  BY DEF ImportMnemonic
<1> HIDE DEF f, NoFlow
<1> QED
  BY <1>1, <1>2, <1>3 DEF TypeOK

-----------------------------------------------------------------------------
(* Every part of IInv is preserved by a step of any device. *)

LEMMA FlowSteps ==
  ASSUME IInv, NEW r \in Devices, Act(r)
  PROVE  /\ flow' \in [Devices -> Flows]
         /\ \A c \in Devices : c # r => flow'[c] = flow[c]
<1> USE DEF IInv, TypeOK
<1>1. CASE BeginCreate(r)
  <2>1. PICK e \in Enrollments : Choose(r, "create", e, "init")
    BY <1>1 DEF BeginCreate
  <2> QED
    BY <2>1, ChooseFlow DEF Kinds, Steps
<1>2. CASE CreateInit(r)
  BY <1>2, GotoFlow DEF CreateInit, Steps
<1>3. CASE CreateExport(r)
  BY <1>3, ExportFlow
<1>4. CASE UploadShare(r)
  BY <1>4, GotoFlow DEF UploadShare, Steps
<1>5. CASE UploadBlob(r)
  BY <1>5, GotoFlow DEF UploadBlob, Steps
<1>6. CASE CreateSave(r)
  BY <1>6, SavesAreThree, GotoFlow DEF SavesOne, SaveSecret, Steps
<1>7. CASE DownloadKit(r)
  BY <1>7 DEF DownloadKit
<1>8. CASE BeginKit(r)
  <2>1. PICK e \in Enrollments : Choose(r, "kit", e, "secrets")
    BY <1>8 DEF BeginKit
  <2> QED
    BY <2>1, ChooseFlow DEF Kinds, Steps
<1>9. CASE BeginPasskey(r)
  <2>1. secrets[r]["credentialId"] \in Enrollments
    BY <1>9 DEF BeginPasskey, SecretKeys
  <2> QED
    BY <1>9, <2>1, ChooseFlow DEF BeginPasskey, Kinds, Steps
<1>10. CASE ReadDeviceShare(r)
  BY <1>10, ReadFlow
<1>11. CASE ResolveBlob(r) \/ ResolveShare(r)
  BY <1>11, ResolveFlow DEF Resolves
<1>12. CASE UnwrapShare(r)
  <2>1. \/ Throw(r, "few_shares") \/ Throw(r, "no_blob") \/ Goto(r, "open")
    BY <1>12 DEF UnwrapShare
  <2> QED
    BY <2>1, GotoFlow, ThrowFlow DEF Steps, Results
<1>13. CASE DownloadAndOpen(r)
  <2>1. flow[r].kind \in {"kit", "passkey"}
    BY <1>13 DEF DownloadAndOpen, FlowsInv, FlowOk, CreateSteps, Flows, Kinds
  <2>2. BackedUp(flow[r].of) /\ flow[r].of # None
    BY <2>1 DEF FlowsInv, FlowOk
  <2>3. backup[flow[r].of] \in Sealed
    BY <2>2 DEF BackedUp, Sealed, Vaults
  <2> QED
    BY <1>13, <2>2, <2>3, OpenFlow
<1>14. CASE ImportBlob(r)
  <2>1. Goto(r, "save") \/ Throw(r, "error")
    BY <1>14 DEF ImportBlob
  <2> QED
    BY <2>1, GotoFlow, ThrowFlow DEF Steps, Results
<1>15. CASE SaveKey(r)
  BY <1>15, GotoFlow DEF SaveKey, Steps
<1>16. CASE AwaitFails(r)
  BY <1>16, ThrowFlow DEF AwaitFails, Results
<1>17. CASE ImportMnemonic(r) \/ Continue(r) \/ Close(r)
  BY <1>17, ResetFlow DEF Continue, Close
<1>18. CASE Boot(r) \/ PublishPointer(r) \/ LoseDevice(r)
  BY <1>18 DEF Boot, PublishPointer, LoseDevice
<1> QED
  BY <1>1, <1>2, <1>3, <1>4, <1>5, <1>6, <1>7, <1>8, <1>9, <1>10, <1>11,
     <1>12, <1>13, <1>14, <1>15, <1>16, <1>17, <1>18
  DEF Act, Create, Recover, Around

(* A step of one device leaves what the others have alone. *)
LEMMA OthersStay ==
  ASSUME IInv, NEW r \in Devices, Act(r), NEW d \in Devices, d # r
  PROVE  /\ flow'[d] = flow[d] /\ vault'[d] = vault[d]
         /\ secrets'[d] = secrets[d] /\ screen'[d] = screen[d]
<1> USE DEF IInv, TypeOK, device
<1>1. flow'[d] = flow[d]
  BY FlowSteps
<1>2. CASE Create(r)
  BY <1>1, <1>2, SavesAreThree
  DEF Create, BeginCreate, CreateInit, CreateExport, UploadShare, UploadBlob,
      SavesOne, SaveSecret, DownloadKit, Choose
<1>3. CASE Recover(r)
  BY <1>1, <1>3
  DEF Recover, BeginKit, BeginPasskey, ReadDeviceShare, ResolveBlob,
      ResolveShare, UnwrapShare, DownloadAndOpen, ImportBlob, SaveKey, Choose
<1>4. CASE Around(r)
  BY <1>1, <1>4
  DEF Around, AwaitFails, ImportMnemonic, Continue, Boot, Close,
      PublishPointer, LoseDevice
<1> QED
  BY <1>2, <1>3, <1>4 DEF Act

(* What is backed up stays so: a blob is uploaded again only by the        *)
(* creation it belongs to, and with the same contents.                     *)
LEMMA BackupsStay ==
  ASSUME IInv, NEW r \in Devices, Act(r)
  PROVE  /\ begun \subseteq begun' /\ share \subseteq share'
         /\ \A e \in Enrollments : BackedUp(e) => BackedUp(e)'
<1> USE DEF IInv, TypeOK, network, user
<1>1. CASE UploadBlob(r)
  <2>1. flow[r].blob = flow[r].of
    BY <1>1 DEF UploadBlob, At, CreateInv, CreateOk
  <2>2. backup' = [backup EXCEPT ![flow[r].of] = [vault |-> flow[r].of,
                                                  key |-> flow[r].of]]
    BY <1>1, <2>1 DEF UploadBlob, SealingKey
  <2>3. begun' = begun /\ share' = share
    BY <1>1 DEF UploadBlob
  <2> QED
    BY <2>2, <2>3 DEF BackedUp
<1>2. CASE Create(r) /\ ~UploadBlob(r)
  BY <1>2, SavesAreThree
  DEF Create, BeginCreate, CreateInit, CreateExport, UploadShare,
      SavesOne, SaveSecret, DownloadKit, Choose, BackedUp
<1>3. CASE Recover(r)
  BY <1>3
  DEF Recover, BeginKit, BeginPasskey, ReadDeviceShare, ResolveBlob,
      ResolveShare, UnwrapShare, DownloadAndOpen, ImportBlob, SaveKey, Choose,
      BackedUp
<1>4. CASE Around(r)
  BY <1>4
  DEF Around, AwaitFails, ImportMnemonic, Continue, Boot, Close,
      PublishPointer, LoseDevice, BackedUp
<1> QED
  BY <1>1, <1>2, <1>3, <1>4 DEF Act

LEMMA TypeStep ==
  ASSUME IInv, NEW r \in Devices, Act(r)
  PROVE  TypeOK'
<1> USE DEF IInv, TypeOK, device, network, user
<1>1. flow' \in [Devices -> Flows]
  BY FlowSteps
<1>2. flow[r].kind = "create" => flow[r].of \in Enrollments
  BY DEF FlowsInv, FlowOk
<1>3. flow[r].blob \in Vaults \cup {None}
  BY DEF Flows
<1>4. flow[r].of \in Enrollments \cup {None}
  BY DEF Flows
<1>5. CASE BeginCreate(r) \/ DownloadKit(r) \/ UploadShare(r)
  BY <1>1, <1>2, <1>5 DEF BeginCreate, Choose, DownloadKit, At, UploadShare
<1>6. CASE CreateInit(r)
  BY <1>1, <1>2, <1>6 DEF CreateInit, At, Vaults
<1>7. CASE CreateExport(r)
  BY <1>1, <1>7 DEF CreateExport
<1>8. CASE UploadBlob(r)
  <2>1. flow[r].of \in Enrollments /\ flow[r].blob = flow[r].of
    BY <1>2, <1>8 DEF UploadBlob, At, CreateInv, CreateOk
  <2>2. [vault |-> flow[r].blob, key |-> SealingKey(r)] \in Sealed
    BY <2>1 DEF SealingKey, Sealed, Vaults
  <2> QED
    BY <1>1, <1>8, <2>2 DEF UploadBlob
<1>9. CASE CreateSave(r)
  BY <1>1, <1>2, <1>9, SavesAreThree, SaveSecrets, RecoveryAssumption
  DEF SavesOne, SaveSecret, SecretKeys
<1>10. CASE BeginKit(r) \/ BeginPasskey(r)
  BY <1>1, <1>10 DEF BeginKit, BeginPasskey, Choose
<1>11. CASE ReadDeviceShare(r) \/ ResolveBlob(r) \/ ResolveShare(r)
  BY <1>1, <1>11 DEF ReadDeviceShare, ResolveBlob, ResolveShare
<1>12. CASE UnwrapShare(r) \/ DownloadAndOpen(r)
  BY <1>1, <1>12 DEF UnwrapShare, DownloadAndOpen
<1>13. CASE ImportBlob(r)
  BY <1>1, <1>3, <1>13 DEF ImportBlob
<1>14. CASE SaveKey(r)
  BY <1>1, <1>4, <1>14 DEF SaveKey, SecretKeys
<1>15. CASE AwaitFails(r) \/ Continue(r) \/ Close(r)
  BY <1>1, <1>15 DEF AwaitFails, Continue, Close
<1>16. CASE ImportMnemonic(r)
  BY <1>1, <1>16 DEF ImportMnemonic, Vaults
<1>17. CASE Boot(r) \/ PublishPointer(r)
  <2>1. (r \notin ViewOnly) \in BOOLEAN
    OBVIOUS
  <2> QED
    BY <1>1, <1>17, <2>1 DEF Boot, PublishPointer
<1>18. CASE LoseDevice(r)
  BY <1>1, <1>18 DEF LoseDevice
<1> QED
  BY <1>5, <1>6, <1>7, <1>8, <1>9, <1>10, <1>11, <1>12, <1>13, <1>14, <1>15,
     <1>16, <1>17, <1>18
  DEF Act, Create, Recover, Around

LEMMA FlowsStep ==
  ASSUME IInv, NEW r \in Devices, Act(r)
  PROVE  FlowsInv'
<1> USE DEF IInv, TypeOK, FlowsInv, FlowOk, device
<1>0. begun \subseteq begun'
  BY BackupsStay
<1>1. ASSUME NEW d \in Devices, d # r
      PROVE  FlowOk(d)'
  <2>1. flow'[d] = flow[d] /\ screen'[d] = screen[d]
    BY <1>1, OthersStay
  <2>2. flow[d].kind \in {"kit", "passkey"} => BackedUp(flow[d].of)'
    BY <2>1, BackupsStay DEF BackedUp
  <2> QED
    BY <1>0, <2>1, <2>2
<1>2. \/ flow'[r].kind = flow[r].kind /\ flow'[r].of = flow[r].of
      \/ flow'[r].kind \in {"none", "create"}
      \/ BackedUp(flow[r].of)' /\ flow'[r].of # None
      => (flow'[r].kind \in {"kit", "passkey"} =>
            flow'[r].of # None /\ BackedUp(flow[r].of)')
  <2>1. CASE /\ flow'[r].kind = flow[r].kind /\ flow'[r].of = flow[r].of
             /\ flow'[r].kind \in {"kit", "passkey"}
    BY <2>1, BackupsStay DEF BackedUp
  <2> QED
    BY <2>1
<1>3. CASE BeginCreate(r)
  <2>1. PICK e \in Enrollments :
          Choose(r, "create", e, "init") /\ begun' = begun \cup {e}
    BY <1>3 DEF BeginCreate
  <2>2. /\ flow'[r].kind = "create" /\ flow'[r].of = e
        /\ flow'[r].step = "init" /\ flow'[r].result = "none"
        /\ screen[r] = "onboarding"
    <3> HIDE DEF FlowOk, FlowsInv
    <3> QED
      BY <2>1, ChooseFlow DEF Kinds, Steps
  <2>3. screen' = screen
    BY <2>1 DEF Choose
  <2>4. FlowOk(r)'
    BY <2>1, <2>2, <2>3 DEF CreateSteps
  <2> QED
    BY <1>1, <2>4
<1>4. CASE BeginKit(r) \/ BeginPasskey(r)
  <2>1. PICK e \in Enrollments, kind \in {"kit", "passkey"} :
          Choose(r, kind, e, "secrets") /\ BackedUp(e)
    BY <1>4 DEF BeginKit, BeginPasskey, SourcesInv, SecretKeys
  <2>2. /\ flow'[r].kind = kind /\ flow'[r].of = e
        /\ flow'[r].step = "secrets" /\ flow'[r].result = "none"
        /\ screen[r] = "onboarding"
    <3> HIDE DEF FlowOk, FlowsInv
    <3>1. kind \in Kinds /\ "secrets" \in Steps
      BY DEF Kinds, Steps
    <3> QED
      BY <2>1, <3>1, ChooseFlow
  <2>3. BackedUp(e)' /\ e # None
    BY <2>1, BackupsStay, RecoveryAssumption
  <2>4. BackedUp(flow[r].of)'
    BY <2>2, <2>3 DEF BackedUp
  <2>5. screen' = screen
    BY <2>1 DEF Choose
  <2>6. FlowOk(r)'
    BY <2>2, <2>3, <2>4, <2>5 DEF RecoverSteps
  <2> QED
    BY <1>1, <2>6
<1>5. CASE DownloadKit(r) \/ PublishPointer(r)
  <2>1. flow' = flow /\ screen' = screen
    BY <1>5 DEF DownloadKit, PublishPointer
  <2>2. FlowOk(r)'
    BY <1>0, <1>2, <2>1
  <2> QED
    BY <1>1, <2>2
<1>6. CASE Boot(r) \/ LoseDevice(r)
  <2>1. flow' = flow /\ screen[r] = "boot"
    BY <1>6 DEF Boot, LoseDevice
  <2>2. FlowOk(r)'
    BY <1>0, <1>2, <2>1
  <2> QED
    BY <1>1, <2>2
<1>7. CASE ImportMnemonic(r)
  <2>1. screen[r] = "onboarding" /\ screen' = screen
    BY <1>7 DEF ImportMnemonic
  <2>2. FlowOk(r)'
    BY <1>7, <2>1, ResetFlow
  <2> QED
    BY <1>1, <2>2
<1>8. CASE Continue(r) \/ Close(r)
  <2>1. flow' = [flow EXCEPT ![r] = NoFlow]
    BY <1>8 DEF Continue, Close
  <2>2. FlowOk(r)'
    BY <2>1, ResetFlow
  <2> QED
    BY <1>1, <2>2
(* The steps of a flow: the kind and the enrollment stay, and the screen. *)
<1>9. ASSUME flow[r].step # "choose",
             flow'[r].kind = flow[r].kind, flow'[r].of = flow[r].of,
             screen' = screen,
             \/ flow'[r].step = "choose"
             \/ /\ flow'[r].result = flow[r].result
                /\ flow[r].kind = "create" => flow'[r].step \in CreateSteps
                /\ flow[r].kind \in {"kit", "passkey"} =>
                     flow'[r].step \in RecoverSteps
                /\ flow[r].kind # "none"
      PROVE  FlowsInv'
  <2>1. FlowOk(r)'
    BY <1>0, <1>2, <1>9
  <2> QED
    BY <1>1, <2>1
<1>10. flow[r].kind \in Kinds
  BY DEF Flows
<1>11. flow[r].kind # "create" /\ flow[r].step \notin {"choose", "done"} =>
         flow[r].kind \in {"kit", "passkey"}
  BY <1>10 DEF Kinds
<1>12. CASE CreateInit(r)
  BY <1>9, <1>12, GotoFlow DEF CreateInit, At, CreateSteps, Steps
<1>13. CASE CreateExport(r)
  BY <1>9, <1>13, ExportFlow DEF CreateExport, At, CreateSteps
<1>14. CASE UploadShare(r)
  BY <1>9, <1>14, GotoFlow DEF UploadShare, At, CreateSteps, Steps
<1>15. CASE UploadBlob(r)
  BY <1>9, <1>15, GotoFlow DEF UploadBlob, At, CreateSteps, Steps
<1>16. CASE CreateSave(r)
  <2>1. PICK next \in {"vaultKey", "credentialId", "done"} :
          /\ Goto(r, next) /\ flow[r].kind = "create" /\ screen' = screen
          /\ flow[r].step # "choose"
    BY <1>16, SavesAreThree DEF SavesOne, SaveSecret
  <2> QED
    BY <1>9, <2>1, GotoFlow DEF CreateSteps, Steps
<1>17. CASE ReadDeviceShare(r)
  <2>1. flow[r].kind # "create"
    BY <1>17 DEF ReadDeviceShare, CreateSteps
  <2>2. flow[r].step = "secrets" /\ screen' = screen
    BY <1>17 DEF ReadDeviceShare
  <2>3. /\ flow'[r].step \in {"unwrap", "resolve_blob"}
        /\ flow'[r].kind = flow[r].kind /\ flow'[r].of = flow[r].of
        /\ flow'[r].result = flow[r].result
    BY <1>17, ReadFlow
  <2> QED
    BY <1>9, <1>11, <2>1, <2>2, <2>3 DEF RecoverSteps
<1>18. CASE ResolveBlob(r) \/ ResolveShare(r)
  <2>1. PICK next \in {"resolve_share", "unwrap"} : Resolves(r, next)
    BY <1>18, ResolveFlow
  <2>2. flow[r].kind # "create" /\ screen' = screen
    BY <1>18 DEF ResolveBlob, ResolveShare, CreateSteps
  <2> QED
    BY <1>9, <1>11, <2>1, <2>2 DEF Resolves, RecoverSteps
<1>19. CASE UnwrapShare(r)
  <2>1. /\ flow[r].kind # "create" /\ screen' = screen
        /\ flow[r].step = "unwrap"
    BY <1>19 DEF UnwrapShare, CreateSteps
  <2>2. \/ \E result \in Results : Throw(r, result)
        \/ Goto(r, "open")
    BY <1>19 DEF UnwrapShare, Results
  <2>3. CASE \E result \in Results : Throw(r, result)
    BY <1>9, <2>1, <2>3, ThrowFlow
  <2>4. CASE Goto(r, "open")
    BY <1>9, <1>11, <2>1, <2>4, GotoFlow DEF RecoverSteps, Steps
  <2> QED
    BY <2>2, <2>3, <2>4
<1>20. CASE DownloadAndOpen(r)
  <2>1. /\ flow[r].kind # "create" /\ screen' = screen
        /\ flow[r].step = "open"
    BY <1>20 DEF DownloadAndOpen, CreateSteps
  <2>2. BackedUp(flow[r].of) /\ flow[r].of # None
    BY <1>11, <2>1
  <2>3. backup[flow[r].of] \in Sealed
    BY <2>2 DEF BackedUp, Sealed, Vaults
  <2> QED
    BY <1>9, <1>11, <1>20, <2>1, <2>2, <2>3, OpenFlow DEF RecoverSteps
<1>21. CASE ImportBlob(r)
  <2>1. /\ flow[r].kind # "create" /\ screen' = screen
        /\ flow[r].step = "import"
    BY <1>21 DEF ImportBlob, CreateSteps
  <2>2. Goto(r, "save") \/ Throw(r, "error")
    BY <1>21 DEF ImportBlob
  <2> QED
    BY <1>9, <1>11, <2>1, <2>2, GotoFlow, ThrowFlow
    DEF RecoverSteps, Steps, Results
<1>22. CASE SaveKey(r)
  <2>1. flow[r].kind # "create" /\ screen' = screen /\ flow[r].step = "save"
    BY <1>22 DEF SaveKey, CreateSteps
  <2> QED
    BY <1>9, <1>11, <1>22, <2>1, GotoFlow DEF SaveKey, RecoverSteps, Steps
<1>23. CASE AwaitFails(r)
  BY <1>9, <1>23, ThrowFlow DEF AwaitFails, Busy, Results
<1> QED
  BY <1>3, <1>4, <1>5, <1>6, <1>7, <1>8, <1>12, <1>13, <1>14, <1>15, <1>16,
     <1>17, <1>18, <1>19, <1>20, <1>21, <1>22, <1>23
  DEF Act, Create, Recover, Around

(* Only BeginCreate makes a creation, of an enrollment nobody has begun. *)
LEMMA CreationsAreNew ==
  ASSUME IInv, NEW r \in Devices, Act(r), flow'[r].kind = "create"
  PROVE  \/ /\ flow'[r].of \notin begun /\ flow'[r].step = "init"
            /\ flow'[r].result = "none"
         \/ /\ flow[r].kind = "create"
            /\ flow'[r].of = flow[r].of
<1> USE DEF IInv, TypeOK
<1>1. CASE BeginCreate(r)
  <2>1. PICK e \in Enrollments \ begun : Choose(r, "create", e, "init")
    BY <1>1 DEF BeginCreate
  <2> QED
    BY <2>1, ChooseFlow DEF Kinds, Steps
<1>2. CASE \E next \in Steps : Goto(r, next)
  BY <1>2, GotoFlow
<1>3. CASE \E result \in Results : Throw(r, result)
  BY <1>3, ThrowFlow
<1>4. CASE CreateInit(r) \/ UploadShare(r) \/ UploadBlob(r) \/ SaveKey(r)
  BY <1>2, <1>4 DEF CreateInit, UploadShare, UploadBlob, SaveKey, Steps
<1>5. CASE CreateExport(r)
  BY <1>5, ExportFlow
<1>6. CASE CreateSave(r)
  BY <1>2, <1>6, SavesAreThree DEF SavesOne, SaveSecret, Steps
<1>7. CASE BeginKit(r) \/ BeginPasskey(r)
  <2>1. PICK e \in Enrollments, kind \in {"kit", "passkey"} :
          Choose(r, kind, e, "secrets")
    BY <1>7 DEF BeginKit, BeginPasskey, SecretKeys
  <2>2. kind \in Kinds /\ "secrets" \in Steps
    BY DEF Kinds, Steps
  <2>3. flow'[r].kind = kind
    BY <2>1, <2>2, ChooseFlow
  <2> QED
    BY <2>3
<1>8. CASE ReadDeviceShare(r)
  BY <1>8, ReadFlow
<1>9. CASE ResolveBlob(r) \/ ResolveShare(r)
  BY <1>9, ResolveFlow DEF Resolves
<1>10. CASE UnwrapShare(r) \/ ImportBlob(r) \/ AwaitFails(r)
  BY <1>2, <1>3, <1>10
  DEF UnwrapShare, ImportBlob, AwaitFails, Steps, Results
<1>11. CASE DownloadAndOpen(r)
  <2>1. flow[r].kind \in {"kit", "passkey"}
    BY <1>11 DEF DownloadAndOpen, FlowsInv, FlowOk, CreateSteps, Flows, Kinds
  <2>2. BackedUp(flow[r].of) /\ flow[r].of # None
    BY <2>1 DEF FlowsInv, FlowOk
  <2>3. backup[flow[r].of] \in Sealed
    BY <2>2 DEF BackedUp, Sealed, Vaults
  <2> QED
    BY <1>11, <2>1, <2>2, <2>3, OpenFlow
<1>12. CASE ImportMnemonic(r) \/ Continue(r) \/ Close(r)
  BY <1>12, ResetFlow DEF Continue, Close
<1>13. CASE DownloadKit(r) \/ Boot(r) \/ PublishPointer(r) \/ LoseDevice(r)
  BY <1>13 DEF DownloadKit, Boot, PublishPointer, LoseDevice
<1> QED
  BY <1>1, <1>4, <1>5, <1>6, <1>7, <1>8, <1>9, <1>10, <1>11, <1>12, <1>13
  DEF Act, Create, Recover, Around

LEMMA OwnersStep ==
  ASSUME IInv, NEW r \in Devices, Act(r)
  PROVE  OwnersInv'
<1> USE DEF IInv, OwnersInv
<1>1. ASSUME NEW d \in Devices, d # r, flow'[d].kind = "create",
             flow'[r].kind = "create", flow'[d].of = flow'[r].of
      PROVE  FALSE
  <2>1. flow'[d] = flow[d]
    BY <1>1, OthersStay
  <2>2. flow[d].of \in begun
    BY <1>1, <2>1 DEF FlowsInv, FlowOk
  <2> QED
    BY <1>1, <2>1, <2>2, CreationsAreNew
<1> QED
  BY <1>1, OthersStay

LEMMA SourcesStep ==
  ASSUME IInv, NEW r \in Devices, Act(r)
  PROVE  SourcesInv'
<1> USE DEF IInv, TypeOK, SourcesInv, device, network, user
<1>1. \A e \in Enrollments : BackedUp(e) => BackedUp(e)'
  BY BackupsStay
<1>2. \A d \in Devices : secrets[d]["credentialId"] # None =>
        BackedUp(secrets[d]["credentialId"])
  OBVIOUS
<1>3. /\ \A e \in kits' :
           e \in kits \/ (At(r, "create", "done") /\ e = flow[r].of)
      /\ \A d \in Devices :
           \/ secrets'[d]["credentialId"] \in {None, secrets[d]["credentialId"]}
           \/ /\ flow[r].step = "credentialId" /\ flow[r].kind = "create"
              /\ secrets'[d]["credentialId"] = flow[r].of
  <2>1. CASE CreateSave(r)
    <3>1. kits' = kits
      BY <2>1 DEF CreateSave
    <3>2. flow[r].of # None /\ flow[r].kind = "create"
      BY <2>1, RecoveryAssumption DEF CreateSave, FlowsInv, FlowOk
    <3>3. PICK key \in SecretKeys :
            /\ secrets' = [secrets EXCEPT ![r][key] = flow[r].of]
            /\ flow[r].step = key
      BY <2>1, SavesAreThree DEF SavesOne, SaveSecret, SecretKeys
    <3> QED
      BY <3>1, <3>2, <3>3, SaveSecrets DEF SecretKeys
  <2>2. CASE DownloadKit(r)
    BY <2>2 DEF DownloadKit
  <2>3. CASE SaveKey(r)
    <3>1. \A d \in Devices :
            secrets'[d]["credentialId"] = secrets[d]["credentialId"]
      BY <2>3 DEF SaveKey, SecretKeys
    <3> QED
      BY <2>3, <3>1 DEF SaveKey
  <2>4. CASE LoseDevice(r)
    BY <2>4 DEF LoseDevice, SecretKeys
  <2>5. CASE kits' = kits /\ secrets' = secrets
    BY <2>5
  <2>6. CASE Create(r) /\ ~CreateSave(r) /\ ~DownloadKit(r)
    BY <2>5, <2>6
    DEF Create, BeginCreate, CreateInit, CreateExport, UploadShare,
        UploadBlob, Choose
  <2>7. CASE Recover(r) /\ ~SaveKey(r)
    BY <2>5, <2>7
    DEF Recover, BeginKit, BeginPasskey, ReadDeviceShare, ResolveBlob,
        ResolveShare, UnwrapShare, DownloadAndOpen, ImportBlob, Choose
  <2>8. CASE Around(r) /\ ~LoseDevice(r)
    BY <2>5, <2>8
    DEF Around, AwaitFails, ImportMnemonic, Continue, Boot, Close,
        PublishPointer
  <2> QED
    BY <2>1, <2>2, <2>3, <2>4, <2>6, <2>7, <2>8 DEF Act
<1>4. flow[r].kind = "create" /\ flow[r].step \in {"credentialId", "done"} =>
        BackedUp(flow[r].of) /\ flow[r].of \in Enrollments
  BY DEF CreateInv, CreateOk, FlowsInv, FlowOk
<1>5. \A e \in kits' : e # None /\ BackedUp(e)'
  BY <1>1, <1>3, <1>4, RecoveryAssumption DEF At
<1>6. ASSUME NEW d \in Devices, secrets'[d]["credentialId"] # None
      PROVE  BackedUp(secrets[d]["credentialId"])'
  <2>1. PICK e \in Enrollments :
          e = secrets'[d]["credentialId"] /\ BackedUp(e)
    BY <1>2, <1>3, <1>4, <1>6 DEF SecretKeys
  <2> QED
    BY <1>1, <2>1 DEF BackedUp
<1> QED
  BY <1>5, <1>6

LEMMA CreateStep ==
  ASSUME IInv, NEW r \in Devices, Act(r)
  PROVE  CreateInv'
<1> USE DEF IInv, TypeOK, CreateInv, CreateOk, At
<1>1. ASSUME NEW d \in Devices, d # r
      PROVE  CreateOk(d)'
  <2>1. /\ flow'[d] = flow[d] /\ vault'[d] = vault[d]
        /\ secrets'[d] = secrets[d]
    BY <1>1, OthersStay
  <2>2. share \subseteq share'
    BY BackupsStay
  <2>3. flow[d].kind = "create" =>
          (BackedUp(flow[d].of) => BackedUp(flow[d].of)')
    BY <2>1, BackupsStay DEF BackedUp, FlowsInv, FlowOk
  <2> QED
    BY <2>1, <2>2, <2>3
<1>2. /\ share \subseteq share'
      /\ BackedUp(flow[r].of) /\ flow'[r].of = flow[r].of =>
           BackedUp(flow[r].of)'
  BY BackupsStay DEF BackedUp
<1>3. flow'[r].kind # "create" \/ flow[r].kind # "create" => CreateOk(r)'
  BY CreationsAreNew
<1>4. flow[r].step \notin CreateSteps \cup {"choose"} =>
        flow[r].kind # "create"
  BY DEF FlowsInv, FlowOk
<1>5. CASE BeginCreate(r)
  <2>1. PICK e \in Enrollments : Choose(r, "create", e, "init")
    BY <1>5 DEF BeginCreate
  <2>2. flow'[r].step = "init"
    BY <2>1, ChooseFlow DEF Kinds, Steps
  <2>3. CreateOk(r)'
    BY <2>2
  <2> QED
    BY <1>1, <2>3
<1>6. CASE CreateInit(r)
  <2>1. Goto(r, "export") /\ vault' = [vault EXCEPT ![r] = flow[r].of]
    BY <1>6 DEF CreateInit
  <2>2. flow'[r].step = "export" /\ flow'[r].of = flow[r].of
    BY <2>1, GotoFlow DEF Steps
  <2>3. CreateOk(r)'
    BY <2>1, <2>2
  <2> QED
    BY <1>1, <2>3
<1>7. CASE CreateExport(r)
  <2>1. /\ flow'[r].step = "share" /\ flow'[r].of = flow[r].of
        /\ flow'[r].blob = vault[r]
    BY <1>7, ExportFlow
  <2>2. vault[r] = flow[r].of
    BY <1>7 DEF CreateExport
  <2>3. CreateOk(r)'
    BY <2>1, <2>2
  <2> QED
    BY <1>1, <2>3
<1>8. CASE UploadShare(r)
  <2>1. Goto(r, "blob") /\ share' = share \cup {flow[r].of}
    BY <1>8 DEF UploadShare
  <2>2. /\ flow'[r].step = "blob" /\ flow'[r].of = flow[r].of
        /\ flow'[r].blob = flow[r].blob
    BY <2>1, GotoFlow DEF Steps
  <2>3. flow[r].blob = flow[r].of
    BY <1>8 DEF UploadShare
  <2>4. CreateOk(r)'
    BY <2>1, <2>2, <2>3
  <2> QED
    BY <1>1, <2>4
<1>9. CASE UploadBlob(r)
  <2> DEFINE e == flow[r].of
  <2>1. /\ Goto(r, "sDev") /\ share' = share /\ begun' = begun
        /\ backup' = [backup EXCEPT ![e] = [vault |-> flow[r].blob,
                                            key |-> e]]
    BY <1>9 DEF UploadBlob, SealingKey, network, user
  <2>2. flow'[r].step = "sDev" /\ flow'[r].of = e
    BY <2>1, GotoFlow DEF Steps
  <2>3. flow[r].blob = e /\ e \in share /\ e \in begun /\ e \in Enrollments
    BY <1>9 DEF UploadBlob, FlowsInv, FlowOk
  <2>4. BackedUp(flow[r].of)'
    BY <2>1, <2>2, <2>3 DEF BackedUp
  <2>5. CreateOk(r)'
    BY <2>1, <2>2, <2>3, <2>4
  <2> QED
    BY <1>1, <2>5
<1>10. CASE CreateSave(r)
  <2>1. flow[r].kind = "create" /\ flow[r].of # None
    BY <1>10, RecoveryAssumption DEF CreateSave, FlowsInv, FlowOk
  <2>2. share' = share
    BY <1>10 DEF CreateSave, network
  <2>3. ASSUME SavesOne(r, "sDev", "vaultKey")
      PROVE  CreateOk(r)'
    <3>1. /\ flow[r].step = "sDev" /\ Goto(r, "vaultKey")
          /\ secrets' = [secrets EXCEPT ![r]["sDev"] = flow[r].of]
      BY <2>3 DEF SavesOne, SaveSecret
    <3>2. flow'[r].step = "vaultKey" /\ flow'[r].of = flow[r].of
      BY <3>1, GotoFlow DEF Steps
    <3>3. secrets'[r]["sDev"] = flow[r].of
      BY <2>1, <3>1, SaveSecrets DEF SecretKeys
    <3> QED
      BY <1>2, <2>1, <2>2, <3>1, <3>2, <3>3
  <2>4. ASSUME SavesOne(r, "vaultKey", "credentialId")
      PROVE  CreateOk(r)'
    <3>1. /\ flow[r].step = "vaultKey" /\ Goto(r, "credentialId")
          /\ secrets' = [secrets EXCEPT ![r]["vaultKey"] = flow[r].of]
      BY <2>4 DEF SavesOne, SaveSecret
    <3>2. flow'[r].step = "credentialId" /\ flow'[r].of = flow[r].of
      BY <3>1, GotoFlow DEF Steps
    <3>3. /\ secrets'[r]["vaultKey"] = flow[r].of
          /\ secrets'[r]["sDev"] = secrets[r]["sDev"]
      BY <2>1, <3>1, SaveSecrets DEF SecretKeys
    <3> QED
      BY <1>2, <2>1, <2>2, <3>1, <3>2, <3>3
  <2>5. ASSUME SavesOne(r, "credentialId", "done")
      PROVE  CreateOk(r)'
    <3>1. /\ flow[r].step = "credentialId" /\ Goto(r, "done")
          /\ secrets' = [secrets EXCEPT ![r]["credentialId"] = flow[r].of]
      BY <2>5 DEF SavesOne, SaveSecret
    <3>2. flow'[r].step = "done" /\ flow'[r].of = flow[r].of
      BY <3>1, GotoFlow DEF Steps
    <3>3. /\ secrets'[r]["credentialId"] = flow[r].of
          /\ secrets'[r]["sDev"] = secrets[r]["sDev"]
          /\ secrets'[r]["vaultKey"] = secrets[r]["vaultKey"]
      BY <2>1, <3>1, SaveSecrets DEF SecretKeys
    <3> QED
      BY <1>2, <2>1, <2>2, <3>1, <3>2, <3>3
  <2>6. CreateOk(r)'
    BY <1>10, <2>3, <2>4, <2>5, SavesAreThree
  <2> QED
    BY <1>1, <2>6
<1>11. CASE BeginKit(r) \/ BeginPasskey(r)
  <2>1. PICK e \in Enrollments, kind \in {"kit", "passkey"} :
          Choose(r, kind, e, "secrets")
    BY <1>11 DEF BeginKit, BeginPasskey, SecretKeys
  <2>2. kind \in Kinds /\ "secrets" \in Steps
    BY DEF Kinds, Steps
  <2>3. flow'[r].kind = kind
    BY <2>1, <2>2, ChooseFlow
  <2> QED
    BY <1>1, <1>3, <2>3
<1>12. CASE Recover(r) /\ ~BeginKit(r) /\ ~BeginPasskey(r)
  BY <1>1, <1>3, <1>4, <1>12
  DEF Recover, ReadDeviceShare, ResolveBlob, ResolveShare, UnwrapShare,
      DownloadAndOpen, ImportBlob, SaveKey, CreateSteps
<1>13. CASE AwaitFails(r)
  BY <1>1, <1>13, ThrowFlow DEF AwaitFails, Results
<1>14. CASE ImportMnemonic(r) \/ Continue(r) \/ Close(r)
  BY <1>1, <1>3, <1>14, ResetFlow DEF Continue, Close
<1>15. CASE DownloadKit(r) \/ Boot(r) \/ PublishPointer(r)
  <2>1. flow' = flow /\ vault' = vault /\ secrets' = secrets
    BY <1>15 DEF DownloadKit, Boot, PublishPointer, device
  <2>2. CreateOk(r)'
    BY <1>2, <2>1
  <2> QED
    BY <1>1, <2>2
<1>16. CASE LoseDevice(r)
  <2>1. flow' = flow /\ screen[r] = "boot"
    BY <1>16 DEF LoseDevice
  <2>2. flow[r].step = "choose"
    BY <2>1 DEF FlowsInv, FlowOk
  <2> QED
    BY <1>1, <2>1, <2>2
<1> QED
  BY <1>5, <1>6, <1>7, <1>8, <1>9, <1>10, <1>11, <1>12, <1>13, <1>14, <1>15,
     <1>16
  DEF Act, Create, Recover, Around

(* An open that succeeds had shares of the enrollment only, and one that   *)
(* fails had a share of another one.                                       *)
LEMMA OpensIffOwn ==
  ASSUME IInv, NEW r \in Devices, DownloadAndOpen(r)
  PROVE  /\ BackedUp(flow[r].of) /\ flow[r].of # None
         /\ backup[flow[r].of] \in Sealed
         /\ OpensWith(backup[flow[r].of], CombineShares(Shares(flow[r]))) =>
              \A s \in Shares(flow[r]) : s[2] = flow[r].of
         /\ ~OpensWith(backup[flow[r].of], CombineShares(Shares(flow[r]))) =>
              flow[r].sDev \notin {None, flow[r].of}
<1> DEFINE shares == Shares(flow[r])
<1>1. flow[r].kind \in {"kit", "passkey"}
  BY DEF DownloadAndOpen, IInv, TypeOK, FlowsInv, FlowOk, CreateSteps, Flows,
         Kinds
<1>2. BackedUp(flow[r].of) /\ flow[r].of # None
  BY <1>1 DEF IInv, FlowsInv, FlowOk
<1>3. backup[flow[r].of] \in Sealed /\ backup[flow[r].of].key = flow[r].of
  BY <1>2 DEF IInv, TypeOK, BackedUp, Sealed, Vaults
<1>4. IsFiniteSet(shares) /\ shares # {}
  <2>1. Cardinality(shares) >= 2
    BY DEF DownloadAndOpen, IInv, RecoverInv, RecoverOk
  <2> QED
    BY <2>1, SharesAreFinite, FS_EmptySet
<1>5. OpensWith(backup[flow[r].of], CombineShares(shares)) =>
        CombineShares(shares) # None /\ CombineShares(shares) = flow[r].of
  BY <1>3 DEF OpensWith
<1>6. flow[r].sDev \in {None, flow[r].of} =>
        \A s \in shares : s[2] = flow[r].of
  BY DEF Shares
<1>7. CombineShares(shares) = flow[r].of =>
        OpensWith(backup[flow[r].of], CombineShares(shares))
  BY <1>2, <1>3 DEF OpensWith
<1> QED
  BY <1>2, <1>3, <1>4, <1>5, <1>6, <1>7, CombinedSharesAgree

LEMMA RecoverStep ==
  ASSUME IInv, NEW r \in Devices, Act(r)
  PROVE  RecoverInv'
<1> USE DEF IInv, TypeOK, RecoverInv, RecoverOk
<1>1. ASSUME NEW d \in Devices, d # r
      PROVE  RecoverOk(d)'
  <2>1. flow'[d] = flow[d]
    BY <1>1, OthersStay
  <2> QED
    BY <2>1
<1> DEFINE Looking == {"resolve_blob", "resolve_share", "unwrap", "open",
                       "import"}
<1>2. flow'[r].step \notin Looking => RecoverOk(r)'
  OBVIOUS
<1>3. flow[r].kind = "create" => flow[r].step \notin Looking
  BY DEF FlowsInv, FlowOk, CreateSteps
<1>4. flow'[r].kind = "create" => RecoverOk(r)'
  <2>1. flow'[r].kind = "create" => flow'[r].step \notin Looking
    BY FlowsStep DEF FlowsInv, FlowOk, CreateSteps
  <2> QED
    BY <1>2, <2>1
<1>5. CASE \E next \in Steps \ Looking : Goto(r, next)
  BY <1>1, <1>2, <1>5, GotoFlow
<1>6. CASE \E result \in Results : Throw(r, result)
  <2>1. flow'[r].step = "choose"
    BY <1>6, ThrowFlow
  <2> QED
    BY <1>1, <1>2, <2>1
<1>7. CASE CreateInit(r) \/ UploadShare(r) \/ UploadBlob(r) \/ SaveKey(r)
  BY <1>5, <1>7 DEF CreateInit, UploadShare, UploadBlob, SaveKey, Steps
<1>8. CASE CreateExport(r)
  BY <1>1, <1>2, <1>8, ExportFlow
<1>9. CASE CreateSave(r)
  BY <1>5, <1>9, SavesAreThree DEF SavesOne, SaveSecret, Steps
<1>10. CASE BeginCreate(r) \/ BeginKit(r) \/ BeginPasskey(r)
  <2>1. PICK e \in Enrollments, kind \in {"create", "kit", "passkey"},
             next \in {"init", "secrets"} : Choose(r, kind, e, next)
    BY <1>10 DEF BeginCreate, BeginKit, BeginPasskey, SecretKeys
  <2>2. kind \in Kinds /\ next \in Steps
    BY DEF Kinds, Steps
  <2>3. flow'[r].step = next
    BY <2>1, <2>2, ChooseFlow
  <2> QED
    BY <1>1, <1>2, <2>3
<1>11. CASE ReadDeviceShare(r)
  <2>1. flow[r].kind \in {"kit", "passkey"}
    BY <1>11
    DEF ReadDeviceShare, FlowsInv, FlowOk, CreateSteps, Flows, Kinds
  <2>2. CASE flow[r].kind = "kit"
    <3>1. /\ flow'[r].step = "unwrap" /\ flow'[r].blobCid
          /\ flow'[r].shareCid
      BY <1>11, <2>2, ReadFlow
    <3>2. RecoverOk(r)'
      BY <3>1
    <3> QED
      BY <1>1, <3>2
  <2>3. CASE flow[r].kind = "passkey"
    <3>1. flow'[r].step = "resolve_blob" /\ flow'[r].kind = "passkey"
      BY <1>11, <2>3, ReadFlow
    <3>2. RecoverOk(r)'
      BY <3>1
    <3> QED
      BY <1>1, <3>2
  <2> QED
    BY <2>1, <2>2, <2>3
<1>12. CASE ResolveBlob(r) \/ ResolveShare(r)
  <2>1. PICK next \in {"resolve_share", "unwrap"} : Resolves(r, next)
    BY <1>12, ResolveFlow
  <2>2. flow[r].kind = "passkey"
    BY <2>1 DEF Resolves
  <2>3. flow'[r].kind = "passkey" /\ flow'[r].step = next
    BY <2>1, <2>2 DEF Resolves
  <2>4. RecoverOk(r)'
    BY <2>3
  <2> QED
    BY <1>1, <2>4
<1>13. CASE UnwrapShare(r)
  <2>1. CASE Cardinality(Shares(flow[r])) < 2 \/ ~flow[r].blobCid
    <3>1. Throw(r, "few_shares") \/ Throw(r, "no_blob")
      BY <1>13, <2>1 DEF UnwrapShare
    <3> QED
      BY <1>6, <3>1 DEF Results
  <2>2. CASE ~(Cardinality(Shares(flow[r])) < 2) /\ flow[r].blobCid
    <3>1. Goto(r, "open") /\ flow[r].step = "unwrap"
      BY <1>13, <2>2 DEF UnwrapShare
    <3>2. Cardinality(Shares(flow[r])) \in Nat
      BY SharesAreFinite, FS_CardinalityType
    <3>3. /\ flow'[r].step = "open" /\ flow'[r].kind = flow[r].kind
          /\ flow'[r].blobCid = flow[r].blobCid
          /\ flow'[r].shareCid = flow[r].shareCid
          /\ Shares(flow'[r]) = Shares(flow[r])
      BY <3>1, GotoFlow DEF Steps
    <3>4. Cardinality(Shares(flow'[r])) >= 2
      BY <2>2, <3>2, <3>3
    <3>5. RecoverOk(r)'
      BY <3>1, <3>3, <3>4
    <3> QED
      BY <1>1, <3>5
  <2> QED
    BY <2>1, <2>2
<1>14. CASE DownloadAndOpen(r)
  <2>1. flow[r].step = "open"
    BY <1>14 DEF DownloadAndOpen
  <2>2. CASE OpensWith(backup[flow[r].of], CombineShares(Shares(flow[r])))
    <3>1. /\ flow'[r].step = "import" /\ flow'[r].kind = flow[r].kind
          /\ flow'[r].of = flow[r].of
          /\ flow'[r].blobCid = flow[r].blobCid
          /\ flow'[r].shareCid = flow[r].shareCid
          /\ Shares(flow'[r]) = Shares(flow[r])
      BY <1>14, <2>2, OpensIffOwn, OpenFlow
    <3>2. \A s \in Shares(flow[r]) : s[2] = flow[r].of
      BY <1>14, <2>2, OpensIffOwn
    <3>3. RecoverOk(r)'
      BY <2>1, <3>1, <3>2
    <3> QED
      BY <1>1, <3>3
  <2>3. CASE ~OpensWith(backup[flow[r].of], CombineShares(Shares(flow[r])))
    BY <1>6, <1>14, <2>3 DEF DownloadAndOpen, Results
  <2> QED
    BY <2>2, <2>3
<1>15. CASE ImportBlob(r)
  <2>1. Goto(r, "save") \/ Throw(r, "error")
    BY <1>15 DEF ImportBlob
  <2> QED
    BY <1>5, <1>6, <2>1 DEF Steps, Results
<1>16. CASE AwaitFails(r)
  BY <1>6, <1>16 DEF AwaitFails, Results
<1>17. CASE ImportMnemonic(r) \/ Continue(r) \/ Close(r)
  BY <1>1, <1>2, <1>17, ResetFlow DEF Continue, Close
<1>18. CASE DownloadKit(r) \/ Boot(r) \/ PublishPointer(r) \/ LoseDevice(r)
  <2>1. flow' = flow
    BY <1>18 DEF DownloadKit, Boot, PublishPointer, LoseDevice
  <2> QED
    BY <2>1
<1> QED
  BY <1>7, <1>8, <1>9, <1>10, <1>11, <1>12, <1>13, <1>14, <1>15, <1>16,
     <1>17, <1>18
  DEF Act, Create, Recover, Around

LEMMA FailureStep ==
  ASSUME IInv, NEW r \in Devices, Act(r)
  PROVE  FailureHasReason'
<1> DEFINE Reason(d) ==
      /\ flow[d].result = "wrong_key" => flow[d].sDev \notin {None, flow[d].of}
      /\ flow[d].kind = "kit" => flow[d].result \notin {"few_shares", "no_blob"}
<1>1. \A d \in Devices : Reason(d)
  BY DEF IInv, FailureHasReason
<1>2. ASSUME Reason(r)'
      PROVE  FailureHasReason'
  BY <1>1, <1>2, OthersStay DEF FailureHasReason
<1>3. flow'[r].result \in {"none", "error"} => FailureHasReason'
  BY <1>2
<1> USE DEF IInv, TypeOK
<1>4. CASE flow' = flow
  BY <1>1, <1>2, <1>4
<1>5. CASE flow[r].step # "choose" /\ flow'[r].result = flow[r].result
  BY <1>3, <1>5 DEF FlowsInv, FlowOk
<1>6. CASE CreateInit(r) \/ UploadShare(r) \/ UploadBlob(r) \/ SaveKey(r)
  <2>1. PICK next \in Steps : Goto(r, next)
    BY <1>6 DEF CreateInit, UploadShare, UploadBlob, SaveKey, Steps
  <2>2. flow[r].step # "choose"
    BY <1>6 DEF CreateInit, UploadShare, UploadBlob, SaveKey, At
  <2> QED
    BY <1>5, <2>1, <2>2, GotoFlow
<1>7. CASE CreateExport(r)
  BY <1>5, <1>7, ExportFlow DEF CreateExport, At
<1>8. CASE CreateSave(r)
  <2>1. PICK next \in Steps : Goto(r, next) /\ flow[r].step # "choose"
    BY <1>8, SavesAreThree DEF SavesOne, SaveSecret, Steps
  <2> QED
    BY <1>5, <2>1, GotoFlow
<1>9. CASE BeginCreate(r) \/ BeginKit(r) \/ BeginPasskey(r)
  <2>1. PICK e \in Enrollments, kind \in {"create", "kit", "passkey"},
             next \in {"init", "secrets"} : Choose(r, kind, e, next)
    BY <1>9 DEF BeginCreate, BeginKit, BeginPasskey, SecretKeys
  <2>2. kind \in Kinds /\ next \in Steps
    BY DEF Kinds, Steps
  <2>3. flow'[r].result = "none"
    BY <2>1, <2>2, ChooseFlow
  <2> QED
    BY <1>3, <2>3
<1>10. CASE ReadDeviceShare(r)
  BY <1>5, <1>10, ReadFlow DEF ReadDeviceShare
<1>11. CASE ResolveBlob(r) \/ ResolveShare(r)
  BY <1>5, <1>11, ResolveFlow DEF Resolves
<1>12. CASE UnwrapShare(r)
  <2>1. flow[r].step = "unwrap"
    BY <1>12 DEF UnwrapShare
  <2>2. CASE flow[r].kind = "kit"
    <3>1. flow[r].blobCid /\ flow[r].shareCid
      BY <2>1, <2>2 DEF RecoverInv, RecoverOk
    <3>2. Cardinality(Shares(flow[r])) >= 2
      BY <2>2, <3>1, KitsBringTwo
    <3>3. Cardinality(Shares(flow[r])) \in Nat
      BY SharesAreFinite, FS_CardinalityType
    <3>4. ~(Cardinality(Shares(flow[r])) < 2)
      BY <3>2, <3>3
    <3>5. Goto(r, "open")
      BY <1>12, <3>1, <3>4 DEF UnwrapShare
    <3> QED
      BY <1>5, <2>1, <3>5, GotoFlow DEF Steps
  <2>3. CASE flow[r].kind # "kit"
    <3>1. CASE Goto(r, "open")
      BY <1>5, <2>1, <3>1, GotoFlow DEF Steps
    <3>2. CASE Throw(r, "few_shares") \/ Throw(r, "no_blob")
      <4>1. flow'[r].kind # "kit" /\ flow'[r].result # "wrong_key"
        BY <2>3, <3>2, ThrowFlow DEF Results
      <4> QED
        BY <1>2, <4>1
    <3> QED
      BY <1>12, <3>1, <3>2 DEF UnwrapShare
  <2> QED
    BY <2>2, <2>3
<1>13. CASE DownloadAndOpen(r)
  <2>1. flow[r].step = "open"
    BY <1>13 DEF DownloadAndOpen
  <2>2. CASE OpensWith(backup[flow[r].of], CombineShares(Shares(flow[r])))
    BY <1>5, <1>13, <2>1, <2>2, OpensIffOwn, OpenFlow
  <2>3. CASE ~OpensWith(backup[flow[r].of], CombineShares(Shares(flow[r])))
    <3>1. flow[r].sDev \notin {None, flow[r].of}
      BY <1>13, <2>3, OpensIffOwn
    <3>2. /\ flow'[r].result = "wrong_key" /\ flow'[r].of = flow[r].of
          /\ flow'[r].sDev = flow[r].sDev
      BY <1>13, <2>3, OpensIffOwn, OpenFlow
    <3>3. Reason(r)'
      BY <3>1, <3>2
    <3> QED
      BY <1>2, <3>3
  <2> QED
    BY <2>2, <2>3
<1>14. CASE ImportBlob(r)
  <2>1. flow[r].step = "import"
    BY <1>14 DEF ImportBlob
  <2>2. CASE Goto(r, "save")
    BY <1>5, <2>1, <2>2, GotoFlow DEF Steps
  <2>3. CASE Throw(r, "error")
    BY <1>3, <2>3, ThrowFlow DEF Results
  <2> QED
    BY <1>14, <2>2, <2>3 DEF ImportBlob
<1>15. CASE AwaitFails(r)
  BY <1>3, <1>15, ThrowFlow DEF AwaitFails, Results
<1>16. CASE ImportMnemonic(r) \/ Continue(r) \/ Close(r)
  BY <1>3, <1>16, ResetFlow DEF Continue, Close
<1>17. CASE DownloadKit(r) \/ Boot(r) \/ PublishPointer(r) \/ LoseDevice(r)
  BY <1>4, <1>17 DEF DownloadKit, Boot, PublishPointer, LoseDevice
<1> QED
  BY <1>6, <1>7, <1>8, <1>9, <1>10, <1>11, <1>12, <1>13, <1>14, <1>15,
     <1>16, <1>17
  DEF Act, Create, Recover, Around

-----------------------------------------------------------------------------
(* The theorems *)

LEMMA Initially == Init => IInv
<1> SUFFICES ASSUME Init PROVE IInv
  OBVIOUS
<1>1. TypeOK
  BY NoFlowIsOne DEF Init, TypeOK, SecretKeys
<1>2. \A d \in Devices : flow[d] = NoFlow
  BY DEF Init
<1>3. /\ NoFlow.kind = "none" /\ NoFlow.step = "choose"
      /\ NoFlow.result = "none"
  BY DEF NoFlow
<1>4. FlowsInv /\ OwnersInv /\ CreateInv /\ RecoverInv
  BY <1>2, <1>3
  DEF FlowsInv, FlowOk, OwnersInv, CreateInv, CreateOk, RecoverInv, RecoverOk
<1>5. SourcesInv
  BY DEF Init, SourcesInv, SecretKeys
<1>6. FailureHasReason
  BY <1>2, <1>3 DEF FailureHasReason
<1> QED
  BY <1>1, <1>4, <1>5, <1>6 DEF IInv

(* The storage network drops what IInv says nothing about. *)
LEMMA Dropped ==
  ASSUME IInv, StorageDrops \/ UNCHANGED vars
  PROVE  IInv'
<1>1. /\ vault' = vault /\ session' = session /\ screen' = screen
      /\ secrets' = secrets /\ begun' = begun /\ share' = share
      /\ backup' = backup /\ pointer' = pointer /\ kits' = kits
      /\ phrases' = phrases /\ flow' = flow
  BY DEF StorageDrops, vars, device, user
<1>2. gone' \subseteq {"share", "blob"} \X Enrollments
  BY DEF IInv, TypeOK, StorageDrops, vars
<1>3. TypeOK'
  BY <1>1, <1>2 DEF IInv, TypeOK
<1>4. FlowsInv' /\ OwnersInv' /\ CreateInv' /\ SourcesInv'
  BY <1>1
  DEF IInv, FlowsInv, FlowOk, OwnersInv, CreateInv, CreateOk, SourcesInv,
      BackedUp
<1>5. RecoverInv' /\ FailureHasReason'
  BY <1>1 DEF IInv, RecoverInv, RecoverOk, FailureHasReason
<1> QED
  BY <1>3, <1>4, <1>5 DEF IInv

LEMMA Preserved == IInv /\ [Next]_vars => IInv'
<1> SUFFICES ASSUME IInv, [Next]_vars PROVE IInv'
  OBVIOUS
<1>1. ASSUME NEW r \in Devices, Act(r)
      PROVE  IInv'
  BY <1>1, TypeStep, FlowsStep, OwnersStep, CreateStep, SourcesStep,
     RecoverStep, FailureStep
  DEF IInv
<1> QED
  BY <1>1, Dropped DEF Next, Act

LEMMA IsInvariant == Spec => []IInv
  BY Initially, Preserved, PTL DEF Spec

(* The type invariant. *)
THEOREM RecoveryTypeCorrect == Spec => []TypeOK
<1>1. IInv => TypeOK
  BY DEF IInv
<1> QED
  BY <1>1, IsInvariant, PTL

(* recover() restores a vault only with two shares or more of the key that *)
(* seals it, on any number of devices and after any enrollments.           *)
THEOREM RestoresWithItsOwnShares == Spec => []RestoredWithItsOwnShares
<1>1. IInv => RestoredWithItsOwnShares
  BY DEF IInv, RecoverInv, RecoverOk, RestoredWithItsOwnShares
<1> QED
  BY <1>1, IsInvariant, PTL

(* "Wallet ready" means a complete backup: whatever other devices upload,  *)
(* store or lose meanwhile.                                                *)
THEOREM ReadyWalletsAreBackedUp == Spec => []ReadyMeansBackedUp
<1>1. IInv => ReadyMeansBackedUp
  <2> SUFFICES ASSUME IInv, NEW d \in Devices, At(d, "create", "done")
               PROVE  /\ flow[d].of \in share
                      /\ backup[flow[d].of] = [vault |-> flow[d].of,
                                               key |-> flow[d].of]
                      /\ secrets[d] = [k \in SecretKeys |-> flow[d].of]
    BY DEF ReadyMeansBackedUp
  <2>1. /\ BackedUp(flow[d].of) /\ secrets[d]["sDev"] = flow[d].of
        /\ secrets[d]["vaultKey"] = flow[d].of
        /\ secrets[d]["credentialId"] = flow[d].of
    BY DEF At, IInv, CreateInv, CreateOk
  <2>2. secrets[d] \in [SecretKeys -> Enrollments \cup {None}]
    BY DEF IInv, TypeOK
  <2>3. \A k \in SecretKeys : secrets[d][k] = flow[d].of
    BY <2>1 DEF SecretKeys
  <2>4. secrets[d] = [k \in SecretKeys |-> flow[d].of]
    BY <2>2, <2>3
  <2> QED
    BY <2>1, <2>4 DEF BackedUp
<1> QED
  BY <1>1, IsInvariant, PTL

(* A recovery that had all it asked for fails on a share of another        *)
(* enrollment only, and a kit is never short of shares or CIDs.            *)
THEOREM FailuresHaveReasons == Spec => []FailureHasReason
<1>1. IInv => FailureHasReason
  BY DEF IInv
<1> QED
  BY <1>1, IsInvariant, PTL
=============================================================================
