---------------------------- MODULE StoreProofs ----------------------------
(* Theorems about CliVault and PwaVault, and about both side by side.      *)
EXTENDS MCVaultStores, TLAPS

-----------------------------------------------------------------------------
(* The command line's vault file *)

(* Stores are numbered, and made by processes that are done. *)
NumbersInv ==
  /\ \A p \in Procs :
       /\ storedAs[p] <= stores /\ knows[p] <= stores /\ began[p] <= stores
       /\ storedAs[p] > 0 <=> step[p] = "done"
       /\ step[p] = "done" => knows[p] < storedAs[p]
  /\ \A p, q \in Procs : storedAs[p] > 0 /\ storedAs[q] = storedAs[p] => p = q

(* What a process holds. *)
HeldInv ==
  \A p \in Procs :
    /\ step[p] = "opened" => cmd[p] \in Opening
    /\ step[p] \in {"opened", "store", "write", "done"} =>
         /\ cmd[p] # "none" /\ held[p] # Absent
         /\ cmd[p] \in Opening => held[p] \in VaultFiles

(* What a process loaded carries all that was stored before. *)
CarriesInv ==
  \A p, q \in Procs :
    /\ step[q] \in {"opened", "store", "write", "done"} /\ cmd[q] \in Opening
    /\ Stored(p) /\ storedAs[p] <= knows[q]
    => Extends(held[q], held[p]) \/ UndoneBy(p, knows[q])

(* A new account is a new one, as far as the process can know. *)
FreshInv ==
  \A p, q \in Procs :
    /\ step[q] \in {"store", "write", "done"} /\ cmd[q] = "new-account"
    /\ Stored(p) /\ storedAs[p] <= knows[q]
    /\ held[p].wallet = held[q].wallet
    => Len(held[p].named) < Len(held[q].named) \/ UndoneBy(p, knows[q])

(* Who wrote while a process was writing. *)
WritersInv ==
  /\ stores > 0 => \E q \in Procs : storedAs[q] = stores
  /\ \A p \in Procs :
       step[p] = "write" /\ file # Empty =>
         began[p] < stores \/ \E q \in Procs : step[q] = "cut"

IInv ==
  /\ CliTypeOK /\ NumbersInv /\ HeldInv /\ CarriesInv /\ FreshInv /\ WritersInv
  /\ AccountsSurvive /\ UnreadableHasReason

LEMMA NewVault == \A w \in Wallets : New(w) \in VaultFiles
  BY DEF New, VaultFiles

LEMMA LongerVault ==
  ASSUME NEW v \in VaultFiles, NEW l \in Labels
  PROVE  /\ WithAccount(v, l) \in VaultFiles
         /\ Extends(WithAccount(v, l), v)
         /\ WithAccount(v, l).wallet = v.wallet
         /\ Len(WithAccount(v, l).named) = Len(v.named) + 1
  BY DEF WithAccount, VaultFiles, Extends

LEMMA ExtendsIsAnOrder ==
  ASSUME NEW u \in VaultFiles, NEW v \in VaultFiles, NEW w \in VaultFiles
  PROVE  /\ Extends(v, v)
         /\ Extends(w, v) /\ Extends(v, u) => Extends(w, u)
<1>1. Len(u.named) \in Nat /\ Len(v.named) \in Nat /\ Len(w.named) \in Nat
  BY DEF VaultFiles
<1> QED
  BY <1>1 DEF Extends

Act(r) ==
  \/ CliCreate(r) \/ Download(r) \/ Open(r) \/ Run(r) \/ Truncate(r)
  \/ Write(r) \/ Stop(r)

(* A step of one process leaves the others alone. *)
LEMMA OthersStay ==
  ASSUME IInv, NEW r \in Procs, Act(r), NEW p \in Procs, p # r
  PROVE  /\ step'[p] = step[p] /\ cmd'[p] = cmd[p] /\ held'[p] = held[p]
         /\ knows'[p] = knows[p] /\ began'[p] = began[p]
         /\ storedAs'[p] = storedAs[p]
  BY DEF IInv, CliTypeOK, Act, CliCreate, Download, Open, Run, Truncate, Write,
         Stop, Goes

LEMMA TypeStep ==
  ASSUME IInv, NEW r \in Procs, Act(r)
  PROVE  CliTypeOK'
<1> USE DEF IInv, CliTypeOK, Goes, CliSteps, Opening, Replacing
<1>1. CASE CliCreate(r)
  BY <1>1, NewVault DEF CliCreate
<1>2. CASE Download(r)
  BY <1>2 DEF Download
<1>3. CASE Open(r)
  BY <1>3 DEF Open
<1>4. CASE Run(r)
  <2>1. held[r] \in VaultFiles
    BY <1>4 DEF Run, HeldInv
  <2>2. \A l \in Labels : WithAccount(held[r], l) \in VaultFiles
    BY <2>1, LongerVault
  <2>3. held' \in [Procs -> VaultFiles \cup {Absent, Garbled}]
    <3>1. CASE UNCHANGED held
      BY <3>1
    <3>2. CASE \E l \in Labels :
                 held' = [held EXCEPT ![r] = WithAccount(@, l)]
      <4>1. PICK l \in Labels : held' = [held EXCEPT ![r] = WithAccount(@, l)]
        BY <3>2
      <4>2. held' = [held EXCEPT ![r] = WithAccount(held[r], l)]
        BY <4>1
      <4> QED
        BY <2>2, <4>2
    <3> QED
      BY <1>4, <3>1, <3>2 DEF Run
  <2>4. uploads' \subseteq VaultFiles
    BY <1>4, <2>1 DEF Run
  <2> QED
    BY <1>4, <2>3, <2>4 DEF Run
<1>5. CASE Truncate(r)
  BY <1>5 DEF Truncate
<1>6. CASE Write(r)
  BY <1>6 DEF Write
<1>7. CASE Stop(r)
  BY <1>7 DEF Stop
<1> QED
  BY <1>1, <1>2, <1>3, <1>4, <1>5, <1>6, <1>7 DEF Act

(* What is stored, and by whom, does not change. *)
LEMMA StoredStays ==
  ASSUME IInv, NEW r \in Procs, Act(r), NEW p \in Procs, storedAs[p] > 0
  PROVE  /\ p # r /\ storedAs'[p] = storedAs[p] /\ cmd'[p] = cmd[p]
         /\ knows'[p] = knows[p] /\ held'[p] = held[p] /\ began'[p] = began[p]
         /\ step'[p] = "done"
<1>1. step[p] = "done"
  BY DEF IInv, NumbersInv
<1>2. step[r] # "done"
  BY DEF Act, CliCreate, Download, Open, Run, Truncate, Write, Stop
<1> QED
  BY <1>1, <1>2, OthersStay

LEMMA UndoneStays ==
  ASSUME IInv, NEW r \in Procs, Act(r), NEW p \in Procs, storedAs[p] > 0,
         NEW n \in Nat, NEW m \in Nat, n <= m, UndoneBy(p, n)
  PROVE  UndoneBy(p, m)'
<1>1. PICK q \in Procs :
        /\ storedAs[p] < storedAs[q] /\ storedAs[q] <= n
        /\ cmd[q] \in Replacing \/ knows[q] < storedAs[p]
  BY DEF UndoneBy
<1>2. storedAs[q] > 0 /\ storedAs[q] \in Nat /\ storedAs[p] \in Nat
  BY <1>1 DEF IInv, CliTypeOK
<1>3. /\ storedAs'[p] = storedAs[p] /\ storedAs'[q] = storedAs[q]
      /\ cmd'[q] = cmd[q] /\ knows'[q] = knows[q]
  BY <1>2, StoredStays
<1> QED
  BY <1>1, <1>2, <1>3 DEF UndoneBy

-----------------------------------------------------------------------------
(* Every part of IInv is preserved by a step of any process. *)

LEMMA NumbersStep ==
  ASSUME IInv, NEW r \in Procs, Act(r)
  PROVE  NumbersInv'
<1> USE DEF IInv, CliTypeOK, NumbersInv, Goes
<1>1. CASE Write(r)
  BY <1>1 DEF Write
<1>2. CASE Open(r)
  BY <1>2 DEF Open
<1>3. CASE Truncate(r)
  BY <1>3 DEF Truncate
<1>4. CASE CliCreate(r) \/ Download(r) \/ Run(r) \/ Stop(r)
  BY <1>4 DEF CliCreate, Download, Run, Stop
<1> QED
  BY <1>1, <1>2, <1>3, <1>4 DEF Act

LEMMA HeldStep ==
  ASSUME IInv, NEW r \in Procs, Act(r)
  PROVE  HeldInv'
<1> USE DEF IInv, CliTypeOK, HeldInv, Goes
<1>1. CASE CliCreate(r)
  BY <1>1, NewVault, FilesAssumption DEF CliCreate, Opening
<1>2. CASE Download(r)
  BY <1>2, FilesAssumption DEF Download, Opening
<1>3. CASE Open(r)
  BY <1>3, FilesAssumption DEF Open, Opening
<1>4. CASE Run(r)
  <2>1. held[r] \in VaultFiles /\ cmd[r] \in Opening /\ cmd[r] # "none"
    BY <1>4 DEF Run
  <2>2. held'[r] \in VaultFiles
    BY <1>4, <2>1, LongerVault DEF Run
  <2>3. cmd' = cmd /\ step'[r] = "store"
    BY <1>4 DEF Run
  <2> QED
    BY <2>1, <2>2, <2>3, OthersStay, FilesAssumption
<1>5. CASE Truncate(r) \/ Write(r)
  BY <1>5 DEF Truncate, Write
<1>6. CASE Stop(r)
  BY <1>6 DEF Stop
<1> QED
  BY <1>1, <1>2, <1>3, <1>4, <1>5, <1>6 DEF Act

(* A store that is numbered no higher than what a process knew was there   *)
(* before the step.                                                        *)
LEMMA KnownIsOld ==
  ASSUME IInv, NEW r \in Procs, Act(r), NEW p \in Procs, NEW q \in Procs,
         Stored(p)', storedAs'[p] <= knows'[q]
  PROVE  /\ storedAs[p] > 0 /\ storedAs'[p] = storedAs[p]
         /\ held'[p] = held[p] /\ Stored(p)
<1>1. storedAs[p] > 0
  <2>1. CASE Write(r)
    <3>1. knows'[q] <= stores
      BY <2>1 DEF Write, IInv, NumbersInv
    <3>2. storedAs'[r] = stores + 1
      BY <2>1 DEF Write, IInv, CliTypeOK
    <3>3. p # r
      BY <2>1, <3>1, <3>2 DEF Write, IInv, CliTypeOK
    <3> QED
      BY <3>3, OthersStay DEF Stored
  <2>2. CASE ~ Write(r)
    <3>1. storedAs' = storedAs
      BY <2>2 DEF Act, CliCreate, Download, Open, Run, Truncate, Stop
    <3> QED
      BY <3>1 DEF Stored
  <2> QED
    BY <2>1, <2>2
<1> QED
  BY <1>1, StoredStays DEF Stored

LEMMA CarriesStep ==
  ASSUME IInv, NEW r \in Procs, Act(r)
  PROVE  CarriesInv'
<1> SUFFICES ASSUME NEW p \in Procs, NEW q \in Procs,
                    step'[q] \in {"opened", "store", "write", "done"},
                    cmd'[q] \in Opening,
                    Stored(p)', storedAs'[p] <= knows'[q]
             PROVE  Extends(held'[q], held'[p]) \/ UndoneBy(p, knows[q])'
  BY DEF CarriesInv
<1>1. /\ storedAs[p] > 0 /\ storedAs'[p] = storedAs[p]
      /\ held'[p] = held[p] /\ Stored(p)
  BY KnownIsOld
<1>2. knows[q] \in Nat /\ stores \in Nat
  BY DEF IInv, CliTypeOK
<1>3. ASSUME step[q] \in {"opened", "store", "write", "done"},
             cmd[q] \in Opening, knows'[q] = knows[q]
      PROVE  Extends(held[q], held[p]) \/ UndoneBy(p, knows[q])'
  <2>1. Extends(held[q], held[p]) \/ UndoneBy(p, knows[q])
    BY <1>1, <1>3 DEF IInv, CarriesInv
  <2>2. UndoneBy(p, knows[q]) => UndoneBy(p, knows[q])'
    BY <1>1, <1>2, <1>3, UndoneStays DEF UndoneBy
  <2> QED
    BY <2>1, <2>2, <1>3
<1>4. CASE q # r
  BY <1>1, <1>3, <1>4, OthersStay
<1>5. CASE q = r /\ (CliCreate(r) \/ Download(r))
  <2>1. cmd'[q] \in {"create", "vault-download"}
    BY <1>5 DEF CliCreate, Download, IInv, CliTypeOK
  <2> QED
    BY <2>1 DEF Opening
<1>6. CASE q = r /\ Open(r)
  <2>1. held'[q] = file /\ knows'[q] = stores /\ file \in VaultFiles
    BY <1>6 DEF Open, Goes, IInv, CliTypeOK
  <2>2. Extends(file, held[p]) \/ UndoneBy(p, stores)
    BY <1>1, <2>1 DEF IInv, AccountsSurvive
  <2>3. UndoneBy(p, stores) => UndoneBy(p, knows[q])'
    BY <1>1, <1>2, <2>1, UndoneStays DEF UndoneBy
  <2> QED
    BY <1>1, <2>1, <2>2, <2>3
<1>7. CASE q = r /\ Run(r)
  <2>1. step[q] = "opened" /\ cmd[q] = cmd'[q] /\ knows'[q] = knows[q]
    BY <1>7 DEF Run
  <2>2. held[q] \in VaultFiles /\ held[p] \in VaultFiles
    BY <1>1, <2>1 DEF IInv, HeldInv, Stored
  <2>3. held'[q] \in VaultFiles /\ Extends(held'[q], held[q])
    BY <1>7, <2>2, LongerVault, ExtendsIsAnOrder DEF Run, IInv, CliTypeOK
  <2>4. Extends(held[q], held[p]) \/ UndoneBy(p, knows[q])'
    BY <1>3, <2>1
  <2> QED
    BY <1>1, <2>2, <2>3, <2>4, ExtendsIsAnOrder
<1>8. CASE q = r /\ (Truncate(r) \/ Write(r))
  BY <1>1, <1>3, <1>8 DEF Truncate, Write
<1>9. CASE q = r /\ Stop(r)
  BY <1>9 DEF Stop, Goes, IInv, CliTypeOK
<1> QED
  BY <1>4, <1>5, <1>6, <1>7, <1>8, <1>9 DEF Act

LEMMA FreshStep ==
  ASSUME IInv, NEW r \in Procs, Act(r)
  PROVE  FreshInv'
<1> SUFFICES ASSUME NEW p \in Procs, NEW q \in Procs,
                    step'[q] \in {"store", "write", "done"},
                    cmd'[q] = "new-account",
                    Stored(p)', storedAs'[p] <= knows'[q],
                    held'[p].wallet = held'[q].wallet
             PROVE  \/ Len(held'[p].named) < Len(held'[q].named)
                    \/ UndoneBy(p, knows[q])'
  BY DEF FreshInv
<1>1. /\ storedAs[p] > 0 /\ storedAs'[p] = storedAs[p]
      /\ held'[p] = held[p] /\ Stored(p)
  BY KnownIsOld
<1>2. knows[q] \in Nat
  BY DEF IInv, CliTypeOK
<1>3. ASSUME knows'[q] = knows[q], UndoneBy(p, knows[q])
      PROVE  UndoneBy(p, knows[q])'
  BY <1>1, <1>2, <1>3, UndoneStays DEF UndoneBy
<1>4. ASSUME step[q] \in {"store", "write", "done"}, cmd[q] = cmd'[q],
             knows'[q] = knows[q], held'[q] = held[q]
      PROVE  \/ Len(held'[p].named) < Len(held'[q].named)
             \/ UndoneBy(p, knows[q])'
  <2>1. Len(held[p].named) < Len(held[q].named) \/ UndoneBy(p, knows[q])
    BY <1>1, <1>4 DEF IInv, FreshInv
  <2> QED
    BY <1>1, <1>3, <1>4, <2>1
<1>5. CASE q # r
  BY <1>4, <1>5, OthersStay
<1>6. CASE q = r /\ (CliCreate(r) \/ Download(r) \/ Open(r) \/ Stop(r))
  <2>1. \/ cmd'[q] \in {"create", "vault-download"}
        \/ step'[q] \in {"opened", "failed", "cut"}
    BY <1>6 DEF CliCreate, Download, Open, Stop, Goes, IInv, CliTypeOK
  <2> QED
    BY <2>1
<1>7. CASE q = r /\ Run(r)
  <2>1. step[q] = "opened" /\ cmd[q] = "new-account" /\ knows'[q] = knows[q]
    BY <1>7 DEF Run
  <2>2. held[q] \in VaultFiles /\ held[p] \in VaultFiles
    BY <1>1, <2>1 DEF IInv, HeldInv, Stored, Opening
  <2>3. Len(held'[q].named) = Len(held[q].named) + 1
    BY <1>7, <2>1, <2>2, LongerVault DEF Run, IInv, CliTypeOK
  <2>4. Extends(held[q], held[p]) \/ UndoneBy(p, knows[q])
    BY <1>1, <2>1 DEF IInv, CarriesInv, Opening
  <2>5. Extends(held[q], held[p]) => Len(held[p].named) < Len(held'[q].named)
    BY <2>2, <2>3 DEF Extends, VaultFiles
  <2> QED
    BY <1>1, <1>3, <2>1, <2>4, <2>5
<1>8. CASE q = r /\ (Truncate(r) \/ Write(r))
  BY <1>4, <1>8 DEF Truncate, Write
<1> QED
  BY <1>5, <1>6, <1>7, <1>8 DEF Act

LEMMA WritersStep ==
  ASSUME IInv, NEW r \in Procs, Act(r)
  PROVE  WritersInv'
<1> USE DEF IInv, CliTypeOK, WritersInv, Goes
<1>1. CASE Write(r)
  <2>1. storedAs'[r] = stores' /\ stores' = stores + 1
    BY <1>1 DEF Write
  <2>2. \A p \in Procs : began'[p] < stores'
    BY <1>1, <2>1 DEF Write, NumbersInv
  <2> QED
    BY <2>1, <2>2
<1>2. CASE Truncate(r)
  BY <1>2 DEF Truncate
<1>3. CASE Stop(r)
  <2>1. /\ storedAs' = storedAs /\ stores' = stores /\ began' = began
        /\ \A p \in Procs : step'[p] = "write" => p # r /\ step[p] = "write"
        /\ \A p \in Procs : step[p] = "cut" => step'[p] = "cut"
        /\ step'[r] = "cut" \/ file' = file
    BY <1>3 DEF Stop
  <2> QED
    BY <1>3, <2>1
<1>4. CASE CliCreate(r) \/ Download(r) \/ Open(r) \/ Run(r)
  <2>1. /\ storedAs' = storedAs /\ stores' = stores /\ began' = began
        /\ \A p \in Procs : step'[p] = "write" => step[p] = "write"
        /\ \A p \in Procs : step[p] = "cut" => step'[p] = "cut"
        /\ file' = file
    BY <1>4 DEF CliCreate, Download, Open, Run
  <2> QED
    BY <1>4, <2>1
<1> QED
  BY <1>1, <1>2, <1>3, <1>4 DEF Act

LEMMA SurviveStep ==
  ASSUME IInv, NEW r \in Procs, Act(r)
  PROVE  AccountsSurvive'
<1> SUFFICES ASSUME file' \in VaultFiles, NEW p \in Procs, Stored(p)'
             PROVE  Extends(file', held'[p]) \/ UndoneBy(p, stores)'
  BY DEF AccountsSurvive, VaultFiles
<1> USE DEF IInv, CliTypeOK
<1>1. stores \in Nat /\ stores' \in Nat /\ stores <= stores'
  BY DEF Act, CliCreate, Download, Open, Run, Truncate, Write, Stop
<1>2. ASSUME storedAs[p] > 0, NEW n \in Nat, n <= stores, UndoneBy(p, n)
      PROVE  UndoneBy(p, stores)'
  <2>1. n <= stores'
    BY <1>1, <1>2
  <2> QED
    BY <1>1, <1>2, <2>1, UndoneStays DEF UndoneBy
<1>3. CASE Write(r) /\ p = r
  BY <1>3, FilesAssumption, ExtendsIsAnOrder DEF Write, Stored
<1>4. CASE Write(r) /\ p # r
  <2>1. /\ storedAs[p] > 0 /\ storedAs'[p] = storedAs[p]
        /\ held'[p] = held[p] /\ Stored(p)
    BY <1>4, OthersStay DEF Stored
  <2>2. /\ file' = held[r] /\ step[r] = "write" /\ storedAs'[r] = stores + 1
        /\ stores' = stores + 1 /\ cmd' = cmd /\ knows' = knows
    BY <1>4, FilesAssumption DEF Write
  <2>3. storedAs[p] <= stores /\ knows[r] <= stores
    BY DEF NumbersInv
  <2>4. CASE cmd[r] \in Replacing \/ knows[r] < storedAs[p]
    BY <1>1, <2>1, <2>2, <2>3, <2>4 DEF UndoneBy
  <2>5. CASE cmd[r] \in Opening /\ storedAs[p] <= knows[r]
    <3>1. Extends(held[r], held[p]) \/ UndoneBy(p, knows[r])
      BY <2>1, <2>2, <2>5 DEF CarriesInv
    <3> QED
      BY <1>2, <2>1, <2>2, <2>3, <3>1
  <2>6. cmd[r] # "none"
    BY <2>2 DEF HeldInv
  <2> QED
    BY <2>4, <2>5, <2>6
<1>5. CASE ~ Write(r)
  <2>1. storedAs' = storedAs /\ stores' = stores
    BY <1>5 DEF Act, CliCreate, Download, Open, Run, Truncate, Stop
  <2>2. file' = file
    BY <1>5, FilesAssumption
       DEF Act, CliCreate, Download, Open, Run, Truncate, Stop
  <2>3. storedAs[p] > 0 /\ held'[p] = held[p] /\ Stored(p)
    BY <2>1, StoredStays DEF Stored
  <2>4. Extends(file, held[p]) \/ UndoneBy(p, stores)
    BY <2>2, <2>3 DEF AccountsSurvive
  <2> QED
    BY <1>1, <1>2, <2>2, <2>3, <2>4
<1> QED
  BY <1>3, <1>4, <1>5

LEMMA UnreadableStep ==
  ASSUME IInv, NEW r \in Procs, Act(r)
  PROVE  UnreadableHasReason'
<1> USE DEF IInv, CliTypeOK, Goes
<1>1. file' = Empty => \E p \in Procs : step'[p] \in {"write", "cut"}
  <2>1. CASE Truncate(r) \/ (Stop(r) /\ step[r] = "write")
    BY <2>1 DEF Truncate, Stop
  <2>2. CASE Write(r)
    <3>1. held[r] # Absent
      BY <2>2 DEF Write, HeldInv
    <3>2. file' \in VaultFiles \cup {Garbled}
      BY <2>2, <3>1 DEF Write
    <3> QED
      BY <3>2, FilesAssumption
  <2>3. CASE CliCreate(r) \/ Download(r) \/ Open(r) \/ Run(r)
             \/ (Stop(r) /\ step[r] # "write")
    <3>1. file' = file /\ step[r] \notin {"write", "cut"}
      BY <2>3 DEF CliCreate, Download, Open, Run, Stop
    <3> QED
      BY <3>1, OthersStay DEF UnreadableHasReason
  <2> QED
    BY <2>1, <2>2, <2>3 DEF Act
<1>2. ASSUME file' = Garbled
      PROVE  \/ \E p \in Procs : step'[p] = "cut"
             \/ \E p \in Procs : storedAs'[p] > 0 /\ held'[p] = Garbled
             \/ \E p, q \in Procs : /\ began'[p] < storedAs'[q]
                                    /\ storedAs'[q] < storedAs'[p]
  <2>1. CASE file = Garbled
    <3>1. CASE \E p \in Procs : step[p] = "cut"
      <4>1. PICK p \in Procs : step[p] = "cut"
        BY <3>1
      <4>2. p # r
        BY <4>1 DEF Act, CliCreate, Download, Open, Run, Truncate, Write, Stop
      <4> QED
        BY <4>1, <4>2, OthersStay
    <3>2. CASE \E p \in Procs : storedAs[p] > 0 /\ held[p] = Garbled
      BY <3>2, StoredStays
    <3>3. CASE \E p, q \in Procs : /\ began[p] < storedAs[q]
                                    /\ storedAs[q] < storedAs[p]
      <4>1. PICK p \in Procs, q \in Procs :
              began[p] < storedAs[q] /\ storedAs[q] < storedAs[p]
        BY <3>3
      <4>2. storedAs[q] > 0 /\ storedAs[p] > 0
        BY <4>1
      <4> QED
        BY <4>1, <4>2, StoredStays
    <3> QED
      BY <2>1, <3>1, <3>2, <3>3 DEF UnreadableHasReason
  <2>2. CASE file # Garbled /\ Write(r)
    <3>1. /\ step[r] = "write" /\ storedAs'[r] = stores + 1 /\ began' = began
          /\ held' = held
      BY <2>2 DEF Write
    <3>2. CASE held[r] = Garbled
      BY <3>1, <3>2
    <3>3. CASE held[r] # Garbled
      <4>1. file # Empty
        BY <1>2, <2>2, <3>3 DEF Write
      <4>2. began[r] < stores \/ \E q \in Procs : step[q] = "cut"
        BY <3>1, <4>1 DEF WritersInv
      <4>3. CASE \E q \in Procs : step[q] = "cut"
        BY <3>1, <4>3, OthersStay
      <4>4. CASE began[r] < stores
        <5>1. PICK q \in Procs : storedAs[q] = stores
          BY <4>4 DEF WritersInv
        <5>2. storedAs[q] > 0
          BY <4>4, <5>1
        <5>3. storedAs'[q] = stores
          BY <5>1, <5>2, StoredStays
        <5> QED
          BY <3>1, <4>4, <5>3
      <4> QED
        BY <4>2, <4>3, <4>4
    <3> QED
      BY <3>2, <3>3
  <2>3. CASE file # Garbled /\ ~ Write(r)
    <3>1. Stop(r) /\ step'[r] = "cut"
      BY <1>2, <2>3, FilesAssumption
         DEF Act, CliCreate, Download, Open, Run, Truncate, Stop
    <3> QED
      BY <3>1
  <2> QED
    BY <2>1, <2>2, <2>3
<1> QED
  BY <1>1, <1>2 DEF UnreadableHasReason

-----------------------------------------------------------------------------
LEMMA Initially == CliInit => IInv
<1> SUFFICES ASSUME CliInit
             PROVE  IInv
  OBVIOUS
<1>1. /\ stores = 0 /\ uploads = {}
      /\ \A p \in Procs : /\ step[p] = "idle" /\ cmd[p] = "none"
                          /\ held[p] = Absent /\ knows[p] = 0
                          /\ began[p] = 0 /\ storedAs[p] = 0
      /\ file \in VaultFiles \cup {Absent}
  BY NewVault DEF CliInit
<1>2. CliTypeOK
  BY <1>1 DEF CliInit, CliTypeOK, CliSteps
<1>3. NumbersInv /\ HeldInv /\ CarriesInv /\ FreshInv /\ WritersInv
  BY <1>1 DEF NumbersInv, HeldInv, CarriesInv, FreshInv, WritersInv, Stored
<1>4. AccountsSurvive /\ UnreadableHasReason
  BY <1>1, FilesAssumption DEF AccountsSurvive, UnreadableHasReason, Stored
<1> QED
  BY <1>2, <1>3, <1>4 DEF IInv

LEMMA Unchanged == IInv /\ UNCHANGED cliVars => IInv'
<1> SUFFICES ASSUME IInv, UNCHANGED cliVars
             PROVE  IInv'
  OBVIOUS
<1> USE DEF cliVars
<1>1. CliTypeOK' /\ NumbersInv' /\ HeldInv' /\ WritersInv'
  BY DEF IInv, CliTypeOK, NumbersInv, HeldInv, WritersInv
<1>2. CarriesInv' /\ FreshInv' /\ AccountsSurvive'
  BY DEF IInv, CarriesInv, FreshInv, AccountsSurvive, Stored, UndoneBy
<1>3. UnreadableHasReason'
  BY DEF IInv, UnreadableHasReason
<1> QED
  BY <1>1, <1>2, <1>3 DEF IInv

LEMMA InvariantHolds == CliSpec => []IInv
<1>1. IInv /\ [CliNext]_cliVars => IInv'
  <2> SUFFICES ASSUME IInv, [CliNext]_cliVars
               PROVE  IInv'
    OBVIOUS
  <2>1. CASE CliNext
    <3>1. PICK r \in Procs : Act(r)
      BY <2>1 DEF CliNext, Act
    <3> QED
      BY <3>1, TypeStep, NumbersStep, HeldStep, CarriesStep, FreshStep,
         WritersStep, SurviveStep, UnreadableStep DEF IInv
  <2>2. CASE UNCHANGED cliVars
    BY <2>2, Unchanged
  <2> QED
    BY <2>1, <2>2
<1> QED
  BY Initially, <1>1, PTL DEF CliSpec

-----------------------------------------------------------------------------
(* Every state of the command line wallet has the declared shape.          *)
THEOREM CliTypeCorrect == CliSpec => []CliTypeOK
<1>1. IInv => CliTypeOK
  BY DEF IInv
<1> QED
  BY InvariantHolds, <1>1, PTL

(* However many commands run at once, in whatever order they load and      *)
(* store, a stored account is lost only to a replacement or to a command   *)
(* that had loaded the file before.                                        *)
THEOREM StoredAccountsSurvive == CliSpec => []AccountsSurvive
<1>1. IInv => AccountsSurvive
  BY DEF IInv
<1> QED
  BY InvariantHolds, <1>1, PTL

(* Two commands hand out the same account only if the second did not see   *)
(* the store of the first, or saw it undone.                               *)
THEOREM AccountsAreHandedOut == CliSpec => []AccountsAreHandedOutOnce
<1>1. IInv => AccountsAreHandedOutOnce
  <2> SUFFICES ASSUME IInv, NEW p \in Procs, NEW q \in Procs,
                      cmd[p] = "new-account", storedAs[p] > 0,
                      cmd[q] = "new-account", storedAs[q] > storedAs[p],
                      held[p].wallet = held[q].wallet,
                      Len(held[p].named) = Len(held[q].named),
                      ~ (knows[q] < storedAs[p])
               PROVE  UndoneBy(p, knows[q])
    BY DEF AccountsAreHandedOutOnce
  <2>1. /\ storedAs[p] \in Nat /\ storedAs[q] \in Nat /\ knows[q] \in Nat
        /\ step[p] = "done" /\ step[q] = "done"
    BY DEF IInv, CliTypeOK, NumbersInv
  <2>2. held[p] \in VaultFiles /\ held[q] \in VaultFiles
    BY <2>1 DEF IInv, HeldInv, Opening
  <2>3. Stored(p) /\ storedAs[p] <= knows[q]
    BY <2>1, <2>2 DEF Stored
  <2>4. Len(held[p].named) < Len(held[q].named) \/ UndoneBy(p, knows[q])
    BY <2>1, <2>3 DEF IInv, FreshInv
  <2>5. Len(held[p].named) \in Nat
    BY <2>2 DEF VaultFiles
  <2> QED
    BY <2>4, <2>5
<1> QED
  BY InvariantHolds, <1>1, PTL

(* The file is left unreadable only for one of the named reasons.          *)
THEOREM UnreadableFilesHaveReasons == CliSpec => []UnreadableHasReason
<1>1. IInv => UnreadableHasReason
  BY DEF IInv
<1> QED
  BY InvariantHolds, <1>1, PTL

-----------------------------------------------------------------------------
(* The browser wallet's records *)

(* Watches have accounts, imports have blobs; writes of the list are       *)
(* numbered.                                                               *)
CallsInv ==
  \A c \in PwaCalls :
    /\ at[c] \in Importing => arg[c] \in Blobs
    /\ at[c] \in Watching => arg[c] \in Ids
    /\ sure[c] <= listed /\ read[c] <= listed
    /\ sure[c] > 0 => at[c] \notin Watching \cup {"idle", "accounts"}

Watched(c) == at[c] = "resolved" /\ arg[c] \in Ids

(* Among the first n writes of the list, one dropped what c watched. *)
DroppedBy(c, n) ==
  \E d \in PwaCalls : /\ sure[c] < sure[d] /\ sure[d] <= n
                      /\ arg[d] \in Blobs \/ read[d] < sure[c]

(* What a watch read is what was watched by then. *)
ListsInv ==
  \A c \in PwaCalls :
    at[c] = "write" =>
      /\ read[c] = listed => list[c] = accounts
      /\ \A w \in PwaCalls :
           Watched(w) /\ sure[w] <= read[c] =>
             arg[w] \in list[c] \/ DroppedBy(w, read[c])

WatchInv == PwaTypeOK /\ CallsInv /\ ListsInv /\ WatchedStaysListed

(* Calls that are alone. *)
AloneInv ==
  \A c, d \in PwaCalls :
    /\ c # d /\ at[c] \in Importing /\ alone[c] => ~ UnderWay(d)
    /\ at[c] \in Watching /\ alone[c] => at[d] \notin Importing

(* An import that is alone has the records to itself ... *)
ImportsInv ==
  \A c \in PwaCalls :
    /\ at[c] \in {"viewkeys", "blob"} /\ alone[c] => accounts = AccountsOf[arg[c]]
    /\ at[c] = "blob" /\ alone[c] => viewkeys = arg[c]

(* ... and a watch that is alone reads what was imported. *)
TogetherInv ==
  blob # NoRecord /\ ~mixed =>
    /\ \A c \in PwaCalls :
         at[c] = "write" /\ alone[c] => AccountsOf[blob] \subseteq list[c]
    /\ (\A c \in PwaCalls : at[c] \notin {"viewkeys", "blob"})
         => viewkeys = blob /\ AccountsOf[blob] \subseteq accounts

RecordsInv == PwaTypeOK /\ CallsInv /\ AloneInv /\ ImportsInv /\ TogetherInv

PwaAct(r) ==
  \/ WatchAccount(r) \/ WatchRead(r) \/ WatchWrite(r)
  \/ PwaImportBlob(r) \/ ImportAccounts(r) \/ ImportKeys(r) \/ ImportRaw(r)
  \/ Abort(r)

LEMMA PwaTypeStep ==
  ASSUME PwaTypeOK, CallsInv, NEW r \in PwaCalls, PwaAct(r)
  PROVE  PwaTypeOK'
<1> USE PwaAssumption DEF PwaTypeOK, Importing, Watching, Ends
<1>1. CASE WatchAccount(r)
  <2>1. /\ at' \in [PwaCalls -> Importing \cup Watching \cup Ends]
        /\ arg' \in [PwaCalls -> Ids \cup Blobs \cup {NoRecord}]
    BY <1>1 DEF WatchAccount, Begins
  <2>2. alone' \in [PwaCalls -> BOOLEAN]
    BY <1>1, Zenon DEF WatchAccount, Begins
  <2> QED
    BY <1>1, <2>1, <2>2 DEF WatchAccount, Begins
<1>2. CASE PwaImportBlob(r)
  <2>1. /\ at' \in [PwaCalls -> Importing \cup Watching \cup Ends]
        /\ arg' \in [PwaCalls -> Ids \cup Blobs \cup {NoRecord}]
    BY <1>2 DEF PwaImportBlob, Begins
  <2>2. alone' \in [PwaCalls -> BOOLEAN]
    BY <1>2, Zenon DEF PwaImportBlob, Begins
  <2> QED
    BY <1>2, <2>1, <2>2 DEF PwaImportBlob, Begins
<1>3. CASE WatchRead(r)
  BY <1>3 DEF WatchRead
<1>4. CASE WatchWrite(r)
  <2>1. mixed' \in BOOLEAN
    BY <1>4 DEF WatchWrite, Lists
  <2>2. /\ accounts' \subseteq Ids /\ listed' \in Nat
        /\ sure' \in [PwaCalls -> Nat]
        /\ at' \in [PwaCalls -> Importing \cup Watching \cup Ends]
    BY <1>4 DEF WatchWrite, Lists, CallsInv
  <2> QED
    BY <1>4, <2>1, <2>2 DEF WatchWrite
<1>5. CASE ImportAccounts(r)
  <2>1. mixed' \in BOOLEAN
    BY <1>5 DEF ImportAccounts, Lists
  <2>2. /\ accounts' \subseteq Ids /\ listed' \in Nat
        /\ sure' \in [PwaCalls -> Nat]
        /\ at' \in [PwaCalls -> Importing \cup Watching \cup Ends]
    BY <1>5 DEF ImportAccounts, Lists, CallsInv
  <2> QED
    BY <1>5, <2>1, <2>2 DEF ImportAccounts
<1>6. CASE ImportKeys(r)
  BY <1>6 DEF ImportKeys, CallsInv
<1>7. CASE ImportRaw(r)
  BY <1>7 DEF ImportRaw, CallsInv
<1>8. CASE Abort(r)
  BY <1>8 DEF Abort
<1> QED
  BY <1>1, <1>2, <1>3, <1>4, <1>5, <1>6, <1>7, <1>8 DEF PwaAct

LEMMA CallsStep ==
  ASSUME PwaTypeOK, CallsInv, NEW r \in PwaCalls, PwaAct(r)
  PROVE  CallsInv'
<1> USE DEF PwaTypeOK, CallsInv, Importing, Watching, Ends
<1>1. CASE WatchAccount(r)
  BY <1>1 DEF WatchAccount, Begins
<1>2. CASE PwaImportBlob(r)
  BY <1>2 DEF PwaImportBlob, Begins
<1>3. CASE WatchRead(r)
  BY <1>3 DEF WatchRead
<1>4. CASE WatchWrite(r)
  BY <1>4 DEF WatchWrite, Lists
<1>5. CASE ImportAccounts(r)
  BY <1>5 DEF ImportAccounts, Lists
<1>6. CASE ImportKeys(r)
  BY <1>6 DEF ImportKeys
<1>7. CASE ImportRaw(r)
  BY <1>7 DEF ImportRaw
<1>8. CASE Abort(r)
  BY <1>8 DEF Abort, UnderWay
<1> QED
  BY <1>1, <1>2, <1>3, <1>4, <1>5, <1>6, <1>7, <1>8 DEF PwaAct

(* A step of one call leaves the others alone, but for what they know of   *)
(* each other.                                                             *)
LEMMA OtherCallsStay ==
  ASSUME PwaTypeOK, NEW r \in PwaCalls, PwaAct(r), NEW c \in PwaCalls, c # r
  PROVE  /\ at'[c] = at[c] /\ arg'[c] = arg[c] /\ list'[c] = list[c]
         /\ read'[c] = read[c] /\ sure'[c] = sure[c]
  BY DEF PwaTypeOK, PwaAct, WatchAccount, PwaImportBlob, Begins, WatchRead,
         WatchWrite, ImportAccounts, ImportKeys, ImportRaw, Abort, Lists

(* A call that wrote the list stays what it was. *)
LEMMA WritersStay ==
  ASSUME PwaTypeOK, CallsInv, NEW r \in PwaCalls, PwaAct(r),
         NEW d \in PwaCalls, sure[d] > 0
  PROVE  sure'[d] = sure[d] /\ arg'[d] = arg[d] /\ read'[d] = read[d]
<1>1. at[d] \notin {"idle", "read", "write", "accounts"}
  BY DEF CallsInv, Watching
<1>2. CASE d # r
  BY <1>2, OtherCallsStay
<1>3. CASE d = r
  <2>1. ImportKeys(d) \/ ImportRaw(d) \/ Abort(d)
    BY <1>1, <1>3 DEF PwaAct, WatchAccount, PwaImportBlob, Begins, WatchRead,
       WatchWrite, ImportAccounts
  <2> QED
    BY <2>1 DEF ImportKeys, ImportRaw, Abort
<1> QED
  BY <1>2, <1>3

LEMMA DroppedStays ==
  ASSUME PwaTypeOK, CallsInv, NEW r \in PwaCalls, PwaAct(r),
         NEW c \in PwaCalls, sure'[c] = sure[c],
         NEW n \in Nat, NEW m \in Nat, n <= m, DroppedBy(c, n)
  PROVE  DroppedBy(c, m)'
<1>1. PICK d \in PwaCalls : /\ sure[c] < sure[d] /\ sure[d] <= n
                            /\ arg[d] \in Blobs \/ read[d] < sure[c]
  BY DEF DroppedBy
<1>2. sure[d] > 0 /\ sure[d] \in Nat /\ sure[c] \in Nat
  BY <1>1 DEF PwaTypeOK
<1>3. sure'[d] = sure[d] /\ arg'[d] = arg[d] /\ read'[d] = read[d]
  BY <1>2, WritersStay
<1> QED
  BY <1>1, <1>2, <1>3 DEF DroppedBy

-----------------------------------------------------------------------------
(* The watched accounts. *)

Writing(r) == WatchWrite(r) \/ ImportAccounts(r)

LEMMA ListMoves ==
  ASSUME PwaTypeOK, CallsInv, NEW r \in PwaCalls, PwaAct(r)
  PROVE  /\ Writing(r) => listed' = listed + 1 /\ sure'[r] = listed + 1
         /\ ~ Writing(r) => listed' = listed /\ accounts' = accounts
<1>1. CASE WatchWrite(r)
  BY <1>1 DEF WatchWrite, Lists, PwaTypeOK, Writing
<1>2. CASE ImportAccounts(r)
  BY <1>2 DEF ImportAccounts, Lists, PwaTypeOK, Writing
<1>3. CASE ~ Writing(r)
  BY <1>3 DEF Writing, PwaAct, WatchAccount, PwaImportBlob, Begins, WatchRead,
     ImportKeys, ImportRaw, Abort
<1> QED
  BY <1>1, <1>2, <1>3 DEF Writing

(* A watch that ends in this step found its account, or wrote it. *)
LEMMA WatchEnds ==
  ASSUME PwaTypeOK, CallsInv, NEW r \in PwaCalls, PwaAct(r), Watched(r)'
  PROVE  \/ WatchRead(r) /\ sure'[r] = listed /\ arg'[r] \in accounts
         \/ WatchWrite(r) /\ arg'[r] \in accounts'
<1> USE PwaAssumption DEF Watched, PwaTypeOK
<1>1. at'[r] = "resolved" /\ arg'[r] \notin Blobs
  OBVIOUS
<1>2. ~ (WatchAccount(r) \/ PwaImportBlob(r) \/ Abort(r))
  BY <1>1 DEF WatchAccount, PwaImportBlob, Begins, Abort
<1>3. ~ (ImportAccounts(r) \/ ImportKeys(r))
  BY <1>1 DEF ImportAccounts, ImportKeys
<1>4. ~ ImportRaw(r)
  BY <1>1 DEF ImportRaw, CallsInv, Importing
<1>5. CASE WatchRead(r)
  BY <1>1, <1>5 DEF WatchRead
<1>6. CASE WatchWrite(r)
  BY <1>6 DEF WatchWrite, Lists
<1> QED
  BY <1>2, <1>3, <1>4, <1>5, <1>6 DEF PwaAct

LEMMA ListsStep ==
  ASSUME WatchInv, NEW r \in PwaCalls, PwaAct(r)
  PROVE  ListsInv'
<1> USE DEF WatchInv
<1> SUFFICES ASSUME NEW c \in PwaCalls, at'[c] = "write"
             PROVE  /\ read'[c] = listed' => list'[c] = accounts'
                    /\ \A w \in PwaCalls :
                         Watched(w)' /\ sure'[w] <= read'[c] =>
                           arg'[w] \in list'[c] \/ DroppedBy(w, read[c])'
  BY DEF ListsInv
<1>1. /\ listed \in Nat /\ \A d \in PwaCalls : read[d] \in Nat /\ sure[d] \in Nat
      /\ \A d \in PwaCalls : read[d] <= listed /\ sure[d] <= listed
  BY DEF PwaTypeOK, CallsInv
<1>2. CASE c = r
  <2>1. /\ WatchRead(r) /\ list'[r] = accounts /\ read'[r] = listed
        /\ listed' = listed /\ accounts' = accounts
    BY <1>2 DEF PwaAct, WatchAccount, PwaImportBlob, Begins, WatchRead,
       WatchWrite, ImportAccounts, ImportKeys, ImportRaw, Abort, PwaTypeOK
  <2>2. ASSUME NEW w \in PwaCalls, Watched(w)'
        PROVE  arg'[w] \in list'[c] \/ DroppedBy(w, read[c])'
    <3>1. w # r
      BY <1>2, <2>2 DEF Watched
    <3>2. Watched(w) /\ arg'[w] = arg[w] /\ sure'[w] = sure[w]
      BY <2>2, <3>1, OtherCallsStay DEF Watched
    <3>3. arg[w] \in accounts \/ DroppedBy(w, listed)
      BY <1>1, <3>2 DEF WatchedStaysListed, Watched, DroppedBy
    <3>4. DroppedBy(w, listed) => DroppedBy(w, read[c])'
      BY <1>1, <1>2, <2>1, <3>2, DroppedStays DEF DroppedBy
    <3> QED
      BY <1>2, <2>1, <3>2, <3>3, <3>4
  <2> QED
    BY <1>2, <2>1, <2>2
<1>3. CASE c # r
  <2>1. /\ at[c] = "write" /\ read'[c] = read[c] /\ list'[c] = list[c]
    BY <1>3, OtherCallsStay
  <2>2. read'[c] = listed' => list'[c] = accounts'
    <3>1. CASE Writing(r)
      <4>1. listed' = listed + 1 /\ read[c] <= listed
        BY <1>1, <3>1, ListMoves
      <4> QED
        BY <1>1, <2>1, <4>1
    <3>2. CASE ~ Writing(r)
      BY <2>1, <3>2, ListMoves DEF ListsInv
    <3> QED
      BY <3>1, <3>2
  <2>3. ASSUME NEW w \in PwaCalls, Watched(w)', sure'[w] <= read'[c]
        PROVE  arg'[w] \in list'[c] \/ DroppedBy(w, read[c])'
    <3>1. CASE w = r
      <4>1. CASE WatchRead(r) /\ sure'[r] = listed /\ arg'[r] \in accounts
        <5>1. read[c] = listed
          BY <1>1, <2>1, <2>3, <3>1, <4>1
        <5> QED
          BY <2>1, <3>1, <4>1, <5>1 DEF ListsInv
      <4>2. CASE WatchWrite(r)
        <5>1. sure'[r] = listed + 1
          BY <4>2, ListMoves DEF Writing
        <5> QED
          BY <1>1, <2>1, <2>3, <3>1, <5>1
      <4> QED
        BY <2>3, <3>1, <4>1, <4>2, WatchEnds
    <3>2. CASE w # r
      <4>1. Watched(w) /\ arg'[w] = arg[w] /\ sure'[w] = sure[w]
        BY <2>3, <3>2, OtherCallsStay DEF Watched
      <4>2. arg[w] \in list[c] \/ DroppedBy(w, read[c])
        BY <2>1, <2>3, <4>1 DEF ListsInv
      <4>3. DroppedBy(w, read[c]) => DroppedBy(w, read[c])'
        BY <1>1, <2>1, <4>1, DroppedStays DEF DroppedBy
      <4> QED
        BY <2>1, <4>1, <4>2, <4>3
    <3> QED
      BY <3>1, <3>2
  <2> QED
    BY <2>2, <2>3
<1> QED
  BY <1>2, <1>3

LEMMA WatchStep ==
  ASSUME WatchInv, NEW r \in PwaCalls, PwaAct(r)
  PROVE  WatchedStaysListed'
<1> USE DEF WatchInv
<1> SUFFICES ASSUME NEW c \in PwaCalls, Watched(c)'
             PROVE  arg'[c] \in accounts' \/ DroppedBy(c, listed)'
  BY DEF WatchedStaysListed, Watched, DroppedBy
<1>1. /\ listed \in Nat /\ listed' \in Nat
      /\ \A d \in PwaCalls : read[d] \in Nat /\ sure[d] \in Nat
      /\ \A d \in PwaCalls : read[d] <= listed /\ sure[d] <= listed
  BY ListMoves DEF PwaTypeOK, CallsInv
<1>2. CASE c = r
  <2>1. CASE WatchRead(r) /\ arg'[r] \in accounts
    BY <1>2, <2>1 DEF WatchRead
  <2> QED
    BY <1>2, <2>1, WatchEnds
<1>3. CASE c # r
  <2>1. Watched(c) /\ arg'[c] = arg[c] /\ sure'[c] = sure[c]
    BY <1>3, OtherCallsStay DEF Watched
  <2>2. ASSUME NEW n \in Nat, n <= listed', DroppedBy(c, n)
        PROVE  DroppedBy(c, listed)'
    BY <1>1, <2>1, <2>2, DroppedStays DEF DroppedBy
  <2>3. CASE ~ Writing(r)
    <3>1. arg[c] \in accounts \/ DroppedBy(c, listed)
      BY <1>1, <2>1 DEF WatchedStaysListed, Watched, DroppedBy
    <3> QED
      BY <1>1, <2>1, <2>2, <2>3, <3>1, ListMoves
  <2>4. CASE Writing(r) /\ (ImportAccounts(r) \/ read[r] < sure[c])
    <3>1. arg'[r] \in Blobs \/ read'[r] < sure[c]
      <4>1. CASE ImportAccounts(r)
        BY <4>1 DEF ImportAccounts, CallsInv, Importing
      <4>2. CASE WatchWrite(r)
        BY <2>4, <4>2 DEF WatchWrite, ImportAccounts
      <4> QED
        BY <2>4, <4>1, <4>2 DEF Writing
    <3>2. sure[c] < sure'[r] /\ sure'[r] <= listed'
      BY <1>1, <2>4, ListMoves
    <3> QED
      BY <2>1, <3>1, <3>2 DEF DroppedBy
  <2>5. CASE WatchWrite(r) /\ sure[c] <= read[r]
    <3>1. at[r] = "write" /\ list[r] \subseteq accounts'
      BY <2>5 DEF WatchWrite, Lists
    <3>2. arg[c] \in list[r] \/ DroppedBy(c, read[r])
      BY <2>1, <2>5, <3>1 DEF ListsInv
    <3>3. read[r] <= listed'
      BY <1>1, ListMoves
    <3> QED
      BY <1>1, <2>1, <2>2, <3>1, <3>2, <3>3
  <2> QED
    BY <1>1, <2>3, <2>4, <2>5 DEF Writing
<1> QED
  BY <1>2, <1>3

-----------------------------------------------------------------------------
(* The three records. *)

(* Calls that begin are marked beside those under way, and those beside    *)
(* them; no other step marks a call.                                       *)
LEMMA AloneMoves ==
  ASSUME PwaTypeOK, NEW r \in PwaCalls, PwaAct(r)
  PROVE  /\ \A c \in PwaCalls : c # r /\ alone'[c] => alone[c]
         /\ at[r] # "idle" => alone' = alone
         /\ at'[r] = "accounts" => at[r] = "idle"
         /\ at'[r] \in Importing => at[r] = "idle" \/ at[r] \in Importing
         /\ at'[r] \in Watching => at[r] = "idle" \/ at[r] \in Watching
<1> USE DEF PwaTypeOK, Importing, Watching
<1>1. CASE WatchAccount(r)
  BY <1>1 DEF WatchAccount, Begins
<1>2. CASE PwaImportBlob(r)
  BY <1>2 DEF PwaImportBlob, Begins
<1>3. CASE ~ WatchAccount(r) /\ ~ PwaImportBlob(r)
  BY <1>3 DEF PwaAct, WatchRead, WatchWrite, ImportAccounts, ImportKeys,
     ImportRaw, Abort, UnderWay, Ends
<1> QED
  BY <1>1, <1>2, <1>3

LEMMA AloneStep ==
  ASSUME PwaTypeOK, AloneInv, NEW r \in PwaCalls, PwaAct(r)
  PROVE  AloneInv'
<1> USE DEF PwaTypeOK, Importing, Watching, Ends, UnderWay
<1>1. CASE WatchAccount(r)
  BY <1>1 DEF WatchAccount, Begins, AloneInv
<1>2. CASE PwaImportBlob(r)
  <2>1. PICK b \in Blobs, stage \in {"accounts", "rejected"} :
          Begins(r, b, stage, IF stage = "rejected" THEN {}
                              ELSE {d \in PwaCalls : UnderWay(d)})
    BY <1>2 DEF PwaImportBlob
  <2>2. CASE stage = "accounts"
    BY <2>1, <2>2 DEF Begins, AloneInv
  <2>3. CASE stage = "rejected"
    BY <2>1, <2>3 DEF Begins, AloneInv
  <2> QED
    BY <2>2, <2>3
<1>3. CASE ~ WatchAccount(r) /\ ~ PwaImportBlob(r)
  <2>1. /\ alone' = alone /\ UnderWay(r)
        /\ at'[r] \in Importing => at[r] \in Importing
        /\ at'[r] \in Watching => at[r] \in Watching
        /\ \A c \in PwaCalls : c # r => at'[c] = at[c]
    BY <1>3 DEF PwaAct, WatchRead, WatchWrite, ImportAccounts, ImportKeys,
       ImportRaw, Abort
  <2> QED
    BY <2>1 DEF AloneInv
<1> QED
  BY <1>1, <1>2, <1>3

LEMMA ImportsStep ==
  ASSUME RecordsInv, NEW r \in PwaCalls, PwaAct(r)
  PROVE  ImportsInv'
<1> SUFFICES ASSUME NEW c \in PwaCalls,
                    at'[c] \in {"viewkeys", "blob"}, alone'[c]
             PROVE  /\ accounts' = AccountsOf[arg'[c]]
                    /\ at'[c] = "blob" => viewkeys' = arg'[c]
  BY DEF ImportsInv
<1> USE DEF RecordsInv, PwaTypeOK, Importing
<1>1. CASE c = r
  <2>1. ImportAccounts(r) \/ ImportKeys(r)
    BY <1>1 DEF PwaAct, WatchAccount, PwaImportBlob, Begins, WatchRead,
       WatchWrite, ImportRaw, Abort
  <2> QED
    BY <1>1, <2>1 DEF ImportAccounts, ImportKeys, Lists, ImportsInv
<1>2. CASE c # r
  <2>1. at[c] = at'[c] /\ arg'[c] = arg[c] /\ alone[c]
    BY <1>2, OtherCallsStay, AloneMoves
  <2>2. ~ UnderWay(r)
    BY <1>2, <2>1 DEF AloneInv
  <2>3. WatchAccount(r) \/ PwaImportBlob(r)
    BY <2>2 DEF PwaAct, WatchRead, WatchWrite, ImportAccounts, ImportKeys,
       ImportRaw, Abort, UnderWay, Ends
  <2>4. accounts' = accounts /\ viewkeys' = viewkeys
    BY <2>3 DEF WatchAccount, PwaImportBlob, Begins
  <2> QED
    BY <2>1, <2>4 DEF ImportsInv
<1> QED
  BY <1>1, <1>2

LEMMA TogetherStep ==
  ASSUME RecordsInv, NEW r \in PwaCalls, PwaAct(r)
  PROVE  TogetherInv'
<1> SUFFICES ASSUME blob' # NoRecord, ~ mixed'
             PROVE  /\ \A c \in PwaCalls :
                         at'[c] = "write" /\ alone'[c] =>
                           AccountsOf[blob'] \subseteq list'[c]
                    /\ (\A c \in PwaCalls : at'[c] \notin {"viewkeys", "blob"})
                         => viewkeys' = blob' /\ AccountsOf[blob'] \subseteq accounts'
  BY DEF TogetherInv
<1> USE DEF RecordsInv, PwaTypeOK, Importing, Watching
<1>1. CASE ImportRaw(r)
  <2>1. alone[r] /\ at[r] = "blob" /\ blob' = arg[r] /\ alone' = alone
        /\ viewkeys' = viewkeys /\ accounts' = accounts
    BY <1>1 DEF ImportRaw
  <2>2. viewkeys = arg[r] /\ accounts = AccountsOf[arg[r]]
    BY <2>1 DEF ImportsInv
  <2>3. \A c \in PwaCalls : at'[c] = "write" => ~ alone'[c]
    BY <1>1, <2>1 DEF ImportRaw, AloneInv
  <2> QED
    BY <2>1, <2>2, <2>3
<1>2. CASE ~ ImportRaw(r)
  <2>1. blob' = blob /\ ~ mixed
    BY <1>2 DEF PwaAct, WatchAccount, PwaImportBlob, Begins, WatchRead,
       WatchWrite, ImportAccounts, ImportKeys, Abort, Lists
  <2>2. \A c \in PwaCalls :
          at[c] = "write" /\ alone[c] => AccountsOf[blob] \subseteq list[c]
    BY <2>1 DEF TogetherInv
  <2>3. (\A c \in PwaCalls : at[c] \notin {"viewkeys", "blob"})
          => viewkeys = blob /\ AccountsOf[blob] \subseteq accounts
    BY <2>1 DEF TogetherInv
  <2>4. \A c \in PwaCalls : at[c] = "write" /\ alone[c] =>
          \A d \in PwaCalls : at[d] \notin Importing
    BY DEF AloneInv
  <2>5. ASSUME NEW c \in PwaCalls, at'[c] = "write", alone'[c]
        PROVE  AccountsOf[blob'] \subseteq list'[c]
    <3>1. CASE c # r
      BY <2>1, <2>2, <2>5, <3>1, OtherCallsStay, AloneMoves
    <3>2. CASE c = r
      <4>1. WatchRead(r) /\ alone[r] /\ list'[r] = accounts
        BY <2>5, <3>2 DEF PwaAct, WatchAccount, PwaImportBlob, Begins, WatchRead,
           WatchWrite, ImportAccounts, ImportKeys, ImportRaw, Abort
      <4>2. \A d \in PwaCalls : at[d] \notin Importing
        BY <4>1 DEF AloneInv, WatchRead
      <4> QED
        BY <2>1, <2>3, <3>2, <4>1, <4>2
    <3> QED
      BY <3>1, <3>2
  <2>6. ASSUME \A c \in PwaCalls : at'[c] \notin {"viewkeys", "blob"}
        PROVE  viewkeys' = blob' /\ AccountsOf[blob'] \subseteq accounts'
    <3>1. ~ ImportAccounts(r) /\ ~ ImportKeys(r)
      BY <2>6 DEF ImportAccounts, ImportKeys
    <3>2. viewkeys' = viewkeys
      BY <1>2, <3>1 DEF PwaAct, WatchAccount, PwaImportBlob, Begins, WatchRead,
         WatchWrite, Abort
    <3>3. \A c \in PwaCalls : at[c] \notin {"viewkeys", "blob"}
      <4>1. at[r] \notin {"viewkeys", "blob"}
        BY <1>2, <3>1 DEF PwaAct, WatchAccount, PwaImportBlob, Begins, WatchRead,
           WatchWrite, Abort
      <4> QED
        BY <2>6, <4>1, OtherCallsStay
    <3>4. CASE WatchWrite(r)
      <4>1. alone[r] /\ at[r] = "write" /\ list[r] \subseteq accounts'
        BY <3>4 DEF WatchWrite, Lists
      <4> QED
        BY <2>1, <2>2, <2>3, <3>2, <3>3, <4>1
    <3>5. CASE ~ WatchWrite(r)
      <4>1. accounts' = accounts
        BY <1>2, <3>1, <3>5 DEF PwaAct, WatchAccount, PwaImportBlob, Begins,
           WatchRead, Abort
      <4> QED
        BY <2>1, <2>3, <3>2, <3>3, <4>1
    <3> QED
      BY <3>4, <3>5
  <2> QED
    BY <2>5, <2>6
<1> QED
  BY <1>1, <1>2

-----------------------------------------------------------------------------
PwaInv == WatchInv /\ RecordsInv

LEMMA PwaInitially == PwaInit => PwaInv
<1> SUFFICES ASSUME PwaInit
             PROVE  PwaInv
  OBVIOUS
<1> USE DEF PwaInit
<1>1. PwaTypeOK
  BY DEF PwaTypeOK, Ends
<1>2. CallsInv
  BY DEF CallsInv, Importing, Watching
<1>3. ListsInv /\ WatchedStaysListed
  BY DEF ListsInv, WatchedStaysListed
<1>4. AloneInv /\ ImportsInv /\ TogetherInv
  BY DEF AloneInv, ImportsInv, TogetherInv, Importing, Watching
<1> QED
  BY <1>1, <1>2, <1>3, <1>4 DEF PwaInv, WatchInv, RecordsInv

LEMMA PwaUnchanged == PwaInv /\ UNCHANGED pwaVars => PwaInv'
<1> SUFFICES ASSUME PwaInv, UNCHANGED pwaVars
             PROVE  PwaInv'
  OBVIOUS
<1> USE DEF PwaInv, WatchInv, RecordsInv, pwaVars
<1>1. PwaTypeOK' /\ CallsInv'
  BY DEF PwaTypeOK, CallsInv
<1>2. ListsInv' /\ WatchedStaysListed'
  BY DEF ListsInv, WatchedStaysListed, Watched, DroppedBy
<1>3. AloneInv' /\ ImportsInv' /\ TogetherInv'
  BY DEF AloneInv, ImportsInv, TogetherInv, UnderWay
<1> QED
  BY <1>1, <1>2, <1>3

LEMMA PwaInvariant == PwaSpec => []PwaInv
<1>1. PwaInv /\ [PwaNext]_pwaVars => PwaInv'
  <2> SUFFICES ASSUME PwaInv, [PwaNext]_pwaVars
               PROVE  PwaInv'
    OBVIOUS
  <2>1. CASE PwaNext
    <3>1. PICK r \in PwaCalls : PwaAct(r)
      BY <2>1 DEF PwaNext, PwaAct
    <3> QED
      BY <3>1, PwaTypeStep, CallsStep, ListsStep, WatchStep, AloneStep,
         ImportsStep, TogetherStep DEF PwaInv, WatchInv, RecordsInv
  <2>2. CASE UNCHANGED pwaVars
    BY <2>2, PwaUnchanged
  <2> QED
    BY <2>1, <2>2
<1> QED
  BY PwaInitially, <1>1, PTL DEF PwaSpec

-----------------------------------------------------------------------------
(* Every state of the browser wallet has the declared shape.               *)
THEOREM PwaTypeCorrect == PwaSpec => []PwaTypeOK
<1>1. PwaInv => PwaTypeOK
  BY DEF PwaInv, WatchInv
<1> QED
  BY PwaInvariant, <1>1, PTL

(* However many calls overlap, a confirmed watch is lost only to an import *)
(* or to a watch that had read the list before.                            *)
THEOREM WatchedAccountsStay == PwaSpec => []WatchedStaysListed
<1>1. PwaInv => WatchedStaysListed
  BY DEF PwaInv, WatchInv
<1> QED
  BY PwaInvariant, <1>1, PTL

(* Accounts, viewing keys and exported blob are of one vault, but for      *)
(* imports that were cut short or overlapped.                              *)
THEOREM RecordsAreOfOneVault == PwaSpec => []RecordsBelongTogether
<1>1. PwaInv => RecordsBelongTogether
  BY DEF PwaInv, RecordsInv, TogetherInv, RecordsBelongTogether, Importing
<1> QED
  BY PwaInvariant, <1>1, PTL

-----------------------------------------------------------------------------
(* Both *)

LEMMA StoresAreBoth == StoresSpec => CliSpec /\ PwaSpec
<1>1. StoresInit => CliInit /\ PwaInit
  BY DEF StoresInit
<1>2. [StoresNext]_storesVars => [CliNext]_cliVars /\ [PwaNext]_pwaVars
  BY DEF StoresNext, storesVars
<1> QED
  BY <1>1, <1>2, PTL DEF StoresSpec, CliSpec, PwaSpec

(* Whichever of the two is running, both keep their types.                 *)
THEOREM StoresTypeCorrect == StoresSpec => []StoresTypeOK
<1>1. CliTypeOK /\ PwaTypeOK => StoresTypeOK
  BY DEF StoresTypeOK
<1> QED
  BY StoresAreBoth, CliTypeCorrect, PwaTypeCorrect, <1>1, PTL
=============================================================================
