------------------------------ MODULE PwaVault ------------------------------
(***************************************************************************)
(* What the browser wallet keeps: three IndexedDB records, the list of     *)
(* accounts, the viewing keys and the imported blob.  watchAccount reads   *)
(* and writes the list in two transactions, importBlob replaces the three  *)
(* records in three; calls of one page or several overlap at every await,  *)
(* and any transaction may be the last one, when it fails or the page is   *)
(* closed.  Reads change nothing and signing operations always throw.      *)
(***************************************************************************)
EXTENDS Naturals, FiniteSets

CONSTANTS
  PwaCalls,   \* calls of watchAccount and importBlob
  Ids,        \* accounts
  Blobs,      \* vaults to import
  AccountsOf, \* the accounts of each
  NoRecord

ASSUME PwaAssumption ==
  /\ AccountsOf \in [Blobs -> SUBSET Ids]
  /\ NoRecord \notin Blobs \cup Ids
  /\ Blobs \cap Ids = {}

VARIABLES
  accounts, viewkeys, blob, \* the records; those of an import by its blob
  at,      \* the transaction each call is to make next, or its end
  arg,     \* the account to watch, the blob to import
  list,    \* what watchAccount read
  listed,  \* history: how often the list was written
  read,    \* history: the writes of the list when a call read it
  sure,    \* history: the writes of the list when a call left its own in it
  alone,   \* history: no import was under way beside the call, and if it is
           \* an import, no other call
  mixed    \* history: an import was cut short or not alone, since one was not

pwaVars == <<accounts, viewkeys, blob, at, arg, list, listed, read, sure,
             alone, mixed>>

Importing == {"accounts", "viewkeys", "blob"}
Watching  == {"read", "write"}
Ends      == {"idle", "resolved", "rejected"}

PwaTypeOK ==
  /\ accounts \subseteq Ids
  /\ viewkeys \in Blobs \cup {NoRecord}
  /\ blob \in Blobs \cup {NoRecord}
  /\ at \in [PwaCalls -> Importing \cup Watching \cup Ends]
  /\ arg \in [PwaCalls -> Ids \cup Blobs \cup {NoRecord}]
  /\ list \in [PwaCalls -> SUBSET Ids]
  /\ listed \in Nat
  /\ read \in [PwaCalls -> Nat]
  /\ sure \in [PwaCalls -> Nat]
  /\ alone \in [PwaCalls -> BOOLEAN]
  /\ mixed \in BOOLEAN

PwaInit ==
  /\ accounts = {} /\ viewkeys = NoRecord /\ blob = NoRecord
  /\ at = [c \in PwaCalls |-> "idle"]
  /\ arg = [c \in PwaCalls |-> NoRecord]
  /\ list = [c \in PwaCalls |-> {}]
  /\ listed = 0
  /\ read = [c \in PwaCalls |-> 0]
  /\ sure = [c \in PwaCalls |-> 0]
  /\ alone = [c \in PwaCalls |-> FALSE]
  /\ mixed = FALSE

-----------------------------------------------------------------------------
UnderWay(c) == at[c] \notin Ends

(* A call begins beside those under way; two watches do not mind. *)
Begins(c, x, stage, beside) ==
  /\ at[c] = "idle" /\ at' = [at EXCEPT ![c] = stage]
  /\ arg' = [arg EXCEPT ![c] = x]
  /\ alone' = [d \in PwaCalls |-> IF d = c THEN beside = {}
                                  ELSE d \notin beside /\ alone[d]]
  /\ UNCHANGED <<accounts, viewkeys, blob, list, listed, read, sure, mixed>>

WatchAccount(c) ==
  \E id \in Ids :
    Begins(c, id, "read", {d \in PwaCalls : at[d] \in Importing})

(* A blob that does not parse is refused before anything is written. *)
PwaImportBlob(c) ==
  \E b \in Blobs, stage \in {"accounts", "rejected"} :
    Begins(c, b, stage, IF stage = "rejected" THEN {}
                        ELSE {d \in PwaCalls : UnderWay(d)})

(* The list is read; an account in it is left there. *)
WatchRead(c) ==
  /\ at[c] = "read"
  /\ list' = [list EXCEPT ![c] = accounts]
  /\ read' = [read EXCEPT ![c] = listed]
  /\ IF arg[c] \in accounts
     THEN /\ at' = [at EXCEPT ![c] = "resolved"]
          /\ sure' = [sure EXCEPT ![c] = listed]
     ELSE /\ at' = [at EXCEPT ![c] = "write"]
          /\ UNCHANGED sure
  /\ UNCHANGED <<accounts, viewkeys, blob, arg, listed, alone, mixed>>

Lists(c, ids) ==
  /\ accounts' = ids
  /\ listed' = listed + 1
  /\ sure' = [sure EXCEPT ![c] = listed + 1]
  /\ mixed' = (mixed \/ ~alone[c])

(* Faulty variant: the new list holds the new account only. *)
WatchWrite_Only(c) ==
  /\ at[c] = "write" /\ at' = [at EXCEPT ![c] = "resolved"]
  /\ Lists(c, {arg[c]})
  /\ UNCHANGED <<viewkeys, blob, arg, list, read, alone>>

WatchWrite(c) ==
  /\ at[c] = "write" /\ at' = [at EXCEPT ![c] = "resolved"]
  /\ Lists(c, list[c] \cup {arg[c]})
  /\ UNCHANGED <<viewkeys, blob, arg, list, read, alone>>

ImportAccounts(c) ==
  /\ at[c] = "accounts" /\ at' = [at EXCEPT ![c] = "viewkeys"]
  /\ Lists(c, AccountsOf[arg[c]])
  /\ UNCHANGED <<viewkeys, blob, arg, list, read, alone>>

(* Faulty variant: viewing keys that are there are kept. *)
ImportKeys_Kept(c) ==
  /\ at[c] = "viewkeys" /\ at' = [at EXCEPT ![c] = "blob"]
  /\ viewkeys' = IF viewkeys = NoRecord THEN arg[c] ELSE viewkeys
  /\ UNCHANGED <<accounts, blob, arg, list, listed, read, sure, alone, mixed>>

ImportKeys(c) ==
  /\ at[c] = "viewkeys" /\ at' = [at EXCEPT ![c] = "blob"]
  /\ viewkeys' = arg[c]
  /\ UNCHANGED <<accounts, blob, arg, list, listed, read, sure, alone, mixed>>

ImportRaw(c) ==
  /\ at[c] = "blob" /\ at' = [at EXCEPT ![c] = "resolved"]
  /\ blob' = arg[c]
  /\ mixed' = ~alone[c]
  /\ UNCHANGED <<accounts, viewkeys, arg, list, listed, read, sure, alone>>

(* A transaction fails, or the page is closed. *)
Abort(c) ==
  /\ UnderWay(c) /\ at' = [at EXCEPT ![c] = "rejected"]
  /\ mixed' = (mixed \/ at[c] \in {"viewkeys", "blob"})
  /\ UNCHANGED <<accounts, viewkeys, blob, arg, list, listed, read, sure,
                 alone>>

PwaNext ==
  \E c \in PwaCalls :
    \/ WatchAccount(c) \/ WatchRead(c) \/ WatchWrite(c)
    \/ PwaImportBlob(c) \/ ImportAccounts(c) \/ ImportKeys(c) \/ ImportRaw(c)
    \/ Abort(c)

PwaSpec == PwaInit /\ [][PwaNext]_pwaVars

-----------------------------------------------------------------------------
(* Properties *)

(* The accounts shown, the keys they are scanned with and the blob that is *)
(* exported belong together, except while an import is under way and after *)
(* one that was cut short or overlapped, until one ends that did not.      *)
RecordsBelongTogether ==
  blob # NoRecord /\ ~mixed /\ (\A c \in PwaCalls : at[c] \notin Importing)
    => viewkeys = blob /\ AccountsOf[blob] \subseteq accounts

(* An account whose watch was confirmed stays listed, until an import      *)
(* replaces the list, or a watch writes that read the list before.         *)
WatchedStaysListed ==
  \A c \in PwaCalls :
    at[c] = "resolved" /\ arg[c] \in Ids =>
      \/ arg[c] \in accounts
      \/ \E d \in PwaCalls : /\ sure[c] < sure[d]
                             /\ arg[d] \in Blobs \/ read[d] < sure[c]
=============================================================================
