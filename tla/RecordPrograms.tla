--------------------------- MODULE RecordPrograms ---------------------------
(***************************************************************************)
(* The write-once records of the pointer program (publish) and of the      *)
(* testimonial program (submit).                                           *)
(*                                                                         *)
(* A client builds a transaction for the address it derives from the key   *)
(* it chose, and gets a hash back as soon as the sequencer has the         *)
(* transaction.  Transactions are executed in any order, possibly more     *)
(* than once when they are resent, possibly never.                         *)
(*                                                                         *)
(* A key is a string: the seed it pads to, and its length.  Two keys that  *)
(* differ in trailing NUL bytes only have one seed.                        *)
(***************************************************************************)
EXTENDS Naturals, FiniteSets

CONSTANTS
  Seeds,     \* 32-byte seeds of the keys clients choose
  KeyLens,   \* lengths of those keys
  Users,     \* accounts, which can sign
  MaxInFlight,  \* bound on the transactions the sequencer holds
  Payloads,  \* what a record carries: [value, username : length in bytes]
  NoRecord   \* Account::default()

RecordProgram == {"ptr", "testimonial"}

Keys  == [seed : Seeds, len : KeyLens]
Slots == [program : RecordProgram, seed : Seeds]

Transactions ==
  [program : RecordProgram, key : Keys, author : Users, signed : BOOLEAN,
   payload : Payloads]

Records == [author : Users, key : Keys, payload : Payloads]

OwnedRecord == [holder : Users, birth : Keys, content : Payloads]

ASSUME RecordAssumption ==
  /\ KeyLens \subseteq Nat
  /\ Payloads \subseteq [value : Nat, username : Nat]
  /\ NoRecord \notin Records \cup OwnedRecord

VARIABLES
  records,  \* the account at each ["ptr", key] and ["testimonial", key]
  mempool   \* transactions the sequencer holds

recordVars == <<records, mempool>>

RecordTypeOK ==
  /\ records \in [Slots -> Records \cup {NoRecord}]
  /\ mempool \subseteq Transactions

RecordInit ==
  /\ records = [s \in Slots |-> NoRecord]
  /\ mempool = {}

(* seedFromStr: a longer key has no address, the client throws. *)
FitsSeed(key) == key.len <= 32

(* computePublicPda, and the pda attribute of the instruction. *)
Address(t) == [program |-> t.program, seed |-> t.key.seed]

ValidPayload(t) ==
  IF t.program = "ptr"
  THEN t.payload.value \in 1..128
  ELSE t.payload.value \in 1..2048 /\ t.payload.username <= 64

ValidKey(t) ==
  t.key.len \in 1..(IF t.program = "ptr" THEN 32 ELSE 64)

(* Faulty variant: account(mut) in place of account(init). *)
Publishes_NoInit(t) ==
  /\ t.signed
  /\ ValidKey(t)
  /\ ValidPayload(t)

Publishes(t) ==
  /\ records[Address(t)] = NoRecord   \* account(init, pda)
  /\ t.signed                         \* account(signer)
  /\ ValidKey(t)
  /\ ValidPayload(t)

RecordOf(t) == [author |-> t.author, key |-> t.key, payload |-> t.payload]

Submit ==
  /\ Cardinality(mempool) < MaxInFlight
  /\ \E t \in Transactions :
       /\ FitsSeed(t.key)
       /\ mempool' = mempool \cup {t}
  /\ UNCHANGED records

(* The sequencer executes a transaction; a resent one stays around. *)
Execute ==
  \E t \in mempool :
    /\ Publishes(t)
    /\ records' = [records EXCEPT ![Address(t)] = RecordOf(t)]
    /\ mempool' \in {mempool, mempool \ {t}}

(* A transaction is rejected, or lost. *)
Discard ==
  /\ \E t \in mempool : mempool' = mempool \ {t}
  /\ UNCHANGED records

RecordNext == Submit \/ Execute \/ Discard

RecordSpec == RecordInit /\ [][RecordNext]_recordVars

-----------------------------------------------------------------------------
(* Properties *)

(* The two programs implement OwnedRecords with nothing amendable: the     *)
(* first publisher of a key wins it and its record stays as it is, so a    *)
(* resolver never reads two values for one pointer.                        *)
Book ==
  INSTANCE OwnedRecords WITH
    Slots     <- Slots,
    Amendable <- {},
    Entitled  <- [s \in Slots |-> Users],
    Births    <- Keys,
    Contents  <- Payloads,
    Vacant    <- NoRecord,
    book      <- [s \in Slots |->
                    IF records[s] = NoRecord THEN NoRecord
                    ELSE [holder  |-> records[s].author,
                          birth   |-> records[s].key,
                          content |-> records[s].payload]]

BookSpec == Book!Spec
=============================================================================
