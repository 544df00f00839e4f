------------------------------ MODULE Registry ------------------------------
(***************************************************************************)
(* The on-chain program registry (programs/registry) together with the     *)
(* self-registration hooks of the pointer and testimonial programs, run by *)
(* the LEZ state machine.                                                  *)
(*                                                                         *)
(* A transaction is one call frame at a time: a user (or a foreign         *)
(* program) opens a frame, a hook replaces it by the chained call it       *)
(* emits, and the frame ends by writing one entry or by being rejected     *)
(* with nothing written.  caller_program_id is the frame's caller; the     *)
(* state machine sets it, the transaction cannot choose it.                *)
(*                                                                         *)
(* A string is represented by its length, which is all the guest looks at. *)
(***************************************************************************)
EXTENDS Naturals

CONSTANTS
  Registries,      \* program ids at which registry.rs is deployed
  HookPrograms,    \* program ids of pointer.rs and testimonial.rs
  ForeignPrograms, \* other deployed programs: they may emit any chained call
  Subjects,        \* the accounts third-party entries are written about
  Accounts,        \* user accounts, the ones that can sign
  DefaultProgram,  \* DEFAULT_PROGRAM_ID, the caller of a top-level call
  Names,           \* lengths of the names callers pass
  Metas,           \* lengths of the other metadata callers pass
  Stamps,          \* registered_at values callers pass
  DataCap,         \* account data cap, in bytes
  NA,              \* "no such field", and "no signature"
  NoEntry,         \* Account::default()
  NoCall           \* no transaction is executing

Programs == Registries \cup HookPrograms \cup ForeignPrograms

MetaFields ==
  {"version", "description", "idl_cid", "source_cid", "commit", "other"}

ASSUME RegistryAssumption ==
  /\ Names \subseteq Nat
  /\ Metas \subseteq [MetaFields -> Nat]
  /\ DataCap \in Nat
  /\ Registries \cap HookPrograms = {}
  /\ ForeignPrograms \cap (Registries \cup HookPrograms) = {}
  /\ DefaultProgram \notin Programs
  /\ NA \notin Accounts \cup Programs

VARIABLES
  entries,  \* the registry-owned account at each PDA
  frame     \* the call frame being executed

vars == <<entries, frame>>

-----------------------------------------------------------------------------
(* Addresses and entries *)

DeployerPda(r, p) ==
  [registry |-> r, ns |-> "deployer_entry", program |-> p, author |-> NA]

ThirdPartyPda(r, p, a) ==
  [registry |-> r, ns |-> "third_party_entry", program |-> p, author |-> a]

DeployerPdas == {DeployerPda(r, p) : r \in Registries, p \in Programs}

ThirdPartyPdas ==
  {ThirdPartyPda(r, p, a) : r \in Registries, p \in Subjects, a \in Accounts}

Pdas == DeployerPdas \cup ThirdPartyPdas

KIND_DEPLOYER    == 0
KIND_THIRD_PARTY == 1

RegistryEntry ==
  [program_id : Programs \cup Subjects, author : Programs \cup Accounts,
   kind : {KIND_DEPLOYER, KIND_THIRD_PARTY},
   name : Names, meta : Metas, registered_at : Stamps]

(* An entry seen as an owned record: what registration fixes, and the rest. *)
Births ==
  [program_id : Programs \cup Subjects, kind : {KIND_DEPLOYER, KIND_THIRD_PARTY},
   name : Names, registered_at : Stamps]

OwnedRecord ==
  [holder : Programs \cup Accounts, birth : Births, content : Metas]

(* Account::default() decodes to no entry. *)
ASSUME NoEntryAssumption == NoEntry \notin RegistryEntry \cup OwnedRecord

ValidMeta(m) ==
  /\ m["version"] \in 1..32
  /\ m["description"] \in 0..512
  /\ m["idl_cid"] > 0
  /\ m["source_cid"] > 0
  /\ m["commit"] \in 1..64

validate_entry(name, m) == name \in 1..64 /\ ValidMeta(m)

(* Borsh: two ids, the kind, a u64, nine length-prefixed strings. *)
EncodedSize(name, m) ==
  109 + name + m["version"] + m["description"] + m["idl_cid"]
      + m["source_cid"] + m["commit"] + m["other"]

WithinCap(name, m) == EncodedSize(name, m) <= DataCap

-----------------------------------------------------------------------------
(* Call frames *)

Ops == {"register_deployer", "register_self", "register_third_party",
        "update_deployer", "update_third_party", "update_self"}

Frames ==
  [op : Ops, caller : Programs \cup {DefaultProgram}, self : Programs,
   signer : Accounts \cup {NA},        \* whose signature the transaction has
   registry : Registries,              \* registry_program_id of a hook
   entry : Pdas,                       \* the account passed as `entry`
   program : Programs \cup Subjects, author : Accounts \cup {NA},
   name : Names \cup {NA}, meta : Metas, registered_at : Stamps \cup {NA}]

TypeOK ==
  /\ entries \in [Pdas -> RegistryEntry \cup {NoEntry}]
  /\ frame \in Frames \cup {NoCall}

Init ==
  /\ entries = [k \in Pdas |-> NoEntry]
  /\ frame = NoCall

(* A deployer instruction of registry r, called at top level or by a       *)
(* foreign program.  `entry` is forced by the pda attribute.               *)
CallDeployerInstruction ==
  /\ frame = NoCall
  /\ \E r \in Registries, p \in Programs, m \in Metas,
        c \in ForeignPrograms \cup {DefaultProgram} :
       \/ \E n \in Names, t \in Stamps :
            frame' = [op |-> "register_deployer", caller |-> c, self |-> r,
                      signer |-> NA, registry |-> r,
                      entry |-> DeployerPda(r, p), program |-> p,
                      author |-> NA, name |-> n, meta |-> m,
                      registered_at |-> t]
       \/ frame' = [op |-> "update_deployer", caller |-> c, self |-> r,
                    signer |-> NA, registry |-> r,
                    entry |-> DeployerPda(r, p), program |-> p,
                    author |-> NA, name |-> NA, meta |-> m,
                    registered_at |-> NA]
  /\ UNCHANGED entries

(* A third-party instruction of registry r on the entry of author a.       *)
CallThirdPartyInstruction ==
  /\ frame = NoCall
  /\ \E r \in Registries, p \in Subjects, a \in Accounts,
        s \in Accounts \cup {NA}, m \in Metas :
       \/ \E n \in Names, t \in Stamps :
            frame' = [op |-> "register_third_party",
                      caller |-> DefaultProgram, self |-> r, signer |-> s,
                      registry |-> r, entry |-> ThirdPartyPda(r, p, a),
                      program |-> p, author |-> a, name |-> n, meta |-> m,
                      registered_at |-> t]
       \/ frame' = [op |-> "update_third_party",
                    caller |-> DefaultProgram, self |-> r, signer |-> s,
                    registry |-> r, entry |-> ThirdPartyPda(r, p, a),
                    program |-> p, author |-> a, name |-> NA, meta |-> m,
                    registered_at |-> NA]
  /\ UNCHANGED entries

(* A user calls a program's register_self or update_self hook, passing any *)
(* account as `entry`.  The registry's own hooks target itself.            *)
CallHook ==
  /\ frame = NoCall
  /\ \E h \in Registries \cup HookPrograms, r \in Registries, k \in Pdas,
        s \in Accounts \cup {NA}, m \in Metas :
       /\ h \in Registries => r = h
       /\ \/ \E n \in Names, t \in Stamps, p \in Programs :
               /\ h \in HookPrograms => p = h   \* no `program` argument
               /\ frame' = [op |-> "register_self",
                            caller |-> DefaultProgram, self |-> h,
                            signer |-> s, registry |-> r, entry |-> k,
                            program |-> p, author |-> NA, name |-> n,
                            meta |-> m, registered_at |-> t]
          \/ frame' = [op |-> "update_self", caller |-> DefaultProgram,
                       self |-> h, signer |-> s, registry |-> r, entry |-> k,
                       program |-> h, author |-> NA, name |-> NA,
                       meta |-> m, registered_at |-> NA]
  /\ UNCHANGED entries

-----------------------------------------------------------------------------
(* The instructions: when each one accepts its frame *)

(* Faulty variant: the check that the caller is the program is missing. *)
RegisterDeployerOK_AnyCaller(f) ==
  /\ f.op = "register_deployer"
  /\ f.caller # DefaultProgram
  /\ validate_entry(f.name, f.meta)
  /\ WithinCap(f.name, f.meta)
  /\ entries[f.entry] = NoEntry

RegisterDeployerOK(f) ==
  /\ f.op = "register_deployer"
  /\ f.caller # DefaultProgram
  /\ f.caller = f.program
  /\ validate_entry(f.name, f.meta)
  /\ WithinCap(f.name, f.meta)
  /\ entries[f.entry] = NoEntry                      \* account(init)

(* Faulty variant: the hook forwards whatever account it is given. *)
RegisterSelfOK_AnyPda(f) ==
  /\ f.op = "register_self"
  /\ f.program = f.self
  /\ entries[f.entry] = NoEntry

RegisterSelfOK(f) ==
  /\ f.op = "register_self"
  /\ f.program = f.self
  /\ f.entry = DeployerPda(f.registry, f.self)
  /\ entries[f.entry] = NoEntry

(* Faulty variant: account(mut) in place of account(init). *)
RegisterThirdPartyOK_NoInit(f) ==
  /\ f.op = "register_third_party"
  /\ f.signer = f.author
  /\ validate_entry(f.name, f.meta)
  /\ WithinCap(f.name, f.meta)

RegisterThirdPartyOK(f) ==
  /\ f.op = "register_third_party"
  /\ f.signer = f.author                             \* account(signer)
  /\ validate_entry(f.name, f.meta)
  /\ WithinCap(f.name, f.meta)
  /\ entries[f.entry] = NoEntry                      \* account(init)

UpdateDeployerOK(f) ==
  /\ f.op = "update_deployer"
  /\ entries[f.entry] # NoEntry                      \* borsh::from_slice
  /\ entries[f.entry].kind = KIND_DEPLOYER
  /\ f.caller # DefaultProgram
  /\ f.caller = f.program
  /\ WithinCap(entries[f.entry].name, f.meta)

(* Faulty variant: `author` is an account argument that need not sign. *)
UpdateThirdPartyOK_Unsigned(f) ==
  /\ f.op = "update_third_party"
  /\ entries[f.entry] # NoEntry
  /\ entries[f.entry].kind = KIND_THIRD_PARTY
  /\ f.author = entries[f.entry].author
  /\ WithinCap(entries[f.entry].name, f.meta)

UpdateThirdPartyOK(f) ==
  /\ f.op = "update_third_party"
  /\ f.signer = f.author                             \* account(signer)
  /\ entries[f.entry] # NoEntry
  /\ entries[f.entry].kind = KIND_THIRD_PARTY
  /\ f.author = entries[f.entry].author
  /\ WithinCap(entries[f.entry].name, f.meta)

UpdateSelfOK(f) ==
  /\ f.op = "update_self"
  /\ f.entry = DeployerPda(f.registry, f.self)

Accepts(f) ==
  \/ RegisterDeployerOK(f)   \/ RegisterSelfOK(f) \/ RegisterThirdPartyOK(f)
  \/ UpdateDeployerOK(f) \/ UpdateThirdPartyOK(f) \/ UpdateSelfOK(f)

-----------------------------------------------------------------------------
(* The instructions: what each one does *)

NewEntry(f, author, kind) ==
  [program_id |-> f.program, author |-> author, kind |-> kind,
   name |-> f.name, meta |-> f.meta, registered_at |-> f.registered_at]

RegisterDeployer ==
  /\ frame # NoCall /\ RegisterDeployerOK(frame)
  /\ entries' = [entries EXCEPT ![frame.entry] =
                   NewEntry(frame, frame.caller, KIND_DEPLOYER)]
  /\ frame' = NoCall

(* Faulty variant: the kind of the deployer path is pasted along. *)
RegisterThirdParty_DeployerKind ==
  /\ frame # NoCall /\ RegisterThirdPartyOK(frame)
  /\ entries' = [entries EXCEPT ![frame.entry] =
                   NewEntry(frame, frame.author, KIND_DEPLOYER)]
  /\ frame' = NoCall

RegisterThirdParty ==
  /\ frame # NoCall /\ RegisterThirdPartyOK(frame)
  /\ entries' = [entries EXCEPT ![frame.entry] =
                   NewEntry(frame, frame.author, KIND_THIRD_PARTY)]
  /\ frame' = NoCall

UpdateDeployer ==
  /\ frame # NoCall /\ UpdateDeployerOK(frame)
  /\ entries' = [entries EXCEPT ![frame.entry].meta = frame.meta]
  /\ frame' = NoCall

(* Faulty variant: the entry is rebuilt from the arguments of the update,  *)
(* which carry neither name nor timestamp.                                 *)
UpdateThirdParty_Rebuilt ==
  /\ frame # NoCall /\ UpdateThirdPartyOK(frame)
  /\ entries' = [entries EXCEPT ![frame.entry] =
                   NewEntry(frame, frame.author, KIND_THIRD_PARTY)]
  /\ frame' = NoCall

UpdateThirdParty ==
  /\ frame # NoCall /\ UpdateThirdPartyOK(frame)
  /\ entries' = [entries EXCEPT ![frame.entry].meta = frame.meta]
  /\ frame' = NoCall

(* Faulty variant: the callee is told of the hook's caller. *)
Chained_KeepsCaller(f, op) ==
  [op |-> op, caller |-> f.caller, self |-> f.registry, signer |-> f.signer,
   registry |-> f.registry, entry |-> f.entry, program |-> f.self,
   author |-> NA, name |-> f.name, meta |-> f.meta,
   registered_at |-> f.registered_at]

(* ChainedCall::new as the hooks build it: the callee sees the hook's own  *)
(* program id as caller and as `program`.                                  *)
Chained(f, op) ==
  [op |-> op, caller |-> f.self, self |-> f.registry, signer |-> f.signer,
   registry |-> f.registry, entry |-> f.entry, program |-> f.self,
   author |-> NA, name |-> f.name, meta |-> f.meta,
   registered_at |-> f.registered_at]

RegisterSelf ==
  /\ frame # NoCall /\ RegisterSelfOK(frame)
  /\ frame' = Chained(frame, "register_deployer")
  /\ UNCHANGED entries

UpdateSelf ==
  /\ frame # NoCall /\ UpdateSelfOK(frame)
  /\ frame' = Chained(frame, "update_deployer")
  /\ UNCHANGED entries

(* An error anywhere in the chain drops the whole transaction. *)
Reject ==
  /\ frame # NoCall /\ ~Accepts(frame)
  /\ frame' = NoCall
  /\ UNCHANGED entries

Execute ==
  \/ RegisterDeployer \/ RegisterSelf \/ RegisterThirdParty
  \/ UpdateDeployer \/ UpdateThirdParty \/ UpdateSelf \/ Reject

Next ==
  \/ CallDeployerInstruction \/ CallThirdPartyInstruction \/ CallHook
  \/ Execute

Spec == Init /\ [][Next]_vars

(* The sequencer finishes a transaction it has begun; nobody is obliged to *)
(* send one.                                                               *)
FairSpec == Spec /\ WF_vars(Execute)

-----------------------------------------------------------------------------
(* Properties *)

(* An entry says what its address says: the entry found at                 *)
(* ["deployer_entry", p] describes p, is authored by p and is a deployer   *)
(* claim; the entry at ["third_party_entry", p, a] describes p, is         *)
(* authored by a and is an attestation.  sdk/registry looks entries up by  *)
(* address alone and trusts the rest.                                      *)
EntryMatchesPda ==
  \A k \in Pdas : entries[k] # NoEntry =>
    /\ entries[k].program_id = k.program
    /\ k.ns = "deployer_entry" =>
         /\ entries[k].kind = KIND_DEPLOYER
         /\ entries[k].author = k.program
    /\ k.ns = "third_party_entry" =>
         /\ entries[k].kind = KIND_THIRD_PARTY
         /\ entries[k].author = k.author

(* A built-in program's chained call never speaks for another program: the *)
(* frame it leaves behind names itself, on the PDA it checked.             *)
ChainedCallsNameTheirCaller ==
  frame # NoCall /\ frame.caller \in Registries \cup HookPrograms =>
    /\ frame.program = frame.caller
    /\ frame.entry = DeployerPda(frame.self, frame.caller)

(* A program's deployer entry is only ever written during a chained call   *)
(* from that program, whatever users and foreign programs send.            *)
DeployerWriteIsOwn ==
  \A r \in Registries, p \in Programs :
    entries'[DeployerPda(r, p)] # entries[DeployerPda(r, p)] =>
      /\ frame.caller = p
      /\ frame.self = r

OnlyTheProgramWritesItsDeployerEntry == [][DeployerWriteIsOwn]_vars

(* A third-party entry is only ever written by a transaction its author    *)
(* signed.                                                                 *)
AttestationWriteIsSigned ==
  \A k \in ThirdPartyPdas :
    entries'[k] # entries[k] => frame.signer = k.author

OnlyTheAuthorWritesItsAttestation == [][AttestationWriteIsSigned]_vars

(* Every transaction ends, and one that asks a hook to register valid      *)
(* metadata at the right, still empty PDA ends with the entry in place:    *)
(* the checks of hook and callee never contradict each other.              *)
WellFormedHookCall(r, h) ==
  /\ frame # NoCall
  /\ frame.op = "register_self" /\ frame.self = h /\ frame.registry = r
  /\ frame.program = h
  /\ frame.entry = DeployerPda(r, h)
  /\ entries[DeployerPda(r, h)] = NoEntry
  /\ validate_entry(frame.name, frame.meta)
  /\ WithinCap(frame.name, frame.meta)

HookRegistrationLands ==
  \A r \in Registries, h \in Registries \cup HookPrograms :
    WellFormedHookCall(r, h) ~>
      (frame = NoCall /\ entries[DeployerPda(r, h)] # NoEntry)

(* Registry implements OwnedRecords: an address is claimed once, by the    *)
(* program or author it names; subject, kind, name and timestamp are fixed *)
(* for good; only the rest of the metadata can be amended.                 *)
AsOwnedRecord(e) ==
  IF e = NoEntry THEN NoEntry
  ELSE [holder  |-> e.author,
        birth   |-> [program_id |-> e.program_id, kind |-> e.kind,
                     name |-> e.name, registered_at |-> e.registered_at],
        content |-> e.meta]

Book ==
  INSTANCE OwnedRecords WITH
    Slots     <- Pdas,
    Amendable <- Pdas,
    Entitled  <- [k \in Pdas |-> IF k.ns = "deployer_entry"
                                THEN {k.program} ELSE {k.author}],
    Births    <- Births,
    Contents  <- Metas,
    Vacant    <- NoEntry,
    book      <- [k \in Pdas |-> AsOwnedRecord(entries[k])]

BookSpec == Book!Spec
=============================================================================
