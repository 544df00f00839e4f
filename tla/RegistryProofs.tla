--------------------------- MODULE RegistryProofs ---------------------------
(***************************************************************************)
(* Theorems about Registry, for every set of programs, accounts and        *)
(* argument values.                                                        *)
(***************************************************************************)
EXTENDS Registry, TLAPS

(* The two kinds of PDA, seen from their members.                          *)
LEMMA PdaFields ==
  ASSUME NEW k \in Pdas
  PROVE  /\ k.registry \in Registries
         /\ k.ns = "deployer_entry" =>
              k.program \in Programs /\ k = DeployerPda(k.registry, k.program)
         /\ k.ns # "deployer_entry" =>
              /\ k.ns = "third_party_entry"
              /\ k.program \in Subjects /\ k.author \in Accounts
              /\ k = ThirdPartyPda(k.registry, k.program, k.author)
BY DEF Pdas, DeployerPdas, ThirdPartyPdas, DeployerPda, ThirdPartyPda

(* The account a deployer instruction names is one of the entry accounts.  *)
LEMMA DeployerPdaIsPda ==
  ASSUME NEW r \in Registries, NEW p \in Programs
  PROVE  /\ DeployerPda(r, p) \in Pdas
         /\ DeployerPda(r, p) \in DeployerPdas
         /\ DeployerPda(r, p).registry = r
         /\ DeployerPda(r, p).program = p
         /\ DeployerPda(r, p).ns = "deployer_entry"
BY DEF Pdas, DeployerPdas, DeployerPda

(* So is the account a third-party instruction names.                      *)
LEMMA ThirdPartyPdaIsPda ==
  ASSUME NEW r \in Registries, NEW p \in Subjects, NEW a \in Accounts
  PROVE  /\ ThirdPartyPda(r, p, a) \in Pdas
         /\ ThirdPartyPda(r, p, a).registry = r
         /\ ThirdPartyPda(r, p, a).program = p
         /\ ThirdPartyPda(r, p, a).author = a
         /\ ThirdPartyPda(r, p, a).ns = "third_party_entry"
BY DEF Pdas, ThirdPartyPdas, ThirdPartyPda

-----------------------------------------------------------------------------
(* What ties a frame to the entry it will write.                           *)
FrameInv ==
  frame # NoCall =>
    /\ frame.op \in {"register_deployer", "update_deployer"} =>
         /\ frame.self \in Registries
         /\ frame.program \in Programs
         /\ frame.entry = DeployerPda(frame.self, frame.program)
    /\ frame.op \in {"register_third_party", "update_third_party"} =>
         /\ frame.program \in Subjects /\ frame.author \in Accounts
         /\ frame.entry =
              ThirdPartyPda(frame.self, frame.program, frame.author)
         /\ frame.self \in Registries
    /\ frame.op \in {"register_deployer", "register_third_party"} =>
         frame.name \in Names /\ frame.registered_at \in Stamps
    /\ frame.op \in {"register_self", "update_self"} =>
         /\ frame.caller = DefaultProgram
         /\ frame.self \in Registries \cup HookPrograms
    /\ frame.op = "register_self" =>
         frame.name \in Names /\ frame.registered_at \in Stamps

IInv == TypeOK /\ FrameInv /\ EntryMatchesPda /\ ChainedCallsNameTheirCaller

(* The invariant holds of the empty registry.                              *)
LEMMA InitIInv == Init => IInv
BY DEF Init, IInv, TypeOK, FrameInv, EntryMatchesPda,
       ChainedCallsNameTheirCaller

(* Opening a frame writes no entry, so only the frame has to be looked at. *)
LEMMA CallDeployerStep ==
  IInv /\ CallDeployerInstruction => IInv'
<1> SUFFICES ASSUME IInv, CallDeployerInstruction PROVE IInv'
  OBVIOUS
<1> USE RegistryAssumption
<1>1. PICK r \in Registries, p \in Programs, m \in Metas,
           c \in ForeignPrograms \cup {DefaultProgram} :
        \/ \E n \in Names, t \in Stamps :
             frame' = [op |-> "register_deployer", caller |-> c, self |-> r,
                       signer |-> NA, registry |-> r,
                       entry |-> DeployerPda(r, p), program |-> p,
                       author |-> NA, name |-> n, meta |-> m,
                       registered_at |-> t]
        \/ frame' = [op |-> "update_deployer", caller |-> c, self |-> r,
                     signer |-> NA, registry |-> r,
                     entry |-> DeployerPda(r, p), program |-> p,
                     author |-> NA, name |-> NA, meta |-> m,
                     registered_at |-> NA]
  BY DEF CallDeployerInstruction
<1>2. DeployerPda(r, p) \in Pdas
  BY DeployerPdaIsPda
<1>3. entries' = entries
  BY DEF CallDeployerInstruction
<1>4. frame' \in Frames
  BY <1>1, <1>2 DEF Frames, Ops, Programs
<1>5. TypeOK' /\ EntryMatchesPda'
  BY <1>3, <1>4 DEF IInv, TypeOK, EntryMatchesPda
<1>6. FrameInv'
  BY <1>1 DEF FrameInv
<1>7. ChainedCallsNameTheirCaller'
  BY <1>1 DEF ChainedCallsNameTheirCaller, Programs
<1> QED
  BY <1>5, <1>6, <1>7 DEF IInv

(* Opening a third-party frame writes no entry either.                     *)
LEMMA CallThirdPartyStep ==
  IInv /\ CallThirdPartyInstruction => IInv'
<1> SUFFICES ASSUME IInv, CallThirdPartyInstruction PROVE IInv'
  OBVIOUS
<1> USE RegistryAssumption
<1>1. PICK r \in Registries, p \in Subjects, a \in Accounts,
           s \in Accounts \cup {NA}, m \in Metas :
        \/ \E n \in Names, t \in Stamps :
             frame' = [op |-> "register_third_party",
                       caller |-> DefaultProgram, self |-> r, signer |-> s,
                       registry |-> r, entry |-> ThirdPartyPda(r, p, a),
                       program |-> p, author |-> a, name |-> n, meta |-> m,
                       registered_at |-> t]
        \/ frame' = [op |-> "update_third_party",
                     caller |-> DefaultProgram, self |-> r, signer |-> s,
                     registry |-> r, entry |-> ThirdPartyPda(r, p, a),
                     program |-> p, author |-> a, name |-> NA, meta |-> m,
                     registered_at |-> NA]
  BY DEF CallThirdPartyInstruction
<1>2. ThirdPartyPda(r, p, a) \in Pdas
  BY ThirdPartyPdaIsPda
<1>3. entries' = entries
  BY DEF CallThirdPartyInstruction
<1>4. frame' \in Frames
  BY <1>1, <1>2 DEF Frames, Ops, Programs
<1>5. TypeOK' /\ EntryMatchesPda'
  BY <1>3, <1>4 DEF IInv, TypeOK, EntryMatchesPda
<1>6. FrameInv'
  BY <1>1 DEF FrameInv
<1>7. ChainedCallsNameTheirCaller'
  BY <1>1 DEF ChainedCallsNameTheirCaller, Programs
<1> QED
  BY <1>5, <1>6, <1>7 DEF IInv

(* Nor does calling the hook of a program.                                 *)
LEMMA CallHookStep ==
  IInv /\ CallHook => IInv'
<1> SUFFICES ASSUME IInv, CallHook PROVE IInv'
  OBVIOUS
<1> USE RegistryAssumption
<1>1. PICK h \in Registries \cup HookPrograms, r \in Registries, k \in Pdas,
           s \in Accounts \cup {NA}, m \in Metas :
        \/ \E n \in Names, t \in Stamps, p \in Programs :
             frame' = [op |-> "register_self", caller |-> DefaultProgram,
                       self |-> h, signer |-> s, registry |-> r,
                       entry |-> k, program |-> p, author |-> NA,
                       name |-> n, meta |-> m, registered_at |-> t]
        \/ frame' = [op |-> "update_self", caller |-> DefaultProgram,
                     self |-> h, signer |-> s, registry |-> r, entry |-> k,
                     program |-> h, author |-> NA, name |-> NA,
                     meta |-> m, registered_at |-> NA]
  BY DEF CallHook
<1>3. entries' = entries
  BY DEF CallHook
<1>4. frame' \in Frames
  BY <1>1 DEF Frames, Ops, Programs
<1>5. TypeOK' /\ EntryMatchesPda'
  BY <1>3, <1>4 DEF IInv, TypeOK, EntryMatchesPda
<1>6. FrameInv'
  BY <1>1 DEF FrameInv
<1>7. ChainedCallsNameTheirCaller'
  BY <1>1 DEF ChainedCallsNameTheirCaller, Programs
<1> QED
  BY <1>5, <1>6, <1>7 DEF IInv

(* A new entry is written where its own fields say it belongs.             *)
LEMMA RegisterDeployerStep == IInv /\ RegisterDeployer => IInv'
<1> SUFFICES ASSUME IInv, RegisterDeployer PROVE IInv'
  OBVIOUS
<1> DEFINE k == frame.entry
           e == NewEntry(frame, frame.caller, KIND_DEPLOYER)
<1>1. /\ frame \in Frames /\ frame # NoCall
      /\ frame.op = "register_deployer" /\ frame.caller = frame.program
      /\ entries' = [entries EXCEPT ![k] = e]
      /\ frame' = NoCall
  BY DEF IInv, TypeOK, RegisterDeployer, RegisterDeployerOK
<1>2. /\ frame.self \in Registries /\ frame.program \in Programs
      /\ k = DeployerPda(frame.self, frame.program)
      /\ frame.name \in Names /\ frame.registered_at \in Stamps
  BY <1>1 DEF IInv, FrameInv
<1>3. /\ k \in Pdas
      /\ k.program = frame.program
      /\ k.ns = "deployer_entry"
  BY <1>2, DeployerPdaIsPda
<1>4. /\ e \in RegistryEntry
      /\ e.program_id = frame.program /\ e.kind = KIND_DEPLOYER
      /\ e.author = frame.program
  BY <1>1, <1>2 DEF NewEntry, RegistryEntry, Frames
<1>5. TypeOK'
  BY <1>1, <1>3, <1>4 DEF IInv, TypeOK
<1>6. EntryMatchesPda'
  <2> SUFFICES ASSUME NEW j \in Pdas, entries'[j] # NoEntry
               PROVE  /\ entries'[j].program_id = j.program
                      /\ j.ns = "deployer_entry" =>
                           /\ entries'[j].kind = KIND_DEPLOYER
                           /\ entries'[j].author = j.program
                      /\ j.ns = "third_party_entry" =>
                           /\ entries'[j].kind = KIND_THIRD_PARTY
                           /\ entries'[j].author = j.author
    BY DEF EntryMatchesPda
  <2>1. CASE j = k
    BY <1>1, <1>3, <1>4, <2>1 DEF IInv, TypeOK
  <2>2. CASE j # k
    BY <1>1, <2>2 DEF IInv, TypeOK, EntryMatchesPda
  <2> QED
    BY <2>1, <2>2
<1> QED
  BY <1>1, <1>5, <1>6 DEF IInv, FrameInv, ChainedCallsNameTheirCaller

(* The attestation written is the one its account is derived from.         *)
LEMMA RegisterThirdPartyStep == IInv /\ RegisterThirdParty => IInv'
<1> SUFFICES ASSUME IInv, RegisterThirdParty PROVE IInv'
  OBVIOUS
<1> DEFINE k == frame.entry
           e == NewEntry(frame, frame.author, KIND_THIRD_PARTY)
<1>1. /\ frame \in Frames /\ frame # NoCall
      /\ frame.op = "register_third_party"
      /\ entries' = [entries EXCEPT ![k] = e]
      /\ frame' = NoCall
  BY DEF IInv, TypeOK, RegisterThirdParty, RegisterThirdPartyOK
<1>2. /\ frame.self \in Registries
      /\ frame.program \in Subjects /\ frame.author \in Accounts
      /\ k = ThirdPartyPda(frame.self, frame.program, frame.author)
      /\ frame.name \in Names /\ frame.registered_at \in Stamps
  BY <1>1 DEF IInv, FrameInv
<1>3. /\ k \in Pdas
      /\ k.program = frame.program /\ k.author = frame.author
      /\ k.ns = "third_party_entry"
  BY <1>2, ThirdPartyPdaIsPda
<1>4. /\ e \in RegistryEntry
      /\ e.program_id = frame.program /\ e.kind = KIND_THIRD_PARTY
      /\ e.author = frame.author
  BY <1>1, <1>2 DEF NewEntry, RegistryEntry, Frames
<1>5. TypeOK'
  BY <1>1, <1>3, <1>4 DEF IInv, TypeOK
<1>6. EntryMatchesPda'
  <2> SUFFICES ASSUME NEW j \in Pdas, entries'[j] # NoEntry
               PROVE  /\ entries'[j].program_id = j.program
                      /\ j.ns = "deployer_entry" =>
                           /\ entries'[j].kind = KIND_DEPLOYER
                           /\ entries'[j].author = j.program
                      /\ j.ns = "third_party_entry" =>
                           /\ entries'[j].kind = KIND_THIRD_PARTY
                           /\ entries'[j].author = j.author
    BY DEF EntryMatchesPda
  <2>1. CASE j = k
    BY <1>1, <1>3, <1>4, <2>1 DEF IInv, TypeOK
  <2>2. CASE j # k
    BY <1>1, <2>2 DEF IInv, TypeOK, EntryMatchesPda
  <2> QED
    BY <2>1, <2>2
<1> QED
  BY <1>1, <1>5, <1>6 DEF IInv, FrameInv, ChainedCallsNameTheirCaller

(* An update changes nothing but the metadata of an entry that exists.     *)
LEMMA UpdatedEntry ==
  ASSUME NEW e \in RegistryEntry, NEW m \in Metas
  PROVE  /\ [e EXCEPT !.meta = m] \in RegistryEntry
         /\ [e EXCEPT !.meta = m].program_id = e.program_id
         /\ [e EXCEPT !.meta = m].author = e.author
         /\ [e EXCEPT !.meta = m].kind = e.kind
         /\ [e EXCEPT !.meta = m].name = e.name
         /\ [e EXCEPT !.meta = m].registered_at = e.registered_at
         /\ [e EXCEPT !.meta = m].meta = m
BY DEF RegistryEntry

(* An update keeps the identity of the entry and replaces the rest.        *)
LEMMA UpdateStep ==
  IInv /\ (UpdateDeployer \/ UpdateThirdParty) => IInv'
<1> SUFFICES ASSUME IInv, UpdateDeployer \/ UpdateThirdParty PROVE IInv'
  OBVIOUS
<1> DEFINE k == frame.entry
           e == [entries[k] EXCEPT !.meta = frame.meta]
<1>1. /\ frame \in Frames /\ frame # NoCall
      /\ entries[k] # NoEntry
      /\ entries' = [entries EXCEPT ![k] = e]
      /\ frame' = NoCall
  BY DEF IInv, TypeOK, UpdateDeployer, UpdateDeployerOK, UpdateThirdParty,
         UpdateThirdPartyOK
<1>2. k \in Pdas /\ frame.meta \in Metas
  BY <1>1 DEF Frames
<1>3. entries[k] \in RegistryEntry
  BY <1>1, <1>2 DEF IInv, TypeOK
<1>4. /\ e \in RegistryEntry
      /\ e.program_id = entries[k].program_id
      /\ e.author = entries[k].author /\ e.kind = entries[k].kind
  BY <1>2, <1>3, UpdatedEntry
<1> HIDE DEF e
<1>5. TypeOK'
  BY <1>1, <1>2, <1>4 DEF IInv, TypeOK
<1>6. \A j \in Pdas : entries'[j] = IF j = k THEN e ELSE entries[j]
  BY <1>1 DEF IInv, TypeOK
<1>7. EntryMatchesPda'
  BY <1>1, <1>4, <1>6 DEF IInv, EntryMatchesPda
<1> QED
  BY <1>1, <1>5, <1>7 DEF IInv, FrameInv, ChainedCallsNameTheirCaller

(* A hook's chained call carries the hook's own program id, on the PDA it  *)
(* compared `entry` with.                                                  *)
LEMMA HookStep ==
  IInv /\ (RegisterSelf \/ UpdateSelf) => IInv'
<1> SUFFICES ASSUME IInv, RegisterSelf \/ UpdateSelf PROVE IInv'
  OBVIOUS
<1> USE RegistryAssumption
<1>1. /\ frame \in Frames /\ frame # NoCall
      /\ frame.op \in {"register_self", "update_self"}
      /\ frame.entry = DeployerPda(frame.registry, frame.self)
      /\ entries' = entries
  BY DEF IInv, TypeOK, RegisterSelf, RegisterSelfOK, UpdateSelf, UpdateSelfOK
<1>2. /\ frame.self \in Registries \cup HookPrograms
      /\ frame.registry \in Registries
      /\ frame.op = "register_self" =>
           frame.name \in Names /\ frame.registered_at \in Stamps
  BY <1>1 DEF IInv, FrameInv, Frames
<1>3. \/ /\ frame.op = "register_self"
         /\ frame' = Chained(frame, "register_deployer")
      \/ /\ frame.op = "update_self"
         /\ frame' = Chained(frame, "update_deployer")
  BY DEF RegisterSelf, RegisterSelfOK, UpdateSelf, UpdateSelfOK
<1>4. /\ frame' \in Frames
      /\ frame'.op \in {"register_deployer", "update_deployer"}
      /\ frame'.caller = frame.self /\ frame'.self = frame.registry
      /\ frame'.program = frame.self /\ frame'.entry = frame.entry
      /\ frame'.name = frame.name
      /\ frame'.registered_at = frame.registered_at
      /\ frame'.op = "register_deployer" => frame.op = "register_self"
  BY <1>1, <1>2, <1>3 DEF Frames, Ops, Programs, Chained
<1>5. TypeOK' /\ EntryMatchesPda'
  BY <1>1, <1>4 DEF IInv, TypeOK, EntryMatchesPda
<1>6. FrameInv'
  BY <1>1, <1>2, <1>4 DEF FrameInv, Programs
<1>7. ChainedCallsNameTheirCaller'
  BY <1>1, <1>4 DEF ChainedCallsNameTheirCaller
<1> QED
  BY <1>5, <1>6, <1>7 DEF IInv

(* A refused instruction leaves only the frame behind, which it closes.    *)
LEMMA RejectStep == IInv /\ Reject => IInv'
BY DEF Reject, IInv, TypeOK, FrameInv, EntryMatchesPda,
       ChainedCallsNameTheirCaller

(* Every step keeps the invariant: the lemmas above, one per action.       *)
LEMMA NextIInv == IInv /\ [Next]_vars => IInv'
<1>1. ASSUME IInv, UNCHANGED vars PROVE IInv'
  BY <1>1 DEF vars, IInv, TypeOK, FrameInv, EntryMatchesPda,
              ChainedCallsNameTheirCaller
<1> QED
  BY <1>1, CallDeployerStep, CallThirdPartyStep, CallHookStep,
     RegisterDeployerStep, RegisterThirdPartyStep, UpdateStep, HookStep,
     RejectStep
     DEF Next, Execute

(* The invariant holds throughout every behaviour of the registry.         *)
LEMMA Invariance == Spec => []IInv
BY InitIInv, NextIInv, PTL DEF Spec

-----------------------------------------------------------------------------
(* The variables keep the shapes the operators expect.                     *)
THEOREM TypeCorrect == Spec => []TypeOK
<1>1. IInv => TypeOK
  BY DEF IInv
<1> QED
  BY <1>1, Invariance, PTL

(* An entry read at a PDA describes the program, and was authored by the   *)
(* program or account, that the PDA names: registry.rs never writes one    *)
(* program's data at another's address.                                    *)
THEOREM EntriesMatchTheirPdas == Spec => []EntryMatchesPda
<1>1. IInv => EntryMatchesPda
  BY DEF IInv
<1> QED
  BY <1>1, Invariance, PTL

(* The hooks of registry.rs, pointer.rs and testimonial.rs only ever speak *)
(* for the program they belong to.                                         *)
THEOREM HooksSpeakForThemselves == Spec => []ChainedCallsNameTheirCaller
<1>1. IInv => ChainedCallsNameTheirCaller
  BY DEF IInv
<1> QED
  BY <1>1, Invariance, PTL

-----------------------------------------------------------------------------
(* What one step may do to one entry: nothing, a first write with the      *)
(* holder its address names, or an update of an entry that exists.         *)
EntryStep(k) ==
  \/ entries'[k] = entries[k]
  \/ /\ k = frame.entry
     /\ entries[k] = NoEntry
     /\ \/ RegisterDeployerOK(frame)
           /\ entries'[k] = NewEntry(frame, frame.caller, KIND_DEPLOYER)
        \/ RegisterThirdPartyOK(frame)
           /\ entries'[k] = NewEntry(frame, frame.author, KIND_THIRD_PARTY)
  \/ /\ k = frame.entry
     /\ entries[k] # NoEntry
     /\ UpdateDeployerOK(frame) \/ UpdateThirdPartyOK(frame)
     /\ entries'[k] = [entries[k] EXCEPT !.meta = frame.meta]

(* An entry that a step changes was changed by one of four instructions.   *)
LEMMA StepByEntry ==
  ASSUME IInv, [Next]_vars, NEW k \in Pdas
  PROVE  EntryStep(k) /\ (entries' # entries => frame # NoCall)
<1> USE DEF EntryStep
<1>1. CASE CallDeployerInstruction \/ CallThirdPartyInstruction \/ CallHook
  BY <1>1 DEF CallDeployerInstruction, CallThirdPartyInstruction, CallHook
<1>2. CASE RegisterSelf \/ UpdateSelf \/ Reject \/ UNCHANGED vars
  BY <1>2 DEF RegisterSelf, UpdateSelf, Reject, vars
<1>3. CASE RegisterDeployer
  BY <1>3 DEF RegisterDeployer, RegisterDeployerOK, IInv, TypeOK
<1>4. CASE RegisterThirdParty
  BY <1>4 DEF RegisterThirdParty, RegisterThirdPartyOK, IInv, TypeOK
<1>5. CASE UpdateDeployer
  BY <1>5 DEF UpdateDeployer, UpdateDeployerOK, IInv, TypeOK
<1>6. CASE UpdateThirdParty
  BY <1>6 DEF UpdateThirdParty, UpdateThirdPartyOK, IInv, TypeOK
<1> QED
  BY <1>1, <1>2, <1>3, <1>4, <1>5, <1>6 DEF Next, Execute

(* A deployer entry changes only while its own program is the caller.      *)
THEOREM DeployerEntriesAreTheProgramsOwn ==
  Spec => OnlyTheProgramWritesItsDeployerEntry
<1>1. ASSUME IInv, [Next]_vars, NEW r \in Registries, NEW p \in Programs,
             entries'[DeployerPda(r, p)] # entries[DeployerPda(r, p)]
      PROVE  frame.caller = p /\ frame.self = r
  <2> DEFINE k == DeployerPda(r, p)
  <2>1. /\ k \in Pdas /\ k.registry = r /\ k.program = p
        /\ k.ns = "deployer_entry"
    BY DeployerPdaIsPda
  <2>2. k = frame.entry /\ frame # NoCall
    BY <1>1, <2>1, StepByEntry DEF EntryStep
  <2>3. \/ RegisterDeployerOK(frame) \/ UpdateDeployerOK(frame)
        \/ RegisterThirdPartyOK(frame) \/ UpdateThirdPartyOK(frame)
    BY <1>1, <2>1, StepByEntry DEF EntryStep
  <2>4. CASE RegisterThirdPartyOK(frame) \/ UpdateThirdPartyOK(frame)
    <3>1. k.ns = "third_party_entry"
      BY <1>1, <2>2, <2>4, ThirdPartyPdaIsPda
         DEF RegisterThirdPartyOK, UpdateThirdPartyOK, IInv, FrameInv
    <3> QED
      BY <2>1, <3>1
  <2>5. CASE RegisterDeployerOK(frame) \/ UpdateDeployerOK(frame)
    <3>1. /\ frame.self \in Registries /\ frame.program \in Programs
          /\ k = DeployerPda(frame.self, frame.program)
          /\ frame.caller = frame.program
      BY <1>1, <2>2, <2>5 DEF RegisterDeployerOK, UpdateDeployerOK, IInv,
                              FrameInv
    <3>2. k.registry = frame.self /\ k.program = frame.program
      BY <3>1, DeployerPdaIsPda
    <3> QED
      BY <2>1, <3>1, <3>2
  <2> QED
    BY <2>3, <2>4, <2>5
<1>2. IInv /\ [Next]_vars => [DeployerWriteIsOwn]_vars
  BY <1>1 DEF DeployerWriteIsOwn
<1> QED
  BY <1>2, Invariance, PTL DEF Spec, OnlyTheProgramWritesItsDeployerEntry

(* An attestation changes only in a transaction its author signed.         *)
THEOREM AttestationsAreTheAuthorsOwn ==
  Spec => OnlyTheAuthorWritesItsAttestation
<1>1. ASSUME IInv, [Next]_vars, NEW k \in ThirdPartyPdas,
             entries'[k] # entries[k]
      PROVE  frame.signer = k.author
  <2>1. k \in Pdas /\ k.ns = "third_party_entry"
    BY DEF Pdas, ThirdPartyPdas, ThirdPartyPda
  <2>2. k = frame.entry /\ frame # NoCall
    BY <1>1, <2>1, StepByEntry DEF EntryStep
  <2>3. \/ RegisterDeployerOK(frame) \/ UpdateDeployerOK(frame)
        \/ RegisterThirdPartyOK(frame) \/ UpdateThirdPartyOK(frame)
    BY <1>1, <2>1, StepByEntry DEF EntryStep
  <2>4. CASE RegisterDeployerOK(frame) \/ UpdateDeployerOK(frame)
    <3>1. k.ns = "deployer_entry"
      BY <1>1, <2>2, <2>4, DeployerPdaIsPda
         DEF RegisterDeployerOK, UpdateDeployerOK, IInv, FrameInv
    <3> QED
      BY <2>1, <3>1
  <2>5. CASE RegisterThirdPartyOK(frame) \/ UpdateThirdPartyOK(frame)
    <3>1. /\ frame.self \in Registries
          /\ frame.program \in Subjects /\ frame.author \in Accounts
          /\ k = ThirdPartyPda(frame.self, frame.program, frame.author)
          /\ frame.signer = frame.author
      BY <1>1, <2>2, <2>5 DEF RegisterThirdPartyOK, UpdateThirdPartyOK,
                              IInv, FrameInv
    <3> QED
      BY <3>1, ThirdPartyPdaIsPda
  <2> QED
    BY <2>3, <2>4, <2>5
<1>2. IInv /\ [Next]_vars => [AttestationWriteIsSigned]_vars
  BY <1>1 DEF AttestationWriteIsSigned
<1> QED
  BY <1>2, Invariance, PTL DEF Spec, OnlyTheAuthorWritesItsAttestation

-----------------------------------------------------------------------------
(* Registry implements OwnedRecords.                                       *)
LEMMA OwnedView ==
  ASSUME NEW e \in RegistryEntry
  PROVE  /\ AsOwnedRecord(e) \in OwnedRecord
         /\ AsOwnedRecord(e) # NoEntry
         /\ AsOwnedRecord(e).holder = e.author
         /\ AsOwnedRecord(e).content = e.meta
         /\ AsOwnedRecord(e).birth =
              [program_id |-> e.program_id, kind |-> e.kind,
               name |-> e.name, registered_at |-> e.registered_at]
<1>1. e # NoEntry
  BY NoEntryAssumption
<1>2. AsOwnedRecord(e) \in OwnedRecord
  BY <1>1 DEF AsOwnedRecord, OwnedRecord, Births, RegistryEntry
<1> QED
  BY <1>1, <1>2, NoEntryAssumption DEF AsOwnedRecord

(* Only the slot of the frame moves, so the abstract step is one of its.   *)
LEMMA OneEntryMoves ==
  ASSUME IInv, [Next]_vars, NEW k \in Pdas, entries'[k] # entries[k]
  PROVE  \A j \in Pdas \ {k} : entries'[j] = entries[j]
BY StepByEntry DEF EntryStep

(* An entry that a step creates is claimed in the book.                    *)
LEMMA ClaimingEntry ==
  ASSUME IInv, [Next]_vars, NEW k \in Pdas,
         entries'[k] # entries[k], entries[k] = NoEntry
  PROVE  Book!Claim(k)
<1> DEFINE e == entries'[k]
<1>1. IInv'
  BY NextIInv
<1>2. e \in RegistryEntry
  BY <1>1 DEF IInv, TypeOK
<1>3. /\ k.ns = "deployer_entry" => e.author = k.program
      /\ k.ns = "third_party_entry" => e.author = k.author
      /\ k.ns # "deployer_entry" => k.ns = "third_party_entry"
  BY <1>1, PdaFields DEF IInv, EntryMatchesPda
<1>4. AsOwnedRecord(e) \in
        [holder : IF k.ns = "deployer_entry" THEN {k.program} ELSE {k.author},
         birth : Births, content : Metas]
  BY <1>2, <1>3, OwnedView DEF OwnedRecord
<1>5. AsOwnedRecord(entries[k]) = NoEntry
  BY DEF AsOwnedRecord
<1>6. \A j \in Pdas \ {k} :
        AsOwnedRecord(entries'[j]) = AsOwnedRecord(entries[j])
  BY OneEntryMoves
<1> QED
  BY <1>4, <1>5, <1>6 DEF Book!Claim, Book!Record, Book!Untouched

(* An entry that a step replaces is amended in the book by its owner.      *)
LEMMA AmendingEntry ==
  ASSUME IInv, [Next]_vars, NEW k \in Pdas,
         entries'[k] # entries[k], entries[k] # NoEntry
  PROVE  Book!Amend(k)
<1> DEFINE e == entries[k]
           f == entries'[k]
<1>1. e \in RegistryEntry
  BY DEF IInv, TypeOK
<1>2. frame # NoCall /\ f = [e EXCEPT !.meta = frame.meta]
  BY StepByEntry DEF EntryStep, IInv, TypeOK
<1>3. frame.meta \in Metas
  BY <1>2 DEF IInv, TypeOK, Frames
<1>4. /\ f \in RegistryEntry
      /\ f.program_id = e.program_id /\ f.author = e.author
      /\ f.kind = e.kind /\ f.name = e.name
      /\ f.registered_at = e.registered_at /\ f.meta \in Metas
  BY <1>1, <1>2, <1>3, UpdatedEntry
<1>5. /\ AsOwnedRecord(e) # NoEntry /\ AsOwnedRecord(f) # NoEntry
      /\ AsOwnedRecord(f).holder = AsOwnedRecord(e).holder
      /\ AsOwnedRecord(f).birth = AsOwnedRecord(e).birth
      /\ AsOwnedRecord(f).content \in Metas
  BY <1>1, <1>4, OwnedView
<1>6. \A j \in Pdas \ {k} :
        AsOwnedRecord(entries'[j]) = AsOwnedRecord(entries[j])
  BY OneEntryMoves
<1> QED
  BY <1>5, <1>6 DEF Book!Amend, Book!Untouched

(* Entries behave as owned records: claimed once by the holder the address *)
(* names, fixed in subject, kind, name and timestamp, never removed.       *)
THEOREM RegistryKeepsOwnedRecords == Spec => BookSpec
<1>1. Init => Book!Init
  BY DEF Init, Book!Init, AsOwnedRecord
<1>2. ASSUME IInv, [Next]_vars
      PROVE  [Book!Next]_([k \in Pdas |-> AsOwnedRecord(entries[k])])
  <2>1. CASE \A k \in Pdas : entries'[k] = entries[k]
    BY <2>1
  <2>2. CASE \E k \in Pdas : entries'[k] # entries[k]
    <3>1. PICK k \in Pdas : entries'[k] # entries[k]
      BY <2>2
    <3>2. Book!Claim(k) \/ Book!Amend(k)
      BY <1>2, <3>1, ClaimingEntry, AmendingEntry
    <3> QED
      BY <3>2 DEF Book!Next
  <2> QED
    BY <2>1, <2>2
<1> QED
  BY <1>1, <1>2, Invariance, PTL DEF Spec, BookSpec, Book!Spec
=============================================================================
