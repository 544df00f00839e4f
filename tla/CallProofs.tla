----------------------------- MODULE CallProofs -----------------------------
(* Theorems about the programs that keep one record per address, about the *)
(* bytes of the calls that reach them and the registry, about the bytes of *)
(* the registry's entries, and about what the approval modal shows of a    *)
(* call's bytes.                                                           *)
EXTENDS RecordPrograms, Codec, SequenceTheorems, WellFoundedInduction, TLAPS

-----------------------------------------------------------------------------
(* The pointer and the testimonial program.                                *)

(* A transaction has a slot, and a record it may leave there. *)
LEMMA TransactionFields ==
  ASSUME NEW t \in Transactions
  PROVE  Address(t) \in Slots /\ RecordOf(t) \in Records
  BY DEF Transactions, Keys, Address, Slots, RecordOf, Records

(* RecordTypeOK is inductive. *)
LEMMA NextTypeOK ==
  ASSUME RecordTypeOK, [RecordNext]_recordVars
  PROVE  RecordTypeOK'
<1>1. CASE Submit
  BY <1>1 DEF Submit, RecordTypeOK
<1>2. CASE Execute
  <2>1. PICK t \in mempool :
          /\ records' = [records EXCEPT ![Address(t)] = RecordOf(t)]
          /\ mempool' \in {mempool, mempool \ {t}}
    BY <1>2 DEF Execute
  <2>2. t \in Transactions
    BY DEF RecordTypeOK
  <2>3. Address(t) \in Slots /\ RecordOf(t) \in Records
    BY <2>2, TransactionFields
  <2> QED
    BY <2>1, <2>3 DEF RecordTypeOK
<1>3. CASE Discard
  BY <1>3 DEF Discard, RecordTypeOK
<1>4. CASE UNCHANGED recordVars
  BY <1>4 DEF recordVars, RecordTypeOK
<1> QED
  BY <1>1, <1>2, <1>3, <1>4 DEF RecordNext

(* Every record and every transaction in flight is well formed. *)
THEOREM TypeCorrect == RecordSpec => []RecordTypeOK
<1>1. RecordInit => RecordTypeOK
  BY DEF RecordInit, RecordTypeOK
<1> QED
  BY <1>1, NextTypeOK, PTL DEF RecordSpec

(* The pointer and testimonial programs implement OwnedRecords with no     *)
(* amendable slot: the first record at an address is the last one.         *)
THEOREM RecordsAreOwned == RecordSpec => BookSpec
<1>1. RecordInit => Book!Init
  BY DEF RecordInit, Book!Init
<1>2. RecordTypeOK /\ [RecordNext]_recordVars => [Book!Next]_([s \in Slots |->
                    IF records[s] = NoRecord THEN NoRecord
                    ELSE [holder  |-> records[s].author,
                          birth   |-> records[s].key,
                          content |-> records[s].payload]])
  <2> SUFFICES ASSUME RecordTypeOK, [RecordNext]_recordVars
               PROVE  \/ Book!Next
                      \/ records' = records
    OBVIOUS
  <2>1. CASE Submit \/ Discard \/ UNCHANGED recordVars
    BY <2>1 DEF Submit, Discard, recordVars
  <2>2. CASE Execute
    <3>1. PICK t \in mempool :
            /\ Publishes(t)
            /\ records' = [records EXCEPT ![Address(t)] = RecordOf(t)]
      BY <2>2 DEF Execute
    <3>2. t \in Transactions
      BY DEF RecordTypeOK
    <3>3. Address(t) \in Slots /\ RecordOf(t) \in Records
      BY <3>2, TransactionFields
    <3>4. records[Address(t)] = NoRecord
      BY <3>1 DEF Publishes
    <3>5. records'[Address(t)] = RecordOf(t) /\ RecordOf(t) # NoRecord
      BY <3>1, <3>3, RecordAssumption DEF RecordTypeOK
    <3>6. \A s \in Slots \ {Address(t)} : records'[s] = records[s]
      BY <3>1 DEF RecordTypeOK
    <3>7. [holder |-> t.author, birth |-> t.key, content |-> t.payload]
            \in [holder : Users, birth : Keys, content : Payloads]
      BY <3>2 DEF Transactions
    <3>8. Book!Claim(Address(t))
      BY <3>3, <3>4, <3>5, <3>6, <3>7
         DEF Book!Claim, Book!Record, Book!Untouched, RecordOf
    <3> QED
      BY <3>3, <3>8 DEF Book!Next
  <2> QED
    BY <2>1, <2>2 DEF RecordNext
<1> QED
  BY <1>1, <1>2, TypeCorrect, PTL DEF RecordSpec, BookSpec, Book!Spec

-----------------------------------------------------------------------------
(* The bytes of a call.                                                    *)

(* A function on 1..n is a sequence of length n.                           *)
LEMMA FunctionsAreSequences ==
  ASSUME NEW S, NEW n \in Nat, NEW f \in [1..n -> S]
  PROVE  f \in Seq(S) /\ Len(f) = n
OBVIOUS

(* The value a caller means for a parameter, and the arguments by which a  *)
(* guest reads what the caller means.                                      *)
IdNames == {"program", "registry_program_id"}
Meant(f, name) == IF name \in IdNames THEN RegistryId ELSE f[name]
ArgFor(f, param) == Arg(param.type, Meant(f, param.name))
ArgsFor(f, params) == [i \in DOMAIN params |-> ArgFor(f, params[i])]

Named ==
  IdNames \cup
  {"name", "version", "description", "tags", "idl_cid", "source_cid", "repo_url",
   "commit", "build_config", "registered_at", "key", "value", "text", "username",
   "submission_id"}
Parameters == [name : Named, type : {Text, U64, Id}]

(* Arguments are taken one by one.                                         *)
LEMMA ArgsOfBoth ==
  ASSUME NEW f, NEW p \in Seq(Parameters), NEW q \in Seq(Parameters)
  PROVE  ArgsFor(f, p \o q) = ArgsFor(f, p) \o ArgsFor(f, q)
<1> DEFINE All == {ArgFor(f, x) : x \in Parameters}
<1>1. \A s \in Seq(Parameters) :
        /\ ArgsFor(f, s) \in Seq(All) /\ Len(ArgsFor(f, s)) = Len(s)
        /\ \A i \in 1..Len(s) : ArgsFor(f, s)[i] = ArgFor(f, s[i])
  BY FunctionsAreSequences DEF ArgsFor
<1> HIDE DEF All
<1> PICK a : a = ArgsFor(f, p)
  OBVIOUS
<1> PICK b : b = ArgsFor(f, q)
  OBVIOUS
<1> PICK c : c = ArgsFor(f, p \o q)
  OBVIOUS
<1>2. /\ p \o q \in Seq(Parameters) /\ Len(p \o q) = Len(p) + Len(q)
      /\ \A i \in 1..(Len(p) + Len(q)) :
           (p \o q)[i] = IF i <= Len(p) THEN p[i] ELSE q[i - Len(p)]
  BY ConcatProperties
<1>3. a \in Seq(All) /\ b \in Seq(All) /\ Len(a) = Len(p) /\ Len(b) = Len(q)
  BY <1>1
<1>4. /\ a \o b \in Seq(All) /\ Len(a \o b) = Len(p) + Len(q)
      /\ \A i \in 1..(Len(p) + Len(q)) :
           (a \o b)[i] = IF i <= Len(p) THEN a[i] ELSE b[i - Len(p)]
  <2>1. /\ a \o b \in Seq(All) /\ Len(a \o b) = Len(a) + Len(b)
        /\ \A i \in 1..(Len(a) + Len(b)) :
             (a \o b)[i] = IF i <= Len(a) THEN a[i] ELSE b[i - Len(a)]
    <3>1. a \in Seq(All) /\ b \in Seq(All)
      BY <1>3
    <3> QED
      BY <3>1, ConcatProperties
  <2> QED
    BY <1>3, <2>1
<1>5. c \in Seq(All) /\ Len(c) = Len(p) + Len(q)
  BY <1>1, <1>2
<1>6. ASSUME NEW i \in 1..(Len(p) + Len(q))
      PROVE  c[i] = (a \o b)[i]
  <2>1. c[i] = ArgFor(f, (p \o q)[i])
    BY <1>1, <1>2
  <2>2. CASE i <= Len(p)
    <3>1. i \in 1..Len(p)
      BY <2>2
    <3> QED
      BY <1>1, <1>2, <1>4, <2>1, <2>2, <3>1
  <2>3. CASE ~(i <= Len(p))
    <3>1. i - Len(p) \in 1..Len(q)
      BY <2>3
    <3> QED
      BY <1>1, <1>2, <1>4, <2>1, <2>3, <3>1
  <2> QED
    BY <2>2, <2>3
<1>7. c = a \o b
  BY <1>4, <1>5, <1>6, SeqEqual
<1> QED
  BY <1>7

(* One text after the other, and one parameter. *)
LEMMA ArgsOfTexts ==
  ASSUME NEW f, NEW names \in Seq(Named \ IdNames)
  PROVE  ArgsFor(f, TextParams(names)) = TextArgs(f, names)
BY DEF ArgsFor, ArgFor, TextParams, TextArgs, Param, Meant

(* A single parameter makes a single argument.                             *)
LEMMA ArgsOfOne ==
  ASSUME NEW f, NEW name, NEW type
  PROVE  ArgsFor(f, <<Param(name, type)>>) = <<Arg(type, Meant(f, name))>>
BY DEF ArgsFor, ArgFor, Param

(* What registrations and updates take.                                    *)
LEMMA NamesOfTexts ==
  /\ Amended \in Seq(Named \ IdNames) /\ EntryTexts \in Seq(Named \ IdNames)
<1> DEFINE N == Named \ IdNames
<1>1. /\ "name" \in N /\ "version" \in N /\ "description" \in N /\ "tags" \in N
      /\ "idl_cid" \in N /\ "source_cid" \in N /\ "repo_url" \in N
      /\ "commit" \in N /\ "build_config" \in N
  BY DEF IdNames, Named
<1> HIDE DEF N
<1>2. Amended \in Seq(N) /\ <<"name">> \in Seq(N)
  BY <1>1 DEF Amended
<1>3. <<"name">> \o Amended \in Seq(N)
  BY <1>2
<1> QED
  BY <1>2, <1>3 DEF EntryTexts, N

(* Every parameter of an instruction is one of these.                      *)
LEMMA ParamIsParameter ==
  ASSUME NEW name \in Named, NEW type \in {Text, U64, Id}
  PROVE  Param(name, type) \in Parameters /\ <<Param(name, type)>> \in Seq(Parameters)
BY DEF Param, Parameters

(* So are the text parameters of any names.                                *)
LEMMA TextsAreParameters ==
  ASSUME NEW names \in Seq(Named \ IdNames)
  PROVE  TextParams(names) \in Seq(Parameters)
<1>1. \A i \in 1..Len(names) : Param(names[i], Text) \in Parameters
  BY ParamIsParameter
<1>2. TextParams(names) = [i \in 1..Len(names) |-> Param(names[i], Text)]
  BY DEF TextParams
<1> QED
  BY <1>1, <1>2

(* So are those of the registry entry and of its amendment.                *)
LEMMA ParamsAreParameters ==
  /\ TextParams(Amended) \in Seq(Parameters)
  /\ TextParams(EntryTexts) \in Seq(Parameters)
  /\ <<Param("registered_at", U64)>> \in Seq(Parameters)
  /\ EntryParams \in Seq(Parameters)
<1>1. TextParams(Amended) \in Seq(Parameters) /\ TextParams(EntryTexts) \in Seq(Parameters)
  BY NamesOfTexts, TextsAreParameters
<1>2. <<Param("registered_at", U64)>> \in Seq(Parameters)
  BY ParamIsParameter DEF Named
<1>3. TextParams(EntryTexts) \o <<Param("registered_at", U64)>> \in Seq(Parameters)
  BY <1>1, <1>2
<1> QED
  BY <1>1, <1>2, <1>3 DEF EntryParams

(* encodeEntryFields writes what an entry's parameters ask for.            *)
LEMMA EntryArgs ==
  ASSUME NEW f
  PROVE  ArgsFor(f, EntryParams) = EncodeEntryFields(f)
<1>1. Meant(f, "registered_at") = f["registered_at"]
  BY DEF Meant, IdNames
<1>2. ArgsFor(f, <<Param("registered_at", U64)>>) = <<Arg(U64, f["registered_at"])>>
  BY <1>1, ArgsOfOne
<1>3. ArgsFor(f, TextParams(EntryTexts)) = TextArgs(f, EntryTexts)
  BY ArgsOfTexts, NamesOfTexts
<1>4. ArgsFor(f, TextParams(EntryTexts) \o <<Param("registered_at", U64)>>)
        = ArgsFor(f, TextParams(EntryTexts))
            \o ArgsFor(f, <<Param("registered_at", U64)>>)
  BY ArgsOfBoth, ParamsAreParameters
<1> QED
  BY <1>2, <1>3, <1>4 DEF EntryParams, EncodeEntryFields

(* With an id first, it is what the deployer's hooks ask for.              *)
LEMMA HookArgs ==
  ASSUME NEW f, NEW name \in IdNames
  PROVE  /\ ArgsFor(f, <<Param(name, Id)>> \o EntryParams)
              = <<Arg(Id, RegistryId)>> \o EncodeEntryFields(f)
         /\ ArgsFor(f, <<Param(name, Id)>> \o TextParams(Amended))
              = <<Arg(Id, RegistryId)>> \o UpdateFields(f)
<1>1. <<Param(name, Id)>> \in Seq(Parameters)
  BY ParamIsParameter DEF Named
<1>2. ArgsFor(f, <<Param(name, Id)>>) = <<Arg(Id, RegistryId)>>
  BY ArgsOfOne DEF Meant
<1>3. ArgsFor(f, TextParams(Amended)) = UpdateFields(f)
  BY ArgsOfTexts, NamesOfTexts DEF UpdateFields
<1>4. \A p \in Seq(Parameters) :
        ArgsFor(f, <<Param(name, Id)>> \o p)
          = ArgsFor(f, <<Param(name, Id)>>) \o ArgsFor(f, p)
  BY <1>1, ArgsOfBoth
<1> QED
  BY <1>2, <1>3, <1>4, EntryArgs, ParamsAreParameters

-----------------------------------------------------------------------------
(* Where an instruction stands in its IDL.                                 *)

Calls == SdkCalls \cup HandMadeCalls

(* What a call asks for: the instruction's position and its arguments.     *)
Asks(j, k, params) ==
  /\ j.by # "dapp" /\ k \in DOMAIN Idl(j)
  /\ Idl(j)[k] = Instruction(j.instruction, params)
  /\ \A i \in DOMAIN Idl(j) : Idl(j)[i].name = j.instruction => i = k

(* What is meant, once position and parameters are known.                  *)
LEMMA MeantIs ==
  ASSUME NEW j, NEW k, NEW params, Asks(j, k, params)
  PROVE  MeantData(j) = InstructionData(k - 1, ArgsFor(j.fields, params))
<1>1. /\ k \in DOMAIN Idl(j) /\ Idl(j)[k].name = j.instruction
      /\ Idl(j)[k].params = params
  BY DEF Asks, Instruction
<1>2. Position(j) = k
  BY <1>1 DEF Asks, Position
<1>3. Params(j) = params
  BY <1>1, <1>2 DEF Params
<1>4. \A i \in DOMAIN params : MeantValues(j)[i] = Meant(j.fields, params[i].name)
  BY <1>3 DEF Asks, MeantValues, Meant, IdNames
<1>5. [i \in DOMAIN Params(j) |-> Arg(Params(j)[i].type, MeantValues(j)[i])]
        = ArgsFor(j.fields, params)
  BY <1>3, <1>4 DEF ArgsFor, ArgFor
<1> QED
  BY <1>2, <1>5 DEF MeantData

(* The four instructions of the registry that are called.                  *)
LEMMA RegistryAsks ==
  ASSUME NEW by, by # "dapp", NEW f
  PROVE  /\ Asks(Call(by, "registry", "register_self", f), 2,
                 <<Param("program", Id)>> \o EntryParams)
         /\ Asks(Call(by, "registry", "register_third_party", f), 3, EntryParams)
         /\ Asks(Call(by, "registry", "update_third_party", f), 5,
                 TextParams(Amended))
<1>1. \A to : Idl(Call(by, "registry", to, f)) = RegistryIdl
  BY DEF Idl, Call
<1>2. \A to : Call(by, "registry", to, f).instruction = to
  BY DEF Call
<1>3. \A to : Call(by, "registry", to, f).by = by
  BY DEF Call
<1>4. /\ RegistryIdl[1].name = "register_deployer"
      /\ RegistryIdl[2] = Instruction("register_self", <<Param("program", Id)>> \o EntryParams)
      /\ RegistryIdl[3] = Instruction("register_third_party", EntryParams)
      /\ RegistryIdl[4].name = "update_deployer"
      /\ RegistryIdl[5] = Instruction("update_third_party", TextParams(Amended))
      /\ RegistryIdl[6].name = "update_self"
      /\ DOMAIN RegistryIdl = 1..6
  BY DEF RegistryIdl, Instruction
<1>5. /\ RegistryIdl[2].name = "register_self"
      /\ RegistryIdl[3].name = "register_third_party"
      /\ RegistryIdl[5].name = "update_third_party"
  BY <1>4 DEF Instruction
<1> QED
  BY <1>1, <1>2, <1>3, <1>4, <1>5 DEF Asks

(* The instructions of the pointer and the testimonial program.            *)
LEMMA HookAsks ==
  ASSUME NEW by, by # "dapp", NEW f, NEW p \in Hooked
  PROVE  /\ Asks(Call(by, p, "register_self", f), 2,
                 <<Param("registry_program_id", Id)>> \o EntryParams)
         /\ Asks(Call(by, p, "update_self", f), 3,
                 <<Param("registry_program_id", Id)>> \o TextParams(Amended))
         /\ p = "pointer" => Asks(Call(by, p, "publish", f), 1,
                                  TextParams(<<"key", "value">>))
         /\ p = "testimonial" =>
              Asks(Call(by, p, "submit", f), 1,
                   TextParams(<<"text", "username", "submission_id">>))
<1> PICK own : own = IF p = "pointer"
                     THEN Instruction("publish", TextParams(<<"key", "value">>))
                     ELSE Instruction("submit",
                            TextParams(<<"text", "username", "submission_id">>))
  OBVIOUS
<1>1. \A to : Idl(Call(by, p, to, f)) = HookIdl(own)
  BY DEF Idl, Call, Hooked, PointerIdl, TestimonialIdl
<1>2. \A to : Call(by, p, to, f).instruction = to
  BY DEF Call
<1>3. \A to : Call(by, p, to, f).by = by
  BY DEF Call
<1>4. /\ HookIdl(own)[1] = own
      /\ HookIdl(own)[2] = Instruction("register_self",
                              <<Param("registry_program_id", Id)>> \o EntryParams)
      /\ HookIdl(own)[3] = Instruction("update_self",
                              <<Param("registry_program_id", Id)>> \o TextParams(Amended))
      /\ DOMAIN HookIdl(own) = 1..3
  BY DEF HookIdl
<1>5. /\ HookIdl(own)[1].name = IF p = "pointer" THEN "publish" ELSE "submit"
      /\ HookIdl(own)[2].name = "register_self"
      /\ HookIdl(own)[3].name = "update_self"
  BY <1>4 DEF Instruction
<1> QED
  BY <1>1, <1>2, <1>3, <1>4, <1>5 DEF Asks, Hooked

(* The two encoders that pack words on their own write what the SDK's      *)
(* encoder would.                                                          *)
LEMMA PackedTexts ==
  ASSUME NEW f, NEW names, NEW texts, DOMAIN texts = DOMAIN names,
         \A i \in DOMAIN names : texts[i] = f[names[i]]
  PROVE  PackTexts(texts) = InstructionData(0, TextArgs(f, names))
<1>1. \A v : EncodeInto(Text, v, EncodeElements) = <<Len(v)>> \o PushBytesPadded(v)
  BY DEF EncodeInto, EncodeFlat, HasElements, Text
<1>2. DOMAIN TextArgs(f, names) = DOMAIN names
  BY DEF TextArgs
<1>3. \A i \in DOMAIN names :
        EncodeInto(TextArgs(f, names)[i].type, TextArgs(f, names)[i].value, EncodeElements)
          = <<Len(texts[i])>> \o PushBytesPadded(texts[i])
  BY <1>1 DEF TextArgs, Arg
<1>4. [i \in DOMAIN texts |-> <<Len(texts[i])>> \o PushBytesPadded(texts[i])]
        = [i \in DOMAIN TextArgs(f, names) |->
             EncodeInto(TextArgs(f, names)[i].type, TextArgs(f, names)[i].value,
                        EncodeElements)]
  BY <1>2, <1>3
<1> QED
  BY <1>4 DEF PackTexts, InstructionData, EncodeInstruction, EncodeArgs, EncodeEach

(* Every builder builds what is meant, but for the update of the           *)
(* registry's own entry.                                                   *)
LEMMA BuildersBuildWhatIsMeant ==
  ASSUME NEW j \in Calls, ~OwnUpdate(j)
  PROVE  Built(j) = MeantData(j)
<1>1. CASE \E p \in Hooked \cup {"registry"}, f \in FieldSets :
             j = Call("registerDeployer", p, "register_self", f)
  <2>1. PICK p \in Hooked \cup {"registry"}, f \in FieldSets :
               j = Call("registerDeployer", p, "register_self", f)
    BY <1>1
  <2>2. /\ j.by = "registerDeployer" /\ j.program = p /\ j.fields = f
    BY <2>1 DEF Call
  <2>3. Built(j) = InstructionData(1, <<Arg(Id, RegistryId)>> \o EncodeEntryFields(f))
    BY <2>2 DEF Built, RegisterDeployer, HookIndex
  <2>4. PICK name \in IdNames : Asks(j, 2, <<Param(name, Id)>> \o EntryParams)
    BY <2>1, RegistryAsks, HookAsks DEF IdNames
  <2>5. MeantData(j) = InstructionData(1, <<Arg(Id, RegistryId)>> \o EncodeEntryFields(f))
    <3>1. MeantData(j)
            = InstructionData(2 - 1, ArgsFor(f, <<Param(name, Id)>> \o EntryParams))
      BY <2>2, <2>4, MeantIs
    <3>2. ArgsFor(f, <<Param(name, Id)>> \o EntryParams)
            = <<Arg(Id, RegistryId)>> \o EncodeEntryFields(f)
      BY HookArgs
    <3>3. 2 - 1 = 1
      OBVIOUS
    <3> QED
      BY <3>1, <3>2, <3>3, Zenon
  <2> QED
    BY <2>3, <2>5
<1>2. CASE \E p \in Hooked \cup {"registry"}, f \in FieldSets :
             j = Call("updateDeployer", p, "update_self", f)
  <2>1. PICK p \in Hooked \cup {"registry"}, f \in FieldSets :
               j = Call("updateDeployer", p, "update_self", f)
    BY <1>2
  <2>2. /\ j.by = "updateDeployer" /\ j.program = p /\ j.fields = f
    BY <2>1 DEF Call
  <2>3. p \in Hooked
    BY <2>2 DEF OwnUpdate
  <2>4. Built(j) = InstructionData(2, <<Arg(Id, RegistryId)>> \o UpdateFields(f))
    BY <2>2, <2>3 DEF Built, UpdateDeployer, HookIndex, Hooked
  <2>5. Asks(j, 3, <<Param("registry_program_id", Id)>> \o TextParams(Amended))
    BY <2>1, <2>3, HookAsks
  <2>6. MeantData(j) = InstructionData(2, <<Arg(Id, RegistryId)>> \o UpdateFields(f))
    <3> PICK name \in IdNames : name = "registry_program_id"
      BY DEF IdNames
    <3>1. MeantData(j) = InstructionData(3 - 1,
            ArgsFor(f, <<Param(name, Id)>> \o TextParams(Amended)))
      BY <2>2, <2>5, MeantIs
    <3>2. ArgsFor(f, <<Param(name, Id)>> \o TextParams(Amended))
            = <<Arg(Id, RegistryId)>> \o UpdateFields(f)
      BY HookArgs
    <3>3. 3 - 1 = 2
      OBVIOUS
    <3> QED
      BY <3>1, <3>2, <3>3, Zenon
  <2> QED
    BY <2>4, <2>6
<1>3. CASE \E f \in FieldSets :
             j = Call("registerThirdParty", "registry", "register_third_party", f)
  <2>1. PICK f \in FieldSets :
               j = Call("registerThirdParty", "registry", "register_third_party", f)
    BY <1>3
  <2>2. j.by = "registerThirdParty" /\ j.fields = f
    BY <2>1 DEF Call
  <2>3. Asks(j, 3, EntryParams)
    BY <2>1, RegistryAsks
  <2> QED
    BY <2>2, <2>3, MeantIs, EntryArgs DEF Built, RegisterThirdParty
<1>4. CASE \E f \in FieldSets :
             j = Call("updateThirdParty", "registry", "update_third_party", f)
  <2>1. PICK f \in FieldSets :
               j = Call("updateThirdParty", "registry", "update_third_party", f)
    BY <1>4
  <2>2. j.by = "updateThirdParty" /\ j.fields = f
    BY <2>1 DEF Call
  <2>3. Asks(j, 5, TextParams(Amended))
    BY <2>1, RegistryAsks
  <2>4. ArgsFor(f, TextParams(Amended)) = UpdateFields(f)
    BY ArgsOfTexts, NamesOfTexts DEF UpdateFields
  <2> QED
    BY <2>2, <2>3, <2>4, MeantIs DEF Built, UpdateThirdParty
<1>5. CASE \E f \in FieldSets : j = Call("publishPointer", "pointer", "publish", f)
  <2>1. PICK f \in FieldSets : j = Call("publishPointer", "pointer", "publish", f)
    BY <1>5
  <2>2. j.by = "publishPointer" /\ j.fields = f
    BY <2>1 DEF Call
  <2>3. PICK names : names = <<"key", "value">>
    OBVIOUS
  <2>4. Asks(j, 1, TextParams(names))
    BY <2>1, <2>3, HookAsks DEF Hooked
  <2>5. names \in Seq(Named \ IdNames)
    BY <2>3 DEF Named, IdNames
  <2>6. PackTexts(<<f["key"], f["value"]>>) = InstructionData(0, TextArgs(f, names))
    BY <2>3, PackedTexts
  <2>7. MeantData(j) = InstructionData(0, TextArgs(f, names))
    BY <2>2, <2>4, <2>5, MeantIs, ArgsOfTexts
  <2> QED
    BY <2>2, <2>6, <2>7 DEF Built, PublishPointer
<1>6. CASE \E f \in FieldSets :
             j = Call("buildTestimonialCall", "testimonial", "submit", f)
  <2>1. PICK f \in FieldSets :
               j = Call("buildTestimonialCall", "testimonial", "submit", f)
    BY <1>6
  <2>2. j.by = "buildTestimonialCall" /\ j.fields = f
    BY <2>1 DEF Call
  <2>3. PICK names : names = <<"text", "username", "submission_id">>
    OBVIOUS
  <2>4. Asks(j, 1, TextParams(names))
    BY <2>1, <2>3, HookAsks DEF Hooked
  <2>5. names \in Seq(Named \ IdNames)
    BY <2>3 DEF Named, IdNames
  <2>6. PackTexts(<<f["text"], f["username"], f["submission_id"]>>)
          = InstructionData(0, TextArgs(f, names))
    BY <2>3, PackedTexts
  <2>7. MeantData(j) = InstructionData(0, TextArgs(f, names))
    BY <2>2, <2>4, <2>5, MeantIs, ArgsOfTexts
  <2> QED
    BY <2>2, <2>6, <2>7 DEF Built, BuildTestimonialCall
<1> QED
  BY <1>1, <1>2, <1>3, <1>4, <1>5, <1>6 DEF Calls, SdkCalls, HandMadeCalls

(* What a job has come to. *)
Jobs == Calls \cup DappCalls \cup Lookups \cup ForeignLookups

CallInv == job \in Jobs /\ BuiltCallsReachTheirGuest

(* Whatever instruction a builder of this repository produces, but for     *)
(* updateDeployer on the registry itself, whose extra argument the guest   *)
(* does not take: the guest reads every parameter as the value the caller  *)
(* passed for it, for every content of the fields, every byte width and    *)
(* every length of text.                                                   *)
THEOREM CallsReachTheirGuest == CodecSpec => []BuiltCallsReachTheirGuest
<1>1. CodecInit => CallInv
  BY DEF CodecInit, CallInv, Jobs, Calls, BuiltCallsReachTheirGuest, Reaches
<1>2. CallInv /\ [CodecNext]_codecVars => CallInv'
  <2> SUFFICES ASSUME CallInv, [CodecNext]_codecVars PROVE CallInv'
    OBVIOUS
  <2>1. job' = job /\ job \in Jobs
    BY DEF CallInv, CodecNext, Build, CutShort, Describe, Fetch, Lookup, codecVars
  <2>2. SUFFICES ASSUME job.by # "dapp", ~LooksUp(job), ~OwnUpdate(job)
                 PROVE  stage' # "asked" => data' = MeantData(job)
    BY <2>1 DEF CallInv, BuiltCallsReachTheirGuest, Reaches
  <2>3. stage # "asked" => data = MeantData(job)
    BY <2>2 DEF CallInv, BuiltCallsReachTheirGuest, Reaches
  <2>4. CASE Build
    <3>1. job \in Calls
      BY <2>1, <2>2 DEF Jobs, DappCalls, Lookups, ForeignLookups, LooksUp
    <3> QED
      BY <2>2, <2>4, <3>1, BuildersBuildWhatIsMeant DEF Build
  <2>5. CASE Describe \/ UNCHANGED codecVars
    BY <2>3, <2>5 DEF Describe, codecVars
  <2>6. CASE CutShort \/ Fetch \/ Lookup
    BY <2>2, <2>6 DEF CutShort, Fetch, Lookup, LooksUp
  <2> QED
    BY <2>4, <2>5, <2>6 DEF CodecNext
<1>3. CallInv => BuiltCallsReachTheirGuest
  BY DEF CallInv
<1> QED
  BY <1>1, <1>2, <1>3, PTL DEF CodecSpec

-----------------------------------------------------------------------------
(* Numbers *)

(* Bytes and words have values, zero among them.                           *)
LEMMA Bases ==
  /\ ByteBase \in Nat \ {0} /\ WordBase \in Nat \ {0} /\ IdBytes \in Nat
  /\ Byte \subseteq Nat /\ {0, 1} \subseteq Byte
<1>1. \A a, b \in Nat \ {0} : a * b \in Nat \ {0}
  OBVIOUS
<1> QED
  BY <1>1, CodecAssumption DEF WordBase, Byte

(* Quotient and remainder.                                                 *)
LEMMA Division ==
  ASSUME NEW v \in Nat, NEW b \in Nat \ {0}
  PROVE  /\ v = b * (v \div b) + (v % b)
         /\ v % b \in 0 .. b - 1 /\ v \div b \in Nat
         /\ \A c \in Nat : v < b * c => v \div b < c
         /\ v < b => v % b = v
OBVIOUS

(* The four digits of a number below the fourth power make it.             *)
LEMMA DigitsMakeTheNumber ==
  ASSUME NEW b \in Nat \ {0}, NEW v \in Nat, v < b * b * b * b
  PROVE  /\ FourDigits(v, b) \in Seq(0 .. b - 1) /\ Len(FourDigits(v, b)) = 4
         /\ OfFour(FourDigits(v, b), b) = v
<1> PICK v2 : v2 = v \div b
  OBVIOUS
<1> PICK v3 : v3 = v2 \div b
  OBVIOUS
<1> PICK v4 : v4 = v3 \div b
  OBVIOUS
<1>1. /\ b * b \in Nat /\ b * (b * b) \in Nat
      /\ b * b * b * b = b * (b * (b * b))
  OBVIOUS
<1>2. v2 \in Nat /\ v2 < b * (b * b) /\ v = b * v2 + (v % b) /\ v % b \in 0 .. b - 1
  BY <1>1, Division
<1>3. v3 \in Nat /\ v3 < b * b /\ v2 = b * v3 + (v2 % b) /\ v2 % b \in 0 .. b - 1
  BY <1>1, <1>2, Division
<1>4. v4 \in Nat /\ v4 < b /\ v3 = b * v4 + (v3 % b) /\ v3 % b \in 0 .. b - 1
  BY <1>1, <1>3, Division
<1>5. v4 % b = v4 /\ v4 % b \in 0 .. b - 1
  BY <1>4, Division
<1>6. FourDigits(v, b) = <<v % b, v2 % b, v3 % b, v4 % b>>
  BY DEF FourDigits
<1>7. OfFour(FourDigits(v, b), b)
        = (v % b) + b * ((v2 % b) + b * ((v3 % b) + b * (v4 % b)))
  BY <1>6 DEF OfFour
<1>8. (v % b) + b * ((v2 % b) + b * ((v3 % b) + b * (v4 % b))) = v
  <2>1. (v3 % b) + b * (v4 % b) = v3
    BY <1>4, <1>5
  <2>2. (v2 % b) + b * v3 = v2
    BY <1>3, <1>4
  <2>3. (v % b) + b * v2 = v
    BY <1>2, <1>3
  <2> QED
    BY <2>1, <2>2, <2>3
<1> QED
  BY <1>2, <1>3, <1>4, <1>5, <1>6, <1>7, <1>8

(* The two halves of a u64 make it.                                        *)
LEMMA HalvesMakeTheNumber ==
  ASSUME NEW v \in 0 .. WordBase * WordBase - 1
  PROVE  /\ Halves(v)[1] \in 0 .. WordBase - 1 /\ Halves(v)[2] \in 0 .. WordBase - 1
         /\ OfHalves(Halves(v)[1], Halves(v)[2]) = v
<1>1. v \in Nat /\ v < WordBase * WordBase /\ WordBase \in Nat \ {0}
  BY Bases
<1>2. /\ v = WordBase * (v \div WordBase) + (v % WordBase)
      /\ v % WordBase \in 0 .. WordBase - 1
      /\ v \div WordBase \in Nat /\ v \div WordBase < WordBase
  BY <1>1, Division
<1>3. (v \div WordBase) % WordBase = v \div WordBase
  BY <1>1, <1>2, Division
<1> QED
  BY <1>1, <1>2, <1>3 DEF Halves, OfHalves

(* One word is four bytes, two are eight.                                  *)
LEMMA PlaceInItsWord ==
  /\ \A i \in 1 .. 4 : ((i - 1) % 4) + 1 = i
  /\ \A i \in 5 .. 8 : ((i - 1) % 4) + 1 = i - 4
OBVIOUS

(* The bytes of a word are its digits.                                     *)
LEMMA BytesOfAWord ==
  ASSUME NEW w \in 0 .. WordBase - 1
  PROVE  /\ WordsToBytes(<<w>>) \in Seq(Byte) /\ Len(WordsToBytes(<<w>>)) = 4
         /\ \A j \in 1 .. 4 : WordsToBytes(<<w>>)[j] = FourDigits(w, ByteBase)[j]
<1> PICK d : d = FourDigits(w, ByteBase)
  OBVIOUS
<1>1. d \in Seq(Byte) /\ Len(d) = 4
  BY Bases, DigitsMakeTheNumber DEF WordBase, Byte
<1>2. WordsToBytes(<<w>>) = [i \in 1 .. 4 |-> d[((i - 1) % 4) + 1]]
  <2>1. \A i \in 1 .. 4 : (i + 3) \div 4 = 1
    OBVIOUS
  <2> QED
    BY <2>1 DEF WordsToBytes
<1>3. \A i \in 1 .. 4 : d[i] \in Byte
  BY <1>1, ElementOfSeq
<1>4. /\ \A i \in 1 .. 4 : WordsToBytes(<<w>>)[i] = d[i]
      /\ WordsToBytes(<<w>>) \in [1 .. 4 -> Byte]
  BY <1>2, <1>3, PlaceInItsWord
<1>5. WordsToBytes(<<w>>) \in Seq(Byte) /\ Len(WordsToBytes(<<w>>)) = 4
  <2>1. 4 \in Nat
    OBVIOUS
  <2>2. WordsToBytes(<<w>>) \in [1 .. 4 -> Byte]
    BY <1>4
  <2> QED
    BY <2>1, <2>2, FunctionsAreSequences, Zenon
<1> QED
  BY <1>4, <1>5

(* The bytes of two words are the digits of each.                          *)
LEMMA BytesOfTwoWords ==
  ASSUME NEW v \in 0 .. WordBase - 1, NEW w \in 0 .. WordBase - 1
  PROVE  /\ WordsToBytes(<<v, w>>) \in Seq(Byte) /\ Len(WordsToBytes(<<v, w>>)) = 8
         /\ \A j \in 1 .. 4 :
              /\ WordsToBytes(<<v, w>>)[j] = FourDigits(v, ByteBase)[j]
              /\ WordsToBytes(<<v, w>>)[4 + j] = FourDigits(w, ByteBase)[j]
<1> PICK d : d = FourDigits(v, ByteBase)
  OBVIOUS
<1> PICK c : c = FourDigits(w, ByteBase)
  OBVIOUS
<1>1. d \in Seq(Byte) /\ Len(d) = 4 /\ c \in Seq(Byte) /\ Len(c) = 4
  BY Bases, DigitsMakeTheNumber DEF WordBase, Byte
<1>2. WordsToBytes(<<v, w>>)
        = [i \in 1 .. 8 |-> (IF i <= 4 THEN d ELSE c)[((i - 1) % 4) + 1]]
  <2>1. \A i \in 1 .. 8 : (i + 3) \div 4 = IF i <= 4 THEN 1 ELSE 2
    OBVIOUS
  <2>2. \A i \in 1 .. 8 : FourDigits(<<v, w>>[(i + 3) \div 4], ByteBase)
                            = IF i <= 4 THEN d ELSE c
    BY <2>1
  <2>3. 4 * Len(<<v, w>>) = 8
    OBVIOUS
  <2> QED
    BY <2>2, <2>3 DEF WordsToBytes
<1>3. \A i \in 1 .. 4 : d[i] \in Byte /\ c[i] \in Byte
  BY <1>1, ElementOfSeq
<1>4. /\ \A i \in 1 .. 4 : WordsToBytes(<<v, w>>)[i] = d[i]
      /\ \A i \in 5 .. 8 : WordsToBytes(<<v, w>>)[i] = c[i - 4]
  BY <1>2, PlaceInItsWord
<1>5. WordsToBytes(<<v, w>>) \in [1 .. 8 -> Byte]
  <2>1. \A i \in 1 .. 8 : WordsToBytes(<<v, w>>)[i] \in Byte
    <3> SUFFICES ASSUME NEW i \in 1 .. 8 PROVE WordsToBytes(<<v, w>>)[i] \in Byte
      OBVIOUS
    <3>1. CASE i <= 4
      BY <1>3, <1>4, <3>1
    <3>2. CASE ~(i <= 4)
      <4>1. i \in 5 .. 8 /\ i - 4 \in 1 .. 4
        BY <3>2
      <4> QED
        BY <1>3, <1>4, <4>1
    <3> QED
      BY <3>1, <3>2
  <2> QED
    BY <1>2, <2>1
<1>6. \A j \in 1 .. 4 : WordsToBytes(<<v, w>>)[4 + j] = c[j]
  BY <1>4
<1>7. WordsToBytes(<<v, w>>) \in Seq(Byte) /\ Len(WordsToBytes(<<v, w>>)) = 8
  <2>1. 8 \in Nat
    OBVIOUS
  <2> QED
    BY <1>5, <2>1, FunctionsAreSequences, Zenon
<1> QED
  BY <1>4, <1>6, <1>7

-----------------------------------------------------------------------------
(* Bytes in their place                                                    *)

Stands(x, s, k) ==
  k + Len(x) <= Len(s) + 1 /\ \A i \in 1 .. Len(x) : s[k + i - 1] = x[i]

(* What is appended stands behind what was there.                          *)
LEMMA Appending ==
  ASSUME NEW s \in Seq(Byte), NEW x \in Seq(Byte)
  PROVE  /\ s \o x \in Seq(Byte) /\ Len(s \o x) = Len(s) + Len(x)
         /\ Stands(x, s \o x, Len(s) + 1)
         /\ \A y \in Seq(Byte), k \in Nat \ {0} :
              Stands(y, s, k) => Stands(y, s \o x, k)
<1>1. /\ s \o x \in Seq(Byte) /\ Len(s \o x) = Len(s) + Len(x)
      /\ \A i \in 1..(Len(s) + Len(x)) :
           (s \o x)[i] = IF i <= Len(s) THEN s[i] ELSE x[i - Len(s)]
  BY ConcatProperties
<1>2. Stands(x, s \o x, Len(s) + 1)
  <2> SUFFICES ASSUME NEW i \in 1 .. Len(x)
               PROVE  (s \o x)[Len(s) + 1 + i - 1] = x[i]
    BY <1>1 DEF Stands
  <2>1. Len(s) + i \in 1..(Len(s) + Len(x)) /\ ~(Len(s) + i <= Len(s))
    OBVIOUS
  <2> QED
    BY <1>1, <2>1
<1>3. ASSUME NEW y \in Seq(Byte), NEW k \in Nat \ {0}, Stands(y, s, k)
      PROVE  Stands(y, s \o x, k)
  <2> SUFFICES ASSUME NEW i \in 1 .. Len(y)
               PROVE  (s \o x)[k + i - 1] = y[i]
    BY <1>1, <1>3 DEF Stands
  <2>1. k + i - 1 \in 1 .. Len(s)
    BY <1>3 DEF Stands
  <2> QED
    BY <1>1, <1>3, <2>1 DEF Stands
<1> QED
  BY <1>1, <1>2, <1>3

(* Part of what stands, stands.                                            *)
LEMMA StandsInParts ==
  ASSUME NEW s \in Seq(Byte), NEW x \in Seq(Byte), NEW y \in Seq(Byte),
         NEW k \in Nat \ {0}, Stands(x \o y, s, k)
  PROVE  Stands(x, s, k) /\ Stands(y, s, k + Len(x))
<1>1. /\ x \o y \in Seq(Byte) /\ Len(x \o y) = Len(x) + Len(y)
      /\ \A i \in 1..(Len(x) + Len(y)) :
           (x \o y)[i] = IF i <= Len(x) THEN x[i] ELSE y[i - Len(x)]
  BY ConcatProperties
<1>2. Stands(x, s, k)
  <2> SUFFICES ASSUME NEW i \in 1 .. Len(x) PROVE s[k + i - 1] = x[i]
    BY <1>1 DEF Stands
  <2>1. i \in 1..(Len(x) + Len(y)) /\ i <= Len(x)
    OBVIOUS
  <2>2. s[k + i - 1] = (x \o y)[i]
    BY <1>1, <2>1 DEF Stands
  <2> QED
    BY <1>1, <2>1, <2>2
<1>3. Stands(y, s, k + Len(x))
  <2> SUFFICES ASSUME NEW i \in 1 .. Len(y)
               PROVE  s[k + Len(x) + i - 1] = y[i]
    BY <1>1 DEF Stands
  <2>1. /\ Len(x) + i \in 1..(Len(x) + Len(y)) /\ ~(Len(x) + i <= Len(x))
        /\ k + Len(x) + i - 1 = k + (Len(x) + i) - 1 /\ (Len(x) + i) - Len(x) = i
    OBVIOUS
  <2>2. s[k + (Len(x) + i) - 1] = (x \o y)[Len(x) + i]
    BY <1>1, <2>1 DEF Stands
  <2> QED
    BY <1>1, <2>1, <2>2
<1> QED
  BY <1>2, <1>3

(* A word is read where its bytes stand.                                   *)
LEMMA WordOfDigits ==
  ASSUME NEW s \in Seq(Byte), NEW k \in Nat \ {0}, NEW w \in 0 .. WordBase - 1,
         \A j \in 1 .. 4 : k + j - 1 \in 1 .. Len(s)
                           /\ s[k + j - 1] = FourDigits(w, ByteBase)[j]
  PROVE  WordAt(s, k) = w
<1> PICK d : d = FourDigits(w, ByteBase)
  OBVIOUS
<1>1. \A j \in 1 .. 4 : ByteAt(s, k + j - 1) = d[j]
  BY DEF ByteAt
<1>2. [j \in 1 .. 4 |-> ByteAt(s, k + j - 1)] = [j \in 1 .. 4 |-> d[j]]
  BY <1>1
<1>3. WordAt(s, k) = OfFour([j \in 1 .. 4 |-> d[j]], ByteBase)
  BY <1>2 DEF WordAt
<1>4. OfFour([j \in 1 .. 4 |-> d[j]], ByteBase) = OfFour(d, ByteBase)
  BY DEF OfFour
<1>5. OfFour(d, ByteBase) = w
  BY Bases, DigitsMakeTheNumber DEF WordBase
<1> QED
  BY <1>3, <1>4, <1>5

(* The word whose bytes stand here.                                        *)
LEMMA WordThatStands ==
  ASSUME NEW s \in Seq(Byte), NEW k \in Nat \ {0}, NEW w \in 0 .. WordBase - 1,
         Stands(WordsToBytes(<<w>>), s, k)
  PROVE  WordAt(s, k) = w
<1> PICK b : b = WordsToBytes(<<w>>)
  OBVIOUS
<1>1. Len(b) = 4 /\ \A j \in 1 .. 4 : b[j] = FourDigits(w, ByteBase)[j]
  BY BytesOfAWord
<1>2. k + 4 <= Len(s) + 1 /\ \A j \in 1 .. 4 : s[k + j - 1] = b[j]
  BY <1>1 DEF Stands
<1>3. \A j \in 1 .. 4 : k + j - 1 \in 1 .. Len(s)
  BY <1>2, LenProperties
<1> QED
  BY <1>1, <1>2, <1>3, WordOfDigits

(* Two words in a row.                                                     *)
LEMMA TwoWordsThatStand ==
  ASSUME NEW s \in Seq(Byte), NEW k \in Nat \ {0},
         NEW v \in 0 .. WordBase - 1, NEW w \in 0 .. WordBase - 1,
         Stands(WordsToBytes(<<v, w>>), s, k)
  PROVE  WordAt(s, k) = v /\ WordAt(s, k + 4) = w
<1> PICK b : b = WordsToBytes(<<v, w>>)
  OBVIOUS
<1>1. /\ Len(b) = 8
      /\ \A j \in 1 .. 4 : /\ b[j] = FourDigits(v, ByteBase)[j]
                           /\ b[4 + j] = FourDigits(w, ByteBase)[j]
  BY BytesOfTwoWords
<1>2. k + 8 <= Len(s) + 1 /\ \A i \in 1 .. 8 : s[k + i - 1] = b[i]
  BY <1>1 DEF Stands
<1>3. \A j \in 1 .. 4 : k + j - 1 \in 1 .. Len(s)
                        /\ s[k + j - 1] = FourDigits(v, ByteBase)[j]
  <2>1. \A j \in 1 .. 4 : k + j - 1 \in 1 .. Len(s)
    BY <1>2, LenProperties, SMTT(30)
  <2>2. \A j \in 1 .. 4 : j \in 1 .. 8
    OBVIOUS
  <2> QED
    BY <1>1, <1>2, <2>1, <2>2
<1>4. ASSUME NEW j \in 1 .. 4
      PROVE  (k + 4) + j - 1 \in 1 .. Len(s)
             /\ s[(k + 4) + j - 1] = FourDigits(w, ByteBase)[j]
  <2>1. 4 + j \in 1 .. 8 /\ k + (4 + j) - 1 = (k + 4) + j - 1
    OBVIOUS
  <2>2. s[k + (4 + j) - 1] = b[4 + j]
    BY <1>2, <2>1
  <2>3. (k + 4) + j - 1 \in 1 .. Len(s)
    <3>1. k + 8 <= Len(s) + 1 /\ Len(s) \in Nat
      BY <1>2, LenProperties
    <3> QED
      BY <3>1
  <2> QED
    BY <1>1, <2>1, <2>2, <2>3
<1>5. WordAt(s, k) = v
  BY <1>3, WordOfDigits
<1>6. WordAt(s, k + 4) = w
  <2>1. k + 4 \in Nat \ {0}
    OBVIOUS
  <2> QED
    BY <1>4, <2>1, WordOfDigits
<1> QED
  BY <1>5, <1>6

(* A slice gives back what stands there.                                   *)
LEMMA SliceThatStands ==
  ASSUME NEW s \in Seq(Byte), NEW x \in Seq(Byte), NEW k \in Nat \ {0}, Stands(x, s, k)
  PROVE  Slice(s, k, Len(x)) = x
<1>1. /\ Len(x) \in Nat /\ Len(s) \in Nat /\ k + Len(x) - 1 <= Len(s)
      /\ \A i \in 1 .. Len(x) : s[k + i - 1] = x[i]
  BY DEF Stands
<1>2. Slice(s, k, Len(x)) = SubSeq(s, k, k + Len(x) - 1)
  <2>1. Clamp(s, k - 1) = k - 1 /\ Clamp(s, k - 1 + Len(x)) = k + Len(x) - 1
    BY <1>1 DEF Clamp
  <2> QED
    BY <2>1 DEF Slice
<1>3. SubSeq(s, k, k + Len(x) - 1) = [i \in 1 .. Len(x) |-> s[k + i - 1]]
  <2>1. (k + Len(x) - 1) - k + 1 = Len(x)
    BY <1>1
  <2>2. SubSeq(s, k, k + Len(x) - 1)
          = [i \in 1 .. (k + Len(x) - 1) - k + 1 |-> s[i + k - 1]]
    BY <1>1
  <2> QED
    BY <1>1, <2>1, <2>2
<1>4. x = [i \in 1 .. Len(x) |-> x[i]]
  OBVIOUS
<1> QED
  BY <1>1, <1>2, <1>3, <1>4

(* The first n bytes, and what stands within them.                         *)
LEMMA FirstBytes ==
  ASSUME NEW s \in Seq(Byte), NEW n \in 0 .. Len(s)
  PROVE  /\ SubSeq(s, 1, n) \in Seq(Byte) /\ Len(SubSeq(s, 1, n)) = n
         /\ n = Len(s) => SubSeq(s, 1, n) = s
         /\ \A x \in Seq(Byte), k \in Nat \ {0} :
              Stands(x, s, k) /\ k + Len(x) <= n + 1 => Stands(x, SubSeq(s, 1, n), k)
<1> PICK b : b = SubSeq(s, 1, n)
  OBVIOUS
<1>1. b = [i \in 1 .. n |-> s[i]]
  OBVIOUS
<1>2. \A i \in 1 .. n : i \in 1 .. Len(s) /\ s[i] \in Byte
  BY ElementOfSeq
<1>3. b \in [1 .. n -> Byte]
  BY <1>1, <1>2
<1>4. b \in Seq(Byte) /\ Len(b) = n
  BY <1>3, FunctionsAreSequences
<1>5. n = Len(s) => b = s
  BY <1>1
<1>6. ASSUME NEW x \in Seq(Byte), NEW k \in Nat \ {0},
             Stands(x, s, k), k + Len(x) <= n + 1
      PROVE  Stands(x, b, k)
  <2> SUFFICES ASSUME NEW i \in 1 .. Len(x) PROVE b[k + i - 1] = x[i]
    BY <1>4, <1>6 DEF Stands
  <2>1. k + i - 1 \in 1 .. n
    BY <1>6
  <2>2. s[k + i - 1] = x[i]
    BY <1>6 DEF Stands
  <2> QED
    BY <1>1, <2>1, <2>2
<1> QED
  BY <1>4, <1>5, <1>6

(* A word below half of what a word can count is read as it stands.        *)
LEMMA SmallWordsAreTheirOwn ==
  ASSUME NEW s, NEW k, 2 * WordAt(s, k) < WordBase
  PROVE  SignedAt(s, k) = WordAt(s, k)
  BY DEF SignedAt

(* So is one of whose bytes the last is missing.                           *)
LEMMA CutWordsAreTheirOwn ==
  ASSUME NEW s \in Seq(Byte), NEW k \in Nat, k + 3 > Len(s)
  PROVE  SignedAt(s, k) \in Nat
<1> PICK b, x, y, z : b = ByteBase /\ x = ByteAt(s, k) /\ y = ByteAt(s, k + 1)
                      /\ z = ByteAt(s, k + 2)
  OBVIOUS
<1>1. b \in Nat /\ b >= 2
  BY CodecAssumption
<1>2. \A i : ByteAt(s, i) \in 0 .. b - 1
  <2> SUFFICES ASSUME NEW i, i \in DOMAIN s PROVE s[i] \in 0 .. b - 1
    BY <1>1 DEF ByteAt
  <2>1. i \in 1 .. Len(s)
    BY LenProperties
  <2> QED
    BY <2>1, ElementOfSeq DEF Byte
<1>3. ByteAt(s, k + 3) = 0
  <2>1. k + 3 \notin DOMAIN s
    BY LenProperties
  <2> QED
    BY <2>1 DEF ByteAt
<1>4. WordAt(s, k) = x + b * (y + b * (z + b * 0))
  <2>1. k + 1 - 1 = k /\ k + 2 - 1 = k + 1 /\ k + 3 - 1 = k + 2 /\ k + 4 - 1 = k + 3
    OBVIOUS
  <2> QED
    BY <1>3, <2>1 DEF WordAt, OfFour
<1>5. \A u, m \in Nat, c \in 0 .. b - 1 : u < m => c + b * u \in Nat /\ c + b * u < b * m
  <2> TAKE u \in Nat, m \in Nat, c \in 0 .. b - 1
  <2>1. u < m => b * (u + 1) <= b * m
    BY <1>1
  <2>2. b * (u + 1) = b * u + b /\ b * u \in Nat
    BY <1>1
  <2> QED
    BY <1>1, <2>1, <2>2
<1>6. z + b * 0 \in Nat /\ z + b * 0 < b * 1
  BY <1>1, <1>2
<1> PICK u : u = y + b * (z + b * 0)
  OBVIOUS
<1>7. u \in Nat /\ u < b * (b * 1) /\ b * 1 \in Nat /\ b * (b * 1) \in Nat
  <2> PICK v, m : v = z + b * 0 /\ m = b * 1
    OBVIOUS
  <2>1. v \in Nat /\ v < m /\ m \in Nat
    BY <1>1, <1>6
  <2>2. y \in 0 .. b - 1 /\ u = y + b * v
    BY <1>2
  <2>3. u \in Nat /\ u < b * m
    <3>1. v \in Nat /\ m \in Nat /\ y \in 0 .. b - 1 /\ v < m
      BY <2>1, <2>2
    <3>2. y + b * v \in Nat /\ y + b * v < b * m
      BY ONLY <1>5, <3>1, Zenon
    <3> QED
      BY <2>2, <3>2
  <2>4. b * m \in Nat
    BY <1>1, <2>1
  <2> QED
    BY <2>1, <2>3, <2>4
<1> PICK w : w = x + b * u
  OBVIOUS
<1>8. w \in Nat /\ w < b * (b * (b * 1)) /\ WordAt(s, k) = w
  BY <1>2, <1>4, <1>5, <1>7
<1>9. 2 * w < WordBase
  <2> PICK q : q = b * (b * (b * 1))
    OBVIOUS
  <2>1. q \in Nat /\ b * q >= 2 * q
    BY <1>1, <1>7
  <2>2. WordBase = b * q
    BY <1>1 DEF WordBase
  <2> QED
    BY <1>8, <2>1, <2>2
<1> QED
  BY <1>8, <1>9, SmallWordsAreTheirOwn

-----------------------------------------------------------------------------
(* An entry, part by part                                                  *)

Parts(e) ==
  << e.program_id, e.author, <<e.kind>>,
     BorshText(e.texts[1]), BorshText(e.texts[2]), BorshText(e.texts[3]),
     BorshText(e.texts[4]), BorshText(e.texts[5]), BorshText(e.texts[6]),
     BorshText(e.texts[7]), BorshText(e.texts[8]), BorshText(e.texts[9]),
     WordsToBytes(Halves(e.registered_at)) >>

(* What the registry holds, field by field.                                *)
LEMMA EntryFields ==
  ASSUME NEW e \in Entries
  PROVE  /\ e.program_id \in Seq(Byte) /\ Len(e.program_id) = IdBytes
         /\ e.author \in Seq(Byte) /\ Len(e.author) = IdBytes
         /\ e.kind \in {0, 1}
         /\ e.texts \in [1 .. 9 -> Seq(Byte)]
         /\ \A i \in 1 .. 9 : /\ e.texts[i] \in Seq(Byte)
                              /\ Len(e.texts[i]) \in 0 .. WordBase - 1
                              /\ 2 * Len(e.texts[i]) < WordBase
         /\ e.registered_at \in 0 .. WordBase * WordBase - 1
         /\ e = [program_id |-> e.program_id, author |-> e.author, kind |-> e.kind,
                 texts |-> e.texts, registered_at |-> e.registered_at]
<1>1. /\ e \in [program_id : [1 .. IdBytes -> Byte], author : [1 .. IdBytes -> Byte],
                kind : {0, 1}, texts : [1 .. 9 -> Seq(Byte)],
                registered_at : 0 .. WordBase * WordBase - 1]
      /\ \A i \in 1 .. 9 : 2 * Len(e.texts[i]) < WordBase
  BY EntriesAssumption
<1>2. /\ e.program_id \in [1 .. IdBytes -> Byte]
      /\ e.author \in [1 .. IdBytes -> Byte]
      /\ e.kind \in {0, 1} /\ e.texts \in [1 .. 9 -> Seq(Byte)]
      /\ e.registered_at \in 0 .. WordBase * WordBase - 1
      /\ e = [program_id |-> e.program_id, author |-> e.author, kind |-> e.kind,
              texts |-> e.texts, registered_at |-> e.registered_at]
  BY <1>1
<1>3. /\ e.program_id \in Seq(Byte) /\ Len(e.program_id) = IdBytes
      /\ e.author \in Seq(Byte) /\ Len(e.author) = IdBytes
  BY <1>2, Bases, FunctionsAreSequences
<1>4. ASSUME NEW i \in 1 .. 9
      PROVE  /\ e.texts[i] \in Seq(Byte) /\ Len(e.texts[i]) \in 0 .. WordBase - 1
             /\ 2 * Len(e.texts[i]) < WordBase
  <2>1. e.texts[i] \in Seq(Byte) /\ 2 * Len(e.texts[i]) < WordBase
    BY <1>1, <1>2
  <2>2. Len(e.texts[i]) \in Nat
    BY <2>1
  <2> QED
    BY <2>1, <2>2, Bases
<1> QED
  BY <1>2, <1>3, <1>4

(* A text takes a word more than its bytes.                                *)
LEMMA BorshOfText ==
  ASSUME NEW t \in Seq(Byte), Len(t) \in 0 .. WordBase - 1
  PROVE  BorshText(t) \in Seq(Byte) /\ Len(BorshText(t)) = 4 + Len(t)
<1> PICK w : w = WordsToBytes(<<Len(t)>>)
  OBVIOUS
<1>1. w \in Seq(Byte) /\ Len(w) = 4
  BY BytesOfAWord
<1>2. w \o t \in Seq(Byte) /\ Len(w \o t) = Len(w) + Len(t)
  BY <1>1, ConcatProperties
<1> QED
  BY <1>1, <1>2 DEF BorshText

(* Every part of an entry is bytes, of known length.                       *)
LEMMA PartsAreBytes ==
  ASSUME NEW e \in Entries
  PROVE  /\ \A k \in 1 .. 13 : Parts(e)[k] \in Seq(Byte)
         /\ Len(Parts(e)[1]) = IdBytes /\ Len(Parts(e)[2]) = IdBytes
         /\ Parts(e)[3] = <<e.kind>>
         /\ \A i \in 1 .. 9 : /\ Parts(e)[3 + i] = BorshText(e.texts[i])
                              /\ Len(Parts(e)[3 + i]) = 4 + Len(e.texts[i])
         /\ Parts(e)[13] = WordsToBytes(Halves(e.registered_at))
         /\ Len(Parts(e)[13]) = 8
<1>1. \A i \in 1 .. 9 : /\ BorshText(e.texts[i]) \in Seq(Byte)
                        /\ Len(BorshText(e.texts[i])) = 4 + Len(e.texts[i])
  BY EntryFields, BorshOfText
<1>2. <<e.kind>> \in Seq(Byte)
  <2>1. e.kind \in Byte
    BY EntryFields, Bases
  <2> QED
    BY <2>1
<1>3. /\ WordsToBytes(Halves(e.registered_at)) \in Seq(Byte)
      /\ Len(WordsToBytes(Halves(e.registered_at))) = 8
  <2> PICK h : h = Halves(e.registered_at)
    OBVIOUS
  <2>1. h = <<h[1], h[2]>>
    BY DEF Halves
  <2>2. h[1] \in 0 .. WordBase - 1 /\ h[2] \in 0 .. WordBase - 1
    BY EntryFields, HalvesMakeTheNumber
  <2>3. WordsToBytes(<<h[1], h[2]>>) \in Seq(Byte)
        /\ Len(WordsToBytes(<<h[1], h[2]>>)) = 8
    BY <2>2, BytesOfTwoWords
  <2> QED
    BY <2>1, <2>3
<1>4. \A i \in 1 .. 9 : Parts(e)[3 + i] = BorshText(e.texts[i])
  <2> SUFFICES ASSUME NEW i \in 1 .. 9
               PROVE  Parts(e)[3 + i] = BorshText(e.texts[i])
    OBVIOUS
  <2>1. i = 1 \/ i = 2 \/ i = 3 \/ i = 4 \/ i = 5 \/ i = 6 \/ i = 7 \/ i = 8 \/ i = 9
    OBVIOUS
  <2> QED
    BY <2>1 DEF Parts
<1>5. /\ Parts(e)[1] = e.program_id /\ Parts(e)[2] = e.author
      /\ Parts(e)[3] = <<e.kind>>
      /\ Parts(e)[13] = WordsToBytes(Halves(e.registered_at))
  BY DEF Parts
<1>6. ASSUME NEW k \in 1 .. 13
      PROVE  Parts(e)[k] \in Seq(Byte)
  <2>1. CASE k \in {1, 2, 3, 13}
    BY <1>2, <1>3, <1>5, <2>1, EntryFields
  <2>2. CASE k \notin {1, 2, 3, 13}
    <3>1. k - 3 \in 1 .. 9 /\ k = 3 + (k - 3)
      BY <2>2
    <3> QED
      BY <1>1, <1>4, <3>1
  <2> QED
    BY <2>1, <2>2
<1> QED
  BY <1>1, <1>3, <1>4, <1>5, <1>6, EntryFields

(* Thirteen parts, appended one by one, stand one behind the other.  Join  *)
(* keeps the long concatenation out of the provers' sight.                 *)
Join(s, t) == s \o t

(* Joining thirteen parts is appending twelve times.                       *)
LEMMA OneByOne ==
  ASSUME NEW x
  PROVE  \E p : /\ p[1] = x[1]
                /\ \A k \in 1 .. 12 : p[k + 1] = Join(p[k], x[k + 1])
                /\ p[13] = Join(Join(Join(Join(Join(Join(Join(Join(Join(Join(Join(Join(
                      x[1], x[2]), x[3]), x[4]), x[5]), x[6]), x[7]), x[8]), x[9]), x[10]),
                      x[11]), x[12]), x[13])
<1> PICK p2 : p2 = Join(x[1], x[2])     OBVIOUS
<1> PICK p3 : p3 = Join(p2, x[3])       OBVIOUS
<1> PICK p4 : p4 = Join(p3, x[4])       OBVIOUS
<1> PICK p5 : p5 = Join(p4, x[5])       OBVIOUS
<1> PICK p6 : p6 = Join(p5, x[6])       OBVIOUS
<1> PICK p7 : p7 = Join(p6, x[7])       OBVIOUS
<1> PICK p8 : p8 = Join(p7, x[8])       OBVIOUS
<1> PICK p9 : p9 = Join(p8, x[9])       OBVIOUS
<1> PICK p10 : p10 = Join(p9, x[10])    OBVIOUS
<1> PICK p11 : p11 = Join(p10, x[11])   OBVIOUS
<1> PICK p12 : p12 = Join(p11, x[12])   OBVIOUS
<1> PICK p13 : p13 = Join(p12, x[13])   OBVIOUS
<1>1. p13 = Join(Join(Join(Join(Join(Join(Join(Join(Join(Join(Join(Join(
               x[1], x[2]), x[3]), x[4]), x[5]), x[6]), x[7]), x[8]), x[9]), x[10]),
               x[11]), x[12]), x[13])
  OBVIOUS
<1> DEFINE p == <<x[1], p2, p3, p4, p5, p6, p7, p8, p9, p10, p11, p12, p13>>
<1>2. p[1] = x[1] /\ p[13] = p13
  OBVIOUS
<1>3. ASSUME NEW k \in 1 .. 12
      PROVE  p[k + 1] = Join(p[k], x[k + 1])
  <2>1. CASE k \in 1 .. 4
    <3>1. k = 1 \/ k = 2 \/ k = 3 \/ k = 4
      BY <2>1
    <3> QED
      BY <3>1
  <2>2. CASE k \in 5 .. 8
    <3>1. k = 5 \/ k = 6 \/ k = 7 \/ k = 8
      BY <2>2
    <3> QED
      BY <3>1
  <2>3. CASE k \in 9 .. 12
    <3>1. k = 9 \/ k = 10 \/ k = 11 \/ k = 12
      BY <2>3
    <3> QED
      BY <3>1
  <2> QED
    BY <2>1, <2>2, <2>3
<1> HIDE DEF p
<1> QED
  BY <1>1, <1>2, <1>3

(* The first k of the parts x, appended to p[k], stand where at says.      *)
Good(x, p, at, k) ==
  /\ p[k] \in Seq(Byte)
  /\ \A i \in 1 .. k : /\ at[i] \in Nat \ {0}
                       /\ at[i + 1] = at[i] + Len(x[i])
                       /\ Stands(x[i], p[k], at[i])

(* One part more stands in its place.                                      *)
LEMMA OneMore ==
  ASSUME NEW x, NEW p, NEW at, NEW k \in 1 .. 12, NEW l, l = k + 1,
         x[l] \in Seq(Byte), \A i \in 1 .. k : x[i] \in Seq(Byte),
         p[l] = Join(p[k], x[l]), at[l] = Len(p[k]) + 1, at[l + 1] = Len(p[l]) + 1,
         Good(x, p, at, k)
  PROVE  Good(x, p, at, l)
<1> PICK s : s = p[k]
  OBVIOUS
<1> PICK y : y = x[l]
  OBVIOUS
<1>1. s \in Seq(Byte) /\ y \in Seq(Byte) /\ p[l] = s \o y
  BY DEF Good, Join
<1>2. /\ p[l] \in Seq(Byte) /\ Len(p[l]) = Len(s) + Len(y)
      /\ Stands(y, p[l], Len(s) + 1)
      /\ \A z \in Seq(Byte), m \in Nat \ {0} : Stands(z, s, m) => Stands(z, p[l], m)
  BY <1>1, Appending
<1>3. at[l] \in Nat \ {0} /\ at[l + 1] = at[l] + Len(x[l]) /\ Stands(x[l], p[l], at[l])
  <2>1. Len(s) \in Nat /\ Len(y) \in Nat
    BY <1>1
  <2>2. at[l] = Len(s) + 1 /\ at[l + 1] = (Len(s) + Len(y)) + 1
    BY <1>2
  <2>3. at[l] \in Nat \ {0}
    BY <2>1, <2>2
  <2>4. at[l + 1] = at[l] + Len(y)
    <3>1. \A a, b \in Nat : (a + b) + 1 = (a + 1) + b
      OBVIOUS
    <3>2. (Len(s) + Len(y)) + 1 = (Len(s) + 1) + Len(y)
      BY <2>1, <3>1, Zenon
    <3> QED
      BY <2>2, <3>2, Zenon
  <2>5. Stands(y, p[l], at[l])
    BY <1>2, <2>2, Zenon
  <2> QED
    BY <2>3, <2>4, <2>5, Zenon
<1>4. ASSUME NEW i \in 1 .. k
      PROVE  at[i] \in Nat \ {0} /\ at[i + 1] = at[i] + Len(x[i]) /\ Stands(x[i], p[l], at[i])
  <2>1. at[i] \in Nat \ {0} /\ at[i + 1] = at[i] + Len(x[i]) /\ Stands(x[i], s, at[i])
    BY DEF Good
  <2>2. x[i] \in Seq(Byte)
    OBVIOUS
  <2> QED
    BY <1>2, <2>1, <2>2
<1>5. ASSUME NEW i \in 1 .. l
      PROVE  at[i] \in Nat \ {0} /\ at[i + 1] = at[i] + Len(x[i]) /\ Stands(x[i], p[l], at[i])
  <2>1. i = l \/ i \in 1 .. k
    OBVIOUS
  <2> QED
    BY <1>3, <1>4, <2>1
<1> QED
  BY <1>2, <1>5 DEF Good

(* Places among thirteen.                                                  *)
LEMMA Counting ==
  \A k \in 1 .. 12 : /\ k + 1 \in 1 .. 13 /\ k \in 1 .. 13
                     /\ \A i \in 1 .. k : i \in 1 .. 13
OBVIOUS

Chain(x, p, at) ==
  /\ \A k \in 1 .. 13 : x[k] \in Seq(Byte)
  /\ p[1] = x[1] /\ \A k \in 1 .. 12 : p[k + 1] = Join(p[k], x[k + 1])
  /\ at[1] = 1 /\ \A k \in 1 .. 13 : at[k + 1] = Len(p[k]) + 1

(* All thirteen parts stand in their places.                               *)
LEMMA Lined ==
  ASSUME NEW x, NEW p, NEW at, Chain(x, p, at)
  PROVE  Good(x, p, at, 13)
<1>1. Good(x, p, at, 1)
  <2>1. x[1] \in Seq(Byte) /\ p[1] = x[1] /\ at[1] = 1
    BY DEF Chain
  <2>2. 1 \in 1 .. 13
    OBVIOUS
  <2>3. at[1 + 1] = at[1] + Len(x[1])
    <3>1. at[1 + 1] = Len(p[1]) + 1
      BY <2>2 DEF Chain
    <3> QED
      BY <2>1, <3>1
  <2>4. Stands(x[1], p[1], at[1])
    BY <2>1 DEF Stands
  <2>5. \A i \in 1 .. 1 : i = 1
    OBVIOUS
  <2> QED
    BY <2>1, <2>3, <2>4, <2>5 DEF Good
<1>2. ASSUME NEW k \in 1 .. 12, Good(x, p, at, k) PROVE Good(x, p, at, k + 1)
  <2>1. k + 1 \in 1 .. 13 /\ k \in 1 .. 13 /\ \A i \in 1 .. k : i \in 1 .. 13
    BY Counting
  <2>2. x[k + 1] \in Seq(Byte) /\ \A i \in 1 .. k : x[i] \in Seq(Byte)
    BY <2>1, Zenon DEF Chain
  <2>3. p[k + 1] = Join(p[k], x[k + 1]) /\ at[k + 1] = Len(p[k]) + 1
    BY <2>1, Zenon DEF Chain
  <2>4. at[(k + 1) + 1] = Len(p[k + 1]) + 1
    BY <2>1, Zenon DEF Chain
  <2> QED
    BY <1>2, <2>2, <2>3, <2>4, OneMore, Zenon
<1>3. Good(x, p, at, 13)
  <2>1. \A k \in 1 .. 12 : Good(x, p, at, k) => Good(x, p, at, k + 1)
    BY <1>2
  <2>2. Good(x, p, at, 2) /\ Good(x, p, at, 3) /\ Good(x, p, at, 4)
    BY <1>1, <2>1
  <2>3. Good(x, p, at, 5) /\ Good(x, p, at, 6) /\ Good(x, p, at, 7) /\ Good(x, p, at, 8)
    BY <2>1, <2>2
  <2>4. Good(x, p, at, 9) /\ Good(x, p, at, 10) /\ Good(x, p, at, 11) /\ Good(x, p, at, 12)
    BY <2>1, <2>3
  <2> QED
    BY <2>1, <2>4
<1> QED
  BY <1>3

(* Where the parts of an entry start in its bytes.                         *)
Starts(e, at) ==
  /\ at[1] = 1 /\ at[14] = Len(Borsh(e)) + 1
  /\ \A k \in 1 .. 13 : /\ at[k] \in Nat \ {0}
                        /\ at[k + 1] = at[k] + Len(Parts(e)[k])
                        /\ Stands(Parts(e)[k], Borsh(e), at[k])

(* So do the parts of an entry in its bytes.                               *)
LEMMA Layout ==
  ASSUME NEW e \in Entries
  PROVE  Borsh(e) \in Seq(Byte) /\ \E at : Starts(e, at)
<1>1. PICK p : /\ p[1] = Parts(e)[1]
               /\ \A k \in 1 .. 12 : p[k + 1] = Join(p[k], Parts(e)[k + 1])
               /\ p[13] = Borsh(e)
  <2> PICK x : x = Parts(e)
    OBVIOUS
  <2>1. Borsh(e) = Join(Join(Join(Join(Join(Join(Join(Join(Join(Join(Join(Join(
                      x[1], x[2]), x[3]), x[4]), x[5]), x[6]), x[7]), x[8]), x[9]), x[10]),
                      x[11]), x[12]), x[13])
    <3>1. /\ x[1] = e.program_id /\ x[2] = e.author /\ x[3] = <<e.kind>>
          /\ x[4] = BorshText(e.texts[1]) /\ x[5] = BorshText(e.texts[2])
          /\ x[6] = BorshText(e.texts[3]) /\ x[7] = BorshText(e.texts[4])
          /\ x[8] = BorshText(e.texts[5]) /\ x[9] = BorshText(e.texts[6])
          /\ x[10] = BorshText(e.texts[7]) /\ x[11] = BorshText(e.texts[8])
          /\ x[12] = BorshText(e.texts[9])
          /\ x[13] = WordsToBytes(Halves(e.registered_at))
      BY DEF Parts
    <3> QED
      BY <3>1, Zenon DEF Borsh, Join
  <2> QED
    BY <2>1, OneByOne
<1> PICK x : x = Parts(e)
  OBVIOUS
<1> DEFINE at == [k \in 1 .. 14 |-> IF k = 1 THEN 1 ELSE Len(p[k - 1]) + 1]
<1>2. at[1] = 1 /\ \A k \in 1 .. 13 : at[k + 1] = Len(p[k]) + 1
  OBVIOUS
<1> HIDE DEF at
<1>3. \A k \in 1 .. 13 : x[k] \in Seq(Byte)
  BY PartsAreBytes
<1>4. Good(x, p, at, 13)
  <2>1. p[1] = x[1] /\ \A k \in 1 .. 12 : p[k + 1] = Join(p[k], x[k + 1])
    BY <1>1
  <2>2. Chain(x, p, at)
    BY <1>2, <1>3, <2>1, Zenon DEF Chain
  <2> QED
    BY <2>2, Lined
<1>5. at[14] = Len(Borsh(e)) + 1
  <2>1. 13 \in 1 .. 13 /\ 13 + 1 = 14
    OBVIOUS
  <2>2. at[13 + 1] = Len(p[13]) + 1
    BY <1>2, <2>1
  <2> QED
    BY <1>1, <2>1, <2>2
<1>6. Borsh(e) \in Seq(Byte)
  BY <1>1, <1>4 DEF Good
<1>7. Starts(e, at)
  <2>1. \A k \in 1 .. 13 : /\ at[k] \in Nat \ {0}
                           /\ at[k + 1] = at[k] + Len(x[k])
                           /\ Stands(x[k], p[13], at[k])
    BY <1>4 DEF Good
  <2> QED
    BY <1>1, <1>2, <1>5, <2>1, Zenon DEF Starts
<1> QED
  BY <1>6, <1>7

-----------------------------------------------------------------------------
(* Reading an entry back                                                   *)

(* A reading of the first n bytes of s is at a, or past the end of them    *)
(* and they are not all of s.                                              *)
Reached(off, a, s, n) ==
  off \in Nat \ {0} /\ (off = a \/ (off > n /\ n < Len(s)))

(* What one read takes and where it stops.                                 *)
LEMMA ReadTextIs ==
  ASSUME NEW bytes, NEW k
  PROVE  /\ ReadText(bytes, k).off = k + 4 + SignedAt(bytes, k)
         /\ ReadText(bytes, k).text = Slice(bytes, k + 4, SignedAt(bytes, k))
<1>1. ReadText(bytes, k) = TakeFrom(bytes, k + 4, SignedAt(bytes, k))
  BY DEF ReadText
<1>2. \A i, n : /\ TakeFrom(bytes, i, n).off = i + n
                /\ TakeFrom(bytes, i, n).text = Slice(bytes, i, n)
  BY DEF TakeFrom
<1> QED
  BY <1>1, <1>2, Zenon

(* Wherever it is, it goes on behind the next text or past the end.        *)
LEMMA ReadOne ==
  ASSUME NEW s \in Seq(Byte), NEW n \in 0 .. Len(s),
         NEW t \in Seq(Byte), Len(t) \in 0 .. WordBase - 1, 2 * Len(t) < WordBase,
         NEW a \in Nat \ {0}, Stands(BorshText(t), s, a),
         NEW off, Reached(off, a, s, n)
  PROVE  /\ Reached(ReadText(SubSeq(s, 1, n), off).off, a + Len(BorshText(t)), s, n)
         /\ n = Len(s) => ReadText(SubSeq(s, 1, n), off).text = t
<1> PICK b : b = SubSeq(s, 1, n)
  OBVIOUS
<1> PICK r : r = ReadText(b, off)
  OBVIOUS
<1>1. b \in Seq(Byte) /\ Len(b) = n /\ (n = Len(s) => b = s)
  BY FirstBytes
<1>2. off \in Nat \ {0}
  BY DEF Reached
<1>3. r.off = off + 4 + SignedAt(b, off) /\ r.text = Slice(b, off + 4, SignedAt(b, off))
  BY ReadTextIs, Zenon
<1>4. ASSUME off + 3 > n PROVE r.off \in Nat \ {0} /\ r.off >= off + 4
  <2>1. SignedAt(b, off) \in Nat
    BY <1>1, <1>2, <1>4, CutWordsAreTheirOwn
  <2> QED
    BY <1>2, <1>3, <2>1
<1>5. /\ Len(BorshText(t)) = 4 + Len(t) /\ Len(t) \in Nat /\ Len(s) \in Nat
      /\ a + (4 + Len(t)) <= Len(s) + 1
  BY BorshOfText DEF Stands
<1>6. CASE off > n /\ n < Len(s)
  <2>1. r.off > n /\ r.off \in Nat \ {0}
    BY <1>2, <1>4, <1>6
  <2>2. n # Len(s)
    BY <1>6
  <2> QED
    BY <1>6, <2>1, <2>2 DEF Reached
<1>7. CASE off = a /\ a + 3 > n
  <2>1. r.off > n /\ n < Len(s) /\ r.off \in Nat \ {0}
    BY <1>2, <1>4, <1>5, <1>7
  <2>2. n # Len(s)
    BY <2>1
  <2> QED
    BY <2>1, <2>2 DEF Reached
<1>8. CASE off = a /\ a + 3 <= n
  <2> PICK l : l = WordsToBytes(<<Len(t)>>)
    OBVIOUS
  <2>1. l \in Seq(Byte) /\ Len(l) = 4 /\ BorshText(t) = l \o t
    BY BytesOfAWord DEF BorshText
  <2>2. Stands(l, s, a) /\ Stands(t, s, a + 4)
    BY <2>1, StandsInParts
  <2>3. a + Len(l) <= n + 1
    <3>1. n \in Nat /\ a + 4 <= n + 1
      BY <1>5, <1>8
    <3> QED
      BY <2>1, <3>1
  <2>4. Stands(l, b, a)
    BY <2>1, <2>2, <2>3, FirstBytes
  <2>5. SignedAt(b, a) = Len(t)
    <3>1. WordAt(b, a) = Len(t)
      BY <1>1, <2>4, WordThatStands
    <3> QED
      BY <3>1, SmallWordsAreTheirOwn
  <2>6. r.off = a + (4 + Len(t))
    <3>1. r.off = a + 4 + Len(t)
      BY <1>3, <1>8, <2>5, Zenon
    <3>2. a + 4 + Len(t) = a + (4 + Len(t))
      BY <1>5
    <3> QED
      BY <3>1, <3>2, Zenon
  <2>7. ASSUME n = Len(s) PROVE r.text = t
    <3>1. r.text = Slice(s, a + 4, Len(t))
      BY <1>1, <1>3, <1>8, <2>5, <2>7
    <3>2. a + 4 \in Nat \ {0}
      OBVIOUS
    <3> QED
      BY <2>2, <3>1, <3>2, SliceThatStands
  <2>8. r.off \in Nat \ {0}
    BY <1>5, <2>6
  <2> QED
    BY <1>5, <2>6, <2>7, <2>8 DEF Reached
<1> QED
  BY <1>6, <1>7, <1>8 DEF Reached

(* The nine reads of decodeEntry, each where the one before it ended.      *)
LEMMA NineReads ==
  ASSUME NEW bytes, NEW r, r = ReadTexts(bytes)
  PROVE  /\ r[1] = ReadText(bytes, 2 * IdBytes + 2)
         /\ r[2] = ReadText(bytes, r[1].off) /\ r[3] = ReadText(bytes, r[2].off)
         /\ r[4] = ReadText(bytes, r[3].off) /\ r[5] = ReadText(bytes, r[4].off)
         /\ r[6] = ReadText(bytes, r[5].off) /\ r[7] = ReadText(bytes, r[6].off)
         /\ r[8] = ReadText(bytes, r[7].off) /\ r[9] = ReadText(bytes, r[8].off)
BY DEF ReadTexts

(* All nine: at the eight bytes of registered_at, or past the end of data  *)
(* that is cut short; with all the data, the texts are those of the entry. *)
LEMMA ReadAll ==
  ASSUME NEW e \in Entries, NEW at, Starts(e, at), NEW n \in 0 .. Len(Borsh(e)),
         NEW r, r = ReadTexts(SubSeq(Borsh(e), 1, n))
  PROVE  /\ Reached(r[9].off, at[13], Borsh(e), n)
         /\ n = Len(Borsh(e)) => \A i \in 1 .. 9 : r[i].text = e.texts[i]
<1> PICK b : b = SubSeq(Borsh(e), 1, n)
  OBVIOUS
<1> DEFINE G(i, l) == /\ Reached(r[i].off, at[l], Borsh(e), n)
                      /\ n = Len(Borsh(e)) => r[i].text = e.texts[i]
<1>1. Reached(2 * IdBytes + 2, at[4], Borsh(e), n)
  <2>1. /\ at[1] = 1 /\ at[2] = at[1] + IdBytes /\ at[3] = at[2] + IdBytes
        /\ at[4] = at[3] + 1
    <3>1. /\ Len(Parts(e)[1]) = IdBytes /\ Len(Parts(e)[2]) = IdBytes
          /\ Len(Parts(e)[3]) = 1
      <4>1. Len(<<e.kind>>) = 1
        OBVIOUS
      <4> QED
        BY <4>1, PartsAreBytes, Zenon
    <3>2. /\ 1 \in 1 .. 13 /\ 2 \in 1 .. 13 /\ 3 \in 1 .. 13
          /\ 1 + 1 = 2 /\ 2 + 1 = 3 /\ 3 + 1 = 4
      OBVIOUS
    <3>3. /\ at[1] = 1 /\ at[1 + 1] = at[1] + Len(Parts(e)[1])
          /\ at[2 + 1] = at[2] + Len(Parts(e)[2]) /\ at[3 + 1] = at[3] + Len(Parts(e)[3])
      BY <3>2, Zenon DEF Starts
    <3> QED
      BY <3>1, <3>2, <3>3, Zenon
  <2>2. at[4] = 2 * IdBytes + 2 /\ at[4] \in Nat \ {0}
    BY <2>1, Bases
  <2> QED
    BY <2>2 DEF Reached
<1>2. /\ r[1] = ReadText(b, 2 * IdBytes + 2)
      /\ r[2] = ReadText(b, r[1].off) /\ r[3] = ReadText(b, r[2].off)
      /\ r[4] = ReadText(b, r[3].off) /\ r[5] = ReadText(b, r[4].off)
      /\ r[6] = ReadText(b, r[5].off) /\ r[7] = ReadText(b, r[6].off)
      /\ r[8] = ReadText(b, r[7].off) /\ r[9] = ReadText(b, r[8].off)
  <2>1. r = ReadTexts(b)
    OBVIOUS
  <2> HIDE DEF G
  <2> QED
    BY <2>1, NineReads
<1>3. ASSUME NEW i \in 1 .. 9, NEW k, k = 3 + i, NEW l, l = k + 1,
             NEW off, Reached(off, at[k], Borsh(e), n), r[i] = ReadText(b, off)
      PROVE  G(i, l)
  <2> PICK s : s = Borsh(e)
    OBVIOUS
  <2> PICK x : x = Parts(e)[k]
    OBVIOUS
  <2> PICK t : t = e.texts[i]
    OBVIOUS
  <2> PICK ri : ri = r[i]
    OBVIOUS
  <2>1. s \in Seq(Byte) /\ n \in 0 .. Len(s) /\ ri = ReadText(SubSeq(s, 1, n), off)
    BY <1>3, Layout
  <2>2. t \in Seq(Byte) /\ Len(t) \in 0 .. WordBase - 1 /\ 2 * Len(t) < WordBase
    BY EntryFields
  <2>3. x = BorshText(t)
    BY <1>3, PartsAreBytes
  <2>4. k \in 1 .. 13
    BY <1>3
  <2>5. at[k] \in Nat \ {0} /\ at[l] = at[k] + Len(x) /\ Stands(x, s, at[k])
    BY <1>3, <2>4, Zenon DEF Starts
  <2>6. Reached(off, at[k], s, n) /\ Stands(BorshText(t), s, at[k]) /\ at[k] \in Nat \ {0}
    BY <1>3, <2>3, <2>5, Zenon
  <2>7. /\ Reached(ReadText(SubSeq(s, 1, n), off).off, at[k] + Len(BorshText(t)), s, n)
        /\ n = Len(s) => ReadText(SubSeq(s, 1, n), off).text = t
    <3>1. 2 * Len(t) < WordBase /\ Len(t) \in 0 .. WordBase - 1 /\ t \in Seq(Byte)
      BY <2>2
    <3>2. s \in Seq(Byte) /\ n \in 0 .. Len(s)
      BY <2>1
    <3>3. Stands(BorshText(t), s, at[k]) /\ at[k] \in Nat \ {0} /\ Reached(off, at[k], s, n)
      BY <2>6
    <3> HIDE DEF Reached, Stands
    <3> QED
      BY ONLY <3>1, <3>2, <3>3, ReadOne
  <2> QED
    BY <2>1, <2>3, <2>5, <2>7, Zenon
<1> HIDE DEF G
<1>4. G(1, 5)
  <2>1. 1 \in 1 .. 9 /\ 4 = 3 + 1 /\ 5 = 4 + 1
    OBVIOUS
  <2> QED
    BY <1>1, <1>2, <1>3, <2>1, Zenon
<1>5. G(2, 6)
  <2>1. 2 \in 1 .. 9 /\ 5 = 3 + 2 /\ 6 = 5 + 1
    OBVIOUS
  <2>2. Reached(r[1].off, at[5], Borsh(e), n)
    BY <1>4, Zenon DEF G
  <2> QED
    BY <1>2, <1>3, <2>1, <2>2, Zenon
<1>6. G(3, 7)
  <2>1. 3 \in 1 .. 9 /\ 6 = 3 + 3 /\ 7 = 6 + 1
    OBVIOUS
  <2>2. Reached(r[2].off, at[6], Borsh(e), n)
    BY <1>5, Zenon DEF G
  <2> QED
    BY <1>2, <1>3, <2>1, <2>2, Zenon
<1>7. G(4, 8)
  <2>1. 4 \in 1 .. 9 /\ 7 = 3 + 4 /\ 8 = 7 + 1
    OBVIOUS
  <2>2. Reached(r[3].off, at[7], Borsh(e), n)
    BY <1>6, Zenon DEF G
  <2> QED
    BY <1>2, <1>3, <2>1, <2>2, Zenon
<1>8. G(5, 9)
  <2>1. 5 \in 1 .. 9 /\ 8 = 3 + 5 /\ 9 = 8 + 1
    OBVIOUS
  <2>2. Reached(r[4].off, at[8], Borsh(e), n)
    BY <1>7, Zenon DEF G
  <2> QED
    BY <1>2, <1>3, <2>1, <2>2, Zenon
<1>9. G(6, 10)
  <2>1. 6 \in 1 .. 9 /\ 9 = 3 + 6 /\ 10 = 9 + 1
    OBVIOUS
  <2>2. Reached(r[5].off, at[9], Borsh(e), n)
    BY <1>8, Zenon DEF G
  <2> QED
    BY <1>2, <1>3, <2>1, <2>2, Zenon
<1>10. G(7, 11)
  <2>1. 7 \in 1 .. 9 /\ 10 = 3 + 7 /\ 11 = 10 + 1
    OBVIOUS
  <2>2. Reached(r[6].off, at[10], Borsh(e), n)
    BY <1>9, Zenon DEF G
  <2> QED
    BY <1>2, <1>3, <2>1, <2>2, Zenon
<1>11. G(8, 12)
  <2>1. 8 \in 1 .. 9 /\ 11 = 3 + 8 /\ 12 = 11 + 1
    OBVIOUS
  <2>2. Reached(r[7].off, at[11], Borsh(e), n)
    BY <1>10, Zenon DEF G
  <2> QED
    BY <1>2, <1>3, <2>1, <2>2, Zenon
<1>12. G(9, 13)
  <2>1. 9 \in 1 .. 9 /\ 12 = 3 + 9 /\ 13 = 12 + 1
    OBVIOUS
  <2>2. Reached(r[8].off, at[12], Borsh(e), n)
    BY <1>11, Zenon DEF G
  <2> QED
    BY <1>2, <1>3, <2>1, <2>2, Zenon
<1>13. ASSUME n = Len(Borsh(e)), NEW i \in 1 .. 9
       PROVE  r[i].text = e.texts[i]
  <2>1. \A j \in {1, 2, 3, 4, 5, 6, 7, 8, 9} : r[j].text = e.texts[j]
    BY <1>4, <1>5, <1>6, <1>7, <1>8, <1>9, <1>10, <1>11, <1>12, <1>13, Zenon DEF G
  <2>2. i \in {1, 2, 3, 4, 5, 6, 7, 8, 9}
    OBVIOUS
  <2> QED
    BY <2>1, <2>2
<1>14. Reached(r[9].off, at[13], Borsh(e), n)
  BY <1>12, Zenon DEF G
<1> QED
  BY <1>13, <1>14, Zenon

(* A reading that took all nine texts.                                     *)
ReadThrough(e, at, r) == r[9].off = at[13] /\ \A i \in 1 .. 9 : r[i].text = e.texts[i]

(* The bytes of an entry give the entry back.                              *)
LEMMA ReadsTheEntry ==
  ASSUME NEW e \in Entries, NEW at, Starts(e, at),
         NEW r, ReadThrough(e, at, r)
  PROVE  ReadEntry(Borsh(e), r) = e
<1> PICK s : s = Borsh(e)
  OBVIOUS
<1> PICK x : x = Parts(e)
  OBVIOUS
<1>1. s \in Seq(Byte)
  BY Layout
<1>2. /\ x[1] = e.program_id /\ x[2] = e.author /\ x[3] = <<e.kind>>
      /\ x[13] = WordsToBytes(Halves(e.registered_at))
  BY DEF Parts
<1>3. \A k \in 1 .. 13 : /\ at[k] \in Nat \ {0}
                         /\ at[k + 1] = at[k] + Len(x[k])
                         /\ Stands(x[k], s, at[k])
  BY Zenon DEF Starts
<1>4. at[1] = 1 /\ at[2] = IdBytes + 1 /\ at[3] = 2 * IdBytes + 1
  <2>1. 1 \in 1 .. 13 /\ 2 \in 1 .. 13 /\ 1 + 1 = 2 /\ 2 + 1 = 3
    OBVIOUS
  <2>2. at[1 + 1] = at[1] + Len(x[1]) /\ at[2 + 1] = at[2] + Len(x[2])
    BY <1>3, <2>1, Zenon
  <2>3. at[1] = 1 /\ Len(x[1]) = IdBytes /\ Len(x[2]) = IdBytes
    BY <1>2, EntryFields DEF Starts
  <2>4. at[2] = 1 + IdBytes /\ at[3] = (1 + IdBytes) + IdBytes
    BY <2>1, <2>2, <2>3, Zenon
  <2> QED
    BY <2>3, <2>4, Bases
<1>5. Stands(x[1], s, 1) /\ Stands(x[2], s, IdBytes + 1) /\ Stands(x[3], s, 2 * IdBytes + 1)
  <2>1. 1 \in 1 .. 13 /\ 2 \in 1 .. 13 /\ 3 \in 1 .. 13
    OBVIOUS
  <2> QED
    BY <1>3, <1>4, <2>1, Zenon
<1>6. Slice(s, 1, IdBytes) = e.program_id
  <2>1. 1 \in Nat \ {0}
    OBVIOUS
  <2>2. e.program_id \in Seq(Byte) /\ Len(e.program_id) = IdBytes
    BY EntryFields
  <2>3. Stands(e.program_id, s, 1)
    BY <1>2, <1>5, Zenon
  <2> QED
    BY <1>1, <2>1, <2>2, <2>3, SliceThatStands, Zenon
<1>7. Slice(s, IdBytes + 1, IdBytes) = e.author
  <2>1. IdBytes + 1 \in Nat \ {0}
    BY Bases
  <2>2. e.author \in Seq(Byte) /\ Len(e.author) = IdBytes
    BY EntryFields
  <2>3. Stands(e.author, s, IdBytes + 1)
    BY <1>2, <1>5, Zenon
  <2> QED
    BY <1>1, <2>1, <2>2, <2>3, SliceThatStands, Zenon
<1>8. 2 * IdBytes + 1 \in DOMAIN s /\ s[2 * IdBytes + 1] = e.kind
  <2> PICK k : k = 2 * IdBytes + 1
    OBVIOUS
  <2>1. k \in Nat \ {0}
    BY Bases
  <2>2. Stands(<<e.kind>>, s, k)
    BY <1>2, <1>5
  <2>3. k + 1 <= Len(s) + 1 /\ s[k + 1 - 1] = e.kind
    BY <2>2 DEF Stands
  <2> QED
    BY <1>1, <2>1, <2>3, LenProperties
<1>9. OfHalves(WordAt(s, r[9].off), WordAt(s, r[9].off + 4)) = e.registered_at
  <2> PICK v : v = e.registered_at
    OBVIOUS
  <2> PICK h : h = Halves(v)
    OBVIOUS
  <2> PICK low : low = h[1]
    OBVIOUS
  <2> PICK high : high = h[2]
    OBVIOUS
  <2>1. x[13] = WordsToBytes(<<low, high>>)
    <3>1. h = <<low, high>>
      BY DEF Halves
    <3> QED
      BY <1>2, <3>1
  <2>2. low \in 0 .. WordBase - 1 /\ high \in 0 .. WordBase - 1 /\ OfHalves(low, high) = v
    BY EntryFields, HalvesMakeTheNumber
  <2>3. 13 \in 1 .. 13
    OBVIOUS
  <2>4. at[13] \in Nat \ {0} /\ Stands(WordsToBytes(<<low, high>>), s, at[13])
    BY <1>3, <2>1, <2>3, Zenon
  <2>5. WordAt(s, at[13]) = low /\ WordAt(s, at[13] + 4) = high
    BY <1>1, <2>2, <2>4, TwoWordsThatStand
  <2>6. r[9].off = at[13]
    BY DEF ReadThrough
  <2> QED
    BY <2>2, <2>5, <2>6, Zenon
<1>10. [i \in 1 .. 9 |-> r[i].text] = e.texts
  BY EntryFields DEF ReadThrough
<1>11. (IF 2 * IdBytes + 1 \in DOMAIN s /\ s[2 * IdBytes + 1] = 0 THEN 0 ELSE 1) = e.kind
  BY <1>8, EntryFields
<1>12. ReadEntry(s, r) = [program_id |-> e.program_id, author |-> e.author, kind |-> e.kind,
                          texts |-> e.texts, registered_at |-> e.registered_at]
  BY <1>6, <1>7, <1>9, <1>10, <1>11, Zenon DEF ReadEntry
<1> QED
  BY <1>12, EntryFields, Zenon

(* All of an entry's bytes make the entry, less of them nothing.           *)
LEMMA EntryOrNull ==
  ASSUME NEW e \in Entries, NEW n \in 0 .. Len(Borsh(e)),
         NEW b, b = SubSeq(Borsh(e), 1, n)
  PROVE  LookupEntry(b) = IF b = Borsh(e) THEN [found |-> TRUE, entry |-> e] ELSE Null
<1> PICK s : s = Borsh(e)
  OBVIOUS
<1> PICK r : r = ReadTexts(b)
  OBVIOUS
<1>1. PICK at : Starts(e, at)
  BY Layout
<1>2. s \in Seq(Byte) /\ Len(s) \in Nat /\ b \in Seq(Byte) /\ Len(b) = n
  BY Layout, FirstBytes
<1>3. /\ Reached(r[9].off, at[13], s, n)
      /\ n = Len(s) => \A i \in 1 .. 9 : r[i].text = e.texts[i]
  BY <1>1, ReadAll
<1>4. at[13] \in Nat \ {0} /\ at[13] + 7 = Len(s)
  <2>1. 13 \in 1 .. 13 /\ 13 + 1 = 14
    OBVIOUS
  <2>2. /\ at[13] \in Nat \ {0} /\ at[13 + 1] = at[13] + Len(Parts(e)[13])
        /\ at[14] = Len(s) + 1
    BY <1>1, <2>1, Zenon DEF Starts
  <2>3. Len(Parts(e)[13]) = 8
    BY PartsAreBytes
  <2>4. at[13] + 8 = Len(s) + 1
    BY <2>1, <2>2, <2>3, Zenon
  <2> QED
    BY <1>2, <2>2, <2>4
<1>5. LookupEntry(b) = IF b = <<>> \/ r[9].off + 7 > n THEN Null
                       ELSE [found |-> TRUE, entry |-> ReadEntry(b, r)]
  <2>1. r[9].off \in Nat \ {0} /\ n \in Nat
    BY <1>2, <1>3 DEF Reached
  <2>2. r[9].off >= 1 /\ (r[9].off + 7 <= n <=> ~(r[9].off + 7 > n))
    BY <2>1
  <2> QED
    BY <1>2, <2>2 DEF LookupEntry, DecodeEntry
<1>6. CASE n = Len(s)
  <2>1. b = s /\ b # <<>>
    <3>1. b = s
      BY <1>2, <1>6, FirstBytes
    <3>2. Len(b) # 0
      BY <1>2, <1>4, <1>6
    <3> QED
      BY <3>1, <3>2
  <2>2. r[9].off = at[13] /\ ~(r[9].off + 7 > n)
    <3>1. r[9].off = at[13]
      BY <1>2, <1>3, <1>6 DEF Reached
    <3>2. ~(at[13] + 7 > n)
      BY <1>2, <1>4, <1>6
    <3> QED
      BY <3>1, <3>2, Zenon
  <2>3. ReadEntry(b, r) = e
    <3>1. \A i \in 1 .. 9 : r[i].text = e.texts[i]
      BY <1>3, <1>6
    <3>2. ReadThrough(e, at, r)
      BY <2>2, <3>1, Zenon DEF ReadThrough
    <3>3. ReadEntry(Borsh(e), r) = e
      BY <1>1, <3>2, ReadsTheEntry, Zenon
    <3> QED
      BY <2>1, <3>3, Zenon
  <2> QED
    BY <1>5, <2>1, <2>2, <2>3, Zenon
<1>7. CASE n # Len(s)
  <2>1. n < Len(s) /\ n \in Nat
    BY <1>2, <1>7
  <2>2. r[9].off + 7 > n
    BY <1>3, <1>4, <2>1 DEF Reached
  <2>3. b # s
    BY <1>2, <1>7, Zenon
  <2> QED
    BY <1>5, <2>2, <2>3, Zenon
<1> QED
  BY <1>6, <1>7

-----------------------------------------------------------------------------

Fetched ==
  \E n \in 0 .. Len(Borsh(job.entry)) : data = SubSeq(Borsh(job.entry), 1, n)

LookupInv ==
  /\ job \in Jobs /\ stage \in {"asked", "bytes", "read"}
  /\ job.by = "lookup" /\ stage # "asked" => Fetched
  /\ job.by = "lookup" /\ stage = "read" => shown = LookupEntry(data)

(* A lookup of an account of the registry's returns the entry the guest    *)
(* wrote, or null when the account holds less than all of it, never an     *)
(* entry with fields that were not there: for every entry, every byte      *)
(* width and wherever the data ends.  It says nothing of accounts that     *)
(* others own, whose data is decoded all the same.                         *)
THEOREM LookupsAreTrue == CodecSpec => []LookupIsTheEntryOrNull
<1>1. CodecInit => LookupInv
  BY DEF CodecInit, LookupInv, Jobs, Calls
<1>2. LookupInv /\ [CodecNext]_codecVars => LookupInv'
  <2> SUFFICES ASSUME LookupInv, [CodecNext]_codecVars PROVE LookupInv'
    OBVIOUS
  <2> USE DEF LookupInv
  <2>1. CASE Build \/ CutShort \/ Describe
    BY <2>1 DEF Build, CutShort, Describe, LooksUp
  <2>2. CASE Fetch
    BY <2>2 DEF Fetch, Fetched
  <2>3. CASE Lookup
    BY <2>3 DEF Lookup, Fetched
  <2>4. CASE UNCHANGED codecVars
    BY <2>4 DEF codecVars, Fetched
  <2> QED
    BY <2>1, <2>2, <2>3, <2>4 DEF CodecNext
<1>3. LookupInv => LookupIsTheEntryOrNull
  <2> SUFFICES ASSUME LookupInv, stage = "read", job.by = "lookup"
               PROVE  IF data = Borsh(job.entry)
                      THEN shown = [found |-> TRUE, entry |-> job.entry]
                      ELSE shown = Null
    BY DEF LookupIsTheEntryOrNull
  <2>1. job.entry \in Entries
    <3>1. job \in Lookups
      BY DEF LookupInv, Jobs, Calls, SdkCalls, HandMadeCalls, DappCalls, ForeignLookups, Call
    <3> QED
      BY <3>1 DEF Lookups
  <2>2. Fetched /\ shown = LookupEntry(data)
    BY DEF LookupInv
  <2> PICK e : e = job.entry
    OBVIOUS
  <2>3. PICK n \in 0 .. Len(Borsh(e)) : data = SubSeq(Borsh(e), 1, n)
    BY <2>2 DEF Fetched
  <2>4. LookupEntry(data) = IF data = Borsh(e) THEN [found |-> TRUE, entry |-> e] ELSE Null
    BY <2>1, <2>3, EntryOrNull
  <2> QED
    BY <2>2, <2>4, Zenon
<1> QED
  BY <1>1, <1>2, <1>3, PTL DEF CodecSpec

-----------------------------------------------------------------------------
(* Sequences, one behind the other.                                        *)

(* Every set of numbers has a least one.                                   *)
LEMMA LeastNumber ==
  ASSUME NEW T \in SUBSET Nat, T # {}
  PROVE  \E n \in T : \A m \in T : n <= m
<1> DEFINE R == {ss \in Nat \X Nat : ss[1] < ss[2]}
<1>1. R = OpToRel(<, Nat)
  BY DEF OpToRel
<1>2. IsWellFoundedOn(R, Nat)
  BY <1>1, NatLessThanWellFounded, Zenon
<1> HIDE DEF R
<1>3. PICK n \in T : \A m \in T : ~(<<m, n>> \in R)
  BY <1>2, WFMin
<1>4. \A m \in T : ~(m < n)
  BY <1>3 DEF R
<1> QED
  BY <1>4

(* Induction, over the set of the numbers for which a fact holds.          *)
LEMMA OneAfterTheOther ==
  ASSUME NEW n \in Nat, NEW T, 0 \in T, \A i \in 1 .. n : i - 1 \in T => i \in T
  PROVE  0 .. n \subseteq T
<1> SUFFICES ASSUME (0 .. n) \ T # {} PROVE FALSE
  OBVIOUS
<1>1. PICK m \in (0 .. n) \ T : \A k \in (0 .. n) \ T : m <= k
  <2>1. (0 .. n) \ T \in SUBSET Nat
    OBVIOUS
  <2> QED
    BY <2>1, LeastNumber, Zenon
<1>2. m # 0 /\ m - 1 \in 0 .. n /\ ~(m <= m - 1)
  BY <1>1
<1> QED
  BY <1>1, <1>2

(* FlattenSeq(s) is the last of these.                                     *)

Flattened(s, m, g) ==
  g = [i \in 1 .. m |-> IF i = 1 THEN s[i] ELSE g[i - 1] \o s[i]]

(* The recursion of FlattenSeq has a solution.                             *)
LEMMA FlattenedExists ==
  ASSUME NEW s, NEW n \in Nat
  PROVE  \E g : Flattened(s, n, g)
<1> DEFINE T == {m \in 0 .. n : \E g : Flattened(s, m, g)}
<1>1. 0 \in T
  <2>1. Flattened(s, 0, <<>>)
    BY DEF Flattened
  <2> QED
    BY <2>1
<1>2. ASSUME NEW i \in 1 .. n, i - 1 \in T
      PROVE  i \in T
  <2>1. PICK g : Flattened(s, i - 1, g)
    BY <1>2
  <2> PICK h : h = [k \in 1 .. i |->
                      IF k < i THEN g[k] ELSE IF k = 1 THEN s[k] ELSE g[k - 1] \o s[k]]
    OBVIOUS
  <2>2. \A k \in 1 .. i - 1 : g[k] = IF k = 1 THEN s[k] ELSE g[k - 1] \o s[k]
    BY <2>1 DEF Flattened
  <2>3. \A k \in 1 .. i : h[k] = IF k = 1 THEN s[k] ELSE h[k - 1] \o s[k]
    <3> TAKE k \in 1 .. i
    <3>1. CASE k < i
      <4>1. k \in 1 .. i - 1 /\ h[k] = g[k] /\ (k # 1 => h[k - 1] = g[k - 1])
        BY <3>1
      <4> QED
        BY <2>2, <4>1
    <3>2. CASE k = i
      <4>1. k # 1 => h[k - 1] = g[k - 1]
        BY <3>2
      <4> QED
        BY <3>2, <4>1
    <3> QED
      BY <3>1, <3>2
  <2>4. Flattened(s, i, h)
    BY <2>3 DEF Flattened
  <2> QED
    BY <2>4
<1>3. 0 .. n \subseteq T
  <2> HIDE DEF T
  <2> QED
    BY <1>1, <1>2, OneAfterTheOther
<1> QED
  BY <1>3

(* FlattenSeq is where it ends.                                            *)
LEMMA FlattenSeqIs ==
  ASSUME NEW s, Len(s) \in Nat \ {0}
  PROVE  \E g : Flattened(s, Len(s), g) /\ FlattenSeq(s) = g[Len(s)]
<1> PICK n : n = Len(s)
  OBVIOUS
<1> PICK g : g = CHOOSE f : Flattened(s, n, f)
  OBVIOUS
<1>1. Flattened(s, n, g)
  BY FlattenedExists, Zenon
<1>2. FlattenSeq(s) = g[n]
  BY DEF FlattenSeq, Flattened
<1> QED
  BY <1>1, <1>2

(* The first m parts stand one behind the other.                           *)
Laid(parts, off, m, all) ==
  /\ off[0] = 0 /\ off[m] = Len(all)
  /\ \A i \in 1 .. m :
       /\ off[i - 1] \in Nat /\ off[i] = off[i - 1] + Len(parts[i]) /\ off[i] <= Len(all)
       /\ \A j \in 1 .. Len(parts[i]) : all[off[i - 1] + j] = parts[i][j]

(* One sequence behind the other.                                          *)
Behind(r, p, q) ==
  /\ Len(r) = Len(p) + Len(q)
  /\ \A k \in 1 .. Len(p) : r[k] = p[k]
  /\ \A k \in 1 .. Len(q) : r[Len(p) + k] = q[k]

(* A concatenation is that.                                                *)
LEMMA OneBehindTheOther ==
  ASSUME NEW S, NEW p \in Seq(S), NEW q \in Seq(S)
  PROVE  p \o q \in Seq(S) /\ Behind(p \o q, p, q)
BY ConcatProperties DEF Behind

Lengths(s, n) == \A i \in 1 .. n : Len(s[i]) \in Nat

(* One sequence more.                                                      *)
LEMMA LaidOneMore ==
  ASSUME NEW s, NEW n \in Nat, Lengths(s, n), NEW i \in 1 .. n,
         NEW off, NEW g, Len(g) \in Nat, Laid(s, off, i - 1, g),
         NEW x, x = s[i], off[i] = off[i - 1] + Len(x), NEW h, Behind(h, g, x)
  PROVE  Laid(s, off, i, h)
<1>1. Len(x) \in Nat /\ Len(h) = Len(g) + Len(x) /\ i \in Nat
  BY DEF Lengths, Behind
<1>2. off[i - 1] = Len(g) /\ off[0] = 0 /\ off[i] = Len(h)
  BY <1>1 DEF Laid
<1>3. ASSUME NEW k \in 1 .. i - 1
      PROVE  /\ off[k - 1] \in Nat /\ off[k] = off[k - 1] + Len(s[k]) /\ off[k] <= Len(h)
             /\ \A j \in 1 .. Len(s[k]) : h[off[k - 1] + j] = s[k][j]
  <2> PICK y : y = s[k]
    OBVIOUS
  <2> PICK o : o = off[k - 1]
    OBVIOUS
  <2>1. /\ off[k] <= Len(g) /\ o \in Nat /\ off[k] = o + Len(y)
        /\ \A j \in 1 .. Len(y) : g[o + j] = y[j]
    BY DEF Laid
  <2>2. Len(y) \in Nat
    BY <1>1 DEF Lengths
  <2>3. ASSUME NEW j \in 1 .. Len(y) PROVE h[o + j] = y[j]
    <3>1. o + j \in 1 .. Len(g)
      BY <2>1, <2>2, SMTT(30)
    <3>2. h[o + j] = g[o + j]
      BY <3>1 DEF Behind
    <3> QED
      BY <2>1, <3>2
  <2> QED
    BY <1>1, <2>1, <2>2, <2>3, SMTT(30)
<1>4. /\ off[i - 1] \in Nat /\ off[i] = off[i - 1] + Len(x) /\ off[i] <= Len(h)
      /\ \A j \in 1 .. Len(x) : h[off[i - 1] + j] = x[j]
  BY <1>1, <1>2 DEF Behind
<1>5. \A k \in 1 .. i : k \in 1 .. i - 1 \/ k = i
  BY <1>1
<1> QED
  BY <1>2, <1>3, <1>4, <1>5 DEF Laid

(* In what FlattenSeq makes of sequences, each has its place.              *)
LEMMA FlattenSeqPlaces ==
  ASSUME NEW S, NEW s \in Seq(Seq(S))
  PROVE  FlattenSeq(s) \in Seq(S) /\ \E off : Laid(s, off, Len(s), FlattenSeq(s))
<1> PICK n : n = Len(s)
  OBVIOUS
<1>0. n \in Nat /\ \A i \in 1 .. n : s[i] \in Seq(S)
  BY LenProperties, ElementOfSeq
<1>1. CASE n = 0
  <2>1. s = <<>> /\ FlattenSeq(s) = <<>>
    <3>1. s = <<>>
      BY <1>1, EmptySeq
    <3> QED
      BY <3>1 DEF FlattenSeq
  <2>2. Laid(s, [i \in {0} |-> 0], 0, <<>>)
    BY <2>1 DEF Laid
  <2> QED
    BY <1>1, <2>1, <2>2
<1>2. CASE n # 0
  <2>1. PICK f : Flattened(s, n, f) /\ FlattenSeq(s) = f[n]
    BY <1>0, <1>2, FlattenSeqIs
  <2>2. \A i \in 1 .. n : f[i] = IF i = 1 THEN s[i] ELSE f[i - 1] \o s[i]
    BY <2>1 DEF Flattened
  <2> PICK g : g = [i \in 0 .. n |-> IF i = 0 THEN <<>> ELSE f[i]]
    OBVIOUS
  <2>3. g[0] = <<>> /\ g[n] = FlattenSeq(s)
    BY <1>0, <1>2, <2>1
  <2>4. \A i \in 1 .. n : g[i] = g[i - 1] \o s[i]
    <3> TAKE i \in 1 .. n
    <3>1. CASE i = 1
      <4>1. g[i] = s[i] /\ g[i - 1] = <<>> /\ s[i] \in Seq(S)
        BY <1>0, <2>2, <3>1
      <4>2. <<>> \o s[i] = s[i]
        BY <4>1, ConcatEmptySeq
      <4> QED
        BY <4>1, <4>2
    <3>2. CASE i # 1
      <4>1. i \in 0 .. n /\ i - 1 \in 0 .. n /\ i # 0 /\ i - 1 # 0
        BY <1>0, <3>2
      <4>2. g[i] = f[i] /\ g[i - 1] = f[i - 1]
        BY <4>1
      <4> QED
        BY <2>2, <3>2, <4>2
    <3> QED
      BY <3>1, <3>2
  <2> PICK off : off = [i \in 0 .. n |-> Len(g[i])]
    OBVIOUS
  <2> DEFINE T == {m \in 0 .. n : g[m] \in Seq(S) /\ Laid(s, off, m, g[m])}
  <2>5. 0 \in T
    BY <1>0, <2>3 DEF Laid
  <2>6. ASSUME NEW i \in 1 .. n, i - 1 \in T PROVE i \in T
    <3>1. i \in 0 .. n /\ i - 1 \in 0 .. n
      BY <1>0
    <3> PICK p : p = g[i - 1]
      OBVIOUS
    <3> PICK h : h = g[i]
      OBVIOUS
    <3> PICK x : x = s[i]
      OBVIOUS
    <3>2. p \in Seq(S) /\ Laid(s, off, i - 1, p) /\ x \in Seq(S) /\ h = p \o x
      BY <1>0, <2>4, <2>6
    <3>3. h \in Seq(S) /\ Behind(h, p, x)
      <4>1. p \o x \in Seq(S) /\ Behind(p \o x, p, x)
        BY <3>2, OneBehindTheOther
      <4> QED
        BY <3>2, <4>1, Zenon
    <3>4. off[i] = Len(h) /\ off[i - 1] = Len(p)
      BY <3>1
    <3>5. off[i] = off[i - 1] + Len(x) /\ Len(p) \in Nat
      BY <3>2, <3>3, <3>4, LenProperties DEF Behind
    <3>6. Lengths(s, n)
      BY <1>0, LenProperties DEF Lengths
    <3>7. Laid(s, off, i, h)
      <4> HIDE DEF T
      <4> QED
        BY <1>0, <3>2, <3>3, <3>5, <3>6, LaidOneMore
    <3> QED
      BY <3>1, <3>3, <3>7
  <2>7. n \in T
    <3> HIDE DEF T
    <3>1. 0 .. n \subseteq T
      BY <1>0, <2>5, <2>6, OneAfterTheOther
    <3> QED
      BY <1>0, <3>1
  <2> QED
    BY <2>3, <2>7
<1> QED
  BY <1>1, <1>2

-----------------------------------------------------------------------------
(* Reading parts from a sequence that begins with them or breaks off.      *)

Begins(p, ws) == Len(p) <= Len(ws) /\ \A i \in 1 .. Len(p) : ws[i] = p[i]
Drop(ws, k) == SubSeq(ws, k + 1, Len(ws))

(* What reading part p as value v comes to, of words that begin with p or  *)
(* end within it.                                                          *)
ReadsAs(r, p, v, ws) ==
  /\ Begins(p, ws) => r = Got(v, Drop(ws, Len(p)))
  /\ Begins(ws, p) /\ Len(ws) < Len(p) => r = Threw

IsRest(v, ws, k) ==
  Len(v) = Len(ws) - k /\ \A j \in 1 .. Len(ws) - k : v[j] = ws[k + j]

(* What is left without the first k.                                       *)
LEMMA Dropping ==
  ASSUME NEW S, NEW ws \in Seq(S), NEW k \in 0 .. Len(ws)
  PROVE  Drop(ws, k) \in Seq(S) /\ IsRest(Drop(ws, k), ws, k)
<1>1. Len(ws) \in Nat /\ \A i \in 1 .. Len(ws) : ws[i] \in S
  BY LenProperties, ElementOfSeq
<1>2. k + 1 \in Int /\ Len(ws) \in Int /\ \A i \in k + 1 .. Len(ws) : ws[i] \in S
  BY <1>1
<1>3. /\ SubSeq(ws, k + 1, Len(ws)) \in Seq(S)
      /\ Len(SubSeq(ws, k + 1, Len(ws)))
           = IF k + 1 <= Len(ws) THEN Len(ws) - (k + 1) + 1 ELSE 0
      /\ \A i \in 1 .. Len(ws) - (k + 1) + 1 :
           SubSeq(ws, k + 1, Len(ws))[i] = ws[k + 1 + i - 1]
  BY <1>2, SubSeqProperties
<1>4. Len(ws) - (k + 1) + 1 = Len(ws) - k /\ \A i \in Int : k + 1 + i - 1 = k + i
  BY <1>1
<1>5. \A j \in 1 .. Len(ws) - k : SubSeq(ws, k + 1, Len(ws))[j] = ws[k + j]
  BY <1>3, <1>4
<1>6. (IF k + 1 <= Len(ws) THEN Len(ws) - (k + 1) + 1 ELSE 0) = Len(ws) - k
  BY <1>1
<1> QED
  BY <1>3, <1>5, <1>6 DEF Drop, IsRest

(* Without the first k, then without the first m of the rest.              *)
LEMMA DroppingTwice ==
  ASSUME NEW S, NEW ws \in Seq(S), NEW k \in Nat, NEW m \in Nat, k + m <= Len(ws)
  PROVE  Drop(Drop(ws, k), m) = Drop(ws, k + m)
<1> PICK v : v = Drop(ws, k)
  OBVIOUS
<1>1. Len(ws) \in Nat /\ k \in 0 .. Len(ws) /\ k + m \in 0 .. Len(ws)
  BY LenProperties
<1>2. v \in Seq(S) /\ Len(v) = Len(ws) - k /\ \A j \in 1 .. Len(ws) - k : v[j] = ws[k + j]
  BY <1>1, Dropping DEF IsRest
<1>3. m \in 0 .. Len(v) /\ Len(v) \in Nat
  BY <1>1, <1>2
<1> PICK x : x = Drop(v, m)
  OBVIOUS
<1>4. x \in Seq(S) /\ Len(x) = Len(v) - m /\ \A j \in 1 .. Len(v) - m : x[j] = v[m + j]
  <2>1. x \in Seq(S) /\ IsRest(x, v, m)
    <3>1. v \in Seq(S) /\ m \in 0 .. Len(v)
      BY <1>2, <1>3
    <3> QED
      BY <3>1, Dropping
  <2> QED
    BY <2>1 DEF IsRest
<1> PICK y : y = Drop(ws, k + m)
  OBVIOUS
<1>5. /\ y \in Seq(S) /\ Len(y) = Len(ws) - (k + m)
      /\ \A j \in 1 .. Len(ws) - (k + m) : y[j] = ws[k + m + j]
  <2>1. y \in Seq(S) /\ IsRest(y, ws, k + m)
    BY <1>1, Dropping
  <2> QED
    BY <2>1 DEF IsRest
<1>6. Len(v) - m = Len(ws) - (k + m)
  BY <1>1, <1>2
<1>7. \A j \in 1 .. Len(ws) - (k + m) : v[m + j] = ws[k + m + j]
  <2> TAKE j \in 1 .. Len(ws) - (k + m)
  <2>1. m + j \in 1 .. Len(ws) - k /\ k + (m + j) = k + m + j
    BY <1>1
  <2> QED
    BY <1>2, <2>1
<1>8. \A j \in 1 .. Len(x) : x[j] = y[j]
  BY <1>4, <1>5, <1>6, <1>7
<1>9. x = y
  <2>1. Len(x) = Len(y)
    BY <1>4, <1>5, <1>6
  <2> QED
    BY <1>4, <1>5, <1>8, <2>1, SeqEqual
<1> QED
  BY <1>9

(* The first values, one by one.                                           *)
LEMMA FirstValues ==
  ASSUME NEW V, NEW vals \in Seq(V), NEW i \in 1 .. Len(vals)
  PROVE  Append(SubSeq(vals, 1, i - 1), vals[i]) = SubSeq(vals, 1, i)
<1>1. 1 \in 1 .. Len(vals) /\ i \in 1 .. Len(vals) /\ Len(vals) \in Nat
  BY LenProperties
<1>2. SubSeq(vals, 1, i) = SubSeq(vals, 1, i - 1) \o <<vals[i]>>
  <2>1. i \in 1 .. Len(vals) /\ 1 \in 1 .. Len(vals)
    BY <1>1
  <2> QED
    BY <2>1, SubSeqRecursiveSecond
<1>3. SubSeq(vals, 1, i - 1) \in Seq(V) /\ vals[i] \in V
  <2>1. \A k \in 1 .. i - 1 : vals[k] \in V
    BY <1>1, ElementOfSeq
  <2>2. 1 \in Int /\ i - 1 \in Int
    BY <1>1
  <2>3. SubSeq(vals, 1, i - 1) \in Seq(V)
    BY <2>1, <2>2, SubSeqProperties
  <2> QED
    BY <1>1, <2>3, ElementOfSeq
<1>4. Append(SubSeq(vals, 1, i - 1), vals[i]) = SubSeq(vals, 1, i - 1) \o <<vals[i]>>
  BY <1>3, AppendIsConcat
<1> QED
  BY <1>2, <1>4

(* What is read after the first i parts.                                   *)
After(vals, ws, off, i) ==
  IF off[i] <= Len(ws) THEN Got(SubSeq(vals, 1, i), Drop(ws, off[i])) ELSE Threw

(* A part, and words that begin where it stands.                           *)
Agree(ws, all) == \A j \in 1 .. Len(all) : j <= Len(ws) => ws[j] = all[j]
Holds(all, o, p) == \A j \in 1 .. Len(p) : all[o + j] = p[j]

(* The words that are left begin with the part that comes next, or end     *)
(* within it.                                                              *)
LEMMA RestBegins ==
  ASSUME NEW ws, NEW all, NEW p, NEW w, NEW o \in Nat,
         Len(ws) \in Nat, Len(all) \in Nat, Len(p) \in Nat,
         Agree(ws, all), Holds(all, o, p),
         o + Len(p) <= Len(all), o <= Len(ws), IsRest(w, ws, o)
  PROVE  /\ o + Len(p) <= Len(ws) => Begins(p, w)
         /\ ~(o + Len(p) <= Len(ws)) => Begins(w, p) /\ Len(w) < Len(p)
<1>1. Len(w) = Len(ws) - o
  BY DEF IsRest
<1>2. ASSUME NEW j \in 1 .. Len(p), j <= Len(w)
      PROVE  w[j] = p[j]
  <2>1. j \in 1 .. Len(ws) - o /\ o + j \in 1 .. Len(all) /\ o + j <= Len(ws)
    BY <1>1, <1>2
  <2>2. w[j] = ws[o + j]
    BY <2>1 DEF IsRest
  <2> QED
    BY <2>1, <2>2 DEF Agree, Holds
<1>3. o + Len(p) <= Len(ws) => Begins(p, w)
  BY <1>1, <1>2 DEF Begins
<1>4. ~(o + Len(p) <= Len(ws)) => Begins(w, p) /\ Len(w) < Len(p)
  BY <1>1, <1>2 DEF Begins
<1> QED
  BY <1>3, <1>4

(* d reads part p as value v. *)
Reader(d, p, v, S) == \A w \in Seq(S) : ReadsAs(d[w], p, v, w)

(* Reading the next part.                                                  *)
LEMMA NextPart ==
  ASSUME NEW S, NEW ws \in Seq(S), NEW n \in Nat, NEW V, NEW vals \in Seq(V), Len(vals) = n,
         NEW parts, Lengths(parts, n), NEW off, NEW all, Laid(parts, off, n, all),
         Len(all) \in Nat, Begins(all, ws) \/ Begins(ws, all),
         NEW i \in 1 .. n, NEW d, Reader(d, parts[i], vals[i], S)
  PROVE  LET read == After(vals, ws, off, i - 1)
             next == d[read.rest]
         IN  /\ read.ok \in BOOLEAN /\ (read.ok => read.rest \in Seq(S))
             /\ After(vals, ws, off, i) =
                  IF read.ok /\ next.ok THEN Got(Append(read.value, next.value), next.rest)
                  ELSE Threw
<1> PICK p : p = parts[i]
  OBVIOUS
<1> PICK o : o = off[i - 1]
  OBVIOUS
<1> PICK read : read = After(vals, ws, off, i - 1)
  OBVIOUS
<1> PICK w : w = Drop(ws, o)
  OBVIOUS
<1>1. /\ o \in Nat /\ off[i] = o + Len(p) /\ off[i] <= Len(all)
      /\ Holds(all, o, p)
  BY DEF Laid, Holds
<1>2. Len(p) \in Nat /\ Len(ws) \in Nat
  BY LenProperties DEF Lengths
<1>3. Agree(ws, all)
  BY <1>2 DEF Begins, Agree
<1>4. o <= Len(ws) => read = Got(SubSeq(vals, 1, i - 1), w)
  BY DEF After
<1>5. ~(o <= Len(ws)) => read = Threw
  BY DEF After
<1>6. CASE ~(o <= Len(ws))
  <2>1. read.ok = FALSE
    BY <1>5, <1>6 DEF Threw
  <2>2. After(vals, ws, off, i) = Threw
    BY <1>1, <1>2, <1>6 DEF After
  <2> QED
    BY <2>1, <2>2
<1>7. CASE o <= Len(ws)
  <2>1. w \in Seq(S) /\ IsRest(w, ws, o)
    <3>1. o \in 0 .. Len(ws)
      BY <1>1, <1>2, <1>7
    <3> QED
      BY <3>1, Dropping
  <2>2. read.ok = TRUE /\ read.value = SubSeq(vals, 1, i - 1) /\ read.rest = w
    BY <1>4, <1>7 DEF Got
  <2>3. /\ off[i] <= Len(ws) => Begins(p, w)
        /\ ~(off[i] <= Len(ws)) => Begins(w, p) /\ Len(w) < Len(p)
    <3>1. o + Len(p) <= Len(all)
      BY <1>1
    <3>2. /\ o + Len(p) <= Len(ws) => Begins(p, w)
          /\ ~(o + Len(p) <= Len(ws)) => Begins(w, p) /\ Len(w) < Len(p)
      BY <1>1, <1>2, <1>3, <1>7, <2>1, <3>1, RestBegins
    <3> QED
      BY <1>1, <3>2
  <2>4. ReadsAs(d[w], p, vals[i], w)
    BY <2>1 DEF Reader
  <2>5. CASE off[i] <= Len(ws)
    <3>1. Begins(p, w)
      BY <2>3, <2>5
    <3>2. d[w] = Got(vals[i], Drop(w, Len(p)))
      BY <2>4, <3>1 DEF ReadsAs
    <3>3. Drop(w, Len(p)) = Drop(ws, off[i])
      BY <1>1, <1>2, <2>5, DroppingTwice
    <3>4. Append(SubSeq(vals, 1, i - 1), vals[i]) = SubSeq(vals, 1, i)
      BY FirstValues
    <3>5. After(vals, ws, off, i) = Got(SubSeq(vals, 1, i), Drop(ws, off[i]))
      BY <2>5 DEF After
    <3>6. d[w].ok = TRUE /\ d[w].value = vals[i] /\ d[w].rest = Drop(ws, off[i])
      BY <3>2, <3>3 DEF Got
    <3> QED
      BY <2>1, <2>2, <3>4, <3>5, <3>6
  <2>6. CASE ~(off[i] <= Len(ws))
    <3>1. Begins(w, p) /\ Len(w) < Len(p)
      BY <2>3, <2>6
    <3>2. d[w] = Threw
      BY <2>4, <3>1 DEF ReadsAs
    <3>3. d[w].ok = FALSE
      BY <3>2 DEF Threw
    <3>4. After(vals, ws, off, i) = Threw
      BY <2>6 DEF After
    <3> QED
      BY <2>1, <2>2, <3>3, <3>4
  <2> QED
    BY <2>5, <2>6
<1> QED
  BY <1>6, <1>7

(* Reading all of them.                                                    *)
LEMMA AllParts ==
  ASSUME NEW S, NEW ws \in Seq(S), NEW n \in Nat, NEW V, NEW vals \in Seq(V), Len(vals) = n,
         NEW parts, NEW off, NEW all, Laid(parts, off, n, all), Len(all) \in Nat
  PROVE  /\ After(vals, ws, off, 0) = Got(<<>>, ws)
         /\ ReadsAs(After(vals, ws, off, n), all, vals, ws)
<1>1. Len(ws) \in Nat /\ off[0] = 0 /\ off[n] = Len(all)
  BY LenProperties DEF Laid
<1>2. SubSeq(vals, 1, 0) = <<>> /\ SubSeq(vals, 1, n) = vals
  BY SubSeqEmpty, SubSeqFull
<1>3. Drop(ws, 0) = ws
  BY SubSeqFull DEF Drop
<1>4. After(vals, ws, off, 0) = Got(<<>>, ws)
  <2>1. After(vals, ws, off, 0) = Got(SubSeq(vals, 1, 0), Drop(ws, 0))
    BY <1>1 DEF After
  <2> QED
    BY <1>2, <1>3, <2>1, Zenon
<1>5. After(vals, ws, off, n) = IF Len(all) <= Len(ws) THEN Got(vals, Drop(ws, Len(all)))
                                                     ELSE Threw
  BY <1>1, <1>2 DEF After
<1>6. ReadsAs(After(vals, ws, off, n), all, vals, ws)
  <2>1. CASE Len(all) <= Len(ws)
    BY <1>1, <1>5, <2>1 DEF ReadsAs
  <2>2. CASE ~(Len(all) <= Len(ws))
    BY <1>1, <1>5, <2>2 DEF ReadsAs, Begins
  <2> QED
    BY <2>1, <2>2
<1> QED
  BY <1>4, <1>6

-----------------------------------------------------------------------------
(* Words and their bytes, padded or broken off.                            *)

Word == 0 .. WordBase - 1

(* The last digit of a number, and the others.                             *)
LEMMA QuotientAndRemainder ==
  ASSUME NEW b \in Nat \ {0}, NEW r \in 0 .. b - 1, NEW q \in Nat
  PROVE  (r + b * q) % b = r /\ (r + b * q) \div b = q
<1> PICK v : v = r + b * q
  OBVIOUS
<1> PICK x : x = v \div b
  OBVIOUS
<1> PICK y : y = v % b
  OBVIOUS
<1>1. v \in Nat /\ b * q \in Nat
  OBVIOUS
<1>2. v = b * x + y /\ y \in 0 .. b - 1 /\ x \in Nat
  BY <1>1, Division
<1>3. \A k \in Nat : k >= 1 => b * k >= b
  OBVIOUS
<1>4. ~(x < q)
  <2> SUFFICES ASSUME x < q PROVE FALSE
    OBVIOUS
  <2>1. PICK k \in Nat : k >= 1 /\ q = x + k
    <3>1. q - x \in Nat /\ q - x >= 1 /\ q = x + (q - x)
      BY <1>2
    <3> QED
      BY <3>1
  <2>2. b * q = b * x + b * k
    BY <1>2, <2>1
  <2>3. b * k >= b /\ b * k \in Nat /\ b * x \in Nat
    BY <1>2, <1>3, <2>1
  <2> QED
    BY <1>1, <1>2, <2>2, <2>3
<1>5. ~(q < x)
  <2> SUFFICES ASSUME q < x PROVE FALSE
    OBVIOUS
  <2>1. PICK k \in Nat : k >= 1 /\ x = q + k
    <3>1. x - q \in Nat /\ x - q >= 1 /\ x = q + (x - q)
      BY <1>2
    <3> QED
      BY <3>1
  <2>2. b * x = b * q + b * k
    BY <1>2, <2>1
  <2>3. b * k >= b /\ b * k \in Nat
    BY <1>3, <2>1
  <2> QED
    BY <1>1, <1>2, <2>2, <2>3
<1>6. x = q
  BY <1>2, <1>4, <1>5
<1> QED
  BY <1>1, <1>2, <1>6

(* Digits make a number, whose digits they are.                            *)
LEMMA NumberHasItsDigits ==
  ASSUME NEW b \in Nat \ {0}, NEW d, \A j \in 1 .. 4 : d[j] \in 0 .. b - 1
  PROVE  /\ OfFour(d, b) \in 0 .. b * b * b * b - 1
         /\ \A j \in 1 .. 4 : FourDigits(OfFour(d, b), b)[j] = d[j]
<1>1. /\ d[1] \in 0 .. b - 1 /\ d[2] \in 0 .. b - 1
      /\ d[3] \in 0 .. b - 1 /\ d[4] \in 0 .. b - 1
  OBVIOUS
<1> PICK v4 : v4 = d[4]
  OBVIOUS
<1> PICK v3 : v3 = d[3] + b * v4
  OBVIOUS
<1> PICK v2 : v2 = d[2] + b * v3
  OBVIOUS
<1> PICK v : v = d[1] + b * v2
  OBVIOUS
<1>2. ASSUME NEW m \in Nat \ {0}, NEW q \in 0 .. m - 1, NEW r \in 0 .. b - 1
      PROVE  r + b * q \in 0 .. b * m - 1
  <2>1. b * m = b * (m - 1) + b /\ b * q + b * (m - 1 - q) = b * (m - 1)
    OBVIOUS
  <2>2. b * (m - 1 - q) \in Nat /\ b * q \in Nat
    OBVIOUS
  <2> QED
    BY <2>1, <2>2
<1>3. b * b \in Nat \ {0} /\ b * (b * b) \in Nat \ {0}
      /\ b * (b * (b * b)) = b * b * b * b
  OBVIOUS
<1>4. v4 \in 0 .. b - 1
  BY <1>1
<1>5. v3 \in 0 .. b * b - 1
  BY <1>1, <1>2, <1>4
<1>6. v2 \in 0 .. b * (b * b) - 1
  BY <1>1, <1>2, <1>3, <1>5
<1>7. v \in 0 .. b * (b * (b * b)) - 1
  BY <1>1, <1>2, <1>3, <1>6
<1>8. v4 \in Nat /\ v3 \in Nat /\ v2 \in Nat /\ v \in Nat
  BY <1>3, <1>4, <1>5, <1>6, <1>7
<1>9. OfFour(d, b) = v
  BY DEF OfFour
<1>10. v % b = d[1] /\ v \div b = v2
  BY <1>1, <1>8, QuotientAndRemainder
<1>11. v2 % b = d[2] /\ v2 \div b = v3
  BY <1>1, <1>8, QuotientAndRemainder
<1>12. v3 % b = d[3] /\ v3 \div b = v4
  BY <1>1, <1>8, QuotientAndRemainder
<1>13. v4 % b = d[4]
  <2>1. v4 < b
    BY <1>4
  <2>2. v4 % b = v4
    BY <1>8, <2>1, Division
  <2> QED
    BY <2>2
<1>14. FourDigits(v, b) = <<v % b, v2 % b, v3 % b, v4 % b>>
  BY <1>10, <1>11, <1>12 DEF FourDigits
<1>15. \A j \in 1 .. 4 : FourDigits(v, b)[j] = d[j]
  <2>1. /\ FourDigits(v, b)[1] = d[1] /\ FourDigits(v, b)[2] = d[2]
        /\ FourDigits(v, b)[3] = d[3] /\ FourDigits(v, b)[4] = d[4]
    <3>1. FourDigits(v, b) = <<d[1], d[2], d[3], d[4]>>
      BY <1>10, <1>11, <1>12, <1>13, <1>14, Zenon
    <3> HIDE DEF FourDigits
    <3> PICK f : f = FourDigits(v, b)
      OBVIOUS
    <3>2. f[1] = d[1] /\ f[2] = d[2] /\ f[3] = d[3] /\ f[4] = d[4]
      BY <3>1
    <3> QED
      BY <3>2
  <2>2. \A j \in 1 .. 4 : j = 1 \/ j = 2 \/ j = 3 \/ j = 4
    OBVIOUS
  <2> QED
    BY <2>1, <2>2
<1> QED
  BY <1>3, <1>7, <1>9, <1>15

(* A word is made of the bytes at its place, and they are its digits.      *)
LEMMA WordOfBytes ==
  ASSUME NEW s \in Seq(Byte), NEW i \in Nat
  PROVE  /\ WordAt(s, i) \in Word
         /\ \A j \in 1 .. 4 : FourDigits(WordAt(s, i), ByteBase)[j] = ByteAt(s, i + j - 1)
<1> PICK d : d = [j \in 1 .. 4 |-> ByteAt(s, i + j - 1)]
  OBVIOUS
<1>1. \A k : ByteAt(s, k) \in Byte
  <2> SUFFICES ASSUME NEW k, k \in DOMAIN s PROVE s[k] \in Byte
    BY Bases DEF ByteAt
  <2> QED
    BY LenProperties, ElementOfSeq
<1>2. \A j \in 1 .. 4 : d[j] \in 0 .. ByteBase - 1
  BY <1>1 DEF Byte
<1>3. /\ OfFour(d, ByteBase) \in 0 .. ByteBase * ByteBase * ByteBase * ByteBase - 1
      /\ \A j \in 1 .. 4 : FourDigits(OfFour(d, ByteBase), ByteBase)[j] = d[j]
  BY <1>2, Bases, NumberHasItsDigits
<1>4. WordAt(s, i) = OfFour(d, ByteBase)
  BY DEF WordAt
<1> QED
  BY <1>3, <1>4 DEF Word, WordBase

(* Padded to words.                                                        *)
LEMMA PaddedToWords ==
  ASSUME NEW s \in Seq(Byte)
  PROVE  /\ PushBytesPadded(s) \in Seq(Word) /\ Len(PushBytesPadded(s)) = (Len(s) + 3) \div 4
         /\ SubSeq(WordsToBytes(PushBytesPadded(s)), 1, Len(s)) = s
<1> PICK n : n = Len(s)
  OBVIOUS
<1> PICK m : m = (n + 3) \div 4
  OBVIOUS
<1> PICK p : p = PushBytesPadded(s)
  OBVIOUS
<1> PICK b : b = WordsToBytes(p)
  OBVIOUS
<1>1. n \in Nat /\ m \in Nat
  BY LenProperties
<1>2. p = [k \in 1 .. m |-> WordAt(s, 4 * k - 3)]
  BY DEF PushBytesPadded
<1>3. \A k \in 1 .. m : 4 * k - 3 \in Nat
  BY <1>1
<1>4. p \in Seq(Word) /\ Len(p) = m
  <2>1. p \in [1 .. m -> Word]
    BY <1>2, <1>3, WordOfBytes
  <2> QED
    BY <1>1, <2>1, FunctionsAreSequences
<1>5. b = [i \in 1 .. 4 * m |-> FourDigits(p[(i + 3) \div 4], ByteBase)[((i - 1) % 4) + 1]]
  BY <1>4 DEF WordsToBytes
<1>6. ASSUME NEW i \in 1 .. n
      PROVE  i \in 1 .. 4 * m /\ b[i] = s[i]
  <2> PICK k : k = (i + 3) \div 4
    OBVIOUS
  <2> PICK j : j = ((i - 1) % 4) + 1
    OBVIOUS
  <2>1. k \in 1 .. m /\ j \in 1 .. 4 /\ i \in 1 .. 4 * m /\ 4 * k - 3 \in Nat
        /\ 4 * k - 3 + j - 1 = i
    BY <1>1
  <2>2. b[i] = FourDigits(WordAt(s, 4 * k - 3), ByteBase)[j]
    BY <1>2, <1>5, <2>1
  <2>3. b[i] = ByteAt(s, i)
    BY <2>1, <2>2, WordOfBytes
  <2>4. i \in DOMAIN s
    BY LenProperties
  <2> QED
    BY <2>1, <2>3, <2>4 DEF ByteAt
<1>7. \A i \in 1 .. n : s[i] \in Byte
  BY ElementOfSeq
<1> PICK t : t = SubSeq(b, 1, n)
  OBVIOUS
<1>8. t \in Seq(Byte) /\ Len(t) = n /\ \A i \in 1 .. n : t[i] = b[i]
  <2>1. \A i \in 1 .. n : b[i] \in Byte
    BY <1>6, <1>7
  <2>2. 1 \in Int /\ n \in Int
    BY <1>1
  <2>3. /\ SubSeq(b, 1, n) \in Seq(Byte)
        /\ Len(SubSeq(b, 1, n)) = IF 1 <= n THEN n - 1 + 1 ELSE 0
        /\ \A i \in 1 .. n - 1 + 1 : SubSeq(b, 1, n)[i] = b[1 + i - 1]
    BY <2>1, <2>2, SubSeqProperties
  <2>4. (IF 1 <= n THEN n - 1 + 1 ELSE 0) = n /\ n - 1 + 1 = n /\ \A i \in Int : 1 + i - 1 = i
    BY <1>1
  <2> QED
    BY <2>3, <2>4
<1>9. t = s
  BY <1>6, <1>8, SeqEqual
<1> QED
  BY <1>4, <1>9

(* The first n elements.                                                   *)
LEMMA FirstElements ==
  ASSUME NEW S, NEW s \in Seq(S), NEW n \in 0 .. Len(s)
  PROVE  /\ SubSeq(s, 1, n) \in Seq(S) /\ Len(SubSeq(s, 1, n)) = n
         /\ \A i \in 1 .. n : SubSeq(s, 1, n)[i] = s[i]
<1>1. Len(s) \in Nat
  BY LenProperties
<1>2. \A i \in 1 .. n : s[i] \in S
  BY <1>1, ElementOfSeq
<1>3. 1 \in Int /\ n \in Int
  BY <1>1
<1>4. /\ SubSeq(s, 1, n) \in Seq(S)
      /\ Len(SubSeq(s, 1, n)) = IF 1 <= n THEN n - 1 + 1 ELSE 0
      /\ \A i \in 1 .. n - 1 + 1 : SubSeq(s, 1, n)[i] = s[1 + i - 1]
  BY <1>2, <1>3, SubSeqProperties
<1>5. (IF 1 <= n THEN n - 1 + 1 ELSE 0) = n /\ n - 1 + 1 = n /\ \A i \in Int : 1 + i - 1 = i
  BY <1>1
<1> QED
  BY <1>4, <1>5

(* The bytes of words.                                                     *)
LEMMA BytesOfWords ==
  ASSUME NEW ws \in Seq(Word)
  PROVE  /\ WordsToBytes(ws) \in Seq(Byte) /\ Len(WordsToBytes(ws)) = 4 * Len(ws)
         /\ \A k \in 1 .. Len(ws), j \in 1 .. 4 :
              WordsToBytes(ws)[4 * k - 4 + j] = FourDigits(ws[k], ByteBase)[j]
<1> PICK n : n = Len(ws)
  OBVIOUS
<1> PICK b : b = WordsToBytes(ws)
  OBVIOUS
<1>1. n \in Nat /\ 4 * n \in Nat
  BY LenProperties
<1>2. b = [i \in 1 .. 4 * n |-> FourDigits(ws[(i + 3) \div 4], ByteBase)[((i - 1) % 4) + 1]]
  BY DEF WordsToBytes
<1>3. \A k \in 1 .. n, j \in 1 .. 4 :
        FourDigits(ws[k], ByteBase)[j] \in Byte
  <2> TAKE k \in 1 .. n, j \in 1 .. 4
  <2>1. ws[k] \in Word
    BY ElementOfSeq
  <2>2. FourDigits(ws[k], ByteBase) \in Seq(Byte) /\ Len(FourDigits(ws[k], ByteBase)) = 4
    BY <2>1, Bases, DigitsMakeTheNumber DEF Word, WordBase, Byte
  <2> QED
    BY <2>2, ElementOfSeq
<1>4. \A i \in 1 .. 4 * n : (i + 3) \div 4 \in 1 .. n /\ ((i - 1) % 4) + 1 \in 1 .. 4
  BY <1>1
<1>5. b \in [1 .. 4 * n -> Byte]
  BY <1>2, <1>3, <1>4
<1>6. b \in Seq(Byte) /\ Len(b) = 4 * n
  BY <1>1, <1>5, FunctionsAreSequences
<1>7. \A k \in 1 .. n, j \in 1 .. 4 : b[4 * k - 4 + j] = FourDigits(ws[k], ByteBase)[j]
  <2> TAKE k \in 1 .. n, j \in 1 .. 4
  <2> PICK i : i = 4 * k - 4 + j
    OBVIOUS
  <2>1. i \in 1 .. 4 * n /\ (i + 3) \div 4 = k /\ ((i - 1) % 4) + 1 = j
    BY <1>1
  <2> QED
    BY <1>2, <2>1
<1> QED
  BY <1>6, <1>7

(* What is left of the words when some of the bytes are.                   *)
LEMMA WordsOfBytes ==
  ASSUME NEW ws \in Seq(Word), NEW n \in 0 .. 4 * Len(ws)
  PROVE  BytesToWords(SubSeq(WordsToBytes(ws), 1, n)) = SubSeq(ws, 1, n \div 4)
<1> PICK b : b = WordsToBytes(ws)
  OBVIOUS
<1> PICK c : c = SubSeq(b, 1, n)
  OBVIOUS
<1> PICK m : m = n \div 4
  OBVIOUS
<1> PICK d : d = SubSeq(c, 1, 4 * m)
  OBVIOUS
<1>1. Len(ws) \in Nat
  BY LenProperties
<1>2. n \in Nat /\ m \in Nat /\ 4 * m \in 0 .. n /\ m \in 0 .. Len(ws)
  BY <1>1
<1>3. /\ b \in Seq(Byte) /\ Len(b) = 4 * Len(ws)
      /\ \A k \in 1 .. Len(ws), j \in 1 .. 4 :
           b[4 * k - 4 + j] = FourDigits(ws[k], ByteBase)[j]
  BY BytesOfWords
<1>4. c \in Seq(Byte) /\ Len(c) = n /\ \A i \in 1 .. n : c[i] = b[i]
  BY <1>3, FirstElements, SMTT(30)
<1>5. d \in Seq(Byte) /\ Len(d) = 4 * m /\ \A i \in 1 .. 4 * m : d[i] = c[i]
  BY <1>2, <1>4, FirstElements
<1>6. BytesToWords(c) = PushBytesPadded(d)
  BY <1>4 DEF BytesToWords
<1>7. PushBytesPadded(d) = [k \in 1 .. m |-> WordAt(d, 4 * k - 3)]
  <2>1. (4 * m + 3) \div 4 = m
    BY <1>2
  <2> QED
    BY <1>5, <2>1 DEF PushBytesPadded
<1>8. ASSUME NEW k \in 1 .. m
      PROVE  WordAt(d, 4 * k - 3) = ws[k]
  <2> PICK w : w = ws[k]
    OBVIOUS
  <2> PICK f : f = FourDigits(w, ByteBase)
    OBVIOUS
  <2>1. k \in 1 .. Len(ws) /\ w \in Word
    <3>1. k \in 1 .. Len(ws)
      BY <1>1, <1>2
    <3> QED
      BY <3>1, ElementOfSeq
  <2>2. ASSUME NEW j \in 1 .. 4
        PROVE  ByteAt(d, 4 * k - 3 + j - 1) = f[j]
    <3> PICK i : i = 4 * k - 4 + j
      OBVIOUS
    <3>1. i \in 1 .. 4 * m /\ i \in 1 .. n /\ 4 * k - 3 + j - 1 = i
      BY <1>2
    <3>2. d[i] = f[j]
      BY <1>3, <1>4, <1>5, <2>1, <3>1, ZenonT(60)
    <3>3. i \in DOMAIN d
      BY <1>5, <3>1, LenProperties
    <3> QED
      BY <3>1, <3>2, <3>3 DEF ByteAt
  <2>3. WordAt(d, 4 * k - 3) = OfFour([j \in 1 .. 4 |-> ByteAt(d, 4 * k - 3 + j - 1)], ByteBase)
    BY DEF WordAt
  <2>4. WordAt(d, 4 * k - 3) = OfFour(f, ByteBase)
    BY <2>2, <2>3 DEF OfFour
  <2>5. OfFour(f, ByteBase) = w
    BY <2>1, Bases, DigitsMakeTheNumber DEF Word, WordBase
  <2> QED
    BY <2>4, <2>5
<1> PICK p : p = PushBytesPadded(d)
  OBVIOUS
<1>9. p \in Seq(Word) /\ Len(p) = m /\ \A k \in 1 .. m : p[k] = ws[k]
  <2>1. \A k \in 1 .. m : p[k] = ws[k] /\ ws[k] \in Word
    <3>1. \A k \in 1 .. m : k \in 1 .. Len(ws)
      BY <1>1, <1>2
    <3> QED
      BY <1>7, <1>8, <3>1, ElementOfSeq
  <2>2. p \in [1 .. m -> Word]
    BY <1>7, <2>1
  <2> QED
    BY <1>2, <2>1, <2>2, FunctionsAreSequences
<1> PICK q : q = SubSeq(ws, 1, m)
  OBVIOUS
<1>10. q \in Seq(Word) /\ Len(q) = m /\ \A k \in 1 .. m : q[k] = ws[k]
  BY <1>2, FirstElements
<1>11. p = q
  BY <1>9, <1>10, SeqEqual
<1> QED
  BY <1>6, <1>11

-----------------------------------------------------------------------------
(* Values without elements.                                                *)

(* Words that are read so many at a time, where x is made of the first.    *)
LEMMA TakenReads ==
  ASSUME NEW p \in Seq(Word), NEW ws \in Seq(Word), NEW n, n = Len(p), NEW v, NEW x,
         SubSeq(ws, 1, n) = p => x = v
  PROVE  ReadsAs(IF Len(ws) < n THEN Threw ELSE Got(x, SubSeq(ws, n + 1, Len(ws))), p, v, ws)
<1>1. n \in Nat /\ Len(ws) \in Nat
  BY LenProperties
<1>2. ASSUME Begins(p, ws)
      PROVE  ~(Len(ws) < n) /\ SubSeq(ws, 1, n) = p
  <2>1. n <= Len(ws) /\ \A i \in 1 .. n : ws[i] = p[i]
    BY <1>2 DEF Begins
  <2> PICK q : q = SubSeq(ws, 1, n)
    OBVIOUS
  <2>2. q \in Seq(Word) /\ Len(q) = n /\ \A i \in 1 .. n : q[i] = ws[i]
    BY <1>1, <2>1, FirstElements
  <2>3. q = p
    BY <2>1, <2>2, SeqEqual
  <2> QED
    BY <1>1, <2>1, <2>3
<1>3. Drop(ws, n) = SubSeq(ws, n + 1, Len(ws))
  BY DEF Drop
<1> QED
  BY <1>2, <1>3 DEF ReadsAs

(* A byte, two bytes and a few small numbers fit into a word.              *)
LEMMA SmallPowers ==
  /\ ByteBase \in 0 .. WordBase /\ ByteBase * ByteBase \in 0 .. WordBase
  /\ WordBase * WordBase * WordBase * WordBase \in Nat /\ WordBase * WordBase \in Nat
  /\ {0, 1, 2, 3, 4} \subseteq Word
<1> PICK c : c = ByteBase * ByteBase
  OBVIOUS
<1>1. ByteBase \in Nat /\ ByteBase >= 2
  BY CodecAssumption
<1>2. \A a, b \in Nat : a >= 1 /\ b >= 2 => a * b >= a + a /\ a * b \in Nat
  <2> TAKE a, b \in Nat
  <2> HAVE a >= 1 /\ b >= 2
  <2>1. a * b = a + a + a * (b - 2) /\ a * (b - 2) \in Nat
    OBVIOUS
  <2> QED
    BY <2>1
<1>3. c \in Nat /\ c >= ByteBase + ByteBase
  BY <1>1, <1>2
<1>4. c * ByteBase \in Nat /\ c * ByteBase >= c + c
  BY <1>1, <1>2, <1>3
<1>5. /\ c * ByteBase * ByteBase \in Nat
      /\ c * ByteBase * ByteBase >= c * ByteBase + c * ByteBase
  BY <1>1, <1>2, <1>3, <1>4
<1>6. WordBase = c * ByteBase * ByteBase
  BY DEF WordBase
<1>7. WordBase \in Nat /\ WordBase >= 16
  BY <1>1, <1>3, <1>4, <1>5, <1>6
<1>8. \A a, b \in Nat : a * b \in Nat
  OBVIOUS
<1> QED
  BY <1>1, <1>3, <1>4, <1>5, <1>6, <1>7, <1>8 DEF Word

(* A word in front of a part that is read from the rest.                   *)
LEMMA FrontWord ==
  ASSUME NEW w \in Word, NEW q \in Seq(Word), NEW v, NEW r, NEW ws \in Seq(Word),
         ws = <<>> => r = Threw,
         ws # <<>> /\ ws[1] = w => ReadsAs(r, q, v, Tail(ws))
  PROVE  <<w>> \o q \in Seq(Word) /\ ReadsAs(r, <<w>> \o q, v, ws)
<1> PICK p : p = <<w>> \o q
  OBVIOUS
<1>1. Len(q) \in Nat /\ Len(ws) \in Nat
  BY LenProperties
<1>2. /\ p \in Seq(Word) /\ Len(p) = 1 + Len(q) /\ p[1] = w
      /\ \A k \in 1 .. Len(q) : p[1 + k] = q[k]
  <2> PICK f : f = <<w>>
    OBVIOUS
  <2>1. f \in Seq(Word) /\ Len(f) = 1 /\ f[1] = w
    OBVIOUS
  <2>2. f \o q \in Seq(Word) /\ Behind(f \o q, f, q)
    BY <2>1, OneBehindTheOther
  <2>3. p \in Seq(Word) /\ Behind(p, f, q)
    BY <2>2, Zenon
  <2> QED
    BY <2>1, <2>3 DEF Behind
<1>3. CASE ws = <<>>
  <2>1. Len(ws) = 0 /\ r = Threw
    BY <1>3
  <2> QED
    BY <1>1, <1>2, <2>1 DEF ReadsAs, Begins
<1>4. CASE ws # <<>>
  <2> PICK t : t = Tail(ws)
    OBVIOUS
  <2>1. t \in Seq(Word) /\ IsRest(t, ws, 1) /\ t = Drop(ws, 1) /\ Len(ws) >= 1
    <3>1. Len(ws) # 0
      BY <1>4, EmptySeq
    <3>2. t = Drop(ws, 1)
      BY <1>4, TailIsSubSeq DEF Drop
    <3>3. 1 \in 0 .. Len(ws)
      BY <1>1, <3>1
    <3>4. Drop(ws, 1) \in Seq(Word) /\ IsRest(Drop(ws, 1), ws, 1)
      BY <3>3, Dropping
    <3>5. Len(ws) >= 1
      BY <1>1, <3>1
    <3> QED
      BY <3>2, <3>4, <3>5, Zenon
  <2>2. Len(t) = Len(ws) - 1 /\ \A j \in 1 .. Len(ws) - 1 : t[j] = ws[1 + j]
    BY <2>1 DEF IsRest
  <2>3. ASSUME Begins(p, ws)
        PROVE  r = Got(v, Drop(ws, Len(p)))
    <3>1. ws[1] = w /\ Len(p) <= Len(ws) /\ \A k \in 1 .. Len(p) : ws[k] = p[k]
      BY <1>1, <1>2, <2>3 DEF Begins
    <3>2. /\ Len(q) <= Len(t)
          /\ \A k \in 1 .. Len(q) : 1 + k \in 1 .. Len(p) /\ k \in 1 .. Len(ws) - 1
      BY <1>1, <1>2, <2>2, <3>1
    <3>3. Begins(q, t)
      BY <1>2, <2>2, <3>1, <3>2 DEF Begins
    <3>4. r = Got(v, Drop(t, Len(q)))
      BY <1>4, <3>1, <3>3 DEF ReadsAs
    <3>5. Drop(t, Len(q)) = Drop(ws, 1 + Len(q))
      <4>1. 1 + Len(q) <= Len(ws) /\ 1 \in Nat
        BY <1>2, <3>1
      <4>2. Drop(Drop(ws, 1), Len(q)) = Drop(ws, 1 + Len(q))
        BY <1>1, <4>1, DroppingTwice
      <4> QED
        BY <2>1, <4>2, Zenon
    <3> QED
      BY <1>2, <3>4, <3>5, Zenon
  <2>4. ASSUME Begins(ws, p), Len(ws) < Len(p)
        PROVE  r = Threw
    <3>1. \A k \in 1 .. Len(ws) : p[k] = ws[k]
      BY <2>4 DEF Begins
    <3>2. ws[1] = w
      BY <1>1, <1>2, <2>1, <3>1
    <3>3. Len(t) < Len(q) /\ \A k \in 1 .. Len(t) :
            1 + k \in 1 .. Len(ws) /\ k \in 1 .. Len(ws) - 1 /\ k \in 1 .. Len(q)
      BY <1>1, <1>2, <2>2, <2>4
    <3>4. \A k \in 1 .. Len(t) : q[k] = t[k]
      BY <1>2, <2>2, <3>1, <3>3
    <3>5. Begins(t, q)
      BY <3>3, <3>4 DEF Begins
    <3> QED
      BY <1>4, <3>2, <3>3, <3>5 DEF ReadsAs
  <2> QED
    BY <2>3, <2>4 DEF ReadsAs
<1> QED
  BY <1>2, <1>3, <1>4

(* A text in its words.                                                    *)
LEMMA TextReads ==
  ASSUME NEW v \in Seq(Byte), Len(v) < WordBase
  PROVE  /\ <<Len(v)>> \o PushBytesPadded(v) \in Seq(Word)
         /\ \A ws \in Seq(Word) :
              ReadsAs(TakeText(ws), <<Len(v)>> \o PushBytesPadded(v), v, ws)
<1> PICK q : q = PushBytesPadded(v)
  OBVIOUS
<1> PICK n : n = (Len(v) + 3) \div 4
  OBVIOUS
<1>1. /\ q \in Seq(Word) /\ n = Len(q) /\ SubSeq(WordsToBytes(q), 1, Len(v)) = v
      /\ Len(v) \in Word
  BY PaddedToWords, LenProperties, Bases DEF Word
<1>2. ASSUME NEW ws \in Seq(Word)
      PROVE  /\ <<Len(v)>> \o q \in Seq(Word)
             /\ ReadsAs(TakeText(ws), <<Len(v)>> \o q, v, ws)
  <2>1. ws = <<>> => TakeText(ws) = Threw
    BY DEF TakeText
  <2>2. ASSUME ws # <<>>, ws[1] = Len(v)
        PROVE  ReadsAs(TakeText(ws), q, v, Tail(ws))
    <3> PICK t : t = Tail(ws)
      OBVIOUS
    <3> PICK x : x = SubSeq(WordsToBytes(SubSeq(t, 1, n)), 1, Len(v))
      OBVIOUS
    <3>1. TakeText(ws) = IF Len(t) < n THEN Threw ELSE Got(x, SubSeq(t, n + 1, Len(t)))
      BY <2>2 DEF TakeText, TakeWords
    <3>2. SubSeq(t, 1, n) = q => x = v
      BY <1>1, Zenon
    <3>3. t \in Seq(Word)
      BY <2>2, HeadTailProperties
    <3>4. ReadsAs(IF Len(t) < n THEN Threw ELSE Got(x, SubSeq(t, n + 1, Len(t))), q, v, t)
      BY <1>1, <3>2, <3>3, TakenReads
    <3> QED
      BY <3>1, <3>4, Zenon
  <2> QED
    BY <1>1, <2>1, <2>2, FrontWord
<1>3. <<>> \in Seq(Word)
  OBVIOUS
<1> QED
  BY <1>2, <1>3

(* The words of a value, and what is read of them.                         *)
LEMMA FlatReads ==
  ASSUME NEW type, NEW v, FlatValue(type, v)
  PROVE  /\ ~HasElements(type) /\ EncodeFlat(type, v) \in Seq(Word)
         /\ \A ws \in Seq(Word) :
              ReadsAs(DecodeFlat(type, ws), EncodeFlat(type, v), v, ws)
<1> PICK p : p = EncodeFlat(type, v)
  OBVIOUS
<1> SUFFICES /\ ~HasElements(type) /\ p \in Seq(Word)
             /\ \A ws \in Seq(Word) : ReadsAs(DecodeFlat(type, ws), p, v, ws)
  OBVIOUS
<1>1. type.kind \in {"bool", "u8", "u16", "u32", "char", "u64", "i64", "u128", "string"}
  BY DEF FlatValue
<1>2. ~HasElements(type)
  BY <1>1 DEF HasElements
<1>3. CASE type.kind = "bool"
  <2>1. v \in BOOLEAN
    BY <1>3 DEF FlatValue
  <2>2. p = <<IF v THEN 1 ELSE 0>>
    BY <1>3 DEF EncodeFlat
  <2> PICK w : w = IF v THEN 1 ELSE 0
    OBVIOUS
  <2>3. w \in Word /\ p = <<w>> /\ (w # 0) = v
    BY <2>1, <2>2, SmallPowers
  <2>4. p \in Seq(Word) /\ 1 = Len(p) /\ p[1] = w
    BY <2>3
  <2>5. ASSUME NEW ws \in Seq(Word)
        PROVE  ReadsAs(DecodeFlat(type, ws), p, v, ws)
    <3>1. DecodeFlat(type, ws) = IF Len(ws) < 1 THEN Threw
                                 ELSE Got(SubSeq(ws, 1, 1)[1] # 0, SubSeq(ws, 1 + 1, Len(ws)))
      BY <1>3 DEF DecodeFlat, TakeWords
    <3>2. SubSeq(ws, 1, 1) = p => (SubSeq(ws, 1, 1)[1] # 0) = v
      BY <2>3, <2>4, Zenon
    <3>3. ReadsAs(IF Len(ws) < 1 THEN Threw
                  ELSE Got(SubSeq(ws, 1, 1)[1] # 0, SubSeq(ws, 1 + 1, Len(ws))), p, v, ws)
      BY <2>4, <3>2, TakenReads
    <3> QED
      BY <3>1, <3>3, Zenon
  <2> QED
    BY <1>2, <2>4, <2>5
<1>4. CASE type.kind \in {"u8", "u16", "u32", "char"}
  <2>1. v \in Word
    <3>1. ByteBase \in Nat /\ ByteBase * ByteBase \in Nat /\ WordBase \in Nat
          /\ ByteBase <= WordBase /\ ByteBase * ByteBase <= WordBase
      BY SmallPowers, Bases
    <3>2. type.kind = "u8" => v \in 0 .. ByteBase - 1
      BY DEF FlatValue, Byte
    <3>3. type.kind = "u16" => v \in 0 .. ByteBase * ByteBase - 1
      BY DEF FlatValue
    <3>4. type.kind \in {"u32", "char"} => v \in 0 .. WordBase - 1
      BY DEF FlatValue
    <3> QED
      BY <1>4, <3>1, <3>2, <3>3, <3>4 DEF Word
  <2>2. p = <<v>>
    BY <1>4 DEF EncodeFlat
  <2>3. p \in Seq(Word) /\ 1 = Len(p) /\ p[1] = v
    BY <2>1, <2>2
  <2>4. ASSUME NEW ws \in Seq(Word)
        PROVE  ReadsAs(DecodeFlat(type, ws), p, v, ws)
    <3>1. DecodeFlat(type, ws) = IF Len(ws) < 1 THEN Threw
                                 ELSE Got(SubSeq(ws, 1, 1)[1], SubSeq(ws, 1 + 1, Len(ws)))
      BY <1>4 DEF DecodeFlat, TakeWords
    <3>2. SubSeq(ws, 1, 1) = p => SubSeq(ws, 1, 1)[1] = v
      BY <2>3, Zenon
    <3>3. ReadsAs(IF Len(ws) < 1 THEN Threw
                  ELSE Got(SubSeq(ws, 1, 1)[1], SubSeq(ws, 1 + 1, Len(ws))), p, v, ws)
      BY <2>3, <3>2, TakenReads
    <3> QED
      BY <3>1, <3>3, Zenon
  <2> QED
    BY <1>2, <2>3, <2>4
<1>5. CASE type.kind \in {"u64", "i64"}
  <2>1. v \in 0 .. WordBase * WordBase - 1
    BY <1>5, SmallPowers DEF FlatValue
  <2>2. p = Halves(v)
    BY <1>5 DEF EncodeFlat
  <2>3. p[1] \in Word /\ p[2] \in Word /\ OfHalves(p[1], p[2]) = v
    BY <2>1, <2>2, HalvesMakeTheNumber DEF Word
  <2>4. p = <<p[1], p[2]>>
    BY <2>2 DEF Halves
  <2>5. p \in Seq(Word) /\ 2 = Len(p)
    <3>1. \A a, b \in Word : <<a, b>> \in Seq(Word) /\ 2 = Len(<<a, b>>)
      OBVIOUS
    <3>2. <<p[1], p[2]>> \in Seq(Word) /\ 2 = Len(<<p[1], p[2]>>)
      BY <2>3, <3>1, Zenon
    <3> QED
      BY <2>4, <3>2, Zenon
  <2>6. ASSUME NEW ws \in Seq(Word)
        PROVE  ReadsAs(DecodeFlat(type, ws), p, v, ws)
    <3> PICK x : x = OfHalves(SubSeq(ws, 1, 2)[1], SubSeq(ws, 1, 2)[2])
      OBVIOUS
    <3>1. DecodeFlat(type, ws)
            = IF Len(ws) < 2 THEN Threw ELSE Got(x, SubSeq(ws, 2 + 1, Len(ws)))
      BY <1>5 DEF DecodeFlat, TakeWords
    <3>2. SubSeq(ws, 1, 2) = p => x = v
      BY <2>3
    <3>3. ReadsAs(IF Len(ws) < 2 THEN Threw ELSE Got(x, SubSeq(ws, 2 + 1, Len(ws))),
                  p, v, ws)
      BY <2>5, <3>2, TakenReads
    <3> QED
      BY <3>1, <3>3, Zenon
  <2> QED
    BY <1>2, <2>5, <2>6
<1>6. CASE type.kind = "u128"
  <2>1. v \in Nat /\ v < WordBase * WordBase * WordBase * WordBase
    BY <1>6, SmallPowers DEF FlatValue
  <2>2. p = FourDigits(v, WordBase)
    BY <1>6 DEF EncodeFlat
  <2>3. p \in Seq(Word) /\ 4 = Len(p) /\ OfFour(p, WordBase) = v
    BY <2>1, <2>2, Bases, DigitsMakeTheNumber DEF Word
  <2>4. ASSUME NEW ws \in Seq(Word)
        PROVE  ReadsAs(DecodeFlat(type, ws), p, v, ws)
    <3> PICK x : x = OfFour(SubSeq(ws, 1, 4), WordBase)
      OBVIOUS
    <3>1. DecodeFlat(type, ws)
            = IF Len(ws) < 4 THEN Threw ELSE Got(x, SubSeq(ws, 4 + 1, Len(ws)))
      BY <1>6 DEF DecodeFlat, TakeWords
    <3>2. SubSeq(ws, 1, 4) = p => x = v
      BY <2>3
    <3>3. ReadsAs(IF Len(ws) < 4 THEN Threw ELSE Got(x, SubSeq(ws, 4 + 1, Len(ws))),
                  p, v, ws)
      BY <2>3, <3>2, TakenReads
    <3> QED
      BY <3>1, <3>3, Zenon
  <2> QED
    BY <1>2, <2>3, <2>4
<1>7. CASE type.kind = "string"
  <2>1. v \in Seq(Byte) /\ Len(v) < WordBase
    BY <1>7 DEF FlatValue
  <2>2. p = <<Len(v)>> \o PushBytesPadded(v)
    BY <1>7 DEF EncodeFlat
  <2>3. \A ws : DecodeFlat(type, ws) = TakeText(ws)
    BY <1>7 DEF DecodeFlat
  <2> QED
    BY <1>2, <2>1, <2>2, <2>3, TextReads, Zenon
<1> QED
  BY <1>1, <1>3, <1>4, <1>5, <1>6, <1>7

-----------------------------------------------------------------------------
(* Values one behind the other.  A lemma cannot have the reader of their   *)
(* elements for a parameter, so the proof stands here once for each level: *)
(* the elements of an element, those of an argument, and the arguments.    *)

(* A step from what has been read to what is read with d.                  *)
Follows(read, d, next) ==
  /\ read.ok \in BOOLEAN /\ (read.ok => read.rest \in Seq(Word))
  /\ next = IF read.ok /\ d[read.rest].ok
            THEN Got(Append(read.value, d[read.rest].value), d[read.rest].rest) ELSE Threw

(* The parts are read one by one. *)
Readers(d, parts, vals, n) == \A i \in 1 .. n : Reader(d[i], parts[i], vals[i], Word)
Steps(f, d, n) == \A i \in 1 .. n : Follows(f[i - 1], d[i], f[i])

(* Parts that stand one behind the other are read one by one, each where   *)
(* the one before it ended.                                                *)
LEMMA PartsRead ==
  ASSUME NEW n \in Nat, NEW parts \in Seq(Seq(Word)), Len(parts) = n,
         NEW V, NEW vals \in Seq(V), Len(vals) = n,
         NEW d, Readers(d, parts, vals, n),
         NEW ws \in Seq(Word), NEW all, all = FlattenSeq(parts),
         Begins(all, ws) \/ Begins(ws, all)
  PROVE  \E f : f[0] = Got(<<>>, ws) /\ ReadsAs(f[n], all, vals, ws) /\ Steps(f, d, n)
<1>1. PICK off : Laid(parts, off, n, all) /\ all \in Seq(Word)
  BY FlattenSeqPlaces
<1>2. Len(all) \in Nat
  BY <1>1, LenProperties
<1>3. Lengths(parts, n)
  BY ElementOfSeq, LenProperties DEF Lengths
<1> PICK f : f = [i \in 0 .. n |-> After(vals, ws, off, i)]
  OBVIOUS
<1>4. \A i \in 0 .. n : f[i] = After(vals, ws, off, i)
  OBVIOUS
<1>5. f[0] = Got(<<>>, ws) /\ ReadsAs(f[n], all, vals, ws)
  BY <1>1, <1>2, <1>4, AllParts
<1>6. ASSUME NEW i \in 1 .. n
      PROVE  Follows(f[i - 1], d[i], f[i])
  <2>1. f[i] = After(vals, ws, off, i) /\ f[i - 1] = After(vals, ws, off, i - 1)
    BY <1>4
  <2>2. Reader(d[i], parts[i], vals[i], Word)
    BY DEF Readers
  <2> PICK e : e = d[i]
    OBVIOUS
  <2>3. LET read == After(vals, ws, off, i - 1)
            next == e[read.rest]
        IN  /\ read.ok \in BOOLEAN /\ (read.ok => read.rest \in Seq(Word))
            /\ After(vals, ws, off, i) =
                 IF read.ok /\ next.ok THEN Got(Append(read.value, next.value), next.rest)
                 ELSE Threw
    BY <1>1, <1>2, <1>3, <2>2, NextPart
  <2> QED
    BY <2>1, <2>3, Zenon DEF Follows
<1> QED
  BY <1>5, <1>6 DEF Steps

(* Two recursions with the same steps end in the same place.               *)
LEMMA SameEnd ==
  ASSUME NEW n \in Nat, NEW c, NEW f, c[0] = f[0],
         \A i \in 1 .. n : c[i - 1] = f[i - 1] => c[i] = f[i]
  PROVE  c[n] = f[n]
<1> DEFINE T == {i \in 0 .. n : c[i] = f[i]}
<1>1. 0 \in T /\ \A i \in 1 .. n : i - 1 \in T => i \in T
  OBVIOUS
<1>2. 0 .. n \subseteq T
  <2> HIDE DEF T
  <2> QED
    BY <1>1, OneAfterTheOther
<1> QED
  BY <1>2

(* Values that have no elements.                                           *)
InnerReadArgs(args, n) ==
  /\ args = [i \in 1 .. n |-> Arg(args[i].type, args[i].value)]
  /\ \A i \in 1 .. n : FlatValue(args[i].type, args[i].value)

(* They are read back, in sequence.                                        *)
LEMMA InnerRead ==
  ASSUME NEW n \in Nat, NEW args, InnerReadArgs(args, n),
         NEW types, types = [i \in 1 .. n |-> args[i].type],
         NEW vals, vals = [i \in 1 .. n |-> args[i].value]
  PROVE  /\ EncodeEach(args, NoWords) \in Seq(Word)
         /\ \A ws \in Seq(Word) :
              ReadsAs(DecodeEach(types, ws, TooDeep), EncodeEach(args, NoWords), vals, ws)
<1> DEFINE Part(i) == EncodeInto(args[i].type, args[i].value, NoWords)
<1> DEFINE Read(i, w) == DecodeValue(types[i], w, TooDeep)
<1> PICK parts : parts = [i \in 1 .. n |-> Part(i)]
  OBVIOUS
<1> PICK d : d = [i \in 1 .. n |-> [w \in Seq(Word) |-> Read(i, w)]]
  OBVIOUS
<1>0. \A i \in 1 .. n : \A w \in Seq(Word) : d[i][w] = Read(i, w)
  <2> HIDE DEF Read
  <2> QED
    OBVIOUS
<1>1. \A i \in 1 .. n : parts[i] \in Seq(Word) /\ Reader(d[i], parts[i], vals[i], Word)
  <2> TAKE i \in 1 .. n
  <2>1. Part(i) \in Seq(Word)
        /\ \A ws \in Seq(Word) : ReadsAs(Read(i, ws), Part(i), args[i].value, ws)
    <3>1. FlatValue(args[i].type, args[i].value) /\ types[i] = args[i].type
      BY DEF InnerReadArgs
    <3> QED
      BY <3>1, FlatReads DEF EncodeInto, DecodeValue
  <2> HIDE DEF Part, Read
  <2>2. vals[i] = args[i].value /\ parts[i] = Part(i)
    OBVIOUS
  <2>3. \A w \in Seq(Word) : d[i][w] = Read(i, w)
    BY <1>0
  <2> QED
    BY <2>1, <2>2, <2>3, Zenon DEF Reader
<1>2. parts \in Seq(Seq(Word)) /\ Len(parts) = n /\ Readers(d, parts, vals, n)
  <2> HIDE DEF Part
  <2>1. parts \in [1 .. n -> Seq(Word)]
    BY <1>1
  <2> QED
    BY <1>1, <2>1, FunctionsAreSequences DEF Readers
<1> PICK V : V = {vals[i] : i \in 1 .. n}
  OBVIOUS
<1>3. vals \in Seq(V) /\ Len(vals) = n /\ Len(types) = n
  <2>1. vals \in [1 .. n -> V] /\ types \in [1 .. n -> {types[i] : i \in 1 .. n}]
    OBVIOUS
  <2>2. vals \in Seq(V) /\ Len(vals) = n
    BY <2>1, FunctionsAreSequences
  <2>3. Len(types) = n
    BY <2>1, FunctionsAreSequences
  <2> QED
    BY <2>2, <2>3
<1> PICK all : all = FlattenSeq(parts)
  OBVIOUS
<1>4. all \in Seq(Word) /\ EncodeEach(args, NoWords) = all
  <2>1. DOMAIN args = 1 .. n
    BY DEF InnerReadArgs
  <2>2. EncodeEach(args, NoWords) = all
    BY <2>1 DEF EncodeEach
  <2> QED
    BY <1>2, <2>2, FlattenSeqPlaces
<1>5. ASSUME NEW ws \in Seq(Word), Begins(all, ws) \/ Begins(ws, all)
      PROVE  ReadsAs(DecodeEach(types, ws, TooDeep), all, vals, ws)
  <2> HIDE DEF Part, Read
  <2>1. PICK f : f[0] = Got(<<>>, ws) /\ ReadsAs(f[n], all, vals, ws) /\ Steps(f, d, n)
    <3>1. Begins(all, ws) \/ Begins(ws, all)
      BY <1>5
    <3> QED
      BY <1>2, <1>3, <3>1, PartsRead
  <2>2. \A i \in 1 .. n : f[i] = DecodeNext(f[i - 1], types[i], TooDeep)
    <3> TAKE i \in 1 .. n
    <3>1. Follows(f[i - 1], d[i], f[i])
      BY <2>1 DEF Steps
    <3> PICK a : a = f[i - 1]
      OBVIOUS
    <3>2. a.ok => d[i][a.rest] = Read(i, a.rest)
      BY <1>0, <3>1 DEF Follows
    <3>3. f[i] = IF a.ok /\ Read(i, a.rest).ok
                 THEN Got(Append(a.value, Read(i, a.rest).value), Read(i, a.rest).rest)
                 ELSE Threw
      BY <3>1, <3>2, Zenon DEF Follows
    <3> QED
      BY <3>3 DEF DecodeNext, Read
  <2> DEFINE ReadNext(i, a) == DecodeNext(a, types[i], TooDeep)
  <2> DEFINE Recursion(g) ==
        g = [i \in 0 .. n |-> IF i = 0 THEN Got(<<>>, ws) ELSE ReadNext(i, g[i - 1])]
  <2>3. DecodeEach(types, ws, TooDeep) = (CHOOSE g : Recursion(g))[n]
    BY <1>3 DEF DecodeEach
  <2>4. \A i \in 1 .. n : f[i] = ReadNext(i, f[i - 1])
    BY <2>2
  <2> HIDE DEF ReadNext
  <2>5. \E g : Recursion(g)
    <3> PICK g : g = [i \in 0 .. n |-> f[i]]
      OBVIOUS
    <3>1. \A i \in 0 .. n : g[i] = IF i = 0 THEN Got(<<>>, ws) ELSE ReadNext(i, g[i - 1])
      BY <2>1, <2>4
    <3>2. Recursion(g)
      BY <3>1
    <3> QED
      BY <3>2
  <2>6. ASSUME NEW c, Recursion(c)
        PROVE  c[n] = f[n]
    <3>1. \A i \in 0 .. n : c[i] = IF i = 0 THEN Got(<<>>, ws) ELSE ReadNext(i, c[i - 1])
      BY <2>6
    <3>2. c[0] = f[0]
      BY <2>1, <3>1
    <3>3. \A i \in 1 .. n : c[i - 1] = f[i - 1] => c[i] = f[i]
      <4> SUFFICES ASSUME NEW i \in 1 .. n, c[i - 1] = f[i - 1]
                   PROVE  c[i] = f[i]
        OBVIOUS
      <4>1. i \in 0 .. n /\ i # 0
        OBVIOUS
      <4>2. c[i] = ReadNext(i, c[i - 1])
        BY <3>1, <4>1, Zenon
      <4>3. f[i] = ReadNext(i, f[i - 1])
        BY <2>4, Zenon
      <4> QED
        BY <4>2, <4>3, Zenon
    <3> HIDE DEF Recursion
    <3> QED
      BY <3>2, <3>3, SameEnd
  <2>7. (CHOOSE g : Recursion(g))[n] = f[n]
    <3> HIDE DEF Recursion
    <3> QED
      BY <2>5, <2>6, Zenon
  <2> QED
    BY <2>1, <2>3, <2>7, Zenon
<1>6. \A ws \in Seq(Word) : ReadsAs(DecodeEach(types, ws, TooDeep), all, vals, ws)
  BY <1>5 DEF ReadsAs
<1> QED
  BY <1>4, <1>6, Zenon

-----------------------------------------------------------------------------
(* Values with elements, level by level.                                   *)

(* Elements stand behind their count, or by themselves in an array.        *)
LEMMA BehindTheirCount ==
  ASSUME NEW type, HasElements(type), NEW v, Len(v) \in Nat, CountFits(type, Len(v)),
         NEW q \in Seq(Word), NEW d, Reader(d, q, v, Word), NEW ws \in Seq(Word), NEW x,
         type.kind # "array" /\ ws = <<>> => x = Threw,
         (type.kind = "array" \/ ws # <<>>) /\ CountOf(type, ws).n = Len(v)
           => x = d[CountOf(type, ws).rest]
  PROVE  LET p == (IF type.kind = "array" THEN <<>> ELSE <<Len(v)>>) \o q
         IN  p \in Seq(Word) /\ ReadsAs(x, p, v, ws)
<1>1. CASE type.kind = "array"
  <2>1. Len(v) = type.size
    BY <1>1 DEF CountFits
  <2>2. CountOf(type, ws) = [n |-> type.size, rest |-> ws]
    BY <1>1 DEF CountOf
  <2>3. x = d[ws]
    BY <1>1, <2>1, <2>2
  <2>4. <<>> \o q = q
    OBVIOUS
  <2>5. ReadsAs(x, q, v, ws)
    BY <2>3 DEF Reader
  <2> QED
    BY <1>1, <2>4, <2>5, Zenon
<1>2. CASE type.kind # "array"
  <2>1. type.kind \in {"vec", "option"}
    BY <1>2 DEF HasElements
  <2> PICK w : w = Len(v)
    OBVIOUS
  <2>2. w \in Word
    <3>1. WordBase \in Nat /\ WordBase >= 2
      BY SmallPowers, Bases DEF Word
    <3>2. type.kind = "vec" => Len(v) \in 0 .. WordBase - 1
      BY DEF CountFits
    <3>3. type.kind = "option" => Len(v) \in {0, 1}
      BY DEF CountFits
    <3>4. {0, 1} \subseteq Word /\ Word = 0 .. WordBase - 1
      BY SmallPowers DEF Word
    <3> QED
      BY <2>1, <3>2, <3>3, <3>4, Zenon
  <2>3. ASSUME ws # <<>>, ws[1] = w
        PROVE  ReadsAs(x, q, v, Tail(ws))
    <3>1. CountOf(type, ws).rest = Tail(ws)
      BY <2>1 DEF CountOf
    <3>2. CountOf(type, ws).n = w
      <4>1. CASE type.kind = "vec"
        BY <2>3, <4>1 DEF CountOf
      <4>2. CASE type.kind = "option"
        <5>1. w \in {0, 1}
          BY <4>2, <2>2 DEF CountFits, Word
        <5> QED
          BY <2>3, <4>2, <5>1 DEF CountOf
      <4> QED
        BY <2>1, <4>1, <4>2
    <3>3. x = d[Tail(ws)]
      BY <2>3, <3>1, <3>2
    <3>4. Tail(ws) \in Seq(Word)
      BY <2>3, HeadTailProperties
    <3> QED
      BY <3>3, <3>4 DEF Reader
  <2>4. ws = <<>> => x = Threw
    BY <1>2
  <2>5. <<w>> \o q \in Seq(Word) /\ ReadsAs(x, <<w>> \o q, v, ws)
    BY <2>2, <2>3, <2>4, FrontWord
  <2> QED
    BY <1>2, <2>5, Zenon
<1> QED
  BY <1>1, <1>2

(* A value, elements of which are flat.                                    *)
LEMMA InnerReads ==
  ASSUME NEW type, NEW v, InnerValue(type, v)
  PROVE  /\ EncodeInto(type, v, EncodeInner) \in Seq(Word)
         /\ \A ws \in Seq(Word) :
              ReadsAs(DecodeValue(type, ws, DecodeInner), EncodeInto(type, v, EncodeInner),
                      v, ws)
<1>1. CASE ~HasElements(type)
  <2>1. FlatValue(type, v)
    BY <1>1 DEF InnerValue, ValueOf
  <2> QED
    BY <1>1, <2>1, FlatReads DEF EncodeInto, DecodeValue
<1>2. CASE HasElements(type)
  <2> PICK n : n = Len(v)
    OBVIOUS
  <2>1. /\ v = [i \in 1 .. n |-> v[i]] /\ CountFits(type, n)
        /\ \A i \in 1 .. n : FlatValue(type.of, v[i])
    BY <1>2 DEF InnerValue, ValueOf
  <2>2. n \in Nat
    <3>1. type.kind \in {"array", "vec", "option"}
      BY <1>2 DEF HasElements
    <3> QED
      BY <2>1, <3>1, SmallPowers, Bases DEF CountFits, Word
  <2> PICK args : args = AllOf(type.of, v)
    OBVIOUS
  <2>3. /\ InnerReadArgs(args, n)
        /\ [i \in 1 .. n |-> type.of] = [i \in 1 .. n |-> args[i].type]
        /\ v = [i \in 1 .. n |-> args[i].value]
    <3>1. DOMAIN v = 1 .. n
      BY <2>1
    <3>2. args = [i \in 1 .. n |-> Arg(type.of, v[i])]
      BY <3>1 DEF AllOf
    <3>3. \A i \in 1 .. n : args[i].type = type.of /\ args[i].value = v[i]
      BY <3>2 DEF Arg
    <3> QED
      BY <2>1, <3>2, <3>3 DEF InnerReadArgs
  <2> PICK q : q = EncodeInner(type.of, v)
    OBVIOUS
  <2> PICK d : d = [ws \in Seq(Word) |-> DecodeInner(type.of, n, ws)]
    OBVIOUS
  <2>4. /\ q \in Seq(Word)
        /\ \A ws \in Seq(Word) : ReadsAs(DecodeInner(type.of, n, ws), q, v, ws)
    <3>1. q = EncodeEach(args, NoWords)
      BY DEF EncodeInner
    <3>2. \A ws : DecodeInner(type.of, n, ws)
                    = DecodeEach([i \in 1 .. n |-> type.of], ws, TooDeep)
      BY DEF DecodeInner
    <3>3. /\ EncodeEach(args, NoWords) \in Seq(Word)
          /\ \A ws \in Seq(Word) :
               ReadsAs(DecodeEach([i \in 1 .. n |-> type.of], ws, TooDeep),
                       EncodeEach(args, NoWords), v, ws)
      BY <2>2, <2>3, InnerRead, ZenonT(60)
    <3> QED
      BY <3>1, <3>2, <3>3, Zenon
  <2>5. Reader(d, q, v, Word)
    BY <2>4 DEF Reader
  <2>6. EncodeInto(type, v, EncodeInner)
          = (IF type.kind = "array" THEN <<>> ELSE <<n>>) \o q
    BY <1>2 DEF EncodeInto
  <2>7. ASSUME NEW ws \in Seq(Word)
        PROVE  /\ EncodeInto(type, v, EncodeInner) \in Seq(Word)
               /\ ReadsAs(DecodeValue(type, ws, DecodeInner), EncodeInto(type, v, EncodeInner),
                          v, ws)
    <3> PICK x : x = DecodeValue(type, ws, DecodeInner)
      OBVIOUS
    <3>1. x = IF ws = <<>> /\ type.kind # "array" THEN Threw
              ELSE DecodeInner(type.of, CountOf(type, ws).n, CountOf(type, ws).rest)
      BY <1>2 DEF DecodeValue
    <3>2. type.kind # "array" /\ ws = <<>> => x = Threw
      BY <3>1
    <3>3. type.kind = "array" \/ ws # <<>> => CountOf(type, ws).rest \in Seq(Word)
      <4>1. ws # <<>> => Tail(ws) \in Seq(Word)
        BY HeadTailProperties
      <4>2. type.kind \in {"array", "vec", "option"}
        BY <1>2 DEF HasElements
      <4>3. CountOf(type, ws).rest = IF type.kind = "array" THEN ws ELSE Tail(ws)
        BY <4>2 DEF CountOf
      <4> QED
        BY <4>1, <4>3
    <3>4. (type.kind = "array" \/ ws # <<>>) /\ CountOf(type, ws).n = n
            => x = d[CountOf(type, ws).rest]
      BY <3>1, <3>3
    <3>5. /\ (IF type.kind = "array" THEN <<>> ELSE <<n>>) \o q \in Seq(Word)
          /\ ReadsAs(x, (IF type.kind = "array" THEN <<>> ELSE <<n>>) \o q, v, ws)
      BY <1>2, <2>1, <2>2, <2>4, <2>5, <3>2, <3>4, BehindTheirCount
    <3> QED
      BY <2>6, <3>5, Zenon
  <2>8. <<>> \in Seq(Word)
    OBVIOUS
  <2> QED
    BY <2>7, <2>8
<1> QED
  BY <1>1, <1>2

(* Values whose elements have none.                                        *)
ElementsReadArgs(args, n) ==
  /\ args = [i \in 1 .. n |-> Arg(args[i].type, args[i].value)]
  /\ \A i \in 1 .. n : InnerValue(args[i].type, args[i].value)

(* They are read back, in sequence.                                        *)
LEMMA ElementsRead ==
  ASSUME NEW n \in Nat, NEW args, ElementsReadArgs(args, n),
         NEW types, types = [i \in 1 .. n |-> args[i].type],
         NEW vals, vals = [i \in 1 .. n |-> args[i].value]
  PROVE  /\ EncodeEach(args, EncodeInner) \in Seq(Word)
         /\ \A ws \in Seq(Word) :
              ReadsAs(DecodeEach(types, ws, DecodeInner), EncodeEach(args, EncodeInner),
                      vals, ws)
<1> DEFINE Part(i) == EncodeInto(args[i].type, args[i].value, EncodeInner)
<1> DEFINE Read(i, w) == DecodeValue(types[i], w, DecodeInner)
<1> PICK parts : parts = [i \in 1 .. n |-> Part(i)]
  OBVIOUS
<1> PICK d : d = [i \in 1 .. n |-> [w \in Seq(Word) |-> Read(i, w)]]
  OBVIOUS
<1>0. \A i \in 1 .. n : \A w \in Seq(Word) : d[i][w] = Read(i, w)
  <2> HIDE DEF Read
  <2> QED
    OBVIOUS
<1>1. \A i \in 1 .. n : parts[i] \in Seq(Word) /\ Reader(d[i], parts[i], vals[i], Word)
  <2> TAKE i \in 1 .. n
  <2>1. Part(i) \in Seq(Word)
        /\ \A ws \in Seq(Word) : ReadsAs(Read(i, ws), Part(i), args[i].value, ws)
    <3>1. InnerValue(args[i].type, args[i].value) /\ types[i] = args[i].type
      BY DEF ElementsReadArgs
    <3> QED
      BY <3>1, InnerReads
  <2> HIDE DEF Part, Read
  <2>2. vals[i] = args[i].value /\ parts[i] = Part(i)
    OBVIOUS
  <2>3. \A w \in Seq(Word) : d[i][w] = Read(i, w)
    BY <1>0
  <2> QED
    BY <2>1, <2>2, <2>3, Zenon DEF Reader
<1>2. parts \in Seq(Seq(Word)) /\ Len(parts) = n /\ Readers(d, parts, vals, n)
  <2> HIDE DEF Part
  <2>1. parts \in [1 .. n -> Seq(Word)]
    BY <1>1
  <2> QED
    BY <1>1, <2>1, FunctionsAreSequences DEF Readers
<1> PICK V : V = {vals[i] : i \in 1 .. n}
  OBVIOUS
<1>3. vals \in Seq(V) /\ Len(vals) = n /\ Len(types) = n
  <2>1. vals \in [1 .. n -> V] /\ types \in [1 .. n -> {types[i] : i \in 1 .. n}]
    OBVIOUS
  <2>2. vals \in Seq(V) /\ Len(vals) = n
    BY <2>1, FunctionsAreSequences
  <2>3. Len(types) = n
    BY <2>1, FunctionsAreSequences
  <2> QED
    BY <2>2, <2>3
<1> PICK all : all = FlattenSeq(parts)
  OBVIOUS
<1>4. all \in Seq(Word) /\ EncodeEach(args, EncodeInner) = all
  <2>1. DOMAIN args = 1 .. n
    BY DEF ElementsReadArgs
  <2>2. EncodeEach(args, EncodeInner) = all
    BY <2>1 DEF EncodeEach
  <2> QED
    BY <1>2, <2>2, FlattenSeqPlaces
<1>5. ASSUME NEW ws \in Seq(Word), Begins(all, ws) \/ Begins(ws, all)
      PROVE  ReadsAs(DecodeEach(types, ws, DecodeInner), all, vals, ws)
  <2> HIDE DEF Part, Read
  <2>1. PICK f : f[0] = Got(<<>>, ws) /\ ReadsAs(f[n], all, vals, ws) /\ Steps(f, d, n)
    <3>1. Begins(all, ws) \/ Begins(ws, all)
      BY <1>5
    <3> QED
      BY <1>2, <1>3, <3>1, PartsRead
  <2>2. \A i \in 1 .. n : f[i] = DecodeNext(f[i - 1], types[i], DecodeInner)
    <3> TAKE i \in 1 .. n
    <3>1. Follows(f[i - 1], d[i], f[i])
      BY <2>1 DEF Steps
    <3> PICK a : a = f[i - 1]
      OBVIOUS
    <3>2. a.ok => d[i][a.rest] = Read(i, a.rest)
      BY <1>0, <3>1 DEF Follows
    <3>3. f[i] = IF a.ok /\ Read(i, a.rest).ok
                 THEN Got(Append(a.value, Read(i, a.rest).value), Read(i, a.rest).rest)
                 ELSE Threw
      BY <3>1, <3>2, Zenon DEF Follows
    <3> QED
      BY <3>3 DEF DecodeNext, Read
  <2> DEFINE ReadNext(i, a) == DecodeNext(a, types[i], DecodeInner)
  <2> DEFINE Recursion(g) ==
        g = [i \in 0 .. n |-> IF i = 0 THEN Got(<<>>, ws) ELSE ReadNext(i, g[i - 1])]
  <2>3. DecodeEach(types, ws, DecodeInner) = (CHOOSE g : Recursion(g))[n]
    BY <1>3 DEF DecodeEach
  <2>4. \A i \in 1 .. n : f[i] = ReadNext(i, f[i - 1])
    BY <2>2
  <2> HIDE DEF ReadNext
  <2>5. \E g : Recursion(g)
    <3> PICK g : g = [i \in 0 .. n |-> f[i]]
      OBVIOUS
    <3>1. \A i \in 0 .. n : g[i] = IF i = 0 THEN Got(<<>>, ws) ELSE ReadNext(i, g[i - 1])
      BY <2>1, <2>4
    <3>2. Recursion(g)
      BY <3>1
    <3> QED
      BY <3>2
  <2>6. ASSUME NEW c, Recursion(c)
        PROVE  c[n] = f[n]
    <3>1. \A i \in 0 .. n : c[i] = IF i = 0 THEN Got(<<>>, ws) ELSE ReadNext(i, c[i - 1])
      BY <2>6
    <3>2. c[0] = f[0]
      BY <2>1, <3>1
    <3>3. \A i \in 1 .. n : c[i - 1] = f[i - 1] => c[i] = f[i]
      <4> SUFFICES ASSUME NEW i \in 1 .. n, c[i - 1] = f[i - 1]
                   PROVE  c[i] = f[i]
        OBVIOUS
      <4>1. i \in 0 .. n /\ i # 0
        OBVIOUS
      <4>2. c[i] = ReadNext(i, c[i - 1])
        BY <3>1, <4>1, Zenon
      <4>3. f[i] = ReadNext(i, f[i - 1])
        BY <2>4, Zenon
      <4> QED
        BY <4>2, <4>3, Zenon
    <3> HIDE DEF Recursion
    <3> QED
      BY <3>2, <3>3, SameEnd
  <2>7. (CHOOSE g : Recursion(g))[n] = f[n]
    <3> HIDE DEF Recursion
    <3> QED
      BY <2>5, <2>6, Zenon
  <2> QED
    BY <2>1, <2>3, <2>7, Zenon
<1>6. \A ws \in Seq(Word) : ReadsAs(DecodeEach(types, ws, DecodeInner), all, vals, ws)
  BY <1>5 DEF ReadsAs
<1> QED
  BY <1>4, <1>6, Zenon

(* A value of an argument.                                                 *)
LEMMA ElementReads ==
  ASSUME NEW type, NEW v, ElementValue(type, v)
  PROVE  /\ EncodeInto(type, v, EncodeElements) \in Seq(Word)
         /\ \A ws \in Seq(Word) :
              ReadsAs(DecodeValue(type, ws, DecodeElements), EncodeInto(type, v, EncodeElements),
                      v, ws)
<1>1. CASE ~HasElements(type)
  <2>1. FlatValue(type, v)
    BY <1>1 DEF ElementValue, ValueOf
  <2> QED
    BY <1>1, <2>1, FlatReads DEF EncodeInto, DecodeValue
<1>2. CASE HasElements(type)
  <2> PICK n : n = Len(v)
    OBVIOUS
  <2>1. /\ v = [i \in 1 .. n |-> v[i]] /\ CountFits(type, n)
        /\ \A i \in 1 .. n : InnerValue(type.of, v[i])
    BY <1>2 DEF ElementValue, ValueOf
  <2>2. n \in Nat
    <3>1. type.kind \in {"array", "vec", "option"}
      BY <1>2 DEF HasElements
    <3> QED
      BY <2>1, <3>1, SmallPowers, Bases DEF CountFits, Word
  <2> PICK args : args = AllOf(type.of, v)
    OBVIOUS
  <2>3. /\ ElementsReadArgs(args, n)
        /\ [i \in 1 .. n |-> type.of] = [i \in 1 .. n |-> args[i].type]
        /\ v = [i \in 1 .. n |-> args[i].value]
    <3>1. DOMAIN v = 1 .. n
      BY <2>1
    <3>2. args = [i \in 1 .. n |-> Arg(type.of, v[i])]
      BY <3>1 DEF AllOf
    <3>3. \A i \in 1 .. n : args[i].type = type.of /\ args[i].value = v[i]
      BY <3>2 DEF Arg
    <3> QED
      BY <2>1, <3>2, <3>3 DEF ElementsReadArgs
  <2> PICK q : q = EncodeElements(type.of, v)
    OBVIOUS
  <2> PICK d : d = [ws \in Seq(Word) |-> DecodeElements(type.of, n, ws)]
    OBVIOUS
  <2>4. /\ q \in Seq(Word)
        /\ \A ws \in Seq(Word) : ReadsAs(DecodeElements(type.of, n, ws), q, v, ws)
    <3>1. q = EncodeEach(args, EncodeInner)
      BY DEF EncodeElements
    <3>2. \A ws : DecodeElements(type.of, n, ws)
                    = DecodeEach([i \in 1 .. n |-> type.of], ws, DecodeInner)
      BY DEF DecodeElements
    <3>3. /\ EncodeEach(args, EncodeInner) \in Seq(Word)
          /\ \A ws \in Seq(Word) :
               ReadsAs(DecodeEach([i \in 1 .. n |-> type.of], ws, DecodeInner),
                       EncodeEach(args, EncodeInner), v, ws)
      BY <2>2, <2>3, ElementsRead, ZenonT(60)
    <3> QED
      BY <3>1, <3>2, <3>3, Zenon
  <2>5. Reader(d, q, v, Word)
    BY <2>4 DEF Reader
  <2>6. EncodeInto(type, v, EncodeElements)
          = (IF type.kind = "array" THEN <<>> ELSE <<n>>) \o q
    BY <1>2 DEF EncodeInto
  <2>7. ASSUME NEW ws \in Seq(Word)
        PROVE  /\ EncodeInto(type, v, EncodeElements) \in Seq(Word)
               /\ ReadsAs(DecodeValue(type, ws, DecodeElements), EncodeInto(type, v, EncodeElements),
                          v, ws)
    <3> PICK x : x = DecodeValue(type, ws, DecodeElements)
      OBVIOUS
    <3>1. x = IF ws = <<>> /\ type.kind # "array" THEN Threw
              ELSE DecodeElements(type.of, CountOf(type, ws).n, CountOf(type, ws).rest)
      BY <1>2 DEF DecodeValue
    <3>2. type.kind # "array" /\ ws = <<>> => x = Threw
      BY <3>1
    <3>3. type.kind = "array" \/ ws # <<>> => CountOf(type, ws).rest \in Seq(Word)
      <4>1. ws # <<>> => Tail(ws) \in Seq(Word)
        BY HeadTailProperties
      <4>2. type.kind \in {"array", "vec", "option"}
        BY <1>2 DEF HasElements
      <4>3. CountOf(type, ws).rest = IF type.kind = "array" THEN ws ELSE Tail(ws)
        BY <4>2 DEF CountOf
      <4> QED
        BY <4>1, <4>3
    <3>4. (type.kind = "array" \/ ws # <<>>) /\ CountOf(type, ws).n = n
            => x = d[CountOf(type, ws).rest]
      BY <3>1, <3>3
    <3>5. /\ (IF type.kind = "array" THEN <<>> ELSE <<n>>) \o q \in Seq(Word)
          /\ ReadsAs(x, (IF type.kind = "array" THEN <<>> ELSE <<n>>) \o q, v, ws)
      BY <1>2, <2>1, <2>2, <2>4, <2>5, <3>2, <3>4, BehindTheirCount
    <3> QED
      BY <2>6, <3>5, Zenon
  <2>8. <<>> \in Seq(Word)
    OBVIOUS
  <2> QED
    BY <2>7, <2>8
<1> QED
  BY <1>1, <1>2

(* The arguments of an instruction.                                        *)
ArgsReadArgs(args, n) ==
  /\ args = [i \in 1 .. n |-> Arg(args[i].type, args[i].value)]
  /\ \A i \in 1 .. n : ElementValue(args[i].type, args[i].value)

(* They are read back, in sequence.                                        *)
LEMMA ArgsRead ==
  ASSUME NEW n \in Nat, NEW args, ArgsReadArgs(args, n),
         NEW types, types = [i \in 1 .. n |-> args[i].type],
         NEW vals, vals = [i \in 1 .. n |-> args[i].value]
  PROVE  /\ EncodeEach(args, EncodeElements) \in Seq(Word)
         /\ \A ws \in Seq(Word) :
              ReadsAs(DecodeEach(types, ws, DecodeElements), EncodeEach(args, EncodeElements),
                      vals, ws)
<1> DEFINE Part(i) == EncodeInto(args[i].type, args[i].value, EncodeElements)
<1> DEFINE Read(i, w) == DecodeValue(types[i], w, DecodeElements)
<1> PICK parts : parts = [i \in 1 .. n |-> Part(i)]
  OBVIOUS
<1> PICK d : d = [i \in 1 .. n |-> [w \in Seq(Word) |-> Read(i, w)]]
  OBVIOUS
<1>0. \A i \in 1 .. n : \A w \in Seq(Word) : d[i][w] = Read(i, w)
  <2> HIDE DEF Read
  <2> QED
    OBVIOUS
<1>1. \A i \in 1 .. n : parts[i] \in Seq(Word) /\ Reader(d[i], parts[i], vals[i], Word)
  <2> TAKE i \in 1 .. n
  <2>1. Part(i) \in Seq(Word)
        /\ \A ws \in Seq(Word) : ReadsAs(Read(i, ws), Part(i), args[i].value, ws)
    <3>1. ElementValue(args[i].type, args[i].value) /\ types[i] = args[i].type
      BY DEF ArgsReadArgs
    <3> QED
      BY <3>1, ElementReads
  <2> HIDE DEF Part, Read
  <2>2. vals[i] = args[i].value /\ parts[i] = Part(i)
    OBVIOUS
  <2>3. \A w \in Seq(Word) : d[i][w] = Read(i, w)
    BY <1>0
  <2> QED
    BY <2>1, <2>2, <2>3, Zenon DEF Reader
<1>2. parts \in Seq(Seq(Word)) /\ Len(parts) = n /\ Readers(d, parts, vals, n)
  <2> HIDE DEF Part
  <2>1. parts \in [1 .. n -> Seq(Word)]
    BY <1>1
  <2> QED
    BY <1>1, <2>1, FunctionsAreSequences DEF Readers
<1> PICK V : V = {vals[i] : i \in 1 .. n}
  OBVIOUS
<1>3. vals \in Seq(V) /\ Len(vals) = n /\ Len(types) = n
  <2>1. vals \in [1 .. n -> V] /\ types \in [1 .. n -> {types[i] : i \in 1 .. n}]
    OBVIOUS
  <2>2. vals \in Seq(V) /\ Len(vals) = n
    BY <2>1, FunctionsAreSequences
  <2>3. Len(types) = n
    BY <2>1, FunctionsAreSequences
  <2> QED
    BY <2>2, <2>3
<1> PICK all : all = FlattenSeq(parts)
  OBVIOUS
<1>4. all \in Seq(Word) /\ EncodeEach(args, EncodeElements) = all
  <2>1. DOMAIN args = 1 .. n
    BY DEF ArgsReadArgs
  <2>2. EncodeEach(args, EncodeElements) = all
    BY <2>1 DEF EncodeEach
  <2> QED
    BY <1>2, <2>2, FlattenSeqPlaces
<1>5. ASSUME NEW ws \in Seq(Word), Begins(all, ws) \/ Begins(ws, all)
      PROVE  ReadsAs(DecodeEach(types, ws, DecodeElements), all, vals, ws)
  <2> HIDE DEF Part, Read
  <2>1. PICK f : f[0] = Got(<<>>, ws) /\ ReadsAs(f[n], all, vals, ws) /\ Steps(f, d, n)
    <3>1. Begins(all, ws) \/ Begins(ws, all)
      BY <1>5
    <3> QED
      BY <1>2, <1>3, <3>1, PartsRead
  <2>2. \A i \in 1 .. n : f[i] = DecodeNext(f[i - 1], types[i], DecodeElements)
    <3> TAKE i \in 1 .. n
    <3>1. Follows(f[i - 1], d[i], f[i])
      BY <2>1 DEF Steps
    <3> PICK a : a = f[i - 1]
      OBVIOUS
    <3>2. a.ok => d[i][a.rest] = Read(i, a.rest)
      BY <1>0, <3>1 DEF Follows
    <3>3. f[i] = IF a.ok /\ Read(i, a.rest).ok
                 THEN Got(Append(a.value, Read(i, a.rest).value), Read(i, a.rest).rest)
                 ELSE Threw
      BY <3>1, <3>2, Zenon DEF Follows
    <3> QED
      BY <3>3 DEF DecodeNext, Read
  <2> DEFINE ReadNext(i, a) == DecodeNext(a, types[i], DecodeElements)
  <2> DEFINE Recursion(g) ==
        g = [i \in 0 .. n |-> IF i = 0 THEN Got(<<>>, ws) ELSE ReadNext(i, g[i - 1])]
  <2>3. DecodeEach(types, ws, DecodeElements) = (CHOOSE g : Recursion(g))[n]
    BY <1>3 DEF DecodeEach
  <2>4. \A i \in 1 .. n : f[i] = ReadNext(i, f[i - 1])
    BY <2>2
  <2> HIDE DEF ReadNext
  <2>5. \E g : Recursion(g)
    <3> PICK g : g = [i \in 0 .. n |-> f[i]]
      OBVIOUS
    <3>1. \A i \in 0 .. n : g[i] = IF i = 0 THEN Got(<<>>, ws) ELSE ReadNext(i, g[i - 1])
      BY <2>1, <2>4
    <3>2. Recursion(g)
      BY <3>1
    <3> QED
      BY <3>2
  <2>6. ASSUME NEW c, Recursion(c)
        PROVE  c[n] = f[n]
    <3>1. \A i \in 0 .. n : c[i] = IF i = 0 THEN Got(<<>>, ws) ELSE ReadNext(i, c[i - 1])
      BY <2>6
    <3>2. c[0] = f[0]
      BY <2>1, <3>1
    <3>3. \A i \in 1 .. n : c[i - 1] = f[i - 1] => c[i] = f[i]
      <4> SUFFICES ASSUME NEW i \in 1 .. n, c[i - 1] = f[i - 1]
                   PROVE  c[i] = f[i]
        OBVIOUS
      <4>1. i \in 0 .. n /\ i # 0
        OBVIOUS
      <4>2. c[i] = ReadNext(i, c[i - 1])
        BY <3>1, <4>1, Zenon
      <4>3. f[i] = ReadNext(i, f[i - 1])
        BY <2>4, Zenon
      <4> QED
        BY <4>2, <4>3, Zenon
    <3> HIDE DEF Recursion
    <3> QED
      BY <3>2, <3>3, SameEnd
  <2>7. (CHOOSE g : Recursion(g))[n] = f[n]
    <3> HIDE DEF Recursion
    <3> QED
      BY <2>5, <2>6, Zenon
  <2> QED
    BY <2>1, <2>3, <2>7, Zenon
<1>6. \A ws \in Seq(Word) : ReadsAs(DecodeEach(types, ws, DecodeElements), all, vals, ws)
  BY <1>5 DEF ReadsAs
<1> QED
  BY <1>4, <1>6, Zenon

-----------------------------------------------------------------------------
(* Instructions, from their bytes.                                         *)

(* Bytes of whole words.                                                   *)
LEMMA WholeWords ==
  ASSUME NEW n \in Nat, NEW k \in 0 .. 4 * n
  PROVE  k \div 4 \in 0 .. n /\ (k = 4 * n <=> k \div 4 = n)
OBVIOUS

(* What stands behind the first.                                           *)
LEMMA FirstOfFirst ==
  ASSUME NEW S, NEW s \in Seq(S), NEW m \in Nat \ {0}, Len(s) = m
  PROVE  /\ s # <<>> /\ Tail(s) \in Seq(S) /\ Len(Tail(s)) = m - 1
         /\ \A i \in 1 .. m - 1 : Tail(s)[i] = s[1 + i]
<1>1. s # <<>>
  OBVIOUS
<1>2. Tail(s) \in Seq(S) /\ Tail(s) = Drop(s, 1)
  BY <1>1, HeadTailProperties, TailIsSubSeq DEF Drop
<1>3. 1 \in 0 .. Len(s)
  OBVIOUS
<1>4. IsRest(Drop(s, 1), s, 1)
  BY <1>3, Dropping
<1>5. IsRest(Tail(s), s, 1)
  BY <1>2, <1>4, Zenon
<1> QED
  BY <1>1, <1>2, <1>5 DEF IsRest

(* The arguments of an instruction are read from their words.              *)
ArgumentsRead(params, q, vals) ==
  \A t \in Seq(Word) : ReadsAs(DecodeArgs(params, t), q, vals, t)

(* A word, and these behind it.                                            *)
Fronted(ws, w, q) ==
  Len(ws) = 1 + Len(q) /\ ws[1] = w /\ \A i \in 1 .. Len(q) : ws[1 + i] = q[i]

(* What is shown of the p-th instruction with these values.                *)
CallShown(idl, p, vals) == [decoded |-> TRUE, called |-> idl[p], args |-> vals]

Handed(idl, p, q, vals, ws, bytes, m) ==
  /\ Len(idl) \in Nat /\ p \in 1 .. Len(idl)
  /\ q \in Seq(Word) /\ ArgumentsRead(idl[p].params, q, vals)
  /\ ws \in Seq(Word) /\ Fronted(ws, p - 1, q)
  /\ m \in 0 .. Len(ws) /\ BytesToWords(bytes) = SubSeq(ws, 1, m)

(* Of words that an instruction begins with, the modal reads the arguments *)
(* when none is missing.                                                   *)
LEMMA InstructionWords ==
  ASSUME NEW idl, NEW p, NEW q, NEW vals, NEW ws, NEW bytes, NEW m,
         Handed(idl, p, q, vals, ws, bytes, m)
  PROVE  DecodeR0Instruction(bytes, idl) =
           IF m = Len(ws) THEN CallShown(idl, p, vals) ELSE Raw
<1>1. /\ Len(idl) \in Nat /\ p \in 1 .. Len(idl)
      /\ q \in Seq(Word) /\ ArgumentsRead(idl[p].params, q, vals)
      /\ ws \in Seq(Word) /\ Fronted(ws, p - 1, q)
      /\ m \in 0 .. Len(ws) /\ BytesToWords(bytes) = SubSeq(ws, 1, m)
  BY DEF Handed
<1>2. /\ Len(ws) = 1 + Len(q) /\ ws[1] = p - 1 /\ Len(q) \in Nat
      /\ \A i \in 1 .. Len(q) : ws[1 + i] = q[i]
  BY <1>1, LenProperties DEF Fronted
<1> PICK read : read = SubSeq(ws, 1, m)
  OBVIOUS
<1>5. BytesToWords(bytes) = read
  BY <1>1
<1>6. read \in Seq(Word) /\ Len(read) = m /\ \A i \in 1 .. m : read[i] = ws[i]
  BY <1>1, FirstElements
<1>7. CASE m = 0
  <2>1. read = <<>>
    BY <1>6, <1>7, EmptySeq
  <2>2. m # Len(ws)
    BY <1>2, <1>7
  <2> QED
    BY <1>5, <2>1, <2>2 DEF DecodeR0Instruction
<1>8. CASE m # 0
  <2> PICK t : t = Tail(read)
    OBVIOUS
  <2>1. m \in Nat /\ m >= 1
    BY <1>1, <1>8
  <2>2. read # <<>> /\ read[1] = p - 1
    <3>1. 1 \in 1 .. m /\ m \in Nat \ {0}
      BY <2>1
    <3> QED
      BY <1>1, <1>2, <1>6, <3>1, FirstOfFirst
  <2>3. ~(read[1] >= Len(idl)) /\ read[1] + 1 = p
    BY <1>1, <2>2
  <2>4. DecodeR0Instruction(bytes, idl) =
          IF DecodeArgs(idl[p].params, t).ok
          THEN CallShown(idl, p, DecodeArgs(idl[p].params, t).value)
          ELSE Raw
    BY <1>1, <1>5, <2>2, <2>3 DEF DecodeR0Instruction, CallShown
  <2>5. t \in Seq(Word) /\ Len(t) = m - 1 /\ \A i \in 1 .. m - 1 : t[i] = q[i]
    <3>1. m \in Nat \ {0}
      BY <2>1
    <3>2. t \in Seq(Word) /\ Len(t) = m - 1 /\ \A i \in 1 .. m - 1 : t[i] = read[1 + i]
      BY <1>6, <3>1, FirstOfFirst, Zenon
    <3>4. \A i \in 1 .. m - 1 : 1 + i \in 1 .. m /\ i \in 1 .. Len(q)
      BY <1>1, <1>2, <2>1
    <3> QED
      BY <1>2, <1>6, <3>2, <3>4
  <2>6. ReadsAs(DecodeArgs(idl[p].params, t), q, vals, t)
    BY <1>1, <2>5 DEF ArgumentsRead
  <2>7. CASE m = Len(ws)
    <3>1. Len(t) = Len(q)
      BY <1>1, <1>2, <2>5, <2>7
    <3>2. Begins(q, t)
      BY <1>2, <2>5, <3>1 DEF Begins
    <3>3. DecodeArgs(idl[p].params, t) = Got(vals, Drop(t, Len(q)))
      BY <2>6, <3>2 DEF ReadsAs
    <3>4. DecodeArgs(idl[p].params, t).ok /\ DecodeArgs(idl[p].params, t).value = vals
      <4>1. \A x, y : Got(x, y).ok = TRUE /\ Got(x, y).value = x
        BY DEF Got
      <4> QED
        BY <3>3, <4>1, Zenon
    <3> QED
      BY <2>4, <2>7, <3>4, Zenon
  <2>8. CASE m # Len(ws)
    <3>1. Len(t) < Len(q)
      BY <1>1, <1>2, <2>5, <2>8
    <3>2. Begins(t, q)
      BY <1>2, <2>5, <3>1 DEF Begins
    <3>3. DecodeArgs(idl[p].params, t) = Threw
      BY <2>6, <3>1, <3>2 DEF ReadsAs
    <3>4. DecodeArgs(idl[p].params, t).ok = FALSE
      <4>1. Threw.ok = FALSE
        BY DEF Threw
      <4> QED
        BY <3>3, <4>1, Zenon
    <3> QED
      BY <2>4, <2>8, <3>4, Zenon
  <2> QED
    BY <2>7, <2>8
<1> QED
  BY <1>7, <1>8

(* An instruction that encodes arguments of those types.                   *)
Encodes(idl, p, n, args, all) ==
  /\ Len(idl) \in Nat /\ p \in 1 .. Len(idl) /\ p - 1 \in Word
  /\ n \in Nat /\ ArgsReadArgs(args, n)
  /\ DOMAIN idl[p].params = 1 .. n
  /\ \A i \in 1 .. n : idl[p].params[i].type = args[i].type
  /\ all = InstructionData(p - 1, args)

ValuesOf(args, n) == [i \in 1 .. n |-> args[i].value]

(* The bytes of an instruction are those of its words.                     *)
LEMMA InstructionIsWords ==
  ASSUME NEW idl, NEW p, NEW n, NEW args, NEW all, Encodes(idl, p, n, args, all)
  PROVE  /\ EncodeArgs(args) \in Seq(Word)
         /\ ArgumentsRead(idl[p].params, EncodeArgs(args), ValuesOf(args, n))
         /\ all \in Seq(Byte)
         /\ \E ws \in Seq(Word) : /\ Fronted(ws, p - 1, EncodeArgs(args))
                                  /\ all = WordsToBytes(ws) /\ Len(all) = 4 * Len(ws)
<1> PICK params : params = idl[p].params
  OBVIOUS
<1>0. /\ Len(idl) \in Nat /\ p \in 1 .. Len(idl) /\ p - 1 \in Word
      /\ n \in Nat /\ ArgsReadArgs(args, n) /\ DOMAIN params = 1 .. n
      /\ \A i \in 1 .. n : params[i].type = args[i].type
      /\ all = InstructionData(p - 1, args)
  BY DEF Encodes
<1> PICK q : q = EncodeArgs(args)
  OBVIOUS
<1> PICK vals : vals = [i \in 1 .. n |-> args[i].value]
  OBVIOUS
<1>9. vals = ValuesOf(args, n)
  BY DEF ValuesOf
<1> PICK types : types = [i \in 1 .. n |-> args[i].type]
  OBVIOUS
<1>1. /\ q \in Seq(Word)
      /\ \A t \in Seq(Word) : ReadsAs(DecodeArgs(params, t), q, vals, t)
  <2>1. types = [i \in DOMAIN params |-> params[i].type]
    BY <1>0
  <2>2. /\ EncodeEach(args, EncodeElements) \in Seq(Word)
        /\ \A t \in Seq(Word) :
             ReadsAs(DecodeEach(types, t, DecodeElements), EncodeEach(args, EncodeElements),
                     vals, t)
    BY <1>0, ArgsRead
  <2>3. q = EncodeEach(args, EncodeElements)
    BY DEF EncodeArgs
  <2>4. \A t : DecodeArgs(params, t) = DecodeEach(types, t, DecodeElements)
    BY <2>1 DEF DecodeArgs
  <2> QED
    BY <2>2, <2>3, <2>4, Zenon
<1>2. PICK ws : ws \in Seq(Word) /\ Fronted(ws, p - 1, q) /\ all = WordsToBytes(ws)
  <2> PICK f : f = <<p - 1>>
    OBVIOUS
  <2>1. f \in Seq(Word) /\ Len(f) = 1 /\ f[1] = p - 1
    BY <1>0
  <2>2. f \o q \in Seq(Word) /\ Behind(f \o q, f, q)
    BY <1>1, <2>1, OneBehindTheOther
  <2>3. all = WordsToBytes(f \o q)
    BY <1>0 DEF InstructionData, EncodeInstruction
  <2>4. Fronted(f \o q, p - 1, q)
    BY <2>1, <2>2 DEF Behind, Fronted
  <2> QED
    BY <2>2, <2>3, <2>4
<1>3. Len(all) = 4 * Len(ws) /\ all \in Seq(Byte)
  BY <1>2, BytesOfWords
<1>4. ArgumentsRead(idl[p].params, q, vals)
  BY <1>1, Zenon DEF ArgumentsRead
<1>5. /\ q \in Seq(Word) /\ ArgumentsRead(idl[p].params, q, ValuesOf(args, n))
      /\ all \in Seq(Byte)
      /\ \E w \in Seq(Word) : /\ Fronted(w, p - 1, q)
                              /\ all = WordsToBytes(w) /\ Len(all) = 4 * Len(w)
  BY <1>1, <1>2, <1>3, <1>4, <1>9
<1> QED
  BY <1>5, Zenon

(* An instruction, or the first bytes of one.                              *)
LEMMA InstructionReads ==
  ASSUME NEW idl, NEW p, NEW n, NEW args, NEW all, Encodes(idl, p, n, args, all),
         NEW k \in 0 .. Len(all)
  PROVE  DecodeR0Instruction(SubSeq(all, 1, k), idl) =
           IF k = Len(all) THEN CallShown(idl, p, ValuesOf(args, n)) ELSE Raw
<1> PICK q : q = EncodeArgs(args)
  OBVIOUS
<1> PICK vals : vals = ValuesOf(args, n)
  OBVIOUS
<1>0. Len(idl) \in Nat /\ p \in 1 .. Len(idl)
  BY DEF Encodes
<1>1. q \in Seq(Word) /\ ArgumentsRead(idl[p].params, q, vals)
  BY InstructionIsWords, Zenon
<1>2. PICK ws \in Seq(Word) : /\ Fronted(ws, p - 1, q)
                             /\ all = WordsToBytes(ws) /\ Len(all) = 4 * Len(ws)
  BY InstructionIsWords
<1>4. 4 * Len(ws) = Len(all) /\ k \in 0 .. 4 * Len(ws) /\ Len(ws) \in Nat
  BY <1>2, LenProperties, Zenon
<1>5. k \div 4 \in 0 .. Len(ws) /\ (k = Len(all) <=> k \div 4 = Len(ws))
  BY <1>4, WholeWords, Zenon
<1>6. BytesToWords(SubSeq(all, 1, k)) = SubSeq(ws, 1, k \div 4)
  BY <1>2, <1>4, WordsOfBytes, Zenon
<1>8. DecodeR0Instruction(SubSeq(all, 1, k), idl) =
        IF k \div 4 = Len(ws) THEN CallShown(idl, p, vals) ELSE Raw
  <2> PICK m : m = k \div 4
    OBVIOUS
  <2> PICK bytes : bytes = SubSeq(all, 1, k)
    OBVIOUS
  <2>1. /\ q \in Seq(Word) /\ ws \in Seq(Word) /\ Fronted(ws, p - 1, q) /\ m \in 0 .. Len(ws)
        /\ BytesToWords(bytes) = SubSeq(ws, 1, m)
    BY <1>1, <1>2, <1>5, <1>6
  <2>2. Handed(idl, p, q, vals, ws, bytes, m)
    BY <1>0, <1>1, <2>1 DEF Handed
  <2>3. DecodeR0Instruction(bytes, idl) = IF m = Len(ws) THEN CallShown(idl, p, vals) ELSE Raw
    BY <2>2, InstructionWords, Zenon
  <2> QED
    BY <2>3, Zenon
<1> QED
  BY <1>5, <1>8, Zenon

-----------------------------------------------------------------------------
(* What jobs mean, and what the modal reads.                               *)

(* What can be said of a job whose bytes the modal reads back.             *)
Ready(j) ==
  /\ Len(Idl(j)) \in Nat /\ Position(j) \in 1 .. Len(Idl(j)) /\ Position(j) - 1 \in Word
  /\ \E n \in Nat : /\ DOMAIN Params(j) = 1 .. n
                    /\ \A i \in 1 .. n : ElementValue(Params(j)[i].type, MeantValues(j)[i])

Understood(j) == CallShown(Idl(j), Position(j), MeantValues(j))

(* The bytes of such a job are read back as what it means.                 *)
LEMMA MeantDataReads ==
  ASSUME NEW j, Ready(j)
  PROVE  /\ MeantData(j) \in Seq(Byte)
         /\ \A k \in 0 .. Len(MeantData(j)) :
              DecodeR0Instruction(SubSeq(MeantData(j), 1, k), Idl(j)) =
                IF k = Len(MeantData(j)) THEN Understood(j) ELSE Raw
<1>1. PICK n \in Nat :
        /\ DOMAIN Params(j) = 1 .. n
        /\ \A i \in 1 .. n : ElementValue(Params(j)[i].type, MeantValues(j)[i])
  BY DEF Ready
<1> PICK idl, p, params : idl = Idl(j) /\ p = Position(j) /\ params = Params(j)
  OBVIOUS
<1> PICK args : args = [i \in DOMAIN Params(j) |-> Arg(Params(j)[i].type, MeantValues(j)[i])]
  OBVIOUS
<1> PICK all : all = MeantData(j)
  OBVIOUS
<1>2. /\ Len(idl) \in Nat /\ p \in 1 .. Len(idl) /\ p - 1 \in Word
      /\ params = idl[p].params /\ DOMAIN params = 1 .. n
  BY <1>1 DEF Ready, Params
<1>3. \A i \in 1 .. n : args[i].type = params[i].type /\ args[i].value = MeantValues(j)[i]
  BY <1>1 DEF Arg
<1>4. ArgsReadArgs(args, n)
  <2>1. args = [i \in 1 .. n |-> Arg(params[i].type, MeantValues(j)[i])]
    BY <1>1
  <2> QED
    BY <1>1, <1>3, <2>1 DEF ArgsReadArgs
<1>5. MeantValues(j) = ValuesOf(args, n)
  <2>1. DOMAIN Params(j) = 1 .. n
    BY <1>1
  <2>2. MeantValues(j) = [i \in 1 .. n |-> MeantValues(j)[i]]
    BY <2>1 DEF MeantValues
  <2> QED
    BY <1>3, <2>2 DEF ValuesOf
<1>6. all = InstructionData(p - 1, args)
  BY DEF MeantData
<1>7. \A i \in 1 .. n : params[i].type = args[i].type
  BY <1>3
<1>8. Encodes(idl, p, n, args, all)
  BY <1>1, <1>2, <1>4, <1>6, <1>7 DEF Encodes
<1>9. ASSUME NEW k \in 0 .. Len(all)
      PROVE  DecodeR0Instruction(SubSeq(all, 1, k), idl) =
               IF k = Len(all) THEN CallShown(idl, p, ValuesOf(args, n)) ELSE Raw
  BY <1>8, InstructionReads
<1>10. all \in Seq(Byte)
  BY <1>8, InstructionIsWords, Zenon
<1> QED
  BY <1>5, <1>9, <1>10, Zenon DEF Understood

-----------------------------------------------------------------------------
(* Every instruction of this repository has values for its parameters.     *)

Askable ==
  {Param(name, Id) : name \in IdNames} \cup {Param("registered_at", U64)}
  \cup {Param(name, Text) : name \in TextFields}

(* An id is a value of its type.                                           *)
LEMMA IdIsAValue == ElementValue(Id, RegistryId)
<1> PICK v : v = RegistryId
  OBVIOUS
<1>1. v \in [1 .. IdBytes -> Byte] /\ IdBytes \in Nat
  BY CodecAssumption
<1>2. v \in Seq(Byte) /\ Len(v) = IdBytes
  BY <1>1, FunctionsAreSequences
<1>3. /\ HasElements(Id) /\ Id.of.kind = "u8" /\ ~HasElements(Id.of)
      /\ Id.kind = "array" /\ Id.size = IdBytes
  BY DEF HasElements, Id
<1>4. \A i \in 1 .. IdBytes : InnerValue(Id.of, v[i])
  <2> TAKE i \in 1 .. IdBytes
  <2>1. v[i] \in Byte
    BY <1>1
  <2>2. FlatValue(Id.of, v[i])
    BY <1>3, <2>1 DEF FlatValue
  <2> QED
    BY <1>3, <2>2 DEF InnerValue, ValueOf
<1>5. CountFits(Id, IdBytes)
  BY <1>1, <1>3 DEF CountFits
<1>6. v = [i \in 1 .. IdBytes |-> v[i]]
  BY <1>1
<1> QED
  BY <1>2, <1>3, <1>4, <1>5, <1>6 DEF ElementValue, ValueOf

(* What a caller means for a parameter is a value of its type.             *)
LEMMA AskedValues ==
  ASSUME NEW f \in FieldSets, NEW x \in Askable
  PROVE  ElementValue(x.type, Meant(f, x.name))
<1>1. CASE x \in {Param(name, Id) : name \in IdNames}
  <2>1. x.type = Id /\ x.name \in IdNames
    BY <1>1 DEF Param
  <2>2. Meant(f, x.name) = RegistryId
    BY <2>1 DEF Meant
  <2> QED
    BY <2>1, <2>2, IdIsAValue, Zenon
<1>2. CASE x = Param("registered_at", U64)
  <2>1. x.type = U64 /\ x.name = "registered_at"
    BY <1>2 DEF Param
  <2>2. Meant(f, x.name) = f["registered_at"]
    BY <2>1 DEF Meant, IdNames
  <2>3. f["registered_at"] \in 0 .. WordBase * WordBase - 1
    BY FieldsAssumption
  <2>4. U64.kind = "u64"
    BY DEF U64
  <2>5. ~HasElements(U64) /\ FlatValue(U64, f["registered_at"])
    BY <2>3, <2>4 DEF HasElements, FlatValue
  <2> QED
    BY <2>1, <2>2, <2>5 DEF ElementValue, ValueOf
<1>3. CASE x \in {Param(name, Text) : name \in TextFields}
  <2>1. x.type = Text /\ x.name \in TextFields
    BY <1>3 DEF Param
  <2>2. Meant(f, x.name) = f[x.name]
    BY <2>1 DEF Meant, IdNames, TextFields
  <2>3. f[x.name] \in Seq(Byte) /\ Len(f[x.name]) < WordBase
    BY <2>1, FieldsAssumption
  <2>4. Text.kind = "string"
    BY DEF Text
  <2>5. ~HasElements(Text) /\ FlatValue(Text, f[x.name])
    BY <2>3, <2>4 DEF HasElements, FlatValue
  <2> QED
    BY <2>1, <2>2, <2>5 DEF ElementValue, ValueOf
<1> QED
  BY <1>1, <1>2, <1>3 DEF Askable

(* All parameters of the instructions that are called are among these.     *)
LEMMA AskedAreAskable ==
  /\ EntryParams \in Seq(Askable) /\ TextParams(Amended) \in Seq(Askable)
  /\ TextParams(<<"key", "value">>) \in Seq(Askable)
  /\ TextParams(<<"text", "username", "submission_id">>) \in Seq(Askable)
  /\ \A name \in IdNames :
       /\ <<Param(name, Id)>> \o EntryParams \in Seq(Askable)
       /\ <<Param(name, Id)>> \o TextParams(Amended) \in Seq(Askable)
<1>1. ASSUME NEW names \in Seq(TextFields)
      PROVE  TextParams(names) \in Seq(Askable)
  <2>1. \A i \in 1 .. Len(names) : names[i] \in TextFields
    BY ElementOfSeq
  <2>2. \A i \in 1 .. Len(names) : Param(names[i], Text) \in Askable
    BY <2>1 DEF Askable
  <2>3. TextParams(names) = [i \in 1 .. Len(names) |-> Param(names[i], Text)]
    BY DEF TextParams
  <2> QED
    BY <2>2, <2>3
<1>2. /\ "name" \in TextFields /\ "version" \in TextFields /\ "description" \in TextFields
      /\ "tags" \in TextFields /\ "idl_cid" \in TextFields /\ "source_cid" \in TextFields
      /\ "repo_url" \in TextFields /\ "commit" \in TextFields
      /\ "build_config" \in TextFields /\ "key" \in TextFields /\ "value" \in TextFields
      /\ "text" \in TextFields /\ "username" \in TextFields /\ "submission_id" \in TextFields
  BY DEF TextFields
<1> PICK N : N = TextFields
  OBVIOUS
<1>3. /\ Amended \in Seq(N) /\ <<"name">> \in Seq(N) /\ <<"key", "value">> \in Seq(N)
      /\ <<"text", "username", "submission_id">> \in Seq(N)
  BY <1>2 DEF Amended
<1>4. <<"name">> \o Amended \in Seq(N)
  BY <1>3
<1>5. EntryTexts \in Seq(N)
  BY <1>4 DEF EntryTexts
<1>6. /\ TextParams(EntryTexts) \in Seq(Askable) /\ TextParams(Amended) \in Seq(Askable)
      /\ TextParams(<<"key", "value">>) \in Seq(Askable)
      /\ TextParams(<<"text", "username", "submission_id">>) \in Seq(Askable)
  BY <1>1, <1>3, <1>5
<1>7. \A x \in Askable : <<x>> \in Seq(Askable)
  OBVIOUS
<1>8. \A s, t \in Seq(Askable) : s \o t \in Seq(Askable)
  OBVIOUS
<1>9. /\ Param("registered_at", U64) \in Askable
      /\ \A name \in IdNames : Param(name, Id) \in Askable
  BY DEF Askable
<1>10. EntryParams \in Seq(Askable)
  BY <1>6, <1>7, <1>8, <1>9, Zenon DEF EntryParams
<1> QED
  BY <1>6, <1>7, <1>8, <1>9, <1>10, Zenon

(* Where each call's instruction stands, and what it asks for.             *)
LEMMA CallsAsk ==
  ASSUME NEW j \in Calls, ~OwnUpdate(j)
  PROVE  /\ j.fields \in FieldSets /\ j.program \in Hooked \cup {"registry"} /\ j.by # "dapp"
         /\ \E k \in 1 .. 5 : \E params \in Seq(Askable) : Asks(j, k, params)
<1>1. /\ j.fields \in FieldSets /\ j.program \in Hooked \cup {"registry"}
      /\ j = Call(j.by, j.program, j.instruction, j.fields) /\ j.by # "dapp"
      /\ \/ j.instruction = "register_self"
         \/ j.instruction = "update_self" /\ j.by = "updateDeployer"
         \/ j.instruction = "register_third_party" /\ j.program = "registry"
         \/ j.instruction = "update_third_party" /\ j.program = "registry"
         \/ j.instruction = "publish" /\ j.program = "pointer"
         \/ j.instruction = "submit" /\ j.program = "testimonial"
  BY DEF Calls, SdkCalls, HandMadeCalls, Call, Hooked
<1> PICK f, by, p : f = j.fields /\ by = j.by /\ p = j.program
  OBVIOUS
<1>2. {1, 2, 3, 5} \subseteq 1 .. 5
  OBVIOUS
<1>3. "program" \in IdNames /\ "registry_program_id" \in IdNames
  BY DEF IdNames
<1>4. CASE p = "registry"
  <2>1. \/ j = Call(by, "registry", "register_self", f)
        \/ j = Call(by, "registry", "register_third_party", f)
        \/ j = Call(by, "registry", "update_third_party", f)
    BY <1>1, <1>4 DEF OwnUpdate
  <2> QED
    BY <1>1, <1>2, <1>3, <2>1, RegistryAsks, AskedAreAskable
<1>5. CASE p \in Hooked
  <2>1. \/ j = Call(by, p, "register_self", f)
        \/ j = Call(by, p, "update_self", f)
        \/ j = Call(by, p, "publish", f) /\ p = "pointer"
        \/ j = Call(by, p, "submit", f) /\ p = "testimonial"
    BY <1>1, <1>5 DEF Hooked
  <2> QED
    BY <1>1, <1>2, <1>3, <1>5, <2>1, HookAsks, AskedAreAskable
<1> QED
  BY <1>1, <1>4, <1>5

(* A call of this repository's own builders.                               *)
LEMMA CallsAreReady ==
  ASSUME NEW j \in Calls, ~OwnUpdate(j)
  PROVE  Ready(j)
<1>1. /\ j.fields \in FieldSets /\ j.program \in Hooked \cup {"registry"} /\ j.by # "dapp"
  BY CallsAsk
<1>2. PICK k \in 1 .. 5, params \in Seq(Askable) : Asks(j, k, params)
  BY CallsAsk
<1> PICK f : f = j.fields
  OBVIOUS
<1>3. /\ k \in DOMAIN Idl(j) /\ Idl(j)[k].name = j.instruction /\ Idl(j)[k].params = params
      /\ \A i \in DOMAIN Idl(j) : Idl(j)[i].name = j.instruction => i = k
  BY <1>2 DEF Asks, Instruction
<1>4. Position(j) = k
  BY <1>1, <1>3 DEF Position
<1>5. Params(j) = params
  BY <1>3, <1>4 DEF Params
<1>6. Len(Idl(j)) \in Nat /\ DOMAIN Idl(j) = 1 .. Len(Idl(j))
  <2>1. \A own : Len(HookIdl(own)) = 3 /\ DOMAIN HookIdl(own) = 1 .. 3
    BY DEF HookIdl
  <2>2. Len(RegistryIdl) = 6 /\ DOMAIN RegistryIdl = 1 .. 6
    BY DEF RegistryIdl
  <2>3. Idl(j) \in {RegistryIdl, PointerIdl, TestimonialIdl}
    BY <1>1 DEF Idl, Hooked
  <2> QED
    BY <2>1, <2>2, <2>3 DEF PointerIdl, TestimonialIdl
<1>7. k - 1 \in Word
  <2>1. k - 1 \in {0, 1, 2, 3, 4}
    OBVIOUS
  <2> QED
    BY <2>1, SmallPowers, Zenon
<1>8. DOMAIN params = 1 .. Len(params) /\ Len(params) \in Nat
  BY <1>2, LenProperties
<1>9. \A i \in 1 .. Len(params) : ElementValue(Params(j)[i].type, MeantValues(j)[i])
  <2> TAKE i \in 1 .. Len(params)
  <2>1. params[i] \in Askable
    BY <1>2, ElementOfSeq
  <2>2. MeantValues(j)[i] = Meant(f, params[i].name)
    BY <1>1, <1>5, <1>8 DEF MeantValues, Meant, IdNames
  <2> QED
    BY <1>1, <1>5, <2>1, <2>2, AskedValues, Zenon
<1> QED
  BY <1>3, <1>4, <1>5, <1>6, <1>7, <1>8, <1>9 DEF Ready

(* A dApp's call, when its values are those of their types.                *)
LEMMA DappCallsAreReady ==
  ASSUME NEW j \in DappCalls, Presentable(j)
  PROVE  Ready(j) /\ Built(j) = MeantData(j)
<1>1. PICK args \in DappArgs : j = [by |-> "dapp", args |-> args]
  BY DEF DappCalls
<1>2. j.by = "dapp" /\ j.args = args
  BY <1>1
<1> PICK n : n = Len(args)
  OBVIOUS
<1>3. n \in Nat /\ args = [i \in 1 .. n |-> Arg(args[i].type, args[i].value)]
  BY ArgsAssumption DEF Arg
<1>4. DOMAIN args = 1 .. n
  BY <1>3
<1> PICK params : params = [i \in DOMAIN args |-> Param(i, args[i].type)]
  OBVIOUS
<1>5. Idl(j) = <<Instruction("run", params)>>
  BY <1>2 DEF Idl, DappIdl
<1>6. Position(j) = 1
  BY <1>2 DEF Position
<1>7. Params(j) = params
  <2>1. Idl(j)[1] = Instruction("run", params)
    BY <1>5
  <2>2. Instruction("run", params).params = params
    BY DEF Instruction
  <2> QED
    BY <1>6, <2>1, <2>2 DEF Params
<1>8. DOMAIN params = 1 .. n /\ \A i \in 1 .. n : params[i].type = args[i].type
  BY <1>4 DEF Param
<1>9. \A i \in 1 .. n : MeantValues(j)[i] = args[i].value
  BY <1>2, <1>7, <1>8 DEF MeantValues
<1>10. Len(Idl(j)) = 1
  BY <1>5
<1>11. \A i \in 1 .. n : ElementValue(args[i].type, args[i].value)
  BY <1>2, <1>4 DEF Presentable
<1>12. Ready(j)
  <2>1. Len(Idl(j)) \in Nat /\ Position(j) \in 1 .. Len(Idl(j)) /\ Position(j) - 1 \in Word
    BY <1>6, <1>10, SmallPowers
  <2> QED
    BY <1>3, <1>7, <1>8, <1>9, <1>11, <2>1 DEF Ready
<1>13. [i \in DOMAIN Params(j) |-> Arg(Params(j)[i].type, MeantValues(j)[i])] = args
  <2>1. [i \in DOMAIN params |-> Arg(params[i].type, MeantValues(j)[i])]
          = [i \in 1 .. n |-> Arg(args[i].type, args[i].value)]
    BY <1>8, <1>9
  <2> QED
    BY <1>3, <1>7, <2>1, Zenon
<1>14. Built(j) = InstructionData(0, args)
  BY <1>2 DEF Built, DappCall
<1> QED
  BY <1>6, <1>12, <1>13, <1>14 DEF MeantData

(* A call as it is built, whole or cut short.                              *)
Shows(j) == ~LooksUp(j) /\ ~OwnUpdate(j) /\ Presentable(j)

(* The bytes that are built for it are read back, and their beginnings are *)
(* not taken for more than they are.                                       *)
LEMMA BuiltDataReads ==
  ASSUME NEW j \in Jobs, Shows(j)
  PROVE  /\ Built(j) \in Seq(Byte)
         /\ \A k \in 0 .. Len(Built(j)) :
              DecodeR0Instruction(SubSeq(Built(j), 1, k), Idl(j)) =
                IF k = Len(Built(j)) THEN Understood(j) ELSE Raw
<1>1. Ready(j) /\ Built(j) = MeantData(j)
  <2>1. j \notin Lookups \cup ForeignLookups
    BY DEF Shows, Lookups, ForeignLookups, LooksUp
  <2>2. CASE j \in Calls
    BY <2>2, CallsAreReady, BuildersBuildWhatIsMeant DEF Shows
  <2>3. CASE j \in DappCalls
    BY <2>3, DappCallsAreReady DEF Shows
  <2> QED
    BY <2>1, <2>2, <2>3 DEF Jobs
<1>2. MeantData(j) \in Seq(Byte)
  BY <1>1, MeantDataReads, Zenon
<1> QED
  BY <1>1, <1>2, MeantDataReads, Zenon

-----------------------------------------------------------------------------
(* What the modal shows.                                                   *)

(* The first of the first are the first.                                   *)
LEMMA FirstOfTheFirst ==
  ASSUME NEW S, NEW s \in Seq(S), NEW k \in 0 .. Len(s),
         NEW n \in 0 .. Len(SubSeq(s, 1, k)) - 1
  PROVE  SubSeq(SubSeq(s, 1, k), 1, n) = SubSeq(s, 1, n) /\ n \in 0 .. Len(s)
<1> PICK b : b = SubSeq(s, 1, k)
  OBVIOUS
<1> PICK c, d : c = SubSeq(b, 1, n) /\ d = SubSeq(s, 1, n)
  OBVIOUS
<1>1. b \in Seq(S) /\ Len(b) = k /\ \A i \in 1 .. k : b[i] = s[i]
  BY FirstElements
<1>2. n \in 0 .. Len(b) /\ n \in 0 .. Len(s) /\ n \in 0 .. k
  BY <1>1, LenProperties
<1>3. c \in Seq(S) /\ Len(c) = n /\ \A i \in 1 .. n : c[i] = b[i]
  BY <1>1, <1>2, FirstElements
<1>4. d \in Seq(S) /\ Len(d) = n /\ \A i \in 1 .. n : d[i] = s[i]
  BY <1>2, FirstElements
<1>5. \A i \in 1 .. n : c[i] = d[i]
  BY <1>1, <1>2, <1>3, <1>4
<1>6. c = d
  BY <1>3, <1>4, <1>5, SeqEqual
<1> QED
  BY <1>2, <1>6

(* What the modal can show of the bytes of such a call.                    *)
LEMMA ModalOfAnEffect ==
  ASSUME NEW j \in Jobs, Shows(j), NEW k \in 0 .. Len(Built(j)),
         NEW bytes, bytes = SubSeq(Built(j), 1, k),
         NEW effect \in Effects(bytes, Idl(j))
  PROVE  \/ Modal(effect) \in {Undescribed(Unregistered), Undescribed(NoIdl)}
         \/ Modal(effect) = IF k = Len(Built(j)) THEN Described(j) ELSE Undescribed(NoMatch)
<1>1. ASSUME NEW why, effect = Effect(ProgramOnly, bytes, {why})
      PROVE  Modal(effect) = Undescribed(why)
  BY <1>1 DEF Effect, Modal, Undescribed
<1>2. CASE effect = DescribeCall(bytes, Idl(j))
  <2> PICK read : read = DecodeR0Instruction(bytes, Idl(j))
    OBVIOUS
  <2>1. read = IF k = Len(Built(j)) THEN Understood(j) ELSE Raw
    BY BuiltDataReads
  <2>2. effect = IF read.decoded THEN Effect(Summary(read.called, read.args), bytes, {})
                                 ELSE Effect(ProgramOnly, bytes, {NoMatch})
    BY <1>2 DEF DescribeCall
  <2>3. CASE k = Len(Built(j))
    <3>1. read.decoded /\ Summary(read.called, read.args) = Described(j).summary
      BY <2>1, <2>3 DEF Understood, CallShown, Described
    <3>2. effect = Effect(Described(j).summary, bytes, {})
      BY <2>2, <3>1, Zenon
    <3> QED
      BY <2>3, <3>2 DEF Effect, Modal, Described
  <2>4. CASE k # Len(Built(j))
    <3>1. ~read.decoded
      BY <2>1, <2>4 DEF Raw
    <3> QED
      BY <1>1, <2>2, <2>4, <3>1
  <2> QED
    BY <2>3, <2>4
<1>3. CASE effect # DescribeCall(bytes, Idl(j))
  <2>1. PICK why \in {Unregistered, NoIdl} : effect = Effect(ProgramOnly, bytes, {why})
    BY <1>3 DEF Effects
  <2> QED
    BY <1>1, <2>1
<1> QED
  BY <1>2, <1>3

(* The bytes of a call that is shown are the first of those that were      *)
(* built, and what is shown is the effect read from them.                  *)
ModalInv ==
  /\ job \in Jobs
  /\ Shows(job) =>
       /\ stage # "asked" => \E k \in 0 .. Len(Built(job)) : data = SubSeq(Built(job), 1, k)
       /\ stage = "read" => \E effect \in Effects(data, Idl(job)) : shown = Modal(effect)

(* The modal names the instruction and shows the values that are signed,   *)
(* each text and all of them cut with a mark where they are long; or, when *)
(* bytes are missing, none: whatever the texts, the arguments and their    *)
(* types, wherever the display cuts and wherever a dApp cuts the data.  Of *)
(* the update of the registry's own entry it says nothing.                 *)
THEOREM ModalIsTrue == CodecSpec => []ModalShowsWhatIsSigned
<1>1. CodecInit => ModalInv
  BY DEF CodecInit, ModalInv, Jobs, Calls
<1>2. ModalInv /\ [CodecNext]_codecVars => ModalInv'
  <2> SUFFICES ASSUME ModalInv, [CodecNext]_codecVars PROVE ModalInv'
    OBVIOUS
  <2>1. job' = job /\ job \in Jobs
    BY DEF ModalInv, CodecNext, Build, CutShort, Describe, Fetch, Lookup, codecVars
  <2> PICK b : b = Built(job)
    OBVIOUS
  <2>2. SUFFICES ASSUME Shows(job)
                 PROVE  /\ stage' # "asked" => \E k \in 0 .. Len(b) : data' = SubSeq(b, 1, k)
                        /\ stage' = "read" => \E effect \in Effects(data', Idl(job)) :
                                                shown' = Modal(effect)
    BY <2>1 DEF ModalInv
  <2>3. /\ stage # "asked" => \E k \in 0 .. Len(b) : data = SubSeq(b, 1, k)
        /\ stage = "read" => \E effect \in Effects(data, Idl(job)) : shown = Modal(effect)
    BY <2>2 DEF ModalInv
  <2>4. b \in Seq(Byte) /\ ~LooksUp(job)
    BY <2>1, <2>2, BuiltDataReads DEF Shows
  <2>5. CASE Build
    <3>1. b = SubSeq(b, 1, Len(b)) /\ Len(b) \in 0 .. Len(b)
      BY <2>4, SubSeqFull, LenProperties
    <3> QED
      BY <2>5, <3>1 DEF Build
  <2>6. CASE CutShort
    <3>1. PICK k \in 0 .. Len(b) : data = SubSeq(b, 1, k)
      BY <2>3, <2>6 DEF CutShort
    <3>2. PICK n \in 0 .. Len(data) - 1 : data' = SubSeq(data, 1, n)
      BY <2>6 DEF CutShort
    <3>3. data' = SubSeq(b, 1, n) /\ n \in 0 .. Len(b)
      BY <2>4, <3>1, <3>2, FirstOfTheFirst
    <3> QED
      BY <2>6, <3>3 DEF CutShort
  <2>7. CASE Describe
    BY <2>1, <2>3, <2>7 DEF Describe
  <2>8. CASE Fetch \/ Lookup
    BY <2>4, <2>8 DEF Fetch, Lookup, LooksUp
  <2>9. CASE UNCHANGED codecVars
    BY <2>3, <2>9 DEF codecVars
  <2> QED
    BY <2>5, <2>6, <2>7, <2>8, <2>9 DEF CodecNext
<1>3. ModalInv => ModalShowsWhatIsSigned
  <2> SUFFICES ASSUME ModalInv, stage = "read", ~LooksUp(job), ~OwnUpdate(job),
                      Presentable(job)
               PROVE  \/ shown \in {Undescribed(Unregistered), Undescribed(NoIdl)}
                      \/ shown = IF Len(data) = Len(Built(job)) THEN Described(job)
                                                               ELSE Undescribed(NoMatch)
    BY DEF ModalShowsWhatIsSigned
  <2> PICK b : b = Built(job)
    OBVIOUS
  <2>1. job \in Jobs /\ Shows(job)
    BY DEF ModalInv, Shows
  <2>2. PICK k \in 0 .. Len(b) : data = SubSeq(b, 1, k)
    BY <2>1 DEF ModalInv
  <2>3. PICK effect \in Effects(data, Idl(job)) : shown = Modal(effect)
    BY <2>1 DEF ModalInv
  <2>4. b \in Seq(Byte)
    BY <2>1, BuiltDataReads
  <2>5. Len(data) = k
    BY <2>2, <2>4, FirstElements
  <2> QED
    BY <2>1, <2>2, <2>3, <2>5, ModalOfAnEffect
<1> QED
  BY <1>1, <1>2, <1>3, PTL DEF CodecSpec
=============================================================================
