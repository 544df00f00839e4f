------------------------------- MODULE Codec -------------------------------
(* Instructions and entries as bytes.  Three places of this repository     *)
(* build instruction data by hand (the registry SDK, publishPointer and    *)
(* the testimonial form), a guest reads them by its signature, and the     *)
(* approval modal decodes them by the program's IDL to tell the user what  *)
(* she is about to sign.  A registry entry goes the other way: the guest   *)
(* writes it with borsh and the SDK's decodeEntry reads it back.           *)
(*                                                                         *)
(* A job is one of these: an instruction somebody asks for, which is       *)
(* built, may be cut short by a careless dApp, and is described; or a      *)
(* lookup, which fetches an account's data and decodes it.  A byte has     *)
(* ByteBase values and an id IdBytes bytes; a word is four bytes, as it    *)
(* is in the code.  Text is the sequence of its bytes.                     *)
(*                                                                         *)
(* What the modal says of a call is a sequence of pieces: a name, a        *)
(* number, a character of a text, a bracket, a mark where something has    *)
(* been cut off.  Its cuts count pieces, where the code counts characters. *)
(*                                                                         *)
(* Values nest: encodeInto and decodeValue call themselves for the         *)
(* elements of a value.  Here the call for the elements is a parameter,    *)
(* and three levels are written out: an argument, its elements and theirs. *)
EXTENDS Integers, Sequences, SequencesExt

CONSTANTS
  ByteBase,      \* values of a byte
  IdBytes,       \* bytes of an id
  RegistryId,    \* the registry program's id
  FieldSets,     \* what callers put in the named fields
  DappArgs,      \* sequences of typed values, arguments of foreign programs
  Entries,       \* registry entries that lookups find
  ForeignData,   \* data of accounts that the registry does not own
  TextCut,       \* what is shown of a text: 120 in the code
  SummaryCut     \* what is shown of all arguments: 160 in the code

Byte == 0 .. ByteBase - 1
WordBase == ByteBase * ByteBase * ByteBase * ByteBase

ASSUME CodecAssumption ==
  /\ ByteBase \in Nat \ {0, 1} /\ IdBytes \in Nat \ {0}
  /\ RegistryId \in [1 .. IdBytes -> Byte]
  /\ ForeignData \subseteq Seq(Byte)
  /\ TextCut \in Nat /\ SummaryCut \in Nat

(* Callers put texts in the fields, whose lengths a word can count, and a  *)
(* u64 for the time.                                                       *)
TextFields ==
  {"name", "version", "description", "tags", "idl_cid", "source_cid", "repo_url", "commit",
   "build_config", "key", "value", "text", "username", "submission_id"}
ASSUME FieldsAssumption ==
  \A f \in FieldSets :
    /\ f["registered_at"] \in 0 .. WordBase * WordBase - 1
    /\ \A name \in TextFields :
         f[name] \in Seq(Byte) /\ Len(f[name]) < WordBase

(* The bound on nesting: what the third level holds has no elements.       *)
HasElements(type) == type.kind \in {"array", "vec", "option"}
ASSUME ArgsAssumption ==
  \A args \in DappArgs :
    /\ Len(args) \in Nat
    /\ args = [i \in 1 .. Len(args) |-> [type |-> args[i].type, value |-> args[i].value]]
    /\ \A i \in 1 .. Len(args) :
         LET type == args[i].type
         IN  HasElements(type) /\ HasElements(type.of) => ~HasElements(type.of.of)

(* What a registry holds: texts are shorter than half a word can count     *)
(* (the SDK reads a length as a signed number), and a u64 is two words.    *)
ASSUME EntriesAssumption ==
  \A e \in Entries :
    /\ e \in [program_id : [1 .. IdBytes -> Byte], author : [1 .. IdBytes -> Byte],
              kind : {0, 1}, texts : [1 .. 9 -> Seq(Byte)],
              registered_at : 0 .. WordBase * WordBase - 1]
    /\ \A i \in 1 .. 9 : 2 * Len(e.texts[i]) < WordBase

VARIABLES
  job,    \* what is being done
  stage,  \* "asked", "bytes" once there are bytes, "read" at the end
  data,   \* the instruction data, or the account data
  shown   \* what the modal shows, or what the lookup returns

codecVars == <<job, stage, data, shown>>

-----------------------------------------------------------------------------
(* Words and bytes.                                                        *)

(* Four digits, lowest first, and the number they make.  Of a negative     *)
(* number, those of its two's complement.                                  *)
FourDigits(v, base) ==
  LET v2 == v \div base
      v3 == v2 \div base
      v4 == v3 \div base
  IN  <<v % base, v2 % base, v3 % base, v4 % base>>
OfFour(d, base) == d[1] + base * (d[2] + base * (d[3] + base * d[4]))

(* A u64 is two words, low word first. *)
Halves(v) == <<v % WordBase, (v \div WordBase) % WordBase>>
OfHalves(low, high) == low + WordBase * high

(* JavaScript's slice of n from a place on, which counts places before the *)
(* start from the end; and an element that is not there taken for zero.    *)
Clamp(s, k) ==
  IF k >= 0 THEN (IF k <= Len(s) THEN k ELSE Len(s))
            ELSE (IF Len(s) + k >= 0 THEN Len(s) + k ELSE 0)
Slice(s, from, n) == SubSeq(s, Clamp(s, from - 1) + 1, Clamp(s, from - 1 + n))
ByteAt(s, i) == IF i \in DOMAIN s THEN s[i] ELSE 0

WordAt(bytes, i) == OfFour([j \in 1 .. 4 |-> ByteAt(bytes, i + j - 1)], ByteBase)

(* Shifted and or-ed in JavaScript, a word is a signed number.             *)
SignedAt(bytes, i) ==
  LET w == WordAt(bytes, i) IN IF 2 * w < WordBase THEN w ELSE w - WordBase

PushBytesPadded(bytes) ==
  [k \in 1 .. (Len(bytes) + 3) \div 4 |-> WordAt(bytes, 4 * k - 3)]

WordsToBytes(words) ==
  [i \in 1 .. 4 * Len(words) |->
     FourDigits(words[(i + 3) \div 4], ByteBase)[((i - 1) % 4) + 1]]

(* A last word that is not complete is dropped.                            *)
BytesToWords(bytes) == PushBytesPadded(SubSeq(bytes, 1, 4 * (Len(bytes) \div 4)))

-----------------------------------------------------------------------------
(* The SDK's encoder.  A type is a record with a kind, as in an IDL; an    *)
(* option is the empty sequence or a sequence of one value.                *)

Text == [kind |-> "string"]
U64  == [kind |-> "u64"]
Id   == [kind |-> "array", of |-> [kind |-> "u8"], size |-> IdBytes]

(* The sixteen bytes of a u128 make four words.                            *)
EncodeFlat(type, v) ==
  CASE type.kind = "bool" -> <<IF v THEN 1 ELSE 0>>
    [] type.kind \in {"u8", "u16", "u32", "char"} -> <<v>>
    [] type.kind \in {"u64", "i64"} -> Halves(v)
    [] type.kind = "u128" -> FourDigits(v, WordBase)
    [] type.kind = "string" -> <<Len(v)>> \o PushBytesPadded(v)

EncodeInto(type, v, Elements(_, _)) ==
  IF ~HasElements(type) THEN EncodeFlat(type, v)
  ELSE (IF type.kind = "array" THEN <<>> ELSE <<Len(v)>>) \o Elements(type.of, v)

Arg(type, v) == [type |-> type, value |-> v]

(* The words of values one behind the other; of those of one type that an  *)
(* argument has for elements, level by level; of an instruction's.         *)
EncodeEach(args, Elements(_, _)) ==
  FlattenSeq([i \in DOMAIN args |-> EncodeInto(args[i].type, args[i].value, Elements)])
AllOf(type, vs) == [i \in DOMAIN vs |-> Arg(type, vs[i])]
NoWords(type, vs) == <<>>
EncodeInner(type, vs) == EncodeEach(AllOf(type, vs), NoWords)
EncodeElements(type, vs) == EncodeEach(AllOf(type, vs), EncodeInner)
EncodeArgs(args) == EncodeEach(args, EncodeElements)

EncodeInstruction(index, args) == <<index>> \o EncodeArgs(args)
InstructionData(index, args) == WordsToBytes(EncodeInstruction(index, args))

-----------------------------------------------------------------------------
(* What each guest's instructions take, in the order of its enum.          *)

Amended == <<"version", "description", "tags", "idl_cid", "source_cid",
             "repo_url", "commit", "build_config">>
EntryTexts == <<"name">> \o Amended

Param(name, type) == [name |-> name, type |-> type]
TextParams(names) == [i \in DOMAIN names |-> Param(names[i], Text)]
EntryParams == TextParams(EntryTexts) \o <<Param("registered_at", U64)>>
Instruction(name, params) == [name |-> name, params |-> params]

RegistryIdl ==
  << Instruction("register_deployer", <<Param("program", Id)>> \o EntryParams),
     Instruction("register_self", <<Param("program", Id)>> \o EntryParams),
     Instruction("register_third_party", EntryParams),
     Instruction("update_deployer", <<Param("program", Id)>> \o TextParams(Amended)),
     Instruction("update_third_party", TextParams(Amended)),
     Instruction("update_self", TextParams(Amended)) >>

HookIdl(own) ==
  << own,
     Instruction("register_self", <<Param("registry_program_id", Id)>> \o EntryParams),
     Instruction("update_self",
                 <<Param("registry_program_id", Id)>> \o TextParams(Amended)) >>

PointerIdl == HookIdl(Instruction("publish", TextParams(<<"key", "value">>)))
TestimonialIdl ==
  HookIdl(Instruction("submit", TextParams(<<"text", "username", "submission_id">>)))

-----------------------------------------------------------------------------
(* The builders.                                                           *)

TextArgs(f, names) == [i \in DOMAIN names |-> Arg(Text, f[names[i]])]
EncodeEntryFields(f) == TextArgs(f, EntryTexts) \o <<Arg(U64, f["registered_at"])>>

(* Faulty variant: the description before the version. *)
UpdateFields_Swapped(f) ==
  TextArgs(f, <<"description", "version">> \o SubSeq(Amended, 3, Len(Amended)))

UpdateFields(f) == TextArgs(f, Amended)

(* The hooks' positions, as their callers pass them.                       *)
HookIndex(program) ==
  IF program = "registry" THEN [registerSelf |-> 1, updateSelf |-> 5]
                          ELSE [registerSelf |-> 1, updateSelf |-> 2]

RegisterDeployer(program, f) ==
  InstructionData(HookIndex(program).registerSelf,
                  <<Arg(Id, RegistryId)>> \o EncodeEntryFields(f))
UpdateDeployer(program, f) ==
  InstructionData(HookIndex(program).updateSelf, <<Arg(Id, RegistryId)>> \o UpdateFields(f))
RegisterThirdParty(f) == InstructionData(2, EncodeEntryFields(f))
UpdateThirdParty(f) == InstructionData(4, UpdateFields(f))

(* publishPointer and buildTestimonialCall pack words on their own.        *)
PackTexts(texts) ==
  WordsToBytes(<<0>> \o FlattenSeq([i \in DOMAIN texts |->
                                      <<Len(texts[i])>> \o PushBytesPadded(texts[i])]))
PublishPointer(f) == PackTexts(<<f["key"], f["value"]>>)
BuildTestimonialCall(f) == PackTexts(<<f["text"], f["username"], f["submission_id"]>>)

(* A dApp calls the only instruction of a foreign program, whose           *)
(* parameters have names of their own.                                     *)
DappCall(args) == InstructionData(0, args)
DappIdl(args) == <<Instruction("run", [i \in DOMAIN args |-> Param(i, args[i].type)])>>

-----------------------------------------------------------------------------
(* Jobs: calls of the builders, calls of dApps, lookups.                   *)

Call(by, program, to, f) ==
  [by |-> by, program |-> program, instruction |-> to, fields |-> f]

Hooked == {"pointer", "testimonial"}

SdkCalls ==
  {Call("registerDeployer", p, "register_self", f) : p \in Hooked \cup {"registry"}, f \in FieldSets}
  \cup {Call("updateDeployer", p, "update_self", f) : p \in Hooked \cup {"registry"}, f \in FieldSets}
  \cup {Call("registerThirdParty", "registry", "register_third_party", f) : f \in FieldSets}
  \cup {Call("updateThirdParty", "registry", "update_third_party", f) : f \in FieldSets}
HandMadeCalls ==
  {Call("publishPointer", "pointer", "publish", f) : f \in FieldSets}
  \cup {Call("buildTestimonialCall", "testimonial", "submit", f) : f \in FieldSets}
DappCalls == {[by |-> "dapp", args |-> args] : args \in DappArgs}
Lookups == {[by |-> "lookup", entry |-> e] : e \in Entries}
ForeignLookups == {[by |-> "foreign", holds |-> bytes] : bytes \in ForeignData}
LooksUp(j) == j.by \in {"lookup", "foreign"}

Idl(j) ==
  IF j.by = "dapp" THEN DappIdl(j.args)
  ELSE CASE j.program = "registry" -> RegistryIdl
         [] j.program = "pointer" -> PointerIdl
         [] j.program = "testimonial" -> TestimonialIdl

Built(j) ==
  CASE j.by = "registerDeployer" -> RegisterDeployer(j.program, j.fields)
    [] j.by = "updateDeployer" -> UpdateDeployer(j.program, j.fields)
    [] j.by = "registerThirdParty" -> RegisterThirdParty(j.fields)
    [] j.by = "updateThirdParty" -> UpdateThirdParty(j.fields)
    [] j.by = "publishPointer" -> PublishPointer(j.fields)
    [] j.by = "buildTestimonialCall" -> BuildTestimonialCall(j.fields)
    [] j.by = "dapp" -> DappCall(j.args)

(* What the caller means: the position of the instruction and the value    *)
(* of each of its parameters.                                              *)
Position(j) ==
  IF j.by = "dapp" THEN 1
  ELSE CHOOSE i \in DOMAIN Idl(j) : Idl(j)[i].name = j.instruction
Params(j) == Idl(j)[Position(j)].params
MeantValues(j) ==
  [i \in DOMAIN Params(j) |->
     IF j.by = "dapp" THEN j.args[i].value
     ELSE IF Params(j)[i].name \in {"program", "registry_program_id"} THEN RegistryId
     ELSE j.fields[Params(j)[i].name]]

-----------------------------------------------------------------------------
(* The decoder of GatedBackend.  Reading past the end throws.              *)

Threw == [ok |-> FALSE]
Got(v, rest) == [ok |-> TRUE, value |-> v, rest |-> rest]

(* n words read as one value. *)
TakeWords(ws, n, f(_)) ==
  IF Len(ws) < n THEN Threw ELSE Got(f(SubSeq(ws, 1, n)), SubSeq(ws, n + 1, Len(ws)))

(* A length word, then the bytes in their words.  *)
TakeText(ws) ==
  IF ws = <<>> THEN Threw
  ELSE TakeWords(Tail(ws), (ws[1] + 3) \div 4, LAMBDA w : SubSeq(WordsToBytes(w), 1, ws[1]))

(* Faulty variant: the length word of a vec is not skipped. *)
CountOf_Unskipped(type, ws) ==
  CASE type.kind = "array" -> [n |-> type.size, rest |-> ws]
    [] type.kind = "vec" -> [n |-> ws[1], rest |-> ws]
    [] type.kind = "option" -> [n |-> IF ws[1] = 0 THEN 0 ELSE 1, rest |-> Tail(ws)]

(* How many elements follow, and after which words.                        *)
CountOf(type, ws) ==
  CASE type.kind = "array" -> [n |-> type.size, rest |-> ws]
    [] type.kind = "vec" -> [n |-> ws[1], rest |-> Tail(ws)]
    [] type.kind = "option" -> [n |-> IF ws[1] = 0 THEN 0 ELSE 1, rest |-> Tail(ws)]

(* A type the decoder does not know is shown as opaque, and its words are  *)
(* left for the next argument.                                             *)
DecodeFlat(type, ws) ==
  CASE type.kind = "bool" -> TakeWords(ws, 1, LAMBDA w : w[1] # 0)
    [] type.kind \in {"u8", "u16", "u32", "char"} -> TakeWords(ws, 1, LAMBDA w : w[1])
    [] type.kind \in {"u64", "i64"} -> TakeWords(ws, 2, LAMBDA w : OfHalves(w[1], w[2]))
    [] type.kind = "u128" -> TakeWords(ws, 4, LAMBDA w : OfFour(w, WordBase))
    [] type.kind = "string" -> TakeText(ws)
    [] OTHER -> Got([opaque |-> type], ws)

DecodeValue(type, ws, Elements(_, _, _)) ==
  IF ~HasElements(type) THEN DecodeFlat(type, ws)
  ELSE IF ws = <<>> /\ type.kind # "array" THEN Threw
  ELSE Elements(type.of, CountOf(type, ws).n, CountOf(type, ws).rest)

(* One value behind those read so far, unless one of them threw.           *)
DecodeNext(read, type, Elements(_, _, _)) ==
  LET next == DecodeValue(type, read.rest, Elements)
  IN  IF read.ok /\ next.ok THEN Got(Append(read.value, next.value), next.rest) ELSE Threw

(* Values of these types one behind the other; so many of one type, level  *)
(* by level; an instruction's arguments.                                   *)
DecodeEach(types, ws, Elements(_, _, _)) ==
  LET read[i \in 0 .. Len(types)] ==
        IF i = 0 THEN Got(<<>>, ws) ELSE DecodeNext(read[i - 1], types[i], Elements)
  IN  read[Len(types)]
TooDeep(type, n, ws) == Threw
DecodeInner(type, n, ws) == DecodeEach([i \in 1 .. n |-> type], ws, TooDeep)
DecodeElements(type, n, ws) == DecodeEach([i \in 1 .. n |-> type], ws, DecodeInner)
DecodeArgs(params, ws) ==
  DecodeEach([i \in DOMAIN params |-> params[i].type], ws, DecodeElements)

(* The data is not an instruction of this IDL.                             *)
Raw == [decoded |-> FALSE]

DecodeR0Instruction(bytes, idl) ==
  LET words == BytesToWords(bytes) IN
  IF words = <<>> \/ words[1] >= Len(idl) THEN Raw
  ELSE LET called == idl[words[1] + 1]
           args == DecodeArgs(called.params, Tail(words))
       IN IF args.ok THEN [decoded |-> TRUE, called |-> called, args |-> args.value]
          ELSE Raw

-----------------------------------------------------------------------------
(* The effect of a call in words, and what the modal shows of it.          *)

CutMark == [cut |-> TRUE]
Truncate(s, n) == IF Len(s) > n THEN SubSeq(s, 1, n) \o <<CutMark>> ELSE s

WriteFlat(type, v) ==
  CASE type.kind = "bool" -> <<[bool |-> v]>>
    [] type.kind \in {"u8", "u16", "u32", "char", "u64", "i64", "u128"} -> <<[number |-> v]>>
    [] type.kind = "string" -> Truncate([i \in DOMAIN v |-> [char |-> v[i]]], TextCut)
    [] OTHER -> <<v>>

WriteValue(type, v, Elements(_, _)) ==
  IF ~HasElements(type) THEN WriteFlat(type, v)
  ELSE <<[opens |-> type.kind]>> \o Elements(type.of, v) \o <<[closes |-> type.kind]>>

(* The elements of a value, level by level; an instruction's arguments,    *)
(* each behind its name.                                                   *)
WriteAll(type, vs, Elements(_, _)) ==
  FlattenSeq([i \in DOMAIN vs |-> WriteValue(type, vs[i], Elements)])
NoPieces(type, vs) == <<>>
WriteInner(type, vs) == WriteAll(type, vs, NoPieces)
WriteElements(type, vs) == WriteAll(type, vs, WriteInner)
WriteArgs(params, vs) ==
  FlattenSeq([i \in DOMAIN params |->
                <<[name |-> params[i].name]>> \o WriteValue(params[i].type, vs[i], WriteElements)])

Summary(called, vs) ==
  <<[instruction |-> called.name]>> \o Truncate(WriteArgs(called.params, vs), SummaryCut)
ProgramOnly == <<[program |-> TRUE]>>

Unregistered == [warning |-> "program has no on-chain registry entry"]
NoIdl        == [warning |-> "showing raw call data"]
NoMatch      == [warning |-> "showing raw hex"]

(* describeCall: without an entry or its IDL, with one the data does not   *)
(* match, and with one that it matches.                                    *)
Effect(summary, bytes, warnings) ==
  [summary |-> summary, raw |-> [hex |-> bytes], warnings |-> warnings]
DescribeCall(bytes, idl) ==
  LET read == DecodeR0Instruction(bytes, idl) IN
  IF read.decoded THEN Effect(Summary(read.called, read.args), bytes, {})
                  ELSE Effect(ProgramOnly, bytes, {NoMatch})
Effects(bytes, idl) ==
  {Effect(ProgramOnly, bytes, {why}) : why \in {Unregistered, NoIdl}}
  \cup {DescribeCall(bytes, idl)}

(* WalletApp renders these two of an effect's fields, beside the program's *)
(* name and version.                                                       *)
Modal(effect) == [summary |-> effect.summary, warnings |-> effect.warnings]

-----------------------------------------------------------------------------
(* Registry entries: borsh as the guest writes it, decodeEntry as the SDK  *)
(* reads it.  Outside the data a length reads as zero and a slice comes    *)
(* out short without a word, and a length below zero makes it go back;     *)
(* only the final u64 throws.                                              *)

BorshText(t) == WordsToBytes(<<Len(t)>>) \o t
Borsh(e) ==
  e.program_id \o e.author \o <<e.kind>>
  \o BorshText(e.texts[1]) \o BorshText(e.texts[2]) \o BorshText(e.texts[3])
  \o BorshText(e.texts[4]) \o BorshText(e.texts[5]) \o BorshText(e.texts[6])
  \o BorshText(e.texts[7]) \o BorshText(e.texts[8]) \o BorshText(e.texts[9])
  \o WordsToBytes(Halves(e.registered_at))

(* A length word, and as many bytes behind it. *)
TakeFrom(bytes, off, len) == [text |-> Slice(bytes, off, len), off |-> off + len]
ReadText(bytes, off) == TakeFrom(bytes, off + 4, SignedAt(bytes, off))

(* The nine texts, each read where the one before it ended.                *)
ReadTexts(bytes) ==
  LET name         == ReadText(bytes, 2 * IdBytes + 2)
      version      == ReadText(bytes, name.off)
      description  == ReadText(bytes, version.off)
      tags         == ReadText(bytes, description.off)
      idl_cid      == ReadText(bytes, tags.off)
      source_cid   == ReadText(bytes, idl_cid.off)
      repo_url     == ReadText(bytes, source_cid.off)
      commit       == ReadText(bytes, repo_url.off)
      build_config == ReadText(bytes, commit.off)
  IN  <<name, version, description, tags, idl_cid, source_cid, repo_url, commit,
        build_config>>

Null == [found |-> FALSE]

ReadEntry(bytes, read) ==
  [program_id |-> Slice(bytes, 1, IdBytes),
   author |-> Slice(bytes, IdBytes + 1, IdBytes),
   kind |-> IF 2 * IdBytes + 1 \in DOMAIN bytes /\ bytes[2 * IdBytes + 1] = 0
            THEN 0 ELSE 1,
   texts |-> [i \in 1 .. 9 |-> read[i].text],
   registered_at |-> OfHalves(WordAt(bytes, read[9].off), WordAt(bytes, read[9].off + 4))]

(* Faulty variant: missing bytes of registered_at read as zero. *)
DecodeEntry_Lenient(bytes) ==
  [found |-> TRUE, entry |-> ReadEntry(bytes, ReadTexts(bytes))]

DecodeEntry(bytes) ==
  LET read == ReadTexts(bytes) IN
  IF read[9].off >= 1 /\ read[9].off + 7 <= Len(bytes)
  THEN [found |-> TRUE, entry |-> ReadEntry(bytes, read)]
  ELSE Null

LookupEntry(bytes) == IF bytes = <<>> THEN Null ELSE DecodeEntry(bytes)

-----------------------------------------------------------------------------

Nothing == [nothing |-> TRUE]

CodecInit ==
  /\ job \in SdkCalls \cup HandMadeCalls \cup DappCalls \cup Lookups \cup ForeignLookups
  /\ stage = "asked" /\ data = <<>> /\ shown = Nothing

Build ==
  /\ stage = "asked" /\ ~LooksUp(job)
  /\ data' = Built(job)
  /\ stage' = "bytes"
  /\ UNCHANGED <<job, shown>>

(* A dApp hands over fewer bytes than it built.                            *)
CutShort ==
  /\ stage = "bytes" /\ job.by = "dapp"
  /\ \E n \in 0 .. Len(data) - 1 : data' = SubSeq(data, 1, n)
  /\ UNCHANGED <<job, stage, shown>>

Describe ==
  /\ stage = "bytes" /\ ~LooksUp(job)
  /\ \E effect \in Effects(data, Idl(job)) : shown' = Modal(effect)
  /\ stage' = "read"
  /\ UNCHANGED <<job, data>>

(* An account of the registry's may be empty, or hold less than an entry;  *)
(* lookupEntry takes any account's id and does not ask who owns it.        *)
Fetch ==
  /\ stage = "asked"
  /\ \/ /\ job.by = "lookup"
        /\ \E n \in 0 .. Len(Borsh(job.entry)) : data' = SubSeq(Borsh(job.entry), 1, n)
     \/ job.by = "foreign" /\ data' = job.holds
  /\ stage' = "bytes"
  /\ UNCHANGED <<job, shown>>

Lookup ==
  /\ stage = "bytes" /\ LooksUp(job)
  /\ shown' = LookupEntry(data)
  /\ stage' = "read"
  /\ UNCHANGED <<job, data>>

CodecNext == Build \/ CutShort \/ Describe \/ Fetch \/ Lookup

CodecSpec == CodecInit /\ [][CodecNext]_codecVars

-----------------------------------------------------------------------------
(* Properties.                                                             *)

OwnUpdate(j) == j.by = "updateDeployer" /\ j.program = "registry"

(* The bytes by which the target's guest reads the meant values.           *)
MeantData(j) ==
  InstructionData(Position(j) - 1,
                  [i \in DOMAIN Params(j) |-> Arg(Params(j)[i].type, MeantValues(j)[i])])

Reaches(j) == stage # "asked" => data = MeantData(j)

(* Whatever a builder of this repository produces, the guest it is sent to *)
(* reads every parameter as the value the caller passed for it: the three  *)
(* hand-written encoders agree with the guests' signatures.  The update of *)
(* the registry's own entry is the exception: updateDeployer sends its     *)
(* update_self a registry id that it does not take.                        *)
BuiltCallsReachTheirGuest ==
  job.by # "dapp" /\ ~LooksUp(job) /\ ~OwnUpdate(job) => Reaches(job)

(* The values of a type.  An i64 below zero is left out: the modal shows   *)
(* it as the u64 of the same bits.                                         *)
FlatValue(type, v) ==
  CASE type.kind = "bool" -> v \in BOOLEAN
    [] type.kind = "u8" -> v \in Byte
    [] type.kind = "u16" -> v \in 0 .. ByteBase * ByteBase - 1
    [] type.kind \in {"u32", "char"} -> v \in 0 .. WordBase - 1
    [] type.kind = "u64" -> v \in 0 .. WordBase * WordBase - 1
    [] type.kind = "i64" -> v \in Nat /\ 2 * v < WordBase * WordBase
    [] type.kind = "u128" -> v \in 0 .. WordBase * WordBase * WordBase * WordBase - 1
    [] type.kind = "string" -> v \in Seq(Byte) /\ Len(v) < WordBase
    [] OTHER -> FALSE

CountFits(type, n) ==
  CASE type.kind = "array" -> n \in Nat /\ n = type.size
    [] type.kind = "vec" -> n \in 0 .. WordBase - 1
    [] type.kind = "option" -> n \in {0, 1}

ValueOf(type, v, Element(_, _)) ==
  IF ~HasElements(type) THEN FlatValue(type, v)
  ELSE /\ v = [i \in 1 .. Len(v) |-> v[i]] /\ CountFits(type, Len(v))
       /\ \A i \in 1 .. Len(v) : Element(type.of, v[i])
InnerValue(type, v) == ValueOf(type, v, FlatValue)
ElementValue(type, v) == ValueOf(type, v, InnerValue)

Presentable(j) ==
  j.by = "dapp" => \A i \in DOMAIN j.args : ElementValue(j.args[i].type, j.args[i].value)

(* What the modal shows of a call that it describes, and of one that it    *)
(* does not, for a reason.                                                 *)
Described(j) == [summary  |-> Summary(Idl(j)[Position(j)], MeantValues(j)),
                 warnings |-> {}]
Undescribed(why) == [summary |-> ProgramOnly, warnings |-> {why}]

(* The modal names the instruction that will be signed and shows the       *)
(* values that are meant, each text cut to TextCut and all of them to      *)
(* SummaryCut, with a mark where something is missing.  When the data has  *)
(* been cut short it shows none of them rather than a guess                *)
(* (decodeR0Instruction "throws on malformed input"), and without an IDL   *)
(* it says so.                                                             *)
ModalShowsWhatIsSigned ==
  stage = "read" /\ ~LooksUp(job) /\ ~OwnUpdate(job) /\ Presentable(job) =>
    \/ shown \in {Undescribed(Unregistered), Undescribed(NoIdl)}
    \/ shown = IF Len(data) = Len(Built(job)) THEN Described(job) ELSE Undescribed(NoMatch)

(* Two warnings say that the raw data is shown, in place of what could not *)
(* be decoded.  The code does not do what they say: the effect carries the *)
(* data in a field that WalletApp does not render.                         *)
RawIsShownWhenSaid ==
  stage = "read" /\ ~LooksUp(job) /\ shown.warnings \cap {NoIdl, NoMatch} # {} =>
    [hex |-> data] \in Range(shown.summary)

(* A lookup of an account of the registry's returns the entry the guest    *)
(* wrote or null, never an entry with fields that were not there:          *)
(* decodeEntry reads past the end without an error until its last field.   *)
LookupIsTheEntryOrNull ==
  stage = "read" /\ job.by = "lookup" =>
    IF data = Borsh(job.entry) THEN shown = [found |-> TRUE, entry |-> job.entry]
                               ELSE shown = Null

(* "Uninitialized or foreign-owned account - graceful null."  The code     *)
(* does not check who owns the account: data that is long enough makes an  *)
(* entry that nobody registered.                                           *)
ForeignAccountsAreNull == stage = "read" /\ job.by = "foreign" => shown = Null
=============================================================================
