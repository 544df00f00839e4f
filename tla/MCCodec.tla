------------------------------ MODULE MCCodec ------------------------------
(* Values of Codec's constants for TLC: a byte is a bit, a word four of    *)
(* them, so that numbers of two and four words stay small.                 *)
EXTENDS Codec, TLC

Names == EntryTexts \o <<"key", "value", "text", "username", "submission_id">>

(* Fifteen different texts, of zero to three bytes, given to the names in  *)
(* order from the k-th on; a fourth and a fifth byte where long says so.   *)
Short == << <<>>, <<0>>, <<1>>, <<0,0>>, <<0,1>>, <<1,0>>, <<1,1>>, <<0,0,0>>,
            <<0,0,1>>, <<0,1,0>>, <<0,1,1>>, <<1,0,0>>, <<1,0,1>>, <<1,1,0>>, <<1,1,1>> >>
TextAt(i, k, long) == Short[((i + k) % 15) + 1] \o long

Fields(k, long, at) ==
  [n \in {Names[i] : i \in DOMAIN Names} \cup {"registered_at"} |->
     IF n = "registered_at" THEN at
     ELSE TextAt(CHOOSE i \in DOMAIN Names : Names[i] = n, k, long)]

MCFieldSets ==
  {Fields(k, long, at) : k \in 0 .. 4, long \in {<<>>, <<1>>, <<0, 1>>},
                         at \in {0, 15, 16, 255}}

MCRegistryId == <<1, 0, 1>>

K(kind) == [kind |-> kind]
Of(kind, type) == [kind |-> kind, of |-> type]
Array(type, n) == [kind |-> "array", of |-> type, size |-> n]

Typed ==
  {Arg(K("bool"), TRUE), Arg(K("bool"), FALSE), Arg(K("u8"), 1), Arg(K("u32"), 15),
   Arg(U64, 0), Arg(U64, 15), Arg(U64, 16), Arg(U64, 255), Arg(K("i64"), 17), Arg(K("i64"), -1),
   Arg(K("u128"), 1), Arg(K("u128"), 65535), Arg(Text, <<>>), Arg(Text, <<1, 0, 1, 1>>),
   Arg(Text, <<0, 0, 0, 0, 1>>), Arg(Of("vec", K("u8")), <<1, 0>>), Arg(Of("vec", U64), <<>>),
   Arg(Of("vec", Text), <<<<1>>, <<>>>>), Arg(Of("option", U64), <<>>),
   Arg(Of("option", U64), <<18>>), Arg(Of("option", Of("option", Text)), <<<<>>>>),
   Arg(Array(K("u8"), 3), <<1, 1, 0>>), Arg(Array(Of("option", K("u8")), 2), <<<<>>, <<1>>>>)}

MCDappArgs == {<<>>} \cup {<<a, b>> : a, b \in Typed}

MCEntries ==
  {[program_id |-> <<1, 0, 0>>, author |-> a, kind |-> k,
    texts |-> [i \in DOMAIN EntryTexts |-> TextAt(i, s, <<>>)], registered_at |-> at] :
     a \in {<<0, 0, 0>>, <<1, 1, 1>>}, k \in {0, 1}, s \in {0, 6}, at \in {0, 5, 255}}

(* Accounts of other programs: too short; zeros, enough for an entry and   *)
(* not; ones, whose lengths are below zero; a length that leads back.      *)
Bytes(n, b) == [i \in 1 .. n |-> b]
MCForeignData ==
  {Bytes(n, b) : n \in {1, 8, 50, 51, 52, 80}, b \in {0, 1}}
  \cup {Bytes(7, 0) \o <<0, 0, 1, 1>> \o Bytes(n, 0) : n \in {36, 60}}
=============================================================================
