---------------------------- MODULE OwnedRecords ----------------------------
(***************************************************************************)
(* What the on-chain programs promise of the records they keep: a slot is  *)
(* claimed at most once, by someone entitled to it; what was fixed at the  *)
(* claim stays fixed; only the content of an amendable slot may change     *)
(* afterwards; nothing is ever removed.  Registry, and the pointer and     *)
(* testimonial programs of RecordPrograms, implement it.                   *)
(***************************************************************************)
CONSTANTS
  Slots,      \* the addresses at which records live
  Amendable,  \* the slots whose content may change after the claim
  Entitled,   \* Entitled[s] is the set of holders that may claim slot s
  Births,     \* what a claim fixes besides the holder
  Contents,   \* the rest of a record
  Vacant      \* an unclaimed slot

VARIABLE book

Record(s) == [holder : Entitled[s], birth : Births, content : Contents]

Init == book = [s \in Slots |-> Vacant]

Untouched(S) == \A s \in S : book'[s] = book[s]

Claim(s) ==
  /\ book[s] = Vacant
  /\ book'[s] \in Record(s)
  /\ Untouched(Slots \ {s})

Amend(s) ==
  /\ s \in Amendable
  /\ book[s] # Vacant
  /\ book'[s] # Vacant
  /\ book'[s].holder = book[s].holder
  /\ book'[s].birth = book[s].birth
  /\ book'[s].content \in Contents
  /\ Untouched(Slots \ {s})

Next == \E s \in Slots : Claim(s) \/ Amend(s)

Spec == Init /\ [][Next]_book
=============================================================================
