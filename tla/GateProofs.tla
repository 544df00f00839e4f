----------------------------- MODULE GateProofs -----------------------------
(***************************************************************************)
(* The safety of the approval gate, for any number of requests and         *)
(* programs and any lifetime of a grant.                                   *)
(***************************************************************************)
EXTENDS ApprovalGate, TLAPS

(* The slot, like the modal, holds a request that waits; what was granted, *)
(* approved or run was decided in the past, by a request that is done.     *)
SlotInv == pending # None => progress[pending] = "waiting"

Backs(q, p) ==
  consent[q] # None /\ op[q] = p /\ grants[p] = consent[q] + TTL

GrantInv == \A p \in Programs : grants[p] # None => \E q \in Requests : Backs(q, p)

DecidedInv ==
  \A r \in Requests :
    /\ consent[r] # None => progress[r] = "done" /\ consent[r] <= now
    /\ ran[r] # None => progress[r] = "done"

IInv ==
  /\ TypeOK /\ SlotInv /\ ShownIsUndecided
  /\ GrantInv /\ DecidedInv /\ NothingRunsUnapproved

(* The invariant holds before any request. *)
LEMMA InitIInv == Init => IInv
BY GateAssumption
   DEF Init, IInv, TypeOK, SlotInv, ShownIsUndecided, GrantInv, DecidedInv,
       NothingRunsUnapproved, Times, Stages

(* Only `done` requests have consented or run, so what backs a grant or a  *)
(* run stays as it is while other requests move.                           *)
LEMMA AuthorizedStays ==
  ASSUME IInv, NEW r \in Requests, ran[r] # None,
         ran'[r] = ran[r],
         \A q \in Requests : progress[q] = "done" =>
                               op'[q] = op[q] /\ consent'[q] = consent[q]
  PROVE  Authorized(r)'
<1>1. Authorized(r) /\ progress[r] = "done"
  BY DEF IInv, NothingRunsUnapproved, DecidedInv
<1>2. CASE consent[r] = ran[r]
  BY <1>1, <1>2 DEF Authorized
<1>3. ASSUME NEW q \in Requests, op[q] = op[r], consent[q] # None,
             op[r] # Transfer,
             consent[q] <= ran[r], ran[r] <= consent[q] + TTL
      PROVE  Authorized(r)'
  <2>1. progress[q] = "done"
    BY <1>3 DEF IInv, DecidedInv
  <2>2. op'[q] = op'[r] /\ consent'[q] = consent[q] /\ op'[r] # Transfer
    BY <1>1, <1>3, <2>1
  <2> QED
    BY <1>3, <2>2 DEF Authorized
<1> QED
  BY <1>1, <1>2, <1>3 DEF Authorized

(* A step in which no request is approved and none runs. *)
LEMMA QuietStep ==
  ASSUME IInv, TypeOK', SlotInv', ShownIsUndecided',
         UNCHANGED <<grants, consent, ran>>,
         now' \in Times, now <= now',
         \A q \in Requests :
           progress[q] = "done" => progress'[q] = "done" /\ op'[q] = op[q]
  PROVE  IInv'
<1>1. DecidedInv'
  BY GateAssumption DEF IInv, TypeOK, DecidedInv, Times
<1>2. GrantInv'
  <2> SUFFICES ASSUME NEW p \in Programs, grants'[p] # None
               PROVE  \E q \in Requests : Backs(q, p)'
    BY DEF GrantInv
  <2>1. PICK q \in Requests : Backs(q, p)
    BY DEF IInv, GrantInv
  <2>2. progress[q] = "done"
    BY <2>1 DEF IInv, DecidedInv, Backs
  <2> QED
    BY <2>1, <2>2 DEF Backs
<1>3. NothingRunsUnapproved'
  BY AuthorizedStays DEF NothingRunsUnapproved
<1> QED
  BY <1>1, <1>2, <1>3 DEF IInv

(* A transfer goes to the slot. *)
LEMMA StartTransferStep ==
  ASSUME IInv, NEW r \in Requests, StartTransfer(r)
  PROVE  IInv'
<1> USE GateAssumption
<1>1. TypeOK'
  BY DEF IInv, TypeOK, StartTransfer, Confirm, Stages
<1>2. SlotInv' /\ ShownIsUndecided'
  BY DEF IInv, TypeOK, SlotInv, ShownIsUndecided, StartTransfer, Confirm
<1>3. now' \in Times /\ now <= now'
  BY DEF IInv, TypeOK, StartTransfer, Times
<1>4. \A q \in Requests :
        progress[q] = "done" => progress'[q] = "done" /\ op'[q] = op[q]
  BY DEF IInv, TypeOK, StartTransfer, Confirm
<1> QED
  BY <1>1, <1>2, <1>3, <1>4, QuietStep DEF StartTransfer

(* A call under a grant runs at once: the request that was granted is the  *)
(* one that authorizes it.                                                 *)
LEMMA StartCallStep ==
  ASSUME IInv, NEW r \in Requests, StartCall(r)
  PROVE  IInv'
<1> USE GateAssumption
<1>1. PICK p \in Programs :
        /\ op' = [op EXCEPT ![r] = p]
        /\ IF Granted(p) THEN Run(r)
           ELSE progress' = [progress EXCEPT ![r] = "looked_up"] /\ UNCHANGED ran
  BY DEF StartCall
<1>2. /\ progress[r] = "idle"
      /\ UNCHANGED <<now, pending, rendered, grants, consent>>
  BY DEF StartCall
<1>3. TypeOK'
  BY <1>1, <1>2 DEF IInv, TypeOK, Run, Stages
<1>4. \A q \in Requests : q # r =>
        progress'[q] = progress[q] /\ op'[q] = op[q] /\ ran'[q] = ran[q]
  BY <1>1 DEF IInv, TypeOK, Run
<1>5. SlotInv' /\ ShownIsUndecided'
  BY <1>2, <1>4 DEF IInv, TypeOK, SlotInv, ShownIsUndecided
<1>6. CASE ~Granted(p)
  <2>1. now' \in Times /\ now <= now'
    BY <1>2 DEF IInv, TypeOK, Times
  <2>2. \A q \in Requests :
          progress[q] = "done" => progress'[q] = "done" /\ op'[q] = op[q]
    BY <1>2, <1>4
  <2> QED
    BY <1>1, <1>2, <1>3, <1>5, <1>6, <2>1, <2>2, QuietStep
<1>7. CASE Granted(p)
  <2>1. /\ progress'[r] = "done" /\ ran'[r] = now /\ op'[r] = p
        /\ consent[r] = None /\ ran[r] = None
    BY <1>1, <1>2, <1>7 DEF IInv, TypeOK, Run, DecidedInv
  <2>2. DecidedInv'
    BY <1>2, <1>4, <2>1 DEF IInv, DecidedInv
  <2>3. PICK q \in Requests : Backs(q, p)
    BY <1>7 DEF Granted, IInv, GrantInv
  <2>4. /\ q # r /\ op'[q] = p
        /\ consent[q] \in Nat /\ consent[q] <= now /\ now <= consent[q] + TTL
    BY <1>2, <1>4, <1>7, <2>1, <2>3
       DEF IInv, DecidedInv, Backs, Granted, TypeOK, Times
  <2>5. p # Transfer /\ p \in Programs
    OBVIOUS
  <2>6. Authorized(r)'
    BY <1>2, <2>1, <2>3, <2>4, <2>5 DEF Authorized, Backs
  <2>7. \A s \in Requests :
          progress[s] = "done" => op'[s] = op[s] /\ consent'[s] = consent[s]
    BY <1>2, <1>4
  <2>8. NothingRunsUnapproved'
    BY <1>4, <2>6, <2>7, AuthorizedStays DEF NothingRunsUnapproved
  <2>9. GrantInv'
    <3> SUFFICES ASSUME NEW x \in Programs, grants'[x] # None
                 PROVE  \E s \in Requests : Backs(s, x)'
      BY DEF GrantInv
    <3>1. PICK s \in Requests : Backs(s, x)
      BY <1>2 DEF IInv, GrantInv
    <3>2. s # r
      BY <2>1, <3>1 DEF Backs
    <3> QED
      BY <1>2, <1>4, <3>1, <3>2 DEF Backs
  <2> QED
    BY <1>3, <1>5, <2>2, <2>8, <2>9 DEF IInv
<1> QED
  BY <1>6, <1>7

(* A call is looked up, described, and goes to the slot. *)
LEMMA DescribeStep ==
  ASSUME IInv, NEW r \in Requests, LookUp(r) \/ FetchIdl(r)
  PROVE  IInv'
<1> USE GateAssumption
<1>1. TypeOK'
  BY DEF IInv, TypeOK, LookUp, FetchIdl, Confirm, Stages
<1>2. SlotInv' /\ ShownIsUndecided'
  BY DEF IInv, TypeOK, SlotInv, ShownIsUndecided, LookUp, FetchIdl, Confirm
<1>3. now' \in Times /\ now <= now'
  BY DEF IInv, TypeOK, LookUp, FetchIdl, Times
<1>4. \A q \in Requests :
        progress[q] = "done" => progress'[q] = "done" /\ op'[q] = op[q]
  BY DEF IInv, TypeOK, LookUp, FetchIdl, Confirm
<1> QED
  BY <1>1, <1>2, <1>3, <1>4, QuietStep DEF LookUp, FetchIdl

(* The modal is rendered, or rejected, or the clock moves. *)
LEMMA ModalStep ==
  ASSUME IInv, Render \/ Reject \/ Tick \/ UNCHANGED vars
  PROVE  IInv'
<1> USE GateAssumption
<1>1. TypeOK'
  BY DEF IInv, TypeOK, Render, Reject, CloseModal, Tick, vars, Stages, Times
<1>2. SlotInv' /\ ShownIsUndecided'
  BY DEF IInv, TypeOK, SlotInv, ShownIsUndecided, Render, Reject, CloseModal,
         Tick, vars
<1>3. now' \in Times /\ now <= now'
  BY DEF IInv, TypeOK, Render, Reject, Tick, vars, Times
<1>4. \A q \in Requests :
        progress[q] = "done" => progress'[q] = "done" /\ op'[q] = op[q]
  BY DEF IInv, TypeOK, Render, Reject, Tick, vars
<1> QED
  BY <1>1, <1>2, <1>3, <1>4, QuietStep DEF Render, Reject, Tick, vars

(* An approval decides the request that is shown, which had not consented  *)
(* before, and renews the grant of its program.                            *)
LEMMA ApproveStep ==
  ASSUME IInv, Approve
  PROVE  IInv'
<1> USE GateAssumption
<1>0. PICK r \in Requests : r = rendered
  BY DEF Approve, IInv, TypeOK
<1>1. progress[r] = "waiting" /\ consent[r] = None /\ ran[r] = None
  BY <1>0 DEF Approve, IInv, ShownIsUndecided, DecidedInv
<1>2. /\ consent' = [consent EXCEPT ![r] = now]
      /\ grants' = IF op[r] \in Programs
                   THEN [grants EXCEPT ![op[r]] = now + TTL] ELSE grants
      /\ progress' = [progress EXCEPT ![r] = "done"]
      /\ ran' = [ran EXCEPT ![r] = now]
      /\ pending' = None /\ rendered' = None /\ UNCHANGED <<now, op>>
  BY <1>0, <1>1 DEF Approve, CloseModal, Run
<1>3. now + TTL \in 0..(MaxTime + TTL) /\ now \in Nat
  BY DEF IInv, TypeOK, Times
<1>4. TypeOK'
  BY <1>1, <1>2, <1>3 DEF IInv, TypeOK, Stages
<1>5. SlotInv' /\ ShownIsUndecided'
  BY <1>2 DEF SlotInv, ShownIsUndecided
<1>6. /\ consent'[r] = now /\ ran'[r] = now /\ progress'[r] = "done"
      /\ \A q \in Requests \ {r} :
           consent'[q] = consent[q] /\ ran'[q] = ran[q] /\ progress'[q] = progress[q]
  BY <1>1, <1>2 DEF IInv, TypeOK
<1>7. DecidedInv'
  BY <1>2, <1>3, <1>6 DEF IInv, DecidedInv
<1>8. GrantInv'
  <2> SUFFICES ASSUME NEW p \in Programs, grants'[p] # None
               PROVE  \E q \in Requests : Backs(q, p)'
    BY DEF GrantInv
  <2>1. CASE op[r] = p
    <3>1. grants'[p] = now + TTL
      BY <1>2, <2>1 DEF IInv, TypeOK
    <3> QED
      BY <1>1, <1>2, <1>3, <1>6, <2>1, <3>1 DEF Backs
  <2>2. CASE op[r] # p
    <3>1. grants'[p] = grants[p]
      BY <1>2, <2>2 DEF IInv, TypeOK
    <3>2. PICK q \in Requests : Backs(q, p)
      BY <3>1 DEF IInv, GrantInv
    <3>3. q # r
      BY <1>1, <3>2 DEF Backs
    <3> QED
      BY <1>2, <1>6, <3>1, <3>2, <3>3 DEF Backs
  <2> QED
    BY <2>1, <2>2
<1>9. NothingRunsUnapproved'
  <2>1. Authorized(r)'
    BY <1>2, <1>6 DEF Authorized
  <2>2. \A s \in Requests :
          progress[s] = "done" => op'[s] = op[s] /\ consent'[s] = consent[s]
    BY <1>1, <1>2, <1>6
  <2> QED
    BY <1>6, <2>1, <2>2, AuthorizedStays DEF NothingRunsUnapproved
<1> QED
  BY <1>4, <1>5, <1>7, <1>8, <1>9 DEF IInv

(* Every step keeps the invariant. *)
LEMMA NextIInv == IInv /\ [Next]_vars => IInv'
BY StartTransferStep, StartCallStep, DescribeStep, ModalStep, ApproveStep
   DEF Next

(* The invariant holds throughout every behaviour of the gate. *)
LEMMA Invariance == Spec => []IInv
BY InitIInv, NextIInv, PTL DEF Spec

(* Every variable of the gate stays within its type. *)
THEOREM TypeCorrect == Spec => []TypeOK
<1>1. IInv => TypeOK
  BY DEF IInv
<1> QED
  BY <1>1, Invariance, PTL

(* Nothing reaches the inner backend but what the user approved, or a call *)
(* to a program of which another call was approved no longer ago than the  *)
(* session lasts, however requests overlap.                                *)
THEOREM ApprovalIsNeeded == Spec => []NothingRunsUnapproved
<1>1. IInv => NothingRunsUnapproved
  BY DEF IInv
<1> QED
  BY <1>1, Invariance, PTL

(* The modal never asks about a request that has been answered. *)
THEOREM ModalIsFresh == Spec => []ShownIsUndecided
<1>1. IInv => ShownIsUndecided
  BY DEF IInv
<1> QED
  BY <1>1, Invariance, PTL

(* A request that holds the slot.                                          *)
Holds(r) == progress[r] = "waiting" /\ pending = r

(* A request that holds the slot alone keeps it until it is answered; it   *)
(* can lose it only while another one is under way.  This is what a step   *)
(* may not do, if OnlyAnotherRequestSilencesOne is to hold: the rest of    *)
(* that property is that the slot is rendered and the user answers.        *)
THEOREM SlotIsKept ==
  Spec => [][\A r \in Requests :
               Holds(r) /\ Outstanding \ {r} = {} =>
                 progress'[r] = "done" \/ Holds(r)' \/ (Outstanding \ {r})' # {}]_vars
<1> DEFINE Kept ==
      \A r \in Requests :
        Holds(r) /\ Outstanding \ {r} = {} =>
          progress'[r] = "done" \/ Holds(r)' \/ (Outstanding \ {r})' # {}
<1>1. IInv /\ [Next]_vars => [Kept]_vars
  <2> SUFFICES ASSUME IInv, Next, NEW r \in Requests, Holds(r), Outstanding \ {r} = {}
               PROVE  progress'[r] = "done" \/ Holds(r)' \/ (Outstanding \ {r})' # {}
    OBVIOUS
  <2>1. ASSUME NEW s \in Requests,
               StartTransfer(s) \/ StartCall(s) \/ LookUp(s) \/ FetchIdl(s)
        PROVE  Holds(r)' \/ (Outstanding \ {r})' # {}
    <3>1. s # r /\ progress[s] = "idle" /\ (StartTransfer(s) \/ StartCall(s))
      BY <2>1 DEF StartTransfer, StartCall, LookUp, FetchIdl, Holds, Outstanding
    <3>2. CASE StartTransfer(s)
      <4>1. progress'[s] = "waiting"
        BY <3>2 DEF StartTransfer, Confirm, IInv, TypeOK
      <4> QED
        BY <3>1, <4>1 DEF Outstanding
    <3>3. CASE StartCall(s)
      <4>1. pending' = pending /\ progress'[r] = progress[r]
        BY <3>1, <3>3 DEF StartCall, Run, IInv, TypeOK
      <4> QED
        BY <4>1 DEF Holds
    <3> QED
      BY <3>1, <3>2, <3>3
  <2>2. CASE Render \/ Tick
    BY <2>2 DEF Render, Tick, Holds
  <2>3. CASE Approve \/ Reject
    <3>1. rendered \in Requests /\ progress[rendered] = "waiting"
      BY <2>3 DEF Approve, Reject, IInv, TypeOK, ShownIsUndecided
    <3>2. rendered = r
      BY <3>1 DEF Outstanding
    <3>3. progress'[r] = "done"
      BY <2>3, <3>1, <3>2 DEF Approve, Reject, Run, IInv, TypeOK
    <3> QED
      BY <3>3
  <2> QED
    BY <2>1, <2>2, <2>3 DEF Next
<1> QED
  BY <1>1, Invariance, PTL DEF Spec
=============================================================================
