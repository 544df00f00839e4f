---------------------------- MODULE ApprovalGate ----------------------------
(***************************************************************************)
(* GatedBackend (approval.ts) and the approval modal of WalletApp.         *)
(*                                                                         *)
(* A transfer or a program call suspends on the confirm hook, which puts   *)
(* it into WalletApp's only `pending` slot.  React renders the slot some   *)
(* time later; the user answers what is rendered.  A confirmed program     *)
(* call grants its program a session, within which further calls to it     *)
(* are not asked about.  Several requests are under way at once: the forms *)
(* stay enabled while a call is being described, which takes a registry    *)
(* lookup and an IDL download.                                             *)
(***************************************************************************)
EXTENDS Naturals, FiniteSets

CONSTANTS
  Requests,       \* uses of the forms that end in a gated op
  Programs,
  Registered,     \* the programs with an on-chain registry entry
  TTL,            \* SESSION_TTL_MS, in ticks
  MaxTime,        \* bound: the clock stops there
  MaxOutstanding, \* bound: requests under way at once
  None

Transfer == "transfer"

ASSUME GateAssumption ==
  /\ Registered \subseteq Programs
  /\ TTL \in Nat /\ MaxTime \in Nat /\ MaxOutstanding \in Nat
  /\ None \notin Requests \cup Nat
  /\ Transfer \notin Programs

VARIABLES
  now,      \* Date.now()
  op,       \* what each request does: a transfer, or a call to a program
  progress, \* how far each request is
  pending,  \* WalletApp's slot
  rendered, \* the slot as last rendered
  grants,   \* MemorySessionStore: scope -> expiry
  consent,  \* when the user approved a request
  ran       \* when the inner backend was called for a request

vars == <<now, op, progress, pending, rendered, grants, consent, ran>>

Times == 0..MaxTime

Stages == {"idle", "looked_up", "described", "waiting", "done"}

TypeOK ==
  /\ now \in Times
  /\ op \in [Requests -> Programs \cup {Transfer, None}]
  /\ progress \in [Requests -> Stages]
  /\ pending \in Requests \cup {None}
  /\ rendered \in Requests \cup {None}
  /\ grants \in [Programs -> (0..(MaxTime + TTL)) \cup {None}]
  /\ consent \in [Requests -> Times \cup {None}]
  /\ ran \in [Requests -> Times \cup {None}]

Init ==
  /\ now = 0
  /\ op = [r \in Requests |-> None]
  /\ progress = [r \in Requests |-> "idle"]
  /\ pending = None
  /\ rendered = None
  /\ grants = [p \in Programs |-> None]
  /\ consent = [r \in Requests |-> None]
  /\ ran = [r \in Requests |-> None]

-----------------------------------------------------------------------------

Outstanding == {r \in Requests : progress[r] \notin {"idle", "done"}}

(* Faulty variant: a grant never expires. *)
Granted_Forever(p) == grants[p] # None

(* MemorySessionStore.get: expired when exp < Date.now().                  *)
Granted(p) == grants[p] # None /\ grants[p] >= now

Run(r) ==
  /\ progress' = [progress EXCEPT ![r] = "done"]
  /\ ran' = [ran EXCEPT ![r] = now]

(* Faulty variant: the slot keeps what is asked, not who asks. *)
Confirm_Op(r) ==
  /\ progress' = [progress EXCEPT ![r] = "waiting"]
  /\ pending' = op[r]

(* The confirm hook: setPending, whatever the slot holds. *)
Confirm(r) ==
  /\ progress' = [progress EXCEPT ![r] = "waiting"]
  /\ pending' = r

(* GatedBackend.transfer always asks. *)
StartTransfer(r) ==
  /\ progress[r] = "idle" /\ Cardinality(Outstanding) < MaxOutstanding
  /\ op' = [op EXCEPT ![r] = Transfer]
  /\ Confirm(r)
  /\ UNCHANGED <<now, rendered, grants, consent, ran>>

(* GatedBackend.programCall, up to the registry lookup of describeCall. *)
StartCall(r) ==
  /\ progress[r] = "idle" /\ Cardinality(Outstanding) < MaxOutstanding
  /\ \E p \in Programs :
       /\ op' = [op EXCEPT ![r] = p]
       /\ IF Granted(p)
          THEN Run(r)
          ELSE progress' = [progress EXCEPT ![r] = "looked_up"] /\ UNCHANGED ran
  /\ UNCHANGED <<now, pending, rendered, grants, consent>>

(* The lookup answers, or fails and counts as an absent entry. *)
LookUp(r) ==
  /\ progress[r] = "looked_up"
  /\ \/ /\ op[r] \in Registered
        /\ progress' = [progress EXCEPT ![r] = "described"]
        /\ UNCHANGED pending
     \/ Confirm(r)
  /\ UNCHANGED <<now, op, rendered, grants, consent, ran>>

(* The IDL was fetched and decoded, or a warning replaces it. *)
FetchIdl(r) ==
  /\ progress[r] = "described"
  /\ Confirm(r)
  /\ UNCHANGED <<now, op, rendered, grants, consent, ran>>

Render ==
  /\ rendered # pending
  /\ rendered' = pending
  /\ UNCHANGED <<now, op, progress, pending, grants, consent, ran>>

(* Faulty variant: the modal stays open on what was answered. *)
CloseModal_Stays == pending' = pending /\ rendered' = rendered

(* setPending(null); a click is rendered before the next event. *)
CloseModal == pending' = None /\ rendered' = None

(* The modal's buttons resolve the promise of the request they show. *)
Approve ==
  /\ rendered # None
  /\ CloseModal
  /\ IF progress[rendered] = "waiting"
     THEN /\ consent' = [consent EXCEPT ![rendered] = now]
          /\ grants' = IF op[rendered] \in Programs
                       THEN [grants EXCEPT ![op[rendered]] = now + TTL]
                       ELSE grants
          /\ Run(rendered)
     ELSE UNCHANGED <<consent, grants, progress, ran>>
  /\ UNCHANGED <<now, op>>

(* Faulty variant: the modal is closed and nobody is told. *)
Reject_Silent ==
  /\ rendered # None
  /\ CloseModal
  /\ UNCHANGED <<now, op, progress, grants, consent, ran>>

Reject ==
  /\ rendered # None
  /\ CloseModal
  /\ progress' = [progress EXCEPT ![rendered] = "done"]
  /\ UNCHANGED <<now, op, grants, consent, ran>>

Tick ==
  /\ now < MaxTime
  /\ now' = now + 1
  /\ UNCHANGED <<op, progress, pending, rendered, grants, consent, ran>>

Next ==
  \/ \E r \in Requests :
       StartTransfer(r) \/ StartCall(r) \/ LookUp(r) \/ FetchIdl(r)
  \/ Render \/ Approve \/ Reject \/ Tick

Spec == Init /\ [][Next]_vars

(* Lookups and downloads come back, React renders, and the user answers    *)
(* what is on the screen.                                                  *)
FairSpec ==
  /\ Spec
  /\ \A r \in Requests : WF_vars(LookUp(r) \/ FetchIdl(r))
  /\ WF_vars(Render)
  /\ WF_vars(Approve \/ Reject)

-----------------------------------------------------------------------------
(* Properties *)

(* Nothing reaches the signer without the user: a transfer was itself      *)
(* shown and approved; a call was, or another call to the same program was *)
(* no longer ago than the session lasts.                                   *)
Authorized(r) ==
  \/ consent[r] = ran[r]
  \/ /\ op[r] # Transfer
     /\ \E q \in Requests :
          /\ op[q] = op[r]
          /\ consent[q] # None
          /\ consent[q] <= ran[r] /\ ran[r] <= consent[q] + TTL

NothingRunsUnapproved == \A r \in Requests : ran[r] # None => Authorized(r)

(* The modal never asks about a request that has been answered: a click    *)
(* always decides something.                                               *)
ShownIsUndecided == rendered # None => progress[rendered] = "waiting"

(* Only another request can silence one: a request that holds the slot is  *)
(* answered, unless another one is under way beside it, on its way to the  *)
(* slot or already shown.                                                  *)
OnlyAnotherRequestSilencesOne ==
  \A r \in Requests :
    (progress[r] = "waiting" /\ pending = r)
      ~> (progress[r] = "done" \/ Outstanding \ {r} # {})
=============================================================================
