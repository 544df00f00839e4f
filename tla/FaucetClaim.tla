---------------------------- MODULE FaucetClaim -----------------------------
(***************************************************************************)
(* faucet::claim of wsp-lez-core, run by several wallets at once against   *)
(* one Pinata account.                                                     *)
(*                                                                         *)
(* Every await of the code is a step of its own: between two reads of the  *)
(* chain others claim drops, which rotates the challenge, and money moves  *)
(* in and out of the winner's account.  A submitted transaction is         *)
(* included later, dropped when its solution has become stale, or lost.    *)
(* A deadline is the instant from which `Instant::now() < deadline` fails; *)
(* it may pass at any time.                                                *)
(***************************************************************************)
EXTENDS Naturals

CONSTANTS
  Claims,             \* calls of claim
  Accounts,
  Signable,           \* the accounts whose signing key the wallet holds
  PRIZE,
  MAX_STALE_RETRIES,
  Unsupported,        \* challenges with a difficulty above the maximum
  Amounts,            \* what other transfers credit or debit
  InitialPool,
  MaxRotations,       \* bound: rotations of the challenge
  MaxTransfers        \* bound: other transfers

ASSUME FaucetAssumption ==
  /\ Signable \subseteq Accounts
  /\ PRIZE \in Nat \ {0}
  /\ MAX_STALE_RETRIES \in Nat
  /\ Amounts \subseteq Nat \ {0}
  /\ InitialPool \in Nat
  /\ MaxRotations \in Nat
  /\ MaxTransfers \in Nat

VARIABLES
  pool,       \* balance of the Pinata account
  challenge,  \* the live challenge: how often it has rotated
  balance,    \* balance of each account
  owner,      \* program owner: none (default account), token program, other
  mempool,    \* transactions submitted and not yet included
  claim,      \* the local variables of each call
  transfers,  \* other transfers so far
  disturbed,  \* history: how often each call was disturbed in its race
  received,   \* history: what each was credited by other transfers
  paid        \* history: how many drops each call's transactions were paid

vars == <<pool, challenge, balance, owner, mempool, claim, transfers, disturbed,
          received, paid>>

chain == <<pool, challenge, balance, owner, transfers, received, paid>>

Refusals ==
  {"wrong_owner", "not_owned", "unregistered", "depleted", "unsupported",
   "pow_deadline", "rotating"}

Results == Refusals \cup {"none", "ok", "unknown", "unconfirmed", "error"}

Steps == {"idle", "inspect", "registering", "baseline", "read", "solve",
          "recheck", "rebalance", "submit", "reconcile", "done"}

Calls ==
  [winner : Accounts, step : Steps, attempt : 0..MAX_STALE_RETRIES, before : Nat, seen : Nat,
   expired : BOOLEAN, result : Results]

Transactions ==
  [kind : {"init"}, account : Accounts]
    \cup [kind : {"claim"}, by : Claims, account : Accounts, solves : Nat]

TypeOK ==
  /\ pool \in 0..InitialPool
  /\ challenge \in 0..MaxRotations
  /\ balance \in [Accounts -> Nat]
  /\ owner \in [Accounts -> {"none", "token", "other"}]
  /\ mempool \subseteq Transactions
  /\ claim \in [Claims -> Calls]
  /\ transfers \in 0..MaxTransfers
  /\ disturbed \in [Claims -> Nat]
  /\ received \in [Accounts -> Nat]
  /\ paid \in [Claims -> Nat]

(* A call for account a that is still to be made. *)
Uncalled(a) ==
  [winner |-> a, step |-> "idle", attempt |-> 0, before |-> 0, seen |-> 0,
   expired |-> FALSE, result |-> "none"]

Init ==
  /\ pool = InitialPool
  /\ challenge = 0
  /\ owner \in [Accounts -> {"none", "token", "other"}]
  /\ balance = [a \in Accounts |-> 0]
  /\ mempool = {}
  /\ claim \in [Claims -> {Uncalled(a) : a \in Accounts}]
  /\ transfers = 0
  /\ disturbed = [c \in Claims |-> 0]
  /\ received = [a \in Accounts |-> 0]
  /\ paid = [c \in Claims |-> 0]

-----------------------------------------------------------------------------
(* claim *)

Winner(c) == claim[c].winner

At(c, step) == claim[c].step = step

Goto(c, step) ==
  /\ claim' = [claim EXCEPT ![c].step = step]
  /\ UNCHANGED disturbed

(* The history forgets a call that leaves the race, unless it gives up.    *)
LeaveRace(c) == disturbed' = [disturbed EXCEPT ![c] = 0]

Finish(c, result) ==
  /\ claim' = [claim EXCEPT ![c].step = "done", ![c].result = result]
  /\ LeaveRace(c)

(* Faulty variant: `continue` without the bound of the for loop. *)
Retry_Unbounded(c, before) ==
  /\ claim' = [claim EXCEPT ![c].step = "read", ![c].before = before,
                            ![c].attempt = @ + 1]
  /\ UNCHANGED disturbed

(* `continue`: the next iteration, or the bail after the last. *)
Retry(c, before) ==
  /\ IF claim[c].attempt < MAX_STALE_RETRIES
     THEN claim' = [claim EXCEPT ![c].step = "read", ![c].before = before,
                                 ![c].attempt = @ + 1]
     ELSE claim' = [claim EXCEPT ![c].step = "done", ![c].before = before,
                                 ![c].result = "rotating"]
  /\ UNCHANGED disturbed

Begin(c) ==
  /\ At(c, "idle")
  /\ Goto(c, "inspect")
  /\ UNCHANGED <<chain, mempool>>

(* inspect_recipient, and register_account up to its polling loop. *)
Inspect(c) ==
  LET a == Winner(c) IN
  /\ At(c, "inspect")
  /\ \/ /\ owner[a] = "token" /\ Goto(c, "baseline")
        /\ UNCHANGED mempool
     \/ /\ owner[a] = "other" /\ Finish(c, "wrong_owner")
        /\ UNCHANGED mempool
     \/ /\ owner[a] = "none" /\ a \notin Signable
        /\ Finish(c, "not_owned")
        /\ UNCHANGED mempool
     \/ /\ owner[a] = "none" /\ a \in Signable
        /\ mempool' = mempool \cup {[kind |-> "init", account |-> a]}
        /\ Goto(c, "registering")
  /\ UNCHANGED chain

AwaitRegistration(c) ==
  /\ At(c, "registering")
  /\ \/ /\ ~claim[c].expired /\ owner[Winner(c)] = "token"
        /\ Goto(c, "baseline")
     \/ claim[c].expired /\ Finish(c, "unregistered")
  /\ UNCHANGED <<chain, mempool>>

(* The balance before, and the deadline of the whole claim. *)
Baseline(c) ==
  /\ At(c, "baseline")
  /\ claim' = [claim EXCEPT ![c].step = "read", ![c].expired = FALSE,
                            ![c].before = balance[Winner(c)]]
  /\ UNCHANGED <<chain, mempool, disturbed>>

ReadChallenge(c) ==
  /\ At(c, "read")
  /\ IF pool < PRIZE THEN Finish(c, "depleted")
     ELSE IF challenge \in Unsupported THEN Finish(c, "unsupported")
     ELSE /\ claim' = [claim EXCEPT ![c].step = "solve", ![c].seen = challenge]
          /\ UNCHANGED disturbed
  /\ UNCHANGED <<chain, mempool>>

Solve(c) ==
  /\ At(c, "solve")
  /\ Goto(c, "recheck") \/ Finish(c, "pow_deadline")
  /\ UNCHANGED <<chain, mempool>>

Recheck(c) ==
  /\ At(c, "recheck")
  /\ IF challenge # claim[c].seen \/ pool < PRIZE
     THEN Retry(c, claim[c].before)
     ELSE Goto(c, "rebalance")
  /\ UNCHANGED <<chain, mempool>>

(* Faulty variant: the balance that made it retry is not remembered. *)
Rebalance_KeepsBefore(c) ==
  /\ At(c, "rebalance")
  /\ IF balance[Winner(c)] # claim[c].before
     THEN Retry(c, claim[c].before)
     ELSE Goto(c, "submit")
  /\ UNCHANGED <<chain, mempool>>

Rebalance(c) ==
  /\ At(c, "rebalance")
  /\ IF balance[Winner(c)] # claim[c].before
     THEN Retry(c, balance[Winner(c)])
     ELSE Goto(c, "submit")
  /\ UNCHANGED <<chain, mempool>>

Submit(c) ==
  /\ At(c, "submit")
  /\ mempool' = mempool \cup {[kind |-> "claim", by |-> c,
                               account |-> Winner(c),
                               solves |-> claim[c].seen]}
  /\ claim' = [claim EXCEPT ![c].step = "reconcile"]
  /\ LeaveRace(c)
  /\ UNCHANGED chain

(* Faulty variant: a claim that is not confirmed in time is tried again.   *)
Reconcile_TryAgain(c) ==
  LET now == balance[Winner(c)] before == claim[c].before IN
  /\ At(c, "reconcile")
  /\ \/ ~claim[c].expired /\ now = before + PRIZE /\ Finish(c, "ok")
     \/ claim[c].expired /\ Retry(c, now)
  /\ UNCHANGED <<chain, mempool>>

(* Faulty variant: a balance that moved otherwise counts as stale.         *)
Reconcile_MovedIsStale(c) ==
  LET now == balance[Winner(c)] before == claim[c].before IN
  /\ At(c, "reconcile")
  /\ \/ ~claim[c].expired /\ now = before + PRIZE /\ Finish(c, "ok")
     \/ ~claim[c].expired /\ now \notin {before, before + PRIZE}
        /\ Retry(c, now)
     \/ claim[c].expired /\ Finish(c, "unconfirmed")
  /\ UNCHANGED <<chain, mempool>>

(* Faulty variant: a balance that did not shrink counts as success. *)
Reconcile_NotLess(c) ==
  LET now == balance[Winner(c)] before == claim[c].before IN
  /\ At(c, "reconcile")
  /\ \/ ~claim[c].expired /\ now >= before /\ Finish(c, "ok")
     \/ claim[c].expired /\ Finish(c, "unconfirmed")
  /\ UNCHANGED <<chain, mempool>>

(* Faulty variant: the loop only ends when the balance moves. *)
Reconcile_NoDeadline(c) ==
  LET now == balance[Winner(c)] before == claim[c].before IN
  /\ At(c, "reconcile")
  /\ \/ now = before + PRIZE /\ Finish(c, "ok")
     \/ now \notin {before, before + PRIZE} /\ Finish(c, "unknown")
  /\ UNCHANGED <<chain, mempool>>

(* One turn of the reconciliation loop, or its end. *)
Reconcile(c) ==
  LET now == balance[Winner(c)] before == claim[c].before IN
  /\ At(c, "reconcile")
  /\ \/ ~claim[c].expired /\ now = before + PRIZE /\ Finish(c, "ok")
     \/ ~claim[c].expired /\ now \notin {before, before + PRIZE}
        /\ Finish(c, "unknown")
     \/ claim[c].expired /\ Finish(c, "unconfirmed")
  /\ UNCHANGED <<chain, mempool>>

(* Any request to the sequencer may fail, whatever was submitted. *)
RequestFails(c) ==
  /\ claim[c].step \notin {"idle", "solve", "done"}
  /\ Finish(c, "error")
  /\ UNCHANGED <<chain, mempool>>

Deadline(c) ==
  /\ claim[c].step \notin {"idle", "inspect", "baseline", "done"}
  /\ ~claim[c].expired
  /\ claim' = [claim EXCEPT ![c].expired = TRUE]
  /\ UNCHANGED <<chain, mempool, disturbed>>

Step(c) ==
  \/ Inspect(c) \/ AwaitRegistration(c) \/ Baseline(c) \/ ReadChallenge(c)
  \/ Solve(c) \/ Recheck(c) \/ Rebalance(c) \/ Submit(c) \/ Reconcile(c)

-----------------------------------------------------------------------------
(* The chain *)

(* Between its baseline and its submission a call is in the race: there a  *)
(* rotation of the challenge disturbs it, and so does a move of its        *)
(* winner's balance.  A drop paid to the winner does both.                 *)
InRace(c) == claim[c].step \in {"read", "solve", "recheck", "rebalance"}

Disturb(rotations, moved) ==
  disturbed' = [c \in Claims |->
                  IF ~InRace(c) THEN disturbed[c]
                  ELSE disturbed[c] + rotations + IF Winner(c) \in moved THEN 1 ELSE 0]

(* The Pinata program pays a claim that solves the live challenge. *)
Pays(tx) ==
  /\ tx.kind = "claim"
  /\ tx.solves = challenge
  /\ pool >= PRIZE
  /\ owner[tx.account] = "token"
  /\ challenge < MaxRotations

IncludeClaim ==
  /\ \E tx \in mempool :
       /\ Pays(tx)
       /\ pool' = pool - PRIZE
       /\ balance' = [balance EXCEPT ![tx.account] = @ + PRIZE]
       /\ Disturb(1, {tx.account})
       /\ paid' = [paid EXCEPT ![tx.by] = @ + 1]
       /\ mempool' = mempool \ {tx}
  /\ challenge' = challenge + 1
  /\ UNCHANGED <<owner, claim, transfers, received>>

IncludeInit ==
  /\ \E tx \in mempool :
       /\ tx.kind = "init" /\ owner[tx.account] = "none"
       /\ owner' = [owner EXCEPT ![tx.account] = "token"]
       /\ mempool' = mempool \ {tx}
  /\ UNCHANGED <<pool, challenge, balance, claim, transfers, disturbed, received,
                 paid>>

(* A stale transaction is rejected, any transaction may be lost. *)
Drop ==
  /\ \E tx \in mempool : mempool' = mempool \ {tx}
  /\ UNCHANGED <<chain, claim, disturbed>>

OthersClaim ==
  /\ pool >= PRIZE /\ challenge < MaxRotations
  /\ pool' = pool - PRIZE /\ challenge' = challenge + 1
  /\ Disturb(1, {})
  /\ UNCHANGED <<balance, owner, mempool, claim, transfers, received, paid>>

OtherTransfer ==
  /\ transfers < MaxTransfers
  /\ \E a \in Accounts, n \in Amounts :
       /\ owner[a] = "token"
       /\ \/ /\ balance' = [balance EXCEPT ![a] = @ + n]
             /\ received' = [received EXCEPT ![a] = @ + n]
          \/ /\ balance[a] >= n
             /\ balance' = [balance EXCEPT ![a] = @ - n]
             /\ UNCHANGED received
       /\ Disturb(0, {a})
  /\ transfers' = transfers + 1
  /\ UNCHANGED <<pool, challenge, owner, mempool, claim, paid>>

Next ==
  \/ \E c \in Claims : Begin(c) \/ Step(c) \/ RequestFails(c) \/ Deadline(c)
  \/ IncludeClaim \/ IncludeInit \/ Drop \/ OthersClaim \/ OtherTransfer

Spec == Init /\ [][Next]_vars

(* A running call takes its steps and time passes; the chain owes nothing. *)
FairSpec ==
  Spec /\ \A c \in Claims : WF_vars(Step(c)) /\ WF_vars(Deadline(c))

-----------------------------------------------------------------------------
(* Properties *)

(* However the challenge rotates under it, one call is paid one drop at    *)
(* most: it never submits again what may still be included.                *)
OneDropPerClaim == \A c \in Claims : paid[c] <= 1

(* A refusal is final: a call that ends with one has nothing in flight and *)
(* was paid nothing, so calling again cannot collect twice.                *)
RefusalsAreFinal ==
  \A c \in Claims :
    claim[c].result \in Refusals =>
      /\ paid[c] = 0
      /\ \A tx \in mempool : tx.kind = "claim" => tx.by # c

(* A call gives up as "rotating" only after it was disturbed once for      *)
(* every attempt, each time in this very call: one rotation never costs it *)
(* two attempts, nor does one move of the balance.                         *)
GivesUpOnlyWhenDisturbed ==
  \A c \in Claims :
    claim[c].result = "rotating" => disturbed[c] > MAX_STALE_RETRIES

(* "challenge kept rotating under us - other claimants won the race": who  *)
(* is told so has been overtaken by a claim of somebody.                   *)
RotatingMeansOthersClaimed ==
  \A c \in Claims : claim[c].result = "rotating" => challenge > 0

(* "the definitive success signal": success is reported when a drop was    *)
(* paid to the account, unless others sent it as much.  The balance does   *)
(* not tell whose claim it was: two calls for one account may both report  *)
(* the only drop.                                                          *)
OkMeansPaid ==
  \A c \in Claims : claim[c].result = "ok" =>
    \/ \E d \in Claims : Winner(d) = Winner(c) /\ paid[d] = 1
    \/ received[Winner(c)] >= PRIZE

(* Every call ends, whatever the chain does: a call that has ended is not  *)
(* begun again, so that none is under way once and again means that every  *)
(* one that was begun has ended.                                           *)
EveryClaimEnds ==
  []<>(\A c \in Claims : claim[c].step \in {"idle", "done"})
=============================================================================
