---------------------------- MODULE FaucetProofs ----------------------------
(***************************************************************************)
(* What the results of faucet::claim mean, for any number of calls and     *)
(* accounts, any number of retries and whatever else happens on the chain: *)
(* one drop at most is paid to a call, a refused call was paid nothing nor *)
(* will be, success means that the account got its prize, and a call that  *)
(* gives up as rotating was disturbed once for every attempt it made.      *)
(***************************************************************************)
EXTENDS FaucetClaim, TLAPS

Own(c, tx) == tx \in mempool /\ tx.kind = "claim" /\ tx.by = c

(* A call that has not submitted, or never will. *)
Calm(call) ==
  call.step \notin {"reconcile", "done"} \/ call.result \in Refusals

(* At most one transaction of a call is ever in flight, and it is in       *)
(* flight or was paid, never both; a calm call has neither.                *)
CallInv(c) ==
  /\ claim[c].step # "done" => claim[c].result = "none"
  /\ Calm(claim[c]) => paid[c] = 0 /\ \A tx : ~Own(c, tx)
  /\ \A tx, ty : Own(c, tx) /\ Own(c, ty) => tx = ty
  /\ \A tx : Own(c, tx) => paid[c] = 0
  /\ paid[c] <= 1

IInv == TypeOK /\ \A c \in Claims : CallInv(c)

-----------------------------------------------------------------------------
(* The invariant holds before any call. *)
LEMMA InitIInv == Init => IInv
<1> SUFFICES ASSUME Init PROVE IInv
  OBVIOUS
<1> USE FaucetAssumption
<1>1. \A a \in Accounts : Uncalled(a) \in Calls
  BY DEF Uncalled, Calls, Steps, Results, Refusals
<1>2. ASSUME NEW c \in Claims
      PROVE  claim[c].step = "idle" /\ claim[c].result = "none"
  <2>1. PICK a \in Accounts : claim[c] = Uncalled(a)
    BY DEF Init
  <2> QED
    BY <2>1 DEF Uncalled
<1>3. TypeOK
  BY <1>1 DEF Init, TypeOK
<1> QED
  BY <1>2, <1>3 DEF Init, IInv, CallInv, Calm, Own

(* A step of one call that neither submits nor is paid. *)
LEMMA LocalStep ==
  ASSUME IInv, NEW c \in Claims, UNCHANGED <<chain, mempool>>,
         claim' \in [Claims -> Calls], disturbed' \in [Claims -> Nat],
         \A d \in Claims \ {c} : claim'[d] = claim[d],
         claim'[c].step # "done" => claim'[c].result = "none",
         Calm(claim'[c]) => Calm(claim[c])
  PROVE  IInv'
<1>1. TypeOK'
  BY DEF IInv, TypeOK, chain
<1>2. CallInv(c)'
  BY DEF IInv, CallInv, Own, chain, Calm
<1>3. ASSUME NEW d \in Claims \ {c} PROVE CallInv(d)'
  BY <1>3 DEF IInv, CallInv, Own, chain
<1> QED
  BY <1>1, <1>2, <1>3 DEF IInv

(* What ends a call: a refusal only before it submits. *)
LEMMA FinishStep ==
  ASSUME IInv, NEW c \in Claims, NEW result \in Results, Finish(c, result),
         result \in Refusals => claim[c].step \notin {"reconcile", "done"}
  PROVE  /\ claim' \in [Claims -> Calls] /\ disturbed' \in [Claims -> Nat]
         /\ \A d \in Claims \ {c} : claim'[d] = claim[d]
         /\ claim'[c].step # "done" => claim'[c].result = "none"
         /\ Calm(claim'[c]) => Calm(claim[c])
<1> DEFINE over == [claim[c] EXCEPT !.step = "done", !.result = result]
<1>1. claim[c] \in Calls
  BY DEF IInv, TypeOK
<1>2. over \in Calls /\ over.step = "done" /\ over.result = result
  BY <1>1 DEF Calls, Steps
<1>3. claim' = [claim EXCEPT ![c] = over] /\ disturbed' \in [Claims -> Nat]
  BY DEF Finish, LeaveRace, IInv, TypeOK
<1>4. claim' \in [Claims -> Calls] /\ claim'[c] = over
  BY <1>2, <1>3 DEF IInv, TypeOK
<1>5. \A d \in Claims \ {c} : claim'[d] = claim[d]
  BY <1>3 DEF IInv, TypeOK
<1> QED
  BY <1>2, <1>3, <1>4, <1>5 DEF Calm

(* What moves it on within claim(). *)
LEMMA GotoStep ==
  ASSUME IInv, NEW c \in Claims, NEW step \in Steps \ {"done"}, Goto(c, step),
         claim[c].step \notin {"reconcile", "done"}
  PROVE  /\ claim' \in [Claims -> Calls] /\ disturbed' \in [Claims -> Nat]
         /\ \A d \in Claims \ {c} : claim'[d] = claim[d]
         /\ claim'[c].step = step /\ claim'[c].result = "none"
         /\ Calm(claim[c])
BY DEF Goto, IInv, TypeOK, CallInv, Calls, Steps, Calm

(* What makes it try again. *)
LEMMA RetryStep ==
  ASSUME IInv, NEW c \in Claims, NEW before \in Nat, Retry(c, before),
         claim[c].step \notin {"reconcile", "done"}
  PROVE  /\ claim' \in [Claims -> Calls] /\ disturbed' \in [Claims -> Nat]
         /\ \A d \in Claims \ {c} : claim'[d] = claim[d]
         /\ claim'[c].step # "done" => claim'[c].result = "none"
         /\ Calm(claim[c])
<1>1. claim[c] \in Calls /\ claim[c].result = "none" /\ Calm(claim[c])
  BY DEF IInv, TypeOK, CallInv, Calm
<1>2. CASE claim[c].attempt < MAX_STALE_RETRIES
  <2>1. claim[c].attempt + 1 \in 0..MAX_STALE_RETRIES
    BY <1>1, <1>2, FaucetAssumption DEF Calls
  <2> QED
    BY <1>1, <1>2, <2>1 DEF Retry, IInv, TypeOK, Calls, Steps
<1>3. CASE ~(claim[c].attempt < MAX_STALE_RETRIES)
  BY <1>1, <1>3 DEF Retry, IInv, TypeOK, Calls, Steps, Results, Refusals
<1> QED
  BY <1>2, <1>3

-----------------------------------------------------------------------------
(* Before it submits, a call only reads, registers and solves. *)
LEMMA ReadingStep ==
  ASSUME IInv, NEW c \in Claims,
         \/ Begin(c) \/ AwaitRegistration(c) \/ Baseline(c)
         \/ ReadChallenge(c) \/ Solve(c) \/ Recheck(c) \/ Rebalance(c)
  PROVE  IInv'
<1> USE FaucetAssumption DEF Results, Refusals, Steps
<1>1. CASE Begin(c)
  BY <1>1, GotoStep, LocalStep DEF Begin, At
<1>2. CASE AwaitRegistration(c)
  BY <1>2, GotoStep, FinishStep, LocalStep DEF AwaitRegistration, At
<1>3. CASE Baseline(c)
  <2>1. balance[Winner(c)] \in Nat
    BY DEF IInv, TypeOK, Calls, Winner
  <2> DEFINE call == [claim[c] EXCEPT !.step = "read", !.expired = FALSE,
                                      !.before = balance[Winner(c)]]
  <2>2. claim[c] \in Calls /\ claim[c].step = "baseline"
    BY <1>3 DEF Baseline, At, IInv, TypeOK
  <2>3. call \in Calls /\ call.step = "read" /\ call.result = "none"
    BY <2>1, <2>2 DEF Calls, IInv, CallInv
  <2>4. /\ claim' = [claim EXCEPT ![c] = call]
        /\ UNCHANGED <<chain, mempool, disturbed>>
    BY <1>3 DEF Baseline, IInv, TypeOK
  <2>5. /\ claim' \in [Claims -> Calls] /\ claim'[c] = call
        /\ disturbed' \in [Claims -> Nat]
        /\ \A d \in Claims \ {c} : claim'[d] = claim[d]
    BY <2>3, <2>4 DEF IInv, TypeOK
  <2> QED
    BY <2>2, <2>3, <2>4, <2>5, LocalStep DEF Calm
<1>4. CASE ReadChallenge(c)
  <2>1. CASE pool < PRIZE
    BY <1>4, <2>1, FinishStep, LocalStep DEF ReadChallenge, At
  <2>2. CASE ~(pool < PRIZE) /\ challenge \in Unsupported
    BY <1>4, <2>2, FinishStep, LocalStep DEF ReadChallenge, At
  <2>3. CASE ~(pool < PRIZE) /\ challenge \notin Unsupported
    <3> DEFINE call == [claim[c] EXCEPT !.step = "solve", !.seen = challenge]
    <3>1. claim[c] \in Calls /\ claim[c].step = "read" /\ challenge \in Nat
      BY <1>4 DEF ReadChallenge, At, IInv, TypeOK
    <3>2. call \in Calls /\ call.step = "solve" /\ call.result = "none"
      BY <3>1 DEF Calls, IInv, CallInv
    <3>3. /\ claim' = [claim EXCEPT ![c] = call]
          /\ UNCHANGED <<chain, mempool, disturbed>>
      BY <1>4, <2>3 DEF ReadChallenge, IInv, TypeOK
    <3>4. /\ claim' \in [Claims -> Calls] /\ claim'[c] = call
          /\ disturbed' \in [Claims -> Nat]
          /\ \A d \in Claims \ {c} : claim'[d] = claim[d]
      BY <3>2, <3>3 DEF IInv, TypeOK
    <3> QED
      BY <3>1, <3>2, <3>3, <3>4, LocalStep DEF Calm
  <2> QED
    BY <2>1, <2>2, <2>3
<1>5. CASE Solve(c)
  BY <1>5, GotoStep, FinishStep, LocalStep DEF Solve, At
<1>6. CASE Recheck(c)
  <2>1. claim[c].before \in Nat
    BY DEF IInv, TypeOK, Calls
  <2> QED
    BY <1>6, <2>1, GotoStep, RetryStep, LocalStep DEF Recheck, At
<1>7. CASE Rebalance(c)
  <2>1. balance[Winner(c)] \in Nat
    BY DEF IInv, TypeOK, Calls, Winner
  <2> QED
    BY <1>7, <2>1, GotoStep, RetryStep, LocalStep DEF Rebalance, At
<1> QED
  BY <1>1, <1>2, <1>3, <1>4, <1>5, <1>6, <1>7

(* An inspection may submit a registration, which pays nobody. *)
LEMMA InspectStep ==
  ASSUME IInv, NEW c \in Claims, Inspect(c)
  PROVE  IInv'
<1> USE FaucetAssumption DEF Results, Refusals, Steps
<1> DEFINE init == [kind |-> "init", account |-> Winner(c)]
<1>1. CASE mempool' = mempool
  BY <1>1, GotoStep, FinishStep, LocalStep DEF Inspect, At
<1>2. CASE mempool' = mempool \cup {init} /\ Goto(c, "registering")
  <2>1. claim[c].step \notin {"reconcile", "done"} /\ UNCHANGED chain
    BY DEF Inspect, At
  <2>2. /\ claim' \in [Claims -> Calls] /\ disturbed' \in [Claims -> Nat]
        /\ \A d \in Claims \ {c} : claim'[d] = claim[d]
        /\ claim'[c].step = "registering" /\ claim'[c].result = "none"
        /\ Calm(claim[c])
    BY <1>2, <2>1, GotoStep
  <2>3. TypeOK'
    BY <1>2, <2>1, <2>2
       DEF IInv, TypeOK, chain, Transactions, Calls, Winner
  <2>4. \A d \in Claims : \A tx : Own(d, tx)' <=> Own(d, tx)
    BY <1>2 DEF Own
  <2>5. ASSUME NEW d \in Claims PROVE CallInv(d)'
    BY <2>1, <2>2, <2>4 DEF IInv, CallInv, Calm, chain
  <2> QED
    BY <2>3, <2>5 DEF IInv
<1> QED
  BY <1>1, <1>2 DEF Inspect

(* A call submits when it was calm: its transaction is the only one.       *)
LEMMA SubmitStep ==
  ASSUME IInv, NEW c \in Claims, Submit(c)
  PROVE  IInv'
<1> DEFINE new == [kind |-> "claim", by |-> c, account |-> Winner(c),
                   solves |-> claim[c].seen]
<1>1. /\ mempool' = mempool \cup {new} /\ UNCHANGED chain
      /\ claim' \in [Claims -> Calls] /\ disturbed' \in [Claims -> Nat]
      /\ \A d \in Claims \ {c} : claim'[d] = claim[d]
      /\ claim'[c].step = "reconcile" /\ claim'[c].result = "none"
      /\ Calm(claim[c])
  BY DEF Submit, LeaveRace, At, Steps, IInv, TypeOK, CallInv, Calls, Calm
<1>2. TypeOK'
  BY <1>1 DEF IInv, TypeOK, chain, Transactions, Calls, Winner
<1>3. \A tx : Own(c, tx)' => tx = new
  BY <1>1 DEF IInv, CallInv, Own
<1>4. CallInv(c)'
  BY <1>1, <1>3 DEF IInv, CallInv, Calm, Refusals, chain
<1>5. ASSUME NEW d \in Claims \ {c} PROVE CallInv(d)'
  <2>1. \A tx : Own(d, tx)' <=> Own(d, tx)
    BY <1>1 DEF Own
  <2> QED
    BY <1>1, <2>1 DEF IInv, CallInv, chain
<1> QED
  BY <1>2, <1>4, <1>5 DEF IInv

(* What ends a reconciliation is no refusal. *)
LEMMA ReconcileStep ==
  ASSUME IInv, NEW c \in Claims, Reconcile(c) \/ RequestFails(c)
  PROVE  IInv'
<1> USE DEF Results, Refusals
<1>1. CASE Reconcile(c)
  BY <1>1, FinishStep, LocalStep DEF Reconcile, At
<1>2. CASE RequestFails(c)
  BY <1>2, FinishStep, LocalStep DEF RequestFails
<1> QED
  BY <1>1, <1>2

(* The deadline passes. *)
LEMMA DeadlineStep ==
  ASSUME IInv, NEW c \in Claims, Deadline(c)
  PROVE  IInv'
<1>1. /\ claim' \in [Claims -> Calls] /\ disturbed' \in [Claims -> Nat]
      /\ \A d \in Claims \ {c} : claim'[d] = claim[d]
      /\ claim'[c].step = claim[c].step /\ claim'[c].result = claim[c].result
  BY DEF Deadline, IInv, TypeOK, Calls
<1> QED
  BY <1>1, LocalStep DEF Deadline, Calm, IInv, CallInv

-----------------------------------------------------------------------------
(* A paid transaction leaves the mempool, so it is paid once. *)
LEMMA IncludeClaimStep ==
  ASSUME IInv, IncludeClaim
  PROVE  IInv'
<1> USE FaucetAssumption
<1>1. PICK tx \in mempool :
        /\ Pays(tx)
        /\ pool' = pool - PRIZE
        /\ balance' = [balance EXCEPT ![tx.account] = @ + PRIZE]
        /\ Disturb(1, {tx.account})
        /\ paid' = [paid EXCEPT ![tx.by] = @ + 1]
        /\ mempool' = mempool \ {tx}
  BY DEF IncludeClaim
<1>2. challenge' = challenge + 1 /\ UNCHANGED <<owner, claim, transfers, received>>
  BY DEF IncludeClaim
<1>3. tx.kind = "claim" /\ tx.by \in Claims /\ tx.account \in Accounts
  BY <1>1 DEF Pays, IInv, TypeOK, Transactions
<1>4. TypeOK'
  <2>1. pool' \in 0..InitialPool /\ challenge' \in 0..MaxRotations
    BY <1>1, <1>2 DEF Pays, IInv, TypeOK
  <2>2. balance' \in [Accounts -> Nat] /\ disturbed' \in [Claims -> Nat]
    BY <1>1, <1>3 DEF Disturb, IInv, TypeOK
  <2>3. paid' \in [Claims -> Nat] /\ mempool' \subseteq Transactions
    BY <1>1, <1>3 DEF IInv, TypeOK
  <2> QED
    BY <1>2, <2>1, <2>2, <2>3 DEF IInv, TypeOK
<1>5. ASSUME NEW c \in Claims PROVE CallInv(c)'
  <2>1. \A ty : Own(c, ty)' => Own(c, ty) /\ ty # tx
    BY <1>1 DEF Own
  <2>2. CASE c = tx.by
    <3>1. Own(c, tx) /\ paid[c] = 0 /\ ~Calm(claim[c])
      BY <1>3, <2>2 DEF Own, IInv, CallInv
    <3>2. paid'[c] = 1 /\ \A ty : ~Own(c, ty)'
      BY <1>1, <2>1, <2>2, <3>1 DEF IInv, CallInv, TypeOK
    <3> QED
      BY <1>2, <3>1, <3>2 DEF IInv, CallInv
  <2>3. CASE c # tx.by
    BY <1>1, <1>2, <2>1, <2>3 DEF IInv, CallInv, TypeOK
  <2> QED
    BY <2>2, <2>3
<1> QED
  BY <1>4, <1>5 DEF IInv

(* Nothing else on the chain pays a call or submits for it. *)
LEMMA ChainStep ==
  ASSUME IInv, IncludeInit \/ Drop \/ OthersClaim \/ OtherTransfer
  PROVE  IInv'
<1> USE FaucetAssumption
<1>1. /\ mempool' \subseteq mempool
      /\ claim' = claim /\ paid' = paid
  BY DEF IncludeInit, Drop, OthersClaim, OtherTransfer, chain
<1>2. TypeOK'
  <2>1. CASE IncludeInit
    BY <2>1 DEF IncludeInit, IInv, TypeOK
  <2>2. CASE Drop
    BY <2>2 DEF Drop, IInv, TypeOK, chain
  <2>3. CASE OthersClaim
    BY <2>3 DEF OthersClaim, Disturb, IInv, TypeOK
  <2>4. CASE OtherTransfer
    <3>1. PICK a \in Accounts, n \in Amounts :
            /\ \/ /\ balance' = [balance EXCEPT ![a] = @ + n]
                  /\ received' = [received EXCEPT ![a] = @ + n]
               \/ /\ balance[a] >= n
                  /\ balance' = [balance EXCEPT ![a] = @ - n]
                  /\ UNCHANGED received
            /\ Disturb(0, {a})
      BY <2>4 DEF OtherTransfer
    <3>2. balance' \in [Accounts -> Nat] /\ disturbed' \in [Claims -> Nat]
      BY <3>1 DEF Disturb, IInv, TypeOK
    <3>3. received' \in [Accounts -> Nat]
      BY <3>1 DEF IInv, TypeOK
    <3> QED
      BY <2>4, <3>2, <3>3 DEF OtherTransfer, IInv, TypeOK
  <2> QED
    BY <2>1, <2>2, <2>3, <2>4
<1>3. ASSUME NEW c \in Claims PROVE CallInv(c)'
  <2>1. \A tx : Own(c, tx)' => Own(c, tx)
    BY <1>1 DEF Own
  <2> QED
    BY <1>1, <2>1 DEF IInv, CallInv
<1> QED
  BY <1>2, <1>3 DEF IInv

(* A step that changes nothing keeps the invariant. *)
LEMMA StutterStep == IInv /\ UNCHANGED vars => IInv'
BY DEF vars, IInv, TypeOK, CallInv, Own

(* Every step keeps the invariant. *)
LEMMA NextIInv == IInv /\ [Next]_vars => IInv'
BY ReadingStep, InspectStep, SubmitStep, ReconcileStep, DeadlineStep,
   IncludeClaimStep, ChainStep, StutterStep DEF Next, Step

(* The invariant holds throughout every behaviour. *)
LEMMA Invariance == Spec => []IInv
BY InitIInv, NextIInv, PTL DEF Spec

-----------------------------------------------------------------------------
(* Balances, retries and the locals of a call stay within their types.     *)
THEOREM TypeCorrect == Spec => []TypeOK
<1>1. IInv => TypeOK
  BY DEF IInv
<1> QED
  BY <1>1, Invariance, PTL

(* One call of claim() is paid one drop at most, however often the         *)
(* challenge rotates under it and whatever is lost or delayed.             *)
THEOREM PaidOnce == Spec => []OneDropPerClaim
<1>1. IInv => OneDropPerClaim
  BY DEF IInv, CallInv, OneDropPerClaim
<1> QED
  BY <1>1, Invariance, PTL

(* A call that was refused was paid nothing and has nothing in flight: the *)
(* user may call again.                                                    *)
THEOREM RefusedMeansUnpaid == Spec => []RefusalsAreFinal
<1>1. IInv => RefusalsAreFinal
  BY DEF IInv, CallInv, Calm, Own, RefusalsAreFinal
<1> QED
  BY <1>1, Invariance, PTL

-----------------------------------------------------------------------------
(* What a call's end says of the chain. *)

LocalAct(c) == Begin(c) \/ Step(c) \/ RequestFails(c) \/ Deadline(c)

ChainAct == IncludeClaim \/ IncludeInit \/ Drop \/ OthersClaim \/ OtherTransfer

LEMMA LocalMoves ==
  ASSUME IInv, NEW c \in Claims, LocalAct(c)
  PROVE  /\ UNCHANGED chain
         /\ \A d \in Claims :
              d # c => claim'[d] = claim[d] /\ disturbed'[d] = disturbed[d]
         /\ \A d \in Claims : claim'[d].winner = claim[d].winner
         /\ \A tx \in mempool' : tx.kind = "claim" =>
              tx \in mempool \/ (tx.by = c /\ tx.account = Winner(c))
<1>1. claim \in [Claims -> Calls] /\ claim[c] \in Calls
  BY DEF IInv, TypeOK
<1>2. claim'[c].winner = claim[c].winner
  <2>1. ASSUME NEW step \in Steps, Goto(c, step)
        PROVE  claim'[c].winner = claim[c].winner
    BY <1>1, <2>1 DEF Goto, Calls
  <2>2. ASSUME NEW result \in Results, Finish(c, result)
        PROVE  claim'[c].winner = claim[c].winner
    BY <1>1, <2>2 DEF Finish, Calls
  <2>3. ASSUME NEW before \in Nat, Retry(c, before)
        PROVE  claim'[c].winner = claim[c].winner
    BY <1>1, <2>3 DEF Retry, Calls
  <2>4. balance[Winner(c)] \in Nat /\ claim[c].before \in Nat
    BY <1>1 DEF IInv, TypeOK, Calls, Winner
  <2> USE DEF Steps, Results, Refusals
  <2>5. CASE Begin(c) \/ Inspect(c) \/ AwaitRegistration(c) \/ Solve(c)
    BY <2>1, <2>2, <2>5 DEF Begin, Inspect, AwaitRegistration, Solve
  <2>6. CASE Recheck(c) \/ Rebalance(c)
    BY <2>1, <2>3, <2>4, <2>6 DEF Recheck, Rebalance
  <2>7. CASE Submit(c) \/ Reconcile(c) \/ RequestFails(c)
    BY <1>1, <2>2, <2>7 DEF Submit, Reconcile, RequestFails, Calls
  <2>8. CASE Baseline(c)
    BY <1>1, <2>8 DEF Baseline, Calls
  <2>9. CASE ReadChallenge(c)
    <3>1. CASE pool < PRIZE \/ challenge \in Unsupported
      BY <2>2, <2>9, <3>1 DEF ReadChallenge
    <3>2. CASE ~ (pool < PRIZE \/ challenge \in Unsupported)
      BY <1>1, <2>9, <3>2 DEF ReadChallenge, Calls
    <3> QED
      BY <3>1, <3>2
  <2>10. CASE Deadline(c)
    BY <1>1, <2>10 DEF Deadline, Calls
  <2> QED
    BY <2>5, <2>6, <2>7, <2>8, <2>9, <2>10 DEF LocalAct, Step
<1>3. \A d \in Claims :
        d # c => claim'[d] = claim[d] /\ disturbed'[d] = disturbed[d]
  <2> disturbed \in [Claims -> Nat]
    BY DEF IInv, TypeOK
  <2> USE DEF LeaveRace
  <2>1. CASE Recheck(c) \/ Rebalance(c)
    BY <1>1, <2>1 DEF Recheck, Rebalance, Retry, Goto
  <2>2. CASE ReadChallenge(c) \/ Baseline(c) \/ Deadline(c)
    BY <1>1, <2>2 DEF ReadChallenge, Baseline, Deadline, Finish
  <2>3. CASE Begin(c) \/ Inspect(c) \/ AwaitRegistration(c) \/ Solve(c)
             \/ Submit(c) \/ Reconcile(c) \/ RequestFails(c)
    BY <1>1, <2>3 DEF Begin, Inspect, AwaitRegistration, Solve, Submit,
       Reconcile, RequestFails, Goto, Finish
  <2> QED
    BY <2>1, <2>2, <2>3 DEF LocalAct, Step
<1>4. UNCHANGED chain
  BY DEF LocalAct, Step, Begin, Inspect, AwaitRegistration, Baseline,
     ReadChallenge, Solve, Recheck, Rebalance, Submit, Reconcile,
     RequestFails, Deadline
<1>5. \A tx \in mempool' : tx.kind = "claim" =>
        tx \in mempool \/ (tx.by = c /\ tx.account = Winner(c))
  BY DEF LocalAct, Step, Begin, Inspect, AwaitRegistration, Baseline,
     ReadChallenge, Solve, Recheck, Rebalance, Submit, Reconcile,
     RequestFails, Deadline
<1> QED
  BY <1>2, <1>3, <1>4, <1>5

(* The chain moves one way, but for the balances; a balance grows by a     *)
(* drop to the payer or by what is received.                               *)
LEMMA ChainMoves ==
  ASSUME IInv, ChainAct
  PROVE  /\ claim' = claim /\ mempool' \subseteq mempool
         /\ pool' <= pool /\ challenge <= challenge'
         /\ \A a \in Accounts :
              /\ received[a] <= received'[a]
              /\ balance'[a] <= balance[a] + (received'[a] - received[a])
                 \/ \E tx \in mempool : /\ tx.kind = "claim" /\ tx.account = a
                                       /\ paid'[tx.by] = paid[tx.by] + 1
         /\ \A c \in Claims : paid[c] <= paid'[c]
<1> USE FaucetAssumption DEF IInv, TypeOK
<1>1. CASE IncludeClaim
  <2>1. PICK tx \in mempool :
          /\ Pays(tx)
          /\ pool' = pool - PRIZE
          /\ balance' = [balance EXCEPT ![tx.account] = @ + PRIZE]
          /\ paid' = [paid EXCEPT ![tx.by] = @ + 1]
          /\ mempool' = mempool \ {tx}
    BY <1>1 DEF IncludeClaim
  <2>2. /\ challenge' = challenge + 1 /\ claim' = claim /\ received' = received
        /\ tx.kind = "claim" /\ tx.account \in Accounts /\ tx.by \in Claims
    BY <1>1, <2>1 DEF IncludeClaim, Pays, Transactions
  <2>3. pool' <= pool /\ challenge <= challenge'
    BY <2>1, <2>2
  <2>4. /\ paid'[tx.by] = paid[tx.by] + 1
        /\ \A c \in Claims : paid[c] <= paid'[c]
    BY <2>1, <2>2
  <2>5. ASSUME NEW a \in Accounts, a # tx.account
        PROVE  balance'[a] = balance[a]
    BY <2>1, <2>5
  <2> QED
    BY <2>1, <2>2, <2>3, <2>4, <2>5
<1>2. CASE IncludeInit \/ Drop \/ OthersClaim
  BY <1>2 DEF IncludeInit, Drop, OthersClaim, chain
<1>3. CASE OtherTransfer
  <2>1. PICK b \in Accounts, n \in Amounts :
          \/ /\ balance' = [balance EXCEPT ![b] = @ + n]
             /\ received' = [received EXCEPT ![b] = @ + n]
          \/ /\ balance[b] >= n
             /\ balance' = [balance EXCEPT ![b] = @ - n]
             /\ UNCHANGED received
    BY <1>3 DEF OtherTransfer
  <2>2. /\ claim' = claim /\ mempool' = mempool /\ pool' = pool
        /\ challenge' = challenge /\ paid' = paid
    BY <1>3 DEF OtherTransfer
  <2>3. n \in Nat /\ n > 0
    OBVIOUS
  <2>4. ASSUME NEW a \in Accounts, a # b
        PROVE  balance'[a] = balance[a] /\ received'[a] = received[a]
    BY <2>1, <2>4
  <2>5. /\ received[b] <= received'[b]
        /\ balance'[b] <= balance[b] + (received'[b] - received[b])
    BY <2>1, <2>3
  <2> QED
    BY <2>2, <2>4, <2>5
<1> QED
  BY <1>1, <1>2, <1>3 DEF ChainAct

(* Drops go to the account of the call, and a balance that no drop was     *)
(* paid to is what was received, or less.                                  *)
Dry(a) == \A d \in Claims : Winner(d) = a => paid[d] = 0

DropsInv ==
  /\ \A tx \in mempool : tx.kind = "claim" => tx.account = Winner(tx.by)
  /\ \A a \in Accounts : Dry(a) => balance[a] <= received[a]

PaidInv == IInv /\ DropsInv /\ OkMeansPaid

LEMMA ActStep == ASSUME IInv, ChainAct \/ \E c \in Claims : LocalAct(c) PROVE IInv'
BY NextIInv DEF ChainAct, LocalAct, Next

(* A call reports success when its account holds a drop more. *)
LEMMA OkStep ==
  ASSUME PaidInv, NEW c \in Claims, LocalAct(c), claim'[c].result = "ok"
  PROVE  \/ \E d \in Claims : Winner(d) = Winner(c) /\ paid[d] = 1
         \/ received[Winner(c)] >= PRIZE
<1> USE FaucetAssumption DEF PaidInv, IInv
<1>1. claim \in [Claims -> Calls] /\ claim[c] \in Calls /\ Winner(c) \in Accounts
  BY DEF TypeOK, Calls, Winner
<1>2. claim[c].step # "done" /\ claim[c].result = "none"
  <2>1. claim[c].step # "done"
    BY DEF LocalAct, Step, Begin, Inspect, AwaitRegistration, Baseline,
       ReadChallenge, Solve, Recheck, Rebalance, Submit, Reconcile,
       RequestFails, Deadline, At
  <2> QED
    BY <2>1 DEF CallInv
<1>3. ASSUME NEW step \in Steps, Goto(c, step) PROVE FALSE
  BY <1>1, <1>2, <1>3 DEF Goto, Calls
<1>4. ASSUME NEW result \in Results, Finish(c, result) PROVE result = "ok"
  BY <1>1, <1>4 DEF Finish, Calls
<1>5. ASSUME NEW before \in Nat, Retry(c, before) PROVE FALSE
  BY <1>1, <1>2, <1>5 DEF Retry, Calls
<1>6. balance[Winner(c)] = claim[c].before + PRIZE
  <2> USE DEF Steps, Results, Refusals
  <2>1. CASE Begin(c) \/ Inspect(c) \/ AwaitRegistration(c) \/ Solve(c)
             \/ RequestFails(c)
    BY <1>3, <1>4, <2>1 DEF Begin, Inspect, AwaitRegistration, Solve,
       RequestFails
  <2>2. CASE Recheck(c) \/ Rebalance(c)
    <3>1. balance[Winner(c)] \in Nat /\ claim[c].before \in Nat
      BY <1>1 DEF TypeOK, Calls
    <3> QED
      BY <1>3, <1>5, <2>2, <3>1 DEF Recheck, Rebalance
  <2>3. CASE Baseline(c) \/ Submit(c) \/ Deadline(c)
    BY <1>1, <1>2, <2>3 DEF Baseline, Submit, Deadline, Calls
  <2>4. CASE ReadChallenge(c)
    <3>1. CASE pool < PRIZE \/ challenge \in Unsupported
      BY <1>4, <2>4, <3>1 DEF ReadChallenge
    <3>2. CASE ~ (pool < PRIZE \/ challenge \in Unsupported)
      BY <1>1, <1>2, <2>4, <3>2 DEF ReadChallenge, Calls
    <3> QED
      BY <3>1, <3>2
  <2>5. CASE Reconcile(c)
    BY <1>4, <2>5 DEF Reconcile
  <2> QED
    BY <2>1, <2>2, <2>3, <2>4, <2>5 DEF LocalAct, Step
<1>7. CASE Dry(Winner(c))
  <2>1. balance[Winner(c)] <= received[Winner(c)]
    BY <1>1, <1>7 DEF DropsInv
  <2>2. /\ balance[Winner(c)] \in Nat /\ received[Winner(c)] \in Nat
        /\ claim[c].before \in Nat
    BY <1>1 DEF TypeOK, Calls
  <2> QED
    BY <1>6, <2>1, <2>2
<1>8. CASE ~ Dry(Winner(c))
  BY <1>8 DEF Dry, CallInv, TypeOK
<1> QED
  BY <1>7, <1>8

LEMMA PaidStep ==
  ASSUME PaidInv, ChainAct \/ \E c \in Claims : LocalAct(c)
  PROVE  PaidInv'
<1>1. IInv'
  BY ActStep DEF PaidInv
<1>2. ASSUME NEW c \in Claims, LocalAct(c)
      PROVE  DropsInv' /\ OkMeansPaid'
  <2>1. /\ UNCHANGED chain
        /\ \A d \in Claims : d # c => claim'[d] = claim[d]
        /\ \A d \in Claims : Winner(d)' = Winner(d)
        /\ \A tx \in mempool' : tx.kind = "claim" =>
             tx \in mempool \/ (tx.by = c /\ tx.account = Winner(c))
    BY <1>2, LocalMoves DEF PaidInv, Winner
  <2>2. \A tx \in mempool' : tx.kind = "claim" => tx.by \in Claims
    BY <1>1 DEF IInv, TypeOK, Transactions
  <2>3. DropsInv'
    BY <2>1, <2>2 DEF PaidInv, DropsInv, Dry, chain
  <2>4. ASSUME NEW d \in Claims, claim'[d].result = "ok"
        PROVE  \/ \E e \in Claims : Winner(e) = Winner(d) /\ paid[e] = 1
               \/ received[Winner(d)] >= PRIZE
    <3>1. CASE d = c
      BY <1>2, <2>4, <3>1, OkStep
    <3>2. CASE d # c
      BY <2>1, <2>4, <3>2 DEF PaidInv, OkMeansPaid
    <3> QED
      BY <3>1, <3>2
  <2>5. OkMeansPaid'
    BY <2>1, <2>4 DEF OkMeansPaid, chain
  <2> QED
    BY <2>3, <2>5
<1>3. ASSUME ChainAct
      PROVE  DropsInv' /\ OkMeansPaid'
  <2>1. /\ claim' = claim /\ mempool' \subseteq mempool
        /\ \A a \in Accounts :
             /\ received[a] <= received'[a]
             /\ balance'[a] <= balance[a] + (received'[a] - received[a])
                \/ \E tx \in mempool : /\ tx.kind = "claim" /\ tx.account = a
                                      /\ paid'[tx.by] = paid[tx.by] + 1
        /\ \A c \in Claims : paid[c] <= paid'[c]
    BY <1>3, ChainMoves DEF PaidInv
  <2>2. /\ \A a \in Accounts : /\ received[a] \in Nat /\ received'[a] \in Nat
                               /\ balance[a] \in Nat /\ balance'[a] \in Nat
        /\ \A c \in Claims : /\ paid[c] \in Nat /\ paid'[c] \in Nat
                             /\ paid'[c] <= 1 /\ Winner(c) \in Accounts
        /\ \A tx \in mempool : tx.kind = "claim" => tx.by \in Claims
    BY <1>1 DEF PaidInv, IInv, TypeOK, Transactions, CallInv, Calls, Winner
  <2>3. ASSUME NEW a \in Accounts, Dry(a)'
        PROVE  balance'[a] <= received'[a]
    <3>1. \A d \in Claims : Winner(d) = a => paid[d] = 0 /\ paid'[d] = 0
      BY <2>1, <2>2, <2>3 DEF Dry, Winner
    <3>2. balance[a] <= received[a]
      BY <3>1 DEF PaidInv, DropsInv, Dry
    <3>3. ~ \E tx \in mempool : /\ tx.kind = "claim" /\ tx.account = a
                               /\ paid'[tx.by] = paid[tx.by] + 1
      BY <2>2, <3>1 DEF PaidInv, DropsInv
    <3> QED
      BY <2>1, <2>2, <3>2, <3>3
  <2>4. DropsInv'
    BY <2>1, <2>3 DEF PaidInv, DropsInv, Winner
  <2>5. ASSUME NEW c \in Claims, claim[c].result = "ok"
        PROVE  \/ \E d \in Claims : Winner(d) = Winner(c) /\ paid'[d] = 1
               \/ received'[Winner(c)] >= PRIZE
    <3>1. CASE \E d \in Claims : Winner(d) = Winner(c) /\ paid[d] = 1
      BY <2>1, <2>2, <3>1
    <3>2. CASE received[Winner(c)] >= PRIZE
      BY <2>1, <2>2, <3>2, FaucetAssumption
    <3> QED
      BY <2>5, <3>1, <3>2 DEF PaidInv, OkMeansPaid
  <2>6. OkMeansPaid'
    BY <2>1, <2>5 DEF OkMeansPaid, Winner
  <2> QED
    BY <2>4, <2>6
<1> QED
  BY <1>1, <1>2, <1>3 DEF PaidInv

LEMMA PaidInvariance == Spec => []PaidInv
<1>1. Init => PaidInv
  <2> SUFFICES ASSUME Init PROVE PaidInv
    OBVIOUS
  <2>1. ASSUME NEW c \in Claims PROVE claim[c].result = "none"
    <3>1. PICK a \in Accounts : claim[c] = Uncalled(a)
      BY DEF Init
    <3> QED
      BY <3>1 DEF Uncalled
  <2>2. DropsInv
    BY DEF Init, DropsInv
  <2> QED
    BY <2>1, <2>2, InitIInv DEF PaidInv, OkMeansPaid
<1>2. PaidInv /\ [Next]_vars => PaidInv'
  <2> SUFFICES ASSUME PaidInv, [Next]_vars PROVE PaidInv'
    OBVIOUS
  <2>1. CASE Next
    BY <2>1, PaidStep DEF Next, ChainAct, LocalAct
  <2>2. CASE UNCHANGED vars
    BY <2>2, StutterStep
       DEF vars, PaidInv, DropsInv, OkMeansPaid, Dry, Winner
  <2> QED
    BY <2>1, <2>2
<1> QED
  BY <1>1, <1>2, PTL DEF Spec

(* What a call in the race will still retry for: a challenge that is no    *)
(* longer the one it solves, a balance that is no longer the one it knows. *)
Stale(c) == IF ~At(c, "read") /\ claim[c].seen # challenge THEN 1 ELSE 0
Moved(c) == IF balance[Winner(c)] # claim[c].before THEN 1 ELSE 0

(* The attempts made and what is still to be noticed were each paid for by *)
(* a disturbance; a pool that has run dry since it was read has run dry    *)
(* by a rotation.                                                          *)
RaceInv(c) ==
  /\ claim[c].step \in {"idle", "inspect", "registering", "baseline"}
       => claim[c].attempt = 0
  /\ InRace(c) /\ ~At(c, "read") =>
       claim[c].seen <= challenge /\ (pool < PRIZE => claim[c].seen # challenge)
  /\ InRace(c) => claim[c].attempt + Stale(c) + Moved(c) <= disturbed[c]

RotatingInv == IInv /\ (\A c \in Claims : RaceInv(c)) /\ GivesUpOnlyWhenDisturbed

Patient(c) == claim[c].result = "rotating" => disturbed[c] > MAX_STALE_RETRIES

(* A retry consumes what it has noticed.                                   *)
LEMMA RetryLost ==
  ASSUME RotatingInv, NEW c \in Claims, UNCHANGED chain,
         claim[c].step \in {"recheck", "rebalance"},
         NEW before \in Nat, Retry(c, before),
         claim[c].attempt + 1 +
           (IF balance[Winner(c)] # before THEN 1 ELSE 0) <= disturbed[c]
  PROVE  RaceInv(c)' /\ Patient(c)'
<1> USE FaucetAssumption
<1>1. /\ claim \in [Claims -> Calls] /\ claim[c] \in Calls /\ Winner(c) \in Accounts
      /\ disturbed[c] \in Nat /\ claim[c].attempt \in Nat
  BY DEF RotatingInv, IInv, TypeOK, Calls, Winner
<1>2. disturbed' = disturbed
  BY DEF Retry
<1>3. CASE claim[c].attempt < MAX_STALE_RETRIES
  <2>1. /\ claim'[c].step = "read" /\ claim'[c].before = before
        /\ claim'[c].attempt = claim[c].attempt + 1
        /\ claim'[c].winner = claim[c].winner
        /\ claim'[c].result = claim[c].result
    BY <1>1, <1>3 DEF Retry, Calls
  <2>2. claim[c].result = "none"
    BY DEF RotatingInv, IInv, CallInv
  <2>3. Stale(c)' = 0 /\ Moved(c)' = IF balance[Winner(c)] # before THEN 1 ELSE 0
    BY <2>1 DEF Stale, Moved, At, Winner, chain
  <2>4. claim'[c].attempt + Stale(c)' + Moved(c)' <= disturbed'[c]
    BY <1>1, <1>2, <2>1, <2>3
  <2> QED
    BY <2>1, <2>2, <2>4 DEF RaceInv, InRace, At, Patient
<1>4. CASE ~ (claim[c].attempt < MAX_STALE_RETRIES)
  <2>1. claim'[c].step = "done"
    BY <1>1, <1>4 DEF Retry, Calls
  <2>2. disturbed[c] > MAX_STALE_RETRIES
    BY <1>1, <1>4
  <2> QED
    BY <1>2, <2>1, <2>2 DEF RaceInv, InRace, At, Patient
<1> QED
  BY <1>3, <1>4

LEMMA RaceOfAct ==
  ASSUME RotatingInv, NEW c \in Claims, LocalAct(c)
  PROVE  RaceInv(c)' /\ Patient(c)'
<1> USE FaucetAssumption
<1>1. claim \in [Claims -> Calls] /\ claim[c] \in Calls /\ Winner(c) \in Accounts
  BY DEF RotatingInv, IInv, TypeOK, Calls, Winner
<1>2. /\ balance[Winner(c)] \in Nat /\ challenge \in Nat /\ pool \in Nat
      /\ claim[c].before \in Nat /\ claim[c].attempt \in Nat
      /\ claim[c].seen \in Nat /\ disturbed[c] \in Nat
  BY <1>1 DEF RotatingInv, IInv, TypeOK, Calls
<1>3. UNCHANGED chain
  BY LocalMoves DEF RotatingInv
<1>4. claim[c].step # "done" /\ claim[c].result = "none"
  <2>1. claim[c].step # "done"
    BY DEF LocalAct, Step, Begin, Inspect, AwaitRegistration, Baseline,
       ReadChallenge, Solve, Recheck, Rebalance, Submit, Reconcile,
       RequestFails, Deadline, At
  <2> QED
    BY <2>1 DEF RotatingInv, IInv, CallInv
<1>5. ASSUME NEW step \in Steps, Goto(c, step)
      PROVE  claim'[c] = [claim[c] EXCEPT !.step = step] /\ disturbed' = disturbed
  BY <1>1, <1>5 DEF Goto, Calls
<1>6. ASSUME NEW result \in Results \ {"rotating"}, Finish(c, result)
      PROVE  RaceInv(c)' /\ Patient(c)'
  BY <1>1, <1>6 DEF Finish, Calls, RaceInv, InRace, At, Patient
<1>7. CASE Begin(c) \/ Inspect(c) \/ AwaitRegistration(c)
  <2>1. CASE \E result \in Results \ {"rotating"} : Finish(c, result)
    BY <1>6, <2>1
  <2>2. CASE \E step \in {"inspect", "registering", "baseline"} : Goto(c, step)
    <3>1. /\ claim'[c].step \in {"inspect", "registering", "baseline"}
          /\ claim'[c].attempt = claim[c].attempt
          /\ claim'[c].result = "none"
      BY <1>1, <1>4, <1>5, <2>2 DEF Calls, Steps
    <3>2. claim[c].attempt = 0
      BY <1>7 DEF Begin, Inspect, AwaitRegistration, At, RotatingInv, RaceInv
    <3> QED
      BY <3>1, <3>2 DEF RaceInv, InRace, At, Patient
  <2> QED
    BY <1>7, <2>1, <2>2
       DEF Begin, Inspect, AwaitRegistration, Results, Refusals
<1>8. CASE Baseline(c)
  <2>1. /\ claim'[c].step = "read" /\ claim'[c].before = balance[Winner(c)]
        /\ claim'[c].attempt = claim[c].attempt /\ disturbed' = disturbed
        /\ claim'[c].winner = claim[c].winner /\ claim'[c].result = "none"
    BY <1>1, <1>4, <1>8 DEF Baseline, Calls
  <2>2. claim[c].attempt = 0
    BY <1>8 DEF Baseline, At, RotatingInv, RaceInv
  <2>3. Stale(c)' = 0 /\ Moved(c)' = 0
    BY <1>3, <2>1 DEF Stale, Moved, At, Winner, chain
  <2>4. claim'[c].attempt + Stale(c)' + Moved(c)' <= disturbed'[c]
    BY <1>2, <2>1, <2>2, <2>3
  <2> QED
    BY <2>1, <2>4 DEF RaceInv, InRace, At, Patient
<1>9. CASE ReadChallenge(c)
  <2>1. CASE pool < PRIZE \/ challenge \in Unsupported
    BY <1>6, <1>9, <2>1 DEF ReadChallenge, Results, Refusals
  <2>2. CASE ~ (pool < PRIZE \/ challenge \in Unsupported)
    <3>1. /\ claim'[c].step = "solve" /\ claim'[c].seen = challenge
          /\ claim'[c].attempt = claim[c].attempt /\ disturbed' = disturbed
          /\ claim'[c].before = claim[c].before
          /\ claim'[c].winner = claim[c].winner /\ claim'[c].result = "none"
      BY <1>1, <1>4, <1>9, <2>2 DEF ReadChallenge, Calls
    <3>2. Stale(c) = 0 /\ claim[c].attempt + Stale(c) + Moved(c) <= disturbed[c]
      BY <1>9 DEF ReadChallenge, At, InRace, RotatingInv, RaceInv, Stale
    <3>3. Stale(c)' = 0 /\ Moved(c)' = Moved(c)
      BY <1>3, <3>1 DEF Stale, Moved, At, Winner, chain
    <3>4. claim'[c].attempt + Stale(c)' + Moved(c)' <= disturbed'[c]
      BY <3>1, <3>2, <3>3
    <3>5. claim'[c].seen <= challenge' /\ (pool' < PRIZE => claim'[c].seen # challenge')
      BY <1>2, <1>3, <2>2, <3>1 DEF chain
    <3> QED
      BY <3>1, <3>4, <3>5 DEF RaceInv, InRace, At, Patient
  <2> QED
    BY <2>1, <2>2
<1>10. ASSUME InRace(c), ~At(c, "read"), claim'[c].step \in {"solve", "recheck", "rebalance"},
              claim'[c].attempt = claim[c].attempt, claim'[c].seen = claim[c].seen,
              claim'[c].before = claim[c].before, claim'[c].winner = claim[c].winner,
              claim'[c].result = "none", disturbed' = disturbed
       PROVE  RaceInv(c)' /\ Patient(c)'
  <2>1. Stale(c)' = Stale(c) /\ Moved(c)' = Moved(c)
    BY <1>3, <1>10 DEF Stale, Moved, At, Winner, chain
  <2>2. RaceInv(c)
    BY DEF RotatingInv
  <2> QED
    BY <1>3, <1>10, <2>1, <2>2 DEF RaceInv, InRace, At, chain, Patient
<1>11. ASSUME InRace(c), ~At(c, "read"), NEW step \in {"recheck", "rebalance"}, Goto(c, step)
       PROVE  RaceInv(c)' /\ Patient(c)'
  <2>1. /\ claim'[c].step = step /\ claim'[c].attempt = claim[c].attempt
        /\ claim'[c].seen = claim[c].seen /\ claim'[c].before = claim[c].before
        /\ claim'[c].winner = claim[c].winner /\ claim'[c].result = "none"
        /\ disturbed' = disturbed
    BY <1>1, <1>4, <1>5, <1>11 DEF Calls, Steps
  <2> QED
    BY <1>10, <1>11, <2>1
<1>12. CASE Solve(c)
  BY <1>6, <1>11, <1>12 DEF Solve, InRace, At, Results, Refusals
<1>13. CASE Recheck(c)
  <2>1. /\ claim[c].step = "recheck"
        /\ pool < PRIZE => claim[c].seen # challenge
        /\ claim[c].attempt + Stale(c) + Moved(c) <= disturbed[c]
    BY <1>13 DEF Recheck, At, InRace, RotatingInv, RaceInv
  <2>2. CASE Goto(c, "rebalance")
    BY <1>11, <2>1, <2>2 DEF InRace, At
  <2>3. CASE Retry(c, claim[c].before) /\ (challenge # claim[c].seen \/ pool < PRIZE)
    <3>1. Stale(c) = 1
      BY <2>1, <2>3 DEF Stale, At
    <3>2. claim[c].attempt + 1 +
            (IF balance[Winner(c)] # claim[c].before THEN 1 ELSE 0) <= disturbed[c]
      BY <2>1, <3>1 DEF Moved
    <3> QED
      BY <1>2, <1>3, <2>1, <2>3, <3>2, RetryLost
  <2> QED
    BY <1>13, <2>2, <2>3 DEF Recheck
<1>14. CASE Rebalance(c)
  <2>1. /\ claim[c].step = "rebalance"
        /\ claim[c].attempt + Stale(c) + Moved(c) <= disturbed[c]
    BY <1>14 DEF Rebalance, At, InRace, RotatingInv, RaceInv
  <2>2. CASE balance[Winner(c)] = claim[c].before
    <3>1. Goto(c, "submit")
      BY <1>14, <2>2 DEF Rebalance
    <3>2. claim'[c].step = "submit" /\ claim'[c].result = "none"
      BY <1>1, <1>4, <1>5, <3>1 DEF Calls, Steps
    <3> QED
      BY <3>2 DEF RaceInv, InRace, At, Patient
  <2>3. CASE balance[Winner(c)] # claim[c].before
    <3>1. Retry(c, balance[Winner(c)])
      BY <1>14, <2>3 DEF Rebalance
    <3>2. Moved(c) = 1 /\ Stale(c) \in Nat
      BY <2>3 DEF Moved, Stale
    <3>3. claim[c].attempt + 1 +
            (IF balance[Winner(c)] # balance[Winner(c)] THEN 1 ELSE 0) <= disturbed[c]
      BY <1>2, <2>1, <3>2
    <3> QED
      BY <1>2, <1>3, <2>1, <3>1, <3>3, RetryLost
  <2> QED
    BY <2>2, <2>3
<1>15. CASE Submit(c)
  <2>1. claim'[c].step = "reconcile" /\ claim'[c].result = "none"
    BY <1>1, <1>4, <1>15 DEF Submit, Calls
  <2> QED
    BY <2>1 DEF RaceInv, InRace, At, Patient
<1>16. CASE Reconcile(c) \/ RequestFails(c)
  BY <1>6, <1>16 DEF Reconcile, RequestFails, Results, Refusals
<1>17. CASE Deadline(c)
  <2>1. /\ claim'[c].step = claim[c].step
        /\ claim'[c].attempt = claim[c].attempt /\ disturbed' = disturbed
        /\ claim'[c].seen = claim[c].seen /\ claim'[c].before = claim[c].before
        /\ claim'[c].winner = claim[c].winner /\ claim'[c].result = "none"
    BY <1>1, <1>4, <1>17 DEF Deadline, Calls
  <2>2. RaceInv(c)
    BY DEF RotatingInv
  <2>3. Stale(c)' = Stale(c) /\ Moved(c)' = Moved(c)
    BY <1>3, <2>1 DEF Stale, Moved, At, Winner, chain
  <2> QED
    BY <1>3, <2>1, <2>2, <2>3 DEF RaceInv, InRace, At, chain, Patient
<1> QED
  BY <1>7, <1>8, <1>9, <1>12, <1>13, <1>14, <1>15, <1>16, <1>17
     DEF LocalAct, Step

(* What happens on the chain disturbs the calls in the race, once for a    *)
(* rotation and once for a move of their winner's balance, and no others.  *)
Rotation == IF challenge' # challenge THEN 1 ELSE 0
MoveOf(c) == IF balance'[Winner(c)] # balance[Winner(c)] THEN 1 ELSE 0

LEMMA ChainDisturbs ==
  ASSUME IInv, ChainAct
  PROVE  /\ pool' # pool => challenge' = challenge + 1
         /\ \A c \in Claims :
              IF InRace(c) THEN disturbed[c] + Rotation + MoveOf(c) <= disturbed'[c]
                           ELSE disturbed'[c] = disturbed[c]
<1> USE FaucetAssumption DEF IInv, TypeOK
<1>1. \A c \in Claims : Winner(c) \in Accounts /\ disturbed[c] \in Nat
  BY DEF Calls, Winner
<1>2. CASE IncludeClaim
  <2>1. PICK tx \in mempool :
          /\ balance' = [balance EXCEPT ![tx.account] = @ + PRIZE]
          /\ Disturb(1, {tx.account})
    BY <1>2 DEF IncludeClaim
  <2>2. challenge' = challenge + 1
    BY <1>2 DEF IncludeClaim
  <2>3. ASSUME NEW c \in Claims
        PROVE  /\ Winner(c) # tx.account => MoveOf(c) = 0
               /\ MoveOf(c) \in {0, 1} /\ Rotation \in {0, 1}
    BY <1>1, <2>1 DEF MoveOf, Rotation
  <2> QED
    BY <1>1, <2>1, <2>2, <2>3 DEF Disturb
<1>3. CASE IncludeInit \/ Drop
  BY <1>1, <1>3 DEF IncludeInit, Drop, chain, Rotation, MoveOf
<1>4. CASE OthersClaim
  <2>1. challenge' = challenge + 1 /\ balance' = balance /\ Disturb(1, {})
    BY <1>4 DEF OthersClaim
  <2>2. \A c \in Claims : MoveOf(c) = 0 /\ Rotation \in {0, 1}
    BY <2>1 DEF MoveOf, Rotation
  <2> QED
    BY <1>1, <2>1, <2>2 DEF Disturb
<1>5. CASE OtherTransfer
  <2>1. PICK a \in Accounts, n \in Amounts :
          /\ \/ balance' = [balance EXCEPT ![a] = @ + n]
             \/ balance' = [balance EXCEPT ![a] = @ - n]
          /\ Disturb(0, {a})
    BY <1>5 DEF OtherTransfer
  <2>2. challenge' = challenge /\ pool' = pool /\ Rotation = 0
    BY <1>5 DEF OtherTransfer, Rotation
  <2>3. ASSUME NEW c \in Claims
        PROVE  /\ Winner(c) # a => MoveOf(c) = 0
               /\ MoveOf(c) \in {0, 1}
    BY <1>1, <2>1 DEF MoveOf
  <2> QED
    BY <1>1, <2>1, <2>2, <2>3 DEF Disturb
<1> QED
  BY <1>2, <1>3, <1>4, <1>5 DEF ChainAct

LEMMA RaceOfChain ==
  ASSUME RotatingInv, ChainAct, NEW c \in Claims
  PROVE  RaceInv(c)' /\ Patient(c)'
<1> USE FaucetAssumption
<1>1. /\ claim' = claim /\ pool' <= pool /\ challenge <= challenge'
      /\ pool' # pool => challenge' = challenge + 1
      /\ IF InRace(c) THEN disturbed[c] + Rotation + MoveOf(c) <= disturbed'[c]
                      ELSE disturbed'[c] = disturbed[c]
  BY ChainMoves, ChainDisturbs DEF RotatingInv
<1>2. /\ pool \in Nat /\ pool' \in Nat /\ challenge \in Nat /\ challenge' \in Nat
      /\ disturbed[c] \in Nat /\ disturbed'[c] \in Nat
      /\ claim[c].seen \in Nat /\ claim[c].attempt \in Nat
      /\ RaceInv(c) /\ (claim[c].result = "rotating" => ~InRace(c))
  <2>1. IInv'
    BY ActStep DEF RotatingInv
  <2> QED
    BY <2>1 DEF RotatingInv, IInv, TypeOK, Calls, CallInv, InRace
<1>3. /\ Stale(c)' <= Stale(c) + Rotation /\ Moved(c)' <= Moved(c) + MoveOf(c)
      /\ Stale(c) \in {0, 1} /\ Stale(c)' \in {0, 1} /\ Rotation \in {0, 1}
      /\ Moved(c) \in {0, 1} /\ Moved(c)' \in {0, 1} /\ MoveOf(c) \in {0, 1}
  BY <1>1 DEF Stale, Moved, Rotation, MoveOf, At, Winner
<1>4. ASSUME InRace(c)
      PROVE  claim'[c].attempt + Stale(c)' + Moved(c)' <= disturbed'[c]
  <2>1. claim[c].attempt + Stale(c) + Moved(c) <= disturbed[c]
    BY <1>2, <1>4 DEF RaceInv
  <2> QED
    BY <1>1, <1>2, <1>3, <1>4, <2>1
<1>5. ASSUME InRace(c), ~At(c, "read")
      PROVE  /\ claim'[c].seen <= challenge'
             /\ pool' < PRIZE => claim'[c].seen # challenge'
  <2>1. claim[c].seen <= challenge /\ (pool < PRIZE => claim[c].seen # challenge)
    BY <1>2, <1>5 DEF RaceInv
  <2> QED
    BY <1>1, <1>2, <2>1
<1>6. RaceInv(c)'
  BY <1>1, <1>2, <1>4, <1>5 DEF RaceInv, InRace, At
<1>7. Patient(c)'
  BY <1>1, <1>2 DEF RotatingInv, GivesUpOnlyWhenDisturbed, Patient
<1> QED
  BY <1>6, <1>7

LEMMA RaceStep ==
  ASSUME RotatingInv, ChainAct \/ \E c \in Claims : LocalAct(c)
  PROVE  RotatingInv'
<1>1. IInv'
  BY ActStep DEF RotatingInv
<1>2. ASSUME NEW c \in Claims, LocalAct(c), NEW d \in Claims
      PROVE  RaceInv(d)' /\ Patient(d)'
  <2>1. CASE d = c
    BY <1>2, <2>1, RaceOfAct
  <2>2. CASE d # c
    <3>1. UNCHANGED chain /\ claim'[d] = claim[d] /\ disturbed'[d] = disturbed[d]
      BY <1>2, <2>2, LocalMoves DEF RotatingInv
    <3>2. RaceInv(d) /\ Patient(d)
      BY DEF RotatingInv, GivesUpOnlyWhenDisturbed, Patient
    <3> QED
      BY <3>1, <3>2 DEF RaceInv, InRace, Stale, Moved, At, Winner, chain, Patient
  <2> QED
    BY <2>1, <2>2
<1>3. \A d \in Claims : RaceInv(d)' /\ Patient(d)'
  BY <1>2, RaceOfChain
<1> QED
  BY <1>1, <1>3 DEF RotatingInv, GivesUpOnlyWhenDisturbed, Patient

LEMMA RotatingInvariance == Spec => []RotatingInv
<1>1. Init => RotatingInv
  <2> SUFFICES ASSUME Init PROVE RotatingInv
    OBVIOUS
  <2>1. ASSUME NEW c \in Claims
        PROVE  /\ claim[c].result = "none" /\ claim[c].step = "idle"
               /\ claim[c].attempt = 0
    <3>1. PICK a \in Accounts : claim[c] = Uncalled(a)
      BY DEF Init
    <3> QED
      BY <3>1 DEF Uncalled
  <2> QED
    BY <2>1, InitIInv
       DEF RotatingInv, RaceInv, InRace, At, GivesUpOnlyWhenDisturbed
<1>2. RotatingInv /\ [Next]_vars => RotatingInv'
  <2> SUFFICES ASSUME RotatingInv, [Next]_vars PROVE RotatingInv'
    OBVIOUS
  <2>1. CASE Next
    BY <2>1, RaceStep DEF Next, ChainAct, LocalAct
  <2>2. CASE UNCHANGED vars
    <3>1. ASSUME NEW d \in Claims PROVE RaceInv(d)'
      <4>1. RaceInv(d)
        BY DEF RotatingInv
      <4> QED
        BY <2>2, <4>1 DEF vars, RaceInv, InRace, Stale, Moved, At, Winner
    <3> QED
      BY <2>2, <3>1, StutterStep
         DEF vars, RotatingInv, GivesUpOnlyWhenDisturbed
  <2> QED
    BY <2>1, <2>2
<1> QED
  BY <1>1, <1>2, PTL DEF Spec

-----------------------------------------------------------------------------
(* Success is reported only to an account that was paid a drop, or to one  *)
(* that others sent as much.                                               *)
THEOREM SuccessMeansPaid == Spec => []OkMeansPaid
<1>1. PaidInv => OkMeansPaid
  BY DEF PaidInv
<1> QED
  BY <1>1, PaidInvariance, PTL

(* A call that gives up has been disturbed in its own race, by a rotation  *)
(* or a move of its winner's balance, at least once for every attempt.     *)
THEOREM RotatingMeansDisturbed == Spec => []GivesUpOnlyWhenDisturbed
<1>1. RotatingInv => GivesUpOnlyWhenDisturbed
  BY DEF RotatingInv
<1> QED
  BY <1>1, RotatingInvariance, PTL
=============================================================================
