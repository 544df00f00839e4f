---------------------------- MODULE BridgeProofs ----------------------------
(* Theorems about ProviderBridge. *)
EXTENDS ProviderBridge, TLAPS

(* A number is used once on a page. *)
NumbersInv ==
  \A c \in Calls :
    /\ call[c].page <= page
    /\ call[c].page = page => call[c].id <= seq
    /\ call[c].stage = "idle" => call[c].id = 0
    /\ \A d \in Calls :
         call[c].id > 0 /\ call[d].id = call[c].id /\ call[d].page = call[c].page
           => d = c

(* What waits for an answer was asked on this page and has none. *)
PendingInv ==
  \A c \in pending : /\ call[c].stage = "waiting" /\ answer[c] = None
                     /\ call[c].page = page /\ call[c].id > 0

(* A request is in one place: the outbox, one drain, the wallet, or served. *)
RequestsInv ==
  \A c \in Calls :
    /\ c \in outbox => wallet[c] = 0 /\ served[c] = 0 /\ call[c].id > 0
    /\ \A b \in drained : c \in b =>
         /\ wallet[c] = 0 /\ served[c] = 0 /\ call[c].id > 0
         /\ c \notin outbox
         /\ \A e \in drained : c \in e => e = b
    /\ wallet[c] + served[c] <= 1
    /\ wallet[c] + served[c] > 0 => call[c].id > 0
    /\ ran[c] <= served[c]

Truthful(m) ==
  /\ served[m.of] = 1
  /\ m.kind = "ok" => ran[m.of] = 1

OwnOrFormer(c, d) ==
  \/ d = c
  \/ host = "basecamp" /\ call[d].page < call[c].page /\ call[d].id = call[c].id

(* Answers say what happened, and found a call they may be for. *)
AnswersInv ==
  /\ \A m \in posts : Truthful(m)
  /\ \A c \in Calls : answer[c] # None =>
       /\ Truthful(answer[c])
       /\ call[c].id > 0
       /\ OwnOrFormer(c, answer[c].of)

(* Why a call ended as it did. *)
EndingsInv ==
  \A c \in Calls :
    /\ call[c].stage = "resolved" =>
         answer[c] # None /\ Ending(c, answer[c].kind) = "resolved"
    /\ call[c].stage = "rejected" =>
         \/ answer[c] = None /\ (host = "browser" \/ call[c].id = 0)
         \/ answer[c] # None /\ Ending(c, answer[c].kind) = "rejected"

IInv ==
  TypeOK /\ NumbersInv /\ PendingInv /\ RequestsInv /\ AnswersInv /\ EndingsInv

USE DEF inPage, inWallet

LEMMA InitIInv == Init => IInv
<1> SUFFICES ASSUME Init PROVE IInv
  OBVIOUS
<1>1. TypeOK
  <2>1. view \in [active : BOOLEAN, loading : BOOLEAN, loaded : BOOLEAN,
                 draining : BOOLEAN, injecting : BOOLEAN]
    BY Zenon DEF Init
  <2>2. page \in 0..MaxPages
    BY BridgeAssumption DEF Init
  <2>3. call \in [Calls -> [stage : Stages, page : 0..MaxPages, id : Nat]]
    BY BridgeAssumption DEF Init, Unmade, Stages
  <2> QED
    BY <2>1, <2>2, <2>3 DEF Init, TypeOK
<1>2. NumbersInv /\ PendingInv /\ RequestsInv
  BY BridgeAssumption
  DEF Init, Unmade, NumbersInv, PendingInv, RequestsInv
<1>3. AnswersInv /\ EndingsInv
  BY DEF Init, Unmade, AnswersInv, EndingsInv
<1> QED
  BY <1>1, <1>2, <1>3 DEF IInv

(* Steps of the view alone. *)
LEMMA ViewStepsKeepIInv ==
  ASSUME IInv,
         UNCHANGED <<host, page, seq, call, pending, outbox, answer, heard,
                     inWallet, posts>>,
         drained' \subseteq drained,
         TypeOK'
  PROVE  IInv'
<1>1. NumbersInv' /\ PendingInv'
  BY DEF IInv, NumbersInv, PendingInv
<1>2. RequestsInv'
  BY DEF IInv, RequestsInv
<1>3. AnswersInv'
  BY DEF IInv, AnswersInv, Truthful, OwnOrFormer
<1>4. EndingsInv'
  BY DEF IInv, EndingsInv, Ending, ByExec
<1> QED
  BY <1>1, <1>2, <1>3, <1>4 DEF IInv

LEMMA ViewActionsKeepIInv ==
  ASSUME IInv,
         LoadStarted \/ LoadStopped \/ Inject \/ SwitchTab \/ UNCHANGED vars
  PROVE  IInv'
<1>1. TypeOK'
  BY DEF IInv, TypeOK, LoadStarted, LoadStopped, Inject, SwitchTab, vars
<1> QED
  BY <1>1, ViewStepsKeepIInv
  DEF LoadStarted, LoadStopped, Inject, SwitchTab, vars

(* A call goes out: its number is new on this page. *)
LEMMA RequestKeepsIInv ==
  ASSUME IInv, NEW c \in Calls,
         CallModule(c) \/ CallExtension(c)
  PROVE  IInv'
<1>1. /\ Request(c) /\ call[c].stage = "idle" /\ page > 0
      /\ outbox' \in {outbox, outbox \cup {c}}
      /\ \/ outbox' = outbox \cup {c} /\ wallet' = wallet
         \/ outbox' = outbox /\ wallet' = [wallet EXCEPT ![c] = @ + 1]
  BY DEF CallModule, CallExtension, Request
<1>2. /\ call[c].id = 0 /\ page \in Nat /\ seq \in Nat
      /\ call \in [Calls -> [stage : Stages, page : 0..MaxPages, id : Nat]]
      /\ answer[c] = None
  BY <1>1, BridgeAssumption DEF IInv, TypeOK, NumbersInv, AnswersInv
<1>3. /\ call'[c] = [stage |-> "waiting", page |-> page, id |-> seq + 1]
      /\ \A d \in Calls \ {c} : call'[d] = call[d]
  BY <1>1, <1>2 DEF Request
<1>4. wallet[c] = 0 /\ served[c] = 0 /\ c \notin outbox /\ ran[c] = 0
  <2>1. wallet[c] \in Nat /\ served[c] \in Nat /\ ran[c] \in Nat
    BY DEF IInv, TypeOK
  <2>2. /\ c \notin outbox
        /\ wallet[c] + served[c] <= 0 /\ ran[c] <= served[c]
    BY <1>2, <2>1 DEF IInv, RequestsInv
  <2> QED
    BY <2>1, <2>2
<1>5. \A b \in drained : c \notin b
  BY <1>2 DEF IInv, RequestsInv
<1>6. TypeOK'
  BY <1>1, <1>2 DEF IInv, TypeOK, Request, Stages
<1>7. NumbersInv'
  BY <1>1, <1>2, <1>3 DEF IInv, NumbersInv, Request, TypeOK
<1>8. PendingInv'
  BY <1>1, <1>2, <1>3 DEF IInv, PendingInv, Request, TypeOK
<1>9. RequestsInv'
  <2> SUFFICES ASSUME NEW d \in Calls PROVE RequestsInv!(d)'
    BY DEF RequestsInv
  <2>1. CASE d = c
    BY <2>1, <1>1, <1>2, <1>3, <1>4, <1>5 DEF IInv, TypeOK, Request
  <2>2. CASE d # c
    BY <2>2, <1>1, <1>3 DEF IInv, RequestsInv, Request, TypeOK
  <2> QED
    BY <2>1, <2>2
<1>10. AnswersInv'
  <2>1. UNCHANGED <<served, ran, posts, answer, host>>
    BY <1>1 DEF Request
  <2>2. \A d \in Calls : Truthful(answer[d])' <=> Truthful(answer[d])
    BY <2>1 DEF Truthful
  <2>3. \A m \in posts' : Truthful(m)'
    BY <2>1 DEF Truthful, IInv, AnswersInv
  <2> SUFFICES ASSUME NEW d \in Calls, answer[d] # None
               PROVE  /\ Truthful(answer[d]) /\ call'[d].id > 0
                      /\ OwnOrFormer(d, answer[d].of)'
    BY <2>1, <2>2, <2>3 DEF AnswersInv
  <2>4. d # c /\ Truthful(answer[d]) /\ OwnOrFormer(d, answer[d].of)
    BY <1>2 DEF IInv, AnswersInv
  <2>5. answer[d].of \in Calls /\ served[answer[d].of] = 1
    BY <2>4 DEF IInv, TypeOK, Posts, Truthful
  <2>6. answer[d].of # c
    BY <2>5, <1>4
  <2> QED
    BY <2>1, <2>4, <2>5, <2>6, <1>3 DEF OwnOrFormer, IInv, AnswersInv
<1>11. EndingsInv'
  BY <1>1, <1>3 DEF IInv, EndingsInv, Request, Ending, ByExec
<1> QED
  BY <1>6, <1>7, <1>8, <1>9, <1>10, <1>11 DEF IInv

LEMMA UnavailableKeepsIInv ==
  ASSUME IInv, NEW c \in Calls, CallUnavailable(c)
  PROVE  IInv'
<1>1. /\ call[c].stage = "idle" /\ call[c].id = 0 /\ answer[c] = None
      /\ call \in [Calls -> [stage : Stages, page : 0..MaxPages, id : Nat]]
  BY DEF CallUnavailable, IInv, TypeOK, NumbersInv, AnswersInv
<1>2. /\ call' = [call EXCEPT ![c].stage = "rejected"]
      /\ UNCHANGED <<host, page, view, bridged, seq, pending, outbox, drained,
                     wallet, served, ran, posts, answer, heard>>
  BY DEF CallUnavailable
<1>3. /\ call'[c].stage = "rejected" /\ c \notin pending
      /\ \A d \in Calls :
           /\ call'[d].page = call[d].page /\ call'[d].id = call[d].id
           /\ d # c => call'[d] = call[d]
  BY <1>1, <1>2 DEF IInv, PendingInv
<1>4. TypeOK'
  BY <1>1, <1>2 DEF IInv, TypeOK, Stages
<1>5. NumbersInv' /\ PendingInv'
  BY <1>2, <1>3 DEF IInv, NumbersInv, PendingInv, TypeOK
<1>6. RequestsInv' /\ AnswersInv'
  <2>1. RequestsInv'
    BY <1>2, <1>3 DEF IInv, RequestsInv
  <2>2. \A d \in Calls : answer[d] # None => answer[d].of \in Calls
    BY DEF IInv, TypeOK, Posts
  <2> QED
    BY <1>2, <1>3, <2>1, <2>2
    DEF IInv, AnswersInv, Truthful, OwnOrFormer, TypeOK
<1>7. EndingsInv'
  BY <1>1, <1>2, <1>3 DEF IInv, EndingsInv, Ending, ByExec
<1> QED
  BY <1>4, <1>5, <1>6, <1>7 DEF IInv

LEMMA TimeoutKeepsIInv ==
  ASSUME IInv, NEW c \in Calls, Timeout(c)
  PROVE  IInv'
<1>1. /\ host = "browser" /\ c \in pending /\ answer[c] = None
      /\ call \in [Calls -> [stage : Stages, page : 0..MaxPages, id : Nat]]
      /\ call[c].stage = "waiting"
  BY DEF Timeout, IInv, TypeOK, PendingInv
<1>2. /\ call' = [call EXCEPT ![c].stage = "rejected"]
      /\ pending' = pending \ {c}
      /\ UNCHANGED <<host, page, view, bridged, seq, outbox, drained,
                     wallet, served, ran, posts, answer, heard>>
  BY DEF Timeout
<1>3. /\ call'[c].stage = "rejected"
      /\ \A d \in Calls :
           /\ call'[d].page = call[d].page /\ call'[d].id = call[d].id
           /\ d # c => call'[d] = call[d]
  BY <1>1, <1>2
<1>4. TypeOK'
  BY <1>1, <1>2 DEF IInv, TypeOK, Stages
<1>5. NumbersInv' /\ PendingInv'
  BY <1>1, <1>2, <1>3 DEF IInv, NumbersInv, PendingInv, TypeOK
<1>6. RequestsInv' /\ AnswersInv'
  <2>1. RequestsInv'
    BY <1>2, <1>3 DEF IInv, RequestsInv
  <2>2. \A d \in Calls : answer[d] # None => answer[d].of \in Calls
    BY DEF IInv, TypeOK, Posts
  <2> QED
    BY <1>2, <1>3, <2>1, <2>2
    DEF IInv, AnswersInv, Truthful, OwnOrFormer, TypeOK
<1>7. EndingsInv'
  BY <1>1, <1>2, <1>3 DEF IInv, EndingsInv, Ending, ByExec
<1> QED
  BY <1>4, <1>5, <1>6, <1>7 DEF IInv

(* A call that waits under the number of an answer asked for it, or its    *)
(* number was another page's before.                                       *)
LEMMA NamesMatch ==
  ASSUME IInv, NEW c \in pending, NEW m \in posts, Name(c) = Name(m.of)
  PROVE  /\ call[c].id = call[m.of].id
         /\ OwnOrFormer(c, m.of)
<1>1. c \in Calls /\ m.of \in Calls /\ host \in {"basecamp", "browser"}
  BY DEF IInv, TypeOK, Posts
<1>2. /\ call[c].id = call[m.of].id
      /\ host = "browser" => call[c].page = call[m.of].page
  BY DEF Name
<1>3. /\ call[c].id > 0 /\ call[c].page = page /\ call[m.of].page <= page
      /\ call[c].page \in Nat /\ call[m.of].page \in Nat /\ page \in Nat
  BY <1>1 DEF IInv, PendingInv, NumbersInv, TypeOK
<1>4. call[m.of].page = call[c].page => m.of = c
  BY <1>1, <1>2, <1>3 DEF IInv, NumbersInv
<1> QED
  BY <1>1, <1>2, <1>3, <1>4 DEF OwnOrFormer

LEMMA DeliverKeepsIInv ==
  ASSUME IInv, NEW m \in posts, Deliver(m)
  PROVE  IInv'
<1>1. /\ posts' = posts \ {m} /\ m \in Posts /\ m # None
      /\ UNCHANGED <<host, page, view, bridged, seq, outbox, drained,
                     wallet, served, ran>>
      /\ call \in [Calls -> [stage : Stages, page : 0..MaxPages, id : Nat]]
  BY NoneAssumption DEF Deliver, IInv, TypeOK
<1>2. CASE UNCHANGED <<call, pending, answer, heard>>
  <2>1. TypeOK' /\ NumbersInv' /\ PendingInv'
    BY <1>1, <1>2 DEF IInv, TypeOK, NumbersInv, PendingInv
  <2>2. RequestsInv' /\ AnswersInv'
    BY <1>1, <1>2 DEF IInv, RequestsInv, AnswersInv, Truthful, OwnOrFormer
  <2>3. EndingsInv'
    BY <1>1, <1>2 DEF IInv, EndingsInv, Ending, ByExec
  <2> QED
    BY <2>1, <2>2, <2>3 DEF IInv
<1>3. CASE \E c \in pending : Name(c) = Name(m.of) /\ Receive(c, m)
  <2>1. PICK c \in pending : Name(c) = Name(m.of) /\ Receive(c, m)
    BY <1>3
  <2>2. /\ c \in Calls /\ call[c].stage = "waiting" /\ call[c].id > 0
        /\ answer[c] = None
    BY <2>1 DEF IInv, TypeOK, PendingInv
  <2>3. /\ call' = [call EXCEPT ![c].stage = Ending(c, m.kind)]
        /\ answer' = [answer EXCEPT ![c] = m]
        /\ pending' = pending \ {c}
        /\ heard' \in {heard, heard \cup {c}}
    BY <2>1 DEF Receive, Told
  <2>4. Ending(c, m.kind) \in {"waiting", "resolved", "rejected"}
    BY DEF Ending
  <2>5. /\ call'[c].stage = Ending(c, m.kind) /\ answer'[c] = m
        /\ \A d \in Calls :
             /\ call'[d].page = call[d].page /\ call'[d].id = call[d].id
             /\ d # c => call'[d] = call[d] /\ answer'[d] = answer[d]
    BY <1>1, <2>2, <2>3 DEF IInv, TypeOK
  <2>6. TypeOK'
    BY <1>1, <2>2, <2>3, <2>4 DEF IInv, TypeOK, Stages
  <2>7. NumbersInv' /\ PendingInv'
    BY <1>1, <2>2, <2>3, <2>4, <2>5 DEF IInv, NumbersInv, PendingInv, TypeOK
  <2>8. RequestsInv'
    BY <1>1, <2>5 DEF IInv, RequestsInv
  <2>9. AnswersInv'
    <3>1. \A p \in Posts : Truthful(p)' <=> Truthful(p)
      BY <1>1 DEF Truthful
    <3>2. \A d, e \in Calls : OwnOrFormer(d, e)' <=> OwnOrFormer(d, e)
      BY <1>1, <2>5 DEF OwnOrFormer
    <3>3. \A p \in posts' : Truthful(p)'
      BY <1>1, <3>1 DEF IInv, AnswersInv, TypeOK
    <3>4. Truthful(m) /\ OwnOrFormer(c, m.of) /\ m.of \in Calls
      BY <2>1, NamesMatch DEF IInv, AnswersInv, TypeOK, Posts
    <3> SUFFICES ASSUME NEW d \in Calls, answer'[d] # None
                 PROVE  /\ Truthful(answer[d])' /\ call'[d].id > 0
                        /\ OwnOrFormer(d, answer[d].of)'
      BY <3>3 DEF AnswersInv
    <3>5. CASE d = c
      BY <3>5, <3>1, <3>2, <3>4, <2>5, <2>2, <1>1 DEF Truthful, OwnOrFormer
    <3>6. CASE d # c
      <4>1. answer'[d] = answer[d] /\ answer[d] \in Posts
        BY <3>6, <2>5 DEF IInv, TypeOK
      <4>2. /\ Truthful(answer[d]) /\ call[d].id > 0
            /\ OwnOrFormer(d, answer[d].of) /\ answer[d].of \in Calls
        BY <4>1 DEF IInv, AnswersInv, Posts
      <4> QED
        BY <4>1, <4>2, <2>5, <1>1 DEF Truthful, OwnOrFormer
    <3> QED
      BY <3>5, <3>6
  <2>10. EndingsInv'
    <3>1. \A d \in Calls, k \in Kinds : Ending(d, k)' = Ending(d, k)
      BY <1>1 DEF Ending, ByExec
    <3>2. m.kind \in Kinds
      BY <1>1 DEF Posts
    <3> SUFFICES ASSUME NEW d \in Calls PROVE EndingsInv!(d)'
      BY DEF EndingsInv
    <3>3. CASE d = c
      BY <3>3, <3>2, <1>1, <2>4, <2>5 DEF Ending, ByExec
    <3>4. CASE d # c
      BY <3>4, <1>1, <2>5 DEF IInv, EndingsInv, Ending, ByExec
    <3> QED
      BY <3>3, <3>4
  <2> QED
    BY <2>6, <2>7, <2>8, <2>9, <2>10 DEF IInv
<1> QED
  BY <1>2, <1>3 DEF Deliver

LEMMA TickKeepsIInv ==
  ASSUME IInv, Tick
  PROVE  IInv'
<1>1. /\ drained' = drained \cup {outbox} /\ outbox' = {}
      /\ UNCHANGED <<host, page, bridged, seq, call, pending, answer, heard,
                     wallet, served, ran, posts>>
  BY DEF Tick
<1>2. TypeOK'
  <2>1. view' \in [active : BOOLEAN, loading : BOOLEAN, loaded : BOOLEAN,
                   draining : BOOLEAN, injecting : BOOLEAN]
    BY DEF IInv, TypeOK, Tick
  <2>2. drained' \subseteq SUBSET Calls
    BY <1>1 DEF IInv, TypeOK
  <2>3. /\ outbox' \subseteq Calls
        /\ UNCHANGED <<host, page, bridged, seq, call, pending, answer, heard,
                       wallet, served, ran, posts>>
    BY <1>1
  <2> QED
    BY <2>1, <2>2, <2>3 DEF IInv, TypeOK
<1>3. NumbersInv' /\ PendingInv' /\ AnswersInv'
  BY <1>1 DEF IInv, NumbersInv, PendingInv, AnswersInv, Truthful, OwnOrFormer
<1>4. RequestsInv'
  <2> SUFFICES ASSUME NEW c \in Calls PROVE RequestsInv!(c)'
    BY DEF RequestsInv
  <2>1. CASE c \in outbox
    BY <2>1, <1>1 DEF IInv, RequestsInv
  <2>2. CASE c \notin outbox
    BY <2>2, <1>1 DEF IInv, RequestsInv
  <2> QED
    BY <2>1, <2>2
<1>5. EndingsInv'
  BY <1>1 DEF IInv, EndingsInv, Ending, ByExec
<1> QED
  BY <1>2, <1>3, <1>4, <1>5 DEF IInv

LEMMA DrainedKeepsIInv ==
  ASSUME IInv, Drained
  PROVE  IInv'
<1>1. PICK batch \in drained :
        /\ drained' = drained \ {batch}
        /\ wallet' = [c \in Calls |->
                       IF c \in batch THEN wallet[c] + 1 ELSE wallet[c]]
  BY DEF Drained
<1>2. UNCHANGED <<host, page, bridged, seq, call, pending, outbox, answer,
                  heard, served, ran, posts>>
  BY DEF Drained
<1>3. TypeOK'
  <2>1. view' \in [active : BOOLEAN, loading : BOOLEAN, loaded : BOOLEAN,
                   draining : BOOLEAN, injecting : BOOLEAN]
    BY DEF IInv, TypeOK, Drained
  <2>2. drained' \subseteq SUBSET Calls /\ wallet' \in [Calls -> Nat]
    BY <1>1 DEF IInv, TypeOK
  <2> QED
    BY <1>2, <2>1, <2>2 DEF IInv, TypeOK
<1>4. NumbersInv' /\ PendingInv' /\ AnswersInv'
  BY <1>2 DEF IInv, NumbersInv, PendingInv, AnswersInv, Truthful, OwnOrFormer
<1>5. RequestsInv'
  <2> SUFFICES ASSUME NEW c \in Calls PROVE RequestsInv!(c)'
    BY DEF RequestsInv
  <2>1. wallet[c] \in Nat /\ served[c] \in Nat
    BY DEF IInv, TypeOK
  <2>2. CASE c \in batch
    <3>1. /\ wallet[c] = 0 /\ served[c] = 0 /\ call[c].id > 0
          /\ c \notin outbox
          /\ \A e \in drained : c \in e => e = batch
      BY <2>2 DEF IInv, RequestsInv
    <3>2. wallet'[c] = 1
      BY <3>1, <2>2, <1>1
    <3> QED
      BY <3>1, <3>2, <1>1, <1>2 DEF IInv, RequestsInv
  <2>3. CASE c \notin batch
    BY <2>3, <1>1, <1>2 DEF IInv, RequestsInv
  <2> QED
    BY <2>2, <2>3
<1>6. EndingsInv'
  BY <1>2 DEF IInv, EndingsInv, Ending, ByExec
<1> QED
  BY <1>3, <1>4, <1>5, <1>6 DEF IInv

(* A request is answered once: what is served was not before. *)
LEMMA AnswerKeepsIInv ==
  ASSUME IInv, NEW c \in Calls, Answer(c)
  PROVE  IInv'
<1>1. PICK kind \in Kinds :
        /\ posts' = posts \cup {[of |-> c, kind |-> kind]}
        /\ \/ ran' = [ran EXCEPT ![c] = @ + 1]
           \/ kind # "ok" /\ ran' = ran
  BY DEF Answer
<1>2. /\ wallet[c] > 0
      /\ wallet' = [wallet EXCEPT ![c] = @ - 1]
      /\ served' = [served EXCEPT ![c] = @ + 1]
      /\ UNCHANGED <<host, view, page, bridged, seq, call, pending, outbox,
                     answer, heard, drained>>
  BY DEF Answer
<1>3. /\ wallet[c] = 1 /\ served[c] = 0 /\ ran[c] = 0 /\ call[c].id > 0
      /\ c \notin outbox /\ \A b \in drained : c \notin b
  <2>1. wallet[c] \in Nat /\ served[c] \in Nat /\ ran[c] \in Nat
    BY DEF IInv, TypeOK
  <2>2. /\ wallet[c] + served[c] <= 1 /\ ran[c] <= served[c]
        /\ wallet[c] + served[c] > 0 => call[c].id > 0
        /\ c \in outbox => wallet[c] = 0
        /\ \A b \in drained : c \in b => wallet[c] = 0
    BY DEF IInv, RequestsInv
  <2> QED
    BY <1>2, <2>1, <2>2
<1>4. /\ wallet'[c] = 0 /\ served'[c] = 1
      /\ kind = "ok" => ran'[c] = 1
      /\ ran'[c] \in {0, 1}
      /\ \A d \in Calls \ {c} : /\ wallet'[d] = wallet[d]
                                /\ served'[d] = served[d] /\ ran'[d] = ran[d]
  BY <1>1, <1>2, <1>3 DEF IInv, TypeOK
<1>5. TypeOK'
  <2>1. /\ wallet' \in [Calls -> Nat] /\ served' \in [Calls -> Nat]
        /\ ran' \in [Calls -> Nat]
    BY <1>1, <1>2, <1>3 DEF IInv, TypeOK
  <2>2. posts' \subseteq Posts
    BY <1>1 DEF IInv, TypeOK, Posts
  <2> QED
    BY <1>2, <2>1, <2>2 DEF IInv, TypeOK
<1>6. NumbersInv' /\ PendingInv'
  BY <1>2 DEF IInv, NumbersInv, PendingInv
<1>7. RequestsInv'
  <2> SUFFICES ASSUME NEW d \in Calls PROVE RequestsInv!(d)'
    BY DEF RequestsInv
  <2>1. CASE d = c
    BY <2>1, <1>2, <1>3, <1>4
  <2>2. CASE d # c
    BY <2>2, <1>2, <1>4 DEF IInv, RequestsInv
  <2> QED
    BY <2>1, <2>2
<1>8. AnswersInv'
  <2>1. \A m \in Posts : Truthful(m) => m.of # c
    BY <1>3 DEF Truthful
  <2>2. \A m \in Posts : Truthful(m) => Truthful(m)'
    BY <2>1, <1>4 DEF Truthful, Posts
  <2>3. Truthful([of |-> c, kind |-> kind])'
    BY <1>4 DEF Truthful
  <2>4. \A m \in posts' : Truthful(m)'
    BY <1>1, <2>2, <2>3 DEF IInv, AnswersInv, TypeOK
  <2>5. \A d \in Calls : answer[d] # None =>
          /\ answer[d] \in Posts /\ Truthful(answer[d])
          /\ call[d].id > 0 /\ OwnOrFormer(d, answer[d].of)
    BY DEF IInv, AnswersInv, TypeOK
  <2>6. \A d \in Calls : answer[d] # None => Truthful(answer[d])'
    <3> SUFFICES ASSUME NEW d \in Calls, answer[d] # None
                 PROVE  Truthful(answer[d])'
      OBVIOUS
    <3>1. answer[d] \in Posts /\ Truthful(answer[d]) /\ answer[d].of # c
      BY <2>5, <2>1
    <3> QED
      BY <3>1, <1>2, <1>4 DEF Truthful, Posts
  <2> QED
    BY <1>2, <2>4, <2>5, <2>6 DEF AnswersInv, OwnOrFormer
<1>9. EndingsInv'
  BY <1>2 DEF IInv, EndingsInv, Ending, ByExec
<1> QED
  BY <1>5, <1>6, <1>7, <1>8, <1>9 DEF IInv

(* A new page: the numbers begin again, below no call of that page. *)
LEMMA DiscardKeepsIInv ==
  ASSUME IInv, Discard,
         view' \in [active : BOOLEAN, loading : BOOLEAN, loaded : BOOLEAN,
                    draining : BOOLEAN, injecting : BOOLEAN],
         drained' \in {drained, {}},
         UNCHANGED <<host, inWallet, posts>>
  PROVE  IInv'
<1>1. /\ page' = page + 1 /\ page' \in 0..MaxPages /\ seq' = 0
      /\ pending' = {} /\ outbox' = {} /\ bridged' = FALSE
      /\ answer' = answer /\ heard' = heard
      /\ page \in Nat
      /\ call \in [Calls -> [stage : Stages, page : 0..MaxPages, id : Nat]]
  BY BridgeAssumption DEF Discard, IInv, TypeOK
<1>2. call' = [c \in Calls |-> IF call[c].stage = "waiting"
                              THEN [call[c] EXCEPT !.stage = "gone"]
                              ELSE call[c]]
  BY DEF Discard
<1>3. \A c \in Calls :
        /\ call'[c].page = call[c].page /\ call'[c].id = call[c].id
        /\ call'[c].stage \in {call[c].stage, "gone"}
  BY <1>1, <1>2
<1>4. TypeOK'
  <2>1. call' \in [Calls -> [stage : Stages, page : 0..MaxPages, id : Nat]]
    BY <1>1, <1>2 DEF Stages
  <2> QED
    BY <1>1, <2>1 DEF IInv, TypeOK
<1>5. NumbersInv' /\ PendingInv'
  BY <1>1, <1>3 DEF IInv, NumbersInv, PendingInv, TypeOK
<1>6. RequestsInv'
  BY <1>1, <1>3 DEF IInv, RequestsInv
<1>7. AnswersInv'
  <2>1. \A d \in Calls : answer[d] # None => answer[d].of \in Calls
    BY DEF IInv, TypeOK, Posts
  <2> QED
    BY <2>1, <1>1, <1>3 DEF IInv, AnswersInv, Truthful, OwnOrFormer
<1>8. EndingsInv'
  BY <1>1, <1>3 DEF IInv, EndingsInv, Ending, ByExec
<1> QED
  BY <1>4, <1>5, <1>6, <1>7, <1>8 DEF IInv

LEMMA LoadKeepsIInv ==
  ASSUME IInv, LoadSucceeded \/ Reload
  PROVE  IInv'
<1>1. CASE Discard
  <2>1. view' \in [active : BOOLEAN, loading : BOOLEAN, loaded : BOOLEAN,
                   draining : BOOLEAN, injecting : BOOLEAN]
    BY DEF LoadSucceeded, Reload, IInv, TypeOK
  <2> QED
    BY <1>1, <2>1, DiscardKeepsIInv DEF LoadSucceeded, Reload
<1>2. CASE LoadSucceeded /\ UNCHANGED <<inPage, drained>>
  <2>1. TypeOK'
    BY <1>2 DEF IInv, TypeOK, LoadSucceeded
  <2> QED
    BY <1>2, <2>1, ViewStepsKeepIInv DEF LoadSucceeded
<1> QED
  BY <1>1, <1>2 DEF LoadSucceeded, Reload

LEMMA NextKeepsIInv ==
  ASSUME IInv, [Next]_vars
  PROVE  IInv'
<1>1. CASE \E c \in Calls : CallModule(c) \/ CallExtension(c)
  BY <1>1, RequestKeepsIInv
<1>2. CASE \E c \in Calls : CallUnavailable(c)
  BY <1>2, UnavailableKeepsIInv
<1>3. CASE \E c \in Calls : Timeout(c)
  BY <1>3, TimeoutKeepsIInv
<1>4. CASE \E c \in Calls : Answer(c)
  BY <1>4, AnswerKeepsIInv
<1>5. CASE \E m \in posts : Deliver(m)
  BY <1>5, DeliverKeepsIInv
<1>6. CASE Tick
  BY <1>6, TickKeepsIInv
<1>7. CASE Drained
  BY <1>7, DrainedKeepsIInv
<1>8. CASE LoadSucceeded \/ Reload
  BY <1>8, LoadKeepsIInv
<1>9. CASE LoadStarted \/ LoadStopped \/ Inject \/ SwitchTab \/ UNCHANGED vars
  BY <1>9, ViewActionsKeepIInv
<1> QED
  BY <1>1, <1>2, <1>3, <1>4, <1>5, <1>6, <1>7, <1>8, <1>9 DEF Next

LEMMA Invariance == Spec => []IInv
  BY InitIInv, NextKeepsIInv, PTL DEF Spec

(* The type invariant, for any number of calls and pages. *)
THEOREM TypeCorrect == Spec => []TypeOK
<1>1. IInv => TypeOK
  BY DEF IInv
<1> QED
  BY <1>1, Invariance, PTL

(* bridge.js and the SDK settle a call with an answer to it, or, in the    *)
(* module's view, to a call of an earlier page with the same number.       *)
THEOREM AnswersAreMatched == Spec => []AnswersFindTheirCall
<1>1. IInv => AnswersFindTheirCall
  BY DEF IInv, AnswersInv, OwnOrFormer, AnswersFindTheirCall
<1> QED
  BY <1>1, Invariance, PTL

LEMMA IInvMakesEndingsTrue == IInv => OutcomesAreTrue
<1> SUFFICES ASSUME IInv, NEW c \in Calls PROVE OutcomesAreTrue!(c)
  BY DEF OutcomesAreTrue
<1>1. answer[c] # None => answer[c] \in Posts /\ Truthful(answer[c])
  BY DEF IInv, TypeOK, AnswersInv
<1>2. call[c].id = 0 => served[c] = 0 /\ ran[c] = 0 /\ c \notin outbox
  <2>1. wallet[c] \in Nat /\ served[c] \in Nat /\ ran[c] \in Nat
    BY DEF IInv, TypeOK
  <2>2. /\ wallet[c] + served[c] > 0 => call[c].id > 0
        /\ ran[c] <= served[c]
        /\ c \in outbox => call[c].id > 0
    BY DEF IInv, RequestsInv
  <2> QED
    BY <2>1, <2>2
<1>3. CASE call[c].stage = "rejected"
  BY <1>2, <1>3 DEF IInv, EndingsInv
<1>4. CASE call[c].stage = "resolved"
  <2>1. answer[c] # None /\ Ending(c, answer[c].kind) = "resolved"
    BY <1>4 DEF IInv, EndingsInv
  <2>2. answer[c].kind \in Kinds /\ Truthful(answer[c])
    BY <1>1, <2>1 DEF Posts
  <2>3. host \in {"basecamp", "browser"}
    BY DEF IInv, TypeOK
  <2>4. CASE answer[c].kind = "ok"
    BY <2>2, <2>4, <1>4 DEF Truthful
  <2>5. CASE answer[c].kind = "empty"
    BY <2>1, <2>5, <1>4 DEF Ending
  <2>6. CASE answer[c].kind = "refused"
    BY <2>1, <2>3, <2>6, <1>4 DEF Ending, ByExec
  <2>7. answer[c].kind # "broken"
    BY <2>1 DEF Ending
  <2> QED
    BY <2>2, <2>4, <2>5, <2>6, <2>7 DEF Kinds
<1> QED
  BY <1>3, <1>4

(* Whatever pages, drains and answers did: a call that succeeded was       *)
(* carried out, but for the named answers of callers other than exec, and  *)
(* a call that failed for want of a bridge never was.  Of a call that      *)
(* failed otherwise nothing is said.                                       *)
THEOREM EndingsAreTrue == Spec => []OutcomesAreTrue
  BY Invariance, IInvMakesEndingsTrue, PTL

-----------------------------------------------------------------------------
(* The refinement *)

Named == [c \in Calls |-> IF call[c].id = 0 THEN None ELSE Name(c)]
Outcome == [c \in Calls |-> IF call[c].stage \in {"resolved", "rejected"}
                           THEN call[c].stage ELSE "none"]

LEMMA InitRefines == Init => Service!ServiceInit
  BY DEF Init, Unmade, Service!ServiceInit

(* Names are never None. *)
LEMMA NamesAreNames ==
  ASSUME TypeOK, NEW c \in Calls
  PROVE  Name(c) \in Nat \X Nat /\ Name(c) # None
<1>1. call[c].id \in Nat /\ call[c].page \in Nat
  BY DEF TypeOK
<1> QED
  BY <1>1, NoneAssumption DEF Name

LEMMA AskRefines ==
  ASSUME IInv, NEW c \in Calls, CallModule(c) \/ CallExtension(c)
  PROVE  Service!Ask(c)
<1>1. /\ Request(c) /\ call[c].stage = "idle"
      /\ UNCHANGED <<host, served, ran>>
      /\ call \in [Calls -> [stage : Stages, page : 0..MaxPages, id : Nat]]
      /\ page \in Nat /\ seq \in Nat
  BY BridgeAssumption DEF CallModule, CallExtension, Request, IInv, TypeOK
<1>2. call[c].id = 0
  BY <1>1 DEF IInv, NumbersInv
<1>3. /\ call'[c] = [stage |-> "waiting", page |-> page, id |-> seq + 1]
      /\ \A d \in Calls \ {c} : call'[d] = call[d]
  BY <1>1 DEF Request
<1>4. Named[c] = None /\ Outcome[c] = "none"
  BY <1>1, <1>2 DEF Named, Outcome
<1>5. Named'[c] \in Nat \X Nat
  BY <1>1, <1>3 DEF Named, Name
<1>6. Named' = [Named EXCEPT ![c] = Named'[c]]
  BY <1>1, <1>3 DEF Named, Name
<1>7. Outcome' = Outcome
  BY <1>1, <1>3 DEF Outcome
<1> QED
  BY <1>1, <1>4, <1>5, <1>6, <1>7 DEF Service!Ask, Named, Outcome

LEMMA FailRefines ==
  ASSUME IInv, NEW c \in Calls, CallUnavailable(c) \/ Timeout(c)
  PROVE  Service!Fail(c)
<1>1. /\ call[c].stage \in {"idle", "waiting"}
      /\ call' = [call EXCEPT ![c].stage = "rejected"]
      /\ UNCHANGED <<host, served, ran>>
      /\ call \in [Calls -> [stage : Stages, page : 0..MaxPages, id : Nat]]
  BY DEF CallUnavailable, Timeout, IInv, PendingInv, TypeOK
<1>2. Outcome[c] = "none" /\ Outcome' = [Outcome EXCEPT ![c] = "rejected"]
  BY <1>1 DEF Outcome
<1>3. Named' = Named
  BY <1>1 DEF Named, Name
<1> QED
  BY <1>1, <1>2, <1>3 DEF Service!Fail, Named, Outcome

LEMMA ServeRefines ==
  ASSUME IInv, NEW c \in Calls, Answer(c)
  PROVE  Service!Serve(c)
<1>1. /\ wallet[c] > 0
      /\ served' = [served EXCEPT ![c] = @ + 1]
      /\ ran' = [ran EXCEPT ![c] = @ + 1] \/ ran' = ran
      /\ UNCHANGED <<host, call>>
  BY DEF Answer
<1>2. served[c] = 0 /\ ran[c] = 0 /\ call[c].id > 0
  <2>1. wallet[c] \in Nat /\ served[c] \in Nat /\ ran[c] \in Nat
    BY DEF IInv, TypeOK
  <2>2. /\ wallet[c] + served[c] <= 1 /\ ran[c] <= served[c]
        /\ wallet[c] + served[c] > 0 => call[c].id > 0
    BY DEF IInv, RequestsInv
  <2> QED
    BY <1>1, <2>1, <2>2
<1>3. /\ served' = [served EXCEPT ![c] = 1]
      /\ ran' \in {ran, [ran EXCEPT ![c] = 1]}
  BY <1>1, <1>2
<1>4. Named[c] # None
  BY <1>2, NamesAreNames DEF Named, IInv
<1>5. Named' = Named /\ Outcome' = Outcome
  BY <1>1 DEF Named, Name, Outcome
<1> QED
  BY <1>2, <1>3, <1>4, <1>5 DEF Service!Serve, Named, Outcome

LEMMA DeliverRefines ==
  ASSUME IInv, NEW m \in posts, Deliver(m)
  PROVE  (\E c \in Calls : Service!Conclude(c)) \/ UNCHANGED Service!rvars
<1>1. /\ UNCHANGED <<host, served, ran>>
      /\ call \in [Calls -> [stage : Stages, page : 0..MaxPages, id : Nat]]
      /\ m \in Posts /\ m.of \in Calls /\ served[m.of] = 1
  BY DEF Deliver, IInv, TypeOK, Posts, AnswersInv, Truthful
<1>2. CASE UNCHANGED <<call, pending, answer, heard>>
  BY <1>1, <1>2 DEF Service!rvars, Name
<1>3. CASE \E c \in pending : Name(c) = Name(m.of) /\ Receive(c, m)
  <2>1. PICK c \in pending : Name(c) = Name(m.of) /\ Receive(c, m)
    BY <1>3
  <2>2. c \in Calls /\ call[c].stage = "waiting" /\ call[c].id > 0
    BY <2>1 DEF IInv, TypeOK, PendingInv
  <2>3. call[m.of].id = call[c].id
    BY <2>1 DEF Name
  <2>4. call' = [call EXCEPT ![c].stage = Ending(c, m.kind)]
    BY <2>1 DEF Receive
  <2>5. Named' = Named
    BY <1>1, <2>4 DEF Named, Name
  <2>6. Outcome[c] = "none"
    BY <2>2 DEF Outcome
  <2>7. Named[c] # None /\ Named[m.of] = Named[c]
    BY <1>1, <2>1, <2>2, <2>3, NamesAreNames DEF Named, IInv
  <2>8. CASE Ending(c, m.kind) = "waiting"
    <3>1. Outcome' = Outcome
      BY <1>1, <2>2, <2>4, <2>8 DEF Outcome
    <3> QED
      BY <1>1, <2>5, <3>1 DEF Service!rvars, Named, Outcome
  <2>9. CASE Ending(c, m.kind) \in {"resolved", "rejected"}
    <3>1. Outcome' = [Outcome EXCEPT ![c] = Ending(c, m.kind)]
      BY <1>1, <2>2, <2>4, <2>9 DEF Outcome
    <3>2. \E o \in {"resolved", "rejected"} :
            Outcome' = [Outcome EXCEPT ![c] = o]
      BY <2>9, <3>1
    <3>3. \E d \in Calls : served[d] = 1 /\ Named[d] = Named[c]
      BY <1>1, <2>7
    <3>4. Service!Conclude(c)
      BY <1>1, <2>5, <2>6, <2>7, <3>2, <3>3
      DEF Service!Conclude, Named, Outcome
    <3> QED
      BY <2>2, <3>4
  <2> QED
    BY <2>8, <2>9 DEF Ending
<1> QED
  BY <1>2, <1>3 DEF Deliver

(* All other steps are hidden from the service: a page that goes away      *)
(* leaves its calls unanswered.                                            *)
LEMMA OthersStutter ==
  ASSUME IInv,
         \/ Tick \/ Drained \/ LoadStarted \/ LoadStopped \/ LoadSucceeded
         \/ Inject \/ SwitchTab \/ Reload \/ UNCHANGED vars
  PROVE  UNCHANGED Service!rvars
<1>1. UNCHANGED <<host, served, ran>>
  BY DEF Tick, Drained, LoadStarted, LoadStopped, LoadSucceeded, Inject,
         SwitchTab, Reload, vars
<1>2. \/ call' = call
      \/ call' = [c \in Calls |-> IF call[c].stage = "waiting"
                                 THEN [call[c] EXCEPT !.stage = "gone"]
                                 ELSE call[c]]
  BY DEF Tick, Drained, LoadStarted, LoadStopped, LoadSucceeded, Inject,
         SwitchTab, Reload, Discard, vars
<1>3. call \in [Calls -> [stage : Stages, page : 0..MaxPages, id : Nat]]
  BY DEF IInv, TypeOK
<1>4. \A c \in Calls :
        /\ call'[c].id = call[c].id /\ call'[c].page = call[c].page
        /\ \/ call'[c].stage = call[c].stage
           \/ call[c].stage = "waiting" /\ call'[c].stage = "gone"
  BY <1>2, <1>3
<1>5. Named' = Named /\ Outcome' = Outcome
  BY <1>1, <1>4 DEF Named, Name, Outcome
<1> QED
  BY <1>1, <1>5 DEF Service!rvars, Named, Outcome

(* Under bridge.js, WalletView.qml and the extension's transport, whatever *)
(* is loaded or lost on the way, the wallet serves each call once and each *)
(* caller is told once.                                                    *)
THEOREM BridgeRefinesService == Spec => ServiceSpec
<1>1. IInv /\ [Next]_vars => [Service!ServiceNext]_(Service!rvars)
  <2> SUFFICES ASSUME IInv, [Next]_vars
               PROVE  Service!ServiceNext \/ UNCHANGED Service!rvars
    OBVIOUS
  <2>1. CASE \E c \in Calls : CallModule(c) \/ CallExtension(c)
    BY <2>1, AskRefines DEF Service!ServiceNext
  <2>2. CASE \E c \in Calls : CallUnavailable(c) \/ Timeout(c)
    BY <2>2, FailRefines DEF Service!ServiceNext
  <2>3. CASE \E c \in Calls : Answer(c)
    BY <2>3, ServeRefines DEF Service!ServiceNext
  <2>4. CASE \E m \in posts : Deliver(m)
    BY <2>4, DeliverRefines DEF Service!ServiceNext
  <2>5. CASE \/ Tick \/ Drained \/ LoadStarted \/ LoadStopped
             \/ LoadSucceeded \/ Inject \/ SwitchTab \/ Reload
             \/ UNCHANGED vars
    BY <2>5, OthersStutter
  <2> QED
    BY <2>1, <2>2, <2>3, <2>4, <2>5 DEF Next
<1> QED
  BY <1>1, Invariance, InitRefines, PTL
  DEF Spec, ServiceSpec, Service!ServiceSpec
=============================================================================
