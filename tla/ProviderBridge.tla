--------------------------- MODULE ProviderBridge ---------------------------
(***************************************************************************)
(* How a page calls the wallet.  Under Basecamp the page (the provider SDK *)
(* or ModuleBackend) queues requests in bridge.js; WalletView.qml drains   *)
(* the queue on a timer, calls the module and posts the answers back.  In  *)
(* a browser the SDK posts requests to the extension and waits for two     *)
(* minutes.                                                                *)
(*                                                                         *)
(* Everything between the page and the wallet is asynchronous, and the     *)
(* page may be loaded again at any time: bridge.js then starts anew, while *)
(* requests and answers of the former page are still on their way.         *)
(*                                                                         *)
(* The QtWebView, the Logos API, the extension and the user are external.  *)
(***************************************************************************)
EXTENDS Naturals, FiniteSets

CONSTANTS
  Calls,        \* calls of the pages, each made once at most
  ExecCalls,    \* those ModuleBackend makes through exec under Basecamp; the
                \* rest is its faucetDrop and callModule, or the SDK's
  Submissions,  \* the SDK's transfer, proposeTransaction and faucetClaim
  MaxPages,     \* bound: how often a page is loaded
  MaxDrains,    \* bound: drains whose result is on its way
  None

ASSUME BridgeAssumption ==
  /\ ExecCalls \subseteq Calls
  /\ Submissions \subseteq Calls \ ExecCalls
  /\ MaxPages \in Nat \ {0} /\ MaxDrains \in Nat

VARIABLES
  host,    \* "basecamp" or "browser": what WidespreadLezProvider detects
  page,    \* the page in the view, counted from its first load
  view,    \* WalletView.qml's flags
  bridged, \* bridge.js has run in the page
  seq,     \* its seq, the SDK's extSeq in a browser
  call,    \* how far each call is, the page it was made on, its number
  pending, \* calls with a slot in bridge.js, or with a listener
  outbox,  \* bridge.js: requests not yet drained
  drained, \* what drains took, on its way to QML
  wallet,  \* requests under way in the wallet, with how often
  served, ran, \* history: how often it answered a request and obeyed it
  posts,   \* answers on their way to the page
  answer,  \* the answer each call was settled with
  heard    \* submissions whose txConfirmed the page's on() handler was told of

vars == <<host, page, view, bridged, seq, call, pending, outbox, drained,
          wallet, served, ran, posts, answer, heard>>

inPage   == <<page, bridged, seq, call, pending, outbox, answer, heard>>
inWallet == <<wallet, served, ran>>

(* What comes back: the op's output; the worker's error envelope, or the   *)
(* extension's error; an error of the Logos API, or text that is no JSON;  *)
(* nothing at all.                                                         *)
Kinds == {"ok", "refused", "broken", "empty"}

Posts == [of : Calls, kind : Kinds]

ASSUME NoneAssumption == None \notin Posts \cup (Nat \X Nat)

Stages == {"idle", "waiting", "resolved", "rejected", "gone"}

TypeOK ==
  /\ host \in {"basecamp", "browser"}
  /\ page \in 0..MaxPages
  /\ view \in [active : BOOLEAN, loading : BOOLEAN, loaded : BOOLEAN,
               draining : BOOLEAN, injecting : BOOLEAN]
  /\ bridged \in BOOLEAN
  /\ seq \in Nat
  /\ call \in [Calls -> [stage : Stages, page : 0..MaxPages, id : Nat]]
  /\ pending \subseteq Calls
  /\ outbox \subseteq Calls
  /\ drained \subseteq SUBSET Calls
  /\ wallet \in [Calls -> Nat]
  /\ served \in [Calls -> Nat]
  /\ ran \in [Calls -> Nat]
  /\ posts \subseteq Posts
  /\ answer \in [Calls -> Posts \cup {None}]
  /\ heard \subseteq Calls

Unmade == [stage |-> "idle", page |-> 0, id |-> 0]

(* The view has begun to load the wallet's page; a browser has its page.   *)
Init ==
  /\ host \in {"basecamp", "browser"}
  /\ page = IF host = "basecamp" THEN 0 ELSE 1
  /\ view = [active |-> TRUE, loading |-> host = "basecamp", loaded |-> FALSE,
             draining |-> FALSE, injecting |-> FALSE]
  /\ bridged = FALSE
  /\ seq = 0
  /\ call = [c \in Calls |-> Unmade]
  /\ pending = {}
  /\ outbox = {}
  /\ drained = {}
  /\ wallet = [c \in Calls |-> 0]
  /\ served = [c \in Calls |-> 0]
  /\ ran = [c \in Calls |-> 0]
  /\ posts = {}
  /\ answer = [c \in Calls |-> None]
  /\ heard = {}

-----------------------------------------------------------------------------
(* The page *)

(* on() registers the handler for one type of window events, emit()        *)
(* dispatches an event of another.                                         *)
OnListensFor == "message"
Emitted == "wsp-lez-txConfirmed"
Told(c) == IF OnListensFor = Emitted THEN heard \cup {c} ELSE heard

Request(c) ==
  /\ call[c].stage = "idle" /\ page > 0
  /\ seq' = seq + 1
  /\ call' = [call EXCEPT ![c] =
                [stage |-> "waiting", page |-> page, id |-> seq + 1]]
  /\ pending' = pending \cup {c}
  /\ UNCHANGED <<host, page, view, bridged, drained, served, ran, posts,
                 answer, heard>>

(* window.logos.callModuleAsync. *)
CallModule(c) ==
  /\ host = "basecamp" /\ bridged
  /\ Request(c)
  /\ outbox' = outbox \cup {c}
  /\ UNCHANGED wallet

(* Before bridge.js is injected there is no transport: the SDK's           *)
(* constructor and ModuleBackend throw.                                    *)
CallUnavailable(c) ==
  /\ host = "basecamp" /\ ~bridged /\ page > 0
  /\ call[c].stage = "idle"
  /\ call' = [call EXCEPT ![c].stage = "rejected"]
  /\ UNCHANGED <<host, page, view, bridged, seq, pending, outbox, drained,
                 inWallet, posts, answer, heard>>

(* extensionBridge().call: posted at once to the content script. *)
CallExtension(c) ==
  /\ host = "browser"
  /\ Request(c)
  /\ wallet' = [wallet EXCEPT ![c] = @ + 1]
  /\ UNCHANGED outbox

(* Faulty variant: extension requests are numbered without the time. *)
Name_NoTime(c) == <<0, call[c].id>>

(* The number an answer finds its call by: bridge.js counts from one on    *)
(* each page, the SDK adds the time to its count.                          *)
Name(c) ==
  <<IF host = "browser" THEN call[c].page ELSE 0, call[c].id>>

ByExec(c) == host = "basecamp" /\ c \in ExecCalls

(* Faulty variant: exec takes every answer for the op's output. *)
Ending_Unchecked(c, kind) ==
  CASE kind = "broken" -> "waiting"
    [] kind = "refused" /\ host = "browser" -> "rejected"
    [] OTHER -> "resolved"

(* What an answer does to its call.  bridge.js rejects its promise on an   *)
(* error, and calls the callback only once it resolves: the caller is told *)
(* nothing.  ModuleBackend's exec throws for the error envelope and for    *)
(* nothing; its faucetDrop and callModule take either for a result.  So    *)
(* does the SDK over the module; it knows the extension's errors.          *)
Ending(c, kind) ==
  CASE kind = "broken" -> "waiting"
    [] kind = "refused" /\ host = "browser" -> "rejected"
    [] kind \in {"refused", "empty"} /\ ByExec(c) -> "rejected"
    [] OTHER -> "resolved"

(* Faulty variant: only what the answer says is kept, not whose it is. *)
Receive_Anonymous(c, m) ==
  /\ pending' = pending \ {c}
  /\ call' = [call EXCEPT ![c].stage = Ending(c, m.kind)]
  /\ answer' = [answer EXCEPT ![c] = [of |-> Name(c), kind |-> m.kind]]
  /\ UNCHANGED heard

Receive(c, m) ==
  /\ pending' = pending \ {c}
  /\ call' = [call EXCEPT ![c].stage = Ending(c, m.kind)]
  /\ answer' = [answer EXCEPT ![c] = m]
  /\ heard' = IF c \in Submissions /\ Ending(c, m.kind) = "resolved"
              THEN Told(c) ELSE heard

(* An answer reaches the page: the call that waits under its number gets   *)
(* it, without one it is dropped.                                          *)
Deliver(m) ==
  /\ m \in posts
  /\ posts' = posts \ {m}
  /\ \/ \E c \in pending : Name(c) = Name(m.of) /\ Receive(c, m)
     \/ /\ \A c \in pending : Name(c) # Name(m.of)
        /\ UNCHANGED <<call, pending, answer, heard>>
  /\ UNCHANGED <<host, page, view, bridged, seq, outbox, drained, inWallet>>

(* extensionBridge: two minutes without an answer. *)
Timeout(c) ==
  /\ host = "browser" /\ c \in pending
  /\ pending' = pending \ {c}
  /\ call' = [call EXCEPT ![c].stage = "rejected"]
  /\ UNCHANGED <<host, page, view, bridged, seq, outbox, drained, inWallet,
                 posts, answer, heard>>

-----------------------------------------------------------------------------
(* WalletView.qml *)

(* Faulty variant: drain returns the outbox and leaves it as it is. *)
Tick_Peeks ==
  /\ view.active /\ view.loaded /\ ~view.draining /\ ~view.loading
  /\ outbox # {} /\ Cardinality(drained) < MaxDrains
  /\ view' = [view EXCEPT !.draining = TRUE]
  /\ drained' = drained \cup {outbox}
  /\ UNCHANGED <<host, inPage, inWallet, posts>>

(* The timer drains the outbox of the page, one drain at a time.  Drains   *)
(* of an empty outbox come and go unnoticed.                               *)
Tick ==
  /\ view.active /\ view.loaded /\ ~view.draining /\ ~view.loading
  /\ outbox # {} /\ Cardinality(drained) < MaxDrains
  /\ view' = [view EXCEPT !.draining = TRUE]
  /\ drained' = drained \cup {outbox}
  /\ outbox' = {}
  /\ UNCHANGED <<host, page, bridged, seq, call, pending, answer,
                 heard, inWallet, posts>>

(* The result of a drain: handleLogosRequest for each of its requests. *)
Drained ==
  \E batch \in drained :
    /\ drained' = drained \ {batch}
    /\ view' = [view EXCEPT !.draining = FALSE]
    /\ wallet' = [c \in Calls |->
                    IF c \in batch THEN wallet[c] + 1 ELSE wallet[c]]
    /\ UNCHANGED <<host, inPage, served, ran, posts>>

(* respondToJs with what the wallet made of a request.  Only the op's      *)
(* output says that it was carried out: the worker reports an error also   *)
(* after a submission, for a vault it cannot write or a credit it does not *)
(* see in time.                                                            *)
Answer(c) ==
  /\ wallet[c] > 0
  /\ wallet' = [wallet EXCEPT ![c] = @ - 1]
  /\ served' = [served EXCEPT ![c] = @ + 1]
  /\ \E kind \in Kinds :
       /\ host = "browser" => kind # "broken"
       /\ posts' = posts \cup {[of |-> c, kind |-> kind]}
       /\ \/ ran' = [ran EXCEPT ![c] = @ + 1]
          \/ kind # "ok" /\ UNCHANGED ran
  /\ UNCHANGED <<host, view, inPage, drained>>

(* A page is replaced: what its scripts held is gone. *)
Discard ==
  /\ page < MaxPages /\ page' = page + 1
  /\ bridged' = FALSE /\ seq' = 0
  /\ pending' = {} /\ outbox' = {}
  /\ call' = [c \in Calls |->
                IF call[c].stage = "waiting"
                THEN [call[c] EXCEPT !.stage = "gone"] ELSE call[c]]
  /\ UNCHANGED <<answer, heard>>

LoadStarted ==
  /\ host = "basecamp" /\ ~view.loading
  /\ view' = [view EXCEPT !.loading = TRUE, !.loaded = FALSE,
                          !.draining = FALSE]
  /\ UNCHANGED <<host, inPage, drained, inWallet, posts>>

(* The load succeeds, with a new page or within the old one: the script is *)
(* injected, in either case.  A drain under way in an old page may never   *)
(* report.                                                                 *)
LoadSucceeded ==
  /\ view.loading
  /\ view' = [view EXCEPT !.loading = FALSE, !.loaded = TRUE,
                          !.draining = FALSE, !.injecting = TRUE]
  /\ \/ Discard /\ drained' \in {drained, {}}
     \/ page > 0 /\ UNCHANGED <<inPage, drained>>
  /\ UNCHANGED <<host, inWallet, posts>>

(* It fails or is stopped: the old page stays, and is not drained.         *)
LoadStopped ==
  /\ view.loading
  /\ view' = [view EXCEPT !.loading = FALSE, !.draining = FALSE]
  /\ UNCHANGED <<host, inPage, drained, inWallet, posts>>

(* Faulty variant: bridge.js starts anew in a page it already runs in. *)
Inject_Again ==
  /\ view.injecting
  /\ view' = [view EXCEPT !.injecting = FALSE]
  /\ bridged' = TRUE
  /\ seq' = 0 /\ pending' = {} /\ outbox' = {}
  /\ UNCHANGED <<host, page, call, drained, inWallet, posts, answer,
                 heard>>

(* bridge.js runs; where it ran before, it returns at once. *)
Inject ==
  /\ view.injecting
  /\ view' = [view EXCEPT !.injecting = FALSE]
  /\ bridged' = TRUE
  /\ UNCHANGED <<host, page, seq, call, pending, outbox, drained, inWallet,
                 posts, answer, heard>>

(* The user changes tabs: the timer runs in the active one only. *)
SwitchTab ==
  /\ host = "basecamp"
  /\ view' = [view EXCEPT !.active = ~view.active]
  /\ UNCHANGED <<host, inPage, drained, inWallet, posts>>

(* A page in a browser is loaded again. *)
Reload ==
  /\ host = "browser"
  /\ Discard
  /\ UNCHANGED <<host, view, drained, inWallet, posts>>

Next ==
  \/ \E c \in Calls :
       \/ CallModule(c) \/ CallUnavailable(c) \/ CallExtension(c)
       \/ Timeout(c) \/ Answer(c)
  \/ \E m \in posts : Deliver(m)
  \/ Tick \/ Drained
  \/ LoadStarted \/ LoadSucceeded \/ LoadStopped \/ Inject
  \/ SwitchTab \/ Reload

Spec == Init /\ [][Next]_vars

(* Timers run, scripts and their results arrive, and the Logos API answers *)
(* every call.  The extension need not answer.                             *)
FairSpec ==
  /\ Spec
  /\ WF_vars(Tick) /\ WF_vars(Drained) /\ WF_vars(Inject)
  /\ WF_vars(\E m \in posts : Deliver(m))
  /\ \A c \in Calls : WF_vars(Timeout(c))
  /\ \A c \in Calls : WF_vars(host = "basecamp" /\ Answer(c))

-----------------------------------------------------------------------------
(* Properties *)

(* Abstractly, a wallet that serves each call once and tells each caller   *)
(* once, under the call's name.                                            *)
Service == INSTANCE RequestReply WITH
  Names   <- Nat \X Nat,
  name    <- [c \in Calls |-> IF call[c].id = 0 THEN None ELSE Name(c)],
  outcome <- [c \in Calls |-> IF call[c].stage \in {"resolved", "rejected"}
                             THEN call[c].stage ELSE "none"]

(* However often pages are loaded and whatever is still on its way, every  *)
(* request drained from bridge.js reaches the wallet once, and every call  *)
(* ends once, with an answer to a call of its number.                      *)
ServiceSpec == Service!ServiceSpec

(* A call is settled with its own answer; in the module's view it may be   *)
(* one to a call of an earlier page, whose number bridge.js used again.    *)
AnswersFindTheirCall ==
  \A c \in Calls : answer[c] # None =>
    LET d == answer[c].of
    IN  \/ d = c
        \/ /\ host = "basecamp"
           /\ call[d].page < call[c].page /\ call[d].id = call[c].id

(* What a caller may conclude.  A call that succeeded was carried out,     *)
(* unless it is not exec's and its answer was empty or, from the module,   *)
(* the error envelope; the one carried out may be the earlier page's whose *)
(* answer it got.  A call that failed may have been carried out as well,   *)
(* unless under Basecamp no answer came at all: it never reached the       *)
(* wallet, and never will.                                                 *)
OutcomesAreTrue ==
  \A c \in Calls :
    /\ call[c].stage = "resolved" =>
         \/ ran[answer[c].of] = 1
         \/ ~ByExec(c) /\ answer[c].kind = "empty"
         \/ ~ByExec(c) /\ answer[c].kind = "refused" /\ host = "basecamp"
    /\ call[c].stage = "rejected" /\ answer[c] = None /\ host = "basecamp" =>
         served[c] = 0 /\ ran[c] = 0 /\ c \notin outbox

(* Every call ends: over the extension always, over the module as long as  *)
(* the view stays loaded and its tab active, unless the page goes away or  *)
(* the answer was an error, which bridge.js keeps to itself.               *)
EveryCallSettles ==
  host = "browser" \/ <>[](view.active /\ view.loaded) =>
    \A c \in Calls :
      call[c].stage = "waiting" ~>
        \/ call[c].stage # "waiting"
        \/ answer[c] # None /\ answer[c].kind = "broken"

(* The SDK's README has dapps subscribe with on(), "events:                *)
(* accountsChanged, txPending, txConfirmed": a handler hears of every      *)
(* submission that resolves.                                               *)
ConfirmationsAreHeard ==
  [][\A c \in Submissions :
       call[c].stage = "waiting" /\ call'[c].stage = "resolved"
         => c \in heard']_vars
=============================================================================
