--------------------------- MODULE DesktopProofs ---------------------------
(***************************************************************************)
(* Theorems about DesktopVault: what the user was told is stored is in the *)
(* vault file, and the session holds what the file holds, for any number   *)
(* of overlapping calls.                                                   *)
(***************************************************************************)
EXTENDS DesktopVault, Integers, TLAPS

Method(m) == task[m.task].method
Awaits(m) == task[m.task].awaits
Arg(m) == task[m.task].arg

Leq(u, v) == u.seed = v.seed /\ u.items \subseteq v.items

(* The vault an onboarding has stored is the one in the session. *)
Ready == disk \in Vaults /\ session \in {Nothing, disk} /\ confirmed = {}

(* The steps of a call on each screen. *)
BootStep(m, cmd) == m = "list" /\ cmd \in {"vault_blob_get", "unlock", "read"}
OnboardingStep(m, cmd) ==
  \/ m \in {"init", "restore"} /\ cmd \in {m, "export_blob", "vault_blob_set"}
  \/ m = "import" /\ cmd \in {"vault_blob_set", "unlock"}
  \/ m = "export" /\ cmd = "export_blob"
WalletStep(m, cmd) ==
  \/ m \in {"list", "read"} /\ cmd = "read"
  \/ m = "write" /\ cmd \in {"write", "export_blob", "vault_blob_set"}

TaskOk(t) ==
  LET m == task[t].method
      cmd == task[t].awaits
  IN  /\ screen = "boot" => BootStep(m, cmd)
      /\ screen = "onboarding" => OnboardingStep(m, cmd)
      /\ screen = "wallet" => WalletStep(m, cmd)
      /\ m = "write" => task[t].arg \in Items
      /\ m \in {"init", "restore"} => task[t].arg \in Seeds
      /\ m = "import" => task[t].arg \in Vaults
      /\ m = "export" => unlocked
      /\ m = "list" /\ cmd = "read" => unlocked

TasksInv == \A t \in Tasks : task[t] # Idle => TaskOk(t)

ScreenInv ==
  /\ screen = "wallet" => unlocked
  /\ screen = "boot" /\ unlocked => session \in {Nothing, disk}
  /\ screen # "wallet" =>
       \A t, u \in Tasks : task[t] # Idle /\ task[u] # Idle => t = u

(* A call under way has one message, and no other call has any. *)
OneMessage ==
  /\ \A i, j \in 1..Len(inbox) : inbox[i].task = inbox[j].task => i = j
  /\ \A i, j \in 1..Len(outbox) : outbox[i].task = outbox[j].task => i = j
  /\ \A i \in 1..Len(inbox), j \in 1..Len(outbox) :
       inbox[i].task # outbox[j].task

Asked    == {inbox[i] : i \in 1..Len(inbox)}
Answered == {outbox[j] : j \in 1..Len(outbox)}

(* No call waits for nothing: its request or its reply is on the way. *)
NoCallIsLost ==
  \A t \in Tasks : task[t] # Idle => \E m \in Asked \cup Answered : m.task = t

(* A request is what its call awaits. *)
RequestOk(q) ==
  /\ task[q.task] # Idle /\ Awaits(q) = q.cmd
  /\ q.cmd \in {"init", "restore", "write"} => q.arg = Arg(q)
  /\ q.cmd = "vault_blob_set" => q.arg \in Vaults
  /\ q.cmd = "unlock" => q.arg = disk
  /\ Method(q) = "import" => q.arg = Arg(q)
  /\ Method(q) = "import" /\ q.cmd = "unlock" => confirmed = {}
  /\ Method(q) = "export" => Ready
  /\ Method(q) \in {"init", "restore"} /\ q.cmd = "vault_blob_set" =>
       session \in {Nothing, q.arg}
  /\ Method(q) = "write" /\ q.cmd = "export_blob" /\ session # Nothing =>
       Arg(q) \in session.items
  /\ Method(q) = "write" /\ q.cmd = "vault_blob_set" => Arg(q) \in q.arg.items

(* A reply that is no error is what its call waited for. *)
ReplyOk(r) ==
  /\ task[r.task] # Idle
  /\ r.ok =>
      /\ Awaits(r) = "vault_blob_get" => r.value = disk
      /\ Awaits(r) = "unlock" =>
           /\ session \in {Nothing, disk} /\ disk \in Vaults
           /\ Method(r) = "import" => confirmed = {}
      /\ Awaits(r) = "export_blob" => r.value \in Vaults
      /\ Method(r) = "write" /\ Awaits(r) = "export_blob" =>
           Arg(r) \in r.value.items
      /\ Method(r) \in {"init", "restore"} /\ Awaits(r) = "export_blob" =>
           session \in {Nothing, r.value}
      /\ Method(r) = "export" => Ready
      /\ Method(r) = "write" /\ Awaits(r) = "write" /\ session # Nothing =>
           Arg(r) \in session.items
      /\ Method(r) \in {"init", "restore"} /\ Awaits(r) = "vault_blob_set" =>
           Ready
      /\ Method(r) = "import" /\ Awaits(r) = "vault_blob_set" =>
           disk = Arg(r) /\ confirmed = {}

MessagesInv ==
  /\ \A q \in Asked : RequestOk(q)
  /\ \A r \in Answered : ReplyOk(r)

(* Where exported vaults are on their way to the file. *)
Sets    == {i \in 1..Len(inbox) : inbox[i].cmd = "vault_blob_set"}
Exports == {j \in 1..Len(outbox) :
              outbox[j].ok /\ Awaits(outbox[j]) = "export_blob"}

(* The vaults there are: in the file, on their way to it, in the session. *)
OnTheWay == {inbox[i].arg : i \in Sets} \cup {outbox[j].value : j \in Exports}
Line == OnTheWay \cup ({disk} \cap Vaults) \cup ({session} \ {Nothing})

(* What no vault must lack: what was confirmed, and what is stored and     *)
(* will be confirmed.                                                      *)
Holds(v) ==
  /\ \A i \in Items : <<v.seed, i>> \in confirmed => i \in v.items
  /\ \A r \in Answered :
       r.ok /\ Awaits(r) = "vault_blob_set" => Arg(r) \in v.items

Between(v) ==
  /\ disk \in Vaults => Leq(disk, v)
  /\ session # Nothing => Leq(v, session)
  /\ Holds(v)

Ordered ==
  /\ \A i, j \in Sets : i < j => Leq(inbox[i].arg, inbox[j].arg)
  /\ \A i, j \in Exports : i < j => Leq(outbox[i].value, outbox[j].value)
  /\ \A i \in Sets, j \in Exports : Leq(inbox[i].arg, outbox[j].value)

(* In the wallet, vaults only grow on their way back from the file to the  *)
(* session.                                                                *)
ChainInv ==
  screen = "wallet" => (\A v \in Line : Between(v)) /\ Ordered

IInv ==
  /\ TypeOK
  /\ TasksInv /\ ScreenInv /\ OneMessage /\ NoCallIsLost
  /\ MessagesInv /\ ChainInv /\ ConfirmedWritesAreStored

-----------------------------------------------------------------------------
(* Sequences *)

LEMMA Appended ==
  ASSUME NEW S, NEW s \in Seq(S), NEW e \in S
  PROVE  /\ Len(s) \in Nat
         /\ Append(s, e) \in Seq(S)
         /\ Len(Append(s, e)) = Len(s) + 1
         /\ \A i \in 1..Len(s) : Append(s, e)[i] = s[i]
         /\ Append(s, e)[Len(s) + 1] = e
  BY SMT

LEMMA Taken ==
  ASSUME NEW S, NEW s \in Seq(S), s # <<>>
  PROVE  /\ Len(s) \in Nat /\ Len(s) >= 1
         /\ Head(s) = s[1] /\ Head(s) \in S
         /\ Tail(s) \in Seq(S)
         /\ Len(Tail(s)) = Len(s) - 1
         /\ \A i \in 1..Len(s) - 1 : Tail(s)[i] = s[i + 1]
  BY SMT

(* The first element, and the others. *)
LEMMA TakenElements ==
  ASSUME NEW S, NEW s \in Seq(S), s # <<>>
  PROVE  {s[i] : i \in 1..Len(s)} =
           {Tail(s)[i] : i \in 1..Len(Tail(s))} \cup {Head(s)}
<1>1. \A i \in 1..Len(s) : i = 1 \/ i - 1 \in 1..Len(Tail(s))
  BY Taken
<1>2. \A i \in 1..Len(s) : s[i] = IF i = 1 THEN Head(s) ELSE Tail(s)[i - 1]
  BY Taken, <1>1
<1>3. \A i \in 1..Len(Tail(s)) : i + 1 \in 1..Len(s) /\ Tail(s)[i] = s[i + 1]
  BY Taken
<1>4. 1 \in 1..Len(s) /\ s[1] = Head(s)
  BY Taken
<1> QED
  BY <1>1, <1>2, <1>3, <1>4

-----------------------------------------------------------------------------
(* Vaults *)

LEMMA LeqIsAnOrder ==
  /\ \A u : Leq(u, u)
  /\ \A u, v, w : Leq(u, v) /\ Leq(v, w) => Leq(u, w)
  BY DEF Leq

LEMMA FreshVault ==
  ASSUME NEW s \in Seeds
  PROVE  Fresh(s) \in Vaults
  BY DEF Fresh, Vaults

LEMMA WrittenVault ==
  ASSUME NEW v \in Vaults, NEW i \in Items
  PROVE  LET w == [v EXCEPT !.items = @ \cup {i}]
         IN  w \in Vaults /\ w.items = v.items \cup {i} /\ w.seed = v.seed
  BY DEF Vaults

-----------------------------------------------------------------------------
(* Messages: what they are, and what each way of passing them keeps. *)

LEMMA MessageTypes ==
  ASSUME TypeOK
  PROVE  /\ inbox \in Seq(Requests) /\ outbox \in Seq(Replies)
         /\ Len(inbox) \in Nat /\ Len(outbox) \in Nat
         /\ \A i \in 1..Len(inbox) : inbox[i] \in Requests
         /\ \A j \in 1..Len(outbox) : outbox[j] \in Replies
         /\ \A q \in Asked : q \in Requests
         /\ \A r \in Answered : r \in Replies
  BY SMT DEF TypeOK, Asked, Answered

(* A call's first command. *)
LEMMA SendKeepsOneMessage ==
  ASSUME TypeOK, OneMessage, NEW q \in Requests,
         \A m \in Asked \cup Answered : m.task # q.task,
         inbox' = Append(inbox, q), UNCHANGED outbox
  PROVE  OneMessage' /\ Asked' = Asked \cup {q} /\ Answered' = Answered
<1>1. /\ Len(inbox) \in Nat /\ Len(inbox') = Len(inbox) + 1
      /\ \A i \in 1..Len(inbox) : inbox'[i] = inbox[i]
      /\ inbox'[Len(inbox) + 1] = q
  BY MessageTypes, Appended
<1>2. OneMessage'
  BY <1>1 DEF OneMessage, Asked, Answered
<1>3. Asked' = Asked \cup {q}
  BY <1>1 DEF Asked
<1> QED
  BY <1>2, <1>3 DEF Answered

(* A request becomes a reply. *)
LEMMA ReplyKeepsOneMessage ==
  ASSUME TypeOK, OneMessage, inbox # <<>>, NEW r \in Replies,
         r.task = Head(inbox).task,
         inbox' = Tail(inbox), outbox' = Append(outbox, r)
  PROVE  /\ OneMessage'
         /\ Head(inbox) \in Asked
         /\ Asked = Asked' \cup {Head(inbox)} /\ Answered' = Answered \cup {r}
         /\ \A m \in Asked' : m \in Asked /\ m.task # Head(inbox).task
         /\ \A m \in Answered : m.task # Head(inbox).task
<1>1. /\ Len(inbox) \in Nat /\ Len(inbox) >= 1 /\ Len(inbox') = Len(inbox) - 1
      /\ Head(inbox) = inbox[1]
      /\ \A i \in 1..Len(inbox') : inbox'[i] = inbox[i + 1]
  BY MessageTypes, Taken
<1>2. /\ Len(outbox) \in Nat /\ Len(outbox') = Len(outbox) + 1
      /\ \A i \in 1..Len(outbox) : outbox'[i] = outbox[i]
      /\ outbox'[Len(outbox) + 1] = r
  BY MessageTypes, Appended
<1>3. OneMessage'
  BY <1>1, <1>2 DEF OneMessage
<1>4. Head(inbox) \in Asked /\ Asked = Asked' \cup {Head(inbox)}
  BY MessageTypes, TakenElements, Zenon DEF Asked
<1>5. Answered' = Answered \cup {r}
  BY <1>2 DEF Answered
<1>6. \A m \in Asked' : m \in Asked /\ m.task # Head(inbox).task
  BY <1>1 DEF OneMessage, Asked
<1>7. \A m \in Answered : m.task # Head(inbox).task
  BY <1>1 DEF OneMessage, Answered
<1> QED
  BY <1>3, <1>4, <1>5, <1>6, <1>7

(* A call takes its reply. *)
LEMMA TakenReply ==
  ASSUME TypeOK, OneMessage, outbox # <<>>, outbox' = Tail(outbox)
  PROVE  /\ Head(outbox) \in Answered /\ Head(outbox) \in Replies
         /\ Answered = Answered' \cup {Head(outbox)}
         /\ \A m \in Answered' : m \in Answered /\ m.task # Head(outbox).task
         /\ \A m \in Asked : m.task # Head(outbox).task
<1>1. /\ Len(outbox) \in Nat /\ Len(outbox) >= 1
      /\ Len(outbox') = Len(outbox) - 1
      /\ Head(outbox) = outbox[1]
      /\ \A i \in 1..Len(outbox') : outbox'[i] = outbox[i + 1]
  BY MessageTypes, Taken
<1>2. Head(outbox) \in Answered /\ Answered = Answered' \cup {Head(outbox)}
  BY MessageTypes, TakenElements, Zenon DEF Answered
<1>3. \A m \in Answered' : m \in Answered /\ m.task # Head(outbox).task
  BY <1>1 DEF OneMessage, Answered
<1>4. \A m \in Asked : m.task # Head(outbox).task
  BY <1>1 DEF OneMessage, Asked
<1> QED
  BY <1>2, <1>3, <1>4, MessageTypes

LEMMA TakeKeepsOneMessage ==
  ASSUME TypeOK, OneMessage, outbox # <<>>,
         outbox' = Tail(outbox), UNCHANGED inbox
  PROVE  OneMessage'
<1>1. /\ Len(outbox) \in Nat /\ Len(outbox) >= 1
      /\ Len(outbox') = Len(outbox) - 1
      /\ Head(outbox) = outbox[1]
      /\ \A i \in 1..Len(outbox') : outbox'[i] = outbox[i + 1]
  BY MessageTypes, Taken
<1> QED
  BY <1>1 DEF OneMessage

(* A reply is followed by the call's next command. *)
LEMMA TakeAndSendKeepOneMessage ==
  ASSUME TypeOK, OneMessage, outbox # <<>>, NEW q \in Requests,
         q.task = Head(outbox).task,
         outbox' = Tail(outbox), inbox' = Append(inbox, q)
  PROVE  OneMessage' /\ Asked' = Asked \cup {q}
<1>1. /\ Len(outbox) \in Nat /\ Len(outbox) >= 1
      /\ Len(outbox') = Len(outbox) - 1
      /\ Head(outbox) = outbox[1]
      /\ \A i \in 1..Len(outbox') : outbox'[i] = outbox[i + 1]
  BY MessageTypes, Taken
<1>2. /\ Len(inbox) \in Nat /\ Len(inbox') = Len(inbox) + 1
      /\ \A i \in 1..Len(inbox) : inbox'[i] = inbox[i]
      /\ inbox'[Len(inbox) + 1] = q
  BY MessageTypes, Appended
<1>3. OneMessage'
  BY <1>1, <1>2 DEF OneMessage
<1>4. Asked' = Asked \cup {q}
  BY <1>2 DEF Asked
<1> QED
  BY <1>3, <1>4

-----------------------------------------------------------------------------
(* What a message says stays true while its call and what it is about stay *)
(* as they are.                                                            *)

LEMMA BusyTask ==
  ASSUME TypeOK, NEW t \in Tasks, task[t] # Idle
  PROVE  task[t] \in [method : Methods, awaits : Commands, arg : Args]
  BY DEF TypeOK, TaskStates

LEMMA RequestFrame ==
  ASSUME NEW q, RequestOk(q), task'[q.task] = task[q.task],
         UNCHANGED <<disk, session, confirmed>>
  PROVE  RequestOk(q)'
  BY DEF RequestOk, Awaits, Method, Arg, Ready

LEMMA ReplyFrame ==
  ASSUME NEW r, ReplyOk(r), task'[r.task] = task[r.task],
         UNCHANGED <<disk, session, confirmed>>
  PROVE  ReplyOk(r)'
  BY DEF ReplyOk, Awaits, Method, Arg, Ready

(* In the wallet only what a write has written matters to other calls.     *)
LEMMA WalletFrame ==
  ASSUME TypeOK, TasksInv, screen = "wallet",
         \/ session' \in {session, Nothing}
         \/ session # Nothing /\ session.items \subseteq session'.items
  PROVE  /\ \A q \in Requests :
              RequestOk(q) /\ task'[q.task] = task[q.task] => RequestOk(q)'
         /\ \A r \in Replies :
              ReplyOk(r) /\ task'[r.task] = task[r.task] => ReplyOk(r)'
<1>1. \A m \in Requests \cup Replies :
         task[m.task] # Idle => WalletStep(Method(m), Awaits(m))
  BY DEF TasksInv, TaskOk, Requests, Replies, Method, Awaits
<1>2. ASSUME NEW q \in Requests, RequestOk(q), task'[q.task] = task[q.task]
      PROVE  RequestOk(q)'
  BY <1>1, <1>2 DEF WalletStep, RequestOk, Awaits, Method, Arg
<1>3. ASSUME NEW r \in Replies, ReplyOk(r), task'[r.task] = task[r.task]
      PROVE  ReplyOk(r)'
  BY <1>1, <1>3 DEF WalletStep, ReplyOk, Awaits, Method, Arg
<1> QED
  BY <1>2, <1>3

(* Outside the wallet a busy call has the only message.                    *)
LEMMA OneCall ==
  ASSUME IInv, screen # "wallet", NEW m \in Asked \cup Answered
  PROVE  /\ \A t \in Tasks : task[t] # Idle <=> t = m.task
         /\ \A n \in Asked \cup Answered : n.task = m.task
<1>1. \A n \in Asked \cup Answered : n.task \in Tasks /\ task[n.task] # Idle
  BY MessageTypes DEF IInv, MessagesInv, RequestOk, ReplyOk, Requests, Replies
<1> QED
  BY <1>1 DEF IInv, ScreenInv

-----------------------------------------------------------------------------
(* The chain *)

(* Vaults on the way move up or leave; none enters.                        *)
LEMMA ShiftedChain ==
  ASSUME TypeOK, Ordered, NEW d \in {0, 1}, NEW e \in {0, 1},
         \A i \in Sets' : i + d \in Sets /\ inbox'[i] = inbox[i + d],
         \A j \in Exports' : j + e \in Exports /\ outbox'[j] = outbox[j + e]
  PROVE  Ordered' /\ OnTheWay' \subseteq OnTheWay
<1>1. /\ \A i \in Sets : i \in Nat
      /\ \A i \in Exports : i \in Nat
      /\ \A i \in Sets' : i \in Int
      /\ \A i \in Exports' : i \in Int
  BY DEF Sets, Exports
<1>2. OnTheWay' \subseteq OnTheWay
  BY <1>1 DEF OnTheWay
<1>3. \A i, j \in Sets' : i < j => Leq(inbox'[i].arg, inbox'[j].arg)
  BY <1>1 DEF Ordered
<1>4. \A i, j \in Exports' : i < j => Leq(outbox'[i].value, outbox'[j].value)
  BY <1>1 DEF Ordered
<1>5. \A i \in Sets', j \in Exports' : Leq(inbox'[i].arg, outbox'[j].value)
  BY <1>1 DEF Ordered
<1> QED
  BY <1>2, <1>3, <1>4, <1>5 DEF Ordered, Leq

LEMMA SendShiftsSets ==
  ASSUME TypeOK, NEW q \in Requests, q.cmd # "vault_blob_set",
         inbox' = Append(inbox, q)
  PROVE  \A i \in Sets' : i + 0 \in Sets /\ inbox'[i] = inbox[i + 0]
<1>1. /\ Len(inbox) \in Nat /\ Len(inbox') = Len(inbox) + 1
      /\ \A i \in 1..Len(inbox) : inbox'[i] = inbox[i]
      /\ inbox'[Len(inbox) + 1] = q
  BY MessageTypes, Appended
<1> QED
  BY <1>1 DEF Sets

LEMMA ServeShiftsSets ==
  ASSUME TypeOK, inbox # <<>>, inbox' = Tail(inbox)
  PROVE  \A i \in Sets' : i + 1 \in Sets /\ inbox'[i] = inbox[i + 1]
<1>1. /\ Len(inbox) \in Nat /\ Len(inbox') = Len(inbox) - 1
      /\ \A i \in 1..Len(inbox) - 1 : inbox'[i] = inbox[i + 1]
  BY MessageTypes, Taken
<1> QED
  BY <1>1 DEF Sets

LEMMA ReplyShiftsExports ==
  ASSUME TypeOK, NEW r \in Replies, outbox' = Append(outbox, r),
         ~r.ok \/ Awaits(r) # "export_blob", UNCHANGED task
  PROVE  \A j \in Exports' : j + 0 \in Exports /\ outbox'[j] = outbox[j + 0]
<1>1. /\ Len(outbox) \in Nat /\ Len(outbox') = Len(outbox) + 1
      /\ \A i \in 1..Len(outbox) : outbox'[i] = outbox[i]
      /\ outbox'[Len(outbox) + 1] = r
  BY MessageTypes, Appended
<1> QED
  BY <1>1 DEF Exports, Awaits

LEMMA TakeShiftsExports ==
  ASSUME TypeOK, OneMessage, outbox # <<>>, outbox' = Tail(outbox),
         \A t \in Tasks : t # Head(outbox).task => task'[t] = task[t]
  PROVE  \A j \in Exports' : j + 1 \in Exports /\ outbox'[j] = outbox[j + 1]
<1>1. /\ Len(outbox) \in Nat /\ Len(outbox) >= 1
      /\ Len(outbox') = Len(outbox) - 1
      /\ Head(outbox) = outbox[1]
      /\ \A i \in 1..Len(outbox') : outbox'[i] = outbox[i + 1]
  BY MessageTypes, Taken
<1>2. \A i \in 1..Len(outbox') :
        i + 1 \in 1..Len(outbox) /\ outbox[i + 1].task # outbox[1].task
  BY <1>1 DEF OneMessage
<1>3. \A i \in 1..Len(outbox') : outbox[i + 1].task \in Tasks
  BY <1>2, MessageTypes DEF Replies
<1> QED
  BY <1>1, <1>2, <1>3 DEF Exports, Awaits

(* Fewer promises and no new confirmations. *)
LEMMA BetweenFrame ==
  ASSUME UNCHANGED <<disk, session, confirmed>>,
         \A r \in Answered' : r \in Answered /\ task'[r.task] = task[r.task],
         NEW v, Between(v)
  PROVE  Between(v)'
  BY DEF Between, Holds, Arg, Awaits, Leq

-----------------------------------------------------------------------------
(* Calls *)

MayCall(method, arg) ==
  \/ screen = "boot" /\ AllIdle /\ method = "list" /\ arg = Nothing
  \/ /\ screen = "onboarding" /\ AllIdle
     /\ \/ method \in {"init", "restore"} /\ arg \in Seeds
        \/ method = "import" /\ arg \in Vaults
  \/ /\ screen = "wallet"
     /\ \/ method \in {"list", "read"} /\ arg = Nothing
        \/ method = "write" /\ arg \in Items

(* A method starts with a step of its screen. *)
LEMMA FirstSteps ==
  ASSUME TypeOK, ScreenInv, NEW method, NEW arg, MayCall(method, arg),
         NEW cmd, cmd = FirstCommand(method)
  PROVE  /\ method \in Methods /\ cmd \in Commands /\ arg \in Args
         /\ screen = "boot" =>
              BootStep(method, cmd) /\ (cmd = "read" => unlocked)
         /\ screen = "onboarding" => OnboardingStep(method, cmd)
         /\ screen = "wallet" => WalletStep(method, cmd)
         /\ cmd = "vault_blob_set" => arg \in Vaults
         /\ cmd \notin {"unlock", "export_blob"}
         /\ method = "write" => cmd = "write"
         /\ method = "list" /\ cmd = "read" => unlocked
         /\ method \in {"init", "restore"} => cmd = method
<1>1. method \in Methods /\ arg \in Args
  BY DEF MayCall, Methods, Unlocking, Args
<1>2. CASE method \in {"list", "write"}
  BY <1>2 DEF MayCall, FirstCommand, MainOp, Unlocking, Commands, WorkerOps,
              BootStep, OnboardingStep, WalletStep, ScreenInv, Methods, Args
<1>3. CASE method \in {"read", "init", "restore", "import"}
  BY <1>3 DEF MayCall, FirstCommand, MainOp, Unlocking, Commands, WorkerOps,
              BootStep, OnboardingStep, WalletStep, Methods, Args
<1> QED
  BY <1>1, <1>2, <1>3 DEF MayCall

LEMMA CallKeepsIInv ==
  ASSUME IInv, NEW t \in Tasks, NEW method, NEW arg, MayCall(method, arg),
         Call(t, method, arg)
  PROVE  IInv'
<1> PICK cmd : cmd = FirstCommand(method)
  OBVIOUS
<1> PICK q : q = Request(t, cmd, arg)
  OBVIOUS
<1> USE DEF IInv
<1>0. /\ task[t] = Idle
      /\ task' = [task EXCEPT ![t] =
                   [method |-> method, awaits |-> cmd, arg |-> arg]]
      /\ inbox' = Append(inbox, q)
      /\ UNCHANGED <<disk, helper, session, outbox, unlocked, screen,
                     confirmed, backups>>
  BY DEF Call, shell
<1>1. /\ method \in Methods /\ cmd \in Commands /\ arg \in Args
      /\ screen = "boot" =>
           BootStep(method, cmd) /\ (cmd = "read" => unlocked)
      /\ screen = "onboarding" => OnboardingStep(method, cmd)
      /\ screen = "wallet" => WalletStep(method, cmd)
      /\ cmd = "vault_blob_set" => arg \in Vaults
      /\ cmd \notin {"unlock", "export_blob"}
      /\ method = "write" => cmd = "write"
      /\ method = "list" /\ cmd = "read" => unlocked
      /\ method \in {"init", "restore"} => cmd = method
  BY FirstSteps
<1>2. /\ q \in Requests /\ q.task = t /\ q.cmd = cmd /\ q.arg = arg
  BY <1>1 DEF Request, Requests
<1>3. /\ task'[t] = [method |-> method, awaits |-> cmd, arg |-> arg]
      /\ task'[t] # Idle
      /\ \A u \in Tasks : u # t => task'[u] = task[u]
  BY <1>0, <1>1 DEF TypeOK, Idle, Methods, Unlocking
<1>4. TypeOK'
  <2>1. task' \in [Tasks -> TaskStates]
    BY <1>0, <1>1 DEF TypeOK, TaskStates
  <2>2. inbox' \in Seq(Requests)
    BY <1>0, <1>2, MessageTypes, Appended
  <2> QED
    BY <1>0, <2>1, <2>2 DEF TypeOK
<1>5. \A m \in Asked \cup Answered :
        m.task \in Tasks /\ m.task # t /\ task'[m.task] = task[m.task]
  BY <1>0, <1>3, MessageTypes
  DEF MessagesInv, RequestOk, ReplyOk, Requests, Replies
<1>6. OneMessage' /\ Asked' = Asked \cup {q} /\ Answered' = Answered
  BY <1>0, <1>2, <1>5, SendKeepsOneMessage
<1>7. TasksInv'
  <2>1. TaskOk(t)'
    BY <1>0, <1>1, <1>3 DEF TaskOk, MayCall
  <2>2. ASSUME NEW u \in Tasks, u # t, task[u] # Idle
        PROVE  TaskOk(u)'
    BY <1>0, <1>3, <2>2 DEF TaskOk, TasksInv
  <2> QED
    BY <1>3, <2>1, <2>2 DEF TasksInv
<1>8. ScreenInv'
  BY <1>0, <1>3 DEF ScreenInv, MayCall, AllIdle
<1>9. NoCallIsLost'
  BY <1>2, <1>3, <1>6 DEF NoCallIsLost
<1>10. MessagesInv'
  <2>1. \A m \in Asked : RequestOk(m)'
    BY <1>0, <1>5, RequestFrame DEF MessagesInv
  <2>2. \A r \in Answered : ReplyOk(r)'
    BY <1>0, <1>5, ReplyFrame DEF MessagesInv
  <2>3. RequestOk(q)'
    BY <1>1, <1>2, <1>3 DEF RequestOk, Awaits, Method, Arg, MayCall
  <2> QED
    BY <1>6, <2>1, <2>2, <2>3 DEF MessagesInv
<1>11. ChainInv'
  <2> SUFFICES ASSUME screen = "wallet"
               PROVE  (\A v \in Line' : Between(v)') /\ Ordered'
    BY <1>0 DEF ChainInv
  <2>1. cmd # "vault_blob_set"
    BY <1>1 DEF WalletStep, MayCall
  <2>2. \A i \in Sets' : i + 0 \in Sets /\ inbox'[i] = inbox[i + 0]
    BY <1>0, <1>2, <2>1, SendShiftsSets
  <2>3. \A j \in Exports' : j + 0 \in Exports /\ outbox'[j] = outbox[j + 0]
    BY <1>0, <1>5 DEF Exports, Awaits, Answered
  <2>4. Ordered' /\ OnTheWay' \subseteq OnTheWay
    BY <2>2, <2>3, ShiftedChain DEF ChainInv
  <2>5. \A v \in Line' : v \in Line
    BY <1>0, <2>4 DEF Line
  <2>6. \A v : Between(v) => Between(v)'
    BY <1>0, <1>5, <1>6, BetweenFrame
  <2> QED
    BY <2>4, <2>5, <2>6 DEF ChainInv
<1>12. ConfirmedWritesAreStored'
  BY <1>0 DEF ConfirmedWritesAreStored
<1> QED
  BY <1>4, <1>6, <1>7, <1>8, <1>9, <1>10, <1>11, <1>12

-----------------------------------------------------------------------------
(* The shell serves a request *)

(* The steps of the call whose request is served.                          *)
LEMMA ServedStep ==
  ASSUME IInv, inbox # <<>>, NEW q, q = Head(inbox)
  PROVE  /\ q \in Requests /\ q.task \in Tasks /\ q.cmd \in Commands
         /\ RequestOk(q) /\ task[q.task] # Idle /\ TaskOk(q.task)
         /\ q.cmd = Awaits(q)
         /\ screen = "boot" => BootStep(Method(q), q.cmd)
         /\ screen = "onboarding" => OnboardingStep(Method(q), q.cmd)
         /\ screen = "wallet" => WalletStep(Method(q), q.cmd)
<1>1. q \in Asked /\ q \in Requests
  BY MessageTypes, TakenElements, Zenon DEF IInv, Asked
<1>2. RequestOk(q) /\ q.task \in Tasks /\ task[q.task] # Idle
      /\ q.cmd = Awaits(q) /\ q.cmd \in Commands
  BY <1>1 DEF IInv, MessagesInv, RequestOk, Requests
<1>3. TaskOk(q.task)
  BY <1>2 DEF IInv, TasksInv
<1> QED
  BY <1>1, <1>2, <1>3 DEF TaskOk, Method, Awaits

LEMMA ServedKeepsIInv ==
  ASSUME IInv, inbox # <<>>, NEW q, q = Head(inbox),
         NEW r \in Replies, r.task = q.task,
         inbox' = Tail(inbox), outbox' = Append(outbox, r),
         UNCHANGED <<unlocked, screen, task, backups>>,
         disk' \in Vaults \cup {Torn, NoVault},
         helper' \in {"none", "running", "dead"},
         session' \in Vaults \cup {Nothing},
         confirmed' \subseteq Seeds \X Items,
         screen = "boot" /\ unlocked => session' \in {Nothing, disk'},
         screen = "wallet" =>
           session' = Nothing \/ (session # Nothing /\ Leq(session, session')),
         ReplyOk(r)', ChainInv', ConfirmedWritesAreStored'
  PROVE  IInv'
<1> USE DEF IInv
<1>1. /\ OneMessage'
      /\ q \in Asked
      /\ Asked = Asked' \cup {q} /\ Answered' = Answered \cup {r}
      /\ \A m \in Asked' : m \in Asked /\ m.task # q.task
      /\ \A m \in Answered : m.task # q.task
  BY ReplyKeepsOneMessage
<1>2. TypeOK'
  <2>1. inbox' \in Seq(Requests)
    BY MessageTypes, Taken
  <2>2. outbox' \in Seq(Replies)
    BY MessageTypes, Appended
  <2> QED
    BY <2>1, <2>2 DEF TypeOK
<1>3. TasksInv' /\ ScreenInv'
  BY DEF TasksInv, TaskOk, ScreenInv
<1>4. NoCallIsLost'
  <2> SUFFICES ASSUME NEW t \in Tasks, task[t] # Idle
               PROVE  \E m \in Asked' \cup Answered' : m.task = t
    BY DEF NoCallIsLost
  <2> PICK m \in Asked \cup Answered : m.task = t
    BY DEF NoCallIsLost
  <2> QED
    BY <1>1
<1>5. MessagesInv'
  <2>1. CASE screen = "wallet"
    <3>1. /\ \A m \in Requests : RequestOk(m) => RequestOk(m)'
          /\ \A m \in Replies : ReplyOk(m) => ReplyOk(m)'
      BY <2>1, WalletFrame DEF Leq
    <3> QED
      BY <1>1, <3>1, MessageTypes DEF MessagesInv
  <2>2. CASE screen # "wallet"
    <3>1. \A m \in Asked \cup Answered : m.task = q.task
      BY <1>1, <2>2, OneCall
    <3> QED
      BY <1>1, <3>1 DEF MessagesInv
  <2> QED
    BY <2>1, <2>2
<1> QED
  BY <1>1, <1>2, <1>3, <1>4, <1>5

(* In the wallet, when nothing is stored and nothing exported.             *)
LEMMA ServedKeepsChain ==
  ASSUME IInv, inbox # <<>>, NEW q, q = Head(inbox),
         NEW r \in Replies, r.task = q.task,
         inbox' = Tail(inbox), outbox' = Append(outbox, r),
         UNCHANGED <<screen, task, confirmed>>,
         ~r.ok \/ Awaits(r) \notin {"export_blob", "vault_blob_set"},
         disk' = disk \/ disk' = Torn,
         session' = Nothing \/ (session # Nothing /\ Leq(session, session'))
  PROVE  ChainInv'
<1> USE DEF IInv
<1> SUFFICES ASSUME screen = "wallet"
             PROVE  (\A v \in Line' : Between(v)') /\ Ordered'
  BY DEF ChainInv
<1>1. Answered' = Answered \cup {r}
  BY ReplyKeepsOneMessage
<1>2. \A i \in Sets' : i + 1 \in Sets /\ inbox'[i] = inbox[i + 1]
  BY ServeShiftsSets
<1>3. \A j \in Exports' : j + 0 \in Exports /\ outbox'[j] = outbox[j + 0]
  BY ReplyShiftsExports
<1>4. Ordered' /\ OnTheWay' \subseteq OnTheWay
  BY <1>2, <1>3, ShiftedChain DEF ChainInv
<1>5. \A v \in Line' : v = session' \/ v \in Line
  BY <1>4, VaultAssumption DEF Line
<1>6. ASSUME NEW v \in Line, Between(v)
      PROVE  Between(v)'
  <2>1. disk' \in Vaults => disk' = disk
    BY VaultAssumption
  <2>2. (disk \in Vaults => Leq(disk, v))'
    BY <1>6, <2>1 DEF Between, Leq
  <2>3. (session # Nothing => Leq(v, session))'
    BY <1>6 DEF Between, Leq
  <2>4. Holds(v)'
    BY <1>1, <1>6 DEF Between, Holds, Awaits, Arg
  <2> QED
    BY <2>2, <2>3, <2>4 DEF Between
<1>7. ASSUME session' # Nothing
      PROVE  Between(session)'
  <2>1. Between(session) /\ Leq(session, session')
    BY <1>7 DEF ChainInv, Line
  <2>2. disk' \in Vaults => disk' = disk
    BY VaultAssumption
  <2>3. (disk \in Vaults => Leq(disk, session))'
    BY <2>1, <2>2 DEF Between, Leq
  <2>4. Leq(session, session)'
    BY DEF Leq
  <2>5. Holds(session)'
    BY <1>1, <2>1 DEF Between, Holds, Awaits, Arg, Leq
  <2> QED
    BY <2>3, <2>4, <2>5 DEF Between
<1>8. ASSUME NEW v \in Line'
      PROVE  Between(v)'
  <2>1. CASE v \in Line
    BY <2>1, <1>6 DEF ChainInv
  <2>2. CASE v = session' /\ v \notin Line
    <3>1. v # Nothing
      BY <1>8, <2>2, <1>4, VaultAssumption DEF Line
    <3> QED
      BY <1>7, <2>2, <3>1 DEF Between, Holds, Leq
  <2> QED
    BY <1>5, <2>1, <2>2
<1> QED
  BY <1>4, <1>8

LEMMA Replied ==
  ASSUME TypeOK, inbox # <<>>, NEW ok \in BOOLEAN, NEW value \in Args \cup {NoVault},
         Reply(ok, value)
  PROVE  \E r \in Replies :
           /\ r = [task |-> Head(inbox).task, ok |-> ok, value |-> value]
           /\ inbox' = Tail(inbox) /\ outbox' = Append(outbox, r)
  BY MessageTypes, Taken DEF Reply, Replies, Requests

LEMMA VaultBlobGetKeepsIInv ==
  ASSUME IInv, VaultBlobGet
  PROVE  IInv'
<1> USE DEF IInv
<1> PICK q : q = Head(inbox)
  OBVIOUS
<1>1. /\ inbox # <<>> /\ q.cmd = "vault_blob_get"
      /\ UNCHANGED <<disk, helper, session, unlocked, screen, task, backups,
                     confirmed>>
  BY DEF VaultBlobGet, shell, webview
<1>2. screen = "boot" /\ q.cmd = Awaits(q) /\ task[q.task] # Idle
      /\ Method(q) = "list"
  BY <1>1, ServedStep
  DEF BootStep, OnboardingStep, WalletStep, TypeOK
<1>3. PICK ok \in BOOLEAN, value \in Args \cup {NoVault} :
        Reply(ok, value) /\ (ok => value = disk)
  <2>1. disk \in Args \cup {NoVault} /\ Nothing \in Args \cup {NoVault}
    BY DEF TypeOK, Args
  <2> QED
    BY <2>1 DEF VaultBlobGet
<1>4. PICK r \in Replies :
        /\ r = [task |-> q.task, ok |-> ok, value |-> value]
        /\ inbox' = Tail(inbox) /\ outbox' = Append(outbox, r)
  BY <1>1, <1>3, Replied
<1>5. ReplyOk(r)'
  BY <1>1, <1>2, <1>3, <1>4 DEF ReplyOk, Awaits, Method
<1>6. ChainInv' /\ ConfirmedWritesAreStored'
  BY <1>1, <1>2 DEF ChainInv, ConfirmedWritesAreStored
<1> QED
  BY <1>1, <1>2, <1>4, <1>5, <1>6, ServedKeepsIInv DEF TypeOK, ScreenInv

(* A call on a helper that is not there, and the end of one that is.       *)
LEMMA LezOpNoHelperKeepsIInv ==
  ASSUME IInv, LezOpNoHelper
  PROVE  IInv'
<1> USE DEF IInv
<1> PICK q : q = Head(inbox)
  OBVIOUS
<1>1. /\ inbox # <<>> /\ helper' = "none" /\ session' = Nothing
      /\ Reply(FALSE, Nothing)
      /\ UNCHANGED <<disk, unlocked, screen, task, backups, confirmed>>
  BY DEF LezOpNoHelper, webview
<1>2. PICK r \in Replies :
        /\ r = [task |-> q.task, ok |-> FALSE, value |-> Nothing]
        /\ inbox' = Tail(inbox) /\ outbox' = Append(outbox, r)
  BY <1>1, Replied DEF Args
<1>3. ReplyOk(r)'
  BY <1>1, <1>2, ServedStep DEF ReplyOk
<1>4. ChainInv'
  BY <1>1, <1>2, ServedKeepsChain
<1>5. ConfirmedWritesAreStored'
  BY <1>1 DEF ConfirmedWritesAreStored
<1> QED
  BY <1>1, <1>2, <1>3, <1>4, <1>5, ServedKeepsIInv DEF TypeOK, ScreenInv

LEMMA LezOpFailsKeepsIInv ==
  ASSUME IInv, inbox # <<>>, helper' = "running",
         NEW s, s = (IF helper = "none" THEN Nothing ELSE session),
         \/ session' = s
         \/ /\ Head(inbox).cmd = "write" /\ s # Nothing
            /\ session' = SessionAfter("write", Head(inbox).arg, s),
         Reply(FALSE, Nothing),
         UNCHANGED <<disk, unlocked, screen, task, backups, confirmed>>
  PROVE  IInv'
<1> USE DEF IInv
<1> PICK q : q = Head(inbox)
  OBVIOUS
<1>1. PICK r \in Replies :
        /\ r = [task |-> q.task, ok |-> FALSE, value |-> Nothing]
        /\ inbox' = Tail(inbox) /\ outbox' = Append(outbox, r)
  BY Replied DEF Args
<1>2. q.cmd = "write" => screen = "wallet" /\ q.arg \in Items
  <2> SUFFICES ASSUME q.cmd = "write" PROVE screen = "wallet" /\ q.arg \in Items
    OBVIOUS
  <2>1. screen = "wallet"
    BY ServedStep DEF BootStep, OnboardingStep, TypeOK
  <2>2. Method(q) = "write" /\ q.arg = Arg(q)
    BY <2>1, ServedStep DEF WalletStep, RequestOk
  <2> QED
    BY <2>1, <2>2, ServedStep DEF TaskOk, Method, Arg
<1>3. /\ session' \in Vaults \cup {Nothing}
      /\ session' # s => screen = "wallet"
      /\ session' = Nothing \/ (session # Nothing /\ Leq(session, session'))
  <2>1. CASE session' = s
    BY <2>1 DEF TypeOK, Leq
  <2>2. CASE q.cmd = "write" /\ s # Nothing /\ session' = SessionAfter("write", q.arg, s)
    <3>1. s = session /\ s \in Vaults
      BY <2>2 DEF TypeOK
    <3>2. session' = [s EXCEPT !.items = @ \cup {q.arg}]
      BY <2>2 DEF SessionAfter
    <3>3. session' \in Vaults /\ session'.seed = s.seed
          /\ session'.items = s.items \cup {q.arg}
      BY <1>2, <2>2, <3>1, <3>2, WrittenVault
    <3> QED
      BY <1>2, <2>2, <3>1, <3>3 DEF Leq
  <2> QED
    BY <2>1, <2>2
<1>4. ReplyOk(r)'
  BY <1>1, ServedStep DEF ReplyOk
<1>5. ChainInv'
  BY <1>1, <1>3, ServedKeepsChain
<1>6. ConfirmedWritesAreStored'
  BY DEF ConfirmedWritesAreStored
<1>7. screen = "boot" /\ unlocked => session' \in {Nothing, disk'}
  BY <1>3 DEF ScreenInv
<1> QED
  BY <1>1, <1>3, <1>4, <1>5, <1>6, <1>7, ServedKeepsIInv DEF TypeOK

(* An op that succeeds, as the shell's answer to it. *)
Answers(s) ==
  LET op  == Head(inbox).cmd
      arg == Head(inbox).arg
  IN  /\ inbox # <<>> /\ op \in WorkerOps
      /\ Succeeds(op, arg, s)
      /\ helper' = "running" /\ session' = SessionAfter(op, arg, s)
      /\ Reply(TRUE, Output(op, s))
      /\ UNCHANGED <<disk, unlocked, screen, task, backups, confirmed>>

(* Nothing new in the session, or another session before the wallet.       *)
LEMMA OpensOrReadsKeepsIInv ==
  ASSUME IInv, NEW s \in {Nothing, session}, Answers(s),
         Head(inbox).cmd \in {"read", "unlock", "init", "restore"}
  PROVE  IInv'
<1> USE DEF IInv
<1> PICK q : q = Head(inbox)
  OBVIOUS
<1>1. /\ inbox # <<>> /\ Reply(TRUE, Nothing) /\ helper' = "running"
      /\ session' = SessionAfter(q.cmd, q.arg, s) /\ Succeeds(q.cmd, q.arg, s)
      /\ UNCHANGED <<disk, unlocked, screen, task, backups, confirmed>>
  BY DEF Answers, Output
<1>2. PICK r \in Replies :
        /\ r = [task |-> q.task, ok |-> TRUE, value |-> Nothing]
        /\ inbox' = Tail(inbox) /\ outbox' = Append(outbox, r)
  BY <1>1, Replied DEF Args
<1>3. /\ TaskOk(q.task) /\ RequestOk(q) /\ q.cmd = Awaits(q) /\ task[q.task] # Idle
      /\ screen = "boot" => BootStep(Method(q), q.cmd)
      /\ screen = "onboarding" => OnboardingStep(Method(q), q.cmd)
      /\ screen = "wallet" => WalletStep(Method(q), q.cmd)
      /\ screen \in {"boot", "onboarding", "wallet"}
  BY <1>1, ServedStep DEF TypeOK
<1>4. CASE q.cmd = "read"
  <2>1. session' = s /\ s # Nothing
    BY <1>1, <1>4 DEF SessionAfter, Succeeds
  <2>2. session' = session /\ session # Nothing
    BY <2>1
  <2>3. ReplyOk(r)'
    BY <1>1, <1>2, <1>3, <1>4
    DEF ReplyOk, Awaits, Method, BootStep, OnboardingStep, WalletStep
  <2>4. ChainInv'
    BY <1>1, <1>2, <1>3, <1>4, <2>2, ServedKeepsChain DEF Awaits, Leq
  <2>5. ConfirmedWritesAreStored'
    BY <1>1 DEF ConfirmedWritesAreStored
  <2> QED
    BY <1>1, <1>2, <2>2, <2>3, <2>4, <2>5, ServedKeepsIInv DEF TypeOK, ScreenInv, Leq
<1>5. CASE q.cmd = "unlock"
  <2>1. session' = q.arg /\ q.arg \in Vaults
    BY <1>1, <1>5 DEF SessionAfter, Succeeds
  <2>2. screen # "wallet" /\ q.arg = disk /\ (Method(q) = "import" => confirmed = {})
    BY <1>3, <1>5 DEF WalletStep, RequestOk
  <2>3. ReplyOk(r)'
    BY <1>1, <1>2, <1>3, <1>5, <2>1, <2>2
    DEF ReplyOk, Awaits, Method, BootStep, OnboardingStep
  <2>4. ChainInv' /\ ConfirmedWritesAreStored'
    BY <1>1, <2>2 DEF ChainInv, ConfirmedWritesAreStored
  <2> QED
    BY <1>1, <1>2, <2>1, <2>2, <2>3, <2>4, ServedKeepsIInv DEF TypeOK
<1>6. CASE q.cmd \in {"init", "restore"}
  <2>1. screen = "onboarding" /\ Method(q) = q.cmd /\ q.arg = Arg(q)
    BY <1>3, <1>6 DEF BootStep, OnboardingStep, WalletStep, RequestOk
  <2>2. q.arg \in Seeds
    BY <1>3, <1>6, <2>1 DEF TaskOk, Method, Arg
  <2>3. session' \in Vaults
    BY <1>1, <1>6, <2>2, FreshVault DEF SessionAfter
  <2>4. ReplyOk(r)'
    BY <1>1, <1>2, <1>3, <1>6, <2>1 DEF ReplyOk, Awaits, Method
  <2>5. ChainInv' /\ ConfirmedWritesAreStored'
    BY <1>1, <2>1 DEF ChainInv, ConfirmedWritesAreStored
  <2> QED
    BY <1>1, <1>2, <2>1, <2>3, <2>4, <2>5, ServedKeepsIInv DEF TypeOK
<1> QED
  BY <1>4, <1>5, <1>6

LEMMA WriteKeepsIInv ==
  ASSUME IInv, NEW s \in {Nothing, session}, Answers(s),
         Head(inbox).cmd = "write"
  PROVE  IInv'
<1> USE DEF IInv
<1> PICK q : q = Head(inbox)
  OBVIOUS
<1>1. /\ inbox # <<>> /\ Reply(TRUE, Nothing) /\ helper' = "running"
      /\ session' = SessionAfter(q.cmd, q.arg, s) /\ Succeeds(q.cmd, q.arg, s)
      /\ UNCHANGED <<disk, unlocked, screen, task, backups, confirmed>>
      /\ q.cmd = "write"
  BY DEF Answers, Output
<1>2. PICK r \in Replies :
        /\ r = [task |-> q.task, ok |-> TRUE, value |-> Nothing]
        /\ inbox' = Tail(inbox) /\ outbox' = Append(outbox, r)
  BY <1>1, Replied DEF Args
<1>3. /\ TaskOk(q.task) /\ RequestOk(q) /\ q.cmd = Awaits(q) /\ task[q.task] # Idle
      /\ screen = "wallet" /\ Method(q) = "write" /\ q.arg = Arg(q)
  BY <1>1, ServedStep
  DEF TypeOK, BootStep, OnboardingStep, WalletStep, RequestOk
<1>4. q.arg \in Items
  BY <1>3 DEF TaskOk, Method, Arg
<1>5. s # Nothing /\ s = session /\ s \in Vaults
  BY <1>1 DEF Succeeds, TypeOK
<1>6. session' = [s EXCEPT !.items = @ \cup {q.arg}]
  BY <1>1 DEF SessionAfter
<1>7. /\ session' \in Vaults /\ session' # Nothing /\ Leq(session, session')
      /\ q.arg \in session'.items
  BY <1>4, <1>5, <1>6, WrittenVault, VaultAssumption DEF Leq
<1>8. ReplyOk(r)'
  BY <1>1, <1>2, <1>3, <1>7 DEF ReplyOk, Awaits, Method, Arg
<1>9. ChainInv'
  BY <1>1, <1>2, <1>3, <1>5, <1>7, ServedKeepsChain DEF Awaits
<1>10. ConfirmedWritesAreStored'
  BY <1>1 DEF ConfirmedWritesAreStored
<1> QED
  BY <1>1, <1>2, <1>3, <1>5, <1>7, <1>8, <1>9, <1>10, ServedKeepsIInv DEF TypeOK

LEMMA ExportKeepsIInv ==
  ASSUME IInv, NEW s \in {Nothing, session}, Answers(s),
         Head(inbox).cmd = "export_blob"
  PROVE  IInv'
<1> USE DEF IInv
<1> PICK q : q = Head(inbox)
  OBVIOUS
<1>1. /\ inbox # <<>> /\ Reply(TRUE, s) /\ helper' = "running"
      /\ s = session /\ session # Nothing /\ session \in Vaults
      /\ UNCHANGED <<disk, session, unlocked, screen, task, backups, confirmed>>
      /\ q.cmd = "export_blob"
  BY DEF Answers, Output, SessionAfter, Succeeds, TypeOK
<1>2. PICK r \in Replies :
        /\ r = [task |-> q.task, ok |-> TRUE, value |-> session]
        /\ inbox' = Tail(inbox) /\ outbox' = Append(outbox, r)
  BY <1>1, Replied DEF Args
<1>3. /\ RequestOk(q) /\ q.cmd = Awaits(q) /\ task[q.task] # Idle
  BY <1>1, ServedStep
<1>4. ReplyOk(r)'
  BY <1>1, <1>2, <1>3 DEF ReplyOk, RequestOk, Awaits, Method, Arg, Ready
<1>5. ChainInv'
  <2> SUFFICES ASSUME screen = "wallet"
               PROVE  (\A v \in Line' : Between(v)') /\ Ordered'
    BY <1>1 DEF ChainInv
  <2>1. Answered' = Answered \cup {r}
    BY <1>1, <1>2, ReplyKeepsOneMessage
  <2>2. \A i \in Sets' : i + 1 \in Sets /\ inbox'[i] = inbox[i + 1]
    BY <1>1, <1>2, ServeShiftsSets
  <2>3. /\ Len(outbox) \in Nat /\ Len(outbox') = Len(outbox) + 1
        /\ \A i \in 1..Len(outbox) : outbox'[i] = outbox[i]
        /\ outbox'[Len(outbox) + 1] = r
    BY <1>2, MessageTypes, Appended
  <2>4. \A j \in Exports' : \/ j \in Exports /\ outbox'[j] = outbox[j]
                            \/ j = Len(outbox) + 1 /\ outbox'[j].value = session
    BY <1>1, <1>2, <2>3 DEF Exports, Awaits
  <2>5. /\ \A i \in Sets : i \in Nat
        /\ \A j \in Exports : j \in Nat /\ j <= Len(outbox)
        /\ \A i \in Sets' : i \in Nat
    BY <2>3 DEF Sets, Exports
  <2>6. /\ \A i \in Sets : Leq(inbox[i].arg, session)
        /\ \A j \in Exports : Leq(outbox[j].value, session)
    BY <1>1 DEF ChainInv, Line, OnTheWay, Between
  <2>7. \A v \in Line' : v \in Line
    <3>1. \A i \in Sets' : inbox'[i].arg \in Line
      BY <2>2 DEF Line, OnTheWay
    <3>2. \A j \in Exports' : outbox'[j].value \in Line
      BY <1>1, <2>4 DEF Line, OnTheWay
    <3> QED
      BY <1>1, <3>1, <3>2 DEF Line, OnTheWay
  <2>8. \A i, j \in Sets' : i < j => Leq(inbox'[i].arg, inbox'[j].arg)
    BY <2>2, <2>5 DEF ChainInv, Ordered
  <2>9. \A i, j \in Exports' : i < j => Leq(outbox'[i].value, outbox'[j].value)
    BY <2>4, <2>5, <2>6 DEF ChainInv, Ordered
  <2>10. \A i \in Sets', j \in Exports' : Leq(inbox'[i].arg, outbox'[j].value)
    BY <2>2, <2>4, <2>6 DEF ChainInv, Ordered
  <2>11. Ordered'
    BY <2>8, <2>9, <2>10 DEF Ordered, Leq
  <2>12. ASSUME NEW v, Between(v)
         PROVE  Between(v)'
    BY <1>1, <1>2, <1>3, <2>1, <2>12 DEF Between, Holds, Awaits, Arg, Leq
  <2> QED
    BY <2>7, <2>11, <2>12 DEF ChainInv
<1>6. ConfirmedWritesAreStored'
  BY <1>1 DEF ConfirmedWritesAreStored
<1> QED
  BY <1>1, <1>2, <1>4, <1>5, <1>6, ServedKeepsIInv DEF TypeOK, ScreenInv, Leq

LEMMA LezOpKeepsIInv ==
  ASSUME IInv, LezOp
  PROVE  IInv'
<1> PICK s : s = IF helper = "none" THEN Nothing ELSE session
  OBVIOUS
<1> PICK op, arg : op = Head(inbox).cmd /\ arg = Head(inbox).arg
  OBVIOUS
<1>1. /\ inbox # <<>> /\ op \in WorkerOps /\ helper' = "running"
      /\ UNCHANGED <<disk, unlocked, screen, task, backups, confirmed>>
      /\ s \in {Nothing, session}
  BY DEF LezOp, webview
<1>2. CASE Succeeds(op, arg, s) /\ session' = SessionAfter(op, arg, s)
           /\ Reply(TRUE, Output(op, s))
  <2>1. Answers(s)
    BY <1>1, <1>2 DEF Answers
  <2> QED
    BY <1>1, <2>1, OpensOrReadsKeepsIInv, WriteKeepsIInv, ExportKeepsIInv
    DEF WorkerOps
<1>3. CASE /\ session' \in {s} \cup IF op = "write" /\ s # Nothing
                                    THEN {SessionAfter(op, arg, s)} ELSE {}
           /\ Reply(FALSE, Nothing)
  <2>1. \/ session' = s
        \/ /\ Head(inbox).cmd = "write" /\ s # Nothing
           /\ session' = SessionAfter("write", Head(inbox).arg, s)
    BY <1>3
  <2> QED
    BY <1>1, <1>3, <2>1, LezOpFailsKeepsIInv
<1>4. \/ Succeeds(op, arg, s) /\ session' = SessionAfter(op, arg, s)
         /\ Reply(TRUE, Output(op, s))
      \/ /\ session' \in {s} \cup IF op = "write" /\ s # Nothing
                                  THEN {SessionAfter(op, arg, s)} ELSE {}
         /\ Reply(FALSE, Nothing)
  BY DEF LezOp
<1> QED
  BY <1>2, <1>3, <1>4

(* A store is a step of an onboarding or of a write. *)
LEMMA StoreStep ==
  ASSUME IInv, inbox # <<>>, NEW q, q = Head(inbox), q.cmd = "vault_blob_set"
  PROVE  /\ q.arg \in Vaults /\ RequestOk(q) /\ Awaits(q) = q.cmd
         /\ task[q.task] # Idle
         /\ screen \in {"onboarding", "wallet"}
         /\ screen = "onboarding" =>
              /\ Method(q) \in {"init", "restore", "import"}
              /\ StillConfirmed = {}
         /\ screen = "wallet" => Method(q) = "write" /\ StillConfirmed = confirmed
<1>1. RequestOk(q) /\ q.arg \in Vaults /\ screen \in {"onboarding", "wallet"}
  BY ServedStep DEF RequestOk, BootStep, IInv, TypeOK
<1>2. screen = "onboarding" => Method(q) \in {"init", "restore", "import"}
  BY ServedStep DEF OnboardingStep
<1>3. screen = "wallet" => Method(q) = "write"
  BY ServedStep DEF WalletStep
<1> QED
  BY <1>1, <1>2, <1>3, ServedStep DEF StillConfirmed, Method

(* The request that stores is the first of the chain. *)
LEMMA StoredIsFirst ==
  ASSUME IInv, screen = "wallet", inbox # <<>>, NEW q, q = Head(inbox),
         q.cmd = "vault_blob_set"
  PROVE  /\ q.arg \in Vaults /\ Between(q.arg) /\ Arg(q) \in q.arg.items
         /\ \A v \in OnTheWay : Leq(q.arg, v)
         /\ session # Nothing => Leq(q.arg, session)
<1> USE DEF IInv
<1>1. /\ 1 \in Sets /\ inbox[1] = q /\ \A i \in Sets : i \in Nat /\ i >= 1
  BY MessageTypes, Taken DEF Sets
<1>2. Between(q.arg) /\ Ordered
  BY <1>1 DEF ChainInv, Line, OnTheWay
<1>3. \A i \in Sets : i = 1 \/ 1 < i
  BY <1>1
<1>4. \A i \in Sets : Leq(q.arg, inbox[i].arg)
  BY <1>1, <1>2, <1>3, LeqIsAnOrder DEF Ordered
<1>5. \A j \in Exports : Leq(q.arg, outbox[j].value)
  BY <1>1, <1>2 DEF Ordered
<1>6. \A v \in OnTheWay : Leq(q.arg, v)
  BY <1>4, <1>5 DEF OnTheWay
<1> QED
  BY <1>2, <1>6, StoreStep DEF RequestOk, Between

LEMMA StoringKeepsChain ==
  ASSUME IInv, screen = "wallet", inbox # <<>>, NEW q, q = Head(inbox),
         q.cmd = "vault_blob_set",
         NEW r \in Replies, r = [task |-> q.task, ok |-> TRUE, value |-> Nothing],
         inbox' = Tail(inbox), outbox' = Append(outbox, r),
         disk' = q.arg, UNCHANGED <<session, confirmed, screen, task>>
  PROVE  ChainInv'
<1> USE DEF IInv
<1>1. /\ q.arg \in Vaults /\ Between(q.arg) /\ Arg(q) \in q.arg.items
      /\ \A v \in OnTheWay : Leq(q.arg, v)
      /\ session # Nothing => Leq(q.arg, session)
  BY StoredIsFirst
<1>2. Answered' = Answered \cup {r} /\ Awaits(r) = "vault_blob_set" /\ Arg(r) = Arg(q)
  BY ReplyKeepsOneMessage, StoreStep DEF Awaits, Arg
<1>3. \A i \in Sets' : i + 1 \in Sets /\ inbox'[i] = inbox[i + 1]
  BY ServeShiftsSets
<1>4. \A j \in Exports' : j + 0 \in Exports /\ outbox'[j] = outbox[j + 0]
  BY <1>2, ReplyShiftsExports
<1>5. Ordered' /\ OnTheWay' \subseteq OnTheWay
  BY <1>3, <1>4, ShiftedChain DEF ChainInv
<1>6. \A v \in Line' : /\ v = q.arg \/ v \in Line
                       /\ Leq(q.arg, v)
  BY <1>1, <1>5, LeqIsAnOrder DEF Line
<1>7. \A v \in Line' : Between(v)
  BY <1>1, <1>6 DEF ChainInv
<1>8. ASSUME NEW v \in Line'
      PROVE  Between(v)'
  <2>1. (disk \in Vaults => Leq(disk, v))'
    BY <1>6, <1>8 DEF Leq
  <2>2. (session # Nothing => Leq(v, session))'
    BY <1>7, <1>8 DEF Between, Leq
  <2>3. Arg(q) \in v.items
    BY <1>1, <1>6, <1>8 DEF Leq
  <2>4. Holds(v)'
    BY <1>2, <1>7, <1>8, <2>3 DEF Between, Holds, Awaits, Arg
  <2> QED
    BY <2>1, <2>2, <2>4 DEF Between
<1> QED
  BY <1>5, <1>8 DEF ChainInv

LEMMA StoreSucceedsKeepsIInv ==
  ASSUME IInv, inbox # <<>>, Head(inbox).cmd = "vault_blob_set",
         disk' = Head(inbox).arg, Reply(TRUE, Nothing),
         confirmed' = StillConfirmed,
         UNCHANGED <<helper, session, unlocked, screen, task, backups>>
  PROVE  IInv'
<1> USE DEF IInv
<1> PICK q : q = Head(inbox)
  OBVIOUS
<1>1. PICK r \in Replies :
        /\ r = [task |-> q.task, ok |-> TRUE, value |-> Nothing]
        /\ inbox' = Tail(inbox) /\ outbox' = Append(outbox, r)
  BY Replied DEF Args
<1>2. /\ q.arg \in Vaults /\ RequestOk(q) /\ Awaits(q) = q.cmd
      /\ task[q.task] # Idle
      /\ screen \in {"onboarding", "wallet"}
      /\ screen = "onboarding" =>
           /\ Method(q) \in {"init", "restore", "import"}
           /\ StillConfirmed = {}
      /\ screen = "wallet" => Method(q) = "write" /\ StillConfirmed = confirmed
  BY StoreStep
<1>3. confirmed' \subseteq Seeds \X Items
  BY <1>2 DEF TypeOK
<1>4. ReplyOk(r)'
  BY <1>1, <1>2 DEF ReplyOk, RequestOk, Awaits, Method, Arg, Ready
<1>5. ChainInv' /\ ConfirmedWritesAreStored'
  <2>1. CASE screen = "onboarding"
    BY <1>2, <2>1 DEF ChainInv, ConfirmedWritesAreStored
  <2>2. CASE screen = "wallet"
    <3>1. ChainInv'
      BY <1>1, <1>2, <2>2, StoringKeepsChain
    <3>2. Between(q.arg)
      BY <2>2, StoredIsFirst
    <3> QED
      BY <1>2, <2>2, <3>1, <3>2 DEF Between, Holds, ConfirmedWritesAreStored
  <2> QED
    BY <1>2, <2>1, <2>2
<1> QED
  BY <1>1, <1>2, <1>3, <1>4, <1>5, ServedKeepsIInv DEF TypeOK, Leq

LEMMA StoreFailsKeepsIInv ==
  ASSUME IInv, inbox # <<>>, Head(inbox).cmd = "vault_blob_set",
         disk' \in {disk, Torn}, Reply(FALSE, Nothing),
         UNCHANGED <<helper, session, unlocked, screen, task, backups, confirmed>>
  PROVE  IInv'
<1> USE DEF IInv
<1> PICK q : q = Head(inbox)
  OBVIOUS
<1>1. PICK r \in Replies :
        /\ r = [task |-> q.task, ok |-> FALSE, value |-> Nothing]
        /\ inbox' = Tail(inbox) /\ outbox' = Append(outbox, r)
  BY Replied DEF Args
<1>2. ReplyOk(r)' /\ screen # "boot"
  BY <1>1, StoreStep DEF ReplyOk
<1>3. ChainInv'
  BY <1>1, ServedKeepsChain DEF Leq
<1>4. ConfirmedWritesAreStored'
  BY VaultAssumption DEF ConfirmedWritesAreStored
<1> QED
  BY <1>1, <1>2, <1>3, <1>4, ServedKeepsIInv DEF TypeOK, Leq

LEMMA ServeKeepsIInv ==
  ASSUME IInv, Serve
  PROVE  IInv'
<1>1. CASE VaultBlobSet
  <2>1. /\ inbox # <<>> /\ Head(inbox).cmd = "vault_blob_set"
        /\ UNCHANGED <<helper, session, unlocked, screen, task, backups>>
    BY <1>1 DEF VaultBlobSet, webview
  <2> QED
    BY <1>1, <2>1, StoreSucceedsKeepsIInv, StoreFailsKeepsIInv DEF VaultBlobSet
<1> QED
  BY <1>1, VaultBlobGetKeepsIInv, LezOpKeepsIInv, LezOpNoHelperKeepsIInv DEF Serve

-----------------------------------------------------------------------------
(* A call takes its reply *)

LEMMA TakenStep ==
  ASSUME IInv, outbox # <<>>, NEW r, r = Head(outbox)
  PROVE  /\ r \in Answered /\ r \in Replies /\ r.task \in Tasks
         /\ task[r.task] # Idle /\ ReplyOk(r) /\ TaskOk(r.task)
         /\ task[r.task] \in [method : Methods, awaits : Commands, arg : Args]
         /\ screen = "boot" => BootStep(Method(r), Awaits(r))
         /\ screen = "onboarding" => OnboardingStep(Method(r), Awaits(r))
         /\ screen = "wallet" => WalletStep(Method(r), Awaits(r))
<1>1. r \in Answered /\ r \in Replies
  BY MessageTypes, TakenElements, Zenon DEF IInv, Answered
<1>2. r.task \in Tasks /\ task[r.task] # Idle /\ ReplyOk(r)
  BY <1>1 DEF IInv, MessagesInv, ReplyOk, Replies
<1>3. TaskOk(r.task) /\ task[r.task] \in [method : Methods, awaits : Commands, arg : Args]
  BY <1>2, BusyTask DEF IInv, TasksInv
<1> QED
  BY <1>1, <1>2, <1>3 DEF TaskOk, Method, Awaits

LEMMA AwaitKeepsIInv ==
  ASSUME IInv, outbox # <<>>, NEW t, t = Head(outbox).task,
         NEW m \in Methods, NEW q \in Requests, q.task = t,
         task' = [task EXCEPT ![t] = [method |-> m, awaits |-> q.cmd,
                                      arg |-> task[t].arg]],
         inbox' = Append(inbox, q), outbox' = Tail(outbox),
         UNCHANGED <<disk, helper, session, screen, confirmed, backups>>,
         unlocked' \in BOOLEAN, unlocked => unlocked',
         screen = "boot" /\ unlocked' => session \in {Nothing, disk},
         TaskOk(t)', RequestOk(q)', ChainInv'
  PROVE  IInv'
<1> USE DEF IInv
<1>1. /\ t \in Tasks /\ task[t] # Idle
      /\ task[t] \in [method : Methods, awaits : Commands, arg : Args]
  BY TakenStep
<1>2. /\ OneMessage' /\ Asked' = Asked \cup {q}
      /\ Answered = Answered' \cup {Head(outbox)}
      /\ \A n \in Answered' : n \in Answered /\ n.task # t
      /\ \A n \in Asked : n.task # t
  BY TakeAndSendKeepOneMessage, TakenReply
<1>3. task'[t] # Idle /\ \A u \in Tasks : u # t => task'[u] = task[u]
  BY <1>1 DEF TypeOK, Idle, Methods, Unlocking
<1>4. TypeOK'
  <2>1. task' \in [Tasks -> TaskStates]
    BY <1>1 DEF TypeOK, TaskStates, Requests
  <2>2. inbox' \in Seq(Requests) /\ outbox' \in Seq(Replies)
    BY MessageTypes, Appended, Taken
  <2> QED
    BY <2>1, <2>2 DEF TypeOK
<1>5. \A n \in Asked \cup Answered' : task'[n.task] = task[n.task]
  BY <1>2, <1>3, MessageTypes DEF Requests, Replies
<1>6. TasksInv'
  BY <1>3 DEF TasksInv, TaskOk
<1>7. ScreenInv'
  BY <1>1, <1>3 DEF ScreenInv
<1>8. NoCallIsLost'
  <2> SUFFICES ASSUME NEW u \in Tasks, task[u] # Idle, u # t
               PROVE  \E n \in Asked' \cup Answered' : n.task = u
    BY <1>1, <1>2, <1>3 DEF NoCallIsLost
  <2> PICK n \in Asked \cup Answered : n.task = u
    BY DEF NoCallIsLost
  <2> QED
    BY <1>2
<1>9. MessagesInv'
  <2>1. \A n \in Asked : RequestOk(n)'
    BY <1>5, RequestFrame DEF MessagesInv
  <2>2. \A n \in Answered' : ReplyOk(n)'
    BY <1>2, <1>5, ReplyFrame DEF MessagesInv
  <2> QED
    BY <1>2, <2>1, <2>2 DEF MessagesInv
<1>10. ConfirmedWritesAreStored'
  BY DEF ConfirmedWritesAreStored
<1> QED
  BY <1>2, <1>4, <1>6, <1>7, <1>8, <1>9, <1>10

LEMMA SettleKeepsIInv ==
  ASSUME IInv, outbox # <<>>, NEW t, t = Head(outbox).task,
         task' = [task EXCEPT ![t] = Idle],
         outbox' = Tail(outbox), UNCHANGED <<disk, helper, session, inbox>>,
         unlocked' \in BOOLEAN, unlocked => unlocked',
         screen' \in {"boot", "onboarding", "wallet"},
         screen = "wallet" => screen' = "wallet",
         screen # "wallet" => UNCHANGED confirmed,
         screen' = "wallet" => unlocked',
         screen' = "boot" /\ unlocked' => session \in {Nothing, disk},
         confirmed' \subseteq Seeds \X Items, backups' \subseteq Vaults,
         ChainInv', ConfirmedWritesAreStored'
  PROVE  IInv'
<1> USE DEF IInv
<1>1. t \in Tasks /\ task[t] # Idle
  BY TakenStep
<1>2. /\ OneMessage' /\ Asked' = Asked
      /\ Answered = Answered' \cup {Head(outbox)}
      /\ Head(outbox) \in Answered
      /\ \A n \in Answered' : n \in Answered /\ n.task # t
      /\ \A n \in Asked : n.task # t
  BY TakeKeepsOneMessage, TakenReply DEF Asked
<1>3. task'[t] = Idle /\ \A u \in Tasks : u # t => task'[u] = task[u]
  BY <1>1 DEF TypeOK
<1>4. TypeOK'
  <2>1. task' \in [Tasks -> TaskStates]
    BY <1>1 DEF TypeOK, TaskStates
  <2>2. outbox' \in Seq(Replies)
    BY MessageTypes, Taken
  <2> QED
    BY <2>1, <2>2 DEF TypeOK
<1>5. screen # "wallet" => \A u \in Tasks : task'[u] = Idle
  BY <1>1, <1>3 DEF ScreenInv
<1>6. TasksInv'
  <2> SUFFICES ASSUME NEW u \in Tasks, task'[u] # Idle PROVE TaskOk(u)'
    BY DEF TasksInv
  <2> QED
    BY <1>3, <1>5 DEF TasksInv, TaskOk
<1>7. ScreenInv'
  BY <1>3, <1>5 DEF ScreenInv
<1>8. NoCallIsLost'
  <2> SUFFICES ASSUME NEW u \in Tasks, task[u] # Idle, u # t
               PROVE  \E n \in Asked' \cup Answered' : n.task = u
    BY <1>3 DEF NoCallIsLost
  <2> PICK n \in Asked \cup Answered : n.task = u
    BY DEF NoCallIsLost
  <2> QED
    BY <1>2
<1>9. MessagesInv'
  <2>1. \A n \in Asked \cup Answered' : task'[n.task] = task[n.task]
    BY <1>2, <1>3, MessageTypes DEF Requests, Replies
  <2>2. CASE screen # "wallet"
    <3>1. \A n \in Asked \cup Answered' : n.task = t
      BY <1>2, <2>2, OneCall
    <3> QED
      BY <1>2, <3>1 DEF MessagesInv
  <2>3. CASE screen = "wallet"
    <3>1. /\ \A n \in Requests :
               RequestOk(n) /\ task'[n.task] = task[n.task] => RequestOk(n)'
          /\ \A n \in Replies :
               ReplyOk(n) /\ task'[n.task] = task[n.task] => ReplyOk(n)'
      BY <2>3, WalletFrame
    <3> QED
      BY <1>2, <2>1, <3>1, MessageTypes DEF MessagesInv
  <2> QED
    BY <2>2, <2>3
<1> QED
  BY <1>2, <1>4, <1>6, <1>7, <1>8, <1>9

(* A call in the wallet takes a reply that is no export.                   *)
LEMMA TakingKeepsChain ==
  ASSUME IInv, outbox # <<>>, screen = "wallet",
         \A u \in Tasks : u # Head(outbox).task => task'[u] = task[u],
         \/ UNCHANGED inbox
         \/ \E q \in Requests : q.cmd # "vault_blob_set" /\ inbox' = Append(inbox, q),
         outbox' = Tail(outbox), UNCHANGED <<disk, session, screen>>,
         \A v \in Line, i \in Items :
           Between(v) /\ <<v.seed, i>> \in confirmed' => i \in v.items
  PROVE  ChainInv'
<1> USE DEF IInv
<1>1. PICK d \in {0, 1} : \A i \in Sets' : i + d \in Sets /\ inbox'[i] = inbox[i + d]
  <2>1. CASE UNCHANGED inbox
    <3>1. \A i \in Sets' : i + 0 \in Sets /\ inbox'[i] = inbox[i + 0]
      BY <2>1 DEF Sets
    <3> QED
      BY <3>1
  <2> QED
    BY <2>1, SendShiftsSets
<1>2. \A j \in Exports' : j + 1 \in Exports /\ outbox'[j] = outbox[j + 1]
  BY TakeShiftsExports
<1>3. Ordered' /\ OnTheWay' \subseteq OnTheWay
  BY <1>1, <1>2, ShiftedChain DEF ChainInv
<1>4. \A v \in Line' : v \in Line /\ Between(v)
  BY <1>3 DEF Line, ChainInv
<1>5. \A n \in Answered' : n \in Answered /\ task'[n.task] = task[n.task]
  BY TakenReply, MessageTypes DEF Replies
<1>6. ASSUME NEW v \in Line'
      PROVE  Between(v)'
  <2>1. Holds(v)'
    BY <1>4, <1>5, <1>6 DEF Between, Holds, Awaits, Arg
  <2> QED
    BY <1>4, <1>6, <2>1 DEF Between, Leq
<1> QED
  BY <1>3, <1>6 DEF ChainInv

(* The wallet opens on the vault that is stored.                           *)
LEMMA EnteringTheWallet ==
  ASSUME IInv, outbox # <<>>, screen # "wallet",
         outbox' = Tail(outbox),
         UNCHANGED <<inbox, disk, session, confirmed>>,
         session \in {Nothing, disk}
  PROVE  ChainInv'
<1> USE DEF IInv
<1>1. /\ Head(outbox) \in Answered
      /\ \A n \in Answered' : n \in Answered /\ n.task # Head(outbox).task
      /\ \A n \in Asked : n.task # Head(outbox).task
  BY TakenReply
<1>2. \A n \in Asked \cup Answered : n.task = Head(outbox).task
  BY <1>1, OneCall
<1>3. Asked' = {} /\ Answered' = {}
  <2>1. Asked' = Asked
    BY DEF Asked
  <2> QED
    BY <1>1, <1>2, <2>1
<1>4. Sets' = {} /\ Exports' = {}
  BY <1>3 DEF Sets, Exports, Asked, Answered
<1>5. Ordered'
  BY <1>4 DEF Ordered
<1>6. \A v \in Line' : v = disk /\ disk \in Vaults
  BY <1>4, VaultAssumption DEF Line, OnTheWay, TypeOK
<1>7. ASSUME NEW v \in Line'
      PROVE  Between(v)'
  BY <1>3, <1>6, <1>7 DEF Between, Holds, Leq, ConfirmedWritesAreStored
<1> QED
  BY <1>5, <1>7 DEF ChainInv

(* The commands that follow each other on each screen. *)
LEMMA NextSteps ==
  ASSUME IInv, outbox # <<>>, NEW r, r = Head(outbox),
         NEW next, next = NextCommand(Method(r), Awaits(r)), next # "done"
  PROVE  /\ next \in Commands /\ Method(r) \in Methods
         /\ screen = "boot" =>
              /\ Method(r) = "list"
              /\ \/ Awaits(r) = "vault_blob_get" /\ next = "unlock"
                 \/ Awaits(r) = "unlock" /\ next = "read"
         /\ screen = "onboarding" =>
              \/ /\ Method(r) \in {"init", "restore"}
                 /\ \/ Awaits(r) = Method(r) /\ next = "export_blob"
                    \/ Awaits(r) = "export_blob" /\ next = "vault_blob_set"
              \/ Method(r) = "import" /\ Awaits(r) = "vault_blob_set" /\ next = "unlock"
         /\ screen = "wallet" =>
              /\ Method(r) = "write"
              /\ \/ Awaits(r) = "write" /\ next = "export_blob"
                 \/ Awaits(r) = "export_blob" /\ next = "vault_blob_set"
<1>1. Method(r) \in Methods
  BY TakenStep DEF Method
<1>2. CASE screen = "boot"
  BY <1>1, <1>2, TakenStep
  DEF BootStep, NextCommand, MainOp, Commands, WorkerOps
<1>3. CASE screen = "onboarding"
  BY <1>1, <1>3, TakenStep
  DEF OnboardingStep, NextCommand, Commands, WorkerOps
<1>4. CASE screen = "wallet"
  BY <1>1, <1>4, TakenStep
  DEF WalletStep, NextCommand, Commands, WorkerOps
<1> QED
  BY <1>2, <1>3, <1>4 DEF IInv, TypeOK

(* An export leaves the outbox for the inbox. *)
LEMMA ExportMovesOn ==
  ASSUME IInv, screen = "wallet", outbox # <<>>,
         Head(outbox).ok, Awaits(Head(outbox)) = "export_blob",
         NEW q \in Requests, q.cmd = "vault_blob_set", q.arg = Head(outbox).value,
         \A u \in Tasks : u # Head(outbox).task => task'[u] = task[u],
         inbox' = Append(inbox, q), outbox' = Tail(outbox),
         UNCHANGED <<disk, session, confirmed, screen>>
  PROVE  ChainInv'
<1> USE DEF IInv
<1>1. /\ Len(inbox) \in Nat /\ Len(inbox') = Len(inbox) + 1
      /\ \A i \in 1..Len(inbox) : inbox'[i] = inbox[i]
      /\ inbox'[Len(inbox) + 1] = q
  BY MessageTypes, Appended
<1>2. /\ 1 \in Exports /\ outbox[1].value = q.arg
      /\ \A j \in Exports : j \in Nat /\ j >= 1
  BY MessageTypes, Taken DEF Exports
<1>3. \A j \in Exports' : j + 1 \in Exports /\ outbox'[j] = outbox[j + 1]
  BY TakeShiftsExports
<1>4. \A i \in Sets' : \/ i \in Sets /\ inbox'[i] = inbox[i] /\ i <= Len(inbox)
                       \/ i = Len(inbox) + 1 /\ inbox'[i].arg = q.arg
  BY <1>1 DEF Sets
<1>5. /\ \A i \in Sets : i \in Nat
      /\ \A i \in Sets' : i \in Nat
      /\ \A j \in Exports' : j \in Nat /\ j >= 1
  BY DEF Sets, Exports
<1>6. \A i \in Sets : Leq(inbox[i].arg, q.arg)
  BY <1>2 DEF ChainInv, Ordered
<1>7. \A j \in Exports' : Leq(q.arg, outbox'[j].value)
  <2>1. \A j \in Exports' : 1 < j + 1
    BY <1>5
  <2> QED
    BY <1>2, <1>3, <2>1 DEF ChainInv, Ordered
<1>8. Ordered'
  <2>1. ASSUME NEW i \in Sets', NEW j \in Sets', i < j
        PROVE  Leq(inbox'[i].arg, inbox'[j].arg)
    <3>1. i \in Sets /\ inbox'[i] = inbox[i]
      <4>1. i \in Nat /\ j \in Nat /\ j <= Len(inbox) + 1
        BY <1>1, <1>4, <1>5
      <4>2. i # Len(inbox) + 1
        BY <1>1, <2>1, <4>1
      <4> QED
        BY <1>4, <4>2
    <3>2. CASE j \in Sets /\ inbox'[j] = inbox[j]
      BY <2>1, <3>1, <3>2 DEF ChainInv, Ordered
    <3>3. CASE inbox'[j].arg = q.arg
      BY <1>6, <3>1, <3>3
    <3> QED
      BY <1>4, <3>2, <3>3
  <2>2. ASSUME NEW i \in Exports', NEW j \in Exports', i < j
        PROVE  Leq(outbox'[i].value, outbox'[j].value)
    <3>1. i + 1 < j + 1
      BY <1>5, <2>2
    <3> QED
      BY <1>3, <3>1 DEF ChainInv, Ordered
  <2>3. \A i \in Sets', j \in Exports' : Leq(inbox'[i].arg, outbox'[j].value)
    BY <1>3, <1>4, <1>7 DEF ChainInv, Ordered
  <2> QED
    BY <2>1, <2>2, <2>3 DEF Ordered, Leq
<1>9. \A v \in Line' : v \in Line /\ Between(v)
  <2>1. \A i \in Sets' : inbox'[i].arg \in Line
    BY <1>2, <1>4 DEF Line, OnTheWay
  <2>2. \A j \in Exports' : outbox'[j].value \in Line
    BY <1>3 DEF Line, OnTheWay
  <2>3. \A v \in Line' : v \in Line
    BY <2>1, <2>2 DEF Line, OnTheWay
  <2> QED
    BY <2>3 DEF ChainInv
<1>10. \A n \in Answered' : n \in Answered /\ task'[n.task] = task[n.task]
  BY TakenReply, MessageTypes DEF Replies
<1> QED
  BY <1>8, <1>9, <1>10, BetweenFrame DEF ChainInv

LEMMA ProceedKeepsIInv ==
  ASSUME IInv, outbox # <<>>, outbox' = Tail(outbox), NEW r, r = Head(outbox),
         r.ok, Proceed(r.task, r.value), UNCHANGED shell
  PROVE  IInv'
<1> USE DEF IInv
<1> PICK t : t = r.task
  OBVIOUS
<1> PICK next : next = NextCommand(Method(r), Awaits(r))
  OBVIOUS
<1> PICK a : a = IF \/ next = "unlock" /\ Method(r) # "import"
                    \/ next = "vault_blob_set"
                 THEN r.value ELSE task[t].arg
  OBVIOUS
<1> PICK q : q = Request(t, next, a)
  OBVIOUS
<1>1. /\ next # "done"
      /\ Awaits(r) = "vault_blob_get" => r.value # NoVault
      /\ task' = [task EXCEPT ![t] = [method |-> Method(r), awaits |-> next,
                                      arg |-> task[t].arg]]
      /\ inbox' = Append(inbox, q)
      /\ unlocked' = (unlocked \/ Awaits(r) = "unlock")
      /\ UNCHANGED <<disk, helper, session, screen, confirmed, backups>>
  BY DEF Proceed, Await, Method, Awaits, shell
<1>2. /\ r \in Replies /\ t \in Tasks /\ ReplyOk(r) /\ TaskOk(t)
      /\ task[t] \in [method : Methods, awaits : Commands, arg : Args]
  BY TakenStep
<1>3. /\ next \in Commands /\ Method(r) \in Methods
      /\ screen = "boot" =>
           /\ Method(r) = "list"
           /\ \/ Awaits(r) = "vault_blob_get" /\ next = "unlock"
              \/ Awaits(r) = "unlock" /\ next = "read"
      /\ screen = "onboarding" =>
           \/ /\ Method(r) \in {"init", "restore"}
              /\ \/ Awaits(r) = Method(r) /\ next = "export_blob"
                 \/ Awaits(r) = "export_blob" /\ next = "vault_blob_set"
           \/ Method(r) = "import" /\ Awaits(r) = "vault_blob_set" /\ next = "unlock"
      /\ screen = "wallet" =>
           /\ Method(r) = "write"
           /\ \/ Awaits(r) = "write" /\ next = "export_blob"
              \/ Awaits(r) = "export_blob" /\ next = "vault_blob_set"
      /\ screen \in {"boot", "onboarding", "wallet"}
  BY <1>1, NextSteps DEF TypeOK
<1>4. q \in Requests /\ q.task = t /\ q.cmd = next /\ q.arg = a
  <2>1. a \in Args
    <3>1. CASE Awaits(r) = "export_blob"
      BY <1>2, <1>3, <3>1 DEF ReplyOk, Args
    <3>2. CASE Awaits(r) # "export_blob"
      BY <1>1, <1>2, <1>3, <3>2 DEF Replies
    <3> QED
      BY <3>1, <3>2
  <2> QED
    BY <1>2, <1>3, <2>1 DEF Request, Requests
<1>5. /\ task'[t] = [method |-> Method(r), awaits |-> next, arg |-> task[t].arg]
      /\ task'[t] # Idle
      /\ \A u \in Tasks : u # t => task'[u] = task[u]
  BY <1>1, <1>2, <1>3 DEF TypeOK, Idle, Methods, Unlocking
<1>6. unlocked' \in BOOLEAN /\ (unlocked => unlocked')
  BY <1>1 DEF TypeOK
<1>7. screen = "boot" /\ unlocked' => session \in {Nothing, disk}
  BY <1>1, <1>2, <1>3 DEF ReplyOk, ScreenInv
<1>8. TaskOk(t)'
  <2>1. /\ screen = "boot" => BootStep(Method(r), next)
        /\ screen = "onboarding" => OnboardingStep(Method(r), next)
        /\ screen = "wallet" => WalletStep(Method(r), next)
    BY <1>3 DEF BootStep, OnboardingStep, WalletStep
  <2>2. Method(r) = "list" /\ next = "read" => unlocked'
    BY <1>1, <1>3
  <2>3. /\ Method(r) = "write" => task[t].arg \in Items
        /\ Method(r) \in {"init", "restore"} => task[t].arg \in Seeds
        /\ Method(r) = "import" => task[t].arg \in Vaults
        /\ Method(r) # "export"
    BY <1>2, <1>3 DEF TaskOk, Method
  <2> QED
    BY <1>1, <1>5, <2>1, <2>2, <2>3 DEF TaskOk
<1>9. RequestOk(q)'
  <2>1. /\ task'[q.task] # Idle /\ task'[q.task].awaits = q.cmd
        /\ task'[q.task].method = Method(r) /\ task'[q.task].arg = task[t].arg
    <3>1. q.task = t /\ q.cmd = next
      BY <1>4
    <3>2. /\ task'[t].awaits = next
          /\ task'[t].method = Method(r) /\ task'[t].arg = task[t].arg
      BY <1>5
    <3> QED
      BY <1>5, <3>1, <3>2
  <2>2. CASE screen = "boot"
    BY <1>1, <1>2, <1>3, <1>4, <2>1, <2>2 DEF RequestOk, ReplyOk, Method, Awaits, Arg
  <2>3. CASE screen = "onboarding"
    BY <1>1, <1>2, <1>3, <1>4, <2>1, <2>3 DEF RequestOk, ReplyOk, Method, Awaits, Arg
  <2>4. CASE screen = "wallet"
    BY <1>1, <1>2, <1>3, <1>4, <2>1, <2>4 DEF RequestOk, ReplyOk, Method, Awaits, Arg
  <2> QED
    BY <1>3, <2>2, <2>3, <2>4
<1>10. ChainInv'
  <2>1. CASE screen # "wallet"
    BY <1>1, <2>1 DEF ChainInv
  <2>2. CASE screen = "wallet" /\ next = "export_blob"
    BY <1>1, <1>4, <1>5, <2>2, TakingKeepsChain DEF Between, Holds
  <2>3. CASE screen = "wallet" /\ next = "vault_blob_set"
    <3>1. Awaits(r) = "export_blob" /\ q.arg = r.value
      BY <1>3, <1>4, <2>3
    <3> QED
      BY <1>1, <1>4, <1>5, <2>3, <3>1, ExportMovesOn
  <2> QED
    BY <1>3, <2>1, <2>2, <2>3
<1> QED
  BY <1>1, <1>3, <1>4, <1>6, <1>7, <1>8, <1>9, <1>10, AwaitKeepsIInv

(* What a wallet that opens after an onboarding finds. *)
LEMMA OnboardingEndsReady ==
  ASSUME IInv, outbox # <<>>, NEW r, r = Head(outbox), r.ok,
         screen = "onboarding", NextCommand(Method(r), Awaits(r)) = "done"
  PROVE  /\ Ready /\ Method(r) \in {"init", "restore", "import", "export"}
         /\ Method(r) = "init" => Awaits(r) = "vault_blob_set"
         /\ Method(r) = "export" => r.value \in Vaults /\ unlocked
<1>1. OnboardingStep(Method(r), Awaits(r)) /\ ReplyOk(r) /\ TaskOk(r.task)
  BY TakenStep
<1>2. \/ Method(r) \in {"init", "restore"} /\ Awaits(r) = "vault_blob_set"
      \/ Method(r) = "import" /\ Awaits(r) = "unlock"
      \/ Method(r) = "export" /\ Awaits(r) = "export_blob"
  BY <1>1 DEF OnboardingStep, NextCommand
<1> QED
  BY <1>1, <1>2 DEF ReplyOk, TaskOk, Method, Ready

(* Creating a wallet goes on to export it. *)
LEMMA InitResolvesKeepsIInv ==
  ASSUME IInv, outbox # <<>>, outbox' = Tail(outbox), NEW r, r = Head(outbox),
         r.ok, NextCommand(Method(r), Awaits(r)) = "done", Method(r) = "init",
         Await(r.task, "export", "export_blob", Nothing), unlocked' = TRUE,
         UNCHANGED <<disk, helper, session, screen, confirmed, backups>>
  PROVE  IInv'
<1> USE DEF IInv
<1> PICK t : t = r.task
  OBVIOUS
<1> PICK q : q = Request(t, "export_blob", Nothing)
  OBVIOUS
<1>1. /\ t \in Tasks /\ r \in Replies
      /\ task[t] \in [method : Methods, awaits : Commands, arg : Args]
      /\ screen = "onboarding"
  BY TakenStep DEF BootStep, WalletStep, TypeOK
<1>2. Ready
  BY <1>1, OnboardingEndsReady
<1>3. /\ q \in Requests /\ q.task = t /\ q.cmd = "export_blob"
      /\ "export" \in Methods
  BY <1>1 DEF Request, Requests, Commands, WorkerOps, Args, Methods, Unlocking
<1>4. /\ task' = [task EXCEPT ![t] = [method |-> "export", awaits |-> q.cmd,
                                      arg |-> task[t].arg]]
      /\ inbox' = Append(inbox, q)
  BY <1>3 DEF Await
<1>5. task'[t] = [method |-> "export", awaits |-> "export_blob", arg |-> task[t].arg]
  BY <1>1, <1>3, <1>4 DEF TypeOK
<1>6. TaskOk(t)'
  BY <1>1, <1>5 DEF TaskOk, OnboardingStep
<1>7. RequestOk(q)'
  BY <1>2, <1>3, <1>5 DEF RequestOk, Awaits, Method, Arg, Ready, Idle
<1>8. ChainInv'
  BY <1>1 DEF ChainInv
<1> QED
  BY <1>1, <1>3, <1>4, <1>6, <1>7, <1>8, AwaitKeepsIInv

(* An onboarding ends, in the wallet or where it was. *)
LEMMA OnboardingResolvesKeepsIInv ==
  ASSUME IInv, outbox # <<>>, outbox' = Tail(outbox), NEW r, r = Head(outbox),
         r.ok, NextCommand(Method(r), Awaits(r)) = "done",
         screen = "onboarding", Settle(r.task),
         unlocked' \in BOOLEAN, unlocked => unlocked',
         screen' \in {"onboarding", "wallet"}, screen' = "wallet" => unlocked',
         backups' \subseteq Vaults,
         UNCHANGED <<disk, helper, session, confirmed>>
  PROVE  IInv'
<1> USE DEF IInv
<1>1. Ready
  BY OnboardingEndsReady
<1>2. ChainInv'
  BY <1>1, EnteringTheWallet DEF Ready, Settle
<1>3. ConfirmedWritesAreStored'
  BY DEF ConfirmedWritesAreStored
<1> QED
  BY <1>2, <1>3, SettleKeepsIInv DEF Settle, TypeOK

(* At boot the vault has been opened.                                      *)
LEMMA BootResolvesKeepsIInv ==
  ASSUME IInv, outbox # <<>>, outbox' = Tail(outbox), NEW r, r = Head(outbox),
         NextCommand(Method(r), Awaits(r)) = "done",
         screen = "boot", Settle(r.task), screen' \in {"wallet", "onboarding"},
         UNCHANGED <<disk, helper, session, unlocked, confirmed, backups>>
  PROVE  IInv'
<1> USE DEF IInv
<1>1. BootStep(Method(r), Awaits(r)) /\ TaskOk(r.task)
  BY TakenStep
<1>2. Method(r) = "list" /\ Awaits(r) = "read"
  BY <1>1 DEF BootStep, NextCommand, MainOp
<1>3. unlocked /\ session \in {Nothing, disk}
  BY <1>1, <1>2 DEF TaskOk, Method, Awaits, ScreenInv
<1>4. ChainInv'
  BY <1>3, EnteringTheWallet DEF Settle
<1>5. ConfirmedWritesAreStored'
  BY DEF ConfirmedWritesAreStored
<1> QED
  BY <1>3, <1>4, <1>5, SettleKeepsIInv DEF Settle, TypeOK

LEMMA WalletResolvesKeepsIInv ==
  ASSUME IInv, outbox # <<>>, outbox' = Tail(outbox), NEW r, r = Head(outbox),
         r.ok, NextCommand(Method(r), Awaits(r)) = "done",
         screen = "wallet", Settle(r.task),
         confirmed' = IF Method(r) = "write" /\ disk \in Vaults
                      THEN confirmed \cup {<<disk.seed, Arg(r)>>} ELSE confirmed,
         UNCHANGED <<disk, helper, session, unlocked, screen, backups>>
  PROVE  IInv'
<1> USE DEF IInv
<1>1. /\ WalletStep(Method(r), Awaits(r)) /\ TaskOk(r.task) /\ r \in Answered
      /\ r.task \in Tasks
  BY TakenStep
<1>2. Method(r) = "write" => Awaits(r) = "vault_blob_set" /\ Arg(r) \in Items
  BY <1>1 DEF WalletStep, NextCommand, TaskOk, Method, Arg
<1>3. confirmed' \subseteq Seeds \X Items
  BY <1>2 DEF TypeOK, Vaults
<1>4. \A v \in Line, i \in Items :
        Between(v) /\ <<v.seed, i>> \in confirmed' => i \in v.items
  BY <1>1, <1>2 DEF Between, Holds
<1>5. \A u \in Tasks : u # Head(outbox).task => task'[u] = task[u]
  BY <1>1 DEF Settle, TypeOK
<1>6. ChainInv'
  BY <1>4, <1>5, TakingKeepsChain DEF Settle
<1>7. ConfirmedWritesAreStored'
  BY <1>4 DEF ChainInv, Line, ConfirmedWritesAreStored
<1>8. Settle(r.task) /\ unlocked' \in BOOLEAN /\ unlocked
  BY DEF TypeOK, ScreenInv
<1> QED
  BY <1>3, <1>6, <1>7, <1>8, SettleKeepsIInv DEF Settle, TypeOK

LEMMA FailKeepsIInv ==
  ASSUME IInv, outbox # <<>>, outbox' = Tail(outbox), NEW r, r = Head(outbox),
         Fail(r.task), UNCHANGED shell
  PROVE  IInv'
<1> USE DEF IInv
<1>1. /\ Settle(r.task) /\ r.task \in Tasks
      /\ screen' = IF screen = "boot" THEN "onboarding" ELSE screen
      /\ UNCHANGED <<disk, helper, session, unlocked, confirmed, backups>>
  BY TakenStep DEF Fail, shell
<1>2. ChainInv'
  <2>1. CASE screen = "wallet"
    <3>1. \A u \in Tasks : u # Head(outbox).task => task'[u] = task[u]
      BY <1>1 DEF Settle, TypeOK
    <3> QED
      BY <1>1, <2>1, <3>1, TakingKeepsChain DEF Settle, Between, Holds
  <2> QED
    BY <1>1, <2>1 DEF ChainInv, TypeOK
<1>3. ConfirmedWritesAreStored'
  BY <1>1 DEF ConfirmedWritesAreStored
<1> QED
  BY <1>1, <1>2, <1>3, SettleKeepsIInv DEF Settle, TypeOK, ScreenInv

LEMMA ResolveKeepsIInv ==
  ASSUME IInv, outbox # <<>>, outbox' = Tail(outbox), NEW r, r = Head(outbox),
         r.ok, Resolve(r.task, r.value), UNCHANGED shell
  PROVE  IInv'
<1> PICK m : m = Method(r)
  OBVIOUS
<1>1. /\ NextCommand(m, Awaits(r)) = "done"
      /\ unlocked' = (unlocked \/ m \in {"init", "restore", "import"})
      /\ confirmed' = IF m = "write" /\ disk \in Vaults
                      THEN confirmed \cup {<<disk.seed, Arg(r)>>} ELSE confirmed
      /\ UNCHANGED <<disk, helper, session>>
  BY DEF Resolve, Method, Awaits, Arg, shell
<1>2. /\ screen = "boot" => m = "list"
      /\ screen = "onboarding" => m \in {"init", "restore", "import", "export"}
      /\ screen = "wallet" => m \in {"list", "read", "write"}
      /\ screen \in {"boot", "onboarding", "wallet"} /\ unlocked \in BOOLEAN
  BY TakenStep DEF BootStep, OnboardingStep, WalletStep, IInv, TypeOK
<1>3. \/ /\ m = "init"
         /\ Await(r.task, "export", "export_blob", Nothing)
         /\ UNCHANGED <<screen, backups>>
      \/ /\ m = "export" /\ screen = "onboarding"
         /\ Settle(r.task)
         /\ \/ backups' = backups \cup {r.value} /\ screen' = "wallet"
            \/ UNCHANGED <<screen, backups>>
      \/ /\ m \in {"restore", "import"}
         /\ Settle(r.task)
         /\ screen' = "wallet" /\ UNCHANGED backups
      \/ /\ m \in {"list", "read", "write"}
         /\ Settle(r.task)
         /\ screen' \in IF screen = "boot" THEN {"wallet", "onboarding"}
                       ELSE {screen}
         /\ UNCHANGED backups
  BY DEF Resolve, Method
<1>4. CASE m = "init"
  BY <1>1, <1>2, <1>3, <1>4, InitResolvesKeepsIInv
<1>5. CASE m = "export"
  <2>1. /\ screen = "onboarding" /\ Settle(r.task) /\ UNCHANGED <<unlocked, confirmed>>
        /\ backups' \in {backups, backups \cup {r.value}}
        /\ screen' \in {"onboarding", "wallet"}
    BY <1>1, <1>2, <1>3, <1>5
  <2>2. r.value \in Vaults /\ unlocked /\ backups \subseteq Vaults
    BY <1>1, <1>5, <2>1, OnboardingEndsReady DEF IInv, TypeOK
  <2> QED
    BY <1>1, <1>2, <2>1, <2>2, OnboardingResolvesKeepsIInv
<1>6. CASE m \in {"restore", "import"}
  <2>1. /\ screen = "onboarding" /\ Settle(r.task) /\ unlocked' = TRUE
        /\ screen' = "wallet" /\ UNCHANGED <<confirmed, backups>>
    BY <1>1, <1>2, <1>3, <1>6
  <2>2. backups \subseteq Vaults
    BY DEF IInv, TypeOK
  <2> QED
    BY <1>1, <2>1, <2>2, OnboardingResolvesKeepsIInv
<1>7. CASE m \in {"list", "read", "write"} /\ screen = "boot"
  <2>1. /\ Settle(r.task) /\ screen' \in {"wallet", "onboarding"}
        /\ UNCHANGED <<unlocked, confirmed, backups>>
    BY <1>1, <1>2, <1>3, <1>7
  <2> QED
    BY <1>1, <1>7, <2>1, BootResolvesKeepsIInv
<1>8. CASE m \in {"list", "read", "write"} /\ screen # "boot"
  <2>1. /\ Settle(r.task) /\ screen = "wallet"
        /\ UNCHANGED <<unlocked, screen, backups>>
    BY <1>1, <1>2, <1>3, <1>8
  <2> QED
    BY <1>1, <2>1, WalletResolvesKeepsIInv
<1> QED
  BY <1>2, <1>4, <1>5, <1>6, <1>7, <1>8

LEMMA ResumeKeepsIInv ==
  ASSUME IInv, Resume
  PROVE  IInv'
<1> PICK r : r = Head(outbox)
  OBVIOUS
<1>1. /\ outbox # <<>> /\ outbox' = Tail(outbox) /\ UNCHANGED shell
      /\ \/ r.ok /\ (Proceed(r.task, r.value) \/ Resolve(r.task, r.value))
         \/ Fail(r.task)
  BY DEF Resume
<1> QED
  BY <1>1, ProceedKeepsIInv, ResolveKeepsIInv, FailKeepsIInv

-----------------------------------------------------------------------------
(* The helper dies; everything stops *)

LEMMA HelperDiesKeepsIInv ==
  ASSUME IInv, HelperDies
  PROVE  IInv'
<1> USE DEF IInv
<1>1. /\ helper' = "dead" /\ session' = Nothing
      /\ UNCHANGED <<disk, inbox, outbox, unlocked, screen, task, backups, confirmed>>
  BY DEF HelperDies, webview
<1>2. TypeOK' /\ TasksInv' /\ ScreenInv' /\ OneMessage'
  BY <1>1 DEF TypeOK, TasksInv, TaskOk, ScreenInv, OneMessage
<1>3. Asked' = Asked /\ Answered' = Answered
  BY <1>1 DEF Asked, Answered
<1>4. NoCallIsLost' /\ ConfirmedWritesAreStored'
  BY <1>1, <1>3 DEF NoCallIsLost, ConfirmedWritesAreStored
<1>5. MessagesInv'
  <2>1. \A q : RequestOk(q) => RequestOk(q)'
    BY <1>1 DEF RequestOk, Awaits, Method, Arg, Ready
  <2>2. \A r : ReplyOk(r) => ReplyOk(r)'
    BY <1>1 DEF ReplyOk, Awaits, Method, Arg, Ready
  <2> QED
    BY <1>3, <2>1, <2>2 DEF MessagesInv
<1>6. ChainInv'
  <2>1. Sets' = Sets /\ Exports' = Exports
    BY <1>1 DEF Sets, Exports, Awaits
  <2>2. OnTheWay' = OnTheWay /\ (Ordered => Ordered')
    BY <1>1, <2>1 DEF OnTheWay, Ordered, Leq
  <2>3. \A v \in Line' : v \in Line
    BY <1>1, <2>2 DEF Line
  <2>4. \A v : Between(v) => Between(v)'
    BY <1>1, <1>3 DEF Between, Holds, Leq, Awaits, Arg
  <2> QED
    BY <1>1, <2>2, <2>3, <2>4 DEF ChainInv
<1> QED
  BY <1>2, <1>4, <1>5, <1>6

LEMMA Quiet ==
  ASSUME inbox = <<>>, outbox = <<>>, task = [t \in Tasks |-> Idle]
  PROVE  TasksInv /\ OneMessage /\ NoCallIsLost /\ MessagesInv
<1>1. Asked = {} /\ Answered = {} /\ Len(inbox) = 0 /\ Len(outbox) = 0
  BY DEF Asked, Answered
<1> QED
  BY <1>1 DEF TasksInv, OneMessage, NoCallIsLost, MessagesInv

LEMMA RestartKeepsIInv ==
  ASSUME IInv, Restart
  PROVE  IInv'
<1> USE DEF IInv
<1>1. /\ helper' = "none" /\ session' = Nothing
      /\ inbox' = <<>> /\ outbox' = <<>>
      /\ unlocked' = FALSE /\ screen' = "boot"
      /\ task' = [t \in Tasks |-> Idle]
      /\ UNCHANGED backups
  BY DEF Restart
<1>2. /\ disk' \in Vaults \cup {Torn, NoVault} /\ confirmed' \subseteq Seeds \X Items
      /\ ConfirmedWritesAreStored'
  <2>1. CASE UNCHANGED <<disk, confirmed>>
    BY <2>1 DEF TypeOK, ConfirmedWritesAreStored
  <2>2. CASE /\ inbox # <<>> /\ Head(inbox).cmd = "vault_blob_set"
             /\ disk' \in {Torn, Head(inbox).arg}
             /\ confirmed' = StillConfirmed
    <3> PICK q : q = Head(inbox)
      OBVIOUS
    <3>1. /\ q.arg \in Vaults
          /\ screen = "onboarding" => confirmed' = {}
          /\ screen = "wallet" => confirmed' = confirmed
          /\ screen \in {"onboarding", "wallet"}
      BY <2>2, StoreStep
    <3>2. disk' \in Vaults \cup {Torn, NoVault} /\ confirmed' \subseteq Seeds \X Items
      BY <2>2, <3>1 DEF TypeOK
    <3>3. CASE disk' = Torn
      BY <3>2, <3>3, VaultAssumption DEF ConfirmedWritesAreStored
    <3>4. CASE disk' = q.arg /\ screen = "onboarding"
      BY <3>1, <3>2, <3>4 DEF ConfirmedWritesAreStored
    <3>5. CASE disk' = q.arg /\ screen = "wallet"
      <4>1. Between(q.arg)
        BY <2>2, <3>5, StoredIsFirst
      <4> QED
        BY <3>1, <3>2, <3>5, <4>1 DEF Between, Holds, ConfirmedWritesAreStored
    <3> QED
      BY <2>2, <3>1, <3>2, <3>3, <3>4, <3>5
  <2> QED
    BY <2>1, <2>2 DEF Restart
<1>3. TypeOK'
  <2>1. task' \in [Tasks -> TaskStates]
    BY <1>1 DEF TaskStates
  <2>2. inbox' \in Seq(Requests) /\ outbox' \in Seq(Replies)
    BY <1>1
  <2> QED
    BY <1>1, <1>2, <2>1, <2>2 DEF TypeOK
<1>4. TasksInv' /\ OneMessage' /\ NoCallIsLost' /\ MessagesInv'
  <2>1. Asked' = {} /\ Answered' = {} /\ Len(inbox') = 0 /\ Len(outbox') = 0
    BY <1>1 DEF Asked, Answered
  <2> QED
    BY <1>1, <2>1 DEF TasksInv, OneMessage, NoCallIsLost, MessagesInv
<1>5. ScreenInv' /\ ChainInv'
  BY <1>1 DEF ScreenInv, ChainInv
<1> QED
  BY <1>2, <1>3, <1>4, <1>5

-----------------------------------------------------------------------------
(* The invariant is inductive *)

LEMMA InitIInv == Init => IInv
<1> SUFFICES ASSUME Init PROVE IInv
  OBVIOUS
<1>1. TypeOK
  <2>1. disk \in Vaults \cup {Torn, NoVault}
    BY FreshVault DEF Init
  <2>2. task \in [Tasks -> TaskStates]
    BY DEF Init, TaskStates
  <2>3. inbox \in Seq(Requests) /\ outbox \in Seq(Replies)
    BY DEF Init
  <2> QED
    BY <2>1, <2>2, <2>3 DEF Init, TypeOK
<1>2. TasksInv /\ OneMessage /\ NoCallIsLost /\ MessagesInv
  BY Quiet DEF Init
<1>3. ScreenInv /\ ChainInv /\ ConfirmedWritesAreStored
  BY DEF Init, ScreenInv, ChainInv, ConfirmedWritesAreStored
<1> QED
  BY <1>1, <1>2, <1>3 DEF IInv

LEMMA StutterKeepsIInv ==
  ASSUME IInv, UNCHANGED vars
  PROVE  IInv'
  BY DEF vars, IInv, TypeOK, TasksInv, TaskOk, ScreenInv, OneMessage,
         NoCallIsLost, MessagesInv, RequestOk, ReplyOk, Method, Awaits, Arg,
         Ready, Asked, Answered, ChainInv, Line, OnTheWay, Sets, Exports,
         Between, Holds, Ordered, Leq, ConfirmedWritesAreStored

LEMMA NextKeepsIInv ==
  ASSUME IInv, [Next]_vars
  PROVE  IInv'
<1>1. CASE Boot
  BY <1>1, CallKeepsIInv DEF Boot, MayCall
<1>2. CASE Onboard
  <2>1. backups \subseteq Vaults
    BY DEF IInv, TypeOK
  <2> QED
    BY <1>2, <2>1, CallKeepsIInv DEF Onboard, MayCall
<1>3. CASE UseWallet
  BY <1>3, CallKeepsIInv DEF UseWallet, MayCall
<1> QED
  BY <1>1, <1>2, <1>3, ResumeKeepsIInv, ServeKeepsIInv, HelperDiesKeepsIInv,
     RestartKeepsIInv, StutterKeepsIInv DEF Next

LEMMA Invariant == Spec => []IInv
  BY InitIInv, NextKeepsIInv, PTL DEF Spec

-----------------------------------------------------------------------------
(* Theorems *)

(* Every variable keeps its type: in particular what is stored, opened or  *)
(* backed up is a vault.                                                   *)
THEOREM TypeCorrect == Spec => []TypeOK
<1>1. IInv => TypeOK
  BY DEF IInv
<1> QED
  BY <1>1, Invariant, PTL

(* A write the user was told had succeeded stays in the vault file,        *)
(* whatever other calls were under way (tauri-backend.ts exports and       *)
(* stores the blob in separate awaits).                                    *)
THEOREM ConfirmedWritesStayStored == Spec => []ConfirmedWritesAreStored
<1>1. IInv => ConfirmedWritesAreStored
  BY DEF IInv
<1> QED
  BY <1>1, Invariant, PTL

(* In the wallet the session has the stored vault open, with everything    *)
(* stored in it.                                                           *)
THEOREM SessionHasTheStoredVault == Spec => []SessionHoldsTheStoredVault
<1>1. IInv => SessionHoldsTheStoredVault
  BY DEF IInv, ChainInv, Line, Between, Leq, SessionHoldsTheStoredVault
<1> QED
  BY <1>1, Invariant, PTL

(* A call under way has exactly one message on its way, a request the      *)
(* shell will serve or a reply that will resume it: overlapping calls, a   *)
(* dead helper and a failed store lose none.                               *)
THEOREM CallsAreNotLost == Spec => [](NoCallIsLost /\ OneMessage)
<1>1. IInv => NoCallIsLost /\ OneMessage
  BY DEF IInv
<1> QED
  BY <1>1, Invariant, PTL
=============================================================================
