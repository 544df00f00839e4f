# Widespread wallet and program registry: TLA+ verification project

This directory models the Widespread programs and wallets of this repository in
TLA+, checks the models with TLC and proves the most important results with
TLAPS. All paths below are relative to the repository's root.

## 1. Inventory

| Component | State | Operations | Modelled in |
|---|---|---|---|
| Registry program (`programs/registry`) | one account per entry, at a PDA of `deployer_entry, program` or `third_party_entry, program, author` | register/update × deployer/third-party, and the hooks `register_self`, `update_self` | `Registry`, abstractly `OwnedRecords` |
| Pointer and testimonial programs (`programs/pointer`, `programs/testimonial`) | one account per key | `publish`, `submit`, and hooks that chain to a registry | `RecordPrograms`; the hooks in `Registry` |
| Registry SDK (`sdk/registry`, `packages/wallet-ui/src/pda.ts`) | none | builds the instructions, their bytes and their accounts; decodes entries | the `Call…` actions of `Registry`; the bytes in `Codec` |
| Desktop wallet (`packages/wallet-ui/src/tauri-backend.ts`, `apps/wallet-tauri`, `web/wallet/src/main.tsx`) | `unlocked` flag, vault file, helper process | chains of `invoke()` | `DesktopVault` |
| Worker and helper (`crates/wsp-lez-core`, `crates/wsp-lezd`) | the unlocked session | init, restore, unlock, export, account, transfer, call, read | `DesktopVault` |
| Faucet claim (`crates/wsp-lez-core/src/faucet.rs`) | locals of one `claim()`, the Pinata account, balances | inspect, register, read, solve, submit, reconcile | `FaucetClaim` |
| Approval gate (`packages/wallet-ui/src/approval.ts`, `app.tsx`) | session grants, the one `pending` slot | gated transfer and program call, approve, reject; decodes instruction data | `ApprovalGate`; the decoder in `Codec` |
| Recovery and onboarding (`packages/recovery`, `packages/wallet-ui/src/onboarding*.ts*`) | secrets of a device, uploads, pointer records, kits | create, recover with kit, recover with passkey, import mnemonic | `Recovery` |
| PWA (`packages/wallet-ui/src/pwa-backend.ts`) | three IndexedDB records: accounts, viewing keys, imported blob | watch an account, import, export, reads | `PwaVault`; as a device without a session in `Recovery` |
| Provider SDK and module bridge (`sdk/provider`, `packages/wallet-ui/src/module-backend.ts`, `web/wallet/src/bridge.js`, `modules/…/WalletView.qml`, `modules/widespread_wallet`) | request numbers, pending callbacks, the outbox of a page, flags of the view | request, drain, answer, deliver, time out, load, inject | `ProviderBridge`, abstractly `RequestReply` |
| CLI (`crates/wsp-lez`) | the vault file | load, unlock, run, store; one process per command | `CliVault` |
| Zones, remote storage clients, extension backend, social sign-in, FFI and generated bindings, demo apps, scripts | none worth a model | | not modelled |

How they interact: the wallet user interface calls a `WalletBackend` through the
approval gate; on the desktop the backend invokes shell commands, which either
touch the vault file or send an operation to the helper; the helper's worker
talks to the sequencer; transactions reach the programs; a program's hook chains
to the registry. Recovery uploads ciphertext to Logos Storage and publishes a
pointer record through the pointer program. A dapp reaches the wallet with the
provider SDK: in a browser through the extension, under Basecamp through
`bridge.js`, whose queue the QML view drains on a timer into the wallet module;
the wallet page itself uses the same bridge there. The CLI works on a vault file
of its own, the PWA on its own records in the browser.

What is hard: overlapping asynchronous calls in the web view with a session in
another process; a process that dies and a file that is written in place; a
faucet whose challenge rotates whenever anybody claims; a modal with one slot;
onboarding that consists of ten awaits, any of which may fail; the authority of a
chained call; instruction bytes written by hand in three places, for guests and a
decoder that share no definition with them; request numbers that begin again on
every page; a vault file that several processes store over each other; three
records that belong together and are written one by one. `PROJECT.json` lists every such point, at its line, as a hazard.

What makes each part correct:

* Registry: an entry says what its account is derived from; only the program
  itself writes its deployer entry and only the author an attestation; an entry
  is created once, and only its metadata ever change.
* Pointer and testimonial: a record is written once.
* Desktop: what the user was told succeeded is in the vault file; session and file
  agree at rest; every call ends.
* Faucet: a call is paid at most once; a refusal means nothing was paid or ever
  will be; "ok" means that the account got its prize; every call ends.
* Approval: nothing reaches the backend without consent or a live grant; the modal
  shows what is still undecided; only another request can silence one.
* Bridge: a request reaches the wallet at most once; a call ends at most once, with
  an answer to its number; success, where the caller checks its answer, means that it
  was carried out.
* CLI: what a command reported as stored is lost only to a replacement or to a
  command that was already under way; an account is handed out once; the file is
  unreadable only for stated reasons.
* PWA: the records are of one vault unless an import was cut short or overlapped; a
  watched account stays listed until an import or an overlapping watch.
* Codec: a guest reads what the caller meant; the modal shows what will be signed,
  cut at stated bounds, or says that it cannot; a lookup of an entry's account returns
  the entry or nothing.
* Recovery: a restored vault was opened with two shares of its own key; "wallet
  ready" means the backup is complete; a failure has the reason it states.

## 2. Modules

| Module | What it is |
|---|---|
| `OwnedRecords` | Abstract specification: a book of records, each claimed once by a holder its account admits, then only amended in content. |
| `Registry` | The registry with its callers: wallets, hook programs and foreign programs. Refines `OwnedRecords`. |
| `RecordPrograms` | Pointer and testimonial: transactions of several users, some for keys that do not fit a seed. Refines `OwnedRecords`. |
| `DesktopVault` | Web view, shell, helper and vault file. |
| `FaucetClaim` | Concurrent `claim()` calls and the chain around them. |
| `ApprovalGate` | `GatedBackend`, session grants and the modal. |
| `Recovery` | Onboarding and recovery on several devices over one storage network and chain. |
| `RequestReply` | Abstract specification: calls are served once under a name and concluded once. |
| `ProviderBridge` | The page, the view that drains it, the module or the extension behind. Refines `RequestReply`. |
| `CliVault` | Command line processes over one vault file. |
| `PwaVault` | Overlapping calls over the browser wallet's records. |
| `Codec` | The bytes of instructions and entries: encoders, the modal's decoder and what it renders, `decodeEntry`. |
| `MCCalls` | `Codec`, `ApprovalGate` and `RecordPrograms` for TLC, one or another. |
| `MCVaultStores` | `CliVault`, `PwaVault` and `Recovery` for TLC, one or another. |
| other `MC…` | Values and symmetry for TLC. |
| `RegistryProofs`, `CallProofs`, `FaucetProofs`, `GateProofs`, `BridgeProofs`, `StoreProofs`, `DesktopProofs`, `RecoveryProofs` | TLAPS proofs. |

The modules of `MCCalls`, and those of `MCVaultStores`, share no state: a behaviour
picks one of them (`surface`) and the others stay as they began. What the run checks of
a module is what a run of its own would check.

`PROJECT.json` maps every definition to the lines it stands for.
Operators named `X_Something` and commented "Faulty variant" are not part of the
specifications: each is `X` with a plausible bug, used to check that a property
can fail.

### Registry

`entries` is the function from PDAs to entries and `frame` the instruction under
way: its op, the program it runs in (`self`), the program that called it
(`caller`, the default program at top level), and the account that signed.
`CallDeployerInstruction` and `CallThirdPartyInstruction` open a frame a wallet
or a foreign program can open; `CallHook` one for `register_self` or
`update_self` of a program; `RegisterSelf` and `UpdateSelf` replace the frame by
the chained one with `caller` the hook's program (`Chained`). The remaining
actions are the registry's four instructions with every check of the guest
(`…OK`), and `Reject`, which stands for any check that fails: LEZ then undoes
the whole transaction. Strings are lengths: only their bounds and the total size
matter. Program and account ids are model values; that PDAs of different seeds
differ is an assumption on SHA-256.

### RecordPrograms

Transactions in the `mempool` carry a key, an author, a payload and whether the author
signed; `Execute` runs one against the program's checks (`Publishes`), `Discard` drops
one. `FitsSeed` is the client's check: a longer key has no address to send to. Two
keys that share a seed share an account. Keys of length 0, 32 and 33 are the
three cases of the bounds: refused, largest that fits, too long for a seed.

### DesktopVault

A backend method is a chain of commands (`FirstCommand`, `NextCommand`); a task is
a method under way with the command it awaits. `inbox` and `outbox` are the
invocations and replies in transit; Tauri serves synchronous commands one after
another on the main thread and their replies in order. A vault is its seed and
what sessions wrote into it. Methods that make the same commands are one method:
"write" is createAccount, transfer and programCall; "list" is listAccounts and
sync; "read" the rest. What `sync` changes in the session is recomputed by the
next sync and is not tracked. `HelperDies`, `Restart` (closing the application,
or losing power, also in the middle of `fs::write`) may happen at any time.
`confirmed` and `backups` are history: what the user was told, and what an
onboarding uploaded. At boot an empty list of accounts leads to the onboarding as a
rejection does; whether a vault lists any is WalletCore's affair and left open.

### FaucetClaim

`claim[c]` holds the locals of one call of `claim()` and `step` where it is; every
request to the chain is a step of its own, so everything else may happen between
two of them. The challenge is the number of rotations so far, a solution is that
number. `mempool` holds submitted transactions, which are included in any order
or dropped. `OthersClaim` and `OtherTransfer` are everybody else. `expired` is
set by `Deadline` at any time after the baseline; both deadlines of the code are
that one event. `paid[c]` counts the drops call `c`'s own transactions received;
it is history, as are `received`, what other transfers credited an account, and
`disturbed[c]`: how often the challenge rotated or the winner's balance moved while call
`c` was between its baseline and its submission. The account a call claims for is chosen in `Init`: two calls may be
for one account. The code cannot tell whose drop made a balance grow, so
`OkMeansPaid` says that some call for the same account was paid, or that others
sent the account as much as a prize.

### ApprovalGate

A request passes `StartCall`, `LookUp`, `FetchIdl` (or `StartTransfer`) and then
waits in the slot `pending`; React's `Render` copies the slot to `rendered`; the
buttons act on what is rendered. `grants` is `MemorySessionStore`, `now` the clock.
What the modal says of a call is in `Codec`.

### ProviderBridge

`host` is what the SDK detects. `call[c]` is how far a call is, with the page it
was made on and its number there; `pending` are the callbacks a page holds,
`outbox` the queue of `bridge.js`, `drained` what a drain took and has not yet
handed to QML, `wallet` the requests under way, `posts` the answers on their way
back. `Tick`, `Drained`, `LoadStarted`, `LoadSucceeded`, `LoadStopped` and
`Inject` are the handlers of `WalletView.qml`; `Discard` is what the loss of a page does
to its scripts. `Name` is the number by which an answer finds its call: a count
that begins at one on each page, to which the SDK adds the time when it talks to
the extension. `Ending` is what each kind of answer does to each kind of caller:
`bridge.js` drops an error; `exec` of `ModuleBackend` (`ExecCalls`) throws for the
worker's error envelope and for an empty answer; its `faucetDrop` and `callModule`, and
the SDK over the module, take both for a result. `served` and `ran` are history: how
often the wallet answered a request and carried it out. An error does not say that
nothing was carried out (`Answer`): the worker reports one also after a submission, when
it cannot store the vault (`worker.rs:383`, `426`) or the faucet's credit is late or
mixed with another (`faucet.rs:251`, `256`, `263`). What the module does with a request
is `DesktopVault`'s subject and is one step here. The QML view, the Logos API,
the extension and the user are external.

### CliVault

A process runs one command: `Open` loads the file and unlocks it, `Run` is the
operation and the export, `Truncate` and `Write` the two halves of `std::fs::write`;
`CliCreate` (init, restore) and `Download` only store. `Stop` is an error or a kill
anywhere. A vault is its mnemonic and the labels of the accounts made so far: the
keys follow from the two, so two processes that append to one vault hand out the
same key. The remaining commands ("other") store the vault back unchanged,
as the code does even for those that only read. `storedAs` numbers the stores; `knows` and
`began` say which stores there were when a process loaded and truncated the file:
all three are history.

### PwaVault

`at[c]` is the IndexedDB transaction a call makes next; calls of one page or of
several tabs overlap between any two. `watchAccount` is `WatchRead` and
`WatchWrite`, `importBlob` (`PwaImportBlob`) is `ImportAccounts`, `ImportKeys`, `ImportRaw`; `Abort`
is a transaction that fails or a page that is closed. An imported record is named
by its blob. `listed`, `read`, `sure`, `alone` and `mixed` are history.

### Codec

A job is an instruction that somebody asks for or a lookup. `Build` runs the
builder, `CutShort` is a dApp that hands over fewer bytes, `Describe` is what the
modal makes of them; `Fetch` and `Lookup` read an account. The types are those of
an IDL, as records; values are TLA+ values. A byte has two values and a word
four bytes, so that a `u64` is below 256 and a `u128` below 65 536: the code's
arithmetic is the same in every base. `encodeInto` and `decodeValue` call themselves
for the elements of a value. `EncodeInto` and `DecodeValue` take that inner call as a
parameter, so that the module needs no recursive operator, and three levels are
written out: an argument, its elements (`EncodeElements`) and theirs (`EncodeInner`).
`ArgsAssumption` states this bound. `ElementValue` says which values a type has; an
`i64` below zero is not among them (`Presentable`), as the modal shows it as the `u64`
of the same bits. What the
modal renders is a sequence of pieces: names, numbers, characters, brackets, and a mark
where something was cut off (`CutMark`). `describeCall` makes an effect of the data
(`Effects`: no registry entry, no IDL, data that do not match it, or a summary), of which
`WalletApp` renders the summary and the warnings only (`Modal`). `Truncate` cuts a text
at `TextCut` pieces and all arguments at `SummaryCut`; the code cuts at 120 and 160
characters, so that a number of many digits is one piece here. `Fetch` reads an account
of the registry's, which holds an entry cut anywhere, or any other (`ForeignData`), as
`lookupEntry` does not ask who owns it.

### Recovery

An enrollment is one run of `createWalletWithRecovery`; its passkey, vault key,
shares, kit, ciphertexts and pointer are all named by it, and a share is a pair of
its role and its enrollment. A set of shares of one enrollment combines to its
key, any other set to nobody's. Every await of the flows is a step; any may fail
(`AwaitFails`) and the application may close between two (`Close`). A passkey
flow resolves the pointer twice, as the code does, and each resolution may fail
silently. What changes in a vault after its creation is not tracked. Kits made by `enroll()`, which carry no blob CID, are not modelled: no
screen makes them. Members of `ViewOnly` run the PWA.

## 3. Runs

Passing runs:

| Run | Checks | Bounds, and why they are enough |
|---|---|---|
| `registry` | type, what an entry says, who wrote it, refinement of `OwnedRecords`, a well-formed hook call gets its entry | one registry, a hook program, a foreign program and the author: every kind of caller. A second account that signs is refused like the foreign program's unsigned call, and two authors have different PDAs. Names at, above and below the bound; metadata that are good, lack a CID or exceed the data cap |
| `desktop` | type, confirmed writes, session and file agree, every call settles | two overlapping calls, two mnemonics, two writes: two writes persisted in either order, and one wallet replaced by the other; a third call only adds another waiter |
| `faucet` | type, single drop, meaning of each result, every claim ends | two calls for one account or two, retries up to the bound, one rotation more than the retries, one other transfer of exactly a prize: the amount that can pass for a drop |
| `calls`: bytes | guests read what was meant, the modal shows what is signed, lookups | fields of zero to five bytes, so that a word is empty, partial, full and exceeded; time stamps at the word boundary; two arguments of each of the argument types, cut at every byte; texts cut at two pieces and summaries at ten, so that either is cut and neither is; entries cut at every byte |
| `calls`: gate | type, consent, modal, only another request silences one | three requests for two programs, one registered; four instants and a lifetime of one: a grant is given, used, expired and given again |
| `calls`: records | refinement of `OwnedRecords` | two users, two seeds, two transactions in flight: every race for one account; keys of length 0, 32 and 33 |
| `bridge` | type, refinement of `RequestReply`, answers and endings, every call settles | one call of the wallet page and one of the SDK, over the module or the extension; two page loads: a number is used again while its first answer is on the way; two drains under way, one of them of a page that is gone |
| `stores`: files | type, stored accounts, accounts handed out once, readable file, records together, watched accounts | three processes, two mnemonics, two labels: a store lost to a process that began before it, a replacement between two stores, two writes at once beside a third; three calls, three accounts and two blobs in the browser: an import over an import over a watch |
| `stores`: recovery | restored, ready, failure | a desktop and a PWA, two enrollments, at most one lost ciphertext: old and new secrets mixed in every way on either |

Runs that end in a counterexample, each against a line of the repository
(`findings` in `PROJECT.json`):

| Run | What the code does |
|---|---|
| `desktop_onboarding` | an existing vault that fails to open is taken for missing, and onboarding overwrites it |
| `provider_events` | `emit()` dispatches events of a type that `on()` does not listen for: a handler is never told of a confirmation |
| `recovery_pointer` | the pointer cannot be read without the session being recovered |
| `faucet_rotating` | a claim gives up with "other claimants won the race" when only transfers moved its balance and no challenge rotated |
| `modal_raw` | the modal says "showing raw hex" or "showing raw call data" and renders neither: the effect's `raw` is not among what it shows |
| `lookup_foreign` | `lookupEntry` decodes the data of an account the registry does not own, where its comment promises null |

Seen while modelling, without a run of their own:

* `updateDeployer` of the SDK sends the registry's own `update_self` an argument it
  does not take: that call fails. `BuiltCallsReachTheirGuest` leaves it out (`OwnUpdate`).
* `exec` of `ModuleBackend` throws for the worker's error envelope, `faucetDrop` and
  `callModule` beside it return it as a result (`OutcomesAreTrue` names them).
* A submission whose vault cannot be stored afterwards is reported as failed.
* The modal cuts all arguments at 160 characters: what stands behind them is signed
  unseen, behind a mark.
* A helper that the shell respawns is never unlocked: the web view's `unlocked`
  flag outlives the session, and every later call fails as locked until a restart.
* A second approval request takes the only slot of the modal; the first is never
  answered (`OnlyAnotherRequestSilencesOne` says that nothing else silences one).
* The provider SDK calls `callPluginMethod`, which the wallet module does not have;
  its README names a transport that the code lacks, and `docs/PROVIDER-SDK.md`, to which
  `modules/widespread_wallet/src/lib.rs` refers, does not exist.
* Over the module the SDK takes the worker's error envelope for a result, and a
  rejected promise of `bridge.js` never calls its callback.
* A load that is stopped or fails leaves the old page alive and undrained until the
  next load.
* An answer to a call of a former page can settle a call of the present one that
  has the same number (`AnswersFindTheirCall` says that only such an answer can).
* CLI: read-only commands store the vault back and so undo what another process
  stored meanwhile; `vault-download` stores what it receives without looking at it.
* PWA: an import drops the accounts that were being watched.
* Faucet: a transfer of exactly the prize is taken for the drop, although
  `faucet.rs:248` calls the growth "the definitive success signal".
* Registry updates do not call `validate_entry`: an update stores what a
  registration refuses. The model does the same, within the data cap.
* The header of `registry.rs` (lines 8-13) says the program account signs a deployer
  entry; the code, and its comment on line 125, ask for a call from the program.
* The faucet attributes a grown balance to the call that looks: one drop satisfies
  two claims for one account, and a call whose deadline passes at once reports
  "not confirmed" without a look.
* A registry lookup that fails is shown like a program without an entry.
* A device share of another enrollment, left in the secrets, spoils a good kit
  (`FailureHasReason` says exactly when a recovery fails for a wrong key).
* A recovery kit alone restores the vault of the device that holds the other share
  in storage: possession of the kit is the only factor asked for.
* When an upload fails during creation the mnemonic is dropped, although the
  vault exists and the next start opens it.
* The modal's decoder reads `i64` as unsigned and consumes nothing for types it
  does not know; no IDL of the repository has either.
* The web bundle chooses its backend when it is evaluated, and `WalletView.qml`
  injects the module bridge after the page has loaded, so that in that view
  `moduleAvailable()` is still false when it is asked.

### Fairness

* `Registry`: an open frame is executed or refused (the state machine runs every
  instruction it has begun). Nothing forces a caller to call.
* `DesktopVault`: the shell serves what was invoked, the web view processes
  replies, and React runs the effect of `Root`. Users, deaths and restarts are not
  forced.
* `FaucetClaim`: a running call goes on and its deadline passes. The chain need
  include nothing.
* `ApprovalGate`: lookups return, React renders, and the user answers the modal
  that is shown.
* `ProviderBridge`: the timers of the page and the view run, scripts and their
  results arrive, and the Logos API answers every call (with an error, if the
  module does not). The extension need not answer, and no page need be loaded.
  `EveryCallSettles` therefore asks, over the module, that the view stays loaded
  and its tab active from some point on.
* `Codec`, `Recovery`, `RecordPrograms`, `CliVault`, `PwaVault`: safety only, no
  fairness. `CallsSpec` of `MCCalls` has the gate's fairness for its part.

`CHECK_DEADLOCK FALSE` is set where the system ends: all claims done, all requests
answered, all jobs read, all calls ended and all processes over.

## 4. Proofs

TLAPS proves the following for every value of the constants that satisfies the
modules' named assumptions.

*Registry* (`RegistryProofs`). The inductive invariant `IInv` is the type
invariant, `FrameInv` (an open frame names the PDA it was built for, with its
program and author), `EntryMatchesPda` and `ChainedCallsNameTheirCaller`.
`FrameInv` is what makes it inductive: an entry is written at `frame.entry`, so
it matches its account only if the frame does. One lemma per action shows that
it is kept. `OnlyTheProgramWritesItsDeployerEntry` and
`OnlyTheAuthorWritesItsAttestation` follow for each step that changes an entry.
`RegistryKeepsOwnedRecords` shows that each step maps to `Claim`, `Amend` or a
stutter of `OwnedRecords`.

*Record programs* (`CallProofs`). `RecordTypeOK` is inductive, and the refinement
follows from it step by step.

*Faucet* (`FaucetProofs`). The invariant says of each call that it has at most one
transaction in the mempool, that it has none and was paid nothing before it
submits and after a refusal, and that it was paid at most once and nothing while
its transaction waits. `OneDropPerClaim` and `RefusalsAreFinal` follow, for any
number of calls, accounts, rotations and retries. Two more invariants, each proved
from the first: `PaidInv` (drops go to the account of their call, and an account
that got none holds at most what it received, so that a balance grown by a prize
has a reason) gives `OkMeansPaid`; `RotatingInv` (each attempt that a call lost is
paid for by a disturbance in its own race, and one is left over while its baseline or
its challenge is stale) gives `GivesUpOnlyWhenDisturbed`. That no claim of others need
be among them is what `faucet_rotating` shows.

*Approval gate* (`GateProofs`). `NothingRunsUnapproved` and `ShownIsUndecided` for
any number of requests and programs and any lifetime. `SlotIsKept` is the safety half of
`OnlyAnotherRequestSilencesOne`: while no other request is under way, the one that holds
the slot keeps it until it is answered.

*Bridge* (`BridgeProofs`). A number is used once on a page; a request is in one
place, the outbox, one drain, the wallet or served; an answer says what happened,
and found a call it may be for; and each ending has its answer. Together they are
inductive and give `AnswersFindTheirCall` and `OutcomesAreTrue`, which says of a failed
call nothing but that one without a bridge never went out; `BridgeRefinesService`
shows that each step maps to a step of `RequestReply` or a stutter, for any number of
calls, page loads and drains.

*CLI* (`StoreProofs`). Stores are numbered, and what a process loaded carries all
that was stored before, except what a store in between undid (`CarriesInv`). That is
what makes `AccountsSurvive` inductive: a store writes what its process loaded and
at most one account more. `FreshInv` says the same of the next key, for
`AccountsAreHandedOutOnce`; `WritersInv`, who stored or was cut off while
a process was writing, for `UnreadableHasReason`.

*PWA* (`StoreProofs`). What a watch read is what was watched by then (`ListsInv`),
which gives `WatchedStaysListed`. For `RecordsBelongTogether`: an import that is
alone has the records to itself, and a watch that is alone reads what was
imported.

*Recovery* (`RecoveryProofs`). What each step of a creation has done so far
(`CreateInv`): its share and blob are uploaded, sealed with its own key, before
its secrets are stored. An enrollment has one creator (`OwnersInv`), so that a
backup once complete stays as it is; kits and credentials exist only for complete
backups (`SourcesInv`), so that every recovery starts from one. `RecoverInv` carries
the number of shares and the outcome of the open to the import. From this,
`RestoredWithItsOwnShares`, `ReadyMeansBackedUp` and `FailureHasReason` hold
for any number of devices and enrollments. That shares of one key combine to it,
and others to none, is the definition of `CombineShares`, an assumption on Shamir's
scheme.

*Desktop wallet* (`DesktopProofs`). That a confirmed write is in the vault file
depends on what is in transit, so the invariant describes every queued command and
reply. A call that runs is in exactly one place, the inbox or the outbox
(`OneMessage`, `NoCallIsLost`: `CallsAreNotLost`, the safety half of `EveryCallSettles`). What a
request carries and a reply says is what its call's chain expects at that point
(`MessagesInv`). In the wallet screen, `ChainInv` orders the copies of the vault:
the file, the `vault_blob_set` requests on their way to it in the order they are
served, the export replies the web view has not seen, and the helper's session. Each
holds at least what the one before it holds, and the writes that are confirmed when
its turn comes. `ConfirmedWritesStayStored` and `SessionHasTheStoredVault` follow. The
chain is needed because the web view may have several calls under way: what keeps a
late save from undoing another call's is only that Tauri answers in order. The order
is claimed from the wallet screen on, which is reached with no write under way
(`ScreenInv`).

*Bytes of calls* (`CallProofs`). `CallsReachTheirGuest` is about every builder, except
`updateDeployer` on the registry itself, and any field contents. An invariant is hardly needed, as the data are set once; the work is in
`BuildersBuildWhatIsMeant`. The guest's parameters are taken one by one
(`ArgsOfBoth`), each builder's arguments are those its instruction asks for
(`RegistryAsks`, `HookAsks`: position, order and types), and the two builders that pack
words on their own pack what the SDK's encoder would (`PackedTexts`).

*Bytes of entries* (`CallProofs`). `LookupsAreTrue` is about accounts of the registry's:
any entry, any width of a byte and any place where the data end. Of other accounts it
says nothing; what `decodeEntry` makes of them is `lookup_foreign`'s subject. `Layout` says where each of the thirteen parts
of an entry stands in its borsh bytes; `DigitsMakeTheNumber` and `WordThatStands`, that
a length word is read back as it was written. A reading that starts at a part gets to
the next one, or past the end of data cut short (`ReadOne`). After nine of them
(`ReadAll`) the last field is there in full, and all the texts were read right, or
`decodeEntry` throws (`EntryOrNull`).

*What the modal shows* (`CallProofs`). `ModalIsTrue` is about every call of a builder but
the one that misses its guest, and every dApp call whose values are of their types:
any number of arguments and elements, any texts, and data cut short at any byte. What is
proved is what is rendered: the summary of the meant values, cut at `TextCut` and
`SummaryCut`, for any two bounds, or the program alone with a warning. The
invariant (`ModalInv`) is that the data are a beginning of what was built and what is
shown was read from them; the work is in `BuiltDataReads`. Everything is said in terms
of `ReadsAs(r, p, v, ws)`: of words `ws` that begin with the part `p` the decoder reads
the value `v` and leaves the rest, and of words that end within `p` it throws. Flat
values read so (`FlatReads`, `TextReads`), and a part behind its count does when the
elements do (`BehindTheirCount`). For values in sequence the induction is over their
number: the library's induction theorem takes an operator for a parameter, so
`OneAfterTheOther` does without it, by the least element that a set of numbers would
lack (`LeastNumber`, from well-foundedness). `FlattenSeqPlaces` says where each part
stands in the words, `NextPart` that reading it ends where the next one begins, and
`SameEnd` that the decoder's recursion is this one. A lemma cannot take the decoder of
the elements as a parameter either: the proof for sequences is written once for each
of the three levels (`InnerRead`, `ElementsRead`, `ArgsRead`). `WordsOfBytes` turns the
cut bytes into cut words, `InstructionReads` adds the instruction's index, and
`CallsAreReady` shows that the calls of this repository have values of their types for
every parameter.

All safety invariants that the runs check are proved. Liveness under fairness is out of
the prover's reach and stays model-checked, and so is ENABLED.

## 5. Assumptions and what is left out

* Cryptography is ideal: PDAs do not collide, AES-GCM opens with its key only,
  Shamir shares of different secrets give no key.
* LEZ undoes a failed transaction entirely and derives `caller_program_id`
  truthfully. The sequencer, Pinata and the account programs are external and are
  modelled from how the code uses them.
* A text of a registry entry has fewer bytes than half a word can count (2^31), as the
  SDK reads its length as a signed number (`EntriesAssumption`).
* Arguments of dApp calls nest at most three levels deep (`ArgsAssumption`); each
  level of the code does the same as the one above it.
* A text that callers put in a field has fewer bytes than a word can count, and the time
  is a `u64` (`FieldsAssumption`).
* Web views run one task at a time; between two awaits of a call anything else may
  happen.
* Formatting, logging and user-interface text are left out, except where the text
  is a claim about state (the faucet's results, what the modal shows of a call).
* Two page loads, two drains (`ProviderBridge`) and the numbers of retries,
  rotations and lost ciphertexts are bounds on the environment, not on the code.

## 6. Plan

Done, in this order: 1 `Registry` with `OwnedRecords`, 2 `RecordPrograms`,
3 `DesktopVault`, 4 `FaucetClaim`, 5 `ApprovalGate`, 6 `Recovery`, 7 proofs of the
registry, record programs, faucet and gate, 8 `Codec`, 9 `ProviderBridge` with
`RequestReply`, 10 `CliVault`, 11 `PwaVault`, 12 proofs of 9 to 11, of `Recovery` and of the
faucet's results, 13 proofs of `DesktopVault`, 14 proofs of `Codec`. What is left:

15. Composition of `ApprovalGate` with `DesktopVault`: an approval given before the
    helper dies.

### Not modelled

* Social sign-in (`social.ts`): one redirect, no state of its own.
* The extension backend: its other end is not in the repository.
* `storage-client`, `zone.rs`, `storage.rs`: stateless requests and a configuration
  lookup; their failures are failed operations in the modules that use them.
* The WASM and FFI bindings and `provider_gen.rs`: generated, or pure marshalling.
* The SDK's IDL fetch and trusted-signer overlay: they fetch and filter, and keep no
  state.
* `connect` and `propose_transaction` of the wallet module with their
  `approvalRequested` event: no client in the repository calls or hears them.
* `enroll()` and `requestPersistence` of the recovery package: nothing calls them.
* Demo apps, scripts and benchmarks.
