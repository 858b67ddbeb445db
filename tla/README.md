# A TLA+ model of the Zolana mobile SDK

This directory models the `spr_mobile` package of `src/`: its native Rust wallet
(`src/packages/spr_mobile/native/spr-mobile`), its Dart wallet
(`src/packages/spr_mobile/lib`), and the application and sponsoring backend it
ships as an example (`src/packages/spr_mobile/example`). TLC checks the models
on small instances; TLAPS proves what matters most for every value of the
constants. Paths below are relative to `src/packages/spr_mobile/`, and `wallet/`
stands for `native/spr-mobile/src/wallet/`.

`PROJECT.json` lists the components, the runs, the mutants (for each property a
plausible bug of the code that violates it), the lines each definition models,
the hazards, the findings and the theorems.

## 1. The system

A wallet owns *notes*. A *payment* spends some of them, proves that it may, and
becomes a message with a recent blockhash, which a node takes until the
blockhash's last valid block height. The application signs and sends. An indexer
tells the wallet, some time after the chain, which notes exist.

| Component | Source | State it keeps | Operations | Talks to |
|---|---|---|---|---|
| Reservations, preparation, submission | `wallet/prepared.rs`, `submission.rs`, `balance.rs`, `merge.rs`, `cache.rs`, `notes.rs`, `spend.rs` | `Reservations` (id, message, nullifiers, outputs, `until`), the last read of the notes | prepare a spend, a merge, a cached merge, a cached spend; refresh, export, restore, release; submit, confirm, `waitForTransaction`; balances, reserved count | RPC, indexer, prover, application |
| Dart wallet | `lib/src/wallet.dart`, `http_transport.dart` | `_last` (the end of the queue), `_closing`, the native handles | every wallet call through `_serial`, sign and submit, prefetch, `close` | native wallet, signer, transport |
| Proving-key store | `native/spr-mobile/src/keys.rs`, `prover.rs` | key files, `.partial`, `.image`, `.verified`; `files` (read-write lock), `downloads` (a lock per key), `verified` | prefetch, ensure, load, clear | key host, prover |
| Prover slot | `native/spr-mobile/src/lib.rs`, `prover.rs` | `PREPARED`: one loaded key, `next_id`, the mutex and its poison | load, prove, close, drop, for wallets' and applications' provers | key store |
| Reads | `wallet/lookup.rs`, `history.rs`, `balance.rs`, `notes.rs`, `spend.rs`; `activity.rs`, `asset.rs` | block times of slots with their retries, the asset registry | look up a signature, activity, balances with their limits, select notes | RPC and indexer, side by side |
| Example's sponsored run | `example/lib/sponsored_merge.dart` | `SponsoredStore` (one run on disk), the flow in memory | start, merge rounds, prepare, refresh, sign, reconcile and resubmit the payment, restore | wallet, backend |
| Example's backend | `example/backend/src/main.rs` | a journal of one file for each run, `journal_lock` | start a run, relay a merge, close a cache | RPC |
| Opening, registration, merging | `wallet/account.rs`; `example/lib/recovery.dart` (`KeyVault`) | the saved keys; the user record is on chain | open from keys or a signature, registration status, prepare a registration or a merging change | RPC, signer |
| Deposits | `wallet/deposit.rs`, `asset.rs` | the asset registry; the mint's interface is on chain | prepare a deposit | RPC |
| Example's pending sends | `example/lib/recovery.dart` | `PendingSends`: one signature for each account | `saveAndSend`, `settlePendingSend` | wallet, signer |
| Generated bindings | `rust/src/frb_generated.rs` | a read-write lock and a reference count for each object, a pool of threads | every function of the native wallet, getters, the end of handles, requests to Dart | native wallet, Dart's event loop |
| Transport, remote prover, errors, bridge types | `transport.rs`, `prover.rs`, `error.rs`, `wallet/types.rs` | none | one conversion or request | everything above |

How they interact. The application calls the Dart wallet, which runs one
operation at a time on the native wallet. A native preparation reads the notes
from RPC and indexer (reads), selects those no reservation holds (reservations),
ensures the proving key (key store), loads it and proves (prover slot), and
reserves what it selected. Answers to HTTP requests come back through a transport
the application may supply, on Dart's event loop, while the call keeps its thread
and its locks of the bridge. An application saves what it sends before it sends it,
and settles that after a restart. The sponsored run drives one wallet through many
such operations and a backend that signs and relays its merges.

### What is hard

* **The world moves between two steps.** A payment can land between two reads of
  one preparation; the indexer is behind the RPC; a blockhash expires between
  building and sending.
* **Answers are lost.** A send without an answer may be out. A request that was
  given up arrives later, or twice.
* **Processes die**, of the application, the backend and the key store, and
  start again from what was on disk, which need not be whole.
* **Things are shared.** Several wallets and provers of a process share one
  loaded key, one key directory and their locks; a proof may panic inside the
  mutex; `close()` comes while anything runs.
* **Everything may wait for everything**: the event loop for a proof, a proof for
  a key, a key for a request, a request for the event loop.
* **Order.** Reservations, snapshots, journals and `.verified` records are
  written before or after the step they protect, and only one order is right.

### What makes each component correct

* Reservations: what can still land keeps its notes, so that no two payments of
  a wallet compete; what was refused never lands; a merge never spends a note
  that is gone; a sponsored run's notes are held until it is settled.
* Dart wallet: one operation at a time; nothing is signed, handed over or sent
  after `close()`; a close is told apart from a failing network; every call ends.
* Key store: what counts as checked is whole; nothing wrong is loaded; downloads
  resume and do not mix; a clear that succeeded left nothing; no call waits
  for ever.
* Prover slot: a proof runs with its own key; a closed key leaves memory and does
  not return; an application's key is not taken from it; no key outlives its
  prover.
* Reads: a complete answer says what the history says; a limit is exactly what
  a spend accepts; known times stay.
* Sponsored run and backend: a slot is given to one message, which is on disk
  before it goes out; one payment is sent, after its merges; whatever was
  handed over survives a restart; a signed payment is settled in the end.
* Accounts and pending sends: what is out and unknown is saved; what is reported
  is so, for good; a record is reported as this wallet's only when it is, and stays so
  until another client changes it; a merging choice that was reported stands
  likewise; what landed is settled in the end.
* Bindings: the event loop never waits for an object; every call returns.

## 2. Plan

The order is by what a mistake would cost: notes spent twice or lost first,
then keys and proofs, then what is shown.

1. `WalletSpends`: reservations (done, with proofs).
2. `ProverSlot`: the shared key (done, with proofs).
3. `RelayLedger`, `RelayBackend`, `SponsoredRun`: the longest protocol in the
   repository, composed of a backend and an application (done, with proofs of
   both and of the refinement).
4. `KeyStore` (done, with proofs).
5. `SprWallet` (done, with proofs).
6. `LookupRows`, `NoteSelection`, `WalletReads` (done, with proofs).
7. `NativeBridge`: the locks and threads around all of the above (done, with
   proofs).
8. `AccountSends`: opening, registration, merging, deposits and the saved send
   of `recovery.dart`, with other clients of the account (done, with proofs).

Left for later:

* The limits of a response in `transport.rs`, as operators checked at their edges.
* `private_balance`, and the read of a mint's token program by a wallet that
  discovers.

## 3. The modules and the code

| Module | What it is | How it corresponds |
|---|---|---|
| `WalletSpends` | one wallet between open and close | `reserved` is `Reservations`, `recent` the last read, `nextId` the id counter; `pc`, `kind`, `picked`, `target` the operation under way. `SpendReadsNotes`/`SpendSelects` and `MergeReadsHeld`/`MergeSelects` are the awaits of `select_notes` and `prepare_merge` in their order, `PrepareFinishes` reserves. `Refresh`, `Save`, `Restore`, `Release` are the methods of a prepared transaction. `Submit`, `SendGoesOut`, `SendFails`, `SendRefused`, `Confirm`, `WaitForTransaction`, `Lookup…`, `Indexer…` are submission and its confirmation; `Restart` ends the process. `height`, `network`, `landed`, `failed`, `indexed` are the chain and the indexer |
| `WalletSpendsProofs` | proofs about it | section 6 |
| `ProverSlot` | `PREPARED` | `loaded`, `nextId`, `mutex`, `poisoned` are its fields; `pc[c]` says where a thread is: waiting for, inside or past the mutex. `Native…` actions are the wallet's prover, `Local…` the application's; `Panic` unwinds a proof |
| `ProverSlotProofs` | proofs about it | section 6 |
| `KeyStore` | `keys.rs` and the load in `prover.rs` | `disk[k]` is the key's files, `verified`, `readers`/`writer` (`Shared::files`) and `held` (`Shared::downloads`) the process's memory, `call[c]` the steps of a prefetch, proof or clear. A partial file has up to `Parts` parts of the key, or more than the key (`Overlong`: a host's longer answer, a mixed-up or damaged file), which `Resumes` removes before a download goes on |
| `KeyStoreProofs` | proofs about it | section 6 |
| `RelayLedger` | the abstract promise of a sponsor | a slot is given once, and only what was given goes out |
| `RelayBackend` | the handlers of `main.rs` | `journal` is the directory, `lock` is `journal_lock`, `handler[h]` a request between its read of the file and its answer; a save fails before or after the rename |
| `SponsoredRun` | `SponsoredFlow` with `RelayBackend` inside | `disk` and `mem` are the store's and the flow's copy of the run, `pc` the await the flow is at; every `_save` is a step that may throw; `Dies` and `Restore` at any point |
| `SprWallet` | `SprWallet` | `last` is `_last`, `closed` is `_closing != null`, `op[o]` a call through `_serial`; `own` says whether the wallet's own transport is used, which `close()` aborts |
| `LookupRows` | what a signature's events say, and what the history says | first part: `lookup_details` and its helpers; second part: the reference |
| `NoteSelection` | limits and selection | `token_balance`, `spend_limit`, `select_notes`, the SDK's selection as the code uses it |
| `WalletReads` | the calls that use both, on a moving chain | `times` is `block_times`, `known` the registry; `call` holds the answers of a lookup's two requests until both are there |
| `SponsoredRunProofs` | proofs about the backend and the run | section 6 |
| `SprWalletProofs` | proofs about the Dart wallet | section 6 |
| `WalletReadsProofs` | proofs about the three modules of reads | section 6 |
| `NativeBridge` | `frb_generated.rs` around the native wallet | one record for each of the 57 generated functions says on which thread it runs, which objects it locks and how, and what it does meanwhile; `queue[o]` is an object's lock with who waits for it, `loop` who occupies Dart's event loop, `prover` the prover's slot, `task[t]` a call with its open requests; `files`, `key`, `fetching`, `clear` are its steps inside the key store |
| `NativeBridgeProofs` | proofs about it | section 6 |
| `AccountSends` | `account.rs`, `deposit.rs`, `submission.rs` and `recovery.dart` for one account | `record`, `merging`, `interface`, `fate`, `indexed`, `pruned` are the chain, its RPC and the indexer; `Others` are other clients, which register the account, rotate its keys to these or others, choose its merging and create the mint's interface; `vault` and `pending` the two stores of `recovery.dart`; `held` the transaction about to be sent; `pc`, `at`, `by` the await the running `saveAndSend` or `settlePendingSend` is at; `Keeps` is the condition of both on the error, `Lands` and `Refused` what `settle` and `reconcile` make of the chain's word |
| `AccountSendsProofs` | proofs about it | section 6 |
| `MC…` | model-checking values and symmetry | no definition of the program |

An action stands for the code between two points at which something else may
run: an await, a lock, a request, a write that may be the last one. A mutant
(`Name0`, beside its definition) is the same code with one plausible bug.

### What is abstracted

* `WalletSpends`: amounts, assets, fees and proofs. A spend may need any
  nonempty set of free notes, which contains every choice the selection makes
  (`NoteSelection` models the selection itself). Notes and payments are
  identities; a cached merge `p` makes the note `p`. A settlement is by payment.
* `ProverSlot`: keys are names; a proof is a step that ends, fails or panics.
* `KeyStore`: bytes are `good`, `bad`, or not there; a download is a number of
  parts, spoiled by the host or by a shift when two writers mixed. A load goes
  through the image as on a device; the catalog and byte counts are left out.
* `RelayBackend`: the checks of a message (signature, shape, cache, fee) are
  `Terms`, the run and slot a message is a valid merge for, and an error. A
  request that is lost is one that is never read.
* `SponsoredRun`: which notes a round merges. A message is fresh when the
  application built it again after a restart.
* `SprWallet`: an operation is one of four kinds by what happens to its result;
  one request stands for all of an operation's requests.
* `WalletReads`: decryption and commitments are whether an output is the
  wallet's; recipients' names are not compared. The reference `History` is what
  a wallet that knows its older notes lists, taken to hold every event of the
  signature.
* `NativeBridge`: the values a call takes and returns, and what it does with them;
  an argument that takes an object over (a cached output given to a spend) is not
  modelled. The calls of a task may be any of the generated ones.
* `AccountSends`: amounts, keys and fees. One transaction is prepared and unsent
  at a time, and is sent once: notes, reservations and sending again are
  `WalletSpends'`. The application keeps to `settlePendingSend`'s rule that
  nothing else is sent while a send is saved. Two overlapping `saveAndSend`
  calls break it: the account has one place, the second signature replaces the
  first, and the first call's removal takes whichever is there
  (`recovery.dart:141`, `157`).

External definitions, marked in the map, are the chain, the indexer, the key
host and the SDK's history: no code of theirs is in `src/`.

## 4. The runs

| Run | Instance | Shows |
|---|---|---|
| `spends_core` | 2 tree notes, 2 payments, `Window` 1, `MaxHeight` 2, `MaxIds` 2, all four uses, sends by the wallet and the application | `LiveIsReserved`, `MergeNotesUnspent`, `CachedHeldUntilSettled`, with a restart at every step |
| `spends_refresh` | the same, spends only, notes reused, `MaxIds` 3 | `LiveDisjoint`, `RefusedNeverLands`, `KnownSpentNotReselected`, `OneReleaseFrees`: refresh and restore have an id to spare |
| `spends_resubmit` | a message may be submitted again | `RefusedNeverLands` is violated (section 7) |
| `spends_restored` | as `spends_core` with spends only | `RestoredHeldUntilSettled` is violated (section 7) |
| `slot_core` | 2 wallets, 2 application provers, 2 threads, 2 keys, 3 ids | `RightKey`, `ClosedKeyGone`, `LoadedHasOwner`, `AppKeyKept`, and `ClosedIsReleased` under fairness |
| `sponsored_core` | 1 run of 2 rounds on a backend of 1 handler, a merge and the payment built twice, 1 death | `NoConflict`, `OnePayment`, `SentIsSaved`, `PaidFromMerges`; the backend implements `RelayLedger` (`LedgerSpec`); `SignedIsSettled` under fairness |
| `keys_core` | 1 key of 2 parts, found missing, damaged, or with too long a partial file; 2 callers, 1 fault, 1 death | `VerifiedIsGood`, `LoadedIsGood`, `PartsInOrder`, `ClearedIsGone`, `WorkKept`, and `CallsEnd` under fairness |
| `bridge_core` | 5 objects, one of each type, 3 calls out of 10, 2 threads | `LoopNeverWaits`, and `CallsReturn` under fairness |
| `account_core` | 2 transactions of five kinds, 1 change of the record by another client | `ToldIsTrue`, `SavedUntilKnown`, `RegisteredIsOwn`, `ChoiceStands`, and `LandedIsSettled` under fairness |
| `account_refused` | the same | `RefusedIsDropped` is violated (section 7) |
| `wallet_core` | 2 operations of any kind, 1 prefetch, a close | `OneAtATime`, `NothingAfterClose`, `CloseIsReported`, and `CallsEnd` under fairness |
| `reads_core` | ten kinds of transaction, wallets with discovery or a list, a failed transaction; two sets of notes with caps 2 and 3 | `ReadyIsComplete`, `LimitIsExact`, `TimesStay` |

`wallet_core` and `reads_core` also check their module's type invariant; those of all
modules are proved (section 6).

### The bounds, and why they are enough

* Two notes and two payments: a competition needs two payments and one note, and
  a merge two notes. `Window` 1 and `MaxHeight` 2 let a message expire and its
  refreshed copy land. Two ids let one payment be reserved again after a release
  or a restart, the third a refresh on top.
* Two threads and two provers of each kind: every hazard of the slot is between
  one thread that was checked before and one that changed the slot since. The
  proofs cover any number.
* One run of two rounds, two messages for one of them: the ledger is about one
  slot being given twice; the second slot shows that writing one keeps the other.
  One handler serves one request after another, also late and twice; that several
  at once lose nothing of one file is proved, for any number.
* One death: what a restart does wrong shows after the first, as what is on disk
  does not depend on how many there were. `NoConflict` needs the merge built
  twice, before and after it, `OnePayment` the payment.
* One fault and one death at one key of two parts: a part may be the first, a
  middle or the last; a wrong answer, a damage or an end of the process between
  any two steps. Keys meet only in the store's lock and in `clear`; the proofs cover
  any number.
* Two operations and a prefetch: the queue is a chain, and what breaks it is one
  operation overlapping its successor. The first fails or is aborted.
* Reads: the transactions are the cases of `lookup_details` (received, sent in
  full, public leg in or out, several assets, merges and deposits, a repeated
  event, an asset that is not known). `LimitIsExact` tries every amount up to the
  largest (`MaxAmount`, in place of `u64`), which one of the totals exceeds, with
  more notes and more trees than a spend may take.

* Three calls on two threads: the longest chain of waits in the code is a call on
  the event loop that ends a wallet, for a proof, that holds the slot; or a clear,
  for a download, for an answer, for the event loop. The ten calls between them
  wait for every lock there is, and a third call waits for a thread.
* Two transactions: what goes wrong is one left behind by the other. One
  change by another client, before or after any of this wallet's steps, is a
  registration in between, a rotation after a report, or another choice; the proofs
  cover any number (`MaxChanges`). The five
  kinds are those whose outcomes differ: `register` is `register_merging` without
  its choice, and `deposit` a spend that needs the interface.

Deadlock is checked except in `slot_core`, `wallet_core`, `bridge_core` and
`reads_core`, which may stop: provers are dropped, calls have all returned, ids
are used up.

## 5. Fairness

* `ProverSlot`: weak fairness of each thread's steps. A thread inside the mutex
  goes on by itself; the mutex is not assumed to be fair, and
  `ClosedIsReleased` holds because what is waited for is that the key leaves
  the slot, which others may do too.
* `KeyStore`: strong fairness of every started call: a request ends by its
  timeout, and the locks used (`RwLock`, `Mutex` of the standard library) hand over
  to waiting threads in practice though they do not promise it. Without it a
  clear could starve behind prefetches without end.
* `NativeBridge`: weak fairness of each call's steps. Threads go on, tokio's lock
  is fair, so that a queue is its order, and the application answers when its
  event loop is free. The bound on calls and requests takes the place of a
  fairness of the mutexes.
* `AccountSends`: a call goes on, and a user opens a locked wallet, signing for new
  keys if need be, in the end (weak); a user who is left with a saved send comes
  back to it, and now and then a lookup ends before the process dies or the wallet
  is locked again, the node or the indexer answers, and the store can be written
  (strong). The indexer has every landed transaction of the pool in the end (weak).
* `SprWallet`: weak fairness of native calls, requests, the signer and
  `Dispose`: requests have timeouts, and Dart runs what is ready.
* `SponsoredRun`: the flow's own steps go on (weak); a store that can be
  written in the end (strong, for the two saves that settle); the user resumes
  an unfinished run (`Reconcile`); a node that takes a payment that is sent
  again and again, and tells in the end what became of it (strong). Each is
  what the screens and the RPC do; without the user's resuming nothing in the
  code would settle a payment after a restart. Deaths are bounded.
* The others state no liveness.

## 6. What is proved

Eight modules hold the proofs, about 9,900 obligations: every safety invariant and
action property that a passing run checks, and the refinement, for any values of
the constants that the modules assume (and, in one theorem, two more assumptions). All are inductive: the property is the last
conjunct of an invariant, or follows from it, each action has its step, and the
temporal step is `PTL`. Each has its module's type invariant as `TypeCorrect`.

**`WalletSpendsProofs`**, for any notes, payments, window and bounds, and for an
application that submits a message once (`"again" \notin Sends`, where needed).
The invariant is the conjunction of the types; that nothing both failed and
landed; `Bookkeeping` (ids name one reservation, the application holds one message
of a payment it sent, what a node may hold was recorded as sent before, what the
running operation follows); `Covered` (what can still land is reserved past its
blockhash, or waits to be restored); `Excluded` (a selection knows of the notes
of everything that can still land) and `LiveDisjoint`. `LiveDisjoint` alone is not
inductive: a preparation learns what is held in one step, picks in another and
reserves in a third, and `Covered` and `Excluded` carry it from one to the next.

* `TypeCorrect`, `LiveStaysReserved`, `LivePaymentsDisjoint`, `RefusalIsFinal`.
* `CachedStaysHeld`: the reservations of a run's transactions, predicted outputs
  included, have no end: only the application's release or a known outcome
  removes them.
* `HeldOnlyOnce`: a message has one reservation, whose id all handles of it have
  while it may land and is not known to have (`HeldOnce`), for restoring looks for
  the message first.
* `KnownStaysSpent`: what is known to have landed is not in the read a
  preparation starts from: submitting and confirming forget the last read before
  they learn of the landing, and a later read does not show it (`KnownUnread`).
* `MergesStayUnspent`, for `ReuseNotes = FALSE` (the default: `reuseNotesMs` is
  off) and `"again" \notin Sends`. A merge asks for the reservations before it
  reads the notes, so a payment that lands meanwhile is in one of the two. TLC
  finds it violated without either assumption: a reused read is older than the
  reservations asked for, and a payment refused on its second send (section 7)
  has given its reservation up and may land.

**`ProverSlotProofs`**, for any provers, threads, keys and ids. The invariant is
the types, mutual exclusion (`Exclusive`), what a thread inside knows
(`Working`), that ids are fresh and not shared (`Fresh`, `NoShare`), that a key's
kind is its owner's (`Tagged`), that the slot is empty while loading
(`EmptyWhileLoading`), `RightKey`, and what closing leaves (`Gone`,
`ClosedKeyGone`). The ids carry the argument: an id is handed out once, so a
prover that compares its id with the slot's cannot mistake another's key.

* `ProofsUseTheirKey`, `ClosingReleases`, `AppKeySafe` (an action property),
  `KeysHaveOwners`.

**`KeyStoreProofs`**, for any keys, parts, callers, faults and deaths. The
invariant is the types, that what is longer than a key is known to be wrong
(`Partials`), the two locks (`Locked`), what the files may be at each
point (`Files`), what each caller holds and knows (`Calls`) and `PartsInOrder`.

* `VerifiedKeysAreGood`, `LoadsAreGood`, `PartialsInOrder`.
* `ClearsAreComplete`: until a clear that succeeded gives its lock up, nobody
  downloads, and a load that is writing an image has lost it (`ClearDone`).
* `WorkIsKept` (an action property): only a clear, or a check that failed, throws
  a part away.

**`SponsoredRunProofs`**, for any runs, slots, messages, payments, handlers and
deaths. The backend comes first. Its invariant is the types, that only the lock's
holder is between reading and writing and has the file as it is
(`LockedIsCurrent`), that a slot only holds a message valid for it
(`GivenIsValid`), and that a handler that sends has its message in the journal
(`SendsGiven`). A slot is then given only while it is free, and every step maps to
one of `RelayLedger` or to a stutter, restarts and failed saves included.

The run adds what its two copies say. The run in memory and the one on disk each
list the merges in order (`MergesInOrder`) and name every payment that went out
(`PaymentFits`); both list what was asked of the backend (`AskedIsKept`); the step
under way fits the copy in memory, and what it hands over is on disk (`StepFits`).
From these follow one message for each slot (`OneMessageAsked`, and `GivenIsAsked`,
`HandledIsAsked` for what the journal and late handlers have), and one payment,
after the merges. `NoConflict` alone is not inductive: a restart forgets the
memory, and only because each merge was saved before it was asked for does the
disk repeat it.

* `ImplementsLedger` (the refinement), `JournaledFirst`; `ImplementsBackend`: the run
  is a client as the backend's specification assumes them, so all that is proved
  of the backend holds of the two together (`RunImplementsLedger`).
* `RunTypeCorrect`, `NeverConflicts`, `PaysOnce`, `HandedOverIsSaved`,
  `PaysFromMerges`.

**`SprWalletProofs`**, for any number of calls and prefetches. The futures of
`_serial` form one queue. The invariant says that each call has a place in it
(`\E place \in [Ops -> Nat]`), one behind its predecessor's and nobody else's
(`InOrder`); that all in front of a running or finished call are done
(`FrontIsDone`); and that nothing runs behind the call `close()` waits for
(`ClosedBehind`). A step that adds a call shows a new `place` as witness.

* `Exclusive`, `NothingLeaves` and `ReportsClose` (action properties).

**`NativeBridgeProofs`**, for any objects, any of the generated calls, any threads.
The invariant is the types, that a call was given what its function locks
(`Fits`), that only calls at work are in a queue, once each (`Entered`, `Once`), and
that only synchronous calls and ends are on the event loop (`OnLoop`). The table
says the rest: the wallet is the only object ever locked for writing, and no
synchronous call takes it (`CallShape`).

* `LoopFree`.

**`AccountSendsProofs`**, for any number of transactions of any kinds. The
invariant is the types, the three properties, what the running call knows of its
transaction (`Running`), that what is not sent has no outcome (`Unsent`), that what
the transaction just reported wrote still stands or another client changed it since
(`Landed`), and that a reported choice is the record's unless the saved send, or
another client, has changed it (`Chosen`). `ChoiceStands` alone is not
inductive: it needs that only the saved send can still land.

* `SavedSendsStay`, `ReportsAreTrue`, `RegistrationStands`, `ChoicesStand`.

A record is not this wallet's alone: it may be "registered by another client, rotated"
(`account.rs:110-112`; `README.md:368-370` says the same of a conflict). So what was reported of
the record, its keys and its merging, is true when it is reported and until another
client changes it: `others` collects what one changed since this wallet last read or
wrote it. A later rotation is not noticed before the wallet asks again.

**`WalletReadsProofs`**, for any notes, trees, shapes, caps and reservations, and
any transaction the pool can hold (`WellFormed` in `LookupRows`: a spend conserves
every asset; a merge stays with its owner; what is published again is the same
again; a dummy carries the tag of the wallet or of somebody the spend pays, as the
SDK pads, `lookup.rs:626`). It has four parts.

1. Sums. The community modules' sum chooses its elements one by one. Induction over
   sets cannot be cited here, as its theorem has an operator as parameter, but that
   the finite subsets are well-founded can: a least set without the property
   contradicts the step (`MinimalSet`, `SetInduction`). It gives that a sum does
   not depend on the order (`SumTake`), and how it splits, renames and grows.
2. The selection. The notes sorted by size are each read note once
   (`FirstIsRead`); the SDK takes the shortest beginning that covers the amount, the
   limit is the longest within cap and trees, and both grow with their length
   (`LimitExact`).
3. The rows. What a lookup counts as received is what came (`CountedCame`); what it
   infers as spent from what others and the public side got is what the inputs took,
   by conservation (`SpentTaken`, `CountedTaken`); and a wallet that discovers reads a
   transaction completely only when it resolved all it concerns (`NothingMissed`).
   So the rows are the history's (`RowsAreHistory`), and the private outputs are
   the payments (`OutputsArePayments`).
4. The steps. The invariant is the types, what the two answers of a lookup may say
   at the chain's point (`AskedInTime`), that a known time is a time (`TimesFit`),
   and that a wallet that does not discover knows its configured assets only
   (`KnownFits`). `ReadyIsComplete` needs `AskedInTime`: an answer without events is
   the whole truth only because the indexer was then at the transaction's slot.

* `TypeCorrect`, `ReadyTellsAll`, `LimitsAreExact`, `TimesAreKept` (an action
  property).

The assumptions are those the modules state about their constants: sizes are
natural numbers, and names that mean "none" are not names of something. TLC
evaluates them in every run.

**Only model-checked**: liveness (`ClosedIsReleased`, both `CallsEnd`,
`CallsReturn`, `SignedIsSettled`, `LandedIsSettled`), as liveness under fairness and
`ENABLED` are out of this prover's reach. The properties of section 7 are false, and
their counterexamples are TLC's.

## 7. Where code and documentation disagree

Shown by a run:

* **A refusal of a second send** (`spends_resubmit`). `settles_the_send()` takes
  a simulation refusal as the end of the transaction, since "it was never sent"
  (`error.rs:242-247`). After an unknown outcome the same message may be
  submitted again; the simulation of that send can refuse it while the first
  copy still lands, and its notes have been released. The example's
  `reconcilePayment` resubmits so, and confirms again before it believes the
  refusal (`SponsoredRun` models both).
* **A restored reservation ends** (`spends_restored`). "Restored reservations
  stay until explicitly released or the transaction outcome is settled"
  (`prepared.rs:330-332`), yet refreshing a restored ordinary spend reserves
  again with an end at its last valid block height (`prepared.rs:294`).

* **A refusal keeps the saved send** (`account_refused`). "The saved send is dropped
  once the outcome is known, including the chain's refusal"
  (`recovery.dart:166-167`), but a refusal reaches Dart as `WalletError.client`,
  unless it is of a note already spent (`error.rs:156-190`), and on that error
  `settlePendingSend` keeps the send (`recovery.dart:185-190`). It finds the same
  refusal each time, and nothing else may be sent. The same goes for a send that
  the simulation refused, which nobody will ever find.

Met while reading, without a run of their own:

* A spend reads the notes before it drops expired reservations
  (`balance.rs:240-241`). A payment of the same wallet that lands and expires in
  between is in neither, a cause that `error.rs:41-43` does not name ("the indexer
  was behind [...], or another session spent it"); the chain refuses the spend.
  `prepare_merge` has the safe order, which `MergeNotesUnspent` checks.
* `LocalProver` answers `ProverBusy` for a poisoned mutex too (`lib.rs:148, 181`),
  and the wallet's prover leaves its key in memory after a poisoning
  (`prover.rs:240-247`), where the application's frees it (`lib.rs:220`).
* `clear` waits for a whole key, not for its part (`keys.rs:285-286` against
  `533-561`); a prefetch may answer true after a clear that ran between its last
  key and its answer (`keys.rs:269-270`).
* An operation that was running may still succeed after `close()`
  (`wallet.dart:713-715` against `857`); a prefetch stream may end with the
  bridge's own error when `close()` releases the keys between the question what
  is needed and the download (`wallet.dart:750-752`, `769`).
* The documented number of notes of a merge differs: `merge.rs` says 54,
  `wallet.dart:370` 52 for the same call (`notes.rs` takes 51 for a cached merge,
  which is another limit).
* A merge whose blockhash expired keeps its slot in the backend for good
  (`main.rs:289`), and a payment the chain refused leaves its run `submitted`
  (`sponsored_merge.dart:193`): the run ends with its expiry.
* A signer that awaits an operation of its own wallet waits for itself
  (`wallet.dart:844`); the model's signer does not.
* `waitForTransaction` knows no reservation to release (`submission.rs:104`): a
  restored transaction that was refused keeps its notes until `release()`.
* A registration or a merging change whose answer was lost stays saved too:
  `settle` knows that the indexer has no event of it (`submission.rs:137-142`),
  `waitForTransaction`, which only has a signature, waits for one
  (`submission.rs:118`) and ends in an indexer timeout each time.
  `LandedIsSettled` is of the pool's transactions for this reason.
* When `vault.write` throws, `openWallet` leaves the wallet it opened without an
  owner who could close it (`recovery.dart:71-76`).
* A transaction restored after its reservation expired is reserved under a new id; an
  older handle of the same transaction, refreshed or released, leaves that one behind
  (`prepared.rs:214-225`, `294-298`), and it has no end. `OneReleaseFrees` is of
  transactions that may still land.
* A cached spend selects confirmed cache outputs without asking whether the chain
  spent their notes already (`cache.rs:321`); the chain refuses it.
* The removal of a wrong key's image is tried and its result ignored
  (`keys.rs:554`); a device on which it fails, with its neighbour just removed, is
  outside the failures `KeyStore` gives the storage.
* An earlier read may overwrite a block time a later one learned, when two native
  calls overlap (`history.rs:93-109`); the Dart queue does not let them.

## 8. Not modelled

* Opening a wallet: how keys are derived and what a configuration may say, without
  state. Deposits: amounts, token accounts, malformed registry entries.
* The transport: checks of URLs, limits of a response, status codes, timeouts; its
  way through the event loop is in `NativeBridge`. The error table beyond which
  failures are a verdict, and the bridge's types: conversions without state.
* The example's checks of a message's bytes, its screens, formatting and
  demonstration keys; the remote prover and the backend's proof proxy, which to
  the wallet are a preparation that succeeds or fails.
* The encoding of values in the generated bindings, the vendored build tool,
  scripts, fixtures and platform folders.

## 9. Running

    tlc -workers 2 -config WalletSpends_core.cfg MCWalletSpends.tla
    tlapm WalletSpendsProofs.tla

The name of a run's module and configuration are in `PROJECT.json`. Every run
ends within five minutes on two cores; all proofs take about a quarter of an hour.
