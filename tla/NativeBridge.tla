---------------------------- MODULE NativeBridge ----------------------------
(***************************************************************************)
(* The process around the native wallet: Dart's event loop, the bridge's   *)
(* threads, and the locks between them.  A Dart object is a handle of a    *)
(* native one behind a read-write lock.  A synchronous call runs on the    *)
(* event loop; any other takes a thread, locks the objects it was given in *)
(* their order, and keeps them until it returns.  Its requests are answered*)
(* by the application, on the event loop.  A proof, and the end of an      *)
(* object that may own the loaded key, wait for the prover's slot, and Dart*)
(* ends its objects on the event loop.                                     *)
(*                                                                         *)
(* Calls' effects are other modules' concern: here a call is what it locks,*)
(* whether it asks the application, and whether it proves.                 *)
(***************************************************************************)
EXTENDS FiniteSets, Integers, SequencesExt

CONSTANTS
  Objects,   \* native objects, numbered in the order they were made
  KindOf,    \* the type of each
  KeeperOf,  \* who releases the prover's slot when the object ends
  Calls,     \* the calls the application makes
  MaxCalls,  \* bound: how many of them
  Threads,   \* threads of the bridge's pool
  MaxAsks,   \* bound: how many times one call asks
  None

Kinds == {"MobileWallet", "PreparedTransaction", "CachedOutput", "LocalProver", "ProvingKeys"}

ASSUME ObjectsAssumption == IsFiniteSet(Objects) /\ Objects \subseteq Nat /\ KindOf \in [Objects -> Kinds]
ASSUME BoundsAssumption == MaxCalls \in Nat /\ Threads \in Nat \ {0} /\ MaxAsks \in Nat
ASSUME NoneAssumption == None \notin 1..MaxCalls

-----------------------------------------------------------------------------
(* What the generated functions lock.  shares: kinds locked for reading,   *)
(* alone: for writing, does: what the wallet's method does meanwhile.      *)

Body == {"ask", "ask_beside", "fetch", "prove", "try_slot", "release", "clear", "end"}
Call == [on : {"loop", "pool"}, shares : SUBSET Kinds, alone : SUBSET Kinds, does : SUBSET Body]

Getter(kind) == [on |-> "loop", shares |-> {kind}, alone |-> {}, does |-> {}]
Shared(kinds, does) == [on |-> "pool", shares |-> kinds, alone |-> {}, does |-> does]
Alone(kinds, does) == [on |-> "pool", shares |-> {}, alone |-> kinds, does |-> does]

CachedOutput_amount == Getter("CachedOutput")
CachedOutput_commitment == Getter("CachedOutput")
CachedOutput_copy == Getter("CachedOutput")
CachedOutput_mint == Getter("CachedOutput")
CachedOutput_target == Getter("CachedOutput")

LocalProver_load_ms == Getter("LocalProver")
LocalProver_load == Shared({}, {"try_slot"})
LocalProver_prove == Shared({"LocalProver"}, {"try_slot"})
LocalProver_close == Shared({"LocalProver"}, {"release"})

PreparedTransaction_cached_output == Getter("PreparedTransaction")
PreparedTransaction_fee_payer == Getter("PreparedTransaction")
PreparedTransaction_last_valid_block_height == Getter("PreparedTransaction")
PreparedTransaction_message == Getter("PreparedTransaction")
PreparedTransaction_operation == Getter("PreparedTransaction")
PreparedTransaction_outputs == Getter("PreparedTransaction")
PreparedTransaction_priority_fee_lamports == Getter("PreparedTransaction")
PreparedTransaction_signers == Getter("PreparedTransaction")

MobileWallet_activity == Alone({"MobileWallet"}, {"ask"})
MobileWallet_balances == Alone({"MobileWallet"}, {"ask"})
MobileWallet_overview == Alone({"MobileWallet"}, {"ask"})
MobileWallet_private_balance == Alone({"MobileWallet"}, {"ask"})
MobileWallet_spendable_notes == Alone({"MobileWallet"}, {"ask"})
MobileWallet_prepare_deposit == Alone({"MobileWallet"}, {"ask"})
MobileWallet_prepare_spend == Alone({"MobileWallet"}, {"ask", "ask_beside", "prove"})
MobileWallet_prepare_merge == Alone({"MobileWallet"}, {"ask", "prove"})
MobileWallet_prepare_cached_merge == Alone({"MobileWallet"}, {"ask", "prove"})
MobileWallet_prepare_cached_spend == Alone({"MobileWallet"}, {"ask", "prove"})

MobileWallet_open == Shared({}, {})
MobileWallet_open_with_keys == Shared({}, {})
MobileWallet_export_keys == Shared({"MobileWallet"}, {})
MobileWallet_shielded_address == Shared({"MobileWallet"}, {})
MobileWallet_proving_keys == Shared({"MobileWallet"}, {})
MobileWallet_restore_prepared_transaction == Shared({"MobileWallet"}, {})
MobileWallet_registration_status == Shared({"MobileWallet"}, {"ask"})
MobileWallet_prepare_registration == Shared({"MobileWallet"}, {"ask"})
MobileWallet_merging_enabled == Shared({"MobileWallet"}, {"ask"})
MobileWallet_prepare_merging == Shared({"MobileWallet"}, {"ask"})
MobileWallet_verify_cached_outputs == Shared({"MobileWallet"}, {"ask"})
MobileWallet_wait_for_transaction == Shared({"MobileWallet"}, {"ask"})
MobileWallet_transaction == Shared({"MobileWallet"}, {"ask", "ask_beside"})

WithPrepared == {"MobileWallet", "PreparedTransaction"}
MobileWallet_release == Shared(WithPrepared, {})
MobileWallet_export_prepared_transaction == Shared(WithPrepared, {})
MobileWallet_submit == Shared(WithPrepared, {"ask"})
MobileWallet_confirm == Shared(WithPrepared, {"ask"})
MobileWallet_transaction_with_prepared == Shared(WithPrepared, {"ask", "ask_beside"})

\* Mutant: refreshing changes the transaction it was given.
MobileWallet_refresh0 ==
  [on |-> "pool", shares |-> {"MobileWallet"}, alone |-> {"PreparedTransaction"}, does |-> {"ask"}]

MobileWallet_refresh == Shared(WithPrepared, {"ask"})

ProvingKeys_status == Shared({"ProvingKeys"}, {})
ProvingKeys_needed == Shared({"ProvingKeys"}, {})
ProvingKeys_clear == Shared({"ProvingKeys"}, {"clear"})
ProvingKeys_prefetch == Shared({"ProvingKeys"}, {"ask", "fetch"})
ProvingKeys_prove == Shared({"ProvingKeys"}, {"ask", "prove"})

\* No objects: a call of its own.
Transport_new == Shared({}, {})
cache_target_cache_address == Shared({}, {})
derivation_message == Shared({}, {})
init_app == Shared({}, {})
poseidon_hash == Shared({}, {})
sdk_version == Shared({}, {})

\* Dart ends its handle of an object, by hand or when it is collected.
Dispose(kind) == [on |-> "loop", shares |-> {kind}, alone |-> {}, does |-> {"end"}]

WalletCalls == {
  MobileWallet_activity, MobileWallet_balances, MobileWallet_overview,
  MobileWallet_private_balance, MobileWallet_spendable_notes, MobileWallet_prepare_deposit,
  MobileWallet_prepare_spend, MobileWallet_prepare_merge, MobileWallet_prepare_cached_merge,
  MobileWallet_prepare_cached_spend, MobileWallet_open, MobileWallet_open_with_keys,
  MobileWallet_export_keys, MobileWallet_shielded_address, MobileWallet_proving_keys,
  MobileWallet_restore_prepared_transaction, MobileWallet_registration_status,
  MobileWallet_prepare_registration, MobileWallet_merging_enabled, MobileWallet_prepare_merging,
  MobileWallet_verify_cached_outputs, MobileWallet_wait_for_transaction, MobileWallet_transaction,
  MobileWallet_release, MobileWallet_export_prepared_transaction, MobileWallet_submit,
  MobileWallet_confirm, MobileWallet_transaction_with_prepared, MobileWallet_refresh}

OtherCalls == {
  CachedOutput_amount, CachedOutput_commitment, CachedOutput_copy, CachedOutput_mint,
  CachedOutput_target, LocalProver_load_ms, LocalProver_load, LocalProver_prove, LocalProver_close,
  PreparedTransaction_cached_output, PreparedTransaction_fee_payer,
  PreparedTransaction_last_valid_block_height, PreparedTransaction_message,
  PreparedTransaction_operation, PreparedTransaction_outputs,
  PreparedTransaction_priority_fee_lamports, PreparedTransaction_signers,
  ProvingKeys_status, ProvingKeys_needed, ProvingKeys_clear, ProvingKeys_prefetch,
  ProvingKeys_prove, Transport_new, cache_target_cache_address, derivation_message, init_app,
  poseidon_hash, sdk_version}

AllCalls == WalletCalls \cup OtherCalls \cup {Dispose(kind) : kind \in Kinds}

ASSUME CallsAssumption == Calls \subseteq AllCalls

-----------------------------------------------------------------------------
VARIABLES
  task,    \* the calls, in the order they are made
  queue,   \* the calls that hold or wait for an object, in the order they came
  loop,    \* the call that occupies the event loop
  prover,  \* the call that holds the prover's slot
  handles  \* the objects Dart holds

vars == <<task, queue, loop, prover, handles>>

Tasks == 1..MaxCalls
Steps == {"unmade", "waiting", "locking", "running", "ran",
          "files", "key", "fetching", "clear", "release", "proof", "proving", "ending", "over"}

Made(call, objs, step) ==
  [call |-> call, objs |-> objs, step |-> step, open |-> 0, asked |-> 0]

Is(t, step) == task[t].step = step
Does(t, what) == task[t].call # None /\ what \in task[t].call.does
Asked(made, open, asked) ==
  [call |-> made.call, objs |-> made.objs, step |-> made.step, open |-> open, asked |-> asked]

\* Inside the native function, with its references to the objects.
Inside(t) == task[t].step \notin {"unmade", "ending", "over"}
OnThread(t) == task[t].call # None /\ task[t].call.on = "pool"
               /\ task[t].step \notin {"unmade", "waiting", "over"}

To(t, step) == task' = [task EXCEPT ![t].step = step]

\* The lock is fair: a reader comes in behind the writers that came before it.
Before(t, o) == {queue[o][i] : i \in {i \in 1..Len(queue[o]) : \E j \in (i+1)..Len(queue[o]) : queue[o][j] = t}}
LocksAlone(t, o) == KindOf[o] \in task[t].call.alone
Queues(t, o) == t \in ToSet(queue[o])
Holds(t, o) == Queues(t, o)
               /\ \A u \in Before(t, o) : ~LocksAlone(t, o) /\ ~LocksAlone(u, o)
HoldsAll(t) == \A o \in Objects : Queues(t, o) => Holds(t, o)
Without(q, t) == IF t \in ToSet(q) THEN RemoveAt(q, CHOOSE i \in DOMAIN q : q[i] = t) ELSE q
Left(t) == {o \in task[t].objs : ~Queues(t, o)}

\* The objects whose end releases the same prover's key, and are not gone
\* once t is out.
StillUsed(keeper, t, kept) == \E o \in Objects :
  /\ KeeperOf[o] = keeper
  /\ o \in kept \/ \E u \in Tasks \ {t} : Inside(u) /\ o \in task[u].objs
LastUse(t, kept) == \E o \in task[t].objs :
  KeeperOf[o] # None /\ ~StillUsed(KeeperOf[o], t, kept)

Init ==
  /\ task = [t \in Tasks |-> Made(None, {}, "unmade")]
  /\ queue = [o \in Objects |-> <<>>]
  /\ loop = None
  /\ prover = None
  /\ handles = Objects

IsNext(t) == loop = None /\ Is(t, "unmade") /\ \A u \in 1..(t - 1) : ~Is(u, "unmade")

\* One object of each kind the call takes.
Given(call) == {objs \in SUBSET handles :
  /\ {KindOf[o] : o \in objs} = call.shares \cup call.alone
  /\ \A o, p \in objs : KindOf[o] = KindOf[p] => o = p}

\* The application calls: a synchronous call keeps its event loop.
Make(t, call) ==
  /\ IsNext(t)
  /\ "end" \notin call.does
  /\ \E objs \in Given(call) :
       task' = [task EXCEPT ![t] =
                  Made(call, objs, IF call.on = "loop" THEN "locking" ELSE "waiting")]
  /\ loop' = IF call.on = "loop" THEN t ELSE None
  /\ UNCHANGED <<queue, prover, handles>>

\* Dart's handle ends.  The object ends with it, on the event loop, unless a
\* call still uses it; one that may own the loaded key waits for the slot.
EndHandle(t, call) ==
  /\ IsNext(t)
  /\ "end" \in call.does
  /\ \E objs \in Given(call) :
       LET waits == \E o \in objs : KeeperOf[o] # None /\ ~StillUsed(KeeperOf[o], t, handles \ objs)
       IN /\ handles' = handles \ objs
          /\ task' = [task EXCEPT ![t] = Made(call, objs, IF waits THEN "ending" ELSE "over")]
          /\ loop' = IF waits THEN t ELSE None
  /\ UNCHANGED <<queue, prover>>

\* A thread of the pool takes the call.
Start(t) ==
  /\ Is(t, "waiting")
  /\ Cardinality({u \in Tasks : OnThread(u)}) < Threads
  /\ To(t, "locking")
  /\ UNCHANGED <<queue, loop, prover, handles>>

\* The objects' locks are taken in the order the objects were made.
Lock(t) ==
  /\ Is(t, "locking")
  /\ HoldsAll(t)
  /\ \E o \in Left(t) :
       /\ \A p \in Left(t) : o <= p
       /\ queue' = [queue EXCEPT ![o] = Append(@, t)]
  /\ UNCHANGED <<task, loop, prover, handles>>

Begin(t) ==
  /\ Is(t, "locking")
  /\ HoldsAll(t)
  /\ Left(t) = {}
  /\ To(t, CASE Does(t, "release") -> "release"
             [] Does(t, "clear") -> "clear"
             [] OTHER -> "running")
  /\ UNCHANGED <<queue, loop, prover, handles>>

-----------------------------------------------------------------------------
(* Inside the native function. *)

\* Mutant: the key is loaded under the slot, then fetched.
MayAsk0(t) == \/ task[t].step \in {"running", "ran"} /\ Does(t, "ask")
              \/ Is(t, "proving") /\ Does(t, "prove")

MayAsk(t) == \/ task[t].step \in {"running", "ran"} /\ Does(t, "ask")
             \/ Is(t, "fetching")

\* The call's thread waits for the application's answer.
Ask(t) ==
  /\ MayAsk(t)
  /\ task[t].open = 0
  /\ task[t].asked < MaxAsks
  /\ task' = [task EXCEPT ![t] = Asked(task[t], 1, task[t].asked + 1)]
  /\ UNCHANGED <<queue, loop, prover, handles>>

\* Two requests, one from a thread of its own.
AskBeside(t) ==
  /\ Is(t, "running")
  /\ Does(t, "ask_beside")
  /\ task[t].open = 0
  /\ task[t].asked < MaxAsks
  /\ task' = [task EXCEPT ![t] = Asked(task[t], 2, task[t].asked + 1)]
  /\ UNCHANGED <<queue, loop, prover, handles>>

\* The application answers on the event loop.
Answer(t) ==
  /\ task[t].open > 0
  /\ loop = None
  /\ task' = [task EXCEPT ![t] = Asked(task[t], task[t].open - 1, task[t].asked)]
  /\ UNCHANGED <<queue, loop, prover, handles>>

\* A key is fetched, or found, with the store's files and the key locked.
Fetch(t) ==
  /\ Is(t, "running")
  /\ Does(t, "fetch") \/ Does(t, "prove")
  /\ task[t].open = 0
  /\ To(t, "files")
  /\ UNCHANGED <<queue, loop, prover, handles>>

OpenFiles(t) ==
  /\ Is(t, "files")
  /\ \A u \in Tasks : ~Is(u, "clear")
  /\ To(t, "key")
  /\ UNCHANGED <<queue, loop, prover, handles>>

TakeKey(t) ==
  /\ Is(t, "key")
  /\ \A u \in Tasks : ~Is(u, "fetching")
  /\ To(t, "fetching")
  /\ UNCHANGED <<queue, loop, prover, handles>>

\* The key is there, and its locks are free; or the fetch failed.
Fetched(t) ==
  /\ Is(t, "fetching")
  /\ task[t].open = 0
  /\ \/ Does(t, "prove") /\ To(t, "proof")
     \/ To(t, "ran")
  /\ UNCHANGED <<queue, loop, prover, handles>>

Clear(t) ==
  /\ Is(t, "clear")
  /\ \A u \in Tasks : task[u].step \notin {"key", "fetching"}
  /\ To(t, "ran")
  /\ UNCHANGED <<queue, loop, prover, handles>>

\* The wallet's proof waits for the slot; the application's own prover does not.
Prove(t) ==
  /\ \/ Is(t, "proof")
     \/ Is(t, "running") /\ Does(t, "try_slot")
  /\ prover = None
  /\ prover' = t
  /\ To(t, "proving")
  /\ UNCHANGED <<queue, loop, handles>>

\* The slot is free again, also when the proof failed.
Proved(t) ==
  /\ Is(t, "proving")
  /\ task[t].open = 0
  /\ prover' = None
  /\ To(t, "ran")
  /\ UNCHANGED <<queue, loop, handles>>

\* LocalProver.close waits for the slot.
Release(t) ==
  /\ Is(t, "release")
  /\ prover = None
  /\ To(t, "ran")
  /\ UNCHANGED <<queue, loop, prover, handles>>

\* The locks are free and the references go; the last one ends the object.
Return(t) ==
  /\ task[t].step \in {"running", "ran"}
  /\ task[t].open = 0
  /\ queue' = [o \in Objects |-> Without(queue[o], t)]
  /\ To(t, IF LastUse(t, handles) THEN "ending" ELSE "over")
  /\ loop' = IF loop = t /\ ~LastUse(t, handles) THEN None ELSE loop
  /\ UNCHANGED <<prover, handles>>

End(t) ==
  /\ Is(t, "ending")
  /\ prover = None
  /\ To(t, "over")
  /\ loop' = IF loop = t THEN None ELSE loop
  /\ UNCHANGED <<queue, prover, handles>>

Works(t) ==
  \/ Start(t) \/ Lock(t) \/ Begin(t)
  \/ Ask(t) \/ AskBeside(t) \/ Answer(t)
  \/ Fetch(t) \/ OpenFiles(t) \/ TakeKey(t) \/ Fetched(t) \/ Clear(t)
  \/ Prove(t) \/ Proved(t) \/ Release(t)
  \/ Return(t) \/ End(t)

Next ==
  \/ \E t \in Tasks, call \in Calls : Make(t, call) \/ EndHandle(t, call)
  \/ \E t \in Tasks : Works(t)

Spec == Init /\ [][Next]_vars

\* A thread that can go on does, and the application answers what it is asked
\* when its event loop is free.
Fairness == \A t \in Tasks : WF_vars(Works(t))
FairSpec == Spec /\ Fairness

-----------------------------------------------------------------------------
\* The types of the state, and that whoever occupies the event loop or the
\* prover's slot is at a step that keeps it.
TypeOK ==
  /\ task \in [Tasks -> [call : Calls \cup {None}, objs : SUBSET Objects, step : Steps,
                         open : 0..2, asked : 0..MaxAsks]]
  /\ queue \in [Objects -> Seq(Tasks)]
  /\ loop \in Tasks \cup {None}
  /\ prover \in Tasks \cup {None}
  /\ handles \subseteq Objects
  /\ loop # None => task[loop].step \in {"locking", "running", "ran", "ending"}
  /\ \A t \in Tasks : Is(t, "proving") <=> prover = t

\* A synchronous call never waits on the event loop for an object a running
\* call has locked: no call changes the objects whose getters Dart calls.
LoopNeverWaits ==
  \A t \in Tasks : loop = t /\ Is(t, "locking") => HoldsAll(t)

\* Every call returns, whatever runs beside it: the event loop may wait for a
\* proof, a proof for nobody, and a call that holds locks only for the loop.
CallsReturn == \A t \in Tasks : ~Is(t, "unmade") ~> Is(t, "over")
=============================================================================
