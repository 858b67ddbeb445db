----------------------------- MODULE ProverSlot -----------------------------
(***************************************************************************)
(* PREPARED: the one proving key a process has loaded, and the two kinds   *)
(* of prover that share it.  A NativeProver belongs to a wallet and loads  *)
(* the lockfile key each proof asks for; a LocalProver holds a key the     *)
(* application loaded from a file.  Calls run on threads: the mutex around *)
(* the slot is taken and waited for, tried, held while a key loads and     *)
(* while a proof runs, and poisoned when a proof panics.                   *)
(***************************************************************************)
EXTENDS Integers

CONSTANTS
  Wallets,  \* NativeProvers: the provers of open wallets and their ProvingKeys
  Locals,   \* LocalProvers the application loads
  Calls,    \* threads that call them
  Keys,     \* lockfile keys
  App,      \* the key of a LocalProver, which has no lockfile name
  MaxId     \* the last id next_id() hands out (u64::MAX in the code)

ASSUME KeysAssumption == App \notin Keys
ASSUME IdAssumption == MaxId \in Nat
ASSUME ProversAssumption == Wallets \cap Locals = {}

Free == "free"        \* nobody holds the mutex
Nobody == "nobody"    \* no prover: the thread is idle

ASSUME NamesAssumption == Free \notin Calls /\ Nobody \notin Wallets \cup Locals

NoKey == [id |-> 0, key |-> "none"]                  \* loaded: None
LoadedKey == [id : 1..MaxId, key : Keys \cup {App}]

ASSUME NoKeyAssumption == "none" \notin Keys \cup {App}

VARIABLES
  loaded,    \* ProverState.loaded
  nextId,    \* ProverState.next_id
  mutex,     \* the thread inside PREPARED, or Free
  poisoned,  \* a thread panicked inside it
  native,    \* wallet -> [id: Native.loaded, open]
  local,     \* LocalProver -> [id, life, closed]
  pc, who, key,   \* what each thread does, for which prover, with which key
  answer,    \* what its last call returned
  settled    \* history: LocalProvers some close() of which has returned

slot == <<loaded, nextId, mutex, poisoned>>
thread == <<pc, who, key, answer>>
vars == <<slot, native, local, thread, settled>>

Steps == {"idle", "native_waits", "native_loads", "native_proves", "dropping",
          "local_loads", "local_checked", "local_proves", "releasing", "closing"}
Inside == {"native_loads", "native_proves", "local_loads", "local_proves"}
Answers == {"none", "proof", "failed", "busy", "closed", "unavailable", "done"}

TypeOK ==
  /\ loaded \in LoadedKey \cup {NoKey}
  /\ nextId \in 1..(MaxId + 1)
  /\ mutex \in Calls \cup {Free}
  /\ poisoned \in BOOLEAN
  /\ native \in [Wallets -> [id : 0..MaxId, open : BOOLEAN]]
  /\ local \in [Locals -> [id : 0..MaxId, life : {"new", "open", "dropped"},
                            closed : BOOLEAN]]
  /\ pc \in [Calls -> Steps]
  /\ who \in [Calls -> Wallets \cup Locals \cup {Nobody}]
  /\ key \in [Calls -> Keys \cup {App}]
  /\ answer \in [Calls -> Answers]
  /\ settled \subseteq Locals

Init ==
  /\ loaded = NoKey /\ nextId = 1 /\ mutex = Free /\ poisoned = FALSE
  /\ native = [w \in Wallets |-> [id |-> 0, open |-> TRUE]]
  /\ local = [l \in Locals |-> [id |-> 0, life |-> "new", closed |-> FALSE]]
  /\ pc = [c \in Calls |-> "idle"]
  /\ who = [c \in Calls |-> Nobody]
  /\ key = [c \in Calls |-> App]
  /\ answer = [c \in Calls |-> "none"]
  /\ settled = {}

\* next_id(): checked_add
IdsLeft == nextId <= MaxId

-----------------------------------------------------------------------------
(* Calls. *)

Goes(c, step) == pc' = [pc EXCEPT ![c] = step] /\ UNCHANGED <<who, key, answer>>

Starts(c, step, prover, k) ==
  /\ pc[c] = "idle"
  /\ pc' = [pc EXCEPT ![c] = step]
  /\ who' = [who EXCEPT ![c] = prover]
  /\ key' = [key EXCEPT ![c] = k]
  /\ answer' = [answer EXCEPT ![c] = "none"]

Returns(c, result) ==
  /\ pc' = [pc EXCEPT ![c] = "idle"]
  /\ who' = [who EXCEPT ![c] = Nobody]
  /\ key' = [key EXCEPT ![c] = App]
  /\ answer' = [answer EXCEPT ![c] = result]

\* A call that holds a reference to prover p: its Drop cannot run.
InUse(p) == \E c \in Calls : who[c] = p

\* Mutant: a poisoned mutex is left as it is, as the native prover leaves it.
EmptiesHealthy(id) == loaded' = IF loaded.id = id /\ ~poisoned THEN NoKey ELSE loaded

\* Release only the prover's own key.
Empties(id) == loaded' = IF loaded.id = id THEN NoKey ELSE loaded

-----------------------------------------------------------------------------
(* NativeProver. *)

\* prove_request, once the key file is on the device
NativeAsks(c, w, k) ==
  /\ native[w].open
  /\ Starts(c, "native_waits", w, k)
  /\ UNCHANGED <<slot, native, local, settled>>

\* Mutant: the application's own key is replaced like any other.
AppHolds0 == FALSE

\* A LocalProver's key is in the slot.
AppHolds == loaded.key = App

\* lock(), then: the application's key is left alone, the same lockfile key
\* is used as it is, another one is dropped to load the key asked for.
NativeTakes(c) ==
  /\ pc[c] = "native_waits" /\ mutex = Free
  /\ \/ /\ poisoned
        /\ Returns(c, "unavailable") /\ UNCHANGED <<loaded, mutex>>
     \/ /\ ~poisoned /\ AppHolds
        /\ Returns(c, "busy") /\ UNCHANGED <<loaded, mutex>>
     \/ /\ ~poisoned /\ ~AppHolds /\ loaded.key = key[c]
        /\ mutex' = c /\ Goes(c, "native_proves") /\ UNCHANGED loaded
     \/ /\ ~poisoned /\ ~AppHolds /\ loaded.key # key[c]
        /\ mutex' = c /\ loaded' = NoKey /\ Goes(c, "native_loads")
  /\ UNCHANGED <<nextId, poisoned, native, local, settled>>

\* Mutant: the prover does not remember the id it loaded.
Remembers0(w, id) == UNCHANGED native

Remembers(w, id) == native' = [native EXCEPT ![w].id = id]

\* load: the key loads and takes the slot under a new id
NativeLoads(c) ==
  /\ pc[c] = "native_loads" /\ IdsLeft
  /\ loaded' = [id |-> nextId, key |-> key[c]]
  /\ nextId' = nextId + 1
  /\ Remembers(who[c], nextId)
  /\ Goes(c, "native_proves")
  /\ UNCHANGED <<mutex, poisoned, local, settled>>

\* load: the file is gone or damaged, or the ids ran out; the slot stays empty
NativeLoadFails(c) ==
  /\ pc[c] = "native_loads"
  /\ mutex' = Free /\ Returns(c, IF IdsLeft THEN "failed" ELSE "unavailable")
  /\ UNCHANGED <<loaded, nextId, poisoned, native, local, settled>>

NativeProves(c) ==
  /\ pc[c] = "native_proves"
  /\ mutex' = Free
  /\ \/ Returns(c, "proof")
     \/ Returns(c, "failed")
  /\ UNCHANGED <<loaded, nextId, poisoned, native, local, settled>>

\* Drop for Native: the last clone of a closed wallet's prover goes
NativeDrops(c, w) ==
  /\ native[w].open /\ ~InUse(w)
  /\ native' = [native EXCEPT ![w].open = FALSE]
  /\ Starts(c, "dropping", w, App)
  /\ UNCHANGED <<slot, local, settled>>

NativeReleases(c) ==
  /\ pc[c] = "dropping" /\ mutex = Free
  /\ IF poisoned THEN UNCHANGED loaded ELSE Empties(native[who[c]].id)
  /\ Returns(c, "done")
  /\ UNCHANGED <<nextId, mutex, poisoned, native, local, settled>>

-----------------------------------------------------------------------------
(* LocalProver. *)

\* load: try_lock, and only into an empty slot
LocalLoad(c, l) ==
  /\ local[l].life = "new" /\ ~InUse(l)
  /\ \/ /\ mutex = Free /\ ~poisoned /\ loaded = NoKey /\ IdsLeft
        /\ mutex' = c /\ nextId' = nextId + 1
        /\ local' = [local EXCEPT ![l].id = nextId]
        /\ Starts(c, "local_loads", l, App)
     \/ /\ pc[c] = "idle"
        /\ \/ (mutex # Free \/ poisoned \/ loaded # NoKey) /\ Returns(c, "busy")
           \/ /\ mutex = Free /\ ~poisoned /\ loaded = NoKey /\ ~IdsLeft
              /\ Returns(c, "unavailable")
        /\ UNCHANGED <<mutex, nextId, local>>
  /\ UNCHANGED <<loaded, poisoned, native, settled>>

LocalLoads(c) ==
  /\ pc[c] = "local_loads"
  /\ mutex' = Free
  /\ \/ /\ loaded' = [id |-> local[who[c]].id, key |-> App]
        /\ local' = [local EXCEPT ![who[c]].life = "open"]
        /\ Returns(c, "done")
     \/ /\ local' = [local EXCEPT ![who[c]].id = 0]
        /\ Returns(c, "failed") /\ UNCHANGED loaded
  /\ UNCHANGED <<nextId, poisoned, native, settled>>

\* prove: closed is read before the lock
LocalProve(c, l) ==
  /\ local[l].life = "open"
  /\ \/ ~local[l].closed /\ Starts(c, "local_checked", l, App)
     \/ local[l].closed /\ pc[c] = "idle" /\ Returns(c, "closed")
  /\ UNCHANGED <<slot, native, local, settled>>

\* Mutant: whatever key is loaded is taken for the prover's own.
OwnKey0(l) == loaded # NoKey

OwnKey(l) == loaded.id = local[l].id

\* prove: try_lock, and the slot must hold this prover's key
LocalTakes(c) ==
  /\ pc[c] = "local_checked"
  /\ \/ /\ mutex # Free \/ poisoned
        /\ Returns(c, "busy") /\ UNCHANGED mutex
     \/ /\ mutex = Free /\ ~poisoned /\ ~OwnKey(who[c])
        /\ Returns(c, "closed") /\ UNCHANGED mutex
     \/ /\ mutex = Free /\ ~poisoned /\ OwnKey(who[c])
        /\ mutex' = c /\ Goes(c, "local_proves")
  /\ UNCHANGED <<loaded, nextId, poisoned, native, local, settled>>

\* prove: closed is read again after the proof, before it is returned
LocalProves(c) ==
  /\ pc[c] = "local_proves"
  /\ mutex' = Free
  /\ IF local[who[c]].closed
     THEN loaded' = NoKey /\ Returns(c, "closed")
     ELSE /\ Returns(c, "proof") \/ Returns(c, "failed")
          /\ UNCHANGED loaded
  /\ UNCHANGED <<nextId, poisoned, native, local, settled>>

\* Mutant: close only marks the prover, the proof that runs would free it.
LocalClose0(c, l) ==
  /\ local[l].life = "open" /\ pc[c] = "idle"
  /\ local' = [local EXCEPT ![l].closed = TRUE]
  /\ UNCHANGED <<slot, native, thread, settled>>

\* close: closed is stored before the lock is waited for
LocalClose(c, l) ==
  /\ local[l].life = "open"
  /\ local' = [local EXCEPT ![l].closed = TRUE]
  /\ Starts(c, "closing", l, App)
  /\ UNCHANGED <<slot, native, settled>>

\* Drop for LocalProver: the object is collected, closed or not
LocalDrop(c, l) ==
  /\ local[l].life = "open" /\ ~InUse(l)
  /\ local' = [local EXCEPT ![l].life = "dropped"]
  /\ Starts(c, "releasing", l, App)
  /\ UNCHANGED <<slot, native, settled>>

\* release: waits for the mutex, a poisoned one too, and frees its own key
LocalReleases(c) ==
  /\ pc[c] \in {"closing", "releasing"} /\ mutex = Free
  /\ Empties(local[who[c]].id)
  /\ settled' = IF pc[c] = "closing" THEN settled \cup {who[c]} ELSE settled
  /\ Returns(c, "done")
  /\ UNCHANGED <<nextId, mutex, poisoned, native, local>>

-----------------------------------------------------------------------------
\* A proof panics: the guard is dropped while unwinding, the mutex poisoned.
Panic(c) ==
  /\ pc[c] \in {"native_proves", "local_proves"}
  /\ mutex' = Free /\ poisoned' = TRUE
  /\ Returns(c, "failed")
  /\ UNCHANGED <<loaded, nextId, native, local, settled>>

Step(c) ==
  \/ NativeTakes(c) \/ NativeLoads(c) \/ NativeLoadFails(c) \/ NativeProves(c)
  \/ NativeReleases(c) \/ LocalLoads(c) \/ LocalTakes(c) \/ LocalProves(c)
  \/ LocalReleases(c) \/ Panic(c)

Call(c) ==
  \/ \E w \in Wallets, k \in Keys : NativeAsks(c, w, k)
  \/ \E w \in Wallets : NativeDrops(c, w)
  \/ \E l \in Locals : LocalLoad(c, l) \/ LocalProve(c, l) \/ LocalClose(c, l) \/ LocalDrop(c, l)

Next == \E c \in Calls : Step(c) \/ Call(c)

\* A thread that can go on does.
Fairness == \A c \in Calls : WF_vars(Step(c))

Spec == Init /\ [][Next]_vars
FairSpec == Spec /\ Fairness

-----------------------------------------------------------------------------
(* Properties. *)

NativeOwns(w) ==
  /\ native[w].id = loaded.id
  /\ \/ native[w].open
     \/ \E c \in Calls : pc[c] = "dropping" /\ who[c] = w

LocalOwns(l) ==
  /\ local[l].id = loaded.id
  /\ \/ local[l].life = "open" /\ ~local[l].closed
     \/ \E c \in Calls : pc[c] \in {"closing", "releasing"} /\ who[c] = l

Owned == (\E w \in Wallets : NativeOwns(w)) \/ (\E l \in Locals : LocalOwns(l))

\* Until a proof panics, no key stays in memory once the prover that loaded it
\* is gone: whoever loaded it is open, or is just being closed or dropped.  It
\* is lost when a prover frees the slot without knowing the id it loaded, and
\* when the slot changes hands between two proofs of a wallet that is then closed.
LoadedHasOwner == loaded # NoKey /\ ~poisoned => Owned

\* A proof runs with the key it asked for, whatever other threads loaded,
\* closed or dropped since its prover was checked.
RightKey ==
  \A c \in Calls :
    /\ pc[c] = "native_proves" => loaded.key = key[c]
    /\ pc[c] = "local_proves" => loaded.key = App /\ loaded.id = local[who[c]].id

\* Once a close() has returned, the key it closed is out of memory for good,
\* also when proofs were waiting or running meanwhile, or one had panicked.
ClosedKeyGone == \A l \in settled : loaded.id # local[l].id

\* The key an application loaded is never taken from it: not by a wallet's
\* proof, not by another prover that is closed, dropped or collected.
AppKeyKept ==
  [][loaded.key = App /\ loaded' # loaded =>
       /\ loaded' = NoKey
       /\ \E l \in Locals :
            /\ local[l].id = loaded.id
            /\ local[l].closed \/ local[l].life = "dropped"]_vars

\* close() takes effect: the key it closed leaves the slot, however many
\* proofs and loads run beside it.
ClosedIsReleased ==
  \A l \in Locals : local[l].closed ~> loaded.id # local[l].id
=============================================================================
