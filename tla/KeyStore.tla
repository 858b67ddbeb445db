------------------------------ MODULE KeyStore ------------------------------
(***************************************************************************)
(* The store of proving keys: prefetches, proofs and clears of one process *)
(* share a directory, a read-write lock over it (Shared::files), a lock    *)
(* per key (Shared::downloads) and the set of keys checked so far          *)
(* (Shared::verified).  Downloads go part by part and resume; the process  *)
(* dies anywhere and finds the directory as it left it, or damaged.        *)
(***************************************************************************)
EXTENDS FiniteSets, Integers

CONSTANTS
  Keys,      \* proving keys of the lockfile
  Parts,     \* parts each is downloaded in
  Callers,   \* threads with a call of a store: prefetch, proof or clear
  MaxFaults, \* bound: wrong answers of the host and damages of the storage
  MaxDeaths, \* bound: times the process dies
  Free

ASSUME PartsAssumption == Parts \in Nat \ {0} /\ MaxFaults \in Nat /\ MaxDeaths \in Nat
ASSUME FreeAssumption == Free \notin Callers
ASSUME KeysAssumption == Keys # {}

VARIABLES
  disk,     \* per key: its file, partial download, image and .verified record
  verified, \* Shared::verified
  readers,  \* callers that read-hold Shared::files
  writer,   \* the caller that write-holds it
  held,     \* Shared::downloads: who holds each key's lock
  call,     \* what each caller does
  faults, deaths

vars == <<disk, verified, readers, writer, held, call, faults, deaths>>
locks == <<readers, writer, held>>
bounds == <<faults, deaths>>

Content == {"none", "good", "bad"}
\* The length of a partial file of more than the key.
Overlong == Parts + 1
Stored == [file : Content, partial : 0..Overlong, spoiled : {"no", "host", "shift"},
           image : Content, record : {"none", "fits"}]
Gone == [file |-> "none", partial |-> 0, spoiled |-> "no", image |-> "none", record |-> "none"]
\* A key damaged before, or left by an older format, with its image.
Damaged == [Gone EXCEPT !.file = "bad", !.image = "bad"]
Overgrown == [Gone EXCEPT !.partial = Overlong, !.spoiled = "host"]

Idle == [op |-> "none", step |-> "idle", keys |-> {}, todo |-> {},
         key |-> CHOOSE k \in Keys : TRUE, offset |-> 0, src |-> "none", answer |-> "none"]
Fetching == {"look", "image", "size", "part", "append", "record"}
Steps == Fetching \cup {"idle", "next", "files", "key", "fetched", "load", "writing", "loaded",
                      "wait", "forget", "remove", "cleared", "answer"}
Call == [op : {"none", "prefetch", "proof", "clear"}, step : Steps,
         keys : SUBSET Keys, todo : SUBSET Keys, key : Keys, offset : 0..Parts,
         src : Content, answer : {"none", "true", "false", "error"}]

TypeOK ==
  /\ disk \in [Keys -> Stored]
  /\ verified \subseteq Keys
  /\ readers \subseteq Callers /\ writer \in Callers \cup {Free}
  /\ held \in [Keys -> Callers \cup {Free}]
  /\ call \in [Callers -> Call]
  /\ faults \in 0..MaxFaults /\ deaths \in 0..MaxDeaths
  /\ writer = Free \/ readers = {}

Init ==
  /\ disk \in [Keys -> {Gone, Damaged, Overgrown}]
  /\ verified = {} /\ readers = {} /\ writer = Free
  /\ held = [k \in Keys |-> Free]
  /\ call = [c \in Callers |-> Idle]
  /\ faults = 0 /\ deaths = 0

-----------------------------------------------------------------------------
At(c, step) == call[c].step = step
Key(c) == call[c].key
Goes(c, step) == call' = [call EXCEPT ![c].step = step]
Answers(c, answer) == call' = [call EXCEPT ![c].step = "answer", ![c].answer = answer]

\* Known without hashing: checked by this process, or its record still fits.
OnDevice(k) == k \in verified \/ (disk[k].file # "none" /\ disk[k].record = "fits")

(* prefetch *)

\* What is missing is looked up before any lock is taken.
Prefetch(c, ks) ==
  /\ At(c, "idle")
  /\ call' = [call EXCEPT ![c] =
       [Idle EXCEPT !.op = "prefetch", !.step = "next", !.keys = ks,
                    !.todo = {k \in ks : ~OnDevice(k)}]]
  /\ UNCHANGED <<disk, verified, locks, bounds>>

NextKey(c) ==
  /\ At(c, "next") /\ call[c].todo # {}
  /\ \E k \in call[c].todo : call' = [call EXCEPT ![c].step = "files", ![c].key = k]
  /\ UNCHANGED <<disk, verified, locks, bounds>>

AllThere(c) ==
  /\ At(c, "next") /\ call[c].todo = {}
  /\ Answers(c, "true")
  /\ UNCHANGED <<disk, verified, locks, bounds>>

\* Mutant: a complete key stays among the missing ones.
Left0(c) == call[c].todo

Left(c) == call[c].todo \ {Key(c)}

\* A key is complete; the application may stop the prefetch here.
KeyDone(c) ==
  /\ At(c, "fetched") /\ call[c].op = "prefetch"
  /\ LET left == Left(c)
     IN  \/ call' = [call EXCEPT ![c].step = "next", ![c].todo = left]
         \/ call' = [call EXCEPT ![c].step = "answer", ![c].todo = left,
                                 ![c].answer = IF left = {} THEN "true" ELSE "false"]
  /\ UNCHANGED <<disk, verified, locks, bounds>>

(* prove_request: ensure(), then load_key() *)

Proof(c, k) ==
  /\ At(c, "idle")
  /\ call' = [call EXCEPT ![c] = [Idle EXCEPT !.op = "proof", !.step = "files", !.key = k]]
  /\ UNCHANGED <<disk, verified, locks, bounds>>

(* fetch *)

\* Mutant: a download does not wait for a clear.
MayRead0 == TRUE

MayRead == writer = Free

EntersFiles(c) ==
  /\ At(c, "files") /\ MayRead
  /\ readers' = readers \cup {c}
  /\ Goes(c, "key")
  /\ UNCHANGED <<disk, verified, writer, held, bounds>>

\* Mutant: two callers of one key do not wait for each other.
KeyFree0(k) == TRUE

KeyFree(k) == held[k] = Free

TakesKey(c) ==
  /\ At(c, "key") /\ KeyFree(Key(c))
  /\ held' = [held EXCEPT ![Key(c)] = c]
  /\ Goes(c, "look")
  /\ UNCHANGED <<disk, verified, readers, writer, bounds>>

\* Both guards go with the call.
Leaves(c) ==
  /\ readers' = readers \ {c}
  /\ held' = [held EXCEPT ![Key(c)] = Free]
  /\ UNCHANGED writer

\* fetch found the key, or checked it: it is verified.
Fetched(c) ==
  /\ verified' = verified \cup {Key(c)}
  /\ Leaves(c) /\ Goes(c, "fetched")
  /\ UNCHANGED bounds

Found(c) ==
  /\ At(c, "look") /\ OnDevice(Key(c))
  /\ Fetched(c) /\ UNCHANGED disk

\* Not known, but its bytes hash to the lockfile.
Matches(c) ==
  /\ At(c, "look") /\ ~OnDevice(Key(c)) /\ disk[Key(c)].file = "good"
  /\ Goes(c, "record")
  /\ UNCHANGED <<disk, verified, locks, bounds>>

\* The record is best effort.
Records(c) ==
  /\ At(c, "record")
  /\ \/ disk' = [disk EXCEPT ![Key(c)].record = "fits"]
     \/ UNCHANGED disk
  /\ Fetched(c)

\* Missing or wrong: the file goes, and then its image.
Replaces(c) ==
  /\ At(c, "look") /\ ~OnDevice(Key(c)) /\ disk[Key(c)].file # "good"
  /\ disk' = [disk EXCEPT ![Key(c)].file = "none", ![Key(c)].record = "none"]
  /\ Goes(c, "image")
  /\ UNCHANGED <<verified, locks, bounds>>

\* Mutant: a replaced key leaves its image.
WithoutImage0(k) == disk[k]

WithoutImage(k) == [disk[k] EXCEPT !.image = "none"]

DropsImage(c) ==
  /\ At(c, "image")
  /\ disk' = [disk EXCEPT ![Key(c)] = WithoutImage(Key(c))]
  /\ Goes(c, "size")
  /\ UNCHANGED <<verified, locks, bounds>>

\* A partial file of more than the key goes before its download begins.
Resumes(c) ==
  LET k == Key(c)
  IN  /\ At(c, "size")
      /\ \/ disk[k].partial <= Parts /\ UNCHANGED disk
         \/ /\ disk[k].partial > Parts
            /\ disk' = [disk EXCEPT ![k].partial = 0, ![k].spoiled = "no"]
      /\ Goes(c, "part")
      /\ UNCHANGED <<verified, locks, bounds>>

\* A part is asked for from where the partial file ends.
AsksPart(c) ==
  /\ At(c, "part") /\ disk[Key(c)].partial < Parts
  /\ call' = [call EXCEPT ![c].step = "append", ![c].offset = disk[Key(c)].partial]
  /\ UNCHANGED <<disk, verified, locks, bounds>>

\* Where n parts that answer offset were appended to the partial file.
Appended(k, offset, n) ==
  [disk[k] EXCEPT
     !.partial = IF @ + n > Parts THEN Overlong ELSE @ + n,
     !.spoiled = IF @ = "no" /\ offset # disk[k].partial THEN "shift" ELSE @]

\* The host answers with this part, or, asked for the first, with the key.
Appends(c) ==
  LET k == Key(c)
      Sizes == IF call[c].offset = 0 THEN {1, Parts} ELSE {1}
  IN  /\ At(c, "append")
      /\ \E n \in Sizes :
           \/ /\ disk' = [disk EXCEPT ![k] = Appended(k, call[c].offset, n)]
              /\ UNCHANGED faults
           \/ /\ faults < MaxFaults /\ faults' = faults + 1
              /\ disk' = [disk EXCEPT ![k] =
                   [Appended(k, call[c].offset, n) EXCEPT !.spoiled = "host"]]
      /\ Goes(c, "part")
      /\ UNCHANGED <<verified, locks, deaths>>

\* Hashed as it lies on disk, synced and renamed into place.
Installs(c) ==
  LET k == Key(c)
  IN  /\ At(c, "part") /\ disk[k].partial = Parts /\ disk[k].spoiled = "no"
      /\ disk' = [disk EXCEPT ![k].file = "good", ![k].partial = 0, ![k].record = "none"]
      /\ Goes(c, "record")
      /\ UNCHANGED <<verified, locks, bounds>>

\* There is more than the key, or its hash is another: the partial file goes.
Corrupt(c) ==
  LET k == Key(c)
  IN  /\ At(c, "part") /\ disk[k].partial >= Parts /\ disk[k].spoiled # "no"
      /\ disk' = [disk EXCEPT ![k].partial = 0, ![k].spoiled = "no"]
      /\ Leaves(c) /\ Answers(c, "error")
      /\ UNCHANGED <<verified, bounds>>

\* Mutant: a failed part takes what came before it.
Kept0(k) == [disk[k] EXCEPT !.partial = 0]

\* A failed part leaves what came before it.
Kept(k) == disk[k]

\* A request, an answer or a file operation fails.
Fails(c) ==
  /\ call[c].step \in {"look", "image", "size", "part", "append"}
  /\ disk' = [disk EXCEPT ![Key(c)] = Kept(Key(c))]
  /\ Leaves(c) /\ Answers(c, "error")
  /\ UNCHANGED <<verified, bounds>>

\* progress() answered false, in a prefetch.
Stops(c) ==
  /\ At(c, "part") /\ call[c].op = "prefetch" /\ disk[Key(c)].partial < Parts
  /\ Leaves(c) /\ Answers(c, "false")
  /\ UNCHANGED <<disk, verified, bounds>>

Fetch(c) ==
  \/ EntersFiles(c) \/ TakesKey(c) \/ Found(c) \/ Matches(c) \/ Records(c) \/ Replaces(c)
  \/ DropsImage(c) \/ Resumes(c) \/ AsksPart(c) \/ Appends(c) \/ Installs(c) \/ Corrupt(c) \/ Fails(c)
  \/ Stops(c)

(* load_key: one at a time (PREPARED), with none of the store's locks *)

Loading == {"load", "writing"}

StartsLoad(c) ==
  /\ At(c, "fetched") /\ call[c].op = "proof"
  /\ \A d \in Callers : call[d].step \notin Loading
  /\ Goes(c, "load")
  /\ UNCHANGED <<disk, verified, locks, bounds>>

LoadsImage(c) ==
  /\ At(c, "load") /\ disk[Key(c)].image # "none"
  /\ call' = [call EXCEPT ![c].step = "loaded", ![c].src = disk[Key(c)].image]
  /\ UNCHANGED <<disk, verified, locks, bounds>>

\* There is no image, or it does not load: one is written from the key's file.
WritesImage(c) ==
  /\ At(c, "load") /\ disk[Key(c)].file # "none"
  /\ call' = [call EXCEPT ![c].step = "writing", ![c].src = disk[Key(c)].file]
  /\ UNCHANGED <<disk, verified, locks, bounds>>

\* Whole or absent: renamed into place, unless its directory was removed.
ImageWritten(c) ==
  /\ At(c, "writing") /\ call[c].src # "none"
  /\ disk' = [disk EXCEPT ![Key(c)].image = call[c].src]
  /\ Goes(c, "loaded")
  /\ UNCHANGED <<verified, locks, bounds>>

\* It cannot be written or does not load: it goes, and the file is mapped.
LoadsFile(c) ==
  /\ At(c, "writing") /\ disk[Key(c)].file # "none"
  /\ disk' = [disk EXCEPT ![Key(c)] = WithoutImage(Key(c))]
  /\ call' = [call EXCEPT ![c].step = "loaded", ![c].src = disk[Key(c)].file]
  /\ UNCHANGED <<verified, locks, bounds>>

\* ProverLoadFailed: the key was removed meanwhile.
LoadFails(c) ==
  /\ call[c].step \in Loading /\ disk[Key(c)].file = "none"
  /\ disk' = [disk EXCEPT ![Key(c)] = WithoutImage(Key(c))]
  /\ Answers(c, "error")
  /\ UNCHANGED <<verified, locks, bounds>>

Proved(c) ==
  /\ At(c, "loaded") /\ Answers(c, "true")
  /\ UNCHANGED <<disk, verified, locks, bounds>>

Load(c) ==
  StartsLoad(c) \/ LoadsImage(c) \/ WritesImage(c) \/ ImageWritten(c) \/ LoadsFile(c)
    \/ LoadFails(c) \/ Proved(c)

(* clear *)

Clear(c) ==
  /\ At(c, "idle")
  /\ call' = [call EXCEPT ![c] = [Idle EXCEPT !.op = "clear", !.step = "wait"]]
  /\ UNCHANGED <<disk, verified, locks, bounds>>

MayWrite == writer = Free /\ readers = {}

TakesAll(c) ==
  /\ At(c, "wait") /\ MayWrite
  /\ writer' = c /\ Goes(c, "forget")
  /\ UNCHANGED <<disk, verified, readers, held, bounds>>

\* Mutant: the checked keys are forgotten only once all files are gone.
Forgotten0 == verified

Forgotten == {}

Forgets(c) ==
  /\ At(c, "forget")
  /\ verified' = Forgotten
  /\ Goes(c, "remove")
  /\ UNCHANGED <<disk, locks, bounds>>

\* What can be left of a key whose files are removed one after another.
Remains(left, was) ==
  /\ left.file \in {was.file, "none"} /\ left.image \in {was.image, "none"}
  /\ left.partial \in {was.partial, 0}
  /\ left.spoiled = IF left.partial = 0 THEN "no" ELSE was.spoiled
  /\ left.record \in {was.record, "none"} /\ (left.record = "fits" => left.file # "none")

\* An image being written in the directory goes too.
CutOff == [d \in Callers |-> IF At(d, "writing") THEN [call[d] EXCEPT !.src = "none"] ELSE call[d]]

\* remove_dir_all: everything, or it fails or dies with some files gone
Removes(c) ==
  /\ At(c, "remove") /\ UNCHANGED <<verified, locks, bounds>>
  /\ \/ /\ disk' = [k \in Keys |-> Gone]
        /\ call' = [CutOff EXCEPT ![c].step = "cleared", ![c].answer = "true"]
     \/ /\ \E k \in Keys, s \in Stored :
              Remains(s, disk[k]) /\ disk' = [disk EXCEPT ![k] = s]
        /\ \E then \in {call, CutOff} :
              call' = [then EXCEPT ![c].step = "cleared", ![c].answer = "error"]

ClearReturns(c) ==
  /\ At(c, "cleared")
  /\ writer' = Free /\ Goes(c, "answer")
  /\ UNCHANGED <<disk, verified, readers, held, bounds>>

Clears(c) == TakesAll(c) \/ Forgets(c) \/ Removes(c) \/ ClearReturns(c)

Returns(c) ==
  /\ At(c, "answer")
  /\ call' = [call EXCEPT ![c] = Idle]
  /\ UNCHANGED <<disk, verified, locks, bounds>>

(* the process *)

Dies ==
  /\ deaths < MaxDeaths /\ deaths' = deaths + 1
  /\ verified' = {} /\ readers' = {} /\ writer' = Free
  /\ held' = [k \in Keys |-> Free] /\ call' = [c \in Callers |-> Idle]
  /\ UNCHANGED <<disk, faults>>

\* Storage is damaged while no process runs; a file's size or time changes.
Damages(k) ==
  /\ faults < MaxFaults /\ faults' = faults + 1
  /\ verified = {} /\ \A c \in Callers : At(c, "idle")
  /\ \/ /\ disk[k].file = "good"
        /\ disk' = [disk EXCEPT ![k].file = "bad", ![k].record = "none"]
     \/ /\ disk[k].partial > 0
        /\ \E n \in {disk[k].partial, Overlong} :
             disk' = [disk EXCEPT ![k].partial = n, ![k].spoiled = "host"]
  /\ UNCHANGED <<verified, locks, call, deaths>>

Works(c) ==
  NextKey(c) \/ AllThere(c) \/ KeyDone(c) \/ Fetch(c) \/ Load(c) \/ Clears(c) \/ Returns(c)

Next ==
  \/ \E c \in Callers :
       \/ Works(c) \/ Clear(c)
       \/ \E k \in Keys : Proof(c, k)
       \/ \E ks \in SUBSET Keys \ {{}} : Prefetch(c, ks)
  \/ Dies
  \/ \E k \in Keys : Damages(k)

Spec == Init /\ [][Next]_vars

\* A started call goes on: the transport answers, and a waiting caller gets a
\* lock that keeps becoming free.
Fairness == \A c \in Callers : SF_vars(Works(c))

FairSpec == Spec /\ Fairness

-----------------------------------------------------------------------------
(* Properties. *)

\* A key this process counts as verified is on disk, whole: no partial
\* download, interrupted clear, damage or second caller makes it a lie.
VerifiedIsGood == \A k \in verified : disk[k].file = "good"

\* A proof never loads wrong bytes: not a damaged key, and not an image that
\* an earlier file of the same key left ("A key that is replaced takes its
\* image with it").
LoadedIsGood == \A c \in Callers : call[c].step = "loaded" => call[c].src = "good"

\* No two callers write one partial download: with a host that tells the
\* truth, a download never turns out corrupt.
PartsInOrder == \A k \in Keys : disk[k].spoiled # "shift"

\* What was downloaded is thrown away only by a clear or a failed check, of its
\* hash or its length: it survives failed parts, stops and restarts.
WorkKept ==
  [][\A k \in Keys :
       disk'[k].partial < disk[k].partial =>
         disk'[k].file = "good" \/ disk[k].spoiled # "no" \/ writer # Free]_vars

\* When a clear answers that it succeeded, nothing of the keys is on the
\* device or counted as verified.
ClearedIsGone ==
  \A c \in Callers :
    call[c].step = "cleared" /\ call[c].answer = "true" =>
      verified = {} /\ \A k \in Keys : disk[k] = Gone

\* Every call ends: no lock is left behind and no two calls wait for each
\* other.
CallsEnd == \A c \in Callers : call[c].step # "idle" ~> call[c].step = "idle"

=============================================================================
