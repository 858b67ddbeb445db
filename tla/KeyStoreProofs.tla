--------------------------- MODULE KeyStoreProofs ---------------------------
(***************************************************************************)
(* What KeyStore's runs check on small instances, proved for any keys,     *)
(* parts, callers and faults: a key counted as verified is whole, a proof  *)
(* loads the right bytes, one caller at a time writes a partial file, what *)
(* was downloaded is kept, and a clear that succeeded left nothing.        *)
(***************************************************************************)
EXTENDS KeyStore, TLAPS

\* Who fetches holds both of the store's locks, who clears holds all of it.
Locked ==
  \A c \in Callers :
    /\ call[c].step \in Fetching => c \in readers /\ held[call[c].key] = c
    /\ call[c].step = "key" => c \in readers
    /\ call[c].step \in {"forget", "remove", "cleared"} => writer = c

\* What is known of a key's files without reading them.
Files ==
  \A k \in Keys :
    /\ k \in verified => disk[k].file = "good"
    /\ disk[k].record = "fits" => disk[k].file = "good"
    /\ disk[k].file = "good" => disk[k].image # "bad"

\* What each caller relies on: a fetch on the files it replaced or checked,
\* a load on the key it was given, a clear on the keys being forgotten.
Calls ==
  \A c \in Callers :
    LET step == call[c].step
        key == disk[call[c].key]
    IN  /\ step = "record" => key.file = "good"
        /\ step \in {"image", "size", "part", "append", "fetched", "load", "writing"} => key.file # "bad"
        /\ step \in {"size", "part", "append", "fetched", "load", "writing"} => key.image # "bad"
        /\ step = "append" => call[c].offset = key.partial /\ key.partial < Parts
        /\ step = "remove" => verified = {}
        /\ step = "writing" => call[c].src # "bad"
        /\ step = "loaded" => call[c].src = "good"

\* PartsInOrder, and that what is more than the key is not of a download.
Partials ==
  /\ PartsInOrder
  /\ \A k \in Keys : disk[k].partial > Parts => disk[k].spoiled = "host"

IInv == TypeOK /\ Locked /\ Files /\ Calls /\ Partials

\* ClearedIsGone, with the load that lost the image it was writing: nothing can
\* put a file back before the clear gives its lock up.
ClearDone ==
  /\ ClearedIsGone
  /\ \A c, d \in Callers :
       call[c].step = "cleared" /\ call[c].answer = "true" /\ call[d].step = "writing" =>
         call[d].src = "none"

-----------------------------------------------------------------------------
(* Types of what the helpers change. *)

LEMMA GoesTypes ==
  ASSUME TypeOK, NEW c \in Callers, NEW step \in Steps, Goes(c, step)
  PROVE  call' \in [Callers -> Call]
BY DEF TypeOK, Goes, Call

LEMMA AnswersTypes ==
  ASSUME TypeOK, NEW c \in Callers, NEW answer \in {"none", "true", "false", "error"},
         Answers(c, answer)
  PROVE  call' \in [Callers -> Call]
<1> DEFINE r == [call[c] EXCEPT !.step = "answer", !.answer = answer]
<1>1. r \in Call
  BY ZenonT(60) DEF TypeOK, Call, Steps
<1>2. call' = [call EXCEPT ![c] = r]
  BY DEF Answers, TypeOK
<1> QED BY <1>1, <1>2 DEF TypeOK

LEMMA KeyTypes ==
  ASSUME TypeOK, NEW c \in Callers
  PROVE  /\ call[c] \in Call /\ call[c].key \in Keys
         /\ disk[call[c].key] \in Stored
BY DEF TypeOK, Call

LEMMA LengthTypes ==
  /\ 0 \in 0..Overlong /\ Overlong \in 0..Overlong /\ Overlong > Parts
  /\ \A n \in 0..Parts : n \in 0..Overlong
BY PartsAssumption DEF Overlong

LEMMA ChangedTypes ==
  ASSUME NEW s \in Stored
  PROVE  /\ [s EXCEPT !.record = "fits"] \in Stored
         /\ [s EXCEPT !.image = "none"] \in Stored
         /\ [s EXCEPT !.file = "none", !.record = "none"] \in Stored
         /\ [s EXCEPT !.file = "bad", !.record = "none"] \in Stored
         /\ [s EXCEPT !.partial = 0, !.spoiled = "no"] \in Stored
         /\ \A n \in {s.partial, Overlong} : [s EXCEPT !.partial = n, !.spoiled = "host"] \in Stored
         /\ \A image \in Content : [s EXCEPT !.image = image] \in Stored
<1>1. s.partial \in 0..Overlong
  BY DEF Stored
<1> QED BY <1>1, LengthTypes DEF Stored, Content

LEMMA StoredTypes ==
  ASSUME TypeOK, NEW k \in Keys, NEW s \in Stored, disk' = [disk EXCEPT ![k] = s]
  PROVE  disk' \in [Keys -> Stored]
BY DEF TypeOK

LEMMA BeginsTypes ==
  ASSUME TypeOK, NEW c \in Callers, NEW r \in Call, call' = [call EXCEPT ![c] = r]
  PROVE  call' \in [Callers -> Call]
BY DEF TypeOK

LEMMA IdleTypes ==
  Idle \in Call
<1>1. (CHOOSE k \in Keys : TRUE) \in Keys
  BY KeysAssumption
<1> QED BY <1>1, PartsAssumption DEF Idle, Call, Steps, Content

LEMMA OneFetcher ==
  ASSUME Locked, NEW c \in Callers, NEW d \in Callers,
         call[c].step \in Fetching, call[d].step \in Fetching, call[c].key = call[d].key
  PROVE  c = d
BY DEF Locked

-----------------------------------------------------------------------------
(* Every step keeps the invariant. *)

LEMMA PrefetchKeeps ==
  ASSUME IInv, NEW c \in Callers, NEW ks \in SUBSET Keys, Prefetch(c, ks)
  PROVE  IInv'
<1>1. TypeOK'
  <2>1. [Idle EXCEPT !.op = "prefetch", !.step = "next", !.keys = ks, !.todo = {x \in ks : ~OnDevice(x)}] \in Call
    BY IdleTypes, KeysAssumption DEF Call, Steps
  <2>2. call' \in [Callers -> Call]
    BY <2>1, BeginsTypes DEF IInv, Prefetch
  <2> QED BY <2>2 DEF IInv, TypeOK, Prefetch, locks, bounds
<1>2. Locked'
  BY DEF IInv, Prefetch, locks, Locked, Fetching
<1>3. Files'
  BY DEF IInv, Prefetch, Files
<1>4. Calls'
  BY DEF IInv, Prefetch, Calls
<1>5. Partials'
  BY DEF IInv, Prefetch, Partials, PartsInOrder
<1> QED BY <1>1, <1>2, <1>3, <1>4, <1>5 DEF IInv

LEMMA NextKeyKeeps ==
  ASSUME IInv, NEW c \in Callers, NextKey(c)
  PROVE  IInv'
<1>1. TypeOK'
  <2>1. PICK k \in call[c].todo : call' = [call EXCEPT ![c].step = "files", ![c].key = k]
    BY DEF NextKey
  <2>2. [call[c] EXCEPT !.step = "files", !.key = k] \in Call
    <3>1. call[c] \in Call /\ k \in Keys /\ "files" \in Steps
      BY KeyTypes DEF IInv, Call, Steps
    <3> QED BY <3>1 DEF Call
  <2>3. call' = [call EXCEPT ![c] = [call[c] EXCEPT !.step = "files", !.key = k]]
    BY <2>1
  <2>4. call' \in [Callers -> Call]
    BY <2>2, <2>3, BeginsTypes DEF IInv
  <2> QED BY <2>4 DEF IInv, TypeOK, NextKey, locks, bounds
<1>2. Locked'
  BY DEF IInv, NextKey, locks, Locked, Fetching, TypeOK
<1>3. Files'
  BY DEF IInv, NextKey, Files
<1>4. Calls'
  BY DEF IInv, NextKey, Calls, TypeOK
<1>5. Partials'
  BY DEF IInv, NextKey, Partials, PartsInOrder
<1> QED BY <1>1, <1>2, <1>3, <1>4, <1>5 DEF IInv

LEMMA AllThereKeeps ==
  ASSUME IInv, NEW c \in Callers, AllThere(c)
  PROVE  IInv'
<1>1. TypeOK'
  <2>1. call' \in [Callers -> Call]
    BY AnswersTypes DEF IInv, AllThere, At, Steps, Fetching
  <2> QED BY <2>1 DEF IInv, TypeOK, AllThere, At, locks, bounds, Call
<1>2. Locked'
  BY DEF IInv, AllThere, Answers, locks, Locked, Fetching, TypeOK
<1>3. Files'
  BY DEF IInv, AllThere, Files
<1>4. Calls'
  BY DEF IInv, AllThere, Answers, Calls, TypeOK
<1>5. Partials'
  BY DEF IInv, AllThere, Partials, PartsInOrder
<1> QED BY <1>1, <1>2, <1>3, <1>4, <1>5 DEF IInv

LEMMA KeyDoneKeeps ==
  ASSUME IInv, NEW c \in Callers, KeyDone(c)
  PROVE  IInv'
<1>1. TypeOK'
  <2> DEFINE told == IF Left(c) = {} THEN "true" ELSE "false"
             r == [call[c] EXCEPT !.step = "next", !.todo = Left(c)]
             s == [call[c] EXCEPT !.step = "answer", !.todo = Left(c), !.answer = told]
  <2>1. Left(c) \in SUBSET Keys /\ told \in {"none", "true", "false", "error"}
    BY KeyTypes DEF IInv, Left, Call
  <2>2. r \in Call /\ s \in Call
    <3> HIDE DEF told
    <3> QED BY ZenonT(60), <2>1, KeyTypes DEF IInv, Call, Steps
  <2>3. call' = [call EXCEPT ![c] = r] \/ call' = [call EXCEPT ![c] = s]
    BY DEF KeyDone, IInv, TypeOK
  <2> HIDE DEF r, s
  <2>4. call' \in [Callers -> Call]
    BY <2>2, <2>3, BeginsTypes DEF IInv
  <2> QED BY <2>4 DEF IInv, TypeOK, KeyDone, locks, bounds
<1>2. Locked'
  BY DEF IInv, KeyDone, Left, locks, bounds, Locked, Fetching, TypeOK, Call
<1>3. Files'
  BY DEF IInv, KeyDone, Files
<1>4. Calls'
  BY DEF IInv, KeyDone, Left, locks, Calls, TypeOK, Locked, Call
<1>5. Partials'
  BY DEF IInv, KeyDone, Partials, PartsInOrder
<1> QED BY <1>1, <1>2, <1>3, <1>4, <1>5 DEF IInv

LEMMA ProofKeeps ==
  ASSUME IInv, NEW c \in Callers, NEW k \in Keys, Proof(c, k)
  PROVE  IInv'
<1>1. TypeOK'
  <2>1. [Idle EXCEPT !.op = "proof", !.step = "files", !.key = k] \in Call
    BY IdleTypes, KeysAssumption DEF Call, Steps
  <2>2. call' \in [Callers -> Call]
    BY <2>1, BeginsTypes DEF IInv, Proof
  <2> QED BY <2>2 DEF IInv, TypeOK, Proof, locks, bounds
<1>2. Locked'
  BY DEF IInv, Proof, locks, Locked, Fetching
<1>3. Files'
  BY DEF IInv, Proof, Files
<1>4. Calls'
  BY DEF IInv, Proof, Calls
<1>5. Partials'
  BY DEF IInv, Proof, Partials, PartsInOrder
<1> QED BY <1>1, <1>2, <1>3, <1>4, <1>5 DEF IInv

LEMMA EntersFilesKeeps ==
  ASSUME IInv, NEW c \in Callers, EntersFiles(c)
  PROVE  IInv'
<1>1. TypeOK'
  <2>1. call' \in [Callers -> Call]
    BY GoesTypes DEF IInv, EntersFiles, At, MayRead, Steps, Fetching
  <2> QED BY <2>1 DEF IInv, TypeOK, EntersFiles, At, MayRead, locks, bounds, Call
<1>2. Locked'
  BY DEF IInv, EntersFiles, Goes, Locked, Fetching
<1>3. Files'
  BY DEF IInv, EntersFiles, Files
<1>4. Calls'
  BY DEF IInv, EntersFiles, Goes, Calls
<1>5. Partials'
  BY DEF IInv, EntersFiles, Partials, PartsInOrder
<1> QED BY <1>1, <1>2, <1>3, <1>4, <1>5 DEF IInv

LEMMA TakesKeyKeeps ==
  ASSUME IInv, NEW c \in Callers, TakesKey(c)
  PROVE  IInv'
<1>1. TypeOK'
  <2>1. call' \in [Callers -> Call]
    BY GoesTypes DEF IInv, TakesKey, At, KeyFree, Key, Steps, Fetching
  <2> QED BY <2>1 DEF IInv, TypeOK, TakesKey, At, KeyFree, Key, locks, bounds, Call
<1>2. Locked'
  <2> SUFFICES ASSUME NEW d \in Callers
               PROVE  Locked!(d)'
    BY DEF Locked
  <2>1. CASE d = c
    <3>1. call'[c] = [call[c] EXCEPT !.step = "look"] /\ call[c] \in Call
      BY KeyTypes DEF IInv, TypeOK, TakesKey, Goes
    <3>2. call'[c].step = "look" /\ call'[c].key = call[c].key /\ call[c].key \in Keys
      BY <3>1 DEF Call
    <3>3. held'[call[c].key] = c /\ c \in readers'
      <4>1. c \in readers /\ readers' = readers
        BY DEF IInv, Locked, TakesKey, At
      <4>2. held' = [held EXCEPT ![call[c].key] = c]
        BY DEF TakesKey, Key
      <4> QED BY <3>2, <4>1, <4>2 DEF IInv, TypeOK
    <3> QED BY <2>1, <3>2, <3>3
  <2>2. CASE d # c /\ call[d].key # call[c].key
    BY <2>2, KeyTypes DEF IInv, TypeOK, Locked, TakesKey, Goes, Key
  <2>3. CASE d # c /\ call[d].key = call[c].key
    BY <2>3, KeyTypes, FreeAssumption DEF IInv, TypeOK, Locked, TakesKey, Goes, Key, KeyFree
  <2> QED BY <2>1, <2>2, <2>3
<1>3. Files'
  BY DEF IInv, TakesKey, Files
<1>4. Calls'
  BY DEF IInv, TakesKey, Goes, Calls
<1>5. Partials'
  BY DEF IInv, TakesKey, Partials, PartsInOrder
<1> QED BY <1>1, <1>2, <1>3, <1>4, <1>5 DEF IInv

LEMMA FoundKeeps ==
  ASSUME IInv, NEW c \in Callers, Found(c)
  PROVE  IInv'
<1>1. TypeOK'
  <2>1. call' \in [Callers -> Call]
    BY GoesTypes DEF IInv, Found, At, Key, Fetched, Leaves, OnDevice, Steps, Fetching
  <2> QED BY <2>1 DEF IInv, TypeOK, Found, At, Key, Fetched, Leaves, OnDevice, locks, bounds, Call
<1>2. Locked'
  BY DEF IInv, Found, At, Goes, Key, Fetched, Leaves, Locked, Fetching, TypeOK
<1>3. Files'
  BY DEF IInv, Found, Fetched, OnDevice, Files
<1>4. Calls'
  BY FreeAssumption DEF IInv, Found, At, Goes, Key, Fetched, OnDevice, Calls, TypeOK,
     Locked, Files, Fetching, Call
<1>5. Partials'
  BY DEF IInv, Found, Partials, PartsInOrder
<1> QED BY <1>1, <1>2, <1>3, <1>4, <1>5 DEF IInv

LEMMA MatchesKeeps ==
  ASSUME IInv, NEW c \in Callers, Matches(c)
  PROVE  IInv'
<1>1. TypeOK'
  <2>1. call' \in [Callers -> Call]
    BY GoesTypes DEF IInv, Matches, At, Key, Steps, Fetching
  <2> QED BY <2>1 DEF IInv, TypeOK, Matches, At, Key, locks, bounds, Call
<1>2. Locked'
  BY DEF IInv, Matches, At, Goes, locks, Locked, Fetching
<1>3. Files'
  BY DEF IInv, Matches, Files
<1>4. Calls'
  BY DEF IInv, Matches, Goes, Key, Calls
<1>5. Partials'
  BY DEF IInv, Matches, Partials, PartsInOrder
<1> QED BY <1>1, <1>2, <1>3, <1>4, <1>5 DEF IInv

LEMMA RecordsKeeps ==
  ASSUME IInv, NEW c \in Callers, Records(c)
  PROVE  IInv'
<1>a. \A k \in Keys :
        /\ disk'[k].file = disk[k].file /\ disk'[k].image = disk[k].image
        /\ disk'[k].partial = disk[k].partial /\ disk'[k].spoiled = disk[k].spoiled
        /\ disk'[k].record = "fits" => disk[k].record = "fits" \/ k = call[c].key
  BY KeyTypes DEF IInv, TypeOK, Stored, Records, Key
<1>b. call[c].step = "record" /\ call[c].key \in Keys
  BY KeyTypes DEF IInv, Records, At
<1>c. /\ \A d \in Callers : d # c => call'[d] = call[d]
      /\ call'[c].step = "fetched" /\ call'[c].key = call[c].key
  BY KeyTypes DEF IInv, TypeOK, Call, Records, Fetched, Goes
<1>1. TypeOK'
  <2>1. call' \in [Callers -> Call]
    BY GoesTypes DEF IInv, Records, Fetched, Steps
  <2>2. call[c].key \in Keys /\ [disk[call[c].key] EXCEPT !.record = "fits"] \in Stored
    BY KeyTypes, ChangedTypes DEF IInv
  <2>3. disk' = disk \/ disk' = [disk EXCEPT ![call[c].key] = [disk[call[c].key] EXCEPT !.record = "fits"]]
    BY <2>2 DEF Records, Key, IInv, TypeOK
  <2>4. disk' \in [Keys -> Stored]
    BY <2>2, <2>3, StoredTypes DEF IInv, TypeOK
  <2> QED BY <2>1, <2>2, <2>4 DEF IInv, TypeOK, Records, Fetched, Leaves, Key, locks, bounds
<1>2. Locked'
  BY DEF IInv, Records, At, Goes, Key, Fetched, Leaves, Locked, Fetching, TypeOK
<1>3. Files'
  BY <1>a, <1>b DEF IInv, Files, Calls, Records, Fetched, Key, At
<1>4. Calls'
  <2> SUFFICES ASSUME NEW d \in Callers
               PROVE  Calls!(d)'
    BY DEF Calls
  <2>1. CASE d = c
    BY <2>1, <1>a, <1>b, <1>c DEF IInv, Calls, Files
  <2>2. CASE d # c
    <3>1. call'[d] = call[d] /\ call[d].key \in Keys
      BY <2>2, <1>c, KeyTypes DEF IInv
    <3>2. call[d].step # "remove"
      BY <1>b, FreeAssumption DEF IInv, TypeOK, Locked, Fetching
    <3> QED BY <3>1, <3>2, <1>a DEF IInv, Calls
  <2> QED BY <2>1, <2>2
<1>5. Partials'
  BY <1>a DEF IInv, Partials, PartsInOrder
<1> QED BY <1>1, <1>2, <1>3, <1>4, <1>5 DEF IInv

LEMMA ReplacesKeeps ==
  ASSUME IInv, NEW c \in Callers, Replaces(c)
  PROVE  IInv'
<1>1. TypeOK'
  <2>1. call' \in [Callers -> Call]
    BY GoesTypes DEF IInv, Replaces, Steps, Fetching
  <2>2. call[c].key \in Keys /\ [disk[call[c].key] EXCEPT !.file = "none", !.record = "none"] \in Stored
    BY KeyTypes, ChangedTypes DEF IInv
  <2>3. disk' = [disk EXCEPT ![call[c].key] = [disk[call[c].key] EXCEPT !.file = "none", !.record = "none"]]
    BY <2>2 DEF Replaces, Key, WithoutImage, IInv, TypeOK
  <2>4. disk' \in [Keys -> Stored]
    BY <2>2, <2>3, StoredTypes DEF IInv
  <2> QED BY <2>1, <2>4 DEF IInv, TypeOK, Replaces, locks, bounds
<1>2. Locked'
  BY DEF IInv, Replaces, At, Goes, locks, Locked, Fetching
<1>3. Files'
  BY DEF IInv, Replaces, Files, TypeOK
<1>4. Calls'
  BY SMTT(60) DEF IInv, Replaces, Goes, Key, Calls, TypeOK, Call
<1>5. Partials'
  BY DEF IInv, Replaces, Partials, PartsInOrder, TypeOK
<1> QED BY <1>1, <1>2, <1>3, <1>4, <1>5 DEF IInv

LEMMA DropsImageKeeps ==
  ASSUME IInv, NEW c \in Callers, DropsImage(c)
  PROVE  IInv'
<1>1. TypeOK'
  <2>1. call' \in [Callers -> Call]
    BY GoesTypes DEF IInv, DropsImage, Steps, Fetching
  <2>2. call[c].key \in Keys /\ [disk[call[c].key] EXCEPT !.image = "none"] \in Stored
    BY KeyTypes, ChangedTypes DEF IInv
  <2>3. disk' = [disk EXCEPT ![call[c].key] = [disk[call[c].key] EXCEPT !.image = "none"]]
    BY <2>2 DEF DropsImage, Key, WithoutImage, IInv, TypeOK
  <2>4. disk' \in [Keys -> Stored]
    BY <2>2, <2>3, StoredTypes DEF IInv
  <2> QED BY <2>1, <2>4 DEF IInv, TypeOK, DropsImage, locks, bounds
<1>2. Locked'
  BY DEF IInv, DropsImage, At, Goes, locks, Locked, Fetching
<1>3. Files'
  BY DEF IInv, DropsImage, WithoutImage, Files
<1>4. Calls'
  BY DEF IInv, DropsImage, At, Goes, Key, WithoutImage, Calls, TypeOK, Call
<1>5. Partials'
  BY DEF IInv, DropsImage, WithoutImage, Partials, PartsInOrder
<1> QED BY <1>1, <1>2, <1>3, <1>4, <1>5 DEF IInv

LEMMA ResumesKeeps ==
  ASSUME IInv, NEW c \in Callers, Resumes(c)
  PROVE  IInv'
<1>a. /\ call[c].step = "size" /\ call[c].key \in Keys /\ disk[call[c].key] \in Stored
      /\ \A d \in Callers : call[d].key \in Keys
  BY KeyTypes DEF IInv, Resumes, At
<1>b. PICK s \in {disk[call[c].key], [disk[call[c].key] EXCEPT !.partial = 0, !.spoiled = "no"]} :
        disk' = [disk EXCEPT ![call[c].key] = s]
  BY <1>a DEF Resumes, Key, IInv, TypeOK
<1>c. /\ s \in Stored /\ s.file = disk[call[c].key].file /\ s.image = disk[call[c].key].image
      /\ s.record = disk[call[c].key].record
      /\ s = disk[call[c].key] \/ (s.partial = 0 /\ s.spoiled = "no")
  <2>1. s \in Stored
    BY <1>a, <1>b, ChangedTypes
  <2>2. CASE s = [disk[call[c].key] EXCEPT !.partial = 0, !.spoiled = "no"]
    BY <1>a, <2>2, <2>1 DEF Stored
  <2> QED BY <1>b, <2>1, <2>2
<1>d. /\ disk'[call[c].key] = s
      /\ \A k \in Keys : k # call[c].key => disk'[k] = disk[k]
  BY <1>a, <1>b DEF IInv, TypeOK
<1>e. /\ \A d \in Callers : d # c => call'[d] = call[d]
      /\ call'[c].step = "part" /\ call'[c].key = call[c].key /\ verified' = verified
  BY KeyTypes DEF IInv, TypeOK, Call, Resumes, Goes
<1>1. TypeOK'
  <2>1. call' \in [Callers -> Call]
    BY GoesTypes DEF IInv, Resumes, Steps, Fetching
  <2>2. disk' \in [Keys -> Stored]
    BY <1>a, <1>b, <1>c, StoredTypes DEF IInv
  <2> QED BY <2>1, <2>2 DEF IInv, TypeOK, Resumes, locks, bounds
<1>2. Locked'
  BY DEF IInv, Resumes, At, Goes, locks, Locked, Fetching
<1>3. Files'
  BY <1>c, <1>d, <1>e DEF IInv, Files
<1>4. Calls'
  <2> SUFFICES ASSUME NEW d \in Callers
               PROVE  Calls!(d)'
    BY DEF Calls
  <2>1. CASE d = c
    BY <2>1, <1>a, <1>c, <1>d, <1>e DEF IInv, Calls
  <2>2. CASE d # c
    <3>1. call[d].key = call[c].key => call[d].step \notin Fetching
      BY <2>2, <1>a, OneFetcher DEF IInv, Fetching
    <3>2. call[d].step = "append" => call[d].step \in Fetching
      BY DEF Fetching
    <3> QED BY <2>2, <3>1, <3>2, <1>a, <1>c, <1>d, <1>e DEF IInv, Calls
  <2> QED BY <2>1, <2>2
<1>5. Partials'
  BY <1>a, <1>c, <1>d, PartsAssumption DEF IInv, Partials, PartsInOrder
<1> QED BY <1>1, <1>2, <1>3, <1>4, <1>5 DEF IInv

LEMMA AsksPartKeeps ==
  ASSUME IInv, NEW c \in Callers, AsksPart(c)
  PROVE  IInv'
<1>1. TypeOK'
  <2>1. disk[call[c].key].partial \in 0..Parts /\ disk[call[c].key].image \in Content
          /\ disk[call[c].key].file \in Content
    BY KeyTypes, PartsAssumption DEF IInv, AsksPart, Key, Stored, Overlong
  <2>2. [call[c] EXCEPT !.step = "append", !.offset = disk[call[c].key].partial] \in Call
    BY ZenonT(60), <2>1, KeyTypes DEF IInv, Call, Steps, Fetching
  <2>3. call' = [call EXCEPT ![c] = [call[c] EXCEPT !.step = "append", !.offset = disk[call[c].key].partial]]
    BY DEF AsksPart, Key, IInv, TypeOK
  <2>4. call' \in [Callers -> Call]
    BY <2>2, <2>3, BeginsTypes DEF IInv
  <2> QED BY <2>4 DEF IInv, TypeOK, AsksPart, locks, bounds
<1>2. Locked'
  BY DEF IInv, AsksPart, At, locks, Locked, Fetching, TypeOK
<1>3. Files'
  BY DEF IInv, AsksPart, Files
<1>4. Calls'
  BY DEF IInv, AsksPart, At, Key, Calls, TypeOK
<1>5. Partials'
  BY DEF IInv, AsksPart, Partials, PartsInOrder
<1> QED BY <1>1, <1>2, <1>3, <1>4, <1>5 DEF IInv

LEMMA AppendsKeeps ==
  ASSUME IInv, NEW c \in Callers, Appends(c)
  PROVE  IInv'
<1>a. /\ \A d \in Callers : d # c => call'[d] = call[d]
      /\ call'[c].step = "part" /\ call'[c].key = call[c].key
      /\ call[c].step = "append" /\ call[c].offset = disk[call[c].key].partial
      /\ disk[call[c].key].partial < Parts
  BY KeyTypes DEF IInv, TypeOK, Call, Calls, Appends, Goes, At
<1>b. PICK s \in Stored :
        /\ disk' = [disk EXCEPT ![call[c].key] = s]
        /\ s.file = disk[call[c].key].file /\ s.image = disk[call[c].key].image
        /\ s.record = disk[call[c].key].record
        /\ s.spoiled \in {disk[call[c].key].spoiled, "host"}
        /\ s.partial \in 0..Parts
  <2> DEFINE k == call[c].key
             was == disk[k]
  <2>1. /\ k \in Keys /\ was \in Stored
        /\ call[c].offset = was.partial /\ was.partial < Parts
    BY <1>a, KeyTypes DEF IInv
  <2>2. PICK n \in {1, Parts} :
          /\ n = 1 \/ call[c].offset = 0
          /\ \/ disk' = [disk EXCEPT ![k] = Appended(k, call[c].offset, n)]
             \/ disk' = [disk EXCEPT ![k] =
                  [Appended(k, call[c].offset, n) EXCEPT !.spoiled = "host"]]
    BY DEF Appends, Key
  <2>3. \E p \in 0..Parts : Appended(k, call[c].offset, n) = [was EXCEPT !.partial = p]
    <3>1. was.partial + n \in 0..Parts
      BY <2>1, <2>2, PartsAssumption DEF Stored, Overlong
    <3>2. Appended(k, call[c].offset, n) = [was EXCEPT !.partial = was.partial + n]
      <4>1. ~(was.partial + n > Parts) /\ was = disk[k]
        BY <3>1, PartsAssumption
      <4>2. call[c].offset = disk[k].partial
        BY <2>1
      <4> HIDE DEF k, was
      <4> QED BY <2>1, <4>1, <4>2 DEF Appended, Stored
    <3> QED BY <3>1, <3>2
  <2>4. PICK p \in 0..Parts : Appended(k, call[c].offset, n) = [was EXCEPT !.partial = p]
    BY <2>3
  <2>5. /\ [was EXCEPT !.partial = p] \in Stored
        /\ [[was EXCEPT !.partial = p] EXCEPT !.spoiled = "host"] \in Stored
    <3>1. p \in 0..Overlong
      BY LengthTypes
    <3> HIDE DEF was
    <3> QED BY <2>1, <3>1 DEF Stored
  <2> HIDE DEF k, was
  <2>6. CASE disk' = [disk EXCEPT ![k] = [was EXCEPT !.partial = p]]
    BY <2>1, <2>5, <2>6 DEF Stored, was, k
  <2>7. CASE disk' = [disk EXCEPT ![k] = [[was EXCEPT !.partial = p] EXCEPT !.spoiled = "host"]]
    BY <2>1, <2>5, <2>7 DEF Stored, was, k
  <2> QED BY <2>2, <2>4, <2>6, <2>7
<1>c. /\ disk'[call[c].key] = s
      /\ \A k \in Keys : k # call[c].key => disk'[k] = disk[k]
      /\ \A d \in Callers : call[d].key \in Keys
  BY <1>b, KeyTypes DEF IInv, TypeOK
<1>1. TypeOK'
  <2>1. call' \in [Callers -> Call]
    BY GoesTypes DEF IInv, Appends, Steps, Fetching
  <2>2. disk' \in [Keys -> Stored]
    BY <1>b, KeyTypes, StoredTypes DEF IInv
  <2> QED BY <2>1, <2>2, PartsAssumption DEF IInv, TypeOK, Appends, locks
<1>2. Locked'
  BY DEF IInv, Appends, At, Goes, locks, Locked, Fetching
<1>3. Files'
  BY <1>a, <1>b, KeyTypes DEF IInv, TypeOK, Files, Appends
<1>4. Calls'
  <2> SUFFICES ASSUME NEW d \in Callers
               PROVE  Calls!(d)'
    BY DEF Calls
  <2>1. CASE d = c
    BY <2>1, <1>a, <1>b, <1>c DEF IInv, Calls, Appends, At
  <2>2. CASE d # c
    BY SMTT(60), <2>2, <1>a, <1>b, <1>c, OneFetcher DEF IInv, Calls, Appends, At, Fetching
  <2> QED BY <2>1, <2>2
<1>5. Partials'
  <2>1. ~(s.partial > Parts) /\ s.spoiled # "shift"
    BY <1>b, KeyTypes, PartsAssumption DEF IInv, Partials, PartsInOrder
  <2> QED BY <1>c, <2>1 DEF IInv, Partials, PartsInOrder
<1> QED BY <1>1, <1>2, <1>3, <1>4, <1>5 DEF IInv

LEMMA InstallsKeeps ==
  ASSUME IInv, NEW c \in Callers, Installs(c)
  PROVE  IInv'
<1>1. TypeOK'
  <2>1. call' \in [Callers -> Call]
    BY GoesTypes DEF IInv, Installs, At, Key, Steps, Fetching
  <2>2. disk' \in [Keys -> Stored]
    BY PartsAssumption DEF IInv, TypeOK, Installs, At, Key, Stored, Content, Call
  <2> QED BY <2>1, <2>2 DEF IInv, TypeOK, Installs, At, Key, locks, bounds, Call
<1>2. Locked'
  BY DEF IInv, Installs, At, Goes, locks, Locked, Fetching
<1>3. Files'
  BY SMTT(60) DEF IInv, Installs, At, Key, Files, TypeOK, Calls
<1>4. Calls'
  <2>1. /\ call[c].key \in Keys /\ call[c].step = "part" /\ disk[call[c].key] \in Stored
        /\ \A d \in Callers : call[d].key \in Keys
    BY KeyTypes DEF IInv, Installs, At
  <2>2. /\ \A k \in Keys : k # call[c].key => disk'[k] = disk[k]
        /\ disk'[call[c].key].file = "good"
        /\ disk'[call[c].key].image = disk[call[c].key].image
    BY <2>1 DEF IInv, TypeOK, Installs, Key, Stored
  <2>3. /\ \A d \in Callers : d # c => call'[d] = call[d]
        /\ call'[c].step = "record" /\ call'[c].key = call[c].key /\ verified' = verified
    BY KeyTypes DEF IInv, TypeOK, Installs, Goes, Call
  <2> SUFFICES ASSUME NEW d \in Callers
               PROVE  Calls!(d)'
    BY DEF Calls
  <2>4. CASE d = c
    BY <2>2, <2>3, <2>4 DEF Calls
  <2>5. CASE d # c
    <3>1. call[d].key = call[c].key => call[d].step \notin Fetching
      BY <2>1, <2>5, OneFetcher DEF IInv, Fetching
    <3> QED BY <2>1, <2>2, <2>3, <2>5, <3>1 DEF IInv, Calls, Fetching
  <2> QED BY <2>4, <2>5
<1>5. Partials'
  <2>1. /\ \A k \in Keys : k # call[c].key => disk'[k] = disk[k]
        /\ disk'[call[c].key].partial = 0
        /\ disk'[call[c].key].spoiled = disk[call[c].key].spoiled
    BY SMTT(60), KeyTypes DEF IInv, TypeOK, Installs, Key, Stored
  <2>2. ~(0 > Parts)
    BY PartsAssumption
  <2> QED BY <2>1, <2>2, KeyTypes DEF IInv, Partials, PartsInOrder
<1> QED BY <1>1, <1>2, <1>3, <1>4, <1>5 DEF IInv

LEMMA CorruptKeeps ==
  ASSUME IInv, NEW c \in Callers, Corrupt(c)
  PROVE  IInv'
<1>1. TypeOK'
  <2>1. call' \in [Callers -> Call]
    BY AnswersTypes DEF IInv, Corrupt, At, Key, Leaves, Steps, Fetching
  <2>2. disk' \in [Keys -> Stored]
    BY PartsAssumption DEF IInv, TypeOK, Corrupt, At, Key, Leaves, Stored, Content, Call
  <2> QED BY <2>1, <2>2 DEF IInv, TypeOK, Corrupt, At, Key, Leaves, locks, bounds, Call
<1>2. Locked'
  BY DEF IInv, Corrupt, At, Answers, Key, Leaves, Locked, Fetching, TypeOK
<1>3. Files'
  BY DEF IInv, Corrupt, Files, TypeOK
<1>4. Calls'
  BY SMTT(60) DEF IInv, Corrupt, At, Answers, Key, Calls, TypeOK, Locked, Fetching, Call
<1>5. Partials'
  <2>1. /\ \A k \in Keys : k # call[c].key => disk'[k] = disk[k]
        /\ disk'[call[c].key].partial = 0 /\ disk'[call[c].key].spoiled = "no"
    BY SMTT(60), KeyTypes DEF IInv, TypeOK, Corrupt, Key, Stored
  <2>2. ~(0 > Parts)
    BY PartsAssumption
  <2> QED BY <2>1, <2>2, KeyTypes DEF IInv, Partials, PartsInOrder
<1> QED BY <1>1, <1>2, <1>3, <1>4, <1>5 DEF IInv

LEMMA FailsKeeps ==
  ASSUME IInv, NEW c \in Callers, Fails(c)
  PROVE  IInv'
<1>1. TypeOK'
  <2>1. call' \in [Callers -> Call]
    BY AnswersTypes DEF IInv, Fails, Key, Leaves, Kept, Steps, Fetching
  <2>2. disk' \in [Keys -> Stored]
    BY PartsAssumption DEF IInv, TypeOK, Fails, Key, Leaves, Kept, Stored, Content, Call
  <2> QED BY <2>1, <2>2 DEF IInv, TypeOK, Fails, Key, Leaves, Kept, locks, bounds, Call
<1>2. Locked'
  BY DEF IInv, Fails, Answers, Key, Leaves, Locked, Fetching, TypeOK
<1>3. Files'
  BY DEF IInv, Fails, Kept, Files
<1>4. Calls'
  BY DEF IInv, Fails, Answers, Kept, Calls, TypeOK
<1>5. Partials'
  BY DEF IInv, Fails, Kept, Partials, PartsInOrder
<1> QED BY <1>1, <1>2, <1>3, <1>4, <1>5 DEF IInv

LEMMA StopsKeeps ==
  ASSUME IInv, NEW c \in Callers, Stops(c)
  PROVE  IInv'
<1>1. TypeOK'
  <2>1. call' \in [Callers -> Call]
    BY AnswersTypes DEF IInv, Stops, At, Key, Leaves, Steps, Fetching
  <2> QED BY <2>1 DEF IInv, TypeOK, Stops, At, Key, Leaves, locks, bounds, Call
<1>2. Locked'
  BY DEF IInv, Stops, At, Answers, Key, Leaves, Locked, Fetching, TypeOK
<1>3. Files'
  BY DEF IInv, Stops, Files
<1>4. Calls'
  BY DEF IInv, Stops, Answers, Calls, TypeOK
<1>5. Partials'
  BY DEF IInv, Stops, Partials, PartsInOrder
<1> QED BY <1>1, <1>2, <1>3, <1>4, <1>5 DEF IInv

LEMMA StartsLoadKeeps ==
  ASSUME IInv, NEW c \in Callers, StartsLoad(c)
  PROVE  IInv'
<1>1. TypeOK'
  <2>1. call' \in [Callers -> Call]
    BY GoesTypes DEF IInv, StartsLoad, At, Steps, Fetching
  <2> QED BY <2>1 DEF IInv, TypeOK, StartsLoad, At, locks, bounds, Call
<1>2. Locked'
  BY DEF IInv, StartsLoad, Goes, locks, Locked, Fetching
<1>3. Files'
  BY DEF IInv, StartsLoad, Files
<1>4. Calls'
  BY DEF IInv, StartsLoad, At, Goes, Calls
<1>5. Partials'
  BY DEF IInv, StartsLoad, Partials, PartsInOrder
<1> QED BY <1>1, <1>2, <1>3, <1>4, <1>5 DEF IInv

LEMMA LoadsImageKeeps ==
  ASSUME IInv, NEW c \in Callers, LoadsImage(c)
  PROVE  IInv'
<1>1. TypeOK'
  <2>1. disk[call[c].key].partial \in 0..Overlong /\ disk[call[c].key].image \in Content
          /\ disk[call[c].key].file \in Content
    BY KeyTypes DEF IInv, Stored
  <2>2. [call[c] EXCEPT !.step = "loaded", !.src = disk[call[c].key].image] \in Call
    BY ZenonT(60), <2>1, KeyTypes DEF IInv, Call, Steps, Fetching
  <2>3. call' = [call EXCEPT ![c] = [call[c] EXCEPT !.step = "loaded", !.src = disk[call[c].key].image]]
    BY DEF LoadsImage, Key, IInv, TypeOK
  <2>4. call' \in [Callers -> Call]
    BY <2>2, <2>3, BeginsTypes DEF IInv
  <2> QED BY <2>4 DEF IInv, TypeOK, LoadsImage, locks, bounds
<1>2. Locked'
  BY DEF IInv, LoadsImage, locks, Locked, Fetching, TypeOK
<1>3. Files'
  BY DEF IInv, LoadsImage, Files
<1>4. Calls'
  BY DEF IInv, LoadsImage, At, Key, Calls, TypeOK, Call, Content
<1>5. Partials'
  BY DEF IInv, LoadsImage, Partials, PartsInOrder
<1> QED BY <1>1, <1>2, <1>3, <1>4, <1>5 DEF IInv

LEMMA WritesImageKeeps ==
  ASSUME IInv, NEW c \in Callers, WritesImage(c)
  PROVE  IInv'
<1>1. TypeOK'
  <2>1. disk[call[c].key].partial \in 0..Overlong /\ disk[call[c].key].image \in Content
          /\ disk[call[c].key].file \in Content
    BY KeyTypes DEF IInv, Stored
  <2>2. [call[c] EXCEPT !.step = "writing", !.src = disk[call[c].key].file] \in Call
    BY ZenonT(60), <2>1, KeyTypes DEF IInv, Call, Steps, Fetching
  <2>3. call' = [call EXCEPT ![c] = [call[c] EXCEPT !.step = "writing", !.src = disk[call[c].key].file]]
    BY DEF WritesImage, Key, IInv, TypeOK
  <2>4. call' \in [Callers -> Call]
    BY <2>2, <2>3, BeginsTypes DEF IInv
  <2> QED BY <2>4 DEF IInv, TypeOK, WritesImage, locks, bounds
<1>2. Locked'
  BY DEF IInv, WritesImage, locks, Locked, Fetching, TypeOK
<1>3. Files'
  BY DEF IInv, WritesImage, Files
<1>4. Calls'
  BY DEF IInv, WritesImage, At, Key, Calls, TypeOK
<1>5. Partials'
  BY DEF IInv, WritesImage, Partials, PartsInOrder
<1> QED BY <1>1, <1>2, <1>3, <1>4, <1>5 DEF IInv

LEMMA ImageWrittenKeeps ==
  ASSUME IInv, NEW c \in Callers, ImageWritten(c)
  PROVE  IInv'
<1>1. TypeOK'
  <2>1. call' \in [Callers -> Call]
    BY GoesTypes DEF IInv, ImageWritten, Steps
  <2>2. call[c].key \in Keys /\ call[c].src \in Content
    BY KeyTypes DEF IInv, Call
  <2>3. [disk[call[c].key] EXCEPT !.image = call[c].src] \in Stored
    BY <2>2, KeyTypes, ChangedTypes DEF IInv
  <2>4. disk' = [disk EXCEPT ![call[c].key] = [disk[call[c].key] EXCEPT !.image = call[c].src]]
    BY <2>2 DEF ImageWritten, Key, IInv, TypeOK
  <2>5. disk' \in [Keys -> Stored]
    BY <2>2, <2>3, <2>4, StoredTypes DEF IInv
  <2> QED BY <2>1, <2>5 DEF IInv, TypeOK, ImageWritten, locks, bounds
<1>2. Locked'
  BY DEF IInv, ImageWritten, Goes, locks, Locked, Fetching
<1>3. Files'
  BY DEF IInv, ImageWritten, At, Files, Calls
<1>4. Calls'
  BY DEF IInv, ImageWritten, At, Goes, Calls, TypeOK, Call, Content
<1>5. Partials'
  BY DEF IInv, ImageWritten, Partials, PartsInOrder
<1> QED BY <1>1, <1>2, <1>3, <1>4, <1>5 DEF IInv

LEMMA LoadsFileKeeps ==
  ASSUME IInv, NEW c \in Callers, LoadsFile(c)
  PROVE  IInv'
<1>1. TypeOK'
  <2>1. disk[call[c].key].partial \in 0..Overlong /\ disk[call[c].key].image \in Content
          /\ disk[call[c].key].file \in Content
    BY KeyTypes DEF IInv, Stored
  <2>2. [call[c] EXCEPT !.step = "loaded", !.src = disk[call[c].key].file] \in Call
    BY ZenonT(60), <2>1, KeyTypes DEF IInv, Call, Steps, Fetching
  <2>3. call' = [call EXCEPT ![c] = [call[c] EXCEPT !.step = "loaded", !.src = disk[call[c].key].file]]
    BY DEF LoadsFile, Key, IInv, TypeOK
  <2>4. call' \in [Callers -> Call]
    BY <2>2, <2>3, BeginsTypes DEF IInv
  <2>5. call[c].key \in Keys /\ [disk[call[c].key] EXCEPT !.image = "none"] \in Stored
    BY KeyTypes, ChangedTypes DEF IInv
  <2>6. disk' = [disk EXCEPT ![call[c].key] = [disk[call[c].key] EXCEPT !.image = "none"]]
    BY <2>5 DEF LoadsFile, Key, WithoutImage, IInv, TypeOK
  <2>7. disk' \in [Keys -> Stored]
    BY <2>5, <2>6, StoredTypes DEF IInv
  <2> QED BY <2>4, <2>7 DEF IInv, TypeOK, LoadsFile, locks, bounds
<1>2. Locked'
  BY DEF IInv, LoadsFile, locks, Locked, Fetching, TypeOK
<1>3. Files'
  BY DEF IInv, LoadsFile, WithoutImage, Files
<1>4. Calls'
  BY DEF IInv, LoadsFile, At, Key, WithoutImage, Calls, TypeOK, Call, Content
<1>5. Partials'
  BY DEF IInv, LoadsFile, WithoutImage, Partials, PartsInOrder
<1> QED BY <1>1, <1>2, <1>3, <1>4, <1>5 DEF IInv

LEMMA LoadFailsKeeps ==
  ASSUME IInv, NEW c \in Callers, LoadFails(c)
  PROVE  IInv'
<1>1. TypeOK'
  <2>1. call' \in [Callers -> Call]
    BY AnswersTypes DEF IInv, LoadFails, Loading
  <2>5. call[c].key \in Keys /\ [disk[call[c].key] EXCEPT !.image = "none"] \in Stored
    BY KeyTypes, ChangedTypes DEF IInv
  <2>6. disk' = [disk EXCEPT ![call[c].key] = [disk[call[c].key] EXCEPT !.image = "none"]]
    BY <2>5 DEF LoadFails, Key, WithoutImage, IInv, TypeOK
  <2>7. disk' \in [Keys -> Stored]
    BY <2>5, <2>6, StoredTypes DEF IInv
  <2> QED BY <2>1, <2>7 DEF IInv, TypeOK, LoadFails, locks, bounds
<1>2. Locked'
  BY DEF IInv, LoadFails, Loading, Answers, locks, Locked, Fetching, TypeOK
<1>3. Files'
  BY DEF IInv, LoadFails, WithoutImage, Files
<1>4. Calls'
  BY DEF IInv, LoadFails, Loading, Answers, Key, WithoutImage, Calls, TypeOK, Call
<1>5. Partials'
  BY DEF IInv, LoadFails, WithoutImage, Partials, PartsInOrder
<1> QED BY <1>1, <1>2, <1>3, <1>4, <1>5 DEF IInv

LEMMA ProvedKeeps ==
  ASSUME IInv, NEW c \in Callers, Proved(c)
  PROVE  IInv'
<1>1. TypeOK'
  <2>1. call' \in [Callers -> Call]
    BY AnswersTypes DEF IInv, Proved, At, Steps, Fetching
  <2> QED BY <2>1 DEF IInv, TypeOK, Proved, At, locks, bounds, Call
<1>2. Locked'
  BY DEF IInv, Proved, Answers, locks, Locked, Fetching, TypeOK
<1>3. Files'
  BY DEF IInv, Proved, Files
<1>4. Calls'
  BY DEF IInv, Proved, Answers, Calls, TypeOK
<1>5. Partials'
  BY DEF IInv, Proved, Partials, PartsInOrder
<1> QED BY <1>1, <1>2, <1>3, <1>4, <1>5 DEF IInv

LEMMA ClearKeeps ==
  ASSUME IInv, NEW c \in Callers, Clear(c)
  PROVE  IInv'
<1>1. TypeOK'
  <2>1. [Idle EXCEPT !.op = "clear", !.step = "wait"] \in Call
    BY IdleTypes, KeysAssumption DEF Call, Steps
  <2>2. call' \in [Callers -> Call]
    BY <2>1, BeginsTypes DEF IInv, Clear
  <2> QED BY <2>2 DEF IInv, TypeOK, Clear, locks, bounds
<1>2. Locked'
  BY DEF IInv, Clear, locks, Locked, Fetching
<1>3. Files'
  BY DEF IInv, Clear, Files
<1>4. Calls'
  BY DEF IInv, Clear, Calls
<1>5. Partials'
  BY DEF IInv, Clear, Partials, PartsInOrder
<1> QED BY <1>1, <1>2, <1>3, <1>4, <1>5 DEF IInv

LEMMA TakesAllKeeps ==
  ASSUME IInv, NEW c \in Callers, TakesAll(c)
  PROVE  IInv'
<1>1. TypeOK'
  <2>1. call' \in [Callers -> Call]
    BY GoesTypes DEF IInv, TakesAll, At, MayWrite, Steps, Fetching
  <2> QED BY <2>1 DEF IInv, TypeOK, TakesAll, At, MayWrite, locks, bounds, Call
<1>2. Locked'
  BY FreeAssumption DEF IInv, TakesAll, Goes, MayWrite, Locked, Fetching
<1>3. Files'
  BY DEF IInv, TakesAll, Files
<1>4. Calls'
  BY DEF IInv, TakesAll, Goes, Calls
<1>5. Partials'
  BY DEF IInv, TakesAll, Partials, PartsInOrder
<1> QED BY <1>1, <1>2, <1>3, <1>4, <1>5 DEF IInv

LEMMA ForgetsKeeps ==
  ASSUME IInv, NEW c \in Callers, Forgets(c)
  PROVE  IInv'
<1>1. TypeOK'
  <2>1. call' \in [Callers -> Call]
    BY GoesTypes DEF IInv, Forgets, At, Forgotten, Steps, Fetching
  <2> QED BY <2>1 DEF IInv, TypeOK, Forgets, At, Forgotten, locks, bounds, Call
<1>2. Locked'
  BY DEF IInv, Forgets, At, Goes, locks, Locked, Fetching
<1>3. Files'
  BY DEF IInv, Forgets, Forgotten, Files
<1>4. Calls'
  BY DEF IInv, Forgets, Goes, Forgotten, Calls
<1>5. Partials'
  BY DEF IInv, Forgets, Partials, PartsInOrder
<1> QED BY <1>1, <1>2, <1>3, <1>4, <1>5 DEF IInv

LEMMA RemovesKeeps ==
  ASSUME IInv, NEW c \in Callers, Removes(c)
  PROVE  IInv'
<1>a. /\ call' \in [Callers -> Call]
      /\ call'[c].step = "cleared"
      /\ \A d \in Callers : d # c =>
           /\ call'[d].step = call[d].step /\ call'[d].key = call[d].key
           /\ call'[d].offset = call[d].offset /\ call'[d].src \in {call[d].src, "none"}
           /\ call[d].step = "loaded" => call'[d].src = call[d].src
  <2>1. /\ CutOff \in [Callers -> Call]
        /\ \A d \in Callers :
             /\ CutOff[d].step = call[d].step /\ CutOff[d].key = call[d].key
             /\ CutOff[d].offset = call[d].offset /\ CutOff[d].src \in {call[d].src, "none"}
             /\ call[d].step = "loaded" => CutOff[d].src = call[d].src
    BY DEF IInv, TypeOK, CutOff, Call, Content, At
  <2>2. PICK answer \in {"true", "error"}, then \in {call, CutOff} :
          call' = [then EXCEPT ![c].step = "cleared", ![c].answer = answer]
    BY DEF Removes
  <2>3. /\ then \in [Callers -> Call]
        /\ \A d \in Callers :
             /\ then[d].step = call[d].step /\ then[d].key = call[d].key
             /\ then[d].offset = call[d].offset /\ then[d].src \in {call[d].src, "none"}
             /\ call[d].step = "loaded" => then[d].src = call[d].src
    BY <2>1, <2>2 DEF IInv, TypeOK
  <2>4. [then[c] EXCEPT !.step = "cleared", !.answer = answer] \in Call
    <3>1. then[c] \in Call /\ answer \in {"none", "true", "false", "error"}
      BY <2>2, <2>3
    <3> QED BY <3>1 DEF Call, Steps
  <2>5. call' = [then EXCEPT ![c] = [then[c] EXCEPT !.step = "cleared", !.answer = answer]]
    BY <2>2, <2>3
  <2> QED BY <2>3, <2>4, <2>5 DEF Call
<1>b. call[c].step = "remove"
  BY DEF Removes, At
<1>c. /\ verified' = {} /\ verified = {} /\ readers = {}
      /\ \A k \in Keys :
           /\ disk'[k].file \in {disk[k].file, "none"}
           /\ disk'[k].image \in {disk[k].image, "none"}
           /\ disk'[k].record = "fits" => disk[k].record = "fits" /\ disk'[k].file # "none"
  <2>1. verified' = {} /\ verified = {} /\ readers = {}
    BY <1>b, FreeAssumption DEF IInv, TypeOK, Locked, Calls, Removes
  <2>2. CASE disk' = [k \in Keys |-> Gone]
    BY <2>1, <2>2 DEF Gone
  <2>3. CASE \E k \in Keys, s \in Stored :
               Remains(s, disk[k]) /\ disk' = [disk EXCEPT ![k] = s]
    <3>1. PICK x \in Keys, s \in Stored :
            Remains(s, disk[x]) /\ disk' = [disk EXCEPT ![x] = s]
      BY <2>3
    <3>2. disk'[x] = s /\ \A k \in Keys : k # x => disk'[k] = disk[k]
      BY <3>1 DEF IInv, TypeOK
    <3>3. \A k \in Keys : disk[k].record = "fits" => disk[k].file # "none"
      BY DEF IInv, Files
    <3> QED BY <2>1, <3>1, <3>2, <3>3 DEF Remains
  <2> QED BY <2>2, <2>3 DEF Removes
<1>d. \A d \in Callers : call[d].key \in Keys
  BY KeyTypes DEF IInv
<1>1. TypeOK'
  <2>1. disk' \in [Keys -> Stored]
    <3>1. Gone \in Stored
      BY LengthTypes DEF Gone, Stored, Content
    <3> QED BY <3>1, StoredTypes DEF IInv, TypeOK, Removes
  <2> QED BY <2>1, <1>a DEF IInv, TypeOK, Removes, locks, bounds
<1>2. Locked'
  BY <1>a, <1>b DEF IInv, Locked, Removes, locks, At, Fetching
<1>3. Files'
  BY <1>c DEF IInv, Files, Calls, Removes, At
<1>4. Calls'
  BY <1>a, <1>b, <1>c, <1>d DEF IInv, Calls, Locked, Removes, At, Fetching
<1>5. Partials'
  <2>1. \A k \in Keys : \/ disk'[k].partial = 0 /\ disk'[k].spoiled = "no"
                      \/ /\ disk'[k].partial = disk[k].partial
                         /\ disk'[k].spoiled \in {disk[k].spoiled, "no"}
                         /\ disk'[k].spoiled = "no" => disk'[k].partial = 0 \/ disk[k].spoiled = "no"
    BY SMTT(60) DEF IInv, TypeOK, Removes, Gone, Remains
  <2>2. ~(0 > Parts)
    BY PartsAssumption
  <2> QED BY <2>1, <2>2 DEF IInv, Partials, PartsInOrder
<1> QED BY <1>1, <1>2, <1>3, <1>4, <1>5 DEF IInv

LEMMA ClearReturnsKeeps ==
  ASSUME IInv, NEW c \in Callers, ClearReturns(c)
  PROVE  IInv'
<1>1. TypeOK'
  <2>1. call' \in [Callers -> Call]
    BY GoesTypes DEF IInv, ClearReturns, At, Steps, Fetching
  <2> QED BY <2>1 DEF IInv, TypeOK, ClearReturns, At, locks, bounds, Call
<1>2. Locked'
  BY DEF IInv, ClearReturns, At, Goes, Locked, Fetching, TypeOK
<1>3. Files'
  BY DEF IInv, ClearReturns, Files
<1>4. Calls'
  BY DEF IInv, ClearReturns, Goes, Calls
<1>5. Partials'
  BY DEF IInv, ClearReturns, Partials, PartsInOrder
<1> QED BY <1>1, <1>2, <1>3, <1>4, <1>5 DEF IInv

LEMMA ReturnsKeeps ==
  ASSUME IInv, NEW c \in Callers, Returns(c)
  PROVE  IInv'
<1>1. TypeOK'
  <2>1. Idle \in Call
    BY IdleTypes, KeysAssumption DEF Call, Steps
  <2>2. call' \in [Callers -> Call]
    BY <2>1, BeginsTypes DEF IInv, Returns
  <2> QED BY <2>2 DEF IInv, TypeOK, Returns, locks, bounds
<1>2. Locked'
  BY DEF IInv, Returns, Idle, locks, Locked, Fetching
<1>3. Files'
  BY DEF IInv, Returns, Files
<1>4. Calls'
  BY DEF IInv, Returns, Idle, Calls
<1>5. Partials'
  BY DEF IInv, Returns, Partials, PartsInOrder
<1> QED BY <1>1, <1>2, <1>3, <1>4, <1>5 DEF IInv

LEMMA DiesKeeps ==
  ASSUME IInv, Dies
  PROVE  IInv'
<1>1. TypeOK'
  BY IdleTypes, PartsAssumption DEF IInv, TypeOK, Dies
<1>2. Locked'
  BY DEF Dies, Idle, Locked, Fetching
<1>3. Files'
  BY DEF IInv, Dies, Files
<1>4. Calls'
  BY DEF Dies, Idle, Calls
<1>5. Partials'
  BY DEF IInv, Dies, Partials, PartsInOrder
<1> QED BY <1>1, <1>2, <1>3, <1>4, <1>5 DEF IInv

LEMMA DamagesKeeps ==
  ASSUME IInv, NEW k \in Keys, Damages(k)
  PROVE  IInv'
<1>a. /\ verified' = {}
      /\ \A d \in Callers : call'[d].step = "idle"
      /\ \A x \in Keys : x # k => disk'[x] = disk[x]
      /\ disk'[k].image = disk[k].image
      /\ \/ /\ disk'[k].file = "bad"
            /\ disk'[k].record = "none"
            /\ disk'[k].spoiled = disk[k].spoiled /\ disk'[k].partial = disk[k].partial
         \/ /\ disk'[k].file = disk[k].file
            /\ disk'[k].record = disk[k].record
            /\ disk'[k].spoiled = "host"
  <2>1. disk[k] \in Stored
    BY DEF IInv, TypeOK
  <2>2. CASE disk' = [disk EXCEPT ![k] = [disk[k] EXCEPT !.file = "bad", !.record = "none"]]
    <3>1. verified' = {} /\ \A d \in Callers : call'[d].step = "idle"
      BY DEF Damages, At
    <3>2. PICK s : /\ s = [disk[k] EXCEPT !.file = "bad", !.record = "none"]
                   /\ disk' = [disk EXCEPT ![k] = s]
      BY <2>2
    <3>3. /\ s.file = "bad" /\ s.record = "none"
          /\ s.image = disk[k].image /\ s.spoiled = disk[k].spoiled
          /\ s.partial = disk[k].partial
      BY <2>1, <3>2 DEF Stored
    <3>4. disk' = [disk EXCEPT ![k] = s]
      BY <3>2
    <3>5. disk \in [Keys -> Stored]
      BY DEF IInv, TypeOK
    <3>6. disk'[k] = s /\ \A x \in Keys : x # k => disk'[x] = disk[x]
      BY <3>4, <3>5
    <3> QED BY <3>1, <3>3, <3>6
  <2>3. CASE \E n \in {disk[k].partial, Overlong} :
               disk' = [disk EXCEPT ![k] = [disk[k] EXCEPT !.partial = n, !.spoiled = "host"]]
    BY <2>1, <2>3 DEF IInv, TypeOK, Stored, Damages, At
  <2> QED BY <2>2, <2>3 DEF Damages, IInv, TypeOK
<1>1. TypeOK'
  <2>1. [disk[k] EXCEPT !.file = "bad", !.record = "none"] \in Stored
        /\ \A n \in {disk[k].partial, Overlong} :
             [disk[k] EXCEPT !.partial = n, !.spoiled = "host"] \in Stored
    BY ChangedTypes DEF IInv, TypeOK
  <2>2. \/ disk' = [disk EXCEPT ![k] = [disk[k] EXCEPT !.file = "bad", !.record = "none"]]
        \/ \E n \in {disk[k].partial, Overlong} :
             disk' = [disk EXCEPT ![k] = [disk[k] EXCEPT !.partial = n, !.spoiled = "host"]]
    BY DEF Damages, IInv, TypeOK
  <2>3. disk' \in [Keys -> Stored]
    BY <2>1, <2>2, StoredTypes DEF IInv
  <2> QED BY <2>3, PartsAssumption DEF IInv, TypeOK, Damages, locks
<1>2. Locked'
  BY DEF IInv, Damages, locks, Locked
<1>3. Files'
  BY <1>a DEF IInv, Files, Damages
<1>4. Calls'
  BY DEF Damages, At, Calls
<1>5. Partials'
  BY <1>a DEF IInv, Partials, PartsInOrder
<1> QED BY <1>1, <1>2, <1>3, <1>4, <1>5 DEF IInv

-----------------------------------------------------------------------------
(* What a clear leaves. *)

\* With nothing on the device and its clear not over, no step puts anything back.
LEMMA GoneStays ==
  ASSUME IInv, IInv', NEW c \in Callers, call[c].step = "cleared", call'[c].step = "cleared",
         verified = {}, \A k \in Keys : disk[k] = Gone,
         \A d \in Callers : call[d].step = "writing" => call[d].src = "none",
         [Next]_vars, \A d \in Callers : ~Removes(d)
  PROVE  /\ verified' = {} /\ \A k \in Keys : disk'[k] = Gone
         /\ \A d \in Callers : call'[d].step = "writing" => call'[d].src = "none"
<1> DEFINE Goal == /\ verified' = {} /\ \A k \in Keys : disk'[k] = Gone
                   /\ \A d \in Callers : call'[d].step = "writing" => call'[d].src = "none"
<1>1. writer = c /\ readers = {} /\ \A d \in Callers : call[d].step \notin Fetching \cup {"key"}
  BY FreeAssumption DEF IInv, TypeOK, Locked
<1>2. \A d \in Callers : call[d] \in Call /\ call[d].key \in Keys
  BY KeyTypes DEF IInv
<1>3. /\ Gone.file = "none" /\ Gone.image = "none" /\ [Gone EXCEPT !.image = "none"] = Gone
      /\ Gone.partial = 0 /\ Gone.spoiled = "no"
  BY DEF Gone
<1>4. ASSUME NEW d \in Callers, Works(d) PROVE Goal
  <2>1. ~Fetch(d)
    BY <1>1, FreeAssumption
       DEF Fetch, EntersFiles, MayRead, IInv, TypeOK, TakesKey, Found, Matches, Records, Replaces,
           DropsImage, Resumes, AsksPart, Appends, Installs, Corrupt, Fails, Stops, At,
           Fetching
  <2>2. CASE /\ disk' = disk /\ verified' = verified /\ d # c
             /\ \A x \in Callers : x # d => call'[x] = call[x]
             /\ call'[d].step # "writing"
    BY <2>2
  <2>3. ASSUME Load(d) PROVE Goal
    <3>1. d # c
      BY <2>3 DEF Load, StartsLoad, LoadsImage, WritesImage, ImageWritten, LoadsFile, LoadFails,
                  Proved, At, Loading
    <3>2. disk[call[d].key] = Gone
      BY <1>2
    <3>3. /\ ~LoadsImage(d) /\ ~WritesImage(d) /\ ~ImageWritten(d) /\ ~LoadsFile(d)
      BY <1>3, <3>2 DEF LoadsImage, WritesImage, ImageWritten, LoadsFile, Key, At
    <3>4. disk' = disk
      <4>1. CASE LoadFails(d)
        <5>1. disk' = [disk EXCEPT ![call[d].key] = disk[call[d].key]]
          BY <1>3, <3>2, <4>1 DEF LoadFails, WithoutImage, Key
        <5> QED
          BY <5>1, <1>2 DEF IInv, TypeOK
      <4> QED
        BY <2>3, <3>3, <4>1 DEF Load, StartsLoad, Proved
    <3>5. /\ \A x \in Callers : x # d => call'[x] = call[x]
          /\ call'[d].step # "writing" /\ verified' = verified
      BY <1>2, <2>3, <3>3 DEF Load, StartsLoad, LoadFails, Proved, Goes, Answers, IInv, TypeOK, Call
    <3> QED
      BY <2>2, <3>1, <3>4, <3>5
  <2>4. ASSUME Clears(d) PROVE Goal
    <3>1. d # c => call[d].step \notin {"forget", "remove", "cleared"}
      BY <1>1 DEF IInv, Locked
    <3>2. ~ TakesAll(d)
      BY <1>1, FreeAssumption DEF TakesAll, MayWrite
    <3>3. ClearReturns(d) /\ d = c
      BY <2>4, <3>1, <3>2 DEF Clears, Forgets, ClearReturns, At
    <3>4. call'[c].step = "answer"
      BY <1>2, <3>3 DEF ClearReturns, Goes, IInv, TypeOK
    <3> QED
      BY <3>4
  <2>5. ASSUME NextKey(d) \/ AllThere(d) \/ KeyDone(d) \/ Returns(d) PROVE Goal
    <3>1. d # c
      BY <2>5 DEF NextKey, AllThere, KeyDone, Returns, At
    <3>2. /\ disk' = disk /\ verified' = verified
          /\ \A x \in Callers : x # d => call'[x] = call[x]
      BY <2>5 DEF NextKey, AllThere, KeyDone, Returns, Answers, IInv, TypeOK
    <3>3. call'[d].step # "writing"
      BY <1>2, <2>5 DEF NextKey, AllThere, KeyDone, Returns, Answers, Idle, IInv, TypeOK, Call
    <3> QED
      BY <2>2, <3>1, <3>2, <3>3
  <2> QED
    BY <1>4, <2>1, <2>3, <2>4, <2>5 DEF Works
<1>5. ASSUME NEW d \in Callers,
             Clear(d) \/ (\E k \in Keys : Proof(d, k)) \/ (\E ks \in SUBSET Keys : Prefetch(d, ks))
      PROVE  Goal
  <2>1. d # c /\ disk' = disk /\ verified' = verified
    BY <1>5 DEF Clear, Proof, Prefetch, At
  <2>2. /\ \A x \in Callers : x # d => call'[x] = call[x]
        /\ call'[d].step # "writing"
    BY ZenonT(60), <1>5 DEF Clear, Proof, Prefetch, Idle, IInv, TypeOK
  <2> QED
    BY <2>1, <2>2
<1>6. CASE Dies
  BY <1>6 DEF Dies, Idle
<1>7. ~ \E k \in Keys : Damages(k)
  BY DEF Damages, At
<1>8. CASE UNCHANGED vars
  BY <1>8 DEF vars
<1> QED
  BY <1>4, <1>5, <1>6, <1>7, <1>8 DEF Next

\* The step that removes everything takes the image being written with it.
LEMMA RemovesAll ==
  ASSUME IInv, NEW c \in Callers, Removes(c), call'[c].answer = "true"
  PROVE  /\ verified' = {} /\ \A k \in Keys : disk'[k] = Gone
         /\ \A d \in Callers : call'[d].step = "writing" => call'[d].src = "none"
<1>1. /\ CutOff \in [Callers -> Call]
      /\ \A d \in Callers : CutOff[d].step = "writing" => CutOff[d].src = "none"
  BY DEF IInv, TypeOK, CutOff, Call, Content, At
<1>2. \A then \in [Callers -> Call] : [then EXCEPT ![c].step = "cleared", ![c].answer = "error"][c].answer = "error"
  BY DEF Call
<1>3. /\ disk' = [k \in Keys |-> Gone]
      /\ call' = [CutOff EXCEPT ![c].step = "cleared", ![c].answer = "true"]
  <2>1. ASSUME NEW then \in {call, CutOff},
               call' = [then EXCEPT ![c].step = "cleared", ![c].answer = "error"]
        PROVE  FALSE
    <3>1. then \in [Callers -> Call]
      BY <1>1 DEF IInv, TypeOK
    <3>2. call'[c].answer = "error"
      BY <1>2, <2>1, <3>1
    <3> QED
      BY <3>2
  <2> QED
    BY <2>1 DEF Removes
<1>4. call'[c].step = "cleared" /\ \A d \in Callers : d # c => call'[d] = CutOff[d]
  BY <1>1, <1>3 DEF Call
<1>5. verified = {} /\ verified' = verified
  BY DEF Removes, At, IInv, Calls
<1> QED
  BY <1>1, <1>3, <1>4, <1>5

\* Only the removal makes a clear one that is done.
LEMMA ClearedKept ==
  ASSUME IInv, NEW c \in Callers, call'[c].step = "cleared",
         [Next]_vars, \A d \in Callers : ~Removes(d)
  PROVE  call'[c] = call[c]
<1> DEFINE Only(d) == /\ \A x \in Callers : x # d => call'[x] = call[x]
                      /\ call'[d].step # "cleared"
<1>1. \A d \in Callers : call[d] \in Call
  BY KeyTypes DEF IInv
<1>2. call \in [Callers -> Call]
  BY DEF IInv, TypeOK
<1>3. ASSUME NEW d \in Callers, NEW step \in Steps \ {"cleared"}, Goes(d, step) PROVE Only(d)
  BY <1>1, <1>2, <1>3 DEF Goes, Call
<1>4. ASSUME NEW d \in Callers, NEW answer, Answers(d, answer) PROVE Only(d)
  BY <1>1, <1>2, <1>4 DEF Answers, Call
<1>5. ASSUME NEW d \in Callers, Works(d) PROVE call'[c] = call[c]
  <2>1. CASE NextKey(d) \/ KeyDone(d) \/ AsksPart(d) \/ LoadsImage(d) \/ WritesImage(d)
             \/ LoadsFile(d) \/ Returns(d)
    <3>1. Only(d)
      BY <1>1, <1>2, <2>1
         DEF NextKey, KeyDone, AsksPart, LoadsImage, WritesImage, LoadsFile, Returns, Idle, Call
    <3> QED
      BY <3>1
  <2>2. CASE AllThere(d) \/ Corrupt(d) \/ Fails(d) \/ Stops(d) \/ LoadFails(d) \/ Proved(d)
    <3>1. \E answer : Answers(d, answer)
      BY <2>2 DEF AllThere, Corrupt, Fails, Stops, LoadFails, Proved
    <3> QED
      BY <1>4, <3>1
  <2>3. CASE EntersFiles(d) \/ TakesKey(d) \/ Found(d) \/ Matches(d) \/ Records(d) \/ Replaces(d)
             \/ DropsImage(d) \/ Resumes(d) \/ Appends(d) \/ Installs(d) \/ StartsLoad(d) \/ ImageWritten(d)
             \/ TakesAll(d) \/ Forgets(d) \/ ClearReturns(d)
    <3>1. \E step \in Steps \ {"cleared"} : Goes(d, step)
      BY <2>3 DEF EntersFiles, TakesKey, Found, Matches, Records, Replaces, DropsImage, Resumes, Appends,
                  Installs, StartsLoad, ImageWritten, TakesAll, Forgets, ClearReturns, Fetched,
                  Steps, Fetching
    <3> QED
      BY <1>3, <3>1
  <2> QED
    BY <1>5, <2>1, <2>2, <2>3 DEF Works, Fetch, Load, Clears
<1>6. ASSUME NEW d \in Callers,
             Clear(d) \/ (\E k \in Keys : Proof(d, k)) \/ (\E ks \in SUBSET Keys : Prefetch(d, ks))
      PROVE  call'[c] = call[c]
  <2>1. Only(d)
    BY <1>2, <1>6 DEF Clear, Proof, Prefetch, Idle
  <2> QED
    BY <2>1
<1>7. ~Dies
  BY DEF Dies, Idle
<1> QED
  BY <1>5, <1>6, <1>7 DEF Next, vars, Damages

LEMMA ClearDoneNext ==
  ASSUME IInv, IInv', ClearDone, [Next]_vars
  PROVE  ClearDone'
<1> SUFFICES ASSUME NEW c \in Callers, call'[c].step = "cleared", call'[c].answer = "true"
             PROVE  /\ verified' = {} /\ \A k \in Keys : disk'[k] = Gone
                    /\ \A d \in Callers : call'[d].step = "writing" => call'[d].src = "none"
  BY DEF ClearDone, ClearedIsGone, Gone
<1>1. CASE \E d \in Callers : Removes(d)
  <2> PICK d \in Callers : Removes(d)
    BY <1>1
  <2>1. call[d].step = "remove" /\ writer = d /\ writer' = writer
    BY DEF Removes, At, IInv, Locked, locks
  <2>2. d = c
    BY <2>1 DEF IInv, Locked
  <2> QED
    BY <2>2, RemovesAll
<1>2. CASE \A d \in Callers : ~Removes(d)
  <2>1. call'[c] = call[c]
    BY <1>2, ClearedKept
  <2> QED
    BY <1>2, <2>1, GoneStays DEF ClearDone, ClearedIsGone
<1> QED
  BY <1>1, <1>2

-----------------------------------------------------------------------------
(* What was downloaded. *)

\* A step that makes a partial download shorter installed it, found its bytes
\* wrong or is a clear's.
LEMMA PartialKept ==
  ASSUME IInv, [Next]_vars, NEW k \in Keys
  PROVE  \/ disk'[k].partial >= disk[k].partial
         \/ disk'[k].file = "good" \/ disk[k].spoiled # "no" \/ writer # Free
<1> DEFINE Goal == \/ disk'[k].partial >= disk[k].partial
                   \/ disk'[k].file = "good" \/ disk[k].spoiled # "no" \/ writer # Free
<1>1. /\ disk \in [Keys -> Stored] /\ disk[k] \in Stored
      /\ disk[k].partial \in 0..Overlong /\ Parts \in Nat \ {0}
      /\ \A c \in Callers : call[c].key \in Keys
  BY KeyTypes, PartsAssumption DEF IInv, TypeOK, Stored, Overlong
<1>2. ASSUME NEW x \in Keys, NEW s, disk' = [disk EXCEPT ![x] = s], s.partial = disk[x].partial
      PROVE  Goal
  <2>1. disk'[k].partial = disk[k].partial
    BY <1>1, <1>2
  <2> QED
    BY <1>1, <2>1
<1>3. CASE disk' = disk
  BY <1>1, <1>3
<1>4. ASSUME NEW c \in Callers, Fetch(c) PROVE Goal
  <2> DEFINE x == call[c].key
  <2>1. x \in Keys /\ disk[x] \in Stored
    BY <1>1
  <2>2. CASE Records(c) \/ Replaces(c) \/ DropsImage(c)
    <3>1. disk' = disk \/ \E s : disk' = [disk EXCEPT ![x] = s] /\ s.partial = disk[x].partial
      BY SMTT(60), <1>1, <2>1, <2>2 DEF Records, Replaces, DropsImage, WithoutImage, Key, Stored
    <3> QED
      BY <1>2, <1>3, <2>1, <3>1
  <2>3. CASE Appends(c)
    <3>1. PICK n \in {1, Parts} :
            \/ disk' = [disk EXCEPT ![x] = Appended(x, call[c].offset, n)]
            \/ disk' = [disk EXCEPT ![x] = [Appended(x, call[c].offset, n) EXCEPT !.spoiled = "host"]]
      BY <2>3 DEF Appends, Key
    <3>2. n \in Nat /\ disk[x].partial \in 0..Overlong
      BY <1>1, <2>1 DEF Stored
    <3>3. /\ Appended(x, call[c].offset, n).partial >= disk[x].partial
          /\ [Appended(x, call[c].offset, n) EXCEPT !.spoiled = "host"].partial
               = Appended(x, call[c].offset, n).partial
      BY <1>1, <2>1, <3>2 DEF Appended, Stored, Overlong
    <3>4. \E s : disk' = [disk EXCEPT ![x] = s] /\ s.partial >= disk[x].partial
      BY <3>1, <3>3
    <3>5. disk'[k].partial >= disk[k].partial
      BY <1>1, <2>1, <3>4
    <3> QED
      BY <3>5
  <2>4. CASE Installs(c)
    <3>1. disk'[x].file = "good" /\ (k # x => disk'[k] = disk[k])
      BY <1>1, <2>1, <2>4 DEF Installs, Key, Stored
    <3> QED
      BY <1>1, <3>1
  <2>5. CASE Corrupt(c) \/ (Resumes(c) /\ disk[x].partial > Parts)
    <3>1. disk[x].spoiled # "no" /\ (k # x => disk'[k] = disk[k])
      BY <1>1, <2>1, <2>5, PartsAssumption DEF Corrupt, Resumes, Key, Stored, IInv, Partials
    <3> QED
      BY <1>1, <3>1
  <2>7. CASE Resumes(c) /\ disk[x].partial <= Parts
    <3>1. disk' = disk
      BY <1>1, <2>1, <2>7, PartsAssumption DEF Resumes, Key, Stored, Overlong
    <3> QED
      BY <1>3, <3>1
  <2>8. disk[x].partial > Parts \/ disk[x].partial <= Parts
    BY <2>1, PartsAssumption DEF Stored, Overlong
  <2>6. CASE Fails(c)
    <3>1. disk' = [disk EXCEPT ![x] = disk[x]]
      BY <2>6 DEF Fails, Kept, Key
    <3> QED
      BY <1>2, <2>1, <3>1
  <2> QED
    BY <1>3, <1>4, <2>2, <2>3, <2>4, <2>5, <2>6, <2>7, <2>8
       DEF Fetch, EntersFiles, TakesKey, Found, Matches, AsksPart, Stops
<1>5. ASSUME NEW c \in Callers, Load(c) PROVE Goal
  <2> DEFINE x == call[c].key
  <2>1. x \in Keys /\ disk[x] \in Stored
    BY <1>1
  <2>2. disk' = disk \/ \E s : disk' = [disk EXCEPT ![x] = s] /\ s.partial = disk[x].partial
    <3>1. CASE LoadsFile(c) \/ LoadFails(c)
      <4>1. disk' = [disk EXCEPT ![x] = [disk[x] EXCEPT !.image = "none"]]
        BY <3>1 DEF LoadsFile, LoadFails, WithoutImage, Key
      <4>2. [disk[x] EXCEPT !.image = "none"].partial = disk[x].partial
        BY <2>1 DEF Stored
      <4> QED
        BY <4>1, <4>2
    <3>2. CASE ImageWritten(c)
      <4>1. disk' = [disk EXCEPT ![x] = [disk[x] EXCEPT !.image = call[c].src]]
        BY <1>1, <3>2 DEF ImageWritten, Key
      <4>2. [disk[x] EXCEPT !.image = call[c].src].partial = disk[x].partial
        BY <2>1 DEF Stored
      <4> QED
        BY <4>1, <4>2
    <3> QED
      BY <1>5, <3>1, <3>2 DEF Load, StartsLoad, LoadsImage, WritesImage, Proved
  <2> QED
    BY <1>2, <1>3, <2>1, <2>2
<1>6. ASSUME NEW c \in Callers, Clears(c) PROVE Goal
  <2>1. CASE Removes(c)
    BY <2>1, FreeAssumption DEF Removes, At, IInv, Locked
  <2> QED
    BY <1>3, <1>6, <2>1 DEF Clears, TakesAll, Forgets, ClearReturns
<1>7. ASSUME NEW x \in Keys, Damages(x) PROVE Goal
  <2>1. disk[x] \in Stored
    BY <1>1
  <2>2. CASE disk' = [disk EXCEPT ![x].file = "bad", ![x].record = "none"]
    <3>1. disk' = [disk EXCEPT ![x] = [disk[x] EXCEPT !.file = "bad", !.record = "none"]]
      BY <1>1, <2>2
    <3>2. [disk[x] EXCEPT !.file = "bad", !.record = "none"].partial = disk[x].partial
      BY <2>1 DEF Stored
    <3> QED
      BY <1>2, <3>1, <3>2
  <2>3. CASE \E n \in {disk[x].partial, Overlong} :
               disk' = [disk EXCEPT ![x].partial = n, ![x].spoiled = "host"]
    <3>1. PICK n \in {disk[x].partial, Overlong} :
            disk' = [disk EXCEPT ![x] = [disk[x] EXCEPT !.partial = n, !.spoiled = "host"]]
      BY <1>1, <2>3
    <3>2. /\ [disk[x] EXCEPT !.partial = n, !.spoiled = "host"].partial = n
          /\ n >= disk[x].partial
      BY <1>1, <2>1, PartsAssumption DEF Stored, Overlong
    <3>3. disk'[k].partial >= disk[k].partial
      BY <1>1, <3>1, <3>2
    <3> QED
      BY <3>3
  <2> QED
    BY <1>7, <2>2, <2>3 DEF Damages
<1> QED
  BY <1>3, <1>4, <1>5, <1>6, <1>7
     DEF Next, vars, Works, NextKey, AllThere, KeyDone, Returns, Clear, Proof, Prefetch, Dies

-----------------------------------------------------------------------------
(* The theorems. *)

LEMMA InitHolds == Init => IInv
<1> SUFFICES ASSUME Init PROVE IInv
  OBVIOUS
<1>1. Gone \in Stored /\ Damaged \in Stored /\ Overgrown \in Stored
  <2>1. Gone \in Stored
    BY PartsAssumption DEF Gone, Stored, Content, Overlong
  <2>2. Damaged \in Stored
    BY <2>1 DEF Damaged, Stored, Content
  <2>3. Overgrown \in Stored
    BY <2>1, LengthTypes DEF Overgrown, Stored
  <2> QED BY <2>1, <2>2, <2>3
<1>2. TypeOK
  BY <1>1, IdleTypes, PartsAssumption DEF Init, TypeOK
<1>3. \A k \in Keys : disk[k] \in {Gone, Damaged, Overgrown}
  BY DEF Init
<1>4. Files /\ Partials
  <2>1. /\ Gone.file = "none" /\ Gone.record = "none" /\ Gone.spoiled = "no"
        /\ Damaged.file = "bad" /\ Damaged.record = "none" /\ Damaged.spoiled = "no"
        /\ Overgrown.file = "none" /\ Overgrown.record = "none" /\ Overgrown.spoiled = "host"
        /\ Gone.partial = 0 /\ Damaged.partial = 0 /\ Gone.image = "none"
        /\ Overgrown.image = "none" /\ Damaged.image = "bad"
    BY DEF Gone, Damaged, Overgrown
  <2> QED BY <1>3, <2>1, PartsAssumption DEF Init, Files, Partials, PartsInOrder
<1>5. Locked /\ Calls
  BY DEF Init, Locked, Calls, Idle, Fetching
<1> QED BY <1>2, <1>4, <1>5 DEF IInv

LEMMA StutterKeeps ==
  ASSUME IInv, UNCHANGED vars
  PROVE  IInv'
BY DEF IInv, TypeOK, Locked, Files, Calls, Partials, PartsInOrder, vars, locks, bounds

LEMMA Inductive == IInv /\ [Next]_vars => IInv'
<1> SUFFICES ASSUME IInv, [Next]_vars PROVE IInv'
  OBVIOUS
<1>1. CASE UNCHANGED vars
  BY <1>1, StutterKeeps
<1>2. CASE Dies
  BY <1>2, DiesKeeps
<1>3. CASE \E k \in Keys : Damages(k)
  BY <1>3, DamagesKeeps
<1>4. ASSUME NEW c \in Callers, Works(c) PROVE IInv'
  <2>1. CASE Fetch(c)
    BY <2>1, EntersFilesKeeps, TakesKeyKeeps, FoundKeeps, MatchesKeeps, RecordsKeeps,
       ReplacesKeeps, DropsImageKeeps, ResumesKeeps, AsksPartKeeps, AppendsKeeps, InstallsKeeps,
       CorruptKeeps, FailsKeeps, StopsKeeps DEF Fetch
  <2>2. CASE Load(c)
    BY <2>2, StartsLoadKeeps, LoadsImageKeeps, WritesImageKeeps, ImageWrittenKeeps,
       LoadsFileKeeps, LoadFailsKeeps, ProvedKeeps DEF Load
  <2>3. CASE Clears(c)
    BY <2>3, TakesAllKeeps, ForgetsKeeps, RemovesKeeps, ClearReturnsKeeps DEF Clears
  <2> QED BY <1>4, <2>1, <2>2, <2>3, NextKeyKeeps, AllThereKeeps, KeyDoneKeeps,
             ReturnsKeeps DEF Works
<1>5. ASSUME NEW c \in Callers, NEW k \in Keys, Proof(c, k) PROVE IInv'
  BY <1>5, ProofKeeps
<1>6. ASSUME NEW c \in Callers, NEW ks \in SUBSET Keys, Prefetch(c, ks) PROVE IInv'
  BY <1>6, PrefetchKeeps
<1>7. ASSUME NEW c \in Callers, Clear(c) PROVE IInv'
  BY <1>7, ClearKeeps
<1> QED BY <1>1, <1>2, <1>3, <1>4, <1>5, <1>6, <1>7 DEF Next

\* The inductive invariant holds: the locks, files and callers agree.
THEOREM Invariant == Spec => []IInv
BY InitHolds, Inductive, PTL DEF Spec

\* Every variable keeps its type, and no clear overlaps a download.
THEOREM TypeCorrect == Spec => []TypeOK
<1>1. IInv => TypeOK
  BY DEF IInv
<1> QED BY <1>1, Invariant, PTL

\* Whatever downloads, damages, clears and restarts there are, a key that the
\* process counts as verified is whole on disk.
THEOREM VerifiedKeysAreGood == Spec => []VerifiedIsGood
<1>1. IInv => VerifiedIsGood
  BY DEF IInv, TypeOK, Files, VerifiedIsGood
<1> QED BY <1>1, Invariant, PTL

\* A proof loads the key it asked for or its image, never what an earlier
\* file left.
THEOREM LoadsAreGood == Spec => []LoadedIsGood
<1>1. IInv => LoadedIsGood
  BY DEF IInv, Calls, LoadedIsGood
<1> QED BY <1>1, Invariant, PTL

\* No two callers append to one partial download.
THEOREM PartialsInOrder == Spec => []PartsInOrder
<1>1. IInv => PartsInOrder
  BY DEF IInv, Partials, PartsInOrder
<1> QED BY <1>1, Invariant, PTL

\* A clear that succeeded left nothing on the device and nothing counted as
\* verified: the load of an image that was under way puts nothing back.
THEOREM ClearsAreComplete == Spec => []ClearedIsGone
<1>1. Init => ClearDone
  BY DEF Init, ClearDone, ClearedIsGone, Idle
<1>2. IInv /\ IInv' /\ ClearDone /\ [Next]_vars => ClearDone'
  BY ClearDoneNext
<1>3. ClearDone => ClearedIsGone
  BY DEF ClearDone
<1> QED BY <1>1, <1>2, <1>3, Invariant, PTL DEF Spec

\* No failed part, stop, restart or other caller throws away what was
\* downloaded: only a clear or a failed check does.
THEOREM WorkIsKept == Spec => WorkKept
<1>1. IInv /\ [Next]_vars =>
        [\A k \in Keys :
           disk'[k].partial < disk[k].partial =>
             disk'[k].file = "good" \/ disk[k].spoiled # "no" \/ writer # Free]_vars
  <2> SUFFICES ASSUME IInv, [Next]_vars, NEW k \in Keys, disk'[k].partial < disk[k].partial
               PROVE  disk'[k].file = "good" \/ disk[k].spoiled # "no" \/ writer # Free
    OBVIOUS
  <2>1. IInv'
    BY Inductive
  <2>2. disk[k].partial \in Nat /\ disk'[k].partial \in Nat
    BY <2>1, PartsAssumption DEF IInv, TypeOK, Stored, Overlong
  <2>3. ~(disk'[k].partial >= disk[k].partial)
    BY <2>2
  <2> QED
    BY <2>3, PartialKept
<1> QED BY <1>1, Invariant, PTL DEF Spec, WorkKept
=============================================================================
