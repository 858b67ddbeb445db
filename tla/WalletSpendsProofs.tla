------------------------- MODULE WalletSpendsProofs -------------------------
(***************************************************************************)
(* Proofs about WalletSpends, for any notes, payments, window and bounds.  *)
(* However the application sends: type correctness, the reservations of a  *)
(* run's payments, and that notes known to be spent are not selected.  For *)
(* an application that submits a message once ("again" not in Sends): what *)
(* can still land stays reserved, no two such payments share a note, a     *)
(* refused one never lands and a merge spends nothing already spent.       *)
(***************************************************************************)
EXTENDS WalletSpends, TLAPS

(* The inductive invariant. *)

\* An operation past the selection follows a transaction.
Follows == {"sending", "lookup", "indexing"}
Types == TypeOK /\ (pc \in Follows => target \in Handle)

\* An id names one reservation, never that of another payment than the handle's.
Ids ==
  /\ \A r \in reserved : r.id < nextId
  /\ \A h \in handles : h.id < nextId
  /\ \A r, s \in reserved : r.id = s.id => r = s
  /\ \A h \in handles, r \in reserved : r.id = h.id => r.msg.pay = h.msg.pay

\* What the application holds of a payment is one message once that was sent.
OneMessage ==
  /\ \A g, h \in handles : g.msg.pay = h.msg.pay => g.msg = h.msg
  /\ \A m \in submitted, h \in handles : h.msg.pay = m.pay => h.msg = m
  /\ \A m \in submitted, s \in saved \cup submitted : s.pay = m.pay => s = m

\* Messages are of prepared payments, with a blockhash of the past.
Planned ==
  /\ \A h \in handles : plan[h.msg.pay].kind # "none" /\ h.msg.bh <= height
  /\ \A m \in saved \cup submitted : plan[m.pay].kind # "none" /\ m.bh <= height
  /\ \A m \in network \cup landed \cup refused : plan[m.pay].kind # "none"
  /\ pc \in {"notes_read", "held_read", "selected"} => kind # "none"

\* The application has nothing left of the payment.
Gone(p) ==
  /\ \A h \in handles : h.msg.pay # p
  /\ \A m \in saved \cup submitted : m.pay # p

\* What a node may hold was saved as sent before, until its outcome was known.
Out ==
  /\ landed \cup failed \subseteq network
  /\ \A m \in network : m \in submitted \/ (Gone(m.pay) /\ m \in landed \cup failed)
  /\ \A m \in refused : Gone(m.pay) /\ (m \notin network \/ m \in failed)

\* A followed transaction was saved as sent, under the handle's own reservation.
Following ==
  pc \in Follows => target.msg \in submitted /\ (target \in handles \/ target.id = NoId)

\* The running operation and what it follows.
Running ==
  /\ pc = "sending" => target \in handles /\ target.msg \notin network
  /\ pc = "indexing" => target.msg \in landed
  /\ pc \in {"notes_read", "held_read", "selected"} => unrestored = {}

\* LiveIsReserved while a restart is not over: what is not restored is excused.
Covered ==
  \A m \in Message :
    Live(m) => \/ \E r \in reserved : r.msg.pay = m.pay /\ r.until >= Lvbh(m)
               \/ \E u \in unrestored : u.pay = m.pay

\* A selection knows of the notes of everything that can still land.
Excluded ==
  \A m \in Message :
    Live(m) => /\ pc = "held_read" => NotesOf(m.pay) \subseteq picked
               /\ pc = "selected" => NotesOf(m.pay) \cap picked = {}

\* What needs no assumption on how often the application submits a message.
Base == Ids /\ Planned /\ Following
Bookkeeping == Base /\ OneMessage /\ Out /\ Running

\* What is known to have landed did, and no read the wallet still has shows its
\* notes: sending and following forget the last read before a landing is known.
KnownUnread ==
  /\ indexed \subseteq landed
  /\ pc \in Follows => recent = {}
  /\ \A p \in known : \E m \in landed : m.pay = p
  /\ \A p \in known, ns \in recent : ns \cap NotesOf(p) = {}
  /\ pc = "notes_read" \/ (pc = "selected" /\ kind # "cached_spend") =>
       \A p \in known : picked \cap NotesOf(p) = {}

\* A message is reserved once, and while it may land unknown to the wallet each of
\* its handles has the id of a reservation of it.
HeldOnce ==
  /\ \A r, x \in reserved : r.msg = x.msg => r = x
  /\ \A h \in handles :
       height <= Lvbh(h.msg) /\ h.msg.pay \notin known =>
         \E r \in reserved : r.id = h.id /\ r.msg = h.msg /\ r.until >= Lvbh(h.msg)

\* A merge selects from notes read after the reservations: none of them is spent.
MergeUnspent ==
  /\ pc = "notes_read" => kind = "spend"
  /\ pc = "selected" /\ kind \in {"merge", "cached_merge"} =>
       \A m \in landed : NotesOf(m.pay) \cap picked = {}
  /\ MergeNotesUnspent
IInv == Types /\ failed \cap landed = {} /\ Bookkeeping /\ Covered /\ Excluded /\ LiveDisjoint

-----------------------------------------------------------------------------
(* Types. *)

LEMMA IdForType ==
  ASSUME Types, NEW m
  PROVE  IdFor(m) \in Nat
<1>1. CASE \E r \in reserved : r.msg = m
  <2>1. (CHOOSE r \in reserved : r.msg = m) \in reserved
    BY <1>1
  <2> QED
    BY <1>1, <2>1 DEF IdFor, Types, TypeOK
<1>2. CASE ~ \E r \in reserved : r.msg = m
  BY <1>2 DEF IdFor, Types, TypeOK
<1> QED
  BY <1>1, <1>2

LEMMA UntilType ==
  ASSUME NEW m \in Message, NEW k
  PROVE  /\ Lvbh(m) \in Nat /\ Forever \in Nat /\ Until(k, m) \in Nat
         /\ Lvbh(m) <= Forever /\ Lvbh(m) <= Until(k, m)
BY BoundsAssumption DEF Message, Heights, Lvbh, Forever, Until

LEMMA InsertType ==
  ASSUME Types, NEW i \in Nat, NEW m \in Message, NEW u \in Nat
  PROVE  /\ Insert(reserved, i, m, u) \subseteq [id : Nat, msg : Message, until : Nat]
         /\ [id |-> i, msg |-> m] \in Handle
BY DEF Insert, Types, TypeOK, Handle, NoId

LEMMA NotesAfterType ==
  ASSUME Types, NEW ms \in SUBSET Message
  PROVE  NotesAfter(ms) \subseteq Note /\ OutputsOf(ms) \subseteq Note
BY DEF Types, TypeOK, NotesAfter, OutputsOf, CachedOutput, SpentBy, NotesOf, Note, Message

LEMMA HeldNotesType ==
  ASSUME Types, NEW rs \in SUBSET reserved
  PROVE  HeldNotes(rs) \subseteq Note
BY DEF Types, TypeOK, HeldNotes, NotesOf, CachedOutput, Note, Message

LEMMA TypesInit == Init => Types
BY BoundsAssumption DEF Init, Types, TypeOK, Follows, Heights, Kinds, Message, Handle

LEMMA TypesNext == Types /\ [Next]_vars => Types'
<1> SUFFICES ASSUME Types, [Next]_vars PROVE Types'
  OBVIOUS
<1> USE DEF Types, TypeOK, Follows, chain, wallet, op, app, history
<1>1. ASSUME Tick PROVE Types'
  BY <1>1, BoundsAssumption DEF Tick, Heights
<1>2. ASSUME NEW m \in network, Land(m) PROVE Types'
  BY <1>2 DEF Land, Landable
<1>3. ASSUME NEW m \in network, LandFailing(m) PROVE Types'
  BY <1>3 DEF LandFailing, Landable
<1>4. ASSUME NEW m \in landed, IndexerAdvances(m) PROVE Types'
  BY <1>4 DEF IndexerAdvances
<1>5. ASSUME ReadBalances PROVE Types'
  BY <1>5, NotesAfterType DEF ReadBalances
<1>6. ASSUME CountReserved PROVE Types'
  BY <1>6 DEF CountReserved, Retained
<1>7. ASSUME SpendReadsNotes PROVE Types'
  <2>1. picked' \in recent \/ picked' = NotesAfter(indexed)
    BY <1>7 DEF SpendReadsNotes, RecentNotes
  <2>2. picked' \subseteq Note
    BY <2>1, NotesAfterType
  <2> QED
    BY <1>7, <2>2, NotesAfterType DEF SpendReadsNotes, RecentNotes, Kinds
<1>8. ASSUME SpendSelects PROVE Types'
  BY <1>8 DEF SpendSelects, Retained
<1>9. ASSUME MergeReadsHeld PROVE Types'
  <2>1. reserved' \subseteq reserved
    BY <1>9 DEF MergeReadsHeld, Retained
  <2>2. picked' \subseteq Note
    BY <1>9, <2>1, HeldNotesType DEF MergeReadsHeld
  <2> QED
    BY <1>9, <2>1, <2>2 DEF MergeReadsHeld, Kinds
<1>10. ASSUME MergeSelects PROVE Types'
  <2> PICK ns \in recent \cup {NotesAfter(indexed)} : RecentNotes(ns) /\ picked' \in SUBSET (ns \ picked)
    BY <1>10 DEF MergeSelects
  <2>1. ns \subseteq Note
    BY NotesAfterType
  <2> QED
    BY <1>10, <2>1, NotesAfterType DEF MergeSelects, RecentNotes
<1>11. ASSUME CachedSpendSelects PROVE Types'
  BY <1>11, NotesAfterType DEF CachedSpendSelects, Retained, Kinds
<1>12. ASSUME PrepareFails PROVE Types'
  BY <1>12 DEF PrepareFails, Retained, Kinds
<1>13. ASSUME PrepareFinishes PROVE Types'
  <2> PICK p \in Fresh :
        /\ plan' = [plan EXCEPT ![p] = [kind |-> kind, notes |-> picked]]
        /\ reserved' = Insert(reserved, IdFor([pay |-> p, bh |-> height]),
                              [pay |-> p, bh |-> height], Until(kind, [pay |-> p, bh |-> height]))
        /\ handles' = handles \cup {[id |-> IdFor([pay |-> p, bh |-> height]),
                                     msg |-> [pay |-> p, bh |-> height]]}
    BY <1>13 DEF PrepareFinishes
  <2>1. [pay |-> p, bh |-> height] \in Message
    BY DEF Fresh, Message
  <2> DEFINE m == [pay |-> p, bh |-> height]
  <2>2. /\ Insert(reserved, IdFor(m), m, Until(kind, m)) \in SUBSET [id : Nat, msg : Message, until : Nat]
        /\ [id |-> IdFor(m), msg |-> m] \in Handle
    BY <2>1, IdForType, UntilType, InsertType
  <2>3. plan' \in [Payments -> [kind : Kinds, notes : SUBSET Note]]
    OBVIOUS
  <2>4. reserved' \subseteq [id : Nat, msg : Message, until : Nat] /\ handles' \subseteq Handle
    BY <2>2
  <2>5. /\ nextId' = nextId + 1 /\ pc' = "idle" /\ kind' = "none" /\ picked' = {} /\ target' = NoHandle
        /\ UNCHANGED <<chain, recent, saved, submitted, unrestored, history>>
    BY <1>13 DEF PrepareFinishes
  <2> QED
    BY <2>3, <2>4, <2>5 DEF Kinds
<1>14. ASSUME NEW h \in handles, Refresh(h) PROVE Types'
  <2> DEFINE m == [pay |-> h.msg.pay, bh |-> height]
  <2>1. m \in Message
    BY DEF Handle, Message
  <2>2. /\ Insert(reserved, IdFor(m), m, Until(plan[m.pay].kind, m)) \in SUBSET [id : Nat, msg : Message, until : Nat]
        /\ [id |-> IdFor(m), msg |-> m] \in Handle
    BY <2>1, IdForType, UntilType, InsertType
  <2> QED
    BY <1>14, <2>1, <2>2 DEF Refresh, Without, Message
<1>15. ASSUME NEW h \in handles, Save(h) PROVE Types'
  BY <1>15 DEF Save, Dropped, Handle
<1>16. ASSUME NEW m \in saved, Restore(m) PROVE Types'
  <2>1. /\ Insert(reserved, IdFor(m), m, Forever) \in SUBSET [id : Nat, msg : Message, until : Nat]
        /\ [id |-> IdFor(m), msg |-> m] \in Handle
    BY IdForType, UntilType, InsertType
  <2> QED
    BY <1>16, <2>1 DEF Restore
<1>17. ASSUME NEW h \in handles, Release(h) PROVE Types'
  BY <1>17 DEF Release, AppDrops, Dropped, Without
<1>18. ASSUME NEW h \in handles, AppSends(h) PROVE Types'
  BY <1>18 DEF AppSends, Handle
<1>19. ASSUME NEW h \in handles, Submit(h) PROVE Types'
  BY <1>19 DEF Submit, Handle
<1>20. ASSUME SendGoesOut PROVE Types'
  BY <1>20 DEF SendGoesOut, Handle
<1>21. ASSUME SendFails PROVE Types'
  BY <1>21 DEF SendFails
<1>22. ASSUME SendRefused PROVE Types'
  BY <1>22 DEF SendRefused, AppDrops, Dropped, Without, Done, Kinds, Handle
<1>23. ASSUME NEW h \in handles, Confirm(h) PROVE Types'
  BY <1>23 DEF Confirm
<1>24. ASSUME NEW m \in submitted, WaitForTransaction(m) PROVE Types'
  BY <1>24 DEF WaitForTransaction, Handle
<1>25. ASSUME LookupLanded PROVE Types'
  BY <1>25 DEF LookupLanded, Without, Handle, Message
<1>26. ASSUME LookupFailed PROVE Types'
  BY <1>26 DEF LookupFailed, AppDrops, Dropped, Without, Done, Kinds, Handle
<1>27. ASSUME LookupUnknown PROVE Types'
  BY <1>27 DEF LookupUnknown, Done, Kinds
<1>28. ASSUME IndexerHasIt PROVE Types'
  BY <1>28 DEF IndexerHasIt, AppDrops, Dropped, Done, Kinds
<1>29. ASSUME IndexerTimesOut PROVE Types'
  BY <1>29 DEF IndexerTimesOut, Done, Kinds
<1>30. ASSUME Restart PROVE Types'
  BY <1>30 DEF Restart, Done, Kinds
<1>31. ASSUME UNCHANGED vars PROVE Types'
  BY <1>31 DEF vars
<1> QED
  BY <1>1, <1>2, <1>3, <1>4, <1>5, <1>6, <1>7, <1>8, <1>9, <1>10, <1>11, <1>12, <1>13,
     <1>14, <1>15, <1>16, <1>17, <1>18, <1>19, <1>20, <1>21, <1>22, <1>23, <1>24, <1>25,
     <1>26, <1>27, <1>28, <1>29, <1>30, <1>31
     DEF Next, Chain, Prepare, Keep, Send, Settle

\* Every variable stays in its type, for all the constants the assumptions allow.
THEOREM TypeCorrect == Spec => []TypeOK
<1>1. Types => TypeOK
  BY DEF Types
<1> QED
  BY <1>1, TypesInit, TypesNext, PTL DEF Spec

-----------------------------------------------------------------------------
(* Reservations. *)

\* The id a message is reserved under: its own already, or an unused one.
LEMMA IdForFact ==
  ASSUME NEW m
  PROVE  \/ IdFor(m) = nextId
         \/ \E r \in reserved : r.msg = m /\ r.id = IdFor(m)
<1>1. CASE \E r \in reserved : r.msg = m
  <2>1. /\ (CHOOSE r \in reserved : r.msg = m) \in reserved
        /\ (CHOOSE r \in reserved : r.msg = m).msg = m
    BY <1>1
  <2> QED
    BY <1>1, <2>1 DEF IdFor
<1>2. CASE ~ \E r \in reserved : r.msg = m
  BY <1>2 DEF IdFor
<1> QED
  BY <1>1, <1>2

\* Reserving a message only replaces the message's own reservation.
LEMMA InsertFact ==
  ASSUME Types, Ids, NEW m \in Message, NEW u \in Nat
  PROVE  LET i == IdFor(m)
             rs == Insert(reserved, i, m, u)
         IN  /\ i \in Nat /\ i < nextId + 1
             /\ [id |-> i, msg |-> m, until |-> u] \in rs
             /\ \A r \in rs : r = [id |-> i, msg |-> m, until |-> u] \/ (r \in reserved /\ r.id # i)
             /\ \A r \in reserved : r \in rs \/ (r.msg = m /\ r.id = i)
             /\ \A h \in handles : h.id = i => h.msg.pay = m.pay
<1> DEFINE i == IdFor(m)
<1> DEFINE rs == Insert(reserved, i, m, u)
<1>1. i \in Nat
  BY IdForType
<1>2. i = nextId \/ \E r \in reserved : r.msg = m /\ r.id = i
  BY IdForFact
<1>3. i < nextId + 1
  BY <1>1, <1>2 DEF Types, TypeOK, Ids
<1>4. \A r \in reserved : r.id = i => r.msg = m
  BY <1>1, <1>2 DEF Types, TypeOK, Ids
<1>5. \A h \in handles : h.id = i => h.msg.pay = m.pay
  BY <1>1, <1>2 DEF Types, TypeOK, Ids
<1> HIDE DEF i
<1>6. /\ [id |-> i, msg |-> m, until |-> u] \in rs
      /\ \A r \in rs : r = [id |-> i, msg |-> m, until |-> u] \/ (r \in reserved /\ r.id # i)
      /\ \A r \in reserved : r \in rs \/ (r.msg = m /\ r.id = i)
  BY <1>4 DEF Insert
<1> QED
  BY <1>1, <1>3, <1>5, <1>6 DEF i

\* One more reservation, and a handle for it, keep ids and handles matched.
LEMMA IdsStep ==
  ASSUME Types, Types', Ids, nextId' = nextId + 1,
         NEW i \in Nat, NEW m, NEW u, i < nextId + 1,
         \A r \in reserved' : r = [id |-> i, msg |-> m, until |-> u] \/ (r \in reserved /\ r.id # i),
         \A h \in handles : h.id = i => h.msg.pay = m.pay,
         \A h \in handles' : h = [id |-> i, msg |-> m] \/ h \in handles
  PROVE  Ids'
<1> USE DEF Ids
<1>1. \A r \in reserved' : r.id < nextId'
  BY DEF Types, TypeOK
<1>2. \A h \in handles' : h.id < nextId'
  BY DEF Types, TypeOK, Handle, NoId
<1>3. \A r, s \in reserved' : r.id = s.id => r = s
  OBVIOUS
<1>4. \A h \in handles', r \in reserved' : r.id = h.id => r.msg.pay = h.msg.pay
  OBVIOUS
<1> QED
  BY <1>1, <1>2, <1>3, <1>4

-----------------------------------------------------------------------------
(* Bookkeeping. *)

LEMMA BookkeepingInit == Init => Bookkeeping /\ failed \cap landed = {}
BY DEF Init, Bookkeeping, Base, Ids, OneMessage, Planned, Out, Running, Following, Follows

LEMMA BaseNext ==
  ASSUME Types, Types', Base, [Next]_vars
  PROVE  Base'
<1> USE DEF Base, Ids, Planned, Following, Follows,
            Types, TypeOK, Message, Handle, chain, wallet, op, app, history
<1>1. ASSUME Tick PROVE Base'
  BY <1>1, BoundsAssumption DEF Tick, Heights
<1>2. ASSUME NEW m \in network, Land(m) PROVE Base'
  BY <1>2 DEF Land, Landable
<1>3. ASSUME NEW m \in network, LandFailing(m) PROVE Base'
  BY <1>3 DEF LandFailing, Landable
<1>4. ASSUME NEW m \in landed, IndexerAdvances(m) PROVE Base'
  BY <1>4 DEF IndexerAdvances
<1>5. ASSUME ReadBalances PROVE Base'
  BY <1>5 DEF ReadBalances
<1>6. ASSUME CountReserved PROVE Base'
  BY <1>6 DEF CountReserved, Retained
<1>7. ASSUME SpendReadsNotes PROVE Base'
  BY <1>7 DEF SpendReadsNotes, MayPrepare
<1>8. ASSUME SpendSelects PROVE Base'
  BY <1>8 DEF SpendSelects, Retained
<1>9. ASSUME MergeReadsHeld PROVE Base'
  BY <1>9 DEF MergeReadsHeld, MayPrepare, Retained
<1>10. ASSUME MergeSelects PROVE Base'
  BY <1>10 DEF MergeSelects
<1>11. ASSUME CachedSpendSelects PROVE Base'
  BY <1>11 DEF CachedSpendSelects, MayPrepare, Retained
<1>12. ASSUME PrepareFails PROVE Base'
  BY <1>12 DEF PrepareFails, Retained
<1>13. ASSUME PrepareFinishes PROVE Base'
  <2> PICK p \in Fresh :
        /\ plan' = [plan EXCEPT ![p] = [kind |-> kind, notes |-> picked]]
        /\ reserved' = Insert(reserved, IdFor([pay |-> p, bh |-> height]),
                              [pay |-> p, bh |-> height], Until(kind, [pay |-> p, bh |-> height]))
        /\ handles' = handles \cup {[id |-> IdFor([pay |-> p, bh |-> height]),
                                     msg |-> [pay |-> p, bh |-> height]]}
    BY <1>13 DEF PrepareFinishes
  <2> DEFINE m == [pay |-> p, bh |-> height]
             i == IdFor(m)
             u == Until(kind, m)
  <2>1. /\ p \in Payments /\ plan[p].kind = "none" /\ m \in Message
        /\ m.pay = p /\ m.bh = height /\ kind # "none"
    BY <1>13 DEF Fresh, PrepareFinishes
  <2>2. u \in Nat
    BY <2>1, UntilType
  <2>3. /\ i \in Nat /\ i < nextId + 1
        /\ \A r \in reserved' : r = [id |-> i, msg |-> m, until |-> u] \/ (r \in reserved /\ r.id # i)
        /\ \A h \in handles : h.id = i => h.msg.pay = m.pay
    BY <2>1, <2>2, InsertFact
  <2>4. /\ nextId' = nextId + 1 /\ pc' = "idle"
        /\ UNCHANGED <<chain, recent, saved, submitted, unrestored, history>>
    BY <1>13 DEF PrepareFinishes
  <2>5. handles' = handles \cup {[id |-> i, msg |-> m]}
    OBVIOUS
  <2> HIDE DEF i, u, m
  <2>6. Ids'
    <3>1. Ids
      OBVIOUS
    <3> HIDE DEF Base, Ids, Planned, Following, Follows, Types, TypeOK, Message, Handle,
                chain, wallet, op, app, history
    <3> QED
      BY ONLY Types, Types', <3>1, <2>1, <2>3, <2>4, <2>5, IdsStep
  <2>7. \A h \in handles : h.msg.pay # p
    BY <2>1
  <2>8. \A x \in saved \cup submitted \cup network \cup refused : x.pay # p
    BY <2>1
  <2>10. \A q \in Payments : plan[q].kind # "none" => plan'[q].kind # "none"
    BY <2>1
  <2>11. plan'[p].kind # "none"
    BY <2>1
  <2>12. Planned'
    BY <2>1, <2>4, <2>5, <2>10, <2>11 DEF Heights
  <2> QED
    BY <2>4, <2>6, <2>12
<1>14. ASSUME NEW h \in handles, Refresh(h) PROVE Base'
  <2> DEFINE m == [pay |-> h.msg.pay, bh |-> height]
             i == IdFor(m)
             u == Until(plan[m.pay].kind, m)
  <2>1. m \in Message /\ m.pay = h.msg.pay /\ m.bh = height
    OBVIOUS
  <2>2. u \in Nat
    BY <2>1, UntilType
  <2>3. /\ i \in Nat /\ i < nextId + 1
        /\ \A r \in Insert(reserved, i, m, u) :
             r = [id |-> i, msg |-> m, until |-> u] \/ (r \in reserved /\ r.id # i)
        /\ \A g \in handles : g.id = i => g.msg.pay = m.pay
    BY <2>1, <2>2, InsertFact
  <2>4. reserved' \subseteq Insert(reserved, i, m, u)
    BY <1>14 DEF Refresh, Without
  <2>5. /\ pc = "idle" /\ nextId' = nextId + 1 /\ \A x \in submitted : x.pay # m.pay
        /\ handles' = {x \in handles : x.msg.pay # m.pay} \cup {[id |-> i, msg |-> m]}
        /\ UNCHANGED <<chain, plan, recent, op, saved, submitted, unrestored, refused, known>>
    BY <1>14 DEF Refresh, Sent
  <2> HIDE DEF i, u, m
  <2>6. Ids'
    <3>1. Ids
      OBVIOUS
    <3> HIDE DEF Base, Ids, Planned, Following, Follows, Types, TypeOK, Message, Handle,
                chain, wallet, op, app, history
    <3> QED
      BY <3>1, <2>1, <2>3, <2>4, <2>5, IdsStep
  <2>8. Planned'
    BY <2>1, <2>5 DEF Heights
  <2> QED
    BY <2>5, <2>6, <2>8
<1>15. ASSUME NEW h \in handles, Save(h) PROVE Base'
  BY <1>15 DEF Save, Dropped
<1>16. ASSUME NEW m \in saved, Restore(m) PROVE Base'
  <2> DEFINE i == IdFor(m)
  <2>1. m \in Message /\ Forever \in Nat
    BY UntilType
  <2>2. /\ i \in Nat /\ i < nextId + 1
        /\ \A r \in Insert(reserved, i, m, Forever) :
             r = [id |-> i, msg |-> m, until |-> Forever] \/ (r \in reserved /\ r.id # i)
        /\ \A g \in handles : g.id = i => g.msg.pay = m.pay
    BY <2>1, InsertFact
  <2>3. /\ pc = "idle" /\ nextId' = nextId + 1
        /\ \A h \in handles : h.msg.pay = m.pay => h.msg = m
        /\ reserved' = Insert(reserved, i, m, Forever)
        /\ handles' = handles \cup {[id |-> i, msg |-> m]}
        /\ unrestored' = unrestored \ {m}
        /\ UNCHANGED <<chain, plan, recent, op, saved, submitted, history>>
    BY <1>16 DEF Restore
  <2> HIDE DEF i
  <2>4. Ids'
    <3>1. Ids
      OBVIOUS
    <3> HIDE DEF Base, Ids, Planned, Following, Follows, Types, TypeOK, Message, Handle,
                chain, wallet, op, app, history
    <3> QED
      BY <3>1, <2>1, <2>2, <2>3, IdsStep
  <2>5. Planned'
    BY <2>1, <2>3
  <2> QED
    BY <2>3, <2>4, <2>5
<1>17. ASSUME NEW h \in handles, Release(h) PROVE Base'
  BY <1>17 DEF Release, AppDrops, Dropped, Without, Sent
<1>18. ASSUME NEW h \in handles, AppSends(h) PROVE Base'
  BY <1>18 DEF AppSends, MaySend
<1>19. ASSUME NEW h \in handles, Submit(h) PROVE Base'
  BY <1>19 DEF Submit, MaySend
<1>20. ASSUME SendGoesOut PROVE Base'
  BY <1>20 DEF SendGoesOut
<1>21. ASSUME SendFails PROVE Base'
  BY <1>21 DEF SendFails
<1>22. ASSUME SendRefused PROVE Base'
  BY <1>22 DEF SendRefused, AppDrops, Dropped, Without, Done
<1>23. ASSUME NEW h \in handles, Confirm(h) PROVE Base'
  BY <1>23 DEF Confirm
<1>24. ASSUME NEW m \in submitted, WaitForTransaction(m) PROVE Base'
  BY <1>24 DEF WaitForTransaction
<1>25. ASSUME LookupLanded PROVE Base'
  BY <1>25 DEF LookupLanded, Without
<1>26. ASSUME LookupFailed PROVE Base'
  BY <1>26 DEF LookupFailed, AppDrops, Dropped, Without, Done
<1>27. ASSUME LookupUnknown PROVE Base'
  BY <1>27 DEF LookupUnknown, Done
<1>28. ASSUME IndexerHasIt PROVE Base'
  BY <1>28 DEF IndexerHasIt, AppDrops, Dropped, Done
<1>29. ASSUME IndexerTimesOut PROVE Base'
  BY <1>29 DEF IndexerTimesOut, Done
<1>30. ASSUME Restart PROVE Base'
  BY <1>30 DEF Restart, Done
<1>31. ASSUME UNCHANGED vars PROVE Base'
  BY <1>31 DEF vars
<1> QED
  BY <1>1, <1>2, <1>3, <1>4, <1>5, <1>6, <1>7, <1>8, <1>9, <1>10, <1>11, <1>12,
     <1>13, <1>14, <1>15, <1>16, <1>17, <1>18, <1>19, <1>20, <1>21, <1>22, <1>23, <1>24,
     <1>25, <1>26, <1>27, <1>28, <1>29, <1>30, <1>31
     DEF Next, Chain, Prepare, Keep, Send, Settle

LEMMA BookkeepingNext ==
  ASSUME "again" \notin Sends, Types, Types', failed \cap landed = {}, Bookkeeping, Base', [Next]_vars
  PROVE  OneMessage' /\ Out' /\ Running' /\ (failed \cap landed = {})'
<1> USE DEF Bookkeeping, Base, Ids, OneMessage, Planned, Out, Running, Following, Gone, Follows,
            Types, TypeOK, Message, Handle, chain, wallet, op, app, history
<1> DEFINE Goal == OneMessage' /\ Out' /\ Running' /\ (failed \cap landed = {})'
<1>1. ASSUME Tick PROVE Goal
  BY <1>1, BoundsAssumption DEF Tick, Heights
<1>2. ASSUME NEW m \in network, Land(m) PROVE Goal
  BY <1>2 DEF Land, Landable
<1>3. ASSUME NEW m \in network, LandFailing(m) PROVE Goal
  BY <1>3 DEF LandFailing, Landable
<1>4. ASSUME NEW m \in landed, IndexerAdvances(m) PROVE Goal
  BY <1>4 DEF IndexerAdvances
<1>5. ASSUME ReadBalances PROVE Goal
  BY <1>5 DEF ReadBalances
<1>6. ASSUME CountReserved PROVE Goal
  BY <1>6 DEF CountReserved, Retained
<1>7. ASSUME SpendReadsNotes PROVE Goal
  BY <1>7 DEF SpendReadsNotes, MayPrepare
<1>8. ASSUME SpendSelects PROVE Goal
  BY <1>8 DEF SpendSelects, Retained
<1>9. ASSUME MergeReadsHeld PROVE Goal
  BY <1>9 DEF MergeReadsHeld, MayPrepare, Retained
<1>10. ASSUME MergeSelects PROVE Goal
  BY <1>10 DEF MergeSelects
<1>11. ASSUME CachedSpendSelects PROVE Goal
  BY <1>11 DEF CachedSpendSelects, MayPrepare, Retained
<1>12. ASSUME PrepareFails PROVE Goal
  BY <1>12 DEF PrepareFails, Retained
<1>13. ASSUME PrepareFinishes PROVE Goal
  <2> PICK p \in Fresh :
        handles' = handles \cup {[id |-> IdFor([pay |-> p, bh |-> height]),
                                  msg |-> [pay |-> p, bh |-> height]]}
    BY <1>13 DEF PrepareFinishes
  <2>1. plan[p].kind = "none" /\ pc' = "idle" /\ UNCHANGED <<chain, saved, submitted, refused>>
    BY <1>13 DEF Fresh, PrepareFinishes
  <2>2. /\ \A h \in handles : h.msg.pay # p
        /\ \A x \in saved \cup submitted \cup network \cup refused : x.pay # p
    BY <2>1
  <2>3. \A h \in handles' : h \in handles \/ h.msg.pay = p
    OBVIOUS
  <2>4. \A g, h \in handles' : g.msg.pay = p /\ h.msg.pay = p => g.msg = h.msg
    BY <2>2
  <2> QED
    BY <2>1, <2>2, <2>3, <2>4
<1>14. ASSUME NEW h \in handles, Refresh(h) PROVE Goal
  <2> DEFINE m == [pay |-> h.msg.pay, bh |-> height]
             i == IdFor(m)
  <2>1. /\ pc = "idle" /\ \A x \in submitted : x.pay # m.pay
        /\ handles' = {x \in handles : x.msg.pay # m.pay} \cup {[id |-> i, msg |-> m]}
        /\ UNCHANGED <<chain, plan, recent, op, saved, submitted, unrestored, refused, known>>
    BY <1>14 DEF Refresh, Sent
  <2>2. m.pay = h.msg.pay
    OBVIOUS
  <2> HIDE DEF i, m
  <2> QED
    BY <2>1, <2>2
<1>15. ASSUME NEW h \in handles, Save(h) PROVE Goal
  BY <1>15 DEF Save, Dropped
<1>16. ASSUME NEW m \in saved, Restore(m) PROVE Goal
  <2> DEFINE i == IdFor(m)
  <2>1. /\ pc = "idle"
        /\ \A h \in handles : h.msg.pay = m.pay => h.msg = m
        /\ handles' = handles \cup {[id |-> i, msg |-> m]}
        /\ UNCHANGED <<chain, plan, recent, op, saved, submitted, history>>
    BY <1>16 DEF Restore
  <2> HIDE DEF i
  <2> QED
    BY <2>1
<1>17. ASSUME NEW h \in handles, Release(h) PROVE Goal
  BY <1>17 DEF Release, AppDrops, Dropped, Without, Sent
<1>18. ASSUME NEW h \in handles, AppSends(h) PROVE Goal
  BY <1>18 DEF AppSends, MaySend
<1>19. ASSUME NEW h \in handles, Submit(h) PROVE Goal
  BY <1>19 DEF Submit, MaySend
<1>20. ASSUME SendGoesOut PROVE Goal
  BY <1>20 DEF SendGoesOut
<1>21. ASSUME SendFails PROVE Goal
  BY <1>21 DEF SendFails
<1>22. ASSUME SendRefused PROVE Goal
  BY <1>22 DEF SendRefused, AppDrops, Dropped, Without, Done
<1>23. ASSUME NEW h \in handles, Confirm(h) PROVE Goal
  BY <1>23 DEF Confirm
<1>24. ASSUME NEW m \in submitted, WaitForTransaction(m) PROVE Goal
  BY <1>24 DEF WaitForTransaction
<1>25. ASSUME LookupLanded PROVE Goal
  BY <1>25 DEF LookupLanded, Without
<1>26. ASSUME LookupFailed PROVE Goal
  BY <1>26 DEF LookupFailed, AppDrops, Dropped, Without, Done
<1>27. ASSUME LookupUnknown PROVE Goal
  BY <1>27 DEF LookupUnknown, Done
<1>28. ASSUME IndexerHasIt PROVE Goal
  BY <1>28 DEF IndexerHasIt, AppDrops, Dropped, Done
<1>29. ASSUME IndexerTimesOut PROVE Goal
  BY <1>29 DEF IndexerTimesOut, Done
<1>30. ASSUME Restart PROVE Goal
  BY <1>30 DEF Restart, Done
<1>31. ASSUME UNCHANGED vars PROVE Goal
  BY <1>31 DEF vars
<1> QED
  BY <1>1, <1>2, <1>3, <1>4, <1>5, <1>6, <1>7, <1>8, <1>9, <1>10, <1>11, <1>12,
     <1>13, <1>14, <1>15, <1>16, <1>17, <1>18, <1>19, <1>20, <1>21, <1>22, <1>23, <1>24,
     <1>25, <1>26, <1>27, <1>28, <1>29, <1>30, <1>31
     DEF Next, Chain, Prepare, Keep, Send, Settle

-----------------------------------------------------------------------------
(* What can still land. *)

\* Only preparing and refreshing make something new that can land.
LEMMA LiveNext ==
  ASSUME Types, Bookkeeping, [Next]_vars,
         ~PrepareFinishes, \A h \in handles : ~Refresh(h)
  PROVE  /\ \A x \in Message : Live(x)' => Live(x)
         /\ plan' = plan /\ late' = late
<1> USE DEF Live, Held, Lvbh, Types, TypeOK, Bookkeeping, Base, Running, Following, Follows, Message, Handle,
            chain, wallet, op, app, history
<1> DEFINE Goal == /\ \A x \in Message : Live(x)' => Live(x)
                   /\ plan' = plan /\ late' = late
<1>1. ASSUME Tick PROVE Goal
  BY <1>1, BoundsAssumption DEF Tick, Heights
<1>2. ASSUME NEW m \in network, Land(m) PROVE Goal
  BY <1>2 DEF Land, Landable
<1>3. ASSUME NEW m \in network, LandFailing(m) PROVE Goal
  BY <1>3 DEF LandFailing, Landable
<1>4. ASSUME NEW m \in landed, IndexerAdvances(m) PROVE Goal
  BY <1>4 DEF IndexerAdvances
<1>5. ASSUME ReadBalances PROVE Goal
  BY <1>5 DEF ReadBalances
<1>6. ASSUME CountReserved PROVE Goal
  BY <1>6 DEF CountReserved, Retained
<1>7. ASSUME SpendReadsNotes PROVE Goal
  BY <1>7 DEF SpendReadsNotes, MayPrepare
<1>8. ASSUME SpendSelects PROVE Goal
  BY <1>8 DEF SpendSelects, Retained
<1>9. ASSUME MergeReadsHeld PROVE Goal
  BY <1>9 DEF MergeReadsHeld, MayPrepare, Retained
<1>10. ASSUME MergeSelects PROVE Goal
  BY <1>10 DEF MergeSelects
<1>11. ASSUME CachedSpendSelects PROVE Goal
  BY <1>11 DEF CachedSpendSelects, MayPrepare, Retained
<1>12. ASSUME PrepareFails PROVE Goal
  BY <1>12 DEF PrepareFails, Retained
<1>13. ASSUME NEW h \in handles, Save(h) PROVE Goal
  BY <1>13 DEF Save, Dropped
<1>14. ASSUME NEW m \in saved, Restore(m) PROVE Goal
  BY <1>14 DEF Restore
<1>15. ASSUME NEW h \in handles, Release(h) PROVE Goal
  BY <1>15 DEF Release, AppDrops, Dropped, Without, Sent
<1>16. ASSUME NEW h \in handles, AppSends(h) PROVE Goal
  BY <1>16 DEF AppSends, MaySend
<1>17. ASSUME NEW h \in handles, Submit(h) PROVE Goal
  BY <1>17 DEF Submit, MaySend
<1>18. ASSUME SendGoesOut PROVE Goal
  BY <1>18 DEF SendGoesOut
<1>19. ASSUME SendFails PROVE Goal
  BY <1>19 DEF SendFails
<1>20. ASSUME SendRefused PROVE Goal
  BY <1>20 DEF SendRefused, AppDrops, Dropped, Without, Done
<1>21. ASSUME NEW h \in handles, Confirm(h) PROVE Goal
  BY <1>21 DEF Confirm
<1>22. ASSUME NEW m \in submitted, WaitForTransaction(m) PROVE Goal
  BY <1>22 DEF WaitForTransaction
<1>23. ASSUME LookupLanded PROVE Goal
  BY <1>23 DEF LookupLanded, Without
<1>24. ASSUME LookupFailed PROVE Goal
  BY <1>24 DEF LookupFailed, AppDrops, Dropped, Without, Done
<1>25. ASSUME LookupUnknown PROVE Goal
  BY <1>25 DEF LookupUnknown, Done
<1>26. ASSUME IndexerHasIt PROVE Goal
  BY <1>26 DEF IndexerHasIt, AppDrops, Dropped, Done
<1>27. ASSUME IndexerTimesOut PROVE Goal
  BY <1>27 DEF IndexerTimesOut, Done
<1>28. ASSUME Restart PROVE Goal
  BY <1>28 DEF Restart, Done
<1>29. ASSUME UNCHANGED vars PROVE Goal
  BY <1>29 DEF vars
<1> QED
  BY <1>1, <1>2, <1>3, <1>4, <1>5, <1>6, <1>7, <1>8, <1>9, <1>10, <1>11, <1>12, <1>13,
     <1>14, <1>15, <1>16, <1>17, <1>18, <1>19, <1>20, <1>21, <1>22, <1>23, <1>24,
     <1>25, <1>26, <1>27, <1>28, <1>29
     DEF Next, Chain, Prepare, Keep, Send, Settle

LEMMA CoveredInit == Init => Covered /\ Excluded /\ LiveDisjoint
BY DEF Init, Covered, Excluded, LiveDisjoint, Live, Held

\* A reservation that outlives the blockhash is still there when it is asked for.
LEMMA CoveredHeld ==
  ASSUME Types, Covered, unrestored = {}, NEW m \in Message, Live(m)
  PROVE  /\ NotesOf(m.pay) \subseteq HeldNotes(Retained(reserved))
         /\ NotesOf(m.pay) \subseteq HeldSpends(Retained(reserved))
<1>1. PICK r \in reserved : r.msg.pay = m.pay /\ r.until >= Lvbh(m)
  BY DEF Covered
<1>2. r.until >= height
  BY <1>1, UntilType DEF Live, Types, TypeOK, Heights
<1>3. r \in Retained(reserved)
  BY <1>1, <1>2 DEF Retained
<1> QED
  BY <1>1, <1>3 DEF HeldNotes, HeldSpends

\* Nothing that can still land loses its reservation but by its payment's end.
LEMMA CoveredKept ==
  ASSUME Types, Types', Covered, NEW ended,
         \A x \in Message : Live(x)' => Live(x) /\ x.pay \notin ended,
         \A r \in reserved : r \in reserved' \/ r.msg.pay \in ended \/ r.until < height',
         \A u \in unrestored : u \in unrestored' \/ u.pay \in ended
  PROVE  Covered'
<1> SUFFICES ASSUME NEW x \in Message, Live(x)'
             PROVE  \/ \E r \in reserved' : r.msg.pay = x.pay /\ r.until >= Lvbh(x)
                    \/ \E u \in unrestored' : u.pay = x.pay
  BY DEF Covered, Lvbh
<1>1. Live(x) /\ x.pay \notin ended
  OBVIOUS
<1>2. CASE \E u \in unrestored : u.pay = x.pay
  BY <1>1, <1>2
<1>3. CASE \E r \in reserved : r.msg.pay = x.pay /\ r.until >= Lvbh(x)
  <2> PICK r \in reserved : r.msg.pay = x.pay /\ r.until >= Lvbh(x)
    BY <1>3
  <2>1. height' \in Nat /\ height' <= Lvbh(x)
    BY DEF Live, Lvbh, Types, TypeOK, Heights
  <2>2. r.until \in Nat /\ Lvbh(x) \in Nat
    BY UntilType DEF Types, TypeOK
  <2>3. ~(r.until < height')
    BY <2>1, <2>2
  <2> QED
    BY <1>1, <2>3
<1> QED
  BY <1>1, <1>2, <1>3 DEF Covered

\* A message reserved for its whole life covers its payment.
LEMMA CoveredInsert ==
  ASSUME Types, Types', Ids, Covered, NEW m \in Message, NEW u \in Nat,
         \A x \in Message : Live(x)' /\ x.pay = m.pay => Lvbh(x) <= u,
         \A x \in Message : Live(x)' => Live(x) \/ x.pay = m.pay,
         [id |-> IdFor(m), msg |-> m, until |-> u] \in reserved',
         \A r \in Insert(reserved, IdFor(m), m, u) : r \in reserved' \/ r.msg.pay = m.pay,
         \A x \in unrestored : x \in unrestored' \/ x.pay = m.pay
  PROVE  Covered'
<1> SUFFICES ASSUME NEW x \in Message, Live(x)'
             PROVE  \/ \E r \in reserved' : r.msg.pay = x.pay /\ r.until >= Lvbh(x)
                    \/ \E v \in unrestored' : v.pay = x.pay
  BY DEF Covered, Lvbh
<1> DEFINE i == IdFor(m)
           rs == Insert(reserved, i, m, u)
           new == [id |-> i, msg |-> m, until |-> u]
<1>1. /\ new \in rs
      /\ \A r \in reserved : r \in rs \/ r.msg = m
  BY InsertFact
<1>2. CASE x.pay = m.pay
  <2>1. new \in reserved'
    BY <1>1
  <2>2. new.msg.pay = x.pay /\ new.until >= Lvbh(x)
    BY <1>2, UntilType
  <2> QED
    BY <2>1, <2>2
<1>3. CASE x.pay # m.pay
  <2>1. Live(x)
    BY <1>3
  <2>2. CASE \E v \in unrestored : v.pay = x.pay
    BY <1>3, <2>2
  <2>3. CASE \E r \in reserved : r.msg.pay = x.pay /\ r.until >= Lvbh(x)
    <3> PICK r \in reserved : r.msg.pay = x.pay /\ r.until >= Lvbh(x)
      BY <2>3
    <3>1. r \in rs
      BY <1>1, <1>3
    <3> QED
      BY <1>3, <3>1
  <2> QED
    BY <2>1, <2>2, <2>3 DEF Covered
<1> QED
  BY <1>2, <1>3

LEMMA CoveredNext ==
  ASSUME "again" \notin Sends, Types, Types', failed \cap landed = {}, Bookkeeping, Bookkeeping',
         Covered, [Next]_vars
  PROVE  Covered'
<1> USE DEF chain, wallet, op, app, history
<1>1. CASE PrepareFinishes
  <2> PICK p \in Fresh :
        /\ plan' = [plan EXCEPT ![p] = [kind |-> kind, notes |-> picked]]
        /\ reserved' = Insert(reserved, IdFor([pay |-> p, bh |-> height]),
                              [pay |-> p, bh |-> height], Until(kind, [pay |-> p, bh |-> height]))
        /\ handles' = handles \cup {[id |-> IdFor([pay |-> p, bh |-> height]),
                                     msg |-> [pay |-> p, bh |-> height]]}
    BY <1>1 DEF PrepareFinishes
  <2> DEFINE m == [pay |-> p, bh |-> height]
             u == Until(kind, m)
  <2>1. m \in Message /\ m.pay = p /\ m.bh = height /\ u \in Nat /\ Lvbh(m) <= u
    BY UntilType DEF Fresh, Message, Types, TypeOK
  <2>2. UNCHANGED <<chain, saved, submitted, unrestored>>
    BY <1>1 DEF PrepareFinishes
  <2>3. \A x \in Message : Live(x)' => Live(x) \/ x.pay = p
    BY <2>2 DEF Live, Held, Lvbh
  <2>4. \A x \in Message : Live(x)' /\ x.pay = p => x = m
    <3>1. \A x \in saved \cup submitted \cup network : x.pay # p
      BY DEF Fresh, Bookkeeping, Base, Planned
    <3>2. \A h \in handles : h.msg.pay # p
      BY DEF Fresh, Bookkeeping, Base, Planned
    <3> QED
      BY <2>2, <3>1, <3>2 DEF Live, Held
  <2>5. Ids /\ [id |-> IdFor(m), msg |-> m, until |-> u] \in reserved'
    BY <2>1, InsertFact DEF Bookkeeping, Base
  <2> HIDE DEF m, u
  <2>6. reserved' = Insert(reserved, IdFor(m), m, u)
    BY DEF m, u
  <2> QED
    BY <2>1, <2>2, <2>3, <2>4, <2>5, <2>6, CoveredInsert
<1>2. ASSUME NEW h \in handles, Refresh(h) PROVE Covered'
  <2> DEFINE m == [pay |-> h.msg.pay, bh |-> height]
             i == IdFor(m)
             u == Until(plan[m.pay].kind, m)
             rs == Insert(reserved, i, m, u)
  <2>1. m \in Message /\ m.pay = h.msg.pay /\ m.bh = height /\ u \in Nat /\ Lvbh(m) <= u
    BY UntilType DEF Message, Handle, Types, TypeOK
  <2>2. /\ pc = "idle" /\ \A x \in submitted : x.pay # m.pay
        /\ reserved' = IF i # h.id THEN {r \in rs : r.id # h.id} ELSE rs
        /\ handles' = {x \in handles : x.msg.pay # m.pay} \cup {[id |-> i, msg |-> m]}
        /\ UNCHANGED <<chain, saved, submitted, unrestored>>
    BY <1>2 DEF Refresh, Sent, Without
  <2>3. \A x \in Message : Live(x)' => Live(x) \/ x.pay = m.pay
    BY <2>2 DEF Live, Held, Lvbh
  <2>4. \A x \in Message : Live(x)' /\ x.pay = m.pay => x.bh <= height
    <3>1. \A x \in network : x.pay = m.pay => x \in landed \cup failed
      BY <2>2 DEF Bookkeeping, Base, Out
    <3> QED
      BY <2>1, <2>2, <3>1 DEF Live, Held, Bookkeeping, Base, Planned, Types, TypeOK, Heights
  <2>5. \A x \in Message : Live(x)' /\ x.pay = m.pay => Lvbh(x) <= u
    BY <2>1, <2>4, BoundsAssumption DEF Lvbh, Message, Heights
  <2>6. Ids /\ [id |-> i, msg |-> m, until |-> u] \in rs
    BY <2>1, InsertFact DEF Bookkeeping, Base
  <2>7. \A r \in rs : r.id = h.id => r.msg.pay = m.pay
    <3>1. \A r \in rs : r = [id |-> i, msg |-> m, until |-> u] \/ r \in reserved
      BY <2>1, <2>6, InsertFact
    <3> HIDE DEF rs
    <3> QED
      BY <2>1, <3>1 DEF Bookkeeping, Base, Ids
  <2> HIDE DEF m, u, i
  <2>8. [id |-> i, msg |-> m, until |-> u] \in reserved' /\ \A r \in rs : r \in reserved' \/ r.msg.pay = m.pay
    BY <2>2, <2>6, <2>7
  <2> QED
    BY <2>1, <2>2, <2>3, <2>5, <2>6, <2>8, CoveredInsert DEF i
<1>3. ASSUME NEW m \in saved, Restore(m) PROVE Covered'
  <2>1. /\ reserved' = Insert(reserved, IdFor(m), m, Forever)
        /\ unrestored' = unrestored \ {m}
    BY <1>3 DEF Restore
  <2>2. m \in Message /\ Forever \in Nat /\ Ids
    BY UntilType DEF Types, TypeOK, Bookkeeping, Base
  <2>3. \A x \in Message : Live(x)' => Live(x)
    BY <1>3 DEF Restore, Live, Held, Lvbh
  <2>4. \A x \in Message : Lvbh(x) <= Forever
    BY UntilType
  <2>5. [id |-> IdFor(m), msg |-> m, until |-> Forever] \in reserved'
    BY <2>1, <2>2, InsertFact
  <2> QED
    BY <2>1, <2>2, <2>3, <2>4, <2>5, CoveredInsert
<1>4. CASE Restart
  <2> SUFFICES ASSUME NEW x \in Message, Live(x)' PROVE \E u \in unrestored' : u.pay = x.pay
    BY DEF Covered, Lvbh
  <2>1. x \in saved \cup submitted
    BY <1>4 DEF Restart, Live, Held, Bookkeeping, Base, Out
  <2> QED
    BY <1>4, <2>1 DEF Restart
<1>5. ASSUME ~PrepareFinishes, \A h \in handles : ~Refresh(h), \A m \in saved : ~Restore(m), ~Restart
      PROVE  Covered'
  <2>1. \A x \in Message : Live(x)' => Live(x)
    BY <1>5, LiveNext
  <2>2. CASE reserved' \in {reserved, Retained(reserved)} /\ height' = height /\ unrestored' = unrestored
    <3>1. \A x \in Message : Live(x)' => Live(x) /\ x.pay \notin {}
      BY <2>1
    <3>2. \A r \in reserved : r \in reserved' \/ r.msg.pay \in {} \/ r.until < height'
      BY <2>2 DEF Retained, Types, TypeOK, Heights
    <3>3. \A v \in unrestored : v \in unrestored' \/ v.pay \in {}
      BY <2>2
    <3> QED
      BY <3>1, <3>2, <3>3, CoveredKept
  <2>3. CASE Tick
    BY <2>1, <2>3, CoveredKept DEF Tick
  <2>4. ASSUME NEW h \in handles, Release(h) PROVE Covered'
    <3>1. \A x \in Message : Live(x)' => Live(x) /\ x.pay \notin {h.msg.pay}
      BY <2>1, <2>4 DEF Release, AppDrops, Dropped, Sent, Live, Held, Bookkeeping, Base, Out
    <3>2. \A r \in reserved : r \in reserved' \/ r.msg.pay \in {h.msg.pay} \/ r.until < height'
      BY <2>4 DEF Release, Without, Bookkeeping, Base, Ids
    <3>3. \A v \in unrestored : v \in unrestored' \/ v.pay \in {h.msg.pay}
      BY <2>4 DEF Release, AppDrops, Dropped
    <3> QED
      BY <3>1, <3>2, <3>3, CoveredKept
  <2>5. CASE SendRefused \/ LookupLanded \/ LookupFailed \/ IndexerHasIt
    <3> DEFINE p == target.msg.pay
    <3>1. /\ target \in Handle /\ target.msg \in submitted
          /\ target \in handles \/ target.id = NoId
      BY <2>5 DEF SendRefused, LookupLanded, LookupFailed, IndexerHasIt, Bookkeeping, Base, Running, Following,
                  Types, Follows
    <3>2. target.msg \in landed \cup failed \/ target.msg \notin network
      BY <2>5 DEF SendRefused, LookupLanded, LookupFailed, IndexerHasIt, Bookkeeping, Base, Running, Following
    <3>3. UNCHANGED chain
      BY <2>5 DEF SendRefused, LookupLanded, LookupFailed, IndexerHasIt
    <3>4. \A x \in Message : x.pay = p /\ x # target.msg =>
            /\ x \notin saved /\ \A h \in handles : h.msg # x
            /\ x \in network => x \in landed \cup failed
      BY <3>1 DEF Bookkeeping, Base, OneMessage, Out
    <3>5. ASSUME NEW x \in Message, Live(x)' PROVE x.pay # p
      <4>1. x # target.msg
        BY <2>5, <3>2, <3>3, <3>5
           DEF SendRefused, LookupLanded, LookupFailed, IndexerHasIt, AppDrops, Dropped, Live, Held
      <4>2. x \in network => x \notin landed \cup failed
        BY <3>3, <3>5 DEF Live
      <4> QED
        BY <2>1, <3>4, <3>5, <4>1, <4>2 DEF Live, Held
    <3>6. \A r \in reserved : r \in reserved' \/ r.msg.pay \in {p} \/ r.until < height'
      BY <2>5, <3>1 DEF SendRefused, LookupLanded, LookupFailed, IndexerHasIt, Without,
                        Bookkeeping, Base, Ids, Types, TypeOK, NoId
    <3>7. \A v \in unrestored : v \in unrestored' \/ v.pay \in {p}
      BY <2>5 DEF SendRefused, LookupLanded, LookupFailed, IndexerHasIt, AppDrops, Dropped
    <3>8. \A x \in Message : Live(x)' => Live(x) /\ x.pay \notin {p}
      BY <2>1, <3>5
    <3> QED
      BY <3>6, <3>7, <3>8, CoveredKept
  <2> QED
    BY <1>5, <2>2, <2>3, <2>4, <2>5
       DEF Next, vars, Chain, Prepare, Keep, Send, Settle, Land, LandFailing, IndexerAdvances,
           ReadBalances, CountReserved, SpendReadsNotes, SpendSelects, MergeReadsHeld, MergeSelects,
           CachedSpendSelects, PrepareFails, Save, AppSends, Submit, SendGoesOut, SendFails,
           Confirm, WaitForTransaction, LookupUnknown, IndexerTimesOut, Done
<1> QED
  BY <1>1, <1>2, <1>3, <1>4, <1>5

LEMMA ExcludedNext ==
  ASSUME Types, Types', Bookkeeping, Bookkeeping', Covered, Excluded, [Next]_vars
  PROVE  Excluded'
<1> USE DEF chain, wallet, op, app, history
<1>1. CASE pc' \notin {"held_read", "selected"}
  BY <1>1 DEF Excluded
<1>2. CASE pc' \in {"held_read", "selected"}
  <2>1. ~PrepareFinishes /\ \A h \in handles : ~Refresh(h)
    BY <1>2 DEF PrepareFinishes, Refresh
  <2>2. plan' = plan /\ \A x \in Message : Live(x)' => Live(x)
    BY <2>1, LiveNext
  <2>3. ASSUME pc' = pc, picked' = picked PROVE Excluded'
    BY <2>2, <2>3 DEF Excluded, NotesOf
  <2>4. CASE SpendSelects
    <3>1. \A x \in Message : Live(x) => NotesOf(x.pay) \subseteq HeldNotes(Retained(reserved))
      BY <2>4, CoveredHeld DEF SpendSelects, Bookkeeping, Base, Running, Following
    <3>2. pc' = "selected" /\ picked' \cap HeldNotes(Retained(reserved))' = {}
      BY <2>4 DEF SpendSelects, HeldNotes, NotesOf, CachedOutput, Retained
    <3>3. HeldNotes(Retained(reserved))' = HeldNotes(Retained(reserved))
      BY <2>4 DEF SpendSelects, Retained, HeldNotes, NotesOf, CachedOutput
    <3> QED
      BY <2>2, <3>1, <3>2, <3>3 DEF Excluded, NotesOf
  <2>5. CASE CachedSpendSelects
    <3>1. \A x \in Message : Live(x) => NotesOf(x.pay) \subseteq HeldSpends(Retained(reserved))
      BY <2>5, CoveredHeld DEF CachedSpendSelects, MayPrepare
    <3>2. pc' = "selected" /\ picked' \cap HeldSpends(Retained(reserved)) = {}
      BY <2>5 DEF CachedSpendSelects, HeldSpends, NotesOf
    <3> QED
      BY <2>2, <3>1, <3>2 DEF Excluded, NotesOf
  <2>6. CASE MergeReadsHeld
    <3>1. \A x \in Message : Live(x) => NotesOf(x.pay) \subseteq HeldNotes(Retained(reserved))
      BY <2>6, CoveredHeld DEF MergeReadsHeld, MayPrepare
    <3>2. pc' = "held_read" /\ picked' = HeldNotes(Retained(reserved))
      BY <2>6 DEF MergeReadsHeld, HeldNotes, NotesOf, CachedOutput
    <3> QED
      BY <2>2, <3>1, <3>2 DEF Excluded, NotesOf
  <2>7. CASE MergeSelects
    <3>1. pc = "held_read" /\ pc' = "selected" /\ picked' \cap picked = {}
      BY <2>7 DEF MergeSelects
    <3> QED
      BY <2>2, <3>1 DEF Excluded, NotesOf
  <2> QED
    BY <1>2, <2>1, <2>3, <2>4, <2>5, <2>6, <2>7
       DEF Next, vars, Chain, Prepare, Keep, Send, Settle, Tick, Land, LandFailing, IndexerAdvances,
           ReadBalances, CountReserved, SpendReadsNotes, PrepareFails, Save, Restore, Release,
           AppSends, Submit, SendGoesOut, SendFails, SendRefused, Confirm, WaitForTransaction,
           LookupLanded, LookupFailed, LookupUnknown, IndexerHasIt, IndexerTimesOut, Restart, Done
<1> QED
  BY <1>1, <1>2

LEMMA DisjointNext ==
  ASSUME Types, Types', Bookkeeping, Bookkeeping', Excluded, LiveDisjoint, [Next]_vars
  PROVE  LiveDisjoint'
<1> USE DEF chain, wallet, op, app, history
<1>1. CASE PrepareFinishes
  <2> PICK p \in Fresh :
        /\ plan' = [plan EXCEPT ![p] = [kind |-> kind, notes |-> picked]]
        /\ handles' = handles \cup {[id |-> IdFor([pay |-> p, bh |-> height]),
                                     msg |-> [pay |-> p, bh |-> height]]}
    BY <1>1 DEF PrepareFinishes
  <2>1. pc = "selected" /\ UNCHANGED <<chain, saved, late>>
    BY <1>1 DEF PrepareFinishes
  <2>2. \A x \in Message : Live(x)' => Live(x) \/ x.pay = p
    BY <2>1 DEF Live, Held, Lvbh
  <2>3. \A x \in Message : Live(x) => NotesOf(x.pay) \cap picked = {}
    BY <2>1 DEF Excluded
  <2>4. \A q \in Payments : q # p => NotesOf(q)' = NotesOf(q)
    BY DEF NotesOf, Types, TypeOK
  <2>5. NotesOf(p)' = picked
    BY DEF NotesOf, Fresh, Types, TypeOK
  <2>6. \A x \in Message : x.pay \in Payments
    BY DEF Message
  <2> SUFFICES ASSUME NEW x \in Message, NEW y \in Message, Live(x)', Live(y)', x.pay # y.pay,
                      x.pay \notin late', y.pay \notin late'
               PROVE  NotesOf(x.pay)' \cap NotesOf(y.pay)' = {}
    BY DEF LiveDisjoint, NotesOf
  <2>7. CASE x.pay = p
    BY <2>2, <2>3, <2>4, <2>5, <2>6, <2>7
  <2>8. CASE y.pay = p
    BY <2>2, <2>3, <2>4, <2>5, <2>6, <2>8
  <2>9. CASE x.pay # p /\ y.pay # p
    BY <2>1, <2>2, <2>4, <2>6, <2>9 DEF LiveDisjoint
  <2> QED
    BY <2>7, <2>8, <2>9
<1>2. ASSUME NEW h \in handles, Refresh(h) PROVE LiveDisjoint'
  <2> DEFINE p == h.msg.pay
  <2>1. /\ plan' = plan /\ late \subseteq late' /\ UNCHANGED <<chain, saved>>
        /\ \A g \in handles' : g \in handles \/ g.msg.pay = p
        /\ height > Lvbh(h.msg) => p \in late'
    BY <1>2 DEF Refresh
  <2>2. \A x \in Message : Live(x)' => Live(x) \/ x.pay = p
    BY <2>1 DEF Live, Held, Lvbh
  <2>3. h.msg \in Message /\ h.msg \notin landed \cup failed
    BY <1>2 DEF Refresh, Sent, Types, TypeOK, Handle, Bookkeeping, Base, Out, Gone
  <2>4. p \notin late' => Live(h.msg)
    BY <2>1, <2>3, UntilType DEF Live, Held, Types, TypeOK, Heights
  <2>5. \A x \in Message : Live(x)' /\ x.pay \notin late' =>
          \E y \in Message : Live(y) /\ y.pay = x.pay /\ y.pay \notin late
    BY <2>1, <2>2, <2>3, <2>4
  <2> QED
    BY <2>1, <2>5 DEF LiveDisjoint, NotesOf
<1>3. ASSUME ~PrepareFinishes, \A h \in handles : ~Refresh(h) PROVE LiveDisjoint'
  BY <1>3, LiveNext DEF LiveDisjoint, NotesOf
<1> QED
  BY <1>1, <1>2, <1>3

-----------------------------------------------------------------------------
(* Notes known to be spent. *)

\* Notes read from an indexer that has all that landed are unspent.
LEMMA ReadUnspent ==
  ASSUME NEW m \in landed, CaughtUp
  PROVE  NotesAfter(indexed) \cap NotesOf(m.pay) = {}
BY DEF CaughtUp, NotesAfter, SpentBy

LEMMA ReadSkipsKnown ==
  ASSUME KnownUnread, CaughtUp, NEW p \in known
  PROVE  NotesAfter(indexed) \cap NotesOf(p) = {}
BY ReadUnspent DEF KnownUnread

\* What a preparation gets to read, reused or new, and what it keeps of it.
LEMMA RecentSkipsKnown ==
  ASSUME KnownUnread, NEW ns, RecentNotes(ns)
  PROVE  /\ \A p \in known : ns \cap NotesOf(p) = {}
         /\ \A p \in known, rs \in recent' : rs \cap NotesOf(p) = {}
<1>1. CASE ns \in recent /\ recent' = recent
  BY <1>1 DEF KnownUnread
<1>2. CASE CaughtUp /\ ns = NotesAfter(indexed) /\ recent' = IF ReuseNotes THEN {ns} ELSE recent
  BY <1>2, ReadSkipsKnown DEF KnownUnread
<1> QED
  BY <1>1, <1>2 DEF RecentNotes

\* The notes a landed payment spent never change.
LEMMA LandedPlanKept ==
  ASSUME Types, Base, KnownUnread, [Next]_vars
  PROVE  /\ \A m \in landed : NotesOf(m.pay)' = NotesOf(m.pay)
         /\ \A p \in known : NotesOf(p)' = NotesOf(p)
<1>1. plan' = plan \/ \E p \in Fresh : \E e : plan' = [plan EXCEPT ![p] = e]
  BY DEF Next, vars, chain, wallet, op, app, history, Chain, Prepare, Keep, Send, Settle,
         Tick, Land, LandFailing, IndexerAdvances, ReadBalances, CountReserved,
         SpendReadsNotes, SpendSelects, MergeReadsHeld, MergeSelects, CachedSpendSelects,
         PrepareFails, PrepareFinishes, Refresh, Save, Restore, Release, AppSends, Submit,
         SendGoesOut, SendFails, SendRefused, Confirm, WaitForTransaction, LookupLanded,
         LookupFailed, LookupUnknown, IndexerHasIt, IndexerTimesOut, Restart
<1>2. \A p \in Payments : plan[p].kind # "none" => plan'[p] = plan[p]
  BY <1>1 DEF Fresh, Types, TypeOK
<1>3. \A m \in landed : m.pay \in Payments /\ plan[m.pay].kind # "none"
  BY DEF Types, TypeOK, Message, Base, Planned
<1>4. \A m \in landed : NotesOf(m.pay)' = NotesOf(m.pay)
  BY <1>2, <1>3 DEF NotesOf
<1> QED
  BY <1>4 DEF KnownUnread

LEMMA KnownUnreadNext ==
  ASSUME Types, Types', Base, KnownUnread, [Next]_vars
  PROVE  KnownUnread'
<1> USE DEF chain, wallet, op, app, history
<1>1. /\ \A m \in landed : NotesOf(m.pay)' = NotesOf(m.pay)
      /\ \A p \in known : NotesOf(p)' = NotesOf(p)
  BY LandedPlanKept
<1>2. ASSUME ReadBalances PROVE KnownUnread'
  <2>1. /\ UNCHANGED <<landed, indexed, known>> /\ pc' = "balances_read" /\ CaughtUp
        /\ recent' = IF ReuseNotes THEN {NotesAfter(indexed)} ELSE recent
    BY <1>2 DEF ReadBalances
  <2> QED
    BY <1>1, <2>1, ReadSkipsKnown DEF KnownUnread, Follows
<1>3. ASSUME SpendReadsNotes PROVE KnownUnread'
  <2>1. /\ UNCHANGED <<landed, indexed, known>> /\ pc' = "notes_read" /\ RecentNotes(picked')
    BY <1>3 DEF SpendReadsNotes
  <2> QED
    BY <1>1, <2>1, RecentSkipsKnown DEF KnownUnread, Follows
<1>4. ASSUME SpendSelects PROVE KnownUnread'
  <2>1. /\ UNCHANGED <<landed, indexed, known, recent>> /\ pc' = "selected"
        /\ pc = "notes_read" /\ picked' \subseteq picked
    BY <1>4 DEF SpendSelects
  <2> QED
    BY <1>1, <2>1 DEF KnownUnread, Follows
<1>5. ASSUME MergeSelects PROVE KnownUnread'
  <2> PICK ns : RecentNotes(ns) /\ picked' \subseteq ns
    BY <1>5 DEF MergeSelects
  <2>1. UNCHANGED <<landed, indexed, known>> /\ pc' = "selected"
    BY <1>5 DEF MergeSelects
  <2> QED
    BY <1>1, <2>1, RecentSkipsKnown DEF KnownUnread, Follows
<1>6. ASSUME CachedSpendSelects PROVE KnownUnread'
  <2>1. /\ UNCHANGED <<landed, indexed, known, recent>> /\ pc' = "selected" /\ kind' = "cached_spend"
    BY <1>6 DEF CachedSpendSelects
  <2> QED
    BY <1>1, <2>1 DEF KnownUnread, Follows
<1>7. ASSUME LookupLanded PROVE KnownUnread'
  <2>1. /\ UNCHANGED <<landed, indexed, recent>> /\ pc = "lookup" /\ pc' = "indexing"
        /\ known' = known \cup {target.msg.pay} /\ target.msg \in landed
    BY <1>7 DEF LookupLanded
  <2> QED
    BY <1>1, <2>1 DEF KnownUnread, Follows
<1>8. ASSUME \/ Submit(target') \/ Confirm(target') \/ (\E m \in submitted : WaitForTransaction(m))
             \/ Restart
      PROVE  KnownUnread'
  <2>1. recent' = {} /\ UNCHANGED <<landed, indexed, known>> /\ pc' \notin {"notes_read", "selected"}
    BY <1>8 DEF Submit, Confirm, WaitForTransaction, Restart, Done
  <2> QED
    BY <1>1, <2>1 DEF KnownUnread
<1>9. CASE /\ recent' = recent /\ known' = known
           /\ landed \subseteq landed' /\ indexed' \subseteq indexed \cup landed
           /\ pc' \in Follows => pc \in Follows
           /\ pc' \in {"notes_read", "selected"} => UNCHANGED <<pc, kind, picked>>
  BY <1>1, <1>9 DEF KnownUnread
<1> QED
  BY <1>2, <1>3, <1>4, <1>5, <1>6, <1>7, <1>8, <1>9
     DEF Next, vars, Chain, Prepare, Keep, Send, Settle,
         Tick, Land, LandFailing, IndexerAdvances, CountReserved, MergeReadsHeld,
         PrepareFails, PrepareFinishes, Refresh, Save, Restore, Release, AppSends, Submit,
         SendGoesOut, SendFails, SendRefused, Confirm,
         LookupFailed, LookupUnknown, IndexerHasIt, IndexerTimesOut, Done, Follows

-----------------------------------------------------------------------------
(* The reservations of a run's payments. *)

LEMMA CachedHeldNext ==
  ASSUME Types, Types', Base, CachedHeldUntilSettled, [Next]_vars
  PROVE  CachedHeldUntilSettled'
<1> USE DEF chain, wallet, op, app, history
<1> DEFINE Kept == \A r \in reserved : r.until = Forever => r \in reserved'
           NoneNew == handles' \subseteq handles /\ plan' = plan /\ known \subseteq known'
<1>1. ASSUME Kept, NoneNew PROVE CachedHeldUntilSettled'
  BY <1>1 DEF CachedHeldUntilSettled
<1>2. ASSUME NEW p \in Payments, NoneNew,
             \A h \in handles' : h.msg.pay # p \/ p \in known',
             \A r \in reserved : r \in reserved' \/ r.msg.pay = p
      PROVE  CachedHeldUntilSettled'
  BY <1>2 DEF CachedHeldUntilSettled
<1>3. ASSUME NEW m \in Message, NEW u \in Nat,
             [id |-> IdFor(m), msg |-> m, until |-> u] \in reserved',
             plan'[m.pay].kind \in Cached => u = Forever,
             \A r \in Insert(reserved, IdFor(m), m, u) : r \in reserved' \/ r.msg.pay = m.pay,
             \A h \in handles' : h \in handles \/ h.msg.pay = m.pay,
             \A h \in handles : h.msg.pay # m.pay => plan'[h.msg.pay] = plan[h.msg.pay],
             known' = known
      PROVE  CachedHeldUntilSettled'
  <2>1. \A r \in reserved : r \in reserved' \/ r.msg.pay = m.pay
    BY <1>3, InsertFact DEF Base
  <2> SUFFICES ASSUME NEW h \in handles', plan'[h.msg.pay].kind \in Cached, h.msg.pay \notin known'
               PROVE  \E r \in reserved' : r.msg.pay = h.msg.pay /\ r.until = Forever
    BY DEF CachedHeldUntilSettled, Forever
  <2>2. CASE h.msg.pay = m.pay
    <3> DEFINE new == [id |-> IdFor(m), msg |-> m, until |-> u]
    <3>1. new.msg.pay = h.msg.pay /\ new.until = Forever
      BY <1>3, <2>2
    <3> QED
      BY <1>3, <3>1
  <2>3. CASE h.msg.pay # m.pay
    BY <1>3, <2>1, <2>3 DEF CachedHeldUntilSettled
  <2> QED
    BY <2>2, <2>3
<1>4. ASSUME PrepareFinishes PROVE CachedHeldUntilSettled'
  <2> PICK p \in Fresh :
        /\ plan' = [plan EXCEPT ![p] = [kind |-> kind, notes |-> picked]]
        /\ reserved' = Insert(reserved, IdFor([pay |-> p, bh |-> height]),
                              [pay |-> p, bh |-> height], Until(kind, [pay |-> p, bh |-> height]))
        /\ handles' = handles \cup {[id |-> IdFor([pay |-> p, bh |-> height]),
                                     msg |-> [pay |-> p, bh |-> height]]}
    BY <1>4 DEF PrepareFinishes
  <2> DEFINE m == [pay |-> p, bh |-> height]
             u == Until(kind, m)
  <2>1. m \in Message /\ m.pay = p /\ u \in Nat /\ known' = known
    BY <1>4, UntilType DEF PrepareFinishes, Fresh, Message, Types, TypeOK
  <2>2. plan'[p].kind = kind /\ \A q \in Payments : q # p => plan'[q] = plan[q]
    BY DEF Fresh, Types, TypeOK
  <2>3. kind \in Cached => u = Forever
    BY DEF Until
  <2>4. [id |-> IdFor(m), msg |-> m, until |-> u] \in reserved'
    BY <2>1, InsertFact DEF Base
  <2>5. \A h \in handles : h.msg.pay \in Payments
    BY DEF Types, TypeOK, Handle, Message
  <2>6. reserved' = Insert(reserved, IdFor(m), m, u) /\ \A h \in handles' : h \in handles \/ h.msg.pay = m.pay
    BY <2>1
  <2> HIDE DEF m, u
  <2>7. \A h \in handles : h.msg.pay # m.pay => plan'[h.msg.pay] = plan[h.msg.pay]
    BY <2>1, <2>2, <2>5
  <2>8. plan'[m.pay].kind \in Cached => u = Forever
    BY <2>1, <2>2, <2>3
  <2>9. \A r \in Insert(reserved, IdFor(m), m, u) : r \in reserved'
    BY <2>6
  <2> QED
    BY ONLY <1>3, <2>1, <2>4, <2>6, <2>7, <2>8, <2>9
<1>5. ASSUME NEW h \in handles, Refresh(h) PROVE CachedHeldUntilSettled'
  <2> DEFINE m == [pay |-> h.msg.pay, bh |-> height]
             i == IdFor(m)
             u == Until(plan[m.pay].kind, m)
             rs == Insert(reserved, i, m, u)
  <2>1. m \in Message /\ m.pay = h.msg.pay /\ u \in Nat
    BY UntilType DEF Message, Handle, Types, TypeOK
  <2>2. /\ reserved' = IF i # h.id THEN {r \in rs : r.id # h.id} ELSE rs
        /\ handles' = {x \in handles : x.msg.pay # m.pay} \cup {[id |-> i, msg |-> m]}
        /\ plan' = plan /\ known' = known
    BY <1>5 DEF Refresh, Without
  <2>3. plan[m.pay].kind \in Cached => u = Forever
    BY DEF Until
  <2>4. /\ [id |-> i, msg |-> m, until |-> u] \in rs
        /\ \A r \in rs : r = [id |-> i, msg |-> m, until |-> u] \/ r \in reserved
    BY <2>1, InsertFact DEF Base
  <2> HIDE DEF m, u, i, rs
  <2>5. \A r \in rs : r.id = h.id => r.msg.pay = m.pay
    BY <2>1, <2>4 DEF Base, Ids
  <2>6. /\ [id |-> i, msg |-> m, until |-> u] \in reserved'
        /\ \A r \in rs : r \in reserved' \/ r.msg.pay = m.pay
    BY <2>2, <2>4, <2>5
  <2>7. \A x \in handles' : x \in handles \/ x.msg.pay = m.pay
    BY <2>2
  <2> QED
    BY <1>3, <2>1, <2>2, <2>3, <2>6, <2>7 DEF i, rs
<1>6. ASSUME NEW m \in saved, Restore(m) PROVE CachedHeldUntilSettled'
  <2>1. /\ reserved' = Insert(reserved, IdFor(m), m, Forever)
        /\ handles' = handles \cup {[id |-> IdFor(m), msg |-> m]}
        /\ plan' = plan /\ known' = known
    BY <1>6 DEF Restore
  <2>2. m \in Message /\ Forever \in Nat
    BY UntilType DEF Types, TypeOK
  <2>3. [id |-> IdFor(m), msg |-> m, until |-> Forever] \in reserved'
    BY <2>1, <2>2, InsertFact DEF Base
  <2>4. \A h \in handles' : h \in handles \/ h.msg.pay = m.pay
    BY <2>1
  <2> HIDE DEF Forever
  <2> QED
    BY <1>3, <2>1, <2>2, <2>3, <2>4
<1>7. ASSUME NEW h \in handles, Release(h) PROVE CachedHeldUntilSettled'
  <2>1. h.msg.pay \in Payments
    BY DEF Types, TypeOK, Handle, Message
  <2>2. \A r \in reserved : r \in reserved' \/ r.msg.pay = h.msg.pay
    BY <1>7 DEF Release, Without, Base, Ids
  <2>3. NoneNew /\ \A x \in handles' : x.msg.pay # h.msg.pay
    BY <1>7 DEF Release, AppDrops
  <2> QED
    BY <1>2, <2>1, <2>2, <2>3
<1>8. CASE SendRefused \/ LookupLanded \/ LookupFailed
  <2> DEFINE p == target.msg.pay
  <2>1. target \in Handle /\ (target \in handles \/ target.id = NoId)
    BY <1>8 DEF SendRefused, LookupLanded, LookupFailed, Types, Base, Following, Follows
  <2>2. p \in Payments
    BY <2>1 DEF Handle, Message
  <2>3. \A r \in reserved : r \in reserved' \/ r.msg.pay = p
    BY <1>8, <2>1 DEF SendRefused, LookupLanded, LookupFailed, Without, Base, Ids, Types, TypeOK, NoId
  <2>4. NoneNew /\ \A x \in handles' : x.msg.pay # p \/ p \in known'
    BY <1>8 DEF SendRefused, LookupLanded, LookupFailed, AppDrops
  <2> HIDE DEF p
  <2> QED
    BY <1>2, <2>2, <2>3, <2>4
<1>9. CASE Restart
  BY <1>9 DEF Restart, CachedHeldUntilSettled
<1>10. CASE reserved' \in {reserved, Retained(reserved)} /\ NoneNew
  <2>1. Forever >= height
    BY BoundsAssumption DEF Forever, Types, TypeOK, Heights
  <2>2. Kept
    BY <1>10, <2>1 DEF Retained
  <2> QED
    BY <1>1, <1>10, <2>2
<1> QED
  BY <1>4, <1>5, <1>6, <1>7, <1>8, <1>9, <1>10
     DEF Next, vars, Chain, Prepare, Keep, Send, Settle, Tick, Land, LandFailing, IndexerAdvances,
         ReadBalances, CountReserved, SpendReadsNotes, SpendSelects, MergeReadsHeld, MergeSelects,
         CachedSpendSelects, PrepareFails, Save, AppSends, Submit, SendGoesOut, SendFails,
         Confirm, WaitForTransaction, LookupUnknown, IndexerHasIt, IndexerTimesOut, AppDrops

-----------------------------------------------------------------------------
(* One reservation for each message. *)

LEMMA HeldOnceNext ==
  ASSUME Types, Types', Base, HeldOnce, [Next]_vars
  PROVE  HeldOnce'
<1> USE DEF chain, wallet, op, app, history
<1> DEFINE FewerHandles == handles' \subseteq handles /\ known \subseteq known' /\ height <= height'
<1>h. height \in Nat /\ height' \in Nat /\ \A h \in handles \cup handles' : Lvbh(h.msg) \in Nat
  <2>1. height \in Nat /\ height' \in Nat
    BY BoundsAssumption DEF Types, TypeOK, Heights
  <2>2. handles \subseteq Handle /\ handles' \subseteq Handle
    BY DEF Types, TypeOK
  <2>3. \A m \in Message : Lvbh(m) \in Nat
    BY UntilType
  <2>4. \A h \in handles \cup handles' : h.msg \in Message
    BY <2>2 DEF Handle
  <2> QED
    BY <2>1, <2>3, <2>4
<1>r. \A r \in reserved : r.until \in Nat /\ r.id \in Nat
  BY DEF Types, TypeOK
<1>1. ASSUME FewerHandles, reserved' \subseteq reserved,
             \A h \in handles', r \in reserved :
               /\ r.id = h.id /\ r.msg = h.msg /\ r.until >= Lvbh(h.msg)
               /\ height' <= Lvbh(h.msg) /\ h.msg.pay \notin known'
               => r \in reserved'
      PROVE  HeldOnce'
  <2>1. \A r, x \in reserved' : r.msg = x.msg => r = x
    BY <1>1 DEF HeldOnce
  <2>2. ASSUME NEW h \in handles', height' <= Lvbh(h.msg), h.msg.pay \notin known'
        PROVE  \E r \in reserved' : r.id = h.id /\ r.msg = h.msg /\ r.until >= Lvbh(h.msg)
    <3>1. h \in handles /\ h.msg.pay \notin known /\ height <= Lvbh(h.msg)
      BY <1>1, <1>h, <2>2
    <3>2. PICK r \in reserved : r.id = h.id /\ r.msg = h.msg /\ r.until >= Lvbh(h.msg)
      BY <3>1 DEF HeldOnce
    <3>3. r \in reserved'
      BY <1>1, <2>2, <3>2
    <3> QED
      BY <3>2, <3>3
  <2> QED
    BY <2>1, <2>2 DEF HeldOnce, Lvbh
<1>2. ASSUME NEW p, FewerHandles, reserved' \subseteq reserved,
             \A h \in handles' : h.msg.pay # p \/ p \in known',
             \A r \in reserved : r \in reserved' \/ r.msg.pay = p
      PROVE  HeldOnce'
  BY <1>1, <1>2
<1>3. ASSUME NEW m \in Message, NEW u \in Nat, u >= Lvbh(m),
             [id |-> IdFor(m), msg |-> m, until |-> u] \in reserved',
             reserved' \subseteq Insert(reserved, IdFor(m), m, u),
             \A r \in Insert(reserved, IdFor(m), m, u) : r \in reserved' \/ r.msg.pay = m.pay,
             \A h \in handles' : \/ h = [id |-> IdFor(m), msg |-> m]
                                 \/ h \in handles /\ (h.msg.pay # m.pay \/ h.msg = m),
             known' = known, height' = height
      PROVE  HeldOnce'
  <2> DEFINE i == IdFor(m)
             new == [id |-> i, msg |-> m, until |-> u]
  <2>1. \A r \in reserved : r.msg = m => r.id = i
    <3> SUFFICES ASSUME NEW r \in reserved, r.msg = m PROVE r.id = i
      OBVIOUS
    <3>1. /\ (CHOOSE x \in reserved : x.msg = m) \in reserved
          /\ (CHOOSE x \in reserved : x.msg = m).msg = m
      OBVIOUS
    <3>2. r = CHOOSE x \in reserved : x.msg = m
      BY <3>1 DEF HeldOnce
    <3> QED
      BY <3>2 DEF IdFor
  <2>2. /\ \A r \in reserved' : r = new \/ (r \in reserved /\ r.id # i)
        /\ \A r \in reserved : r \in reserved' \/ r.msg.pay = m.pay
    BY <1>3, InsertFact DEF Base
  <2>3. new \in reserved' /\ new.id = i /\ new.msg = m /\ new.until = u
    BY <1>3
  <2> HIDE DEF i, new
  <2>4. \A r, x \in reserved' : r.msg = x.msg => r = x
    BY <2>1, <2>2, <2>3 DEF HeldOnce
  <2>5. ASSUME NEW h \in handles', height' <= Lvbh(h.msg), h.msg.pay \notin known'
        PROVE  \E r \in reserved' : r.id = h.id /\ r.msg = h.msg /\ r.until >= Lvbh(h.msg)
    <3>1. CASE h = [id |-> i, msg |-> m]
      BY <1>3, <2>3, <3>1
    <3>2. CASE h \in handles /\ h.msg.pay # m.pay
      BY <1>3, <2>2, <2>5, <3>2 DEF HeldOnce
    <3>3. CASE h \in handles /\ h.msg = m
      <4>1. PICK r \in reserved : r.id = h.id /\ r.msg = m
        BY <1>3, <2>5, <3>3 DEF HeldOnce
      <4>2. h.id = i
        BY <2>1, <4>1
      <4> QED
        BY <1>3, <2>3, <3>3, <4>2
    <3> QED
      BY <1>3, <3>1, <3>2, <3>3 DEF i
  <2> QED
    BY <2>4, <2>5 DEF HeldOnce, Lvbh
<1>4. ASSUME PrepareFinishes PROVE HeldOnce'
  <2> PICK p \in Fresh :
        /\ reserved' = Insert(reserved, IdFor([pay |-> p, bh |-> height]),
                              [pay |-> p, bh |-> height], Until(kind, [pay |-> p, bh |-> height]))
        /\ handles' = handles \cup {[id |-> IdFor([pay |-> p, bh |-> height]),
                                     msg |-> [pay |-> p, bh |-> height]]}
    BY <1>4 DEF PrepareFinishes
  <2> DEFINE m == [pay |-> p, bh |-> height]
             u == Until(kind, m)
  <2>1. m \in Message /\ m.pay = p
    BY DEF Fresh, Message, Types, TypeOK
  <2>2. u \in Nat /\ u >= Lvbh(m) /\ known' = known /\ height' = height
    BY <1>4, <2>1, UntilType DEF PrepareFinishes
  <2>3. [id |-> IdFor(m), msg |-> m, until |-> u] \in reserved'
    BY <2>1, <2>2, InsertFact DEF Base
  <2>4. \A h \in handles : h.msg.pay # m.pay
    BY <2>1 DEF Base, Planned, Fresh
  <2>5. /\ reserved' = Insert(reserved, IdFor(m), m, u)
        /\ \A h \in handles' : h \in handles \/ h = [id |-> IdFor(m), msg |-> m]
    OBVIOUS
  <2> HIDE DEF m, u
  <2> QED
    BY <1>3, <2>1, <2>2, <2>3, <2>4, <2>5
<1>5. ASSUME NEW h \in handles, Refresh(h) PROVE HeldOnce'
  <2> DEFINE m == [pay |-> h.msg.pay, bh |-> height]
             i == IdFor(m)
             u == Until(plan[m.pay].kind, m)
             rs == Insert(reserved, i, m, u)
  <2>1. m \in Message /\ m.pay = h.msg.pay
    BY DEF Message, Handle, Types, TypeOK
  <2>2. u \in Nat /\ u >= Lvbh(m)
    BY <2>1, UntilType
  <2>3. /\ reserved' = IF i # h.id THEN {r \in rs : r.id # h.id} ELSE rs
        /\ handles' = {x \in handles : x.msg.pay # m.pay} \cup {[id |-> i, msg |-> m]}
        /\ known' = known /\ height' = height
    BY <1>5 DEF Refresh, Without
  <2>4. /\ [id |-> i, msg |-> m, until |-> u] \in rs
        /\ \A r \in rs : r = [id |-> i, msg |-> m, until |-> u] \/ r \in reserved
    BY <2>1, <2>2, InsertFact DEF Base
  <2> HIDE DEF m, u, i, rs
  <2>5. \A r \in rs : r.id = h.id => r.msg.pay = m.pay
    BY <2>1, <2>4 DEF Base, Ids
  <2>6. /\ [id |-> i, msg |-> m, until |-> u] \in reserved' /\ reserved' \subseteq rs
        /\ \A r \in rs : r \in reserved' \/ r.msg.pay = m.pay
    BY <2>3, <2>4, <2>5
  <2>7. \A x \in handles' : x = [id |-> i, msg |-> m] \/ (x \in handles /\ x.msg.pay # m.pay)
    BY <2>3
  <2> QED
    BY <1>3, <2>1, <2>2, <2>3, <2>6, <2>7 DEF i, rs
<1>6. ASSUME NEW m \in saved, Restore(m) PROVE HeldOnce'
  <2>1. /\ reserved' = Insert(reserved, IdFor(m), m, Forever)
        /\ handles' = handles \cup {[id |-> IdFor(m), msg |-> m]}
        /\ known' = known /\ height' = height
        /\ \A h \in handles : h.msg.pay = m.pay => h.msg = m
    BY <1>6 DEF Restore
  <2>2. m \in Message
    BY DEF Types, TypeOK
  <2>3. Forever \in Nat /\ Forever >= Lvbh(m)
    BY <2>2, UntilType
  <2>4. [id |-> IdFor(m), msg |-> m, until |-> Forever] \in reserved'
    BY <2>1, <2>2, <2>3, InsertFact DEF Base
  <2> HIDE DEF Forever
  <2> QED
    BY <1>3, <2>1, <2>2, <2>3, <2>4
<1>7. ASSUME NEW h \in handles, Release(h) PROVE HeldOnce'
  <2>1. reserved' \subseteq reserved /\ \A r \in reserved : r \in reserved' \/ r.msg.pay = h.msg.pay
    BY <1>7 DEF Release, Without, Base, Ids
  <2>2. FewerHandles /\ \A x \in handles' : x.msg.pay # h.msg.pay
    BY <1>7, <1>h DEF Release, AppDrops
  <2> QED
    BY <1>2, <2>1, <2>2
<1>8. CASE SendRefused \/ LookupLanded \/ LookupFailed
  <2> DEFINE p == target.msg.pay
  <2>1. target \in Handle /\ (target \in handles \/ target.id = NoId)
    BY <1>8 DEF SendRefused, LookupLanded, LookupFailed, Types, Base, Following, Follows
  <2>2. reserved' \subseteq reserved /\ \A r \in reserved : r \in reserved' \/ r.msg.pay = p
    BY <1>8, <2>1 DEF SendRefused, LookupLanded, LookupFailed, Without, Base, Ids, Types, TypeOK, NoId
  <2>3. FewerHandles /\ \A x \in handles' : x.msg.pay # p \/ p \in known'
    BY <1>8, <1>h DEF SendRefused, LookupLanded, LookupFailed, AppDrops
  <2> HIDE DEF p
  <2> QED
    BY <1>2, <2>2, <2>3
<1>9. CASE Restart
  BY <1>9 DEF Restart, HeldOnce
<1>10. CASE reserved' \in {reserved, Retained(reserved)} /\ FewerHandles /\ height' = height
  <2>1. \A r \in reserved, h \in handles :
          r.until >= Lvbh(h.msg) /\ height <= Lvbh(h.msg) => r.until >= height
    BY <1>h, <1>r
  <2>2. reserved' \subseteq reserved /\ \A r \in reserved : r.until >= height => r \in reserved'
    BY <1>10 DEF Retained
  <2> QED
    BY <1>1, <1>10, <2>1, <2>2
<1>11. CASE reserved' = reserved /\ FewerHandles
  BY <1>1, <1>11
<1>12. CASE Tick
  BY <1>11, <1>12, <1>h DEF Tick
<1>13. CASE /\ reserved' \in {reserved, Retained(reserved)}
            /\ handles' \subseteq handles /\ UNCHANGED <<known, height>>
  BY <1>10, <1>13, <1>h
<1> QED
  BY <1>4, <1>5, <1>6, <1>7, <1>8, <1>9, <1>12, <1>13
     DEF Next, vars, Chain, Prepare, Keep, Send, Settle, Land, LandFailing, IndexerAdvances,
         ReadBalances, CountReserved, SpendReadsNotes, SpendSelects, MergeReadsHeld, MergeSelects,
         CachedSpendSelects, PrepareFails, Save, AppSends, Submit, SendGoesOut, SendFails,
         Confirm, WaitForTransaction, LookupUnknown, IndexerHasIt, IndexerTimesOut, AppDrops

-----------------------------------------------------------------------------
(* Merges of unspent notes. *)

LEMMA NothingReused ==
  ASSUME ReuseNotes = FALSE
  PROVE  Spec => [](recent = {})
<1>1. Init => recent = {}
  BY DEF Init
<1>2. recent = {} /\ [Next]_vars => (recent = {})'
  BY DEF Next, vars, chain, wallet, op, app, history, Chain, Prepare, Keep, Send, Settle,
         Tick, Land, LandFailing, IndexerAdvances, ReadBalances, CountReserved, RecentNotes,
         SpendReadsNotes, SpendSelects, MergeReadsHeld, MergeSelects, CachedSpendSelects,
         PrepareFails, PrepareFinishes, Refresh, Save, Restore, Release, AppSends, Submit,
         SendGoesOut, SendFails, SendRefused, Confirm, WaitForTransaction, LookupLanded,
         LookupFailed, LookupUnknown, IndexerHasIt, IndexerTimesOut, Restart
<1> QED
  BY <1>1, <1>2, PTL DEF Spec

LEMMA MergeUnspentNext ==
  ASSUME Types, Types', Bookkeeping, Bookkeeping', Excluded, LiveDisjoint, KnownUnread,
         recent = {}, MergeUnspent, [Next]_vars
  PROVE  MergeUnspent'
<1> USE DEF chain, wallet, op, app, history
<1>1. \A m \in landed : NotesOf(m.pay)' = NotesOf(m.pay)
  BY LandedPlanKept DEF Bookkeeping
<1>2. \A m \in landed' : m \in landed \/ (Land(m) /\ Live(m))
  BY DEF Next, vars, Chain, Prepare, Keep, Send, Settle,
         Tick, Land, LandFailing, IndexerAdvances, ReadBalances, CountReserved,
         SpendReadsNotes, SpendSelects, MergeReadsHeld, MergeSelects, CachedSpendSelects,
         PrepareFails, PrepareFinishes, Refresh, Save, Restore, Release, AppSends, Submit,
         SendGoesOut, SendFails, SendRefused, Confirm, WaitForTransaction, LookupLanded,
         LookupFailed, LookupUnknown, IndexerHasIt, IndexerTimesOut, Restart, Live, Landable
<1>3. pc' = "notes_read" => kind' = "spend"
  BY DEF MergeUnspent, Next, vars, Chain, Prepare, Keep, Send, Settle,
         Tick, Land, LandFailing, IndexerAdvances, ReadBalances, CountReserved,
         SpendReadsNotes, SpendSelects, MergeReadsHeld, MergeSelects, CachedSpendSelects,
         PrepareFails, PrepareFinishes, Refresh, Save, Restore, Release, AppSends, Submit,
         SendGoesOut, SendFails, SendRefused, Confirm, WaitForTransaction, LookupLanded,
         LookupFailed, LookupUnknown, IndexerHasIt, IndexerTimesOut, Restart, Done
<1>4. pc' = "selected" /\ kind' \in {"merge", "cached_merge"} =>
        \A m \in landed' : NotesOf(m.pay)' \cap picked' = {}
  <2> SUFFICES ASSUME pc' = "selected", kind' \in {"merge", "cached_merge"}, NEW m \in landed'
               PROVE  NotesOf(m.pay)' \cap picked' = {}
    OBVIOUS
  <2>1. CASE MergeSelects
    <3> PICK ns : RecentNotes(ns) /\ picked' \subseteq ns
      BY <2>1 DEF MergeSelects
    <3>1. CaughtUp /\ ns = NotesAfter(indexed)
      BY DEF RecentNotes
    <3>2. landed' = landed
      BY <2>1 DEF MergeSelects
    <3> QED
      BY <1>1, <3>1, <3>2, ReadUnspent
  <2>2. CASE pc = "selected" /\ UNCHANGED <<kind, picked, plan>>
    <3>1. CASE m \in landed
      BY <1>1, <2>2, <3>1 DEF MergeUnspent
    <3>2. CASE Live(m)
      <4>1. m \in Message
        BY DEF Types, TypeOK
      <4> QED
        BY <2>2, <3>2, <4>1 DEF Excluded, NotesOf
    <3> QED
      BY <1>2, <3>1, <3>2
  <2>3. MergeSelects \/ (pc = "selected" /\ UNCHANGED <<kind, picked, plan>>)
    BY DEF MergeUnspent, Next, vars, Chain, Prepare, Keep, Send, Settle,
           Tick, Land, LandFailing, IndexerAdvances, ReadBalances, CountReserved,
           SpendReadsNotes, SpendSelects, MergeReadsHeld, CachedSpendSelects,
           PrepareFails, PrepareFinishes, Refresh, Save, Restore, Release, AppSends, Submit,
           SendGoesOut, SendFails, SendRefused, Confirm, WaitForTransaction, LookupLanded,
           LookupFailed, LookupUnknown, IndexerHasIt, IndexerTimesOut, Restart, Done
  <2> QED
    BY <2>1, <2>2, <2>3
<1>5. MergeNotesUnspent'
  <2> SUFFICES ASSUME NEW x \in Message, NEW y \in landed', Live(x)',
                      plan'[x.pay].kind \in {"merge", "cached_merge"},
                      x.pay # y.pay, x.pay \notin late', y.pay \notin late'
               PROVE  NotesOf(x.pay)' \cap NotesOf(y.pay)' = {}
    BY DEF MergeNotesUnspent, NotesOf
  <2>1. y \in Message /\ x.pay \in Payments
    BY DEF Types, TypeOK, Message
  <2>2. CASE PrepareFinishes
    <3> PICK p \in Fresh :
          /\ plan' = [plan EXCEPT ![p] = [kind |-> kind, notes |-> picked]]
          /\ handles' = handles \cup {[id |-> IdFor([pay |-> p, bh |-> height]),
                                       msg |-> [pay |-> p, bh |-> height]]}
      BY <2>2 DEF PrepareFinishes
    <3>1. pc = "selected" /\ UNCHANGED <<chain, saved, late>>
      BY <2>2 DEF PrepareFinishes
    <3>2. Live(x) \/ x.pay = p
      BY <3>1 DEF Live, Held, Lvbh
    <3>3. plan'[p] = [kind |-> kind, notes |-> picked] /\ (x.pay # p => plan'[x.pay] = plan[x.pay])
      BY <2>1 DEF Fresh, Types, TypeOK
    <3>4. y \in landed /\ NotesOf(y.pay)' = NotesOf(y.pay)
      BY <1>1, <3>1
    <3>5. CASE x.pay = p
      BY <3>1, <3>3, <3>4, <3>5 DEF MergeUnspent, NotesOf
    <3>6. CASE x.pay # p
      BY <3>1, <3>2, <3>3, <3>4, <3>6 DEF MergeUnspent, MergeNotesUnspent, NotesOf
    <3> QED
      BY <3>5, <3>6
  <2>3. ASSUME NEW h \in handles, Refresh(h) PROVE NotesOf(x.pay)' \cap NotesOf(y.pay)' = {}
    <3> DEFINE p == h.msg.pay
    <3>1. /\ plan' = plan /\ late \subseteq late' /\ UNCHANGED <<chain, saved>>
          /\ \A g \in handles' : g \in handles \/ g.msg.pay = p
          /\ height > Lvbh(h.msg) => p \in late'
      BY <2>3 DEF Refresh
    <3>2. Live(x) \/ x.pay = p
      BY <3>1 DEF Live, Held, Lvbh
    <3>3. h.msg \in Message /\ h.msg \notin landed \cup failed
      BY <2>3 DEF Refresh, Sent, Types, TypeOK, Handle, Bookkeeping, Base, Out, Gone
    <3>4. p \notin late' => Live(h.msg)
      BY <3>1, <3>3, UntilType DEF Live, Held, Types, TypeOK, Heights
    <3>5. \E z \in Message : Live(z) /\ z.pay = x.pay
      BY <3>2, <3>3, <3>4
    <3> QED
      BY <3>1, <3>5 DEF MergeUnspent, MergeNotesUnspent, NotesOf
  <2>4. CASE ~PrepareFinishes /\ \A h \in handles : ~Refresh(h)
    <3>1. Live(x) /\ plan' = plan /\ late' = late
      BY <2>4, LiveNext
    <3>2. CASE y \in landed
      BY <3>1, <3>2 DEF MergeUnspent, MergeNotesUnspent, NotesOf
    <3>3. CASE Live(y)
      BY <2>1, <3>1, <3>3 DEF LiveDisjoint, NotesOf
    <3> QED
      BY <1>2, <3>2, <3>3
  <2> QED
    BY <2>2, <2>3, <2>4
<1> QED
  BY <1>3, <1>4, <1>5 DEF MergeUnspent

-----------------------------------------------------------------------------
(* The theorems. *)

LEMMA BaseInvariance == Spec => [](Types /\ Base /\ KnownUnread /\ CachedHeldUntilSettled)
<1> DEFINE Inv == Types /\ Base /\ KnownUnread /\ CachedHeldUntilSettled
<1>1. Init => Inv
  BY TypesInit DEF Init, Base, Ids, Planned, Following, Follows, KnownUnread, CachedHeldUntilSettled
<1>2. Inv /\ [Next]_vars => Inv'
  BY TypesNext, BaseNext, KnownUnreadNext, CachedHeldNext
<1> QED
  BY <1>1, <1>2, PTL DEF Spec

LEMMA Invariance ==
  ASSUME "again" \notin Sends
  PROVE  Spec => []IInv
<1>1. Init => IInv
  BY TypesInit, BookkeepingInit, CoveredInit DEF IInv
<1>2. IInv /\ [Next]_vars => IInv'
  <2> SUFFICES ASSUME IInv, [Next]_vars PROVE IInv'
    OBVIOUS
  <2>1. Types'
    BY TypesNext DEF IInv
  <2>2. Bookkeeping' /\ (failed \cap landed = {})'
    BY <2>1, BaseNext, BookkeepingNext DEF IInv, Bookkeeping
  <2>3. Covered' /\ Excluded' /\ LiveDisjoint'
    BY <2>1, <2>2, CoveredNext, ExcludedNext, DisjointNext DEF IInv
  <2> QED
    BY <2>1, <2>2, <2>3 DEF IInv
<1> QED
  BY <1>1, <1>2, PTL DEF Spec

\* A transaction that can still land keeps a reservation that outlives its
\* blockhash, unless a restart left snapshots to restore: reserved(), refresh(),
\* restore, release() and the verdicts of submit() never free its notes early.
THEOREM LiveStaysReserved ==
  ASSUME "again" \notin Sends
  PROVE  Spec => []LiveIsReserved
<1>1. IInv => LiveIsReserved
  BY DEF IInv, Covered, LiveIsReserved
<1> QED
  BY <1>1, Invariance, PTL

\* Two payments that can both still land spend different notes, unless one was
\* refreshed after it had expired: the selections exclude what is reserved.
THEOREM LivePaymentsDisjoint ==
  ASSUME "again" \notin Sends
  PROVE  Spec => []LiveDisjoint
<1>1. IInv => LiveDisjoint
  BY DEF IInv
<1> QED
  BY <1>1, Invariance, PTL

\* A refusal that released the notes is final: that transaction never lands.
THEOREM RefusalIsFinal ==
  ASSUME "again" \notin Sends
  PROVE  Spec => []RefusedNeverLands
<1>1. IInv => RefusedNeverLands
  BY DEF IInv, Bookkeeping, Base, Out, RefusedNeverLands
<1> QED
  BY <1>1, Invariance, PTL

\* A run's merges and its payment keep their notes, predicted outputs included:
\* neither the height nor another message nor a restore ends their reservations
\* before the application gives them up or their landing is known.
THEOREM CachedStaysHeld == Spec => []CachedHeldUntilSettled
BY BaseInvariance, PTL

\* However often a transaction is restored, its notes are held once, and every
\* handle of it releases that reservation while it may still land.
THEOREM HeldOnlyOnce == Spec => []OneReleaseFrees
<1>1. Init => HeldOnce
  BY DEF Init, HeldOnce
<1>2. Types /\ Types' /\ Base /\ HeldOnce /\ [Next]_vars => HeldOnce'
  BY HeldOnceNext
<1>3. HeldOnce => OneReleaseFrees
  BY DEF HeldOnce, OneReleaseFrees
<1> QED
  BY <1>1, <1>2, <1>3, BaseInvariance, PTL DEF Spec

\* What is known to have landed is never selected again, although its reservation
\* is gone: submit(), confirm() and wait_for_transaction() forget the last read.
THEOREM KnownStaysSpent == Spec => []KnownSpentNotReselected
<1>1. KnownUnread => KnownSpentNotReselected
  BY DEF KnownUnread, KnownSpentNotReselected
<1> QED
  BY <1>1, BaseInvariance, PTL

\* A merge that can still land spends nothing another payment spent, when no read
\* is reused: a payment that lands while a merge is prepared is among the
\* reservations asked for first or gone from the notes read afterwards.
THEOREM MergesStayUnspent ==
  ASSUME "again" \notin Sends, ReuseNotes = FALSE
  PROVE  Spec => []MergeNotesUnspent
<1> DEFINE Known == Types /\ Base /\ KnownUnread /\ CachedHeldUntilSettled
<1>1. Init => MergeUnspent
  BY DEF Init, MergeUnspent, MergeNotesUnspent
<1>2. IInv /\ IInv' /\ Known /\ recent = {} /\ MergeUnspent /\ [Next]_vars => MergeUnspent'
  BY MergeUnspentNext DEF IInv
<1>3. MergeUnspent => MergeNotesUnspent
  BY DEF MergeUnspent
<1>4. Spec => []Known
  BY BaseInvariance
<1> HIDE DEF Known
<1> QED
  BY <1>1, <1>2, <1>3, <1>4, Invariance, NothingReused, PTL DEF Spec
=============================================================================
