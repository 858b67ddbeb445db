---------------------------- MODULE MCWalletReads ----------------------------
(* Model-checking parameters of WalletReads. *)
EXTENDS WalletReads, TLC

CONSTANTS sol, tok, odd   \* odd: a mint whose registry entry cannot be read

Output(n, to, a, v) == [note |-> n, to |-> to, asset |-> a, amount |-> v, pad |-> FALSE, names |-> TRUE]
Padding(n, to) == [note |-> n, to |-> to, asset |-> sol, amount |-> 0, pad |-> TRUE, names |-> TRUE]
Event(id, kind, owner, in, outs, legs) ==
    [id |-> id, kind |-> kind, owner |-> owner, plain |-> TRUE, inputs |-> in, outs |-> outs, legs |-> legs]
In(s, t, o) == sol :> s @@ tok :> t @@ odd :> o
Pays(v) == Output(1, "bob", sol, v)
Keeps(n, v) == Output(n, "wallet", sol, v)
Withdraws(a, v) == [deposit |-> FALSE, asset |-> a, amount |-> v]

Merge == Event(1, "merge", "wallet", In(4, 0, 0), <<Keeps(1, 4)>>, <<>>)
Send == Event(2, "transact", "wallet", In(3, 0, 0), <<Output(3, "bob", sol, 1), Keeps(4, 2)>>, <<>>)

Transactions == {
  \* received, with the sender's change
  <<Event(1, "transact", "other", In(5, 0, 0), <<Keeps(1, 3), Output(2, "bob", sol, 2)>>, <<>>)>>,
  \* sent in full, with padding under the recipient's tag
  <<Event(1, "transact", "wallet", In(5, 0, 0), <<Pays(5), Padding(2, "bob")>>, <<>>)>>,
  \* a withdrawal with a private fee
  <<Event(1, "transact", "wallet", In(5, 0, 0), <<Pays(1), Keeps(2, 1)>>, <<Withdraws(sol, 3)>>)>>,
  \* notes and public funds in, notes out
  <<Event(1, "transact", "wallet", In(2, 0, 0), <<Keeps(1, 4)>>,
          <<[deposit |-> TRUE, asset |-> sol, amount |-> 2]>>)>>,
  \* one asset kept, another one sent
  <<Event(1, "transact", "wallet", In(1, 2, 0), <<Output(1, "bob", tok, 2), Keeps(2, 1)>>, <<>>)>>,
  \* a merge that two events publish
  <<Merge, Merge>>,
  \* a spend, its event repeated, and a deposit in the same signature
  <<Send, Event(5, "proofless", "other", In(0, 0, 0), <<Keeps(6, 2)>>, <<>>), Send>>,
  \* a token received, next to one that cannot be resolved
  <<Event(1, "transact", "other", In(0, 3, 1), <<Output(1, "wallet", tok, 3), Output(2, "wallet", odd, 1)>>, <<>>)>>,
  \* a withdrawal of what cannot be resolved
  <<Event(1, "transact", "wallet", In(2, 0, 3), <<Keeps(1, 2)>>, <<Withdraws(odd, 3)>>)>>,
  \* the same Solana account under other keys
  <<Event(1, "transact", "account", In(5, 0, 0), <<Pays(2), Keeps(2, 3)>>, <<>>)>> }

Note(i, a, v, tree) == [id |-> i, asset |-> a, amount |-> v, tree |-> tree, ring |-> TRUE, plain |-> TRUE]
Held == {Note(1, sol, 5, 1), Note(2, sol, 4, 2), Note(3, sol, 4, 3), Note(4, sol, 2, 1), Note(5, sol, 0, 1),
         [Note(6, sol, 6, 1) EXCEPT !.ring = FALSE, !.plain = FALSE],
         [Note(7, tok, 1, 1) EXCEPT !.plain = FALSE], Note(8, tok, 1, 2)}
Piled == {Note(i, sol, 2, 1) : i \in 1..4} \cup {Note(5, sol, 3, 2)}

World(tx, failed, notes, discovers, cap) ==
    [tx |-> tx, failed |-> failed, notes |-> notes, discovers |-> discovers, cap |-> cap]
AllWorlds ==
    {World(tx, FALSE, {}, discovers, 3) : tx \in Transactions, discovers \in BOOLEAN}
    \cup {World(<<Send>>, TRUE, {}, TRUE, 3)}
    \cup {World(<<>>, FALSE, notes, FALSE, cap) : notes \in {Held, Piled}, cap \in {2, 3}}

SomeShapes == {<<3, 2>>, <<2, 4>>}
SomeSpends == {<<sol, 4, 2>>, <<sol, 8, 2>>, <<tok, 2, 4>>}
=============================================================================
