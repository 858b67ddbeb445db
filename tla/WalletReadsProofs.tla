------------------------- MODULE WalletReadsProofs -------------------------
(***************************************************************************)
(* What the reads promise, for any transaction the pool can hold, any      *)
(* notes and any limits: a "Ready" lookup lists the wallet's whole         *)
(* history and every payment of the transaction (lookup.rs), the limit the *)
(* balance shows is exactly the largest spend whose notes can be selected  *)
(* (balance.rs, notes.rs), and a block time once read stays (history.rs).  *)
(*                                                                         *)
(* Totals are sums over sets.  A set without the property that lacks an    *)
(* element of each smaller such set is the library's well-founded order of *)
(* the finite subsets: it gives the facts about sums, and about the order  *)
(* of the notes, that induction would.  On them rest the selection and the *)
(* rows, which are facts of one transaction, and on these the invariant of *)
(* the reads, which is about the steps.                                    *)
(***************************************************************************)
EXTENDS WalletReads, FiniteSetTheorems, SequenceTheorems, TLAPS

-----------------------------------------------------------------------------
(* Sums over finite sets. *)

\* Of some subsets of a finite set, one contains no other: what replaces
\* induction over finite sets.
LEMMA MinimalSet ==
  ASSUME NEW S, IsFiniteSet(S), NEW Bad \in SUBSET (SUBSET S), Bad # {}
  PROVE  \E T \in Bad : \A U \in Bad : U \subseteq T => U = T
  <1> DEFINE R == StrictSubsetOrdering(S)
  <1>1. IsWellFoundedOn(R, SUBSET S)
    BY FS_StrictSubsetOrderingWellFounded, FS_FiniteSubsetsOfFinite
  <1>2. PICK T \in Bad : \A U \in Bad : ~ (<<U, T>> \in R)
    <2> HIDE DEF R
    <2>1. QED
      BY <1>1, WFMin
  <1>3. QED
    BY <1>2 DEF StrictSubsetOrdering

\* What holds of {}, and of a set when it holds of all that lack one of its
\* elements, holds of a finite set.
LEMMA SetInduction ==
  ASSUME NEW S, IsFiniteSet(S), NEW Good, {} \in Good,
         \A T \in SUBSET S : T # {} /\ (\A x \in T : T \ {x} \in Good) => T \in Good
  PROVE  S \in Good
  <1> DEFINE Bad == (SUBSET S) \ Good
  <1> SUFFICES ASSUME S \notin Good PROVE FALSE
    OBVIOUS
  <1>1. IsFiniteSet(S) /\ Bad \in SUBSET (SUBSET S) /\ Bad # {}
    OBVIOUS
  <1>2. PICK T \in Bad : \A U \in Bad : U \subseteq T => U = T
    <2> HIDE DEF Bad
    <2>1. QED
      BY ONLY <1>1, MinimalSet
  <1>3. \A x \in T : T \ {x} \in Good
    BY <1>2
  <1>4. T \in SUBSET S /\ T \notin Good
    OBVIOUS
  <1>5. QED
    BY <1>3, <1>4

\* A finite set of numbers has a largest and a smallest one.
LEMMA Bounds ==
  ASSUME NEW S, IsFiniteSet(S), S \subseteq Int, S # {}
  PROVE  /\ Max(S) \in S /\ \A y \in S : y <= Max(S)
         /\ Min(S) \in S /\ \A y \in S : Min(S) <= y
  <1> DEFINE Most(T) == \E x \in T : \A y \in T : x >= y
             Least(T) == \E x \in T : \A y \in T : x =< y
             Good == {T \in SUBSET S : T = {} \/ (Most(T) /\ Least(T))}
  <1>1. {} \in Good
    OBVIOUS
  <1>2. ASSUME NEW T \in SUBSET S, T # {}, \A x \in T : T \ {x} \in Good
        PROVE  T \in Good
    <2>1. PICK x \in T : TRUE
      BY <1>2
    <2>2. x \in Int /\ T \subseteq Int
      OBVIOUS
    <2>3. CASE T \ {x} = {}
      <3>1. T = {x}
        BY <2>3
      <3>2. Most(T) /\ Least(T)
        BY <3>1, <2>2
      <3>3. QED
        BY <3>2
    <2>4. CASE T \ {x} # {}
      <3>1. Most(T \ {x}) /\ Least(T \ {x})
        <4> HIDE DEF Most, Least
        <4>1. QED
          BY <1>2, <2>4
      <3>2. PICK m \in T \ {x} : \A y \in T \ {x} : m >= y
        BY <3>1
      <3>3. PICK l \in T \ {x} : \A y \in T \ {x} : l =< y
        BY <3>1
      <3>4. Most(T)
        <4>1. CASE m >= x
          BY <3>2, <4>1, <2>2
        <4>2. CASE x >= m
          BY <3>2, <4>2, <2>2
        <4>3. QED
          BY <4>1, <4>2, <2>2
      <3>5. Least(T)
        <4>1. CASE l =< x
          BY <3>3, <4>1, <2>2
        <4>2. CASE x =< l
          BY <3>3, <4>2, <2>2
        <4>3. QED
          BY <4>1, <4>2, <2>2
      <3>6. QED
        BY <3>4, <3>5
    <2>5. QED
      BY <2>3, <2>4
  <1>3. IsFiniteSet(S)
    OBVIOUS
  <1>4. S \in Good
    <2> HIDE DEF Good
    <2>1. QED
      BY ONLY <1>1, <1>2, <1>3, SetInduction
  <1>5. PICK m \in S : \A y \in S : m >= y
    BY <1>4
  <1>6. PICK l \in S : \A y \in S : l =< y
    BY <1>4
  <1>7. Max(S) \in S /\ \A y \in S : Max(S) >= y
    BY <1>5 DEF Max
  <1>8. Min(S) \in S /\ \A y \in S : Min(S) =< y
    BY <1>6 DEF Min
  <1>9. QED
    BY <1>7, <1>8

-----------------------------------------------------------------------------
\* The sums of the community modules choose the elements one by one. Their
\* recursion is well defined on a finite set, and the order does not matter.
SumOf(f, S) == MapThenSumSet(LAMBDA x : f[x], S)

Pick(s) == CHOOSE x \in s : TRUE
Sums(f, S, g) == g = [s \in SUBSET S |-> IF s = {} THEN 0 ELSE f[Pick(s)] + g[s \ {Pick(s)}]]
SumsOf(f, S) == CHOOSE g : Sums(f, S, g)

\* The library's sum is the value, at the whole set, of a recursion over its
\* subsets.
LEMMA SumUnfolds == \A f, S : SumOf(f, S) = SumsOf(f, S)[S]
  BY DEF SumOf, MapThenSumSet, MapThenFoldSet, SumsOf, Sums, Pick

\* The element the library's sum takes next is one of the set's.
LEMMA PickIn == \A s : s # {} => Pick(s) \in s
  BY DEF Pick

\* Two recursions over a set and over a subset of it agree on the subset.
LEMMA SumsAgree ==
  ASSUME NEW f, NEW S, IsFiniteSet(S), NEW T \in SUBSET S,
         NEW g, Sums(f, S, g), NEW h, Sums(f, T, h)
  PROVE  \A s \in SUBSET T : g[s] = h[s]
  <1> DEFINE Bad == {s \in SUBSET T : g[s] # h[s]}
  <1> SUFFICES ASSUME Bad # {} PROVE FALSE
    OBVIOUS
  <1>1. IsFiniteSet(T)
    BY FS_Subset
  <1>2. Bad \in SUBSET (SUBSET T)
    OBVIOUS
  <1>3. PICK s \in Bad : \A u \in Bad : u \subseteq s => u = s
    <2> HIDE DEF Bad
    <2>1. QED
      BY <1>1, <1>2, MinimalSet
  <1>4. s \in SUBSET T /\ s \in SUBSET S /\ g[s] # h[s]
    OBVIOUS
  <1>5. s # {}
    BY <1>4 DEF Sums
  <1>6. Pick(s) \in s /\ s \ {Pick(s)} \in SUBSET T
    BY <1>4, <1>5, PickIn
  <1>7. g[s \ {Pick(s)}] = h[s \ {Pick(s)}]
    BY <1>3, <1>6
  <1>8. g[s] = f[Pick(s)] + g[s \ {Pick(s)}]
    BY <1>4, <1>5 DEF Sums
  <1>9. h[s] = f[Pick(s)] + h[s \ {Pick(s)}]
    BY <1>4, <1>5 DEF Sums
  <1>10. QED
    BY <1>4, <1>7, <1>8, <1>9

\* The recursion has a solution on every finite set: the least set without
\* one would get it from the set with an element less.
LEMMA SumsExist ==
  ASSUME NEW f, NEW S, IsFiniteSet(S)
  PROVE  Sums(f, S, SumsOf(f, S))
  <1> DEFINE Bad == {T \in SUBSET S : ~ \E g : Sums(f, T, g)}
  <1>1. Bad = {}
    <2> SUFFICES ASSUME Bad # {} PROVE FALSE
      OBVIOUS
    <2>1. Bad \in SUBSET (SUBSET S)
      OBVIOUS
    <2>2. PICK T \in Bad : \A U \in Bad : U \subseteq T => U = T
      <3> HIDE DEF Bad
      <3>1. QED
        BY <2>1, MinimalSet
    <2>3. T \in SUBSET S /\ ~ \E g : Sums(f, T, g)
      OBVIOUS
    <2>4. \A V \in SUBSET T : V # T => Sums(f, V, SumsOf(f, V)) /\ IsFiniteSet(V)
      <3> SUFFICES ASSUME NEW V \in SUBSET T, V # T PROVE Sums(f, V, SumsOf(f, V)) /\ IsFiniteSet(V)
        OBVIOUS
      <3>1. V \in SUBSET S /\ V \notin Bad
        BY <2>2, <2>3
      <3>2. \E g : Sums(f, V, g)
        BY <3>1
      <3>3. IsFiniteSet(V)
        BY <3>1, FS_Subset
      <3>4. QED
        BY <3>2, <3>3 DEF SumsOf
    <2> DEFINE rest(s) == s \ {Pick(s)}
               g == [s \in SUBSET T |-> IF s = {} THEN 0 ELSE f[Pick(s)] + SumsOf(f, rest(s))[rest(s)]]
    <2>5. ASSUME NEW V \in SUBSET T, V # T PROVE g[V] = SumsOf(f, V)[V]
      <3>1. Sums(f, V, SumsOf(f, V)) /\ IsFiniteSet(V)
        BY <2>4, <2>5
      <3>2. CASE V = {}
        BY <3>1, <3>2 DEF Sums
      <3>3. CASE V # {}
        <4>1. Pick(V) \in V /\ rest(V) \in SUBSET V /\ rest(V) # T /\ rest(V) \in SUBSET T
          BY <3>3, <2>5, PickIn
        <4>2. Sums(f, rest(V), SumsOf(f, rest(V)))
          BY <2>4, <4>1
        <4>3. SumsOf(f, V)[rest(V)] = SumsOf(f, rest(V))[rest(V)]
          BY <3>1, <4>1, <4>2, SumsAgree
        <4>4. SumsOf(f, V)[V] = f[Pick(V)] + SumsOf(f, V)[rest(V)]
          BY <3>1, <3>3 DEF Sums
        <4>5. g[V] = f[Pick(V)] + SumsOf(f, rest(V))[rest(V)]
          BY <3>3
        <4>6. QED
          BY <4>3, <4>4, <4>5
      <3>4. QED
        BY <3>2, <3>3
    <2>6. ASSUME NEW s \in SUBSET T, s # {} PROVE g[s] = f[Pick(s)] + g[rest(s)]
      <3>1. Pick(s) \in s /\ rest(s) \in SUBSET T /\ rest(s) # T
        BY <2>6, PickIn
      <3>2. g[rest(s)] = SumsOf(f, rest(s))[rest(s)]
        BY <3>1, <2>5
      <3>3. QED
        BY <2>6, <3>2
    <2>7. g[{}] = 0 /\ g = [s \in SUBSET T |-> g[s]]
      OBVIOUS
    <2>8. Sums(f, T, g)
      <3> HIDE DEF g
      <3>1. QED
        BY <2>6, <2>7 DEF Sums
    <2>9. QED
      BY <2>3, <2>8
  <1>2. \E g : Sums(f, S, g)
    BY <1>1
  <1>3. QED
    BY <1>2 DEF SumsOf

\* The sum over nothing is 0.
LEMMA SumEmpty == \A f : SumOf(f, {}) = 0
  <1> TAKE f
  <1>1. Sums(f, {}, SumsOf(f, {}))
    BY SumsExist, FS_EmptySet
  <1>2. SumsOf(f, {})[{}] = 0
    BY <1>1 DEF Sums
  <1>3. QED
    BY <1>2, SumUnfolds

\* The sum over a finite set is its next element's value and the sum over
\* the rest.
LEMMA SumStep ==
  ASSUME NEW f, NEW S, IsFiniteSet(S), S # {}
  PROVE  /\ Pick(S) \in S
         /\ SumOf(f, S) = f[Pick(S)] + SumOf(f, S \ {Pick(S)})
  <1> DEFINE R == S \ {Pick(S)}
  <1>1. Pick(S) \in S /\ R \in SUBSET S /\ IsFiniteSet(R)
    BY PickIn, FS_Subset
  <1>2. Sums(f, S, SumsOf(f, S)) /\ Sums(f, R, SumsOf(f, R))
    BY <1>1, SumsExist
  <1>3. SumsOf(f, S)[R] = SumsOf(f, R)[R]
    BY SMTT(60), <1>1, <1>2, SumsAgree
  <1>4. SumsOf(f, S)[S] = f[Pick(S)] + SumsOf(f, S)[R]
    BY <1>2 DEF Sums
  <1>5. QED
    BY <1>1, <1>3, <1>4, SumUnfolds

\* The sum of numbers is a number.
LEMMA SumInt ==
  ASSUME NEW f, NEW S, IsFiniteSet(S), \A x \in S : f[x] \in Int
  PROVE  SumOf(f, S) \in Int
  <1> DEFINE Good == {T \in SUBSET S : SumOf(f, T) \in Int}
  <1>1. {} \in Good
    BY SumEmpty
  <1>2. ASSUME NEW T \in SUBSET S, T # {}, \A x \in T : T \ {x} \in Good
        PROVE  T \in Good
    <2>1. IsFiniteSet(T)
      BY FS_Subset
    <2>2. Pick(T) \in T /\ SumOf(f, T) = f[Pick(T)] + SumOf(f, T \ {Pick(T)})
      BY <1>2, <2>1, SumStep
    <2>3. QED
      BY <1>2, <2>2
  <1>3. S \in Good
    <2> HIDE DEF Good
    <2>1. QED
      BY <1>1, <1>2, SetInduction
  <1>4. QED
    BY <1>3

\* Sums of natural numbers are natural.
LEMMA SumNat ==
  ASSUME NEW f, NEW S, IsFiniteSet(S), \A x \in S : f[x] \in Nat
  PROVE  SumOf(f, S) \in Nat
  <1> DEFINE Good == {T \in SUBSET S : SumOf(f, T) \in Nat}
  <1>1. {} \in Good
    BY SumEmpty
  <1>2. ASSUME NEW T \in SUBSET S, T # {}, \A x \in T : T \ {x} \in Good
        PROVE  T \in Good
    <2>1. IsFiniteSet(T)
      BY FS_Subset
    <2>2. Pick(T) \in T /\ SumOf(f, T) = f[Pick(T)] + SumOf(f, T \ {Pick(T)})
      BY <1>2, <2>1, SumStep
    <2>3. QED
      BY <1>2, <2>2
  <1>3. S \in Good
    <2> HIDE DEF Good
    <2>1. QED
      BY <1>1, <1>2, SetInduction
  <1>4. QED
    BY <1>3

\* Any element may be taken out first.
LEMMA SumTake ==
  ASSUME NEW f, NEW S, IsFiniteSet(S), \A x \in S : f[x] \in Int, NEW x \in S
  PROVE  SumOf(f, S) = f[x] + SumOf(f, S \ {x})
  <1> DEFINE Good == {T \in SUBSET S : \A y \in T : SumOf(f, T) = f[y] + SumOf(f, T \ {y})}
  <1>1. {} \in Good
    OBVIOUS
  <1>2. ASSUME NEW T \in SUBSET S, T # {}, \A z \in T : T \ {z} \in Good
        PROVE  T \in Good
    <2> SUFFICES ASSUME NEW y \in T PROVE SumOf(f, T) = f[y] + SumOf(f, T \ {y})
      OBVIOUS
    <2> DEFINE c == Pick(T)
               B == (T \ {c}) \ {y}
    <2>1. IsFiniteSet(T) /\ y \in S
      BY FS_Subset
    <2>2. c \in T /\ SumOf(f, T) = f[c] + SumOf(f, T \ {c})
      BY <1>2, <2>1, SumStep
    <2>3. CASE c = y
      BY <2>2, <2>3
    <2>4. CASE c # y
      <3>1. SumOf(f, T \ {c}) = f[y] + SumOf(f, B)
        <4>1. y \in T \ {c} /\ T \ {c} \in Good
          BY <1>2, <2>2, <2>4
        <4>2. QED
          BY <4>1
      <3>2. SumOf(f, T \ {y}) = f[c] + SumOf(f, B)
        <4>1. c \in T \ {y} /\ T \ {y} \in Good /\ (T \ {y}) \ {c} = B
          BY <1>2, <2>2, <2>4
        <4>2. SumOf(f, T \ {y}) = f[c] + SumOf(f, (T \ {y}) \ {c})
          BY <4>1
        <4>3. QED
          BY <4>1, <4>2
      <3>3. f[c] \in Int /\ f[y] \in Int /\ SumOf(f, B) \in Int
        <4>1. B \in SUBSET S
          OBVIOUS
        <4>2. IsFiniteSet(B)
          BY <4>1, FS_Subset
        <4>3. SumOf(f, B) \in Int
          BY <4>1, <4>2, SumInt
        <4>4. QED
          BY <2>1, <2>2, <4>3
      <3> HIDE DEF c, B
      <3>4. QED
        BY <2>2, <3>1, <3>2, <3>3
    <2>5. QED
      BY <2>3, <2>4
  <1>3. S \in Good
    <2> HIDE DEF Good
    <2>1. QED
      BY <1>1, <1>2, SetInduction
  <1>4. QED
    BY <1>3

\* Only the values on the set count.
LEMMA SumSame ==
  ASSUME NEW S, IsFiniteSet(S), NEW f, NEW h, \A x \in S : f[x] = h[x]
  PROVE  SumOf(f, S) = SumOf(h, S)
  <1> DEFINE Good == {T \in SUBSET S : SumOf(f, T) = SumOf(h, T)}
  <1>1. {} \in Good
    BY SumEmpty
  <1>2. ASSUME NEW T \in SUBSET S, T # {}, \A x \in T : T \ {x} \in Good
        PROVE  T \in Good
    <2>1. IsFiniteSet(T)
      BY FS_Subset
    <2>2. Pick(T) \in T /\ SumOf(f, T) = f[Pick(T)] + SumOf(f, T \ {Pick(T)})
      BY <1>2, <2>1, SumStep
    <2>3. SumOf(h, T) = h[Pick(T)] + SumOf(h, T \ {Pick(T)})
      BY <1>2, <2>1, SumStep
    <2>4. QED
      BY <1>2, <2>2, <2>3
  <1>3. S \in Good
    <2> HIDE DEF Good
    <2>1. QED
      BY <1>1, <1>2, SetInduction
  <1>4. QED
    BY <1>3

\* Sums of zeros are 0.
LEMMA SumZero ==
  ASSUME NEW f, NEW S, IsFiniteSet(S), \A x \in S : f[x] = 0
  PROVE  SumOf(f, S) = 0
  <1> DEFINE Good == {T \in SUBSET S : SumOf(f, T) = 0}
  <1>1. {} \in Good
    BY SumEmpty
  <1>2. ASSUME NEW T \in SUBSET S, T # {}, \A x \in T : T \ {x} \in Good
        PROVE  T \in Good
    <2>1. IsFiniteSet(T)
      BY FS_Subset
    <2>2. Pick(T) \in T /\ SumOf(f, T) = f[Pick(T)] + SumOf(f, T \ {Pick(T)})
      BY <1>2, <2>1, SumStep
    <2>3. QED
      BY <1>2, <2>2
  <1>3. S \in Good
    <2> HIDE DEF Good
    <2>1. QED
      BY <1>1, <1>2, SetInduction
  <1>4. QED
    BY <1>3

\* The sum of two sums over one set, and over two sets.
LEMMA SumPlus ==
  ASSUME NEW S, IsFiniteSet(S), NEW f, NEW h, NEW k,
         \A x \in S : f[x] \in Int /\ h[x] \in Int /\ k[x] = f[x] + h[x]
  PROVE  SumOf(k, S) = SumOf(f, S) + SumOf(h, S)
  <1> DEFINE Good == {T \in SUBSET S : SumOf(k, T) = SumOf(f, T) + SumOf(h, T)}
  <1>1. {} \in Good
    BY SumEmpty
  <1>2. ASSUME NEW T \in SUBSET S, T # {}, \A x \in T : T \ {x} \in Good
        PROVE  T \in Good
    <2> DEFINE R == T \ {Pick(T)}
    <2>1. IsFiniteSet(T)
      BY FS_Subset
    <2>2. Pick(T) \in T /\ SumOf(f, T) = f[Pick(T)] + SumOf(f, R)
      BY <1>2, <2>1, SumStep
    <2>3. SumOf(h, T) = h[Pick(T)] + SumOf(h, R) /\ SumOf(k, T) = k[Pick(T)] + SumOf(k, R)
      BY <1>2, <2>1, SumStep
    <2>4. SumOf(k, R) = SumOf(f, R) + SumOf(h, R)
      BY <1>2, <2>2
    <2>5. SumOf(f, R) \in Int /\ SumOf(h, R) \in Int
      <3>1. R \in SUBSET S
        OBVIOUS
      <3>2. IsFiniteSet(R)
        BY <3>1, FS_Subset
      <3>3. QED
        BY <3>1, <3>2, SumInt
    <2>6. f[Pick(T)] \in Int /\ h[Pick(T)] \in Int /\ k[Pick(T)] = f[Pick(T)] + h[Pick(T)]
      BY <2>2
    <2>7. SumOf(k, T) = SumOf(f, T) + SumOf(h, T)
      <3> HIDE DEF R
      <3>1. QED
        BY <2>2, <2>3, <2>4, <2>5, <2>6
    <2>8. QED
      BY <2>7
  <1>3. S \in Good
    <2> HIDE DEF Good
    <2>1. QED
      BY <1>1, <1>2, SetInduction
  <1>4. QED
    BY <1>3

\* The sum over two disjoint sets is the sum of their sums.
LEMMA SumUnion ==
  ASSUME NEW S, NEW T, IsFiniteSet(S), IsFiniteSet(T), S \cap T = {},
         NEW f, \A x \in S \cup T : f[x] \in Int
  PROVE  SumOf(f, S \cup T) = SumOf(f, S) + SumOf(f, T)
  <1> DEFINE Good == {U \in SUBSET T : SumOf(f, S \cup U) = SumOf(f, S) + SumOf(f, U)}
  <1>1. SumOf(f, S) \in Int
    BY SumInt
  <1>2. {} \in Good
    <2>1. S \cup {} = S
      OBVIOUS
    <2>2. SumOf(f, S \cup {}) = SumOf(f, S) + SumOf(f, {})
      BY <1>1, <2>1, SumEmpty
    <2>3. QED
      BY <2>2
  <1>3. ASSUME NEW U \in SUBSET T, U # {}, \A x \in U : U \ {x} \in Good
        PROVE  U \in Good
    <2>1. PICK c \in U : TRUE
      BY <1>3
    <2> DEFINE R == U \ {c}
    <2>2. IsFiniteSet(U) /\ c \in T /\ c \notin S
      BY FS_Subset
    <2>3. SumOf(f, U) = f[c] + SumOf(f, R)
      BY <2>2, SumTake
    <2>4. SumOf(f, S \cup U) = f[c] + SumOf(f, S \cup R)
      <3>1. IsFiniteSet(S \cup U)
        BY <2>2, FS_Union
      <3>2. (S \cup U) \ {c} = S \cup R
        BY <2>2
      <3>3. SumOf(f, S \cup U) = f[c] + SumOf(f, (S \cup U) \ {c})
        BY <3>1, SumTake
      <3>4. QED
        BY <3>2, <3>3
    <2>5. SumOf(f, S \cup R) = SumOf(f, S) + SumOf(f, R)
      BY <1>3
    <2>6. SumOf(f, R) \in Int /\ f[c] \in Int
      <3>1. R \in SUBSET T
        OBVIOUS
      <3>2. IsFiniteSet(R)
        BY <3>1, FS_Subset
      <3>3. QED
        BY <2>2, <3>1, <3>2, SumInt
    <2>7. SumOf(f, S \cup U) = SumOf(f, S) + SumOf(f, U)
      <3> HIDE DEF R
      <3>1. QED
        BY <1>1, <2>3, <2>4, <2>5, <2>6
    <2>8. QED
      BY <2>7
  <1>4. T \in Good
    <2> HIDE DEF Good
    <2>1. QED
      BY <1>2, <1>3, SetInduction
  <1>5. QED
    BY <1>4

\* A sum may be taken over other names of its elements.
LEMMA SumRenamed ==
  ASSUME NEW S, IsFiniteSet(S), NEW g, NEW f, NEW h,
         \A x, y \in S : g[x] = g[y] => x = y,
         \A x \in S : f[g[x]] \in Int /\ h[x] = f[g[x]]
  PROVE  SumOf(h, S) = SumOf(f, {g[x] : x \in S})
  <1> DEFINE Img(U) == {g[x] : x \in U}
             Good == {U \in SUBSET S : IsFiniteSet(Img(U)) /\ SumOf(h, U) = SumOf(f, Img(U))}
  <1>1. {} \in Good
    <2>1. Img({}) = {}
      OBVIOUS
    <2>2. IsFiniteSet(Img({})) /\ SumOf(h, {}) = SumOf(f, Img({}))
      BY <2>1, SumEmpty, FS_EmptySet
    <2>3. QED
      BY <2>2
  <1>2. ASSUME NEW U \in SUBSET S, U # {}, \A x \in U : U \ {x} \in Good
        PROVE  U \in Good
    <2>1. PICK c \in U : TRUE
      BY <1>2
    <2> DEFINE R == U \ {c}
    <2>2. IsFiniteSet(U)
      BY FS_Subset
    <2>3. SumOf(h, U) = h[c] + SumOf(h, R)
      BY <2>2, SumTake
    <2>4. IsFiniteSet(Img(R)) /\ SumOf(h, R) = SumOf(f, Img(R))
      BY <1>2
    <2>5. Img(U) = Img(R) \cup {g[c]} /\ Img(U) \ {g[c]} = Img(R)
      OBVIOUS
    <2>6. IsFiniteSet(Img(U))
      <3>1. IsFiniteSet(Img(R) \cup {g[c]})
        <4> HIDE DEF Img
        <4>1. QED
          BY <2>4, FS_AddElement
      <3>2. QED
        BY <2>5, <3>1
    <2>7. SumOf(f, Img(U)) = f[g[c]] + SumOf(f, Img(R))
      <3>1. g[c] \in Img(U) /\ \A y \in Img(U) : f[y] \in Int
        OBVIOUS
      <3>2. SumOf(f, Img(U)) = f[g[c]] + SumOf(f, Img(U) \ {g[c]})
        BY <2>6, <3>1, SumTake
      <3>3. QED
        BY <2>5, <3>2
    <2>8. h[c] = f[g[c]]
      OBVIOUS
    <2>9. QED
      BY <2>3, <2>4, <2>6, <2>7, <2>8
  <1>3. S \in Good
    <2> HIDE DEF Good
    <2>1. QED
      BY <1>1, <1>2, SetInduction
  <1>4. QED
    BY <1>3

\* More elements sum to no less, and to more when one of them counts.
LEMMA SumGrows ==
  ASSUME NEW f, NEW S, IsFiniteSet(S), \A x \in S : f[x] \in Nat, NEW T \in SUBSET S
  PROVE  SumOf(f, T) <= SumOf(f, S)
  <1>1. IsFiniteSet(T) /\ IsFiniteSet(S \ T) /\ T \cap (S \ T) = {} /\ T \cup (S \ T) = S
    BY FS_Subset, FS_Difference
  <1>2. \A x \in T \cup (S \ T) : f[x] \in Int
    BY <1>1
  <1>3. SumOf(f, T \cup (S \ T)) = SumOf(f, T) + SumOf(f, S \ T)
    BY <1>1, <1>2, SumUnion
  <1>4. SumOf(f, S) = SumOf(f, T) + SumOf(f, S \ T)
    BY <1>1, <1>3
  <1>5. SumOf(f, T) \in Nat /\ SumOf(f, S \ T) \in Nat
    BY <1>1, SumNat
  <1>6. \A a, b \in Nat : a <= a + b
    OBVIOUS
  <1>7. QED
    BY <1>4, <1>5, <1>6

-----------------------------------------------------------------------------
(* The selection. *)

\* The order of the notes: of any finite read one note comes last.
LEMMA NotesOrdered ==
  ASSUME NEW S, NotesRead(S), NEW m \in S, NEW n \in S
  PROVE  /\ ~Before(m, m)
         /\ m # n => Before(m, n) \/ Before(n, m)
         /\ ~(Before(m, n) /\ Before(n, m))
         /\ \A l \in S : Before(l, m) /\ Before(m, n) => Before(l, n)
  BY DEF NotesRead, Before

\* Of the notes read, one comes last.
LEMMA LastNote ==
  ASSUME NEW S, NotesRead(S), S # {}
  PROVE  \E l \in S : \A m \in S : m # l => Before(m, l)
  <1> DEFINE HasLast(T) == \E l \in T : \A m \in T : m # l => Before(m, l)
             Good == {T \in SUBSET S : T # {} => HasLast(T)}
  <1>1. {} \in Good
    OBVIOUS
  <1>2. ASSUME NEW T \in SUBSET S, T # {}, \A x \in T : T \ {x} \in Good
        PROVE  T \in Good
    <2>1. PICK x \in T : TRUE
      BY <1>2
    <2>2. CASE T \ {x} = {}
      <3>1. T = {x}
        BY <2>2
      <3>2. HasLast(T)
        BY <3>1
      <3>3. QED
        BY <3>2
    <2>3. CASE T \ {x} # {}
      <3>1. HasLast(T \ {x})
        BY <1>2, <2>3
      <3>2. PICK l \in T \ {x} : \A m \in T \ {x} : m # l => Before(m, l)
        BY <3>1
      <3>3. CASE Before(x, l)
        <4>1. HasLast(T)
          BY <3>2, <3>3
        <4>2. QED
          BY <4>1
      <3>4. CASE Before(l, x)
        <4>1. \A m \in T : m # x => Before(m, x)
          <5>1. TAKE m \in T
          <5>2. HAVE m # x
          <5>3. CASE m = l
            BY <3>4, <5>3
          <5>4. CASE m # l
            <6>1. Before(m, l) /\ m \in S /\ l \in S /\ x \in S
              BY <3>2, <5>2, <5>4
            <6>2. QED
              BY <3>4, <6>1, NotesOrdered
          <5>5. QED
            BY <5>3, <5>4
        <4>2. HasLast(T)
          BY <4>1
        <4>3. QED
          BY <4>2
      <3>5. QED
        BY <3>2, <3>3, <3>4, NotesOrdered
    <2>4. QED
      BY <2>2, <2>3
  <1>3. IsFiniteSet(S)
    BY DEF NotesRead
  <1>4. S \in Good
    <2> HIDE DEF Good
    <2>1. QED
      BY <1>1, <1>2, <1>3, SetInduction
  <1>5. QED
    BY <1>4

\* Every place is some note's.
LEMMA PlacesTaken ==
  ASSUME NEW S, NotesRead(S)
  PROVE  \A i \in 0..(Cardinality(S) - 1) :
           \E n \in S : Cardinality({m \in S : Before(m, n)}) = i
  <1> DEFINE Placed(T) == \A i \in 0..(Cardinality(T) - 1) :
                           \E n \in T : Cardinality({m \in T : Before(m, n)}) = i
             Good == {T \in SUBSET S : Placed(T)}
  <1>0. IsFiniteSet(S)
    BY DEF NotesRead
  <1>1. {} \in Good
    <2>1. Placed({})
      BY FS_EmptySet
    <2>2. QED
      BY <2>1
  <1>2. ASSUME NEW T \in SUBSET S, T # {}, \A x \in T : T \ {x} \in Good
        PROVE  T \in Good
    <2>1. NotesRead(T) /\ IsFiniteSet(T)
      <3>1. IsFiniteSet(T)
        BY <1>0, FS_Subset
      <3>2. QED
        BY <3>1 DEF NotesRead
    <2>2. PICK l \in T : \A m \in T : m # l => Before(m, l)
      BY <1>2, <2>1, LastNote
    <2> DEFINE U == T \ {l}
    <2>3. /\ Cardinality(T) \in Nat /\ Cardinality(U) = Cardinality(T) - 1
          /\ Placed(U)
      <3>1. Cardinality(T) \in Nat /\ Cardinality(U) = Cardinality(T) - 1
        BY <2>1, FS_RemoveElement, FS_CardinalityType
      <3>2. U \in Good
        BY <1>2
      <3>3. QED
        BY <3>1, <3>2
    <2>4. ASSUME NEW i \in 0..(Cardinality(T) - 1)
          PROVE  \E n \in T : Cardinality({m \in T : Before(m, n)}) = i
      <3>1. CASE i = Cardinality(T) - 1
        <4>1. {m \in T : Before(m, l)} = U
          BY <2>1, <2>2, NotesOrdered
        <4>2. QED
          BY <2>3, <3>1, <4>1
      <3>2. CASE i # Cardinality(T) - 1
        <4>1. i \in 0..(Cardinality(U) - 1)
          BY <2>3, <3>2
        <4>2. PICK n \in U : Cardinality({m \in U : Before(m, n)}) = i
          BY <2>3, <4>1
        <4>3. n \in T /\ n # l /\ ~Before(l, n)
          BY <2>1, <2>2, NotesOrdered
        <4>4. {m \in U : Before(m, n)} = {m \in T : Before(m, n)}
          BY <4>3
        <4>5. QED
          BY <4>2, <4>3, <4>4
      <3>3. QED
        BY <3>1, <3>2
    <2>5. QED
      BY <2>4
  <1>3. S \in Good
    <2> HIDE DEF Good
    <2>1. QED
      BY <1>0, <1>1, <1>2, SetInduction
  <1>4. QED
    BY <1>3

\* The notes sorted by size are the notes read, each once.
LEMMA FirstIsRead ==
  ASSUME NEW S, NotesRead(S)
  PROVE  /\ LargestFirst(S) \in Seq(S)
         /\ Len(LargestFirst(S)) = Cardinality(S)
  <1>1. Cardinality(S) \in Nat
    BY FS_CardinalityType DEF NotesRead
  <1>2. ASSUME NEW i \in 1..Cardinality(S)
        PROVE  (CHOOSE n \in S : Cardinality({m \in S : Before(m, n)}) = i - 1) \in S
    <2>1. i - 1 \in 0..(Cardinality(S) - 1)
      BY <1>1
    <2>2. \E n \in S : Cardinality({m \in S : Before(m, n)}) = i - 1
      BY <2>1, PlacesTaken
    <2>3. QED
      BY <2>2
  <1>3. LargestFirst(S) \in [1..Cardinality(S) -> S]
    BY <1>2 DEF LargestFirst
  <1>4. QED
    BY <1>1, <1>3

\* The totals of a sequence's beginnings, as sums of one function.
Amounts(seq) == [i \in 1..Len(seq) |-> seq[i].amount]

\* A selection's value is a sum over its places.
LEMMA TotalIsSum ==
  ASSUME NEW seq
  PROVE  Total(seq) = SumOf(Amounts(seq), 1..Len(seq))
  BY Zenon DEF Total, Amounts, SumOf, MapThenSumSet, MapThenFoldSet

\* The value of the first k notes is the sum of the first k amounts.
LEMMA BeginningsTotal ==
  ASSUME NEW S, NEW seq \in Seq(S), \A n \in S : n.amount \in Nat, NEW k \in 0..Len(seq)
  PROVE  /\ Len(SubSeq(seq, 1, k)) = k
         /\ \A i \in 1..k : SubSeq(seq, 1, k)[i] = seq[i]
         /\ Total(SubSeq(seq, 1, k)) = SumOf(Amounts(seq), 1..k)
         /\ Total(SubSeq(seq, 1, k)) \in Nat
  <1> DEFINE sub == SubSeq(seq, 1, k)
  <1>1. Len(sub) = k /\ \A i \in 1..k : sub[i] = seq[i]
    <2>1. \A i \in 1..k : seq[i] \in S
      OBVIOUS
    <2>2. QED
      BY <2>1, SubSeqProperties
  <1>2. \A i \in 1..k : Amounts(sub)[i] = Amounts(seq)[i] /\ Amounts(seq)[i] \in Nat
    BY <1>1 DEF Amounts
  <1>3. IsFiniteSet(1..k)
    BY FS_Interval
  <1>4. SumOf(Amounts(sub), 1..k) = SumOf(Amounts(seq), 1..k)
    BY <1>2, <1>3, SumSame
  <1>5. SumOf(Amounts(seq), 1..k) \in Nat
    BY <1>2, <1>3, SumNat
  <1>6. QED
    BY <1>1, <1>4, <1>5, TotalIsSum

\* More notes are worth no less.
LEMMA TotalsGrow ==
  ASSUME NEW S, NEW seq \in Seq(S), \A n \in S : n.amount \in Nat,
         NEW k \in 0..Len(seq), NEW j \in 0..k
  PROVE  Total(SubSeq(seq, 1, j)) <= Total(SubSeq(seq, 1, k))
  <1>1. j \in 0..Len(seq) /\ 1..j \in SUBSET (1..k)
    OBVIOUS
  <1>2. Total(SubSeq(seq, 1, j)) = SumOf(Amounts(seq), 1..j)
    BY <1>1, BeginningsTotal
  <1>3. Total(SubSeq(seq, 1, k)) = SumOf(Amounts(seq), 1..k)
    BY BeginningsTotal
  <1>4. \A i \in 1..k : Amounts(seq)[i] \in Nat
    BY DEF Amounts
  <1>5. IsFiniteSet(1..k)
    BY FS_Interval
  <1>6. QED
    BY <1>1, <1>2, <1>3, <1>4, <1>5, SumGrows

\* More notes are in no fewer trees.
LEMMA TreesGrow ==
  ASSUME NEW S, NEW seq \in Seq(S), \A n \in S : n.amount \in Nat,
         NEW k \in 0..Len(seq), NEW j \in 0..k
  PROVE  /\ Cardinality(TreesOf(SubSeq(seq, 1, j))) \in Nat
         /\ Cardinality(TreesOf(SubSeq(seq, 1, j))) <= Cardinality(TreesOf(SubSeq(seq, 1, k)))
  <1> DEFINE trees(i) == {seq[x].tree : x \in 1..i}
             f == [x \in 1..k |-> seq[x].tree]
  <1>1. j \in 0..Len(seq) /\ 1..j \in SUBSET (1..k)
    OBVIOUS
  <1>2. TreesOf(SubSeq(seq, 1, j)) = trees(j)
    BY <1>1, BeginningsTotal DEF TreesOf
  <1>3. TreesOf(SubSeq(seq, 1, k)) = trees(k)
    BY BeginningsTotal DEF TreesOf
  <1>4. IsFiniteSet(trees(k))
    <2>1. f \in Surjection(1..k, trees(k))
      BY DEF Surjection
    <2>2. IsFiniteSet(1..k)
      BY FS_Interval
    <2> HIDE DEF f, trees
    <2>3. QED
      BY <2>1, <2>2, FS_Surjection
  <1>5. trees(j) \in SUBSET trees(k)
    BY <1>1
  <1>6. IsFiniteSet(trees(j)) /\ Cardinality(trees(j)) <= Cardinality(trees(k))
    <2> HIDE DEF trees
    <2>1. QED
      BY <1>4, <1>5, FS_Subset
  <1>7. Cardinality(trees(j)) \in Nat
    <2> HIDE DEF trees
    <2>1. QED
      BY <1>6, FS_CardinalityType
  <1>8. QED
    BY <1>2, <1>3, <1>6, <1>7

\* The lesser of two.
LEMMA MinOfTwo ==
  ASSUME NEW a \in Nat, NEW b \in Nat
  PROVE  /\ Min({a, b}) \in Nat
         /\ Min({a, b}) = IF a <= b THEN a ELSE b
  <1>1. CASE a <= b
    <2>1. \A x \in {a, b} : (\A y \in {a, b} : x <= y) => x = a
      BY <1>1
    <2>2. a \in {a, b} /\ \A y \in {a, b} : a <= y
      BY <1>1
    <2>3. Min({a, b}) = a
      BY <2>1, <2>2 DEF Min
    <2>4. QED
      BY <1>1, <2>3
  <1>2. CASE ~(a <= b)
    <2>1. \A x \in {a, b} : (\A y \in {a, b} : x <= y) => x = b
      BY <1>2
    <2>2. b \in {a, b} /\ \A y \in {a, b} : b <= y
      BY <1>2
    <2>3. Min({a, b}) = b
      BY <2>1, <2>2 DEF Min
    <2>4. QED
      BY <1>2, <2>3
  <1>3. QED
    BY <1>1, <1>2
\* The widest shape that fits, within the SDK's cap.
LEMMA InputsCapped ==
  ASSUME NEW w \in Nat
  PROVE  MaxSpendInputs(w) \in Nat /\ MaxSpendInputs(w) <= SdkCap
  <1> DEFINE fit == {s \in Shapes : s[2] >= w}
             firsts == {shape[1] : shape \in fit}
             widths == {0} \cup firsts
  <1>1. IsFiniteSet(fit)
    BY SelectionAssumption, FS_Subset
  <1>2. IsFiniteSet(firsts)
    <2> DEFINE f == [shape \in fit |-> shape[1]]
    <2>1. f \in Surjection(fit, firsts)
      BY DEF Surjection
    <2> HIDE DEF f, firsts, fit
    <2>2. QED
      BY <1>1, <2>1, FS_Surjection
  <1>3. IsFiniteSet(widths)
    <2> HIDE DEF firsts
    <2>1. IsFiniteSet(firsts \cup {0})
      BY <1>2, FS_AddElement
    <2>2. widths = firsts \cup {0}
      OBVIOUS
    <2> HIDE DEF widths
    <2>3. QED
      BY <2>1, <2>2
  <1>4. widths \subseteq Nat /\ widths # {}
    BY SelectionAssumption
  <1>5. Max(widths) \in Nat
    <2> HIDE DEF widths
    <2>1. widths \subseteq Int
      BY <1>4
    <2>2. Max(widths) \in widths
      BY ONLY <1>3, <1>4, <2>1, Bounds
    <2>3. QED
      BY <1>4, <2>2
  <1> DEFINE m == Max(widths)
             caps == {SdkCap, m}
  <1>6. SdkCap \in Nat
    BY SelectionAssumption
  <1>7. MaxSpendInputs(w) = Min(caps)
    BY DEF MaxSpendInputs
  <1>8. m \in Nat
    BY <1>5
  <1> HIDE DEF m
  <1>9. Min(caps) \in Nat /\ Min(caps) = IF SdkCap <= m THEN SdkCap ELSE m
    BY <1>6, <1>8, MinOfTwo
  <1> HIDE DEF caps
  <1>10. QED
    BY <1>6, <1>7, <1>8, <1>9

\* What the SDK selects: the shortest beginning that covers the amount, or
\* nothing.
LEMMA SdkSelection ==
  ASSUME NEW notes, NotesRead(notes), NEW held, NEW a, NEW amount \in Nat
  PROVE  LET free == LargestFirst(Candidates(notes, held, a))
             k == Min(Covers(free, amount))
             sel == SdkSelects(notes, held, a, amount)
         IN  /\ free \in Seq(Candidates(notes, held, a))
             /\ Covers(free, amount) # {} => k \in Covers(free, amount) /\ \A j \in Covers(free, amount) : k <= j
             /\ sel.error = "none" <=>
                  /\ amount > 0 /\ Covers(free, amount) # {}
                  /\ k <= SdkCap /\ Cardinality(TreesOf(SubSeq(free, 1, k))) <= MaxTrees
             /\ sel.error = "none" => sel.taken = SubSeq(free, 1, k) /\ Len(sel.taken) = k
  <1> DEFINE C == Candidates(notes, held, a)
             free == LargestFirst(C)
             cov == Covers(free, amount)
             k == Min(cov)
             taken == SubSeq(free, 1, k)
             trees == Cardinality(TreesOf(taken))
             verdict == CASE Len(taken) > SdkCap -> "MergeRequired"
                          [] Len(taken) <= SdkCap /\ Cardinality(TreesOf(taken)) > MaxTrees -> "TooManyInputTrees"
                          [] OTHER -> "none"
             sel == SdkSelects(notes, held, a, amount)
  <1> SUFFICES /\ free \in Seq(C)
               /\ cov # {} => k \in cov /\ \A j \in cov : k <= j
               /\ sel.error = "none" <=> amount > 0 /\ cov # {} /\ k <= SdkCap /\ trees <= MaxTrees
               /\ sel.error = "none" => sel.taken = taken /\ Len(sel.taken) = k
    OBVIOUS
  <1>1. NotesRead(C) /\ \A n \in C : n.amount \in Nat
    <2>1. C \in SUBSET notes
      BY DEF Candidates
    <2> HIDE DEF C
    <2>2. IsFiniteSet(C)
      BY <2>1, FS_Subset DEF NotesRead
    <2>3. QED
      BY <2>1, <2>2 DEF NotesRead
  <1>2. free \in Seq(C)
    <2> HIDE DEF C
    <2>1. QED
      BY <1>1, FirstIsRead
  <1>3. cov \subseteq 1..Len(free) /\ Len(free) \in Nat
    BY <1>2 DEF Covers
  <1>4. cov # {} => k \in cov /\ \A j \in cov : k <= j
    <2> HIDE DEF cov, free
    <2>1. IsFiniteSet(1..Len(free))
      BY <1>3, FS_Interval
    <2>2. IsFiniteSet(cov)
      BY <1>3, <2>1, FS_Subset
    <2>3. cov \subseteq Int
      BY <1>3
    <2>4. SUFFICES ASSUME cov # {} PROVE k \in cov /\ \A j \in cov : k <= j
      OBVIOUS
    <2>5. QED
      BY ONLY <2>2, <2>3, <2>4, Bounds
  <1>5. cov # {} => Len(taken) = k /\ k \in Nat /\ trees \in Nat
    <2> SUFFICES ASSUME cov # {} PROVE Len(taken) = k /\ k \in Nat /\ trees \in Nat
      OBVIOUS
    <2>1. k \in 0..Len(free)
      <3>1. k \in cov
        BY <1>4
      <3> HIDE DEF cov, k, free
      <3>2. k \in 1..Len(free)
        BY <1>3, <3>1
      <3>3. QED
        BY <1>3, <3>2
    <2> HIDE DEF C, free, k
    <2>2. k \in 0..k
      BY <2>1
    <2>3. QED
      BY <1>1, <1>2, <2>1, <2>2, BeginningsTotal, TreesGrow
  <1>6. SdkCap \in Nat /\ MaxTrees \in Nat
    BY SelectionAssumption
  <1>7. CASE amount = 0
    <2>0. ~(amount > 0)
      BY <1>7
    <2>1. sel = [error |-> "AmountZero", taken |-> <<>>]
      BY Zenon, <1>7, <2>0 DEF SdkSelects
    <2>2. sel.error = "AmountZero"
      BY <2>1
    <2> HIDE DEF sel, cov, free, k, trees, taken, C
    <2>3. QED
      BY <1>2, <1>4, <1>7, <2>2
  <1>8. CASE amount > 0 /\ cov = {}
    <2>1. amount # 0
      BY <1>8
    <2>2. sel = [error |-> IF Covers(LargestFirst(Candidates(notes, {}, a)), amount) # {}
                           THEN "NotesReserved" ELSE "InsufficientPrivateBalance",
                 taken |-> <<>>]
      BY <1>8, <2>1 DEF SdkSelects
    <2>3. sel.error # "none"
      <3> HIDE DEF sel
      <3>1. QED
        BY <2>2
    <2> HIDE DEF sel, cov, free, k, trees, taken, C
    <2>4. QED
      BY <1>2, <1>8, <2>3
  <1>9. CASE amount > 0 /\ cov # {}
    <2>1. amount # 0
      BY <1>9
    <2>2. sel = [error |-> verdict, taken |-> taken]
      BY Zenon, <1>9, <2>1 DEF SdkSelects
    <2>3. Len(taken) = k /\ k \in Nat /\ trees \in Nat
      BY <1>5, <1>9
    <2>4. verdict = "none" <=> k <= SdkCap /\ trees <= MaxTrees
      <3> HIDE DEF taken, k
      <3>1. QED
        BY <1>6, <2>3
    <2>5. sel.error = verdict /\ sel.taken = taken
      <3> HIDE DEF sel, verdict, taken
      <3>1. QED
        BY <2>2
    <2>6. sel.error = "none" <=> k <= SdkCap /\ trees <= MaxTrees
      <3> HIDE DEF sel, verdict, trees, k
      <3>1. QED
        BY <2>4, <2>5
    <2>7. cov # {} => k \in cov /\ \A j \in cov : k <= j
      BY <1>4
    <2>8. QED
      <3> HIDE DEF sel, cov, free, k, verdict, C, trees, taken
      <3>1. QED
        BY <1>2, <1>9, <2>3, <2>5, <2>6, <2>7
  <1>10. QED
    BY <1>7, <1>8, <1>9

\* The beginnings that fit are those up to the longest of them.
LEMMA LongestFits ==
  ASSUME NEW S, NEW seq \in Seq(S), \A n \in S : n.amount \in Nat, NEW cap \in Nat
  PROVE  LET fits == {k \in 0..Min({cap, Len(seq)}) : Cardinality(TreesOf(SubSeq(seq, 1, k))) <= MaxTrees}
         IN  /\ Max(fits) \in 0..Len(seq)
             /\ \A k \in 0..Len(seq) :
                  k <= Max(fits) <=> k <= cap /\ Cardinality(TreesOf(SubSeq(seq, 1, k))) <= MaxTrees
  <1> DEFINE trees(k) == Cardinality(TreesOf(SubSeq(seq, 1, k)))
             most == Min({cap, Len(seq)})
             fits == {k \in 0..most : trees(k) <= MaxTrees}
  <1>1. Len(seq) \in Nat /\ most \in Nat /\ most = IF cap <= Len(seq) THEN cap ELSE Len(seq)
    BY MinOfTwo
  <1>2. \A k \in 0..Len(seq), j \in 0..Len(seq) : j <= k => trees(j) <= trees(k) /\ trees(j) \in Nat
    <2>1. TAKE k \in 0..Len(seq), j \in 0..Len(seq)
    <2>2. HAVE j <= k
    <2>3. j \in 0..k
      BY <2>2
    <2>4. QED
      BY <2>3, TreesGrow
  <1>3. \A k \in 0..Len(seq) : trees(k) \in Nat
    BY <1>1, <1>2
  <1>4. 0 \in fits
    <2>1. TreesOf(SubSeq(seq, 1, 0)) = {}
      <3>1. Len(SubSeq(seq, 1, 0)) = 0
        BY BeginningsTotal
      <3>2. QED
        BY <3>1 DEF TreesOf
    <2>2. trees(0) = 0
      BY <2>1, FS_EmptySet
    <2>3. QED
      BY <1>1, <2>2, SelectionAssumption
  <1>5. Max(fits) \in fits /\ \A k \in fits : k <= Max(fits)
    <2>1. IsFiniteSet(0..most) /\ fits \in SUBSET (0..most)
      BY <1>1, FS_Interval
    <2>2. fits \subseteq Int
      BY <1>1
    <2> HIDE DEF fits
    <2>3. IsFiniteSet(fits) /\ fits \subseteq Int /\ fits # {}
      BY <1>4, <2>1, <2>2, FS_Subset
    <2>4. QED
      BY <2>3, Bounds
  <1> DEFINE top == Max(fits)
  <1>6. top \in 0..Len(seq) /\ top <= cap /\ trees(top) <= MaxTrees
    <2>1. top \in 0..most /\ trees(top) <= MaxTrees
      BY <1>5
    <2> HIDE DEF top, most
    <2>2. QED
      BY <1>1, <2>1
  <1>7. ASSUME NEW k \in 0..Len(seq)
        PROVE  k <= top <=> k <= cap /\ trees(k) <= MaxTrees
    <2>1. ASSUME k <= top PROVE k <= cap /\ trees(k) <= MaxTrees
      <3>1. trees(k) <= trees(top) /\ trees(k) \in Nat /\ trees(top) \in Nat
        <4> HIDE DEF trees, top
        <4>1. QED
          BY <1>2, <1>3, <1>6, <2>1
      <3> HIDE DEF trees, top
      <3>2. QED
        BY <1>1, <1>6, <2>1, <3>1, SelectionAssumption
    <2>2. ASSUME k <= cap, trees(k) <= MaxTrees PROVE k <= top
      <3>1. k \in 0..most
        <4> HIDE DEF most
        <4>1. QED
          BY <1>1, <2>2
      <3>2. k \in fits
        BY <2>2, <3>1
      <3>3. QED
        BY <1>5, <3>2
    <2>3. QED
      BY <2>1, <2>2
  <1>8. QED
    BY <1>6, <1>7

\* "Every amount up to it selects; one more fails."
LEMMA LimitExact ==
  ASSUME NEW notes, NotesRead(notes), NEW held, NEW a, NEW configured \in Nat,
         NEW w \in Nat, NEW amount \in 0..MaxAmount
  PROVE  (SelectNotes(notes, held, a, amount, w, configured).error = "none")
           <=> amount \in 1..SpendLimit(notes, held, a, Min({configured, MaxSpendInputs(w)}))
  <1> DEFINE C == Candidates(notes, held, a)
             free == LargestFirst(C)
             cap == Min({configured, MaxSpendInputs(w)})
             cov == Covers(free, amount)
             k == Min(cov)
             sel == SdkSelects(notes, held, a, amount)
             trees(i) == Cardinality(TreesOf(SubSeq(free, 1, i)))
             total(i) == Total(SubSeq(free, 1, i))
             fits == {i \in 0..Min({cap, Len(free)}) : trees(i) <= MaxTrees}
             top == Max(fits)
  <1>1. MaxAmount \in Nat /\ SdkCap \in Nat /\ MaxTrees \in Nat /\ amount \in Nat
    BY SelectionAssumption
  <1>2. cap \in Nat /\ cap <= SdkCap
    <2>1. MaxSpendInputs(w) \in Nat /\ MaxSpendInputs(w) <= SdkCap
      BY InputsCapped
    <2>2. QED
      BY <1>1, <2>1, MinOfTwo
  <1>3. \A n \in C : n.amount \in Nat
    BY DEF Candidates, NotesRead
  <1>4. free \in Seq(C)
    BY <1>1, SdkSelection
  <1>5. cov # {} => k \in cov /\ \A j \in cov : k <= j
    BY <1>1, SdkSelection
  <1>6. sel.error = "none" <=> amount > 0 /\ cov # {} /\ k <= SdkCap /\ trees(k) <= MaxTrees
    BY <1>1, SdkSelection
  <1>7. sel.error = "none" => Len(sel.taken) = k
    BY <1>1, SdkSelection
  <1>8. /\ top \in 0..Len(free)
        /\ \A i \in 0..Len(free) : i <= top <=> i <= cap /\ trees(i) <= MaxTrees
    <2> HIDE DEF C, free, cap
    <2>1. QED
      BY <1>2, <1>3, <1>4, LongestFits DEF top, fits, trees
  <1>9. \A i \in 0..Len(free) : total(i) \in Nat
    <2> HIDE DEF C, free
    <2>1. QED
      BY <1>3, <1>4, BeginningsTotal
  <1>10. \A i, j \in 0..Len(free) : j <= i => total(j) <= total(i)
    <2> HIDE DEF C, free
    <2> SUFFICES ASSUME NEW i \in 0..Len(free), NEW j \in 0..Len(free), j <= i
                 PROVE  total(j) <= total(i)
      OBVIOUS
    <2>1. j \in 0..i
      OBVIOUS
    <2>2. QED
      BY <1>3, <1>4, <2>1, TotalsGrow
  <1>11. total(0) = 0
    <2> HIDE DEF C, free
    <2>1. Len(free) \in Nat /\ 0 \in 0..Len(free)
      BY <1>4
    <2>2. total(0) = SumOf(Amounts(free), 1..0)
      BY <1>3, <1>4, <2>1, BeginningsTotal
    <2>3. 1..0 = {}
      OBVIOUS
    <2>4. QED
      BY <2>2, <2>3, SumEmpty
  <1>12. cov = {i \in 1..Len(free) : total(i) >= amount} /\ Len(free) \in Nat
    BY <1>4 DEF Covers
  <1>13. SpendLimit(notes, held, a, cap) = Min({MaxAmount, total(top)})
    BY DEF SpendLimit, Takeable
  <1>14. amount \in 1..SpendLimit(notes, held, a, cap) <=> amount > 0 /\ total(top) >= amount
    <2>1. total(top) \in Nat
      BY <1>8, <1>9
    <2> HIDE DEF top, total, cap
    <2>2. SpendLimit(notes, held, a, cap) = IF MaxAmount <= total(top) THEN MaxAmount ELSE total(top)
      BY <1>1, <1>13, <2>1, MinOfTwo
    <2>3. QED
      BY <1>1, <2>1, <2>2
  <1>15. (SelectNotes(notes, held, a, amount, w, configured).error = "none")
           <=> sel.error = "none" /\ k <= cap
    <2>1. SelectNotes(notes, held, a, amount, w, configured) = WithinCap(sel, cap)
      BY DEF SelectNotes
    <2>2. CASE sel.error = "none"
      <3>1. Len(sel.taken) = k /\ k \in Nat
        <4>1. k \in cov
          BY <1>5, <1>6, <2>2
        <4> HIDE DEF k, cov
        <4>2. QED
          BY <1>7, <1>12, <2>2, <4>1
      <3> HIDE DEF sel, k, cap
      <3>2. QED
        BY <1>2, <2>1, <2>2, <3>1 DEF WithinCap
    <2>3. CASE sel.error # "none"
      <3> HIDE DEF sel, k, cap
      <3>1. QED
        BY <2>1, <2>3 DEF WithinCap
    <2>4. QED
      BY <2>2, <2>3
  <1>16. ASSUME sel.error = "none", k <= cap
         PROVE  amount > 0 /\ total(top) >= amount
    <2>1. amount > 0 /\ cov # {} /\ trees(k) <= MaxTrees /\ k \in cov
      BY <1>5, <1>6, <1>16
    <2>2. k \in 0..Len(free) /\ total(k) >= amount
      <3> HIDE DEF k, cov
      <3>1. QED
        BY <1>12, <2>1
    <2> HIDE DEF k, top, trees, total, cov, cap, free, sel
    <2>3. k <= top
      BY <1>8, <1>16, <2>1, <2>2
    <2>4. total(k) <= total(top) /\ total(k) \in Nat /\ total(top) \in Nat
      BY <1>8, <1>9, <1>10, <2>2, <2>3
    <2>5. QED
      BY <1>1, <2>1, <2>2, <2>4
  <1>17. ASSUME amount > 0, total(top) >= amount
         PROVE  sel.error = "none" /\ k <= cap
    <2>1. top \in cov
      <3> HIDE DEF k, top, trees, total, cov, cap, free, sel
      <3>1. top # 0
        BY <1>1, <1>11, <1>17
      <3>2. QED
        BY <1>8, <1>12, <1>17, <3>1
    <2>2. k \in cov /\ k <= top
      BY <1>5, <2>1
    <2> HIDE DEF k, top, trees, total, cov, cap, free, sel
    <2>3. k \in 0..Len(free) /\ cov # {}
      BY <1>12, <2>2
    <2>4. k <= cap /\ trees(k) <= MaxTrees
      BY <1>8, <2>2, <2>3
    <2>5. k <= SdkCap
      BY <1>1, <1>2, <2>3, <2>4
    <2>6. QED
      BY <1>6, <1>17, <2>3, <2>4, <2>5
  <1>18. QED
    BY <1>14, <1>15, <1>16, <1>17

-----------------------------------------------------------------------------
(* The rows of a lookup. *)

\* What a well-formed transaction holds, read field by field.
LEMMA EventFields ==
  ASSUME NEW tx, WellFormed(tx)
  PROVE  /\ Len(tx) \in Nat
         /\ \A i \in 1..Len(tx) : tx[i] \in ShieldedEvent
  BY DEF WellFormed

\* What an event of the pool holds, read field by field.
LEMMA SlotFields ==
  ASSUME NEW e \in ShieldedEvent
  PROVE  /\ e.kind \in {"transact", "merge", "proofless"} /\ e.id \in Nat
         /\ Len(e.outs) \in Nat /\ Len(e.legs) \in Nat
         /\ \A a \in Assets : e.inputs[a] \in Nat
         /\ \A j \in 1..Len(e.outs) : /\ e.outs[j].amount \in Nat /\ e.outs[j].asset \in Assets
                                      /\ e.outs[j].pad \in BOOLEAN
         /\ \A j \in 1..Len(e.legs) : /\ e.legs[j].asset \in Assets /\ e.legs[j].deposit \in BOOLEAN
                                      /\ LegFlow(e.legs[j]) \in Int
  <1>1. /\ e.kind \in {"transact", "merge", "proofless"} /\ e.id \in Nat
        /\ e.inputs \in [Assets -> Nat]
        /\ e.outs \in Seq(OutputSlot) /\ e.legs \in Seq(Settlement)
    BY DEF ShieldedEvent
  <1>2. ASSUME NEW j \in 1..Len(e.outs)
        PROVE  /\ e.outs[j].amount \in Nat /\ e.outs[j].asset \in Assets /\ e.outs[j].pad \in BOOLEAN
    <2>1. e.outs[j] \in OutputSlot
      BY <1>1
    <2>2. QED
      BY <2>1 DEF OutputSlot
  <1>3. ASSUME NEW j \in 1..Len(e.legs)
        PROVE  /\ e.legs[j].asset \in Assets /\ e.legs[j].deposit \in BOOLEAN
               /\ LegFlow(e.legs[j]) \in Int
    <2>1. e.legs[j] \in Settlement
      BY <1>1
    <2>2. e.legs[j].amount \in Nat
      BY <2>1 DEF Settlement
    <2>3. QED
      BY <2>1, <2>2 DEF Settlement, LegFlow
  <1>4. QED
    BY <1>1, <1>2, <1>3

\* The places of a sequence are finitely many.
LEMMA UpToFinite == \A n \in Nat : IsFiniteSet(1..n)
  BY FS_Interval

\* A transaction's outputs are finitely many; each is named by its event
\* and its place there.
LEMMA SlotsFinite ==
  ASSUME NEW tx, WellFormed(tx)
  PROVE  /\ IsFiniteSet(Slots(tx))
         /\ \A p \in Slots(tx) : /\ p = <<p[1], p[2]>>
                                 /\ p[1] \in 1..Len(tx) /\ p[2] \in 1..Len(tx[p[1]].outs)
         /\ \A i \in 1..Len(tx) : \A j \in 1..Len(tx[i].outs) :
              <<i, j>> \in Slots(tx) /\ OutAt(tx, <<i, j>>) = tx[i].outs[j]
  <1> DEFINE row(i) == {<<i, j>> : j \in 1..Len(tx[i].outs)}
             rows == {row(i) : i \in 1..Len(tx)}
  <1>1. \A i \in 1..Len(tx) : IsFiniteSet(row(i))
    <2> SUFFICES ASSUME NEW i \in 1..Len(tx) PROVE IsFiniteSet(row(i))
      OBVIOUS
    <2> DEFINE f == [j \in 1..Len(tx[i].outs) |-> <<i, j>>]
               T == row(i)
    <2>0. Len(tx[i].outs) \in Nat
      BY EventFields, SlotFields
    <2>1. IsFiniteSet(1..Len(tx[i].outs))
      BY <2>0, UpToFinite
    <2>2. f \in Surjection(1..Len(tx[i].outs), T)
      BY DEF Surjection
    <2>3. IsFiniteSet(T)
      <3> HIDE DEF f, T
      <3>1. QED
        BY <2>1, <2>2, FS_Surjection
    <2>4. QED
      BY <2>3
  <1>2. IsFiniteSet(rows)
    <2> DEFINE f == [i \in 1..Len(tx) |-> row(i)]
               T == rows
    <2>1. IsFiniteSet(1..Len(tx))
      BY EventFields, FS_Interval
    <2>2. f \in Surjection(1..Len(tx), T)
      <3> HIDE DEF row
      <3>1. QED
        BY DEF Surjection
    <2>3. IsFiniteSet(T)
      <3> HIDE DEF f, T
      <3>1. QED
        BY <2>1, <2>2, FS_Surjection
    <2>4. QED
      BY <2>3
  <1>3. IsFiniteSet(UNION rows)
    <2>1. \A T \in rows : IsFiniteSet(T)
      <3> HIDE DEF row
      <3>1. QED
        BY <1>1
    <2> HIDE DEF rows
    <2>2. QED
      BY <1>2, <2>1, FS_UNION
  <1>4. UNION rows = Slots(tx)
    BY DEF Slots
  <1>5. QED
    BY <1>3, <1>4 DEF Slots, OutAt

\* Of the places that publish a note one is the first.
LEMMA FirstPlace ==
  ASSUME NEW tx, WellFormed(tx), NEW q \in Slots(tx)
  PROVE  \E p \in Slots(tx) : /\ OutAt(tx, p) = OutAt(tx, q)
                              /\ \A s \in Slots(tx) : Earlier(s, p) => OutAt(tx, s).note # OutAt(tx, p).note
  <1> DEFINE same == {p \in Slots(tx) : OutAt(tx, p).note = OutAt(tx, q).note}
             events == {i \in 1..Len(tx) : \E p \in same : p[1] = i}
             i == Min(events)
             places == {j \in 1..Len(tx[i].outs) : \E p \in same : p = <<i, j>>}
             j == Min(places)
  <1>1. Len(tx) \in Nat /\ \A x \in 1..Len(tx) : Len(tx[x].outs) \in Nat
    BY EventFields, SlotFields
  <1>2. \A p \in same : p \in Slots(tx) /\ p = <<p[1], p[2]>> /\ p[1] \in 1..Len(tx) /\ p[2] \in 1..Len(tx[p[1]].outs)
    BY SlotsFinite
  <1>3. q \in same
    OBVIOUS
  <1>4. i \in events /\ \A x \in events : i <= x
    <2>1. IsFiniteSet(1..Len(tx))
      BY <1>1, FS_Interval
    <2>2. events \in SUBSET (1..Len(tx)) /\ events # {}
      <3> HIDE DEF same
      <3>1. QED
        BY <1>2, <1>3
    <2>3. events \subseteq Int
      BY <2>2
    <2> HIDE DEF events
    <2>4. IsFiniteSet(events)
      BY <2>1, <2>2, FS_Subset
    <2>5. QED
      BY ONLY <2>2, <2>3, <2>4, Bounds
  <1>5. PICK o \in same : o[1] = i
    BY <1>4
  <1>6. i \in 1..Len(tx) /\ Len(tx[i].outs) \in Nat
    <2>1. i \in 1..Len(tx)
      BY <1>4
    <2> HIDE DEF i
    <2>2. QED
      BY <1>1, <2>1
  <1>7. j \in places /\ \A x \in places : j <= x
    <2> HIDE DEF i
    <2>1. IsFiniteSet(1..Len(tx[i].outs))
      BY <1>6, UpToFinite
    <2>2. places \in SUBSET (1..Len(tx[i].outs)) /\ o[2] \in places
      <3>1. o = <<i, o[2]>> /\ o[2] \in 1..Len(tx[i].outs)
        <4> HIDE DEF same
        <4>1. QED
          BY <1>2, <1>5
      <3> HIDE DEF same
      <3>2. QED
        BY <3>1, <1>5
    <2>3. places \subseteq Int
      BY <2>2
    <2> HIDE DEF places
    <2>4. IsFiniteSet(places)
      BY <2>1, <2>2, FS_Subset
    <2>5. QED
      BY ONLY <2>2, <2>3, <2>4, Bounds
  <1>8. PICK p \in same : p = <<i, j>>
    BY <1>7
  <1>9. OutAt(tx, p) = OutAt(tx, q)
    BY DEF WellFormed
  <1>10. ASSUME NEW s \in Slots(tx), Earlier(s, p), OutAt(tx, s).note = OutAt(tx, p).note
         PROVE  FALSE
    <2>1. s \in same
      BY <1>10
    <2>2. s = <<s[1], s[2]>> /\ s[1] \in events /\ s[2] \in Int /\ s[1] \in Int
      <3>1. s = <<s[1], s[2]>> /\ s[1] \in 1..Len(tx) /\ s[2] \in 1..Len(tx[s[1]].outs)
        BY <1>2, <2>1
      <3>2. QED
        BY <2>1, <3>1
    <2>3. i <= s[1] /\ i \in Int
      <3> HIDE DEF i
      <3>1. QED
        BY <1>4, <1>6, <2>2
    <2>4. p[1] = i /\ p[2] = j
      BY <1>8
    <2>5. s[1] = i /\ s[2] < j
      <3> HIDE DEF i, j
      <3>1. QED
        BY <1>10, <2>2, <2>3, <2>4 DEF Earlier
    <2>6. s[2] \in places
      <3>1. s = <<i, s[2]>> /\ s[2] \in 1..Len(tx[i].outs)
        <4> HIDE DEF i, j, same
        <4>1. QED
          BY <1>2, <2>1, <2>2, <2>5
      <3> HIDE DEF i, same
      <3>2. QED
        BY <2>1, <3>1
    <2>7. j <= s[2] /\ j \in Int
      <3>1. j \in 1..Len(tx[i].outs)
        BY <1>7
      <3>2. j <= s[2]
        <4> HIDE DEF j, places
        <4>1. QED
          BY <1>7, <2>6
      <3> HIDE DEF i, j
      <3>3. QED
        BY <1>6, <3>1, <3>2
    <2> HIDE DEF j
    <2>8. QED
      BY <2>2, <2>5, <2>7
  <1>11. p \in Slots(tx)
    BY <1>8
  <1>12. QED
    BY <1>9, <1>10, <1>11

\* Of the events of one spend one is the first.
LEMMA FirstEvent ==
  ASSUME NEW tx, WellFormed(tx), NEW e \in Events(tx)
  PROVE  \E i \in Fresh(tx) : tx[i] = e
  <1>1. PICK k \in 1..Len(tx) : tx[k] = e
    BY DEF Events
  <1> DEFINE same == {i \in 1..Len(tx) : tx[i].id = tx[k].id}
             f == Min(same)
  <1>2. Len(tx) \in Nat
    BY EventFields
  <1>3. f \in same /\ \A x \in same : f <= x
    <2>1. IsFiniteSet(1..Len(tx))
      BY <1>2, FS_Interval
    <2>2. same \in SUBSET (1..Len(tx)) /\ k \in same
      OBVIOUS
    <2>3. same \subseteq Int
      BY <2>2
    <2> HIDE DEF same
    <2>4. IsFiniteSet(same)
      BY <2>1, <2>2, FS_Subset
    <2>5. QED
      BY ONLY <2>2, <2>3, <2>4, Bounds
  <1>4. f \in 1..Len(tx) /\ tx[f].id = tx[k].id
    BY <1>3
  <1>5. tx[f] = e
    <2> HIDE DEF f
    <2>1. QED
      BY <1>1, <1>4 DEF WellFormed
  <1>6. ASSUME NEW j \in 1..(f - 1), tx[j].id = tx[f].id PROVE FALSE
    <2>1. f \in Int
      BY <1>4
    <2> HIDE DEF f
    <2>2. j \in 1..Len(tx) /\ j < f
      BY <1>2, <1>4, <2>1
    <2>3. tx[j].id = tx[k].id
      BY <1>4, <1>6
    <2>4. j \in same
      BY <2>2, <2>3
    <2> HIDE DEF same
    <2>5. QED
      BY <1>3, <2>1, <2>2, <2>4
  <1>7. f \in Fresh(tx)
    <2> HIDE DEF f
    <2>1. QED
      BY <1>4, <1>6 DEF Fresh
  <1>8. QED
    BY <1>5, <1>7

\* What the lookup counts as received is what came.
LEMMA CountedCame ==
  ASSUME NEW tx, WellFormed(tx), NEW K, NEW a \in K
  PROVE  Received(tx, K, a) = Came(tx, a) /\ Came(tx, a) \in Nat
  <1> DEFINE S == {p \in Counted(tx, K) : OutAt(tx, p).asset = a}
             T == OwnOutputs(tx, a)
             g == [p \in S |-> OutAt(tx, p)]
             h == [p \in S |-> OutAt(tx, p).amount]
             f == [out \in T |-> out.amount]
  <1>1. IsFiniteSet(S)
    <2>1. S \in SUBSET Slots(tx)
      BY DEF Counted
    <2> HIDE DEF S
    <2>2. QED
      BY <2>1, SlotsFinite, FS_Subset
  <1>2. \A p, q \in S : g[p] = g[q] => p = q
    <2> SUFFICES ASSUME NEW p \in S, NEW q \in S, OutAt(tx, p) = OutAt(tx, q) PROVE p = q
      OBVIOUS
    <2>1. p \in Slots(tx) /\ q \in Slots(tx)
      BY DEF Counted
    <2>2. ~Earlier(p, q) /\ ~Earlier(q, p)
      BY <2>1 DEF Counted
    <2>3. /\ p = <<p[1], p[2]>> /\ p[1] \in 1..Len(tx) /\ p[2] \in 1..Len(tx[p[1]].outs)
          /\ q = <<q[1], q[2]>> /\ q[1] \in 1..Len(tx) /\ q[2] \in 1..Len(tx[q[1]].outs)
      BY <2>1, SlotsFinite
    <2>4. p[1] \in Int /\ p[2] \in Int /\ q[1] \in Int /\ q[2] \in Int
      BY <2>3
    <2>5. p[1] = q[1] /\ p[2] = q[2]
      BY <2>2, <2>4 DEF Earlier
    <2>6. QED
      BY <2>3, <2>5
  <1>3. {g[p] : p \in S} = T
    <2>1. ASSUME NEW p \in S PROVE OutAt(tx, p) \in T
      <3>1. p \in Slots(tx) /\ Mine(OutAt(tx, p), K) /\ OutAt(tx, p).asset = a
        BY DEF Counted
      <3>2. p[1] \in 1..Len(tx) /\ p[2] \in 1..Len(tx[p[1]].outs) /\ OutAt(tx, p) = tx[p[1]].outs[p[2]]
        BY <3>1, SlotsFinite DEF OutAt
      <3>3. QED
        BY <3>1, <3>2 DEF OwnOutputs, Events, Mine
    <2>2. ASSUME NEW out \in T PROVE \E p \in S : OutAt(tx, p) = out
      <3>0. PICK i \in 1..Len(tx) : \E j \in 1..Len(tx[i].outs) : out = tx[i].outs[j]
        BY DEF OwnOutputs, Events
      <3>1. PICK j \in 1..Len(tx[i].outs) : out = tx[i].outs[j]
        BY <3>0
      <3>2. <<i, j>> \in Slots(tx) /\ OutAt(tx, <<i, j>>) = out
        BY <3>1, SlotsFinite
      <3>3. PICK p \in Slots(tx) : /\ OutAt(tx, p) = out
                                   /\ \A s \in Slots(tx) : Earlier(s, p) => OutAt(tx, s).note # OutAt(tx, p).note
        BY <3>2, FirstPlace
      <3>4. Mine(out, K) /\ out.asset = a
        BY DEF OwnOutputs, Mine
      <3>5. p \in S
        BY <3>3, <3>4 DEF Counted
      <3>6. QED
        BY <3>3, <3>5
    <2>3. \A p \in S : g[p] = OutAt(tx, p)
      OBVIOUS
    <2> HIDE DEF S, T, g
    <2>4. QED
      BY <2>1, <2>2, <2>3
  <1>4. \A p \in S : f[g[p]] \in Nat /\ h[p] = f[g[p]]
    <2> SUFFICES ASSUME NEW p \in S PROVE f[g[p]] \in Nat /\ h[p] = f[g[p]]
      OBVIOUS
    <2>1. g[p] = OutAt(tx, p) /\ g[p] \in T /\ h[p] = OutAt(tx, p).amount
      <3>1. g[p] \in T
        <4> HIDE DEF S, T, g
        <4>1. QED
          BY <1>3
      <3>2. QED
        BY <3>1
    <2>2. OutAt(tx, p).amount \in Nat
      <3>1. p \in Slots(tx)
        BY DEF Counted
      <3>2. tx[p[1]] \in ShieldedEvent /\ p[2] \in 1..Len(tx[p[1]].outs)
        BY <3>1, SlotsFinite, EventFields
      <3>3. QED
        BY <3>2, SlotFields DEF OutAt
    <2> HIDE DEF S, T, g, h
    <2>3. QED
      BY <2>1, <2>2
  <1>5. SumOf(h, S) = SumOf(f, {g[p] : p \in S}) /\ SumOf(h, S) \in Nat
    <2> HIDE DEF S, T, f, g, h
    <2>1. \A p \in S : h[p] \in Nat
      BY <1>4
    <2>2. \A p \in S : f[g[p]] \in Int /\ h[p] = f[g[p]]
      BY <1>4
    <2>3. QED
      BY <1>1, <1>2, <2>1, <2>2, SumRenamed, SumNat
  <1>6. SumOf(h, S) = SumOf(f, T) /\ SumOf(h, S) \in Nat
    <2> HIDE DEF S, T, f, g, h
    <2>1. QED
      BY <1>3, <1>5
  <1>7. Received(tx, K, a) = SumOf(h, S)
    BY ZenonT(60) DEF Received, SumOf, MapThenSumSet, MapThenFoldSet
  <1>8. Came(tx, a) = SumOf(f, T)
    BY Zenon DEF Came, SumOf, MapThenSumSet, MapThenFoldSet
  <1>9. QED
    <2> HIDE DEF S, T, f, g, h
    <2>1. QED
      BY <1>6, <1>7, <1>8

\* A spend in this wallet's books: what it kept and what left is what it took.
Values(e) == [j \in 1..Len(e.outs) |-> e.outs[j].amount]
Flows(e) == [j \in 1..Len(e.legs) |-> LegFlow(e.legs[j])]
OwnSlots(e, K, a) == {j \in 1..Len(e.outs) : Mine(e.outs[j], K) /\ e.outs[j].asset = a}
PaidSlots(e, K, a) == {j \in Paid(e, K) : e.outs[j].asset = a}
RealSlots(e, a) == {j \in 1..Len(e.outs) : ~e.outs[j].pad /\ e.outs[j].asset = a}
SettledLegs(e, K, a) == {j \in Settled(e, K) : e.legs[j].asset = a}
LegsOf(e, a) == {j \in 1..Len(e.legs) : e.legs[j].asset = a}

\* The books of one event as sums over its outputs' and legs' places.
LEMMA BookSums ==
  ASSUME NEW e, NEW K, NEW a
  PROVE  /\ Kept(e, K, a) = SumOf(Values(e), OwnSlots(e, K, a))
         /\ Net(e, K, a) = SumOf(Values(e), PaidSlots(e, K, a)) + SumOf(Flows(e), SettledLegs(e, K, a))
         /\ Outflow(e, a) = SumOf(Values(e), RealSlots(e, a)) + SumOf(Flows(e), LegsOf(e, a))
  <1>1. Kept(e, K, a) = SumOf(Values(e), OwnSlots(e, K, a))
    BY ZenonT(60) DEF Kept, SumOf, MapThenSumSet, MapThenFoldSet, Values, OwnSlots
  <1>2. \A s \in PaidSlots(e, K, a) : s \in 1..Len(e.outs)
    BY DEF PaidSlots, Paid
  <1>3. \A s \in SettledLegs(e, K, a) : s \in 1..Len(e.legs)
    BY DEF SettledLegs, Settled
  <1>4. MapThenSumSet(LAMBDA j : e.outs[j].amount, PaidSlots(e, K, a)) = SumOf(Values(e), PaidSlots(e, K, a))
    BY ZenonT(60), <1>2 DEF SumOf, MapThenSumSet, MapThenFoldSet, Values
  <1>5. MapThenSumSet(LAMBDA j : LegFlow(e.legs[j]), SettledLegs(e, K, a)) = SumOf(Flows(e), SettledLegs(e, K, a))
    BY Zenon, <1>3 DEF SumOf, MapThenSumSet, MapThenFoldSet, Flows
  <1>6. MapThenSumSet(LAMBDA j : e.outs[j].amount, RealSlots(e, a)) = SumOf(Values(e), RealSlots(e, a))
    BY ZenonT(60) DEF SumOf, MapThenSumSet, MapThenFoldSet, Values, RealSlots
  <1>7. MapThenSumSet(LAMBDA j : LegFlow(e.legs[j]), LegsOf(e, a)) = SumOf(Flows(e), LegsOf(e, a))
    BY ZenonT(60) DEF SumOf, MapThenSumSet, MapThenFoldSet, Flows, LegsOf
  <1>8. Net(e, K, a) = SumOf(Values(e), PaidSlots(e, K, a)) + SumOf(Flows(e), SettledLegs(e, K, a))
    BY Zenon, <1>4, <1>5 DEF Net, PaidSlots, SettledLegs
  <1>9. Outflow(e, a) = SumOf(Values(e), RealSlots(e, a)) + SumOf(Flows(e), LegsOf(e, a))
    BY Zenon, <1>6, <1>7 DEF Outflow, RealSlots, LegsOf
  <1>10. QED
    BY <1>1, <1>8, <1>9

\* What the books call spent in an event is what its inputs took from the
\* wallet's balance when the wallet signed it, and nothing otherwise.
LEMMA SpentTaken ==
  ASSUME NEW e \in ShieldedEvent, Conserved(e), StaysWithOwner(e),
         NEW K, NEW a \in K, a \in Assets
  PROVE  /\ e.owner = "wallet" /\ e.kind # "proofless" => SpentBy(e, K, a) = e.inputs[a]
         /\ ~(e.owner = "wallet" /\ e.kind # "proofless") => SpentBy(e, K, a) = 0
  <1> DEFINE own == OwnSlots(e, K, a)
             paid == PaidSlots(e, K, a)
             real == RealSlots(e, a)
             legs == LegsOf(e, a)
             v == Values(e)
  <1>1. /\ IsFiniteSet(1..Len(e.outs)) /\ IsFiniteSet(1..Len(e.legs))
        /\ \A j \in 1..Len(e.outs) : v[j] \in Nat
        /\ \A j \in 1..Len(e.legs) : Flows(e)[j] \in Int
    <2>1. Len(e.outs) \in Nat /\ Len(e.legs) \in Nat
      BY SlotFields
    <2>2. IsFiniteSet(1..Len(e.outs)) /\ IsFiniteSet(1..Len(e.legs))
      BY <2>1, UpToFinite
    <2>3. \A j \in 1..Len(e.outs) : v[j] \in Nat
      BY SlotFields DEF Values
    <2>4. \A j \in 1..Len(e.legs) : Flows(e)[j] \in Int
      BY SlotFields DEF Flows
    <2>5. QED
      BY <2>2, <2>3, <2>4
  <1>2. /\ own \in SUBSET (1..Len(e.outs)) /\ paid \in SUBSET (1..Len(e.outs)) /\ legs \in SUBSET (1..Len(e.legs))
        /\ real = own \cup paid /\ own \cap paid = {}
    BY SlotFields DEF OwnSlots, PaidSlots, RealSlots, LegsOf, Paid, Mine
  <1>3. SettledLegs(e, K, a) = legs
    BY DEF SettledLegs, LegsOf, Settled
  <1>4. IsFiniteSet(own) /\ IsFiniteSet(paid) /\ IsFiniteSet(legs)
    <2> HIDE DEF own, paid, legs
    <2>1. QED
      BY <1>1, <1>2, FS_Subset
  <1>5. /\ SumOf(v, own) \in Nat /\ SumOf(v, paid) \in Nat /\ SumOf(Flows(e), legs) \in Int
        /\ SumOf(v, real) = SumOf(v, own) + SumOf(v, paid)
    <2> HIDE DEF own, paid, legs, v, real
    <2>1. SumOf(v, own) \in Nat
      BY <1>1, <1>2, <1>4, SumNat
    <2>2. SumOf(v, paid) \in Nat
      BY <1>1, <1>2, <1>4, SumNat
    <2>3. SumOf(Flows(e), legs) \in Int
      BY <1>1, <1>2, <1>4, SumInt
    <2>4. \A x \in own \cup paid : v[x] \in Int
      BY <1>1, <1>2
    <2>5. SumOf(v, own \cup paid) = SumOf(v, own) + SumOf(v, paid)
      BY <1>2, <1>4, <2>4, SumUnion
    <2>6. QED
      BY <1>2, <2>1, <2>2, <2>3, <2>5
  <1>6. /\ Kept(e, K, a) = SumOf(v, own)
        /\ Net(e, K, a) = SumOf(v, paid) + SumOf(Flows(e), legs)
        /\ Outflow(e, a) = SumOf(v, real) + SumOf(Flows(e), legs)
    BY <1>3, BookSums
  <1>7. e.kind # "proofless" => e.inputs[a] = Outflow(e, a)
    BY DEF Conserved
  <1>8. ASSUME e.kind = "merge"
        PROVE  /\ e.owner = "wallet" => paid = {} /\ legs = {}
               /\ e.owner # "wallet" => own = {}
    <2>1. e.legs = <<>> /\ \A j \in 1..Len(e.outs) : (e.outs[j].to = "wallet") <=> (e.owner = "wallet")
      BY <1>8 DEF StaysWithOwner
    <2>2. legs = {}
      BY <2>1 DEF LegsOf
    <2>3. QED
      BY <2>1, <2>2 DEF OwnSlots, PaidSlots, Paid, Mine
  <1>9. e.kind \in {"transact", "merge", "proofless"}
    BY SlotFields
  <1>10. CASE e.kind = "merge"
    <2>1. SpentBy(e, K, a) = Kept(e, K, a)
      BY <1>10 DEF SpentBy
    <2>2. CASE e.owner = "wallet"
      <3>1. paid = {} /\ legs = {}
        BY <1>8, <1>10, <2>2
      <3>2. SumOf(v, paid) = 0 /\ SumOf(Flows(e), legs) = 0
        <4> HIDE DEF v, paid, legs
        <4>1. QED
          BY <3>1, SumEmpty
      <3> HIDE DEF own, paid, legs, v, real
      <3>3. QED
        BY <1>5, <1>6, <1>7, <1>10, <2>1, <2>2, <3>2
    <2>3. CASE e.owner # "wallet"
      <3>1. own = {}
        BY <1>8, <1>10, <2>3
      <3>2. SumOf(v, own) = 0
        <4> HIDE DEF v, own
        <4>1. QED
          BY <3>1, SumEmpty
      <3> HIDE DEF own, paid, legs, v, real
      <3>3. QED
        BY <1>6, <2>1, <2>3, <3>2
    <2>4. QED
      BY <2>2, <2>3
  <1>11. CASE e.kind = "transact" /\ e.owner = "wallet"
    <2>1. SpentBy(e, K, a) = Kept(e, K, a) + Net(e, K, a)
      BY <1>11 DEF SpentBy
    <2> HIDE DEF own, paid, legs, v, real
    <2>2. QED
      BY <1>5, <1>6, <1>7, <1>11, <2>1
  <1>12. CASE e.kind # "merge" /\ ~(e.kind = "transact" /\ e.owner = "wallet")
    <2>1. SpentBy(e, K, a) = 0
      BY <1>12 DEF SpentBy
    <2>2. QED
      BY <1>9, <1>12, <2>1
  <1>13. QED
    BY <1>10, <1>11, <1>12

\* What the lookup counts as spent is what was taken.
Spenders(tx) == {i \in Fresh(tx) : tx[i].owner = "wallet" /\ tx[i].kind # "proofless"}

\* The events the books count as the wallet's spends are its spends, each
\* once.
LEMMA SpendersAreOwn ==
  ASSUME NEW tx, WellFormed(tx)
  PROVE  /\ Fresh(tx) \in SUBSET (1..Len(tx))
         /\ \A i, j \in Fresh(tx) : tx[i] = tx[j] => i = j
         /\ \A i \in Spenders(tx) : tx[i] \in OwnSpends(tx)
         /\ \A e \in OwnSpends(tx) : \E i \in Spenders(tx) : tx[i] = e
  <1>1. Fresh(tx) \in SUBSET (1..Len(tx))
    BY DEF Fresh
  <1>2. ASSUME NEW i \in Fresh(tx), NEW j \in Fresh(tx), tx[i] = tx[j] PROVE i = j
    <2>1. i \in Int /\ j \in Int /\ 1 <= i /\ 1 <= j
      BY <1>1
    <2>2. \A k \in 1..(i - 1) : tx[k].id # tx[i].id
      BY DEF Fresh
    <2>3. \A k \in 1..(j - 1) : tx[k].id # tx[j].id
      BY DEF Fresh
    <2>4. j \notin 1..(i - 1) /\ i \notin 1..(j - 1)
      BY <1>2, <2>2, <2>3
    <2>5. QED
      BY <2>1, <2>4
  <1>3. \A i \in Spenders(tx) : tx[i] \in OwnSpends(tx)
    BY <1>1 DEF Spenders, OwnSpends, Events
  <1>4. ASSUME NEW e \in OwnSpends(tx) PROVE \E i \in Spenders(tx) : tx[i] = e
    <2>1. e \in Events(tx) /\ e.owner = "wallet" /\ e.kind # "proofless"
      BY DEF OwnSpends
    <2>2. PICK i \in Fresh(tx) : tx[i] = e
      BY <2>1, FirstEvent
    <2>3. QED
      BY <2>1, <2>2 DEF Spenders
  <1>5. QED
    BY <1>1, <1>2, <1>3, <1>4

\* The rows count as spent what the transaction took.
LEMMA CountedTaken ==
  ASSUME NEW tx, WellFormed(tx), NEW K, NEW a \in K, a \in Assets
  PROVE  Spent(tx, K, a) = Taken(tx, a) /\ Taken(tx, a) \in Nat
  <1> DEFINE F == Fresh(tx)
             S == Spenders(tx)
             T == OwnSpends(tx)
             s == [i \in F |-> SpentBy(tx[i], K, a)]
             g == [i \in S |-> tx[i]]
             f == [e \in T |-> e.inputs[a]]
  <1>1. F \in SUBSET (1..Len(tx)) /\ S \in SUBSET F
    BY SpendersAreOwn DEF Spenders
  <1>2. IsFiniteSet(F) /\ IsFiniteSet(S) /\ IsFiniteSet(F \ S)
    <2>1. IsFiniteSet(1..Len(tx))
      BY EventFields, UpToFinite
    <2> HIDE DEF F, S
    <2>2. IsFiniteSet(F)
      BY <1>1, <2>1, FS_Subset
    <2>3. IsFiniteSet(S)
      BY <1>1, <2>2, FS_Subset
    <2>4. QED
      BY <2>2, <2>3, FS_Difference
  <1>3. ASSUME NEW i \in F
        PROVE  /\ i \in S => s[i] = tx[i].inputs[a] /\ tx[i].inputs[a] \in Nat
               /\ i \notin S => s[i] = 0
    <2>1. tx[i] \in ShieldedEvent /\ tx[i] \in Events(tx)
      BY <1>1, EventFields DEF Events
    <2>2. Conserved(tx[i]) /\ StaysWithOwner(tx[i])
      BY <2>1 DEF WellFormed
    <2>3. tx[i].inputs[a] \in Nat
      BY <2>1, SlotFields
    <2>4. i \in S <=> tx[i].owner = "wallet" /\ tx[i].kind # "proofless"
      BY DEF Spenders
    <2>5. s[i] = SpentBy(tx[i], K, a)
      OBVIOUS
    <2> HIDE DEF s, S
    <2>6. QED
      BY <2>1, <2>2, <2>3, <2>4, <2>5, SpentTaken
  <1>4. SumOf(s, F) = SumOf(s, S)
    <2> HIDE DEF F, S, s
    <2>1. \A i \in F \ S : s[i] = 0
      BY <1>3
    <2>2. SumOf(s, F \ S) = 0
      BY <1>2, <2>1, SumZero
    <2>3. \A i \in S \cup (F \ S) : s[i] \in Int
      BY <1>3, <1>1
    <2>4. S \cap (F \ S) = {} /\ S \cup (F \ S) = F
      BY <1>1
    <2>5. SumOf(s, S \cup (F \ S)) = SumOf(s, S) + SumOf(s, F \ S)
      BY <1>2, <2>3, <2>4, SumUnion
    <2>6. \A i \in S : s[i] \in Int
      BY <2>3
    <2>7. SumOf(s, S) \in Int
      BY <1>2, <2>6, SumInt
    <2>8. SumOf(s, F) = SumOf(s, S) + SumOf(s, F \ S)
      BY ONLY <2>4, <2>5
    <2>9. QED
      BY ONLY <2>2, <2>7, <2>8
  <1>5. \A i, j \in S : g[i] = g[j] => i = j
    <2>1. \A i \in S : i \in F /\ g[i] = tx[i]
      BY <1>1
    <2> HIDE DEF S, g
    <2>2. QED
      BY <2>1, SpendersAreOwn
  <1>6. {g[i] : i \in S} = T
    <2>1. \A i \in S : g[i] = tx[i]
      OBVIOUS
    <2>2. \A i \in S : tx[i] \in T
      BY SpendersAreOwn
    <2>3. \A e \in T : \E i \in S : tx[i] = e
      BY SpendersAreOwn
    <2> HIDE DEF S, T, g
    <2>4. QED
      BY <2>1, <2>2, <2>3
  <1>7. \A i \in S : f[g[i]] \in Nat /\ s[i] = f[g[i]] /\ s[i] \in Nat
    <2> SUFFICES ASSUME NEW i \in S PROVE f[g[i]] \in Nat /\ s[i] = f[g[i]] /\ s[i] \in Nat
      OBVIOUS
    <2>1. g[i] = tx[i] /\ tx[i] \in T
      BY SpendersAreOwn
    <2>2. f[tx[i]] = tx[i].inputs[a]
      BY <2>1
    <2>3. s[i] = tx[i].inputs[a] /\ tx[i].inputs[a] \in Nat
      <3> HIDE DEF s, S, F
      <3>1. QED
        BY <1>1, <1>3
    <2> HIDE DEF f, g, s
    <2>4. QED
      BY <2>1, <2>2, <2>3
  <1>8. SumOf(s, S) = SumOf(f, {g[i] : i \in S}) /\ SumOf(s, S) \in Nat
    <2> HIDE DEF S, f, g, s
    <2>1. \A i \in S : f[g[i]] \in Int /\ s[i] = f[g[i]]
      BY <1>7
    <2>2. \A i \in S : s[i] \in Nat
      BY <1>7
    <2>3. QED
      BY <1>2, <1>5, <2>1, <2>2, SumRenamed, SumNat
  <1>9. Spent(tx, K, a) = SumOf(s, F)
    BY ZenonT(60) DEF Spent, SumOf, MapThenSumSet, MapThenFoldSet
  <1>10. Taken(tx, a) = SumOf(f, T)
    BY ZenonT(60) DEF Taken, SumOf, MapThenSumSet, MapThenFoldSet
  <1>11. QED
    <2> HIDE DEF F, S, T, s, g, f
    <2>1. QED
      BY <1>4, <1>6, <1>8, <1>9, <1>10

\* The verdicts: "ok" is said of the whole only when it is said of each.
LEMMA NoneBad ==
  ASSUME NEW n \in Nat, NEW verdicts, DOMAIN verdicts = 1..n, FirstBad(verdicts) = "ok"
  PROVE  \A i \in 1..n : verdicts[i] = "ok"
  <1> DEFINE bad == {i \in DOMAIN verdicts : verdicts[i] # "ok"}
  <1>1. SUFFICES ASSUME bad # {} PROVE FALSE
    OBVIOUS
  <1>2. IsFiniteSet(1..n) /\ bad \in SUBSET (1..n)
    BY UpToFinite
  <1>3. Min(bad) \in bad
    <2> HIDE DEF bad
    <2>1. IsFiniteSet(bad)
      BY <1>2, FS_Subset
    <2>2. bad \subseteq Int
      BY <1>2
    <2>3. QED
      BY ONLY <1>1, <2>1, <2>2, Bounds
  <1>4. FirstBad(verdicts) = verdicts[Min(bad)]
    BY <1>1 DEF FirstBad
  <1>5. verdicts[Min(bad)] # "ok"
    BY <1>3
  <1>6. QED
    BY <1>4, <1>5

AllAre(s, x) == \A i \in 1..Len(s) : s[i] = x

\* What all of two joined sequences' members are, each one's are.
LEMMA AllOfJoined ==
  ASSUME NEW S, NEW s \in Seq(S), NEW t \in Seq(S), NEW x, AllAre(s \o t, x)
  PROVE  AllAre(s, x) /\ AllAre(t, x)
  <1>1. Len(s) \in Nat /\ Len(t) \in Nat /\ Len(s \o t) = Len(s) + Len(t)
    OBVIOUS
  <1>2. ASSUME NEW i \in 1..Len(s) PROVE s[i] = x
    <2>1. i \in 1..Len(s \o t) /\ (s \o t)[i] = s[i]
      BY <1>1
    <2>2. QED
      BY <2>1 DEF AllAre
  <1>3. ASSUME NEW i \in 1..Len(t) PROVE t[i] = x
    <2>1. Len(s) + i \in 1..Len(s \o t) /\ (s \o t)[Len(s) + i] = t[i]
      BY <1>1
    <2>2. QED
      BY <2>1 DEF AllAre
  <1>4. QED
    BY <1>2, <1>3 DEF AllAre

\* The same of four, for the last two.
LEMMA AllOfFour ==
  ASSUME NEW S, NEW a \in Seq(S), NEW b \in Seq(S), NEW c \in Seq(S), NEW d \in Seq(S), NEW x,
         AllAre(((a \o b) \o c) \o d, x)
  PROVE  AllAre(c, x) /\ AllAre(d, x)
  <1>1. a \o b \in Seq(S) /\ (a \o b) \o c \in Seq(S)
    OBVIOUS
  <1>2. AllAre((a \o b) \o c, x) /\ AllAre(d, x)
    BY Zenon, <1>1, AllOfJoined
  <1>3. AllAre(c, x)
    BY Zenon, <1>1, <1>2, AllOfJoined
  <1>4. QED
    BY <1>2, <1>3

\* Every note of this wallet is resolved, and what its spends pay and settle.
Resolved(tx, K) ==
  /\ ~Unresolved(tx, K)
  /\ \A i \in 1..Len(tx) : tx[i].kind = "transact" /\ tx[i].owner = "wallet" =>
       /\ \A j \in 1..Len(tx[i].outs) :
            tx[i].outs[j].to # "wallet" /\ ~tx[i].outs[j].pad => tx[i].outs[j].asset \in K
       /\ \A j \in 1..Len(tx[i].legs) : tx[i].legs[j].asset \in K

\* A complete reading resolved every note of this wallet; a wallet that
\* discovers resolved what its spends paid and settled, too.
LEMMA NothingMissed ==
  ASSUME NEW tx, WellFormed(tx), NEW r, r.discovers = TRUE, Details(tx, r) = "ok"
  PROVE  Resolved(tx, r.known)
  <1> DEFINE verdict(i) == FirstBad(Verdicts(tx[i], r))
             verdicts == [i \in 1..Len(tx) |-> verdict(i)]
  <1>1. ~Unresolved(tx, r.known) /\ FirstBad(verdicts) = "ok"
    <2> DEFINE un == Unresolved(tx, r.known)
               last == FirstBad(verdicts)
    <2>1. Details(tx, r) = CASE un /\ r.discover -> "assets"
                             [] un /\ ~r.discover /\ r.discovers -> "incomplete"
                             [] OTHER -> last
      BY DEF Details
    <2>2. un \in BOOLEAN
      BY DEF Unresolved
    <2> HIDE DEF un, last
    <2>3. un /\ r.discover => Details(tx, r) = "assets"
      BY Zenon, <2>1
    <2>4. un /\ ~r.discover => Details(tx, r) = "incomplete"
      BY Zenon, <2>1
    <2>5. ~un => Details(tx, r) = last
      BY Zenon, <2>1
    <2>6. ~un /\ last = "ok"
      BY Zenon, <2>2, <2>3, <2>4, <2>5
    <2>7. QED
      BY <2>6 DEF un, last
  <1>2. Len(tx) \in Nat
    BY EventFields
  <1>3. \A i \in 1..Len(tx) : verdict(i) = "ok"
    <2> HIDE DEF verdict
    <2>1. DOMAIN verdicts = 1..Len(tx)
      OBVIOUS
    <2>2. \A i \in 1..Len(tx) : verdicts[i] = "ok"
      <3> HIDE DEF verdicts
      <3>1. QED
        BY <1>1, <1>2, <2>1, NoneBad
    <2>3. QED
      BY <2>2
  <1>4. ASSUME NEW i \in 1..Len(tx), tx[i].kind = "transact", tx[i].owner = "wallet"
        PROVE  /\ \A j \in 1..Len(tx[i].outs) :
                    tx[i].outs[j].to # "wallet" /\ ~tx[i].outs[j].pad => tx[i].outs[j].asset \in r.known
               /\ \A j \in 1..Len(tx[i].legs) : tx[i].legs[j].asset \in r.known
    <2> DEFINE e == tx[i]
               Word == {"ok", "assets", "incomplete"}
               own == [j \in 1..Len(e.outs) |-> OwnVerdict(e.outs[j], r)]
               spend == <<SpendVerdict(e, r)>>
               outs == [j \in 1..Len(e.outs) |-> OutVerdict(e.outs[j], r)]
               legs == [j \in 1..Len(e.legs) |-> LegVerdict(e.legs[j], r)]
    <2>1. Len(e.outs) \in Nat /\ Len(e.legs) \in Nat
      BY EventFields, SlotFields
    <2>2. own \in Seq(Word) /\ spend \in Seq(Word) /\ outs \in Seq(Word) /\ legs \in Seq(Word)
      <3>1. UnknownAsset(r) \in Word
        BY DEF UnknownAsset
      <3>2. own \in Seq(Word)
        <4>1. \A j \in 1..Len(e.outs) : OwnVerdict(e.outs[j], r) \in Word
          BY DEF OwnVerdict
        <4>2. QED
          BY <2>1, <4>1
      <3>3. SpendVerdict(e, r) \in Word
        BY DEF SpendVerdict
      <3>4. outs \in Seq(Word)
        <4>1. \A j \in 1..Len(e.outs) : OutVerdict(e.outs[j], r) \in Word
          <5> HIDE DEF Word
          <5>1. "ok" \in Word /\ "incomplete" \in Word
            BY DEF Word
          <5>2. QED
            BY <3>1, <5>1 DEF OutVerdict
        <4>2. QED
          BY <2>1, <4>1
      <3>5. legs \in Seq(Word)
        <4>1. \A j \in 1..Len(e.legs) : LegVerdict(e.legs[j], r) \in Word
          BY <3>1 DEF LegVerdict
        <4>2. QED
          BY <2>1, <4>1
      <3>6. QED
        BY <3>2, <3>3, <3>4, <3>5
    <2> DEFINE all == ((own \o spend) \o outs) \o legs
    <2>3. Verdicts(e, r) = all
      BY <1>4 DEF Verdicts
    <2>4. (own \o spend) \in Seq(Word) /\ ((own \o spend) \o outs) \in Seq(Word) /\ all \in Seq(Word)
      <3> HIDE DEF own, spend, outs, legs, Word
      <3>1. QED
        BY <2>2
    <2>5. \A j \in 1..Len(all) : all[j] = "ok"
      <3>1. FirstBad(all) = "ok"
        BY <1>3, <2>3
      <3>2. DOMAIN all = 1..Len(all) /\ Len(all) \in Nat
        BY <2>4
      <3> HIDE DEF all
      <3>3. QED
        BY <3>1, <3>2, NoneBad
    <2>6. (\A j \in 1..Len(outs) : outs[j] = "ok") /\ (\A j \in 1..Len(legs) : legs[j] = "ok")
      <3>1. AllAre(((own \o spend) \o outs) \o legs, "ok")
        <4> HIDE DEF own, spend, outs, legs
        <4>1. QED
          BY Zenon, <2>5 DEF AllAre
      <3> HIDE DEF own, spend, outs, legs, Word
      <3>2. AllAre(outs, "ok") /\ AllAre(legs, "ok")
        BY Zenon, <2>2, <3>1, AllOfFour
      <3>3. QED
        BY Zenon, <3>2 DEF AllAre
    <2>7. UnknownAsset(r) # "ok"
      BY DEF UnknownAsset
    <2>8. ASSUME NEW j \in 1..Len(e.outs), e.outs[j].to # "wallet", ~e.outs[j].pad
          PROVE  e.outs[j].asset \in r.known
      <3>1. OutVerdict(e.outs[j], r) = "ok"
        <4>1. Len(outs) = Len(e.outs) /\ outs[j] = OutVerdict(e.outs[j], r)
          BY <2>1
        <4> HIDE DEF outs
        <4>2. QED
          BY <2>6, <4>1
      <3>2. e.outs[j].asset \notin r.known => OutVerdict(e.outs[j], r) = UnknownAsset(r)
        BY <2>8 DEF OutVerdict
      <3>3. QED
        BY <2>7, <3>1, <3>2
    <2>9. ASSUME NEW j \in 1..Len(e.legs)
          PROVE  e.legs[j].asset \in r.known
      <3>1. LegVerdict(e.legs[j], r) = "ok"
        <4>1. Len(legs) = Len(e.legs) /\ legs[j] = LegVerdict(e.legs[j], r)
          BY <2>1
        <4> HIDE DEF legs
        <4>2. QED
          BY <2>6, <4>1
      <3>2. QED
        BY <2>7, <3>1 DEF LegVerdict
    <2>10. QED
      BY <2>8, <2>9
  <1>5. QED
    BY <1>1, <1>4 DEF Resolved

\* Somebody else's tag is on a dummy only when a payment carries it, too.
LEMMA PaysAnotherReal ==
  ASSUME NEW tx, WellFormed(tx)
  PROVE  PaysAnother(tx) <=>
           \E e \in Events(tx) : \E j \in 1..Len(e.outs) : e.outs[j].to # "wallet" /\ ~e.outs[j].pad
  <1>1. ASSUME PaysAnother(tx)
        PROVE  \E e \in Events(tx) : \E j \in 1..Len(e.outs) : e.outs[j].to # "wallet" /\ ~e.outs[j].pad
    <2>1. PICK p \in Slots(tx) : OutAt(tx, p).to # "wallet"
      BY <1>1 DEF PaysAnother
    <2>2. p[1] \in 1..Len(tx) /\ p[2] \in 1..Len(tx[p[1]].outs)
      BY SlotsFinite
    <2>3. tx[p[1]] \in Events(tx) /\ tx[p[1]].outs[p[2]].to # "wallet"
      BY <2>1, <2>2 DEF Events, OutAt
    <2>4. PadsRecipients(tx[p[1]])
      BY <2>3 DEF WellFormed
    <2>5. QED
      BY <2>2, <2>3, <2>4 DEF PadsRecipients
  <1>2. ASSUME NEW e \in Events(tx), NEW j \in 1..Len(e.outs), e.outs[j].to # "wallet"
        PROVE  PaysAnother(tx)
    <2>1. PICK i \in 1..Len(tx) : tx[i] = e
      BY DEF Events
    <2>2. <<i, j>> \in Slots(tx) /\ OutAt(tx, <<i, j>>).to # "wallet"
      BY <1>2, <2>1, SlotsFinite
    <2>3. QED
      BY <2>2 DEF PaysAnother
  <1>3. QED
    BY <1>1, <1>2

\* What came in is a sum over the wallet's own outputs.
LEMMA CameIsSum ==
  \A tx, a : Came(tx, a) = SumOf([out \in OwnOutputs(tx, a) |-> out.amount], OwnOutputs(tx, a))
  BY ZenonT(60) DEF Came, SumOf, MapThenSumSet, MapThenFoldSet

\* What went out is a sum over the wallet's own spends.
LEMMA TakenIsSum ==
  \A tx, a : Taken(tx, a) = SumOf([e \in OwnSpends(tx) |-> e.inputs[a]], OwnSpends(tx))
  BY ZenonT(60) DEF Taken, SumOf, MapThenSumSet, MapThenFoldSet

\* Nothing came or was taken in an asset that a complete reading of a wallet
\* that discovers left out.
LEMMA NothingElsewhere ==
  ASSUME NEW tx, WellFormed(tx), NEW K,
         Resolved(tx, K), NEW a \in Assets, a \notin K
  PROVE  Came(tx, a) = 0 /\ Taken(tx, a) = 0
  <1> DEFINE T == OwnSpends(tx)
             f == [e \in T |-> e.inputs[a]]
             C == OwnOutputs(tx, a)
             c == [out \in C |-> out.amount]
  <1>1. C = {}
    <2> SUFFICES ASSUME NEW out \in C PROVE FALSE
      OBVIOUS
    <2>1. out.to = "wallet" /\ ~out.pad /\ out.asset = a
      BY DEF OwnOutputs
    <2>2. PICK i \in 1..Len(tx) : \E j \in 1..Len(tx[i].outs) : out = tx[i].outs[j]
      BY DEF OwnOutputs, Events
    <2>3. PICK j \in 1..Len(tx[i].outs) : out = tx[i].outs[j]
      BY <2>2
    <2>4. <<i, j>> \in Slots(tx) /\ OutAt(tx, <<i, j>>) = out
      BY <2>3, SlotsFinite
    <2>5. Unresolved(tx, K)
      BY <2>1, <2>4 DEF Unresolved
    <2>6. QED
      BY <2>5 DEF Resolved
  <1>2. Came(tx, a) = SumOf(c, C)
    BY CameIsSum
  <1>3. Came(tx, a) = 0
    <2> HIDE DEF C, c
    <2>1. QED
      BY <1>1, <1>2, SumEmpty
  <1>4. ASSUME NEW e \in T PROVE e.inputs[a] = 0
    <2>1. PICK i \in 1..Len(tx) : tx[i] = e
      BY DEF OwnSpends, Events
    <2>2. e.owner = "wallet" /\ e.kind # "proofless" /\ e \in Events(tx) /\ e \in ShieldedEvent
      BY <2>1, EventFields DEF OwnSpends
    <2>3. Conserved(e) /\ StaysWithOwner(e)
      BY <2>2 DEF WellFormed
    <2>4. e.kind \in {"transact", "merge"}
      BY <2>2, SlotFields
    <2>5. ASSUME NEW j \in 1..Len(e.outs), ~e.outs[j].pad PROVE e.outs[j].asset \in K
      <3>1. CASE e.outs[j].to = "wallet"
        <4>1. <<i, j>> \in Slots(tx) /\ OutAt(tx, <<i, j>>) = e.outs[j]
          BY <2>1, SlotsFinite
        <4>2. ~Unresolved(tx, K)
          BY DEF Resolved
        <4>3. QED
          BY <2>5, <3>1, <4>1, <4>2 DEF Unresolved
      <3>2. CASE e.outs[j].to # "wallet"
        <4>1. e.kind = "transact"
          BY <2>2, <2>3, <2>4, <3>2 DEF StaysWithOwner
        <4>2. QED
          BY <2>1, <2>2, <2>5, <3>2, <4>1 DEF Resolved
      <3>3. QED
        BY <3>1, <3>2
    <2>6. ASSUME NEW j \in 1..Len(e.legs) PROVE e.legs[j].asset \in K
      <3>1. CASE e.kind = "merge"
        <4>1. e.legs = <<>>
          BY <2>3, <3>1 DEF StaysWithOwner
        <4>2. QED
          BY <4>1
      <3>2. CASE e.kind = "transact"
        BY <2>1, <2>2, <3>2 DEF Resolved
      <3>3. QED
        BY <2>4, <3>1, <3>2
    <2>7. RealSlots(e, a) = {} /\ LegsOf(e, a) = {}
      BY <2>5, <2>6 DEF RealSlots, LegsOf
    <2>8. SumOf(Values(e), RealSlots(e, a)) = 0 /\ SumOf(Flows(e), LegsOf(e, a)) = 0
      BY <2>7, SumEmpty
    <2>9. Outflow(e, a) = SumOf(Values(e), RealSlots(e, a)) + SumOf(Flows(e), LegsOf(e, a))
      BY BookSums
    <2>10. e.inputs[a] = Outflow(e, a)
      BY <2>2, <2>3 DEF Conserved
    <2>11. QED
      BY <2>8, <2>9, <2>10
  <1>5. IsFiniteSet(T)
    <2> DEFINE g == [i \in Spenders(tx) |-> tx[i]]
    <2>1. Spenders(tx) \in SUBSET (1..Len(tx)) /\ IsFiniteSet(1..Len(tx))
      BY SpendersAreOwn, EventFields, UpToFinite DEF Spenders
    <2>2. IsFiniteSet(Spenders(tx))
      BY <2>1, FS_Subset
    <2>3. g \in Surjection(Spenders(tx), T)
      BY SpendersAreOwn DEF Surjection
    <2> HIDE DEF g, T
    <2>4. QED
      BY <2>2, <2>3, FS_Surjection
  <1>6. Taken(tx, a) = SumOf(f, T)
    BY TakenIsSum
  <1>7. \A e \in T : f[e] = 0
    BY <1>4
  <1>8. Taken(tx, a) = 0
    <2> HIDE DEF T, f
    <2>1. QED
      BY <1>5, <1>6, <1>7, SumZero
  <1>9. QED
    BY <1>3, <1>8

\* One row says of its asset what the history says.
LEMMA SameMove ==
  ASSUME NEW tx, WellFormed(tx), NEW a, NEW c \in Nat, NEW t \in Nat, Came(tx, a) = c, Taken(tx, a) = t
  PROVE  /\ Amount(c, t) # 0 <=> c > 0 \/ t > 0
         /\ Amount(c, t) = IF c = t THEN t ELSE Max({c - t, t - c})
         /\ Kind(c, t, Deposits(tx), PaysAnother(tx)) = HistoryKind(tx, a)
  <1>1. Amount(c, t) = IF t = c THEN t ELSE IF c > t THEN c - t ELSE t - c
    BY DEF Amount
  <1>2. c # t => Max({c - t, t - c}) = IF c > t THEN c - t ELSE t - c
    <2> SUFFICES ASSUME c # t PROVE Max({c - t, t - c}) = IF c > t THEN c - t ELSE t - c
      OBVIOUS
    <2> DEFINE m == IF c > t THEN c - t ELSE t - c
    <2>1. m \in {c - t, t - c} /\ \A y \in {c - t, t - c} : m >= y
      OBVIOUS
    <2>2. \A x \in {c - t, t - c} : (\A y \in {c - t, t - c} : x >= y) => x = m
      OBVIOUS
    <2> HIDE DEF m
    <2>3. Max({c - t, t - c}) = m
      BY <2>1, <2>2 DEF Max
    <2>4. QED
      BY <2>3 DEF m
  <1>3. Kind(c, t, Deposits(tx), PaysAnother(tx)) = HistoryKind(tx, a)
    <2> DEFINE real == \E e \in Events(tx) : \E j \in 1..Len(e.outs) : e.outs[j].to # "wallet" /\ ~e.outs[j].pad
               deposits == Deposits(tx)
               pays == PaysAnother(tx)
    <2>1. pays = real
      BY Zenon, PaysAnotherReal DEF PaysAnother
    <2>2. pays \in BOOLEAN /\ real \in BOOLEAN /\ deposits \in BOOLEAN
      BY DEF PaysAnother, Deposits
    <2>3. HistoryKind(tx, a) =
            CASE t = 0 /\ deposits -> "Deposit"
              [] t = 0 /\ ~deposits -> "Received"
              [] t > 0 /\ c = t -> "SelfTransfer"
              [] t > 0 /\ c > t -> "Deposit"
              [] OTHER -> IF real THEN "Sent" ELSE "Withdrawal"
      BY Zenon DEF HistoryKind
    <2>4. Kind(c, t, deposits, pays) =
            CASE t = 0 -> IF deposits THEN "Deposit" ELSE "Received"
              [] t > 0 /\ t = c -> "SelfTransfer"
              [] t > 0 /\ c > t -> "Deposit"
              [] OTHER -> IF pays THEN "Sent" ELSE "Withdrawal"
      BY Zenon DEF Kind
    <2> HIDE DEF real, deposits, pays
    <2>5. CASE t = 0
      <3>1. t = 0 /\ ~(t > 0)
        BY <2>5
      <3>2. Kind(c, t, deposits, pays) = IF deposits THEN "Deposit" ELSE "Received"
        BY Zenon, <2>4, <3>1
      <3>3. deposits => HistoryKind(tx, a) = "Deposit"
        BY Zenon, <2>3, <3>1
      <3>4. ~deposits => HistoryKind(tx, a) = "Received"
        BY Zenon, <2>3, <3>1
      <3>5. Kind(c, t, deposits, pays) = HistoryKind(tx, a)
        BY Zenon, <2>2, <3>2, <3>3, <3>4
      <3>6. QED
        BY <3>5 DEF deposits, pays
    <2>6. CASE t > 0 /\ t = c
      <3>1. t # 0 /\ t > 0 /\ c = t /\ t = c /\ ~(c > t)
        BY <2>6
      <3>2. HistoryKind(tx, a) = "SelfTransfer" /\ Kind(c, t, deposits, pays) = "SelfTransfer"
        BY Zenon, <2>3, <2>4, <3>1
      <3>3. QED
        BY <3>2 DEF deposits, pays
    <2>7. CASE t > 0 /\ c > t
      <3>1. t # 0 /\ t > 0 /\ c # t /\ t # c /\ c > t
        BY <2>7
      <3>2. HistoryKind(tx, a) = "Deposit" /\ Kind(c, t, deposits, pays) = "Deposit"
        BY Zenon, <2>3, <2>4, <3>1
      <3>3. QED
        BY <3>2 DEF deposits, pays
    <2>8. CASE t > c
      <3>1. t # 0 /\ c # t /\ t # c /\ ~(c > t)
        BY <2>8
      <3>2. /\ HistoryKind(tx, a) = IF real THEN "Sent" ELSE "Withdrawal"
            /\ Kind(c, t, deposits, pays) = IF pays THEN "Sent" ELSE "Withdrawal"
        BY Zenon, <2>3, <2>4, <3>1
      <3>3. QED
        BY <2>1, <3>2 DEF deposits, pays
    <2>9. QED
      BY <2>5, <2>6, <2>7, <2>8
  <1>4. QED
    BY <1>1, <1>2, <1>3

\* The rows are the history's.
LEMMA RowsAreHistory ==
  ASSUME NEW tx, WellFormed(tx), NEW K \in SUBSET Assets, NEW N \in SUBSET Assets, K \subseteq N,
         N = K \/ Resolved(tx, K)
  PROVE  Plain(Entries(tx, K)) = History(tx, N)
  <1> DEFINE moved(a) == [asset |-> a, kind |-> HistoryKind(tx, a),
                          amount |-> IF Came(tx, a) = Taken(tx, a) THEN Taken(tx, a)
                                     ELSE Max({Came(tx, a) - Taken(tx, a), Taken(tx, a) - Came(tx, a)})]
             plain(row) == [asset |-> row.asset, kind |-> row.kind, amount |-> row.amount]
             row(a) == Row(tx, a, Received(tx, K, a), Spent(tx, K, a))
             some(a) == Amount(Received(tx, K, a), Spent(tx, K, a)) # 0
             any(a) == Came(tx, a) > 0 \/ Taken(tx, a) > 0
  <1>1. ASSUME NEW a \in K
        PROVE  plain(row(a)) = moved(a) /\ (some(a) <=> any(a))
    <2>1. Received(tx, K, a) = Came(tx, a) /\ Came(tx, a) \in Nat
      BY CountedCame
    <2>2. a \in Assets
      OBVIOUS
    <2>3. Spent(tx, K, a) = Taken(tx, a) /\ Taken(tx, a) \in Nat
      BY <2>2, CountedTaken
    <2> DEFINE c == Came(tx, a)
               t == Taken(tx, a)
    <2>4. /\ Amount(c, t) # 0 <=> c > 0 \/ t > 0
          /\ Amount(c, t) = IF c = t THEN t ELSE Max({c - t, t - c})
          /\ Kind(c, t, Deposits(tx), PaysAnother(tx)) = HistoryKind(tx, a)
      BY <2>1, <2>3, SameMove
    <2>5. row(a) = Row(tx, a, c, t)
      BY <2>1, <2>3
    <2>6. /\ Row(tx, a, c, t).asset = a /\ Row(tx, a, c, t).kind = Kind(c, t, Deposits(tx), PaysAnother(tx))
          /\ Row(tx, a, c, t).amount = Amount(c, t)
      BY DEF Row
    <2>7. plain(row(a)) = moved(a)
      BY <2>4, <2>5, <2>6
    <2>8. some(a) <=> any(a)
      BY <2>1, <2>3, <2>4
    <2>9. QED
      BY <2>7, <2>8
  <1>2. ASSUME NEW a \in N, any(a) PROVE a \in K
    <2>1. CASE a \notin K
      <3>1. Resolved(tx, K) /\ a \in Assets
        BY <2>1
      <3>2. Came(tx, a) = 0 /\ Taken(tx, a) = 0
        BY <2>1, <3>1, NothingElsewhere
      <3>3. QED
        BY <1>2, <3>2
    <2>2. QED
      BY <2>1
  <1>3. Entries(tx, K) = {row(a) : a \in {b \in K : some(b)}}
    BY DEF Entries
  <1>4. Plain(Entries(tx, K)) = {plain(r) : r \in Entries(tx, K)}
    BY DEF Plain
  <1>5. History(tx, N) = {moved(a) : a \in {b \in N : any(b)}}
    BY DEF History
  <1> HIDE DEF moved, plain, row, some, any
  <1>6. QED
    BY <1>1, <1>2, <1>3, <1>4, <1>5

\* Every private payment is among the outputs.
PaymentsIn(tx) ==
  UNION {{[to |-> e.outs[j].to, asset |-> e.outs[j].asset, amount |-> e.outs[j].amount] :
            j \in {k \in 1..Len(e.outs) : e.outs[k].to # "wallet" /\ ~e.outs[k].pad}} :
           e \in {f \in OwnSpends(tx) : f.kind = "transact"}}

\* The private outputs a complete answer lists are the payments the
\* transaction made, of the assets named.
LEMMA OutputsArePayments ==
  ASSUME NEW tx, WellFormed(tx), NEW K, NEW N, K \subseteq N, N = K \/ Resolved(tx, K)
  PROVE  {p \in PaymentsIn(tx) : p.asset \in N} =
           {[to |-> o.to, asset |-> o.asset, amount |-> o.amount] :
              o \in {q \in Outputs(tx, K) : q.at[2] = "private"}}
  <1> DEFINE L == {p \in PaymentsIn(tx) : p.asset \in N}
             paid(o) == [to |-> o.to, asset |-> o.asset, amount |-> o.amount]
             O == {q \in Outputs(tx, K) : q.at[2] = "private"}
             I == {k \in Fresh(tx) : tx[k].kind = "transact" /\ tx[k].owner = "wallet"}
             private(i, j) == [at |-> <<i, "private", j>>, to |-> tx[i].outs[j].to,
                               asset |-> tx[i].outs[j].asset, amount |-> tx[i].outs[j].amount]
             public(i, j) == [at |-> <<i, "public", j>>, to |-> "public", asset |-> tx[i].legs[j].asset,
                              amount |-> tx[i].legs[j].amount]
  <1>1. \A o : o \in O <=> \E i \in I : \E j \in Paid(tx[i], K) : o = private(i, j)
    <2>1. Outputs(tx, K) =
            UNION {{private(i, j) : j \in Paid(tx[i], K)}
                   \cup {public(i, j) : j \in {k \in Settled(tx[i], K) : ~tx[i].legs[k].deposit}} : i \in I}
      BY DEF Outputs
    <2>2. \A i, j : private(i, j).at[2] = "private" /\ public(i, j).at[2] # "private"
      OBVIOUS
    <2> HIDE DEF private, public, I
    <2>3. QED
      BY <2>1, <2>2
  <1>2. \A p : p \in PaymentsIn(tx) <=>
          \E e \in OwnSpends(tx) : /\ e.kind = "transact"
                                   /\ \E j \in 1..Len(e.outs) : /\ e.outs[j].to # "wallet" /\ ~e.outs[j].pad
                                                                /\ p = paid(e.outs[j])
    BY DEF PaymentsIn
  <1>3. ASSUME NEW p \in L PROVE \E o \in O : p = paid(o)
    <2>1. PICK e \in OwnSpends(tx) :
            /\ e.kind = "transact"
            /\ \E j \in 1..Len(e.outs) : e.outs[j].to # "wallet" /\ ~e.outs[j].pad /\ p = paid(e.outs[j])
      BY <1>2
    <2>2. PICK j \in 1..Len(e.outs) : e.outs[j].to # "wallet" /\ ~e.outs[j].pad /\ p = paid(e.outs[j])
      BY <2>1
    <2>3. PICK i \in Spenders(tx) : tx[i] = e
      BY SpendersAreOwn
    <2>4. i \in I /\ i \in 1..Len(tx)
      BY <2>1, <2>3, SpendersAreOwn DEF Spenders
    <2>5. e.outs[j].asset \in N
      BY <2>2
    <2>6. e.outs[j].asset \in K
      BY <2>1, <2>2, <2>3, <2>4, <2>5 DEF Resolved
    <2>7. j \in Paid(tx[i], K)
      BY <2>2, <2>3, <2>6 DEF Paid
    <2>8. private(i, j) \in O
      <3> HIDE DEF private, O, I
      <3>1. QED
        BY <1>1, <2>4, <2>7
    <2>9. p = paid(private(i, j))
      BY <2>2, <2>3
    <2>10. QED
      BY <2>8, <2>9
  <1>4. ASSUME NEW o \in O PROVE paid(o) \in L
    <2>1. PICK i \in I : \E j \in Paid(tx[i], K) : o = private(i, j)
      BY <1>1
    <2>2. PICK j \in Paid(tx[i], K) : o = private(i, j)
      BY <2>1
    <2>3. /\ j \in 1..Len(tx[i].outs) /\ tx[i].outs[j].to # "wallet" /\ ~tx[i].outs[j].pad
          /\ tx[i].outs[j].asset \in K
      BY DEF Paid
    <2>4. tx[i] \in OwnSpends(tx) /\ tx[i].kind = "transact"
      BY SpendersAreOwn DEF Spenders
    <2>5. paid(o) = paid(tx[i].outs[j])
      BY <2>2
    <2>6. paid(o) \in PaymentsIn(tx)
      <3> HIDE DEF paid
      <3>1. QED
        BY <1>2, <2>3, <2>4, <2>5
    <2>7. paid(o).asset \in N
      BY <2>2, <2>3
    <2>8. QED
      BY <2>6, <2>7
  <1>5. L = {paid(o) : o \in O}
    <2> HIDE DEF L, O, paid
    <2>1. QED
      BY <1>3, <1>4
  <1>6. QED
    BY <1>5

-----------------------------------------------------------------------------
(* The inductive invariant. *)

Reads == [step : {"read"}, at : SlotsOf, agrees : BOOLEAN, found : BOOLEAN]
Confirmed == [step : {"read"}, found : BOOLEAN, timed : BOOLEAN]
Lookups == [step : {"lookup"}, openings : BOOLEAN, indexer : {None} \cup Reads, rpc : {None} \cup Confirmed]
Scans == [step : {"scan"}, slot : SlotsOf]
CallFits == call \in {None} \cup Lookups \cup Scans

WorldStays == world \in Worlds

TimesFit == \A s \in SlotsOf : times[s].state = "known" => times[s] = Known

AskedInTime ==
  call.step = "lookup" =>
    /\ call.indexer # None =>
         /\ call.indexer.at <= chain.indexed
         /\ call.indexer.found <=> chain.landed \in 1..call.indexer.at /\ ~world.failed
    /\ call.rpc # None => (call.rpc.found => chain.landed # 0) /\ (call.rpc.timed => call.rpc.found)

KnownFits == ~world.discovers => known \subseteq {Sol} \cup (Configured \cap Usable)

Small == WorldStays /\ TypeOK /\ CallFits /\ TimesFit /\ AskedInTime /\ KnownFits
IInv == Small /\ ReadyIsComplete

\* What every world is assumed to hold.
LEMMA WorldFields ==
  ASSUME NEW w \in Worlds
  PROVE  WellFormed(w.tx) /\ NotesRead(w.notes) /\ w.failed \in BOOLEAN /\ w.discovers \in BOOLEAN /\ w.cap \in Nat
  BY ReadsAssumption

\* The invariant holds of a fresh wallet.
LEMMA Started == Init => IInv
  <1> SUFFICES ASSUME Init PROVE IInv
    OBVIOUS
  <1>1. WorldStays
    BY DEF Init, WorldStays
  <1>2. TypeOK
    <2>1. 1 \in SlotsOf /\ MaxSlot \in Nat /\ RetryMax \in Nat
      BY ReadsAssumption DEF SlotsOf
    <2>2. chain \in [tip : SlotsOf, indexed : SlotsOf, landed : 0..MaxSlot]
      BY <2>1 DEF Init
    <2>3. Untimed \in [state : {"unasked", "known", "missing"}, due : 0..RetryMax, wait : 0..RetryMax]
      BY <2>1 DEF Untimed
    <2>4. QED
      BY <2>1, <2>2, <2>3, ReadsAssumption DEF Init, TypeOK, None, NoAnswer
  <1>3. CallFits
    BY DEF Init, CallFits
  <1>4. TimesFit
    BY DEF Init, TimesFit, Untimed
  <1>5. AskedInTime
    BY DEF Init, AskedInTime, None
  <1>6. KnownFits
    BY DEF Init, KnownFits
  <1>7. ReadyIsComplete
    BY DEF Init, ReadyIsComplete, NoAnswer
  <1>8. QED
    BY <1>1, <1>2, <1>3, <1>4, <1>5, <1>6, <1>7 DEF IInv, Small

\* No step changes what happens to the wallet.
LEMMA OneWorld == [Next]_vars => world' = world
  BY DEF Next, vars, Advances, Indexes, Waits, StartLookup, AskIndexer, AskRpc, LookupFails, Inconsistent,
     NotFound, PendingIndexing, NoEvents, ReadsEvents, DetailsFail, StartActivity, IndexerBehind, ReadsActivity,
     SelectsSpend, SelectsMerge, Released, Fails, Ends

\* What a call may be.
LEMMA CallKinds ==
  ASSUME CallFits
  PROVE  /\ call.step \in {"none", "lookup", "scan"}
         /\ call.step = "lookup" => call \in Lookups
         /\ call.step = "scan" => call \in Scans
  <1>1. \A c \in Lookups : c.step = "lookup"
    BY DEF Lookups
  <1>2. \A c \in Scans : c.step = "scan"
    BY DEF Scans
  <1>3. None.step = "none"
    BY DEF None
  <1>4. QED
    BY <1>1, <1>2, <1>3 DEF CallFits

\* A call that ended.
LEMMA CallGone ==
  ASSUME call' = None
  PROVE  CallFits' /\ AskedInTime' /\ call'.step = "none"
  BY DEF CallFits, AskedInTime, None

\* What a lookup under way holds, field by field.
LEMMA LookupFields ==
  ASSUME CallFits, call.step = "lookup"
  PROVE  /\ call.openings \in BOOLEAN
         /\ call.indexer # None => call.indexer.at \in SlotsOf /\ call.indexer.agrees \in BOOLEAN
                                   /\ call.indexer.found \in BOOLEAN
         /\ call.rpc # None => call.rpc.found \in BOOLEAN /\ call.rpc.timed \in BOOLEAN
         /\ call.indexer \in {None} \cup Reads /\ call.rpc \in {None} \cup Confirmed
  <1>1. call \in Lookups
    BY CallKinds
  <1>2. call.openings \in BOOLEAN /\ call.indexer \in {None} \cup Reads /\ call.rpc \in {None} \cup Confirmed
    BY <1>1 DEF Lookups
  <1>3. \A c \in Reads : c.at \in SlotsOf /\ c.agrees \in BOOLEAN /\ c.found \in BOOLEAN
    BY DEF Reads
  <1>4. \A c \in Confirmed : c.found \in BOOLEAN /\ c.timed \in BOOLEAN
    BY DEF Confirmed
  <1>5. QED
    BY <1>2, <1>3, <1>4

\* The chain moves: what an earlier request read of it stays true.
LEMMA ChainMoves ==
  ASSUME Small, Advances \/ Indexes
  PROVE  Small'
  <1>1. WorldStays /\ TypeOK /\ CallFits /\ TimesFit /\ AskedInTime /\ KnownFits
    BY DEF Small
  <1>2. /\ world' = world /\ known' = known /\ times' = times /\ reserved' = reserved
        /\ call' = call /\ answer' = answer
    BY DEF Advances, Indexes
  <1>3. /\ chain.tip \in SlotsOf /\ chain.indexed \in SlotsOf /\ chain.landed \in 0..MaxSlot
        /\ chain.indexed <= chain.tip /\ chain.landed <= chain.tip /\ MaxSlot \in Nat
        /\ chain = [tip |-> chain.tip, indexed |-> chain.indexed, landed |-> chain.landed]
    BY <1>1, ReadsAssumption DEF TypeOK
  <1>4. /\ chain' \in [tip : SlotsOf, indexed : SlotsOf, landed : 0..MaxSlot]
        /\ chain'.indexed <= chain'.tip /\ chain'.landed <= chain'.tip
        /\ chain.indexed <= chain'.indexed
        /\ chain'.landed = chain.landed \/ (chain.landed = 0 /\ chain'.landed > chain.indexed)
    <2>1. CASE Advances
      <3>1. PICK lands \in BOOLEAN :
              /\ lands => chain.landed = 0
              /\ chain' = [chain EXCEPT !.tip = @ + 1, !.landed = IF lands THEN chain.tip + 1 ELSE @]
        BY <2>1 DEF Advances
      <3>0. chain.tip < MaxSlot
        BY <2>1 DEF Advances
      <3>2. chain.tip + 1 \in SlotsOf
        BY <1>3, <3>0 DEF SlotsOf
      <3>3. CASE lands
        <4>1. chain' = [tip |-> chain.tip + 1, indexed |-> chain.indexed, landed |-> chain.tip + 1]
          BY <1>3, <3>1, <3>3
        <4>2. QED
          BY <1>3, <3>1, <3>2, <3>3, <4>1 DEF SlotsOf
      <3>4. CASE ~lands
        <4>1. chain' = [tip |-> chain.tip + 1, indexed |-> chain.indexed, landed |-> chain.landed]
          BY <1>3, <3>1, <3>4
        <4>2. QED
          BY <1>3, <3>2, <4>1 DEF SlotsOf
      <3>5. QED
        BY <3>3, <3>4
    <2>2. CASE Indexes
      <3>1. chain' = [tip |-> chain.tip, indexed |-> chain.indexed + 1, landed |-> chain.landed]
        BY <1>3, <2>2 DEF Indexes
      <3>2. chain.indexed + 1 \in SlotsOf /\ chain.indexed + 1 <= chain.tip
        BY <1>3, <2>2 DEF Indexes, SlotsOf
      <3>3. QED
        BY <1>3, <3>1, <3>2 DEF SlotsOf
    <2>3. QED
      BY <2>1, <2>2
  <1>5. TypeOK'
    BY <1>1, <1>2, <1>4 DEF TypeOK
  <1>6. AskedInTime'
    <2> SUFFICES ASSUME call.step = "lookup"
                 PROVE  /\ call.indexer # None =>
                             /\ call.indexer.at <= chain'.indexed
                             /\ call.indexer.found <=> chain'.landed \in 1..call.indexer.at /\ ~world.failed
                        /\ call.rpc # None => (call.rpc.found => chain'.landed # 0) /\ (call.rpc.timed => call.rpc.found)
      BY <1>2 DEF AskedInTime
    <2>1. ASSUME call.indexer # None
          PROVE  /\ call.indexer.at <= chain'.indexed
                 /\ call.indexer.found <=> chain'.landed \in 1..call.indexer.at /\ ~world.failed
      <3>1. call.indexer.at \in Int /\ call.indexer.at <= chain.indexed
        BY <1>1, <2>1, LookupFields DEF AskedInTime, SlotsOf
      <3>2. chain'.indexed \in Int /\ chain'.landed \in Int /\ chain.indexed \in Int
        BY <1>3, <1>4 DEF SlotsOf
      <3>3. chain'.landed \in 1..call.indexer.at <=> chain.landed \in 1..call.indexer.at
        BY <1>3, <1>4, <3>1, <3>2
      <3>4. call.indexer.found <=> chain.landed \in 1..call.indexer.at /\ ~world.failed
        BY <1>1, <2>1 DEF AskedInTime
      <3>5. call.indexer.at <= chain'.indexed
        BY <1>4, <3>1, <3>2
      <3>6. QED
        BY Zenon, <3>3, <3>4, <3>5
    <2>2. ASSUME call.rpc # None
          PROVE  (call.rpc.found => chain'.landed # 0) /\ (call.rpc.timed => call.rpc.found)
      BY <1>1, <1>3, <1>4, <2>2 DEF AskedInTime, SlotsOf
    <2>3. QED
      BY <2>1, <2>2
  <1>7. WorldStays' /\ CallFits' /\ TimesFit' /\ KnownFits'
    BY <1>1, <1>2 DEF WorldStays, CallFits, TimesFit, KnownFits
  <1>8. QED
    BY <1>5, <1>6, <1>7 DEF Small

TimeRecords == [state : {"unasked", "known", "missing"}, due : 0..RetryMax, wait : 0..RetryMax]

\* The clock.
LEMMA ClockMoves ==
  ASSUME Small, Waits
  PROVE  Small'
  <1>1. WorldStays /\ TypeOK /\ CallFits /\ TimesFit /\ AskedInTime /\ KnownFits
    BY DEF Small
  <1>2. /\ world' = world /\ known' = known /\ chain' = chain /\ reserved' = reserved
        /\ call' = call /\ answer' = answer
    BY DEF Waits
  <1>3. times \in [SlotsOf -> TimeRecords]
    BY <1>1 DEF TypeOK, TimeRecords
  <1>4. RetryMax \in Nat
    BY ReadsAssumption
  <1>5. times' = [s \in SlotsOf |-> [times[s] EXCEPT !.due = IF @ > 0 THEN @ - 1 ELSE 0]]
    BY DEF Waits
  <1>6. ASSUME NEW s \in SlotsOf
        PROVE  times'[s] \in TimeRecords /\ (times'[s].state = "known" => times'[s] = Known)
    <2>1. times[s] \in TimeRecords
      BY <1>3
    <2>2. /\ times[s].state \in {"unasked", "known", "missing"}
          /\ times[s].due \in 0..RetryMax /\ times[s].wait \in 0..RetryMax
      BY <2>1 DEF TimeRecords
    <2>3. times'[s] = [state |-> times[s].state, due |-> IF times[s].due > 0 THEN times[s].due - 1 ELSE 0,
                       wait |-> times[s].wait]
      BY <1>5, <2>1 DEF TimeRecords
    <2>4. (IF times[s].due > 0 THEN times[s].due - 1 ELSE 0) \in 0..RetryMax
      BY <1>4, <2>2
    <2>5. times'[s] \in TimeRecords
      BY <2>2, <2>3, <2>4 DEF TimeRecords
    <2>6. ASSUME times'[s].state = "known" PROVE times'[s] = Known
      <3>1. times[s].state = "known"
        BY <2>3, <2>6
      <3>2. times[s].due = 0 /\ times[s].wait = 0
        BY <1>1, <3>1 DEF TimesFit, Known
      <3>3. QED
        BY <2>3, <3>1, <3>2 DEF Known
    <2>7. QED
      BY <2>5, <2>6
  <1>7. times' \in [SlotsOf -> TimeRecords] /\ TimesFit'
    <2>1. DOMAIN times' = SlotsOf /\ times' = [s \in SlotsOf |-> times'[s]]
      BY <1>5
    <2>2. QED
      BY <1>6, <2>1 DEF TimesFit
  <1>8. TypeOK'
    BY <1>1, <1>2, <1>7 DEF TypeOK, TimeRecords
  <1>9. WorldStays' /\ CallFits' /\ AskedInTime' /\ KnownFits'
    BY <1>1, <1>2 DEF WorldStays, CallFits, AskedInTime, KnownFits
  <1>10. QED
    BY <1>7, <1>8, <1>9 DEF Small

\* What stays when the call and the answer change: the rest of the invariant.
LEMMA OnlyCall ==
  ASSUME Small, UNCHANGED <<world, chain, known, times, reserved>>, CallFits', AskedInTime',
         answer'.status \in {"none", "error", "NotFound", "PendingIndexing", "Ready", "Incomplete"}
  PROVE  Small'
  <1>1. WorldStays' /\ TimesFit' /\ KnownFits'
    BY DEF Small, WorldStays, TimesFit, KnownFits
  <1>2. call'.step \in {"none", "lookup", "scan"}
    <2>1. \A c \in Lookups : c.step = "lookup"
      BY DEF Lookups
    <2>2. \A c \in Scans : c.step = "scan"
      BY DEF Scans
    <2>3. None.step = "none"
      BY DEF None
    <2>4. call' \in {None} \cup Lookups \cup Scans
      BY DEF CallFits, None, Lookups, Scans, Reads, Confirmed, SlotsOf
    <2>5. QED
      BY <2>1, <2>2, <2>3, <2>4
  <1>3. TypeOK'
    BY <1>2 DEF Small, TypeOK
  <1>4. QED
    BY <1>1, <1>3 DEF Small

\* Every answer has one of the statuses.
LEMMA StatusFits ==
  ASSUME TypeOK
  PROVE  answer.status \in {"none", "error", "NotFound", "PendingIndexing", "Ready", "Incomplete"}
  BY DEF TypeOK

\* StartLookup keeps the types.
LEMMA LookupStarts ==
  ASSUME Small, NEW openings \in BOOLEAN, StartLookup(openings)
  PROVE  Small'
  <1>1. /\ call' = [step |-> "lookup", openings |-> openings, indexer |-> None, rpc |-> None]
        /\ answer' = NoAnswer /\ UNCHANGED <<world, chain, known, times, reserved>>
    BY DEF StartLookup
  <1>2. call' \in Lookups
    BY <1>1 DEF Lookups
  <1>3. CallFits'
    BY <1>2 DEF CallFits, None, Lookups, Scans, Reads, Confirmed, SlotsOf
  <1>4. AskedInTime'
    <2>1. call'.indexer = None /\ call'.rpc = None
      BY <1>1
    <2>2. QED
      BY <2>1 DEF AskedInTime
  <1>5. answer'.status = "none"
    BY <1>1 DEF NoAnswer
  <1>6. QED
    BY <1>1, <1>3, <1>4, <1>5, OnlyCall

\* AskIndexer keeps the types: the events are found when the transaction's
\* slot is indexed.
LEMMA IndexerAsked ==
  ASSUME Small, NEW agrees \in BOOLEAN, AskIndexer(agrees)
  PROVE  Small'
  <1>1. WorldStays /\ TypeOK /\ CallFits /\ AskedInTime
    BY DEF Small
  <1>2. call.step = "lookup" /\ call.indexer = None /\ UNCHANGED <<world, chain, known, times, reserved, answer>>
    BY DEF AskIndexer
  <1> DEFINE found == chain.landed \in 1..chain.indexed /\ ~world.failed
             read == [step |-> "read", at |-> chain.indexed, agrees |-> agrees, found |-> found]
  <1>3. call \in Lookups
    BY <1>1, <1>2, CallKinds
  <1>4. call' = [step |-> "lookup", openings |-> call.openings, indexer |-> read, rpc |-> call.rpc]
    BY <1>3 DEF AskIndexer, Lookups
  <1>5. chain.indexed \in SlotsOf
    BY <1>1 DEF TypeOK
  <1>6. found \in BOOLEAN
    OBVIOUS
  <1>7. read \in Reads /\ read.at = chain.indexed /\ (read.found <=> found)
    <2> HIDE DEF found
    <2>1. QED
      BY <1>5, <1>6 DEF Reads
  <1>8. call' \in Lookups
    <2>1. call.openings \in BOOLEAN /\ call.rpc \in {None} \cup Confirmed
      BY <1>1, <1>2, LookupFields
    <2> HIDE DEF read
    <2>2. QED
      BY <1>4, <1>7, <2>1 DEF Lookups
  <1>9. CallFits'
    BY <1>8 DEF CallFits, None, Lookups, Scans, Reads, Confirmed, SlotsOf
  <1>10. AskedInTime'
    <2>1. /\ call'.indexer = read /\ call'.rpc = call.rpc /\ chain' = chain /\ world' = world
      BY <1>2, <1>4
    <2>2. call'.indexer.at <= chain'.indexed
      <3>1. chain.indexed <= chain.indexed
        BY <1>5 DEF SlotsOf
      <3> HIDE DEF read
      <3>2. QED
        BY <1>7, <2>1, <3>1
    <2>3. call'.indexer.found <=> chain'.landed \in 1..call'.indexer.at /\ ~world'.failed
      <3>1. read.found <=> chain.landed \in 1..read.at /\ ~world.failed
        BY <1>7
      <3> HIDE DEF read
      <3>2. QED
        BY <2>1, <3>1
    <2>4. call.rpc # None => (call.rpc.found => chain.landed # 0) /\ (call.rpc.timed => call.rpc.found)
      BY <1>1, <1>2 DEF AskedInTime
    <2>5. call'.rpc # None => (call'.rpc.found => chain'.landed # 0) /\ (call'.rpc.timed => call'.rpc.found)
      BY <2>1, <2>4
    <2>6. QED
      BY <2>2, <2>3, <2>5 DEF AskedInTime, None
  <1>11. answer'.status \in {"none", "error", "NotFound", "PendingIndexing", "Ready", "Incomplete"}
    BY <1>1, <1>2, StatusFits
  <1>12. QED
    BY <1>2, <1>9, <1>10, <1>11, OnlyCall

\* AskRpc keeps the types.
LEMMA RpcAsked ==
  ASSUME Small, NEW found \in BOOLEAN, NEW timed \in BOOLEAN, AskRpc(found, timed)
  PROVE  Small'
  <1>1. WorldStays /\ TypeOK /\ CallFits /\ AskedInTime
    BY DEF Small
  <1>2. /\ call.step = "lookup" /\ UNCHANGED <<world, chain, known, times, reserved, answer>>
        /\ (found => chain.landed # 0) /\ (timed => found)
    BY DEF AskRpc
  <1> DEFINE read == [step |-> "read", found |-> found, timed |-> timed]
  <1>3. call \in Lookups
    BY <1>1, <1>2, CallKinds
  <1>4. call' = [step |-> "lookup", openings |-> call.openings, indexer |-> call.indexer, rpc |-> read]
    BY <1>3 DEF AskRpc, Lookups
  <1>5. read \in Confirmed /\ read.found = found /\ read.timed = timed
    BY DEF Confirmed
  <1>6. call' \in Lookups
    <2>1. call.openings \in BOOLEAN /\ call.indexer \in {None} \cup Reads
      BY <1>1, <1>2, LookupFields
    <2> HIDE DEF read
    <2>2. QED
      BY <1>4, <1>5, <2>1 DEF Lookups
  <1>7. CallFits'
    BY <1>6 DEF CallFits, None, Lookups, Scans, Reads, Confirmed, SlotsOf
  <1>8. AskedInTime'
    <2>1. call'.indexer = call.indexer /\ call'.rpc = read /\ chain' = chain /\ world' = world
      BY <1>2, <1>4
    <2>2. call.indexer # None =>
             /\ call.indexer.at <= chain.indexed
             /\ call.indexer.found <=> chain.landed \in 1..call.indexer.at /\ ~world.failed
      BY <1>1, <1>2 DEF AskedInTime
    <2>3. call'.indexer # None =>
             /\ call'.indexer.at <= chain'.indexed
             /\ call'.indexer.found <=> chain'.landed \in 1..call'.indexer.at /\ ~world'.failed
      BY <2>1, <2>2
    <2>4. (call'.rpc.found => chain'.landed # 0) /\ (call'.rpc.timed => call'.rpc.found)
      <3> HIDE DEF read
      <3>1. QED
        BY <1>2, <1>5, <2>1
    <2>5. QED
      BY <2>3, <2>4 DEF AskedInTime, None
  <1>9. answer'.status \in {"none", "error", "NotFound", "PendingIndexing", "Ready", "Incomplete"}
    BY <1>1, <1>2, StatusFits
  <1>10. QED
    BY <1>2, <1>7, <1>8, <1>9, OnlyCall

\* What every call leaves when it ends.
LEMMA CallEnded ==
  ASSUME Small, UNCHANGED <<world, chain, reserved>>, call' = None,
         known' = known \/ known' = Registry \/ (world.discovers /\ known' = Registrations),
         times' \in [SlotsOf -> TimeRecords], TimesFit',
         answer'.status \in {"none", "error", "NotFound", "PendingIndexing", "Ready", "Incomplete"}
  PROVE  Small'
  <1>1. WorldStays /\ TypeOK /\ KnownFits
    BY DEF Small
  <1>2. CallFits' /\ AskedInTime' /\ call'.step = "none"
    BY CallGone
  <1>3. known' \subseteq Assets /\ Sol \in known'
    BY <1>1, ReadsAssumption DEF TypeOK, Registry, Registrations
  <1>4. KnownFits'
    <2> SUFFICES ASSUME ~world.discovers PROVE known' \subseteq {Sol} \cup (Configured \cap Usable)
      BY DEF KnownFits
    <2>1. known \subseteq {Sol} \cup (Configured \cap Usable)
      BY <1>1 DEF KnownFits
    <2>2. known' = known \/ known' = known \cup (Configured \cap Usable)
      BY DEF Registry
    <2>3. QED
      BY <2>1, <2>2
  <1>5. TypeOK'
    BY <1>1, <1>2, <1>3 DEF TypeOK, TimeRecords
  <1>6. WorldStays'
    BY <1>1 DEF WorldStays
  <1>7. QED
    BY <1>2, <1>4, <1>5, <1>6 DEF Small

\* A step that leaves the block times alone keeps their types.
LEMMA KeptTimes ==
  ASSUME Small, times' = times
  PROVE  times' \in [SlotsOf -> TimeRecords] /\ TimesFit'
  BY DEF Small, TypeOK, TimesFit, TimeRecords

\* The time that a confirmed transaction brings.
LEMMA SeededFits ==
  ASSUME Small, call.step = "lookup", call.rpc # None
  PROVE  /\ Seeded \in [SlotsOf -> TimeRecords]
         /\ \A s \in SlotsOf : Seeded[s] = times[s] \/ Seeded[s] = Known
         /\ \A s \in SlotsOf : Seeded[s].state = "known" => Seeded[s] = Known
  <1>1. TypeOK /\ TimesFit /\ AskedInTime /\ CallFits
    BY DEF Small
  <1>2. times \in [SlotsOf -> TimeRecords]
    BY <1>1 DEF TypeOK, TimeRecords
  <1>3. Known \in TimeRecords
    BY ReadsAssumption DEF Known, TimeRecords
  <1>4. call.rpc.timed => chain.landed \in SlotsOf
    <2>1. call.rpc.timed => chain.landed # 0
      BY <1>1 DEF AskedInTime
    <2>2. chain.landed \in 0..MaxSlot
      BY <1>1 DEF TypeOK
    <2>3. QED
      BY <2>1, <2>2, ReadsAssumption DEF SlotsOf
  <1>5. Seeded \in [SlotsOf -> TimeRecords] /\ \A s \in SlotsOf : Seeded[s] = times[s] \/ Seeded[s] = Known
    BY <1>2, <1>3, <1>4 DEF Seeded
  <1>6. QED
    BY <1>1, <1>5 DEF TimesFit

\* So does one that stores the time a confirmed transaction brought.
LEMMA SeededTimes ==
  ASSUME Small, call.step = "lookup", call.rpc # None, times' = Seeded
  PROVE  times' \in [SlotsOf -> TimeRecords] /\ TimesFit'
  <1>1. times' \in [SlotsOf -> TimeRecords] /\ \A s \in SlotsOf : times'[s].state = "known" => times'[s] = Known
    BY SeededFits
  <1>2. QED
    BY <1>1 DEF TimesFit

\* The ways a lookup fails keep the types.
LEMMA LookupFailed ==
  ASSUME Small, LookupFails \/ Inconsistent
  PROVE  Small'
  <1>1. /\ UNCHANGED <<world, chain, reserved>> /\ call' = None /\ known' = known /\ times' = times
        /\ answer' = [NoAnswer EXCEPT !.status = "error"]
    BY DEF LookupFails, Inconsistent, Fails
  <1>2. answer'.status = "error"
    BY <1>1 DEF NoAnswer
  <1>3. times' \in [SlotsOf -> TimeRecords] /\ TimesFit'
    BY <1>1, KeptTimes
  <1>4. QED
    BY <1>1, <1>2, <1>3, CallEnded

\* The ways a lookup ends keep the types.
LEMMA LookupEnded ==
  ASSUME Small, NotFound \/ PendingIndexing \/ NoEvents \/ DetailsFail
                \/ (\E records \in {"same", "changed", "missing"} : ReadsEvents(records))
  PROVE  Small'
  <1>1. call.step = "lookup" /\ call.rpc # None
    BY DEF NotFound, PendingIndexing, NoEvents, DetailsFail, ReadsEvents, Agreed, Answered
  <1>2. UNCHANGED <<world, chain, reserved>> /\ call' = None /\ times' = Seeded
    BY DEF NotFound, PendingIndexing, NoEvents, DetailsFail, ReadsEvents, Ends, Fails
  <1>3. known' = known \/ known' = Registry \/ (world.discovers /\ known' = Registrations)
    <2>1. CASE NotFound \/ PendingIndexing \/ NoEvents
      BY <2>1 DEF NotFound, PendingIndexing, NoEvents
    <2>2. CASE DetailsFail
      BY <2>2 DEF DetailsFail
    <2>3. CASE \E records \in {"same", "changed", "missing"} : ReadsEvents(records)
      BY <2>3, Zenon DEF ReadsEvents
    <2>4. QED
      BY <2>1, <2>2, <2>3
  <1>4. answer'.status \in {"none", "error", "NotFound", "PendingIndexing", "Ready", "Incomplete"}
    <2>1. CASE NotFound
      BY <2>1 DEF NotFound, Ends
    <2>2. CASE PendingIndexing
      BY <2>2 DEF PendingIndexing, Ends
    <2>3. CASE NoEvents
      BY <2>3 DEF NoEvents, Ends
    <2>4. CASE DetailsFail
      BY <2>4 DEF DetailsFail, Fails, NoAnswer
    <2>5. CASE \E records \in {"same", "changed", "missing"} : ReadsEvents(records)
      <3>1. PICK records \in {"same", "changed", "missing"} : ReadsEvents(records)
        BY <2>5
      <3>2. \/ \E assets : Ends("Ready", Entries(world.tx, assets), Outputs(world.tx, assets))
            \/ Ends("Incomplete", {}, {})
        BY Zenon, <3>1 DEF ReadsEvents
      <3>3. QED
        BY <3>2 DEF Ends
    <2>6. QED
      BY <2>1, <2>2, <2>3, <2>4, <2>5
  <1>5. times' \in [SlotsOf -> TimeRecords] /\ TimesFit'
    BY <1>1, <1>2, SeededTimes
  <1>6. QED
    BY <1>2, <1>3, <1>4, <1>5, CallEnded

\* The activity.
LEMMA ScanStarts ==
  ASSUME Small, StartActivity
  PROVE  Small'
  <1>1. /\ call' = [step |-> "scan", slot |-> chain.tip]
        /\ answer' = NoAnswer /\ UNCHANGED <<world, chain, known, times, reserved>>
    BY DEF StartActivity
  <1>2. chain.tip \in SlotsOf
    BY DEF Small, TypeOK
  <1>3. call' \in Scans /\ call'.step = "scan"
    BY <1>1, <1>2 DEF Scans
  <1>4. CallFits'
    BY <1>3 DEF CallFits, None, Lookups, Scans, Reads, Confirmed, SlotsOf
  <1>5. AskedInTime'
    BY <1>3 DEF AskedInTime
  <1>6. answer'.status = "none"
    BY <1>1 DEF NoAnswer
  <1>7. QED
    BY <1>1, <1>4, <1>5, <1>6, OnlyCall

\* IndexerBehind keeps the types.
LEMMA ScanRefused ==
  ASSUME Small, IndexerBehind
  PROVE  Small'
  <1>1. call' = None /\ UNCHANGED <<world, chain, known, times, reserved, answer>>
    BY DEF IndexerBehind
  <1>2. CallFits' /\ AskedInTime'
    BY <1>1, CallGone
  <1>3. answer'.status \in {"none", "error", "NotFound", "PendingIndexing", "Ready", "Incomplete"}
    BY <1>1, StatusFits DEF Small
  <1>4. QED
    BY <1>1, <1>2, <1>3, OnlyCall

\* A slot that is asked for has no time, and its wait is over; a slot without
\* an answer waits no shorter than before.
LEMMA AskedSlots ==
  ASSUME Small, NEW s \in Asked
  PROVE  s \in SlotsOf /\ ToAsk(s)
  <1>1. RowSlots \subseteq SlotsOf
    BY ReadsAssumption DEF RowSlots, SlotsOf
  <1>2. QED
    BY <1>1 DEF Asked, Newest

\* A missing time's next wait is within the limit, and no shorter than the
\* last.
LEMMA MissedFits ==
  ASSUME NEW old \in TimeRecords
  PROVE  /\ Missed(old) \in TimeRecords /\ Missed(old).state = "missing"
         /\ old.state = "missing" => Missed(old).wait >= old.wait
  <1>1. /\ RetryFirst \in Nat /\ RetryMax \in Nat /\ RetryMax >= RetryFirst
        /\ old.wait \in 0..RetryMax
    BY ReadsAssumption DEF TimeRecords
  <1> DEFINE wait == IF old.state = "missing" THEN Min({2 * old.wait, RetryMax}) ELSE RetryFirst
  <1>2. wait \in 0..RetryMax /\ (old.state = "missing" => wait >= old.wait)
    <2>1. 2 * old.wait \in Nat
      BY <1>1
    <2>2. Min({2 * old.wait, RetryMax}) = IF 2 * old.wait <= RetryMax THEN 2 * old.wait ELSE RetryMax
      BY <1>1, <2>1, MinOfTwo
    <2>3. QED
      BY <1>1, <2>2
  <1>3. Missed(old) = [state |-> "missing", due |-> wait, wait |-> wait]
    BY DEF Missed
  <1> HIDE DEF wait
  <1>4. QED
    BY <1>2, <1>3 DEF TimeRecords

\* ReadsActivity keeps the types, for any answers of the RPC.
LEMMA ActivityRead ==
  ASSUME Small, NEW timed \in SUBSET SlotsOf, ReadsActivity(timed)
  PROVE  Small'
  <1>1. /\ UNCHANGED <<world, chain, reserved, answer>> /\ call' = None /\ known' = Scanned
        /\ timed \subseteq Asked
        /\ times' = [s \in SlotsOf |-> CASE s \notin Asked -> times[s]
                                         [] s \in timed -> Known
                                         [] OTHER -> Missed(times[s])]
    BY DEF ReadsActivity
  <1>2. known' = known \/ known' = Registry \/ (world.discovers /\ known' = Registrations)
    BY <1>1 DEF Scanned
  <1>3. TypeOK /\ TimesFit
    BY DEF Small
  <1>4. times \in [SlotsOf -> TimeRecords]
    BY <1>3 DEF TypeOK, TimeRecords
  <1>5. ASSUME NEW s \in SlotsOf
        PROVE  times'[s] \in TimeRecords /\ (times'[s].state = "known" => times'[s] = Known)
    <2>1. times[s] \in TimeRecords
      BY <1>4
    <2>2. Known \in TimeRecords /\ Missed(times[s]) \in TimeRecords /\ Missed(times[s]).state = "missing"
      BY <2>1, MissedFits, ReadsAssumption DEF Known, TimeRecords
    <2>3. times'[s] = times[s] \/ times'[s] = Known \/ times'[s] = Missed(times[s])
      <3>1. times'[s] = CASE s \notin Asked -> times[s] [] s \in timed -> Known [] OTHER -> Missed(times[s])
        BY <1>1
      <3>2. CASE s \notin Asked
        <4>1. s \notin timed
          BY <1>1, <3>2
        <4>2. QED
          BY <3>1, <3>2, <4>1
      <3>3. CASE s \in Asked
        BY <3>1, <3>3
      <3>4. QED
        BY <3>2, <3>3
    <2>4. times[s].state = "known" => times[s] = Known
      BY <1>3 DEF TimesFit
    <2>5. QED
      BY <2>1, <2>2, <2>3, <2>4
  <1>6. times' \in [SlotsOf -> TimeRecords] /\ TimesFit'
    <2>1. DOMAIN times' = SlotsOf /\ times' = [s \in SlotsOf |-> times'[s]]
      BY <1>1
    <2>2. QED
      BY <1>5, <2>1 DEF TimesFit
  <1>7. answer'.status \in {"none", "error", "NotFound", "PendingIndexing", "Ready", "Incomplete"}
    BY <1>1, <1>3, StatusFits
  <1>8. QED
    BY <1>1, <1>2, <1>6, <1>7, CallEnded

\* The notes.
LEMMA NotesMove ==
  ASSUME Small, UNCHANGED <<world, chain, known, times, call, answer>>,
         reserved' \subseteq {n.id : n \in world.notes}
  PROVE  Small'
  <1>1. TypeOK'
    BY DEF Small, TypeOK
  <1>2. QED
    BY <1>1 DEF Small, WorldStays, CallFits, TimesFit, AskedInTime, KnownFits

\* SelectsSpend keeps the types: it reserves notes that were read.
LEMMA SpendSelected ==
  ASSUME Small, NEW spend \in Spends, SelectsSpend(spend)
  PROVE  Small'
  <1> DEFINE sdk == SdkSelects(world.notes, reserved, spend[1], spend[2])
             cap == Min({world.cap, MaxSpendInputs(spend[3])})
             free == LargestFirst(Candidates(world.notes, reserved, spend[1]))
             C == Candidates(world.notes, reserved, spend[1])
             k == Min(Covers(free, spend[2]))
  <1>1. WorldStays /\ TypeOK
    BY DEF Small
  <1>2. NotesRead(world.notes) /\ spend[2] \in Nat
    BY <1>1, WorldFields, ReadsAssumption DEF WorldStays
  <1>3. Selected(spend) = WithinCap(sdk, cap) /\ Selected(spend).error = "none"
    BY DEF SelectsSpend, Selected, SelectNotes
  <1>4. Selected(spend) = sdk /\ sdk.error = "none"
    <2> HIDE DEF sdk, cap
    <2>1. Selected(spend) = IF sdk.error = "none" /\ Len(sdk.taken) > cap
                            THEN [error |-> "MergeRequired", taken |-> <<>>] ELSE sdk
      BY <1>3 DEF WithinCap
    <2>2. [error |-> "MergeRequired", taken |-> <<>>].error # "none"
      OBVIOUS
    <2>3. QED
      BY <1>3, <2>1, <2>2
  <1>5. /\ free \in Seq(C)
        /\ Covers(free, spend[2]) # {} => k \in Covers(free, spend[2]) /\ \A j \in Covers(free, spend[2]) : k <= j
        /\ sdk.error = "none" <=>
             /\ spend[2] > 0 /\ Covers(free, spend[2]) # {}
             /\ k <= SdkCap /\ Cardinality(TreesOf(SubSeq(free, 1, k))) <= MaxTrees
        /\ sdk.error = "none" => sdk.taken = SubSeq(free, 1, k) /\ Len(sdk.taken) = k
    BY <1>2, SdkSelection
  <1>6. k \in 0..Len(free)
    <2>1. k \in Covers(free, spend[2])
      BY <1>4, <1>5
    <2> HIDE DEF k
    <2>2. QED
      BY <1>5, <2>1 DEF Covers
  <1>7. \A n \in C : n \in world.notes /\ n.amount \in Nat
    BY <1>2 DEF Candidates, NotesRead
  <1>8. \A i \in 1..k : SubSeq(free, 1, k)[i] = free[i]
    <2> HIDE DEF C, free, k
    <2>1. QED
      BY <1>5, <1>6, <1>7, BeginningsTotal
  <1>9. \A i \in 1..Len(sdk.taken) : sdk.taken[i] \in world.notes
    <2> HIDE DEF C, free, k, sdk
    <2>1. QED
      BY <1>4, <1>5, <1>6, <1>7, <1>8
  <1>10. UNCHANGED <<world, chain, known, times, call, answer>>
    BY DEF SelectsSpend
  <1>11. reserved' = reserved \cup {Selected(spend).taken[i].id : i \in 1..Len(Selected(spend).taken)}
    BY DEF SelectsSpend
  <1>12. reserved' \subseteq {n.id : n \in world.notes}
    <2>1. reserved \subseteq {n.id : n \in world.notes}
      BY <1>1 DEF TypeOK
    <2> HIDE DEF sdk
    <2>2. QED
      BY <1>4, <1>9, <1>11, <2>1
  <1>13. QED
    BY <1>10, <1>12, NotesMove

\* SelectsMerge keeps the types.
LEMMA MergeSelected ==
  ASSUME Small, NEW first \in world.notes, NEW second \in world.notes, SelectsMerge(first, second)
  PROVE  Small'
  <1>1. reserved \subseteq {n.id : n \in world.notes}
    BY DEF Small, TypeOK
  <1>2. UNCHANGED <<world, chain, known, times, call, answer>> /\ reserved' = reserved \cup {first.id, second.id}
    BY DEF SelectsMerge
  <1>3. QED
    BY <1>1, <1>2, NotesMove

\* Released keeps the types.
LEMMA NotesReleased ==
  ASSUME Small, Released
  PROVE  Small'
  BY NotesMove DEF Released

\* Every step keeps the types.
LEMMA SmallKept == Small /\ [Next]_vars => Small'
  <1> SUFFICES ASSUME Small, [Next]_vars PROVE Small'
    OBVIOUS
  <1>1. CASE Advances
    BY <1>1, ChainMoves
  <1>2. CASE Indexes
    BY <1>2, ChainMoves
  <1>3. CASE Waits
    BY <1>3, ClockMoves
  <1>4. CASE \E openings \in BOOLEAN : StartLookup(openings)
    BY <1>4, LookupStarts
  <1>5. CASE \E agrees \in BOOLEAN : AskIndexer(agrees)
    BY <1>5, IndexerAsked
  <1>6. CASE \E found, timed \in BOOLEAN : AskRpc(found, timed)
    BY <1>6, RpcAsked
  <1>7. CASE LookupFails \/ Inconsistent
    BY <1>7, LookupFailed
  <1>8. CASE NotFound \/ PendingIndexing \/ NoEvents \/ DetailsFail
             \/ (\E records \in {"same", "changed", "missing"} : ReadsEvents(records))
    BY <1>8, LookupEnded
  <1>9. CASE StartActivity
    BY <1>9, ScanStarts
  <1>10. CASE IndexerBehind
    BY <1>10, ScanRefused
  <1>11. CASE \E timed \in SUBSET SlotsOf : ReadsActivity(timed)
    BY <1>11, ActivityRead
  <1>12. CASE \E spend \in Spends : SelectsSpend(spend)
    BY <1>12, SpendSelected
  <1>13. CASE \E first, second \in world.notes : SelectsMerge(first, second)
    BY <1>13, MergeSelected
  <1>14. CASE Released
    BY <1>14, NotesReleased
  <1>15. CASE UNCHANGED vars
    BY <1>15, NotesMove DEF vars, Small, TypeOK
  <1>16. QED
    BY <1>1, <1>2, <1>3, <1>4, <1>5, <1>6, <1>7, <1>8, <1>9, <1>10, <1>11, <1>12, <1>13, <1>14, <1>15 DEF Next

\* An answer that carries nothing and does not say Ready.
LEMMA NothingTold ==
  ASSUME answer'.status # "Ready", answer'.rows = {}, answer'.outputs = {}
  PROVE  ReadyIsComplete'
  BY DEF ReadyIsComplete

\* A step that leaves the answer alone keeps it complete.
LEMMA AnswerStays ==
  ASSUME ReadyIsComplete, world' = world, answer' = answer
  PROVE  ReadyIsComplete'
  BY DEF ReadyIsComplete, Truth, Named, Payments

\* What is known when a wallet is not to discover is what a complete answer
\* names; a wallet that discovers may leave out what did not move.
LEMMA NamesEnough ==
  ASSUME Small, NEW assets, assets = Registry \/ (world.discovers /\ assets = Registrations)
  PROVE  /\ assets \in SUBSET Assets /\ Named \in SUBSET Assets /\ assets \subseteq Named
         /\ ~world.discovers => Named = assets
  <1>1. known \subseteq Assets /\ Sol \in known /\ KnownFits /\ world.discovers \in BOOLEAN
    BY WorldFields DEF Small, TypeOK, WorldStays
  <1>2. CASE world.discovers
    <2>1. Named = Assets
      BY <1>2 DEF Named
    <2>2. assets \subseteq Assets
      BY <1>1, ReadsAssumption DEF Registry, Registrations
    <2>3. QED
      BY <1>2, <2>1, <2>2
  <1>3. CASE ~world.discovers
    <2>1. assets = known \cup (Configured \cap Usable) /\ Named = {Sol} \cup (Configured \cap Usable)
      BY <1>3 DEF Registry, Named
    <2>2. known \subseteq {Sol} \cup (Configured \cap Usable)
      BY <1>1, <1>3 DEF KnownFits
    <2>3. assets = Named /\ assets \subseteq Assets
      BY <1>1, <2>1, <2>2, ReadsAssumption
    <2>4. QED
      BY <1>3, <2>3
  <1>4. QED
    BY <1>1, <1>2, <1>3

\* The indexer had nothing of the transaction though it was there: it failed.
LEMMA NoEventsTold ==
  ASSUME Small, NoEvents
  PROVE  ReadyIsComplete'
  <1>1. /\ call.step = "lookup" /\ call.indexer # None /\ call.rpc # None
        /\ Found /\ ~Ahead /\ ~call.indexer.found
        /\ answer' = [status |-> "Ready", rows |-> {}, outputs |-> {}, timed |-> call.rpc.timed]
        /\ world' = world
    BY DEF NoEvents, Agreed, Answered, Ends
  <1>2. CallFits /\ AskedInTime /\ TypeOK /\ world.failed \in BOOLEAN
    BY WorldFields DEF Small, WorldStays
  <1>3. chain.landed # 0
    BY <1>1, <1>2 DEF Found, AskedInTime
  <1>4. ~(chain.landed > call.indexer.at)
    BY <1>1 DEF Ahead
  <1>5. chain.landed \in Nat /\ call.indexer.at \in Nat
    BY <1>1, <1>2, LookupFields DEF TypeOK, SlotsOf
  <1>6. chain.landed \in 1..call.indexer.at
    BY <1>3, <1>4, <1>5
  <1>7. world.failed
    BY <1>1, <1>2, <1>6 DEF AskedInTime
  <1>8. answer'.rows = {} /\ answer'.outputs = {} /\ answer'.status = "Ready"
    BY <1>1
  <1>9. Truth' = {} /\ world'.failed
    BY <1>1, <1>7 DEF Truth
  <1>10. Plain(answer'.rows) = {}
    BY <1>8 DEF Plain
  <1>11. QED
    BY <1>8, <1>9, <1>10 DEF ReadyIsComplete, Plain

\* ReadsEvents answers "Ready" only with the whole history, whichever of
\* its two readings of the details ended it.
LEMMA EventsTold ==
  ASSUME Small, NEW records \in {"same", "changed", "missing"}, ReadsEvents(records)
  PROVE  ReadyIsComplete'
  <1> DEFINE first == Details(world.tx, Reader(Registry, world.discovers, records))
             again == first = "assets" /\ world.discovers
             assets == IF again THEN Registrations ELSE Registry
             last == IF again THEN Details(world.tx, Reader(assets, FALSE, records)) ELSE first
  <1>1. Agreed /\ ~Ahead /\ call.indexer.found
    BY DEF ReadsEvents
  <1>2. \/ last = "ok" /\ Ends("Ready", Entries(world.tx, assets), Outputs(world.tx, assets))
        \/ Ends("Incomplete", {}, {})
    BY Zenon DEF ReadsEvents
  <1>3. WellFormed(world.tx) /\ world.discovers \in BOOLEAN /\ world.failed \in BOOLEAN
    BY WorldFields DEF Small, WorldStays
  <1>4. ~world.failed
    <2>1. call.step = "lookup" /\ call.indexer # None
      BY <1>1 DEF Agreed, Answered
    <2>2. QED
      BY <1>1, <2>1 DEF Small, AskedInTime
  <1>5. CASE Ends("Incomplete", {}, {})
    <2>1. answer' = [status |-> "Incomplete", rows |-> {}, outputs |-> {}, timed |-> call.rpc.timed]
      BY <1>5 DEF Ends
    <2>2. QED
      BY <2>1, NothingTold
  <1>6. CASE last = "ok" /\ Ends("Ready", Entries(world.tx, assets), Outputs(world.tx, assets))
    <2>1. assets = Registry \/ (world.discovers /\ assets = Registrations)
      OBVIOUS
    <2>2. /\ assets \in SUBSET Assets /\ Named \in SUBSET Assets /\ assets \subseteq Named
          /\ ~world.discovers => Named = assets
      <3> HIDE DEF assets
      <3>1. QED
        BY <2>1, NamesEnough
    <2>3. world.discovers => Resolved(world.tx, assets)
      <3> SUFFICES ASSUME world.discovers PROVE Resolved(world.tx, assets)
        OBVIOUS
      <3>1. PICK discover \in BOOLEAN : Details(world.tx, Reader(assets, discover, records)) = "ok"
        <4>1. CASE again
          <5>1. Details(world.tx, Reader(assets, FALSE, records)) = "ok"
            BY Zenon, <1>6, <4>1
          <5>2. QED
            BY <5>1
        <4>2. CASE ~again
          <5>1. Details(world.tx, Reader(assets, world.discovers, records)) = "ok"
            BY Zenon, <1>6, <4>2
          <5>2. QED
            BY <1>3, <5>1
        <4>3. QED
          BY <4>1, <4>2
      <3> HIDE DEF assets
      <3>2. PICK r : r = Reader(assets, discover, records)
        OBVIOUS
      <3>3. r.known = assets /\ r.discover = discover /\ r.discovers = world.discovers
        BY <3>2 DEF Reader
      <3>4. Details(world.tx, r) = "ok"
        BY <3>1, <3>2
      <3>5. r.discovers = TRUE
        BY Zenon, <1>3, <3>3
      <3>6. Resolved(world.tx, r.known)
        BY ONLY <1>3, <3>4, <3>5, NothingMissed
      <3>7. QED
        BY <3>3, <3>6
    <2>4. Named = assets \/ Resolved(world.tx, assets)
      BY <1>3, <2>2, <2>3
    <2>5. Plain(Entries(world.tx, assets)) = History(world.tx, Named)
      <3> HIDE DEF assets
      <3>1. QED
        BY <1>3, <2>2, <2>4, RowsAreHistory
    <2>6. {p \in PaymentsIn(world.tx) : p.asset \in Named} =
            {[to |-> o.to, asset |-> o.asset, amount |-> o.amount] :
               o \in {q \in Outputs(world.tx, assets) : q.at[2] = "private"}}
      <3> HIDE DEF assets
      <3>1. QED
        BY <1>3, <2>2, <2>4, OutputsArePayments
    <2>7. Payments = PaymentsIn(world.tx)
      BY DEF Payments, PaymentsIn
    <2>8. Truth = History(world.tx, Named)
      BY <1>4 DEF Truth
    <2> DEFINE rows == Entries(world.tx, assets)
               outs == Outputs(world.tx, assets)
    <2>9. world' = world /\ answer' = [status |-> "Ready", rows |-> rows, outputs |-> outs, timed |-> call.rpc.timed]
      BY <1>6 DEF Ends
    <2> HIDE DEF rows, outs
    <2>10. answer'.status = "Ready" /\ answer'.rows = rows /\ answer'.outputs = outs
      BY <2>9
    <2>11. Truth' = Truth /\ Payments' = Payments /\ Named' = Named
      BY <2>9 DEF Truth, Payments, Named
    <2>12. Plain(answer'.rows) = Truth'
      BY <2>5, <2>8, <2>10, <2>11 DEF rows
    <2>13. {p \in Payments' : p.asset \in Named'} =
             {[to |-> o.to, asset |-> o.asset, amount |-> o.amount] : o \in {q \in answer'.outputs : q.at[2] = "private"}}
      BY <2>6, <2>7, <2>10, <2>11 DEF outs
    <2>14. QED
      BY <2>10, <2>12, <2>13 DEF ReadyIsComplete, Plain
  <1>7. QED
    BY <1>2, <1>5, <1>6

\* Every step keeps a complete answer complete.
LEMMA ReadyKept == IInv /\ [Next]_vars => ReadyIsComplete'
  <1> SUFFICES ASSUME IInv, [Next]_vars PROVE ReadyIsComplete'
    OBVIOUS
  <1>1. Small /\ ReadyIsComplete /\ world' = world
    BY OneWorld DEF IInv
  <1>2. CASE \/ Advances \/ Indexes \/ Waits \/ (\E agrees \in BOOLEAN : AskIndexer(agrees))
             \/ (\E found, timed \in BOOLEAN : AskRpc(found, timed)) \/ IndexerBehind
             \/ (\E timed \in SUBSET SlotsOf : ReadsActivity(timed))
             \/ (\E spend \in Spends : SelectsSpend(spend))
             \/ (\E first, second \in world.notes : SelectsMerge(first, second))
             \/ Released \/ UNCHANGED vars
    <2>1. answer' = answer
      BY <1>2 DEF Advances, Indexes, Waits, AskIndexer, AskRpc, IndexerBehind, ReadsActivity, SelectsSpend,
                  SelectsMerge, Released, vars
    <2>2. QED
      BY <1>1, <2>1, AnswerStays
  <1>3. CASE (\E openings \in BOOLEAN : StartLookup(openings)) \/ StartActivity
    <2>1. answer' = NoAnswer
      BY <1>3 DEF StartLookup, StartActivity
    <2>2. QED
      BY <2>1, NothingTold DEF NoAnswer
  <1>4. CASE LookupFails \/ Inconsistent \/ DetailsFail
    <2>1. answer' = [NoAnswer EXCEPT !.status = "error"]
      BY <1>4 DEF LookupFails, Inconsistent, DetailsFail, Fails
    <2>2. QED
      BY <2>1, NothingTold DEF NoAnswer
  <1>5. CASE NotFound \/ PendingIndexing
    <2>1. \/ answer' = [status |-> "NotFound", rows |-> {}, outputs |-> {}, timed |-> call.rpc.timed]
          \/ answer' = [status |-> "PendingIndexing", rows |-> {}, outputs |-> {}, timed |-> call.rpc.timed]
      BY <1>5 DEF NotFound, PendingIndexing, Ends
    <2>2. QED
      BY <2>1, NothingTold
  <1>6. CASE NoEvents
    BY <1>1, <1>6, NoEventsTold
  <1>7. CASE \E records \in {"same", "changed", "missing"} : ReadsEvents(records)
    BY <1>1, <1>7, EventsTold
  <1>8. QED
    BY <1>2, <1>3, <1>4, <1>5, <1>6, <1>7 DEF Next

\* The inductive invariant holds in every state.
LEMMA Invariance == Spec => []IInv
  <1>1. IInv /\ [Next]_vars => IInv'
    BY SmallKept, ReadyKept DEF IInv
  <1>2. QED
    BY Started, <1>1, PTL DEF Spec

\* The reads never leave their types.
THEOREM TypeCorrect == Spec => []TypeOK
  <1>1. IInv => TypeOK
    BY DEF IInv, Small
  <1>2. QED
    BY Invariance, <1>1, PTL

\* A lookup answers Ready only with the whole truth.
THEOREM ReadyTellsAll == Spec => []ReadyIsComplete
  <1>1. IInv => ReadyIsComplete
    BY DEF IInv
  <1>2. QED
    BY Invariance, <1>1, PTL

\* "Every amount up to it selects; one more fails".
THEOREM LimitsAreExact == Spec => []LimitIsExact
  <1>1. IInv => LimitIsExact
    <2> SUFFICES ASSUME WorldStays, NEW a \in Assets, NEW w \in ProofWidths, NEW amount \in 0..MaxAmount
                 PROVE  (SelectNotes(world.notes, reserved, a, amount, w, world.cap).error = "none")
                          <=> amount \in 1..TokenBalance(world.notes, reserved, a, world.cap).limits[w]
      BY DEF IInv, Small, LimitIsExact
    <2>1. NotesRead(world.notes) /\ world.cap \in Nat
      BY WorldFields DEF WorldStays
    <2>2. w \in Nat
      BY SelectionAssumption DEF ProofWidths
    <2>3. (SelectNotes(world.notes, reserved, a, amount, w, world.cap).error = "none")
            <=> amount \in 1..SpendLimit(world.notes, reserved, a, Min({world.cap, MaxSpendInputs(w)}))
      BY <2>1, <2>2, LimitExact
    <2>4. TokenBalance(world.notes, reserved, a, world.cap).limits[w]
            = SpendLimit(world.notes, reserved, a, Min({world.cap, MaxSpendInputs(w)}))
      BY DEF TokenBalance
    <2>5. QED
      BY <2>3, <2>4
  <1>2. QED
    BY Invariance, <1>1, PTL

\* A time the wallet has is never lost, and a wait is kept and never shrinks.
THEOREM TimesAreKept == Spec => TimesStay
  <1> DEFINE stays(s) ==
        /\ times[s].state = "known" => times'[s] = Known
        /\ times[s].state = "missing" /\ times'[s].state = "missing" =>
             /\ times'[s].wait >= times[s].wait
             /\ times'[s].due > times[s].due => times[s].due = 0
  <1>1. ASSUME Small, [Next]_vars, NEW s \in SlotsOf PROVE stays(s)
    <2>1. times \in [SlotsOf -> TimeRecords] /\ (times[s].state = "known" => times[s] = Known)
      BY <1>1 DEF Small, TypeOK, TimesFit, TimeRecords
    <2>2. times[s] \in TimeRecords
      BY <2>1
    <2>3. times[s].due \in 0..RetryMax /\ times[s].wait \in 0..RetryMax /\ RetryMax \in Nat
      BY <2>2, ReadsAssumption DEF TimeRecords
    <2>4. CASE times'[s] = times[s]
      BY <2>1, <2>3, <2>4
    <2>5. CASE times'[s] = Known
      BY <2>5 DEF Known
    <2>6. CASE Waits
      <3>1. times'[s] = [times[s] EXCEPT !.due = IF @ > 0 THEN @ - 1 ELSE 0]
        BY <2>6 DEF Waits
      <3>2. times'[s] = [state |-> times[s].state, due |-> IF times[s].due > 0 THEN times[s].due - 1 ELSE 0,
                         wait |-> times[s].wait]
        BY <2>2, <3>1 DEF TimeRecords
      <3>3. times[s].state = "known" => times[s].due = 0 /\ times[s].wait = 0
        BY <2>1 DEF Known
      <3>4. QED
        BY <2>3, <3>2, <3>3 DEF Known
    <2>7. ASSUME NEW timed \in SUBSET SlotsOf, ReadsActivity(timed)
          PROVE  stays(s)
      <3>1. times'[s] = CASE s \notin Asked -> times[s] [] s \in timed -> Known [] OTHER -> Missed(times[s])
        BY <2>7 DEF ReadsActivity
      <3>2. CASE s \notin Asked
        <4>1. times'[s] = times[s]
          BY <2>7, <3>1, <3>2 DEF ReadsActivity
        <4>2. QED
          BY <2>4, <4>1
      <3>3. CASE s \in timed
        <4>1. times'[s] = Known
          BY <2>7, <3>1, <3>3 DEF ReadsActivity
        <4>2. QED
          BY <2>5, <4>1
      <3>4. CASE s \in Asked /\ s \notin timed
        <4>1. times'[s] = Missed(times[s])
          BY <3>1, <3>4
        <4>2. ToAsk(s)
          BY <1>1, <3>4, AskedSlots
        <4>3. Missed(times[s]).state = "missing" /\ (times[s].state = "missing" => Missed(times[s]).wait >= times[s].wait)
          BY <2>2, MissedFits
        <4>4. times[s].state = "unasked" \/ (times[s].state = "missing" /\ times[s].due = 0)
          BY <4>2 DEF ToAsk
        <4>5. QED
          BY <4>1, <4>3, <4>4
      <3>5. QED
        BY <3>2, <3>3, <3>4
    <2>8. ASSUME call.step = "lookup", call.rpc # None, times' = Seeded
          PROVE  stays(s)
      <3>1. Seeded[s] = times[s] \/ Seeded[s] = Known
        BY <1>1, <2>8, SeededFits
      <3>2. QED
        BY <2>4, <2>5, <2>8, <3>1
    <2>9. CASE \/ NotFound \/ PendingIndexing \/ NoEvents \/ DetailsFail
               \/ (\E records \in {"same", "changed", "missing"} : ReadsEvents(records))
      <3>1. call.step = "lookup" /\ call.rpc # None /\ times' = Seeded
        BY <2>9 DEF NotFound, PendingIndexing, NoEvents, DetailsFail, ReadsEvents, Agreed, Answered, Ends
      <3>2. QED
        BY <2>8, <3>1
    <2>10. CASE \/ Advances \/ Indexes \/ (\E openings \in BOOLEAN : StartLookup(openings))
                \/ (\E agrees \in BOOLEAN : AskIndexer(agrees))
                \/ (\E found, timed \in BOOLEAN : AskRpc(found, timed)) \/ LookupFails \/ Inconsistent
                \/ StartActivity \/ IndexerBehind \/ (\E spend \in Spends : SelectsSpend(spend))
                \/ (\E first, second \in world.notes : SelectsMerge(first, second))
                \/ Released \/ UNCHANGED vars
      <3>1. times' = times
        BY <2>10 DEF Advances, Indexes, StartLookup, AskIndexer, AskRpc, LookupFails, Inconsistent, StartActivity,
                     IndexerBehind, SelectsSpend, SelectsMerge, Released, vars
      <3>2. QED
        BY <2>4, <3>1
    <2>11. QED
      BY <1>1, <2>6, <2>7, <2>9, <2>10 DEF Next
  <1>2. Small /\ [Next]_vars => \A s \in SlotsOf : stays(s)
    BY <1>1
  <1>3. Small /\ [Next]_vars => [\A s \in SlotsOf : stays(s)]_vars
    BY <1>2
  <1>4. IInv => Small
    BY DEF IInv
  <1>5. QED
    BY Invariance, <1>3, <1>4, PTL DEF Spec, TimesStay

=============================================================================
