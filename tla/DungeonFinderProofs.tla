--------------------------- MODULE DungeonFinderProofs ---------------------------
(***************************************************************************)
(* For any players, dungeons, rosters and group sizes: a player's state    *)
(* names the one place the dungeon finder holds the player in, a proposal  *)
(* that ends takes their place from those who broke it only, and nobody is *)
(* put into a second group.                                                *)
(*                                                                         *)
(* The argument: each store operation is shown to keep what is true of the *)
(* stores (StoresOK), whatever is true of the players who joined a party   *)
(* during a proposal (st); those stay strayed until they are nowhere.      *)
(* The loops of Update are recursive functions of the number of rounds;    *)
(* they are followed by the lemma Induction.                               *)
(***************************************************************************)
EXTENDS DungeonFinder, SequenceTheorems, FiniteSetTheorems, WellFoundedInduction, TLAPS

-----------------------------------------------------------------------------
(* What is true of the stores f, st being the strayed players and dr those *)
(* a refused second join took out of the queue.                            *)

InLists(f) == ToSet(f.fresh) \cup ToSet(f.waiting)

Proposal == [line : Seq(Players), agreed : SUBSET Players]

Stores == [state : [Players -> States], wish : [Players -> SUBSET Dungeons],
           fresh : Seq(Players), waiting : Seq(Players),
           matched : SUBSET Rosters, proposals : Seq(Proposal)]

\* Neither list names a player twice.
Listed(f) == IsInjective(f.fresh) /\ IsInjective(f.waiting)

\* Who is in no proposal and no queue has no queue data.
Outside(f) ==
  \A p \in Players : f.state[p] \in {"none", "dungeon"} => f.wish[p] = {} /\ p \notin InLists(f)

\* A proposal is for GroupSize different players, and waits for an answer.
Proposed(f) ==
  \A k \in DOMAIN f.proposals :
    /\ Len(f.proposals[k].line) = GroupSize
    /\ IsInjective(f.proposals[k].line)
    /\ f.proposals[k].agreed \subseteq Line(f, k)
    /\ f.proposals[k].agreed # Line(f, k)

Called(f) ==
  \A p \in Players : f.state[p] = "proposal" => \E k \in DOMAIN f.proposals : p \in Line(f, k)

\* The players outside st are where their state says.
Held(f, st, dr) ==
  \A p \in Players \ st :
    /\ ~(p \in ToSet(f.fresh) /\ p \in ToSet(f.waiting))
    /\ p \in InLists(f) <=> f.state[p] = "queued" /\ p \notin dr
    /\ (\E k \in DOMAIN f.proposals : p \in Line(f, k)) <=> f.state[p] = "proposal"
    /\ \A j, k \in DOMAIN f.proposals : p \in Line(f, j) /\ p \in Line(f, k) => j = k
    /\ f.wish[p] # {} <=> p \in InLists(f) \/ f.state[p] = "proposal"
    /\ p \in dr => f.state[p] = "queued"

\* The cached matches are the live proposals.
Cached(f, st) ==
  /\ \A key \in f.matched : \E k \in DOMAIN f.proposals : key = Line(f, k)
  /\ \A k \in DOMAIN f.proposals : Line(f, k) \cap st = {} => Line(f, k) \in f.matched

StoresOK(f, st, dr) ==
  /\ f \in Stores
  /\ Listed(f)
  /\ Outside(f)
  /\ Proposed(f)
  /\ Called(f)
  /\ Held(f, st, dr)
  /\ Cached(f, st)

\* The groups are those of the players in state "dungeon".
GroupsOK ==
  /\ \A S \in groups : S \subseteq Players /\ IsFiniteSet(S) /\ Cardinality(S) <= GroupSize
  /\ \A p \in Players : lfg.state[p] = "dungeon" <=> \E S \in groups : p \in S
  /\ \A S, T \in groups : S \cap T # {} => S = T

\* A member of a party that the finder holds has strayed.
PartyOK ==
  /\ party \subseteq Players
  /\ \A p \in party : lfg.state[p] # "dungeon"
  /\ \A p \in party \ strayed : lfg.state[p] = "none"

IInv ==
  /\ StoresOK(lfg, strayed, dropped)
  /\ GroupsOK
  /\ PartyOK
  /\ UNION {inWorld, dropped, strayed} \subseteq Players
  /\ fault \in {"no", "erased", "twice"}

-----------------------------------------------------------------------------
(* Induction over a number of rounds, and sequences without repetition.    *)

LEMMA Induction ==
    ASSUME NEW N \in Nat, NEW S, 0 \in S, \A n \in 0..N - 1 : n \in S => n + 1 \in S
    PROVE  \A n \in 0..N : n \in S
<1> SUFFICES ASSUME NEW m \in 0..N, m \notin S PROVE FALSE
  OBVIOUS
<1> DEFINE T == {n \in 0..N : n \notin S}
<1>1. T \subseteq Nat /\ T # {}
  OBVIOUS
<1>2. PICK n \in T : \A k \in T : ~(k < n)
  <2> DEFINE R == {z \in Nat \X Nat : z[1] < z[2]}
  <2>1. IsWellFoundedOn(R, Nat)
    BY NatLessThanWellFounded DEF OpToRel
  <2>2. \E n \in T : \A k \in T : ~(<<k, n>> \in R)
    BY <1>1, <2>1, WFMin
  <2> QED
    BY <1>1, <2>2
<1>3. n # 0 /\ n - 1 \in 0..N - 1 /\ n - 1 \in S
  BY <1>2
<1> QED
  BY <1>2, <1>3

\* The elements of a sequence are the values at its positions.
LEMMA SetOfSeq ==
    ASSUME NEW S, NEW q \in Seq(S)
    PROVE  /\ Len(q) \in Nat /\ DOMAIN q = 1..Len(q)
           /\ ToSet(q) = {q[i] : i \in 1..Len(q)}
           /\ ToSet(q) \subseteq S
           /\ IsInjective(q) <=> \A j, k \in 1..Len(q) : q[j] = q[k] => j = k
BY DEF ToSet, IsInjective

\* The length of a sequence without repetition is the number of its elements.
LEMMA LengthIsCardinality ==
    ASSUME NEW S, NEW q \in Seq(S), IsInjective(q)
    PROVE  IsFiniteSet(ToSet(q)) /\ Cardinality(ToSet(q)) = Len(q)
<1>1. Len(q) \in Nat /\ q \in [1..Len(q) -> ToSet(q)]
  BY SetOfSeq
<1>2. q \in Bijection(1..Len(q), ToSet(q))
  BY <1>1, SetOfSeq DEF Bijection, Injection, Surjection, IsInjective
<1>3. ExistsBijection(1..Len(q), ToSet(q))
  BY <1>2 DEF ExistsBijection
<1>4. IsFiniteSet(1..Len(q)) /\ Cardinality(1..Len(q)) = Len(q)
  BY <1>1, FS_Interval
<1> QED
  BY <1>3, <1>4, FS_Bijection

\* Taking out position k leaves the others in their order.
LEMMA RemoveAtProperties ==
    ASSUME NEW S, NEW q \in Seq(S), NEW k \in 1..Len(q)
    PROVE  /\ RemoveAt(q, k) \in Seq(S)
           /\ Len(RemoveAt(q, k)) = Len(q) - 1
           /\ \A i \in 1..Len(q) - 1 :
                  RemoveAt(q, k)[i] = IF i < k THEN q[i] ELSE q[i + 1]
<1> DEFINE n == Len(q)
           a == SubSeq(q, 1, k - 1)
           b == SubSeq(q, k + 1, n)
<1>1. n \in Nat /\ k \in 1..n /\ \A i \in 1..n : q[i] \in S
  OBVIOUS
<1>2. a \in Seq(S) /\ Len(a) = k - 1 /\ \A i \in 1..k - 1 : a[i] = q[i]
  BY <1>1, SubSeqProperties
<1>3. b \in Seq(S) /\ Len(b) = n - k /\ \A i \in 1..n - k : b[i] = q[k + i]
  BY <1>1, SubSeqProperties
<1>4. RemoveAt(q, k) = a \o b
  BY DEF RemoveAt
<1>5. /\ a \o b \in Seq(S) /\ Len(a \o b) = Len(a) + Len(b)
      /\ \A i \in 1..Len(a) + Len(b) :
             (a \o b)[i] = IF i <= Len(a) THEN a[i] ELSE b[i - Len(a)]
  BY <1>2, <1>3, ConcatProperties
<1> HIDE DEF n, a, b
<1>6. ASSUME NEW i \in 1..n - 1
      PROVE  (a \o b)[i] = IF i < k THEN q[i] ELSE q[i + 1]
  <2>1. CASE i < k
    BY <1>1, <1>2, <1>3, <1>5, <2>1
  <2>2. CASE ~(i < k)
    <3>1. i - (k - 1) \in 1..n - k /\ ~(i <= k - 1) /\ k + (i - (k - 1)) = i + 1
      BY <1>1, <2>2
    <3> QED
      BY <1>1, <1>2, <1>3, <1>5, <2>2, <3>1
  <2> QED
    BY <2>1, <2>2
<1> QED
  BY <1>1, <1>2, <1>3, <1>4, <1>5, <1>6 DEF n

LEMMA AppendInjectiveSeq ==
    ASSUME NEW S, NEW q \in Seq(S), IsInjective(q), NEW x \in S, x \notin ToSet(q)
    PROVE  /\ Append(q, x) \in Seq(S) /\ Len(Append(q, x)) = Len(q) + 1
           /\ \A i \in 1..Len(q) : Append(q, x)[i] = q[i]
           /\ Append(q, x)[Len(q) + 1] = x
           /\ IsInjective(Append(q, x))
           /\ ToSet(Append(q, x)) = ToSet(q) \cup {x}
<1> DEFINE r == Append(q, x)
           n == Len(q)
<1>1. /\ r \in Seq(S) /\ Len(r) = n + 1 /\ n \in Nat /\ r[n + 1] = x
      /\ \A i \in 1..n : r[i] = q[i]
  BY AppendProperties
<1>2. \A i, j \in 1..n : q[i] = q[j] => i = j
  BY SetOfSeq
<1>3. ToSet(q) = {q[i] : i \in 1..n} /\ ToSet(r) = {r[i] : i \in 1..n + 1}
  BY <1>1, SetOfSeq
<1> HIDE DEF n, r
<1>4. 1..n + 1 = 1..n \cup {n + 1}
  BY <1>1
<1>5. \A i, j \in 1..n + 1 : r[i] = r[j] => i = j
  BY <1>1, <1>2, <1>3, <1>4
<1>6. ToSet(r) = ToSet(q) \cup {x}
  BY <1>1, <1>3, <1>4
<1>7. IsInjective(r)
  BY <1>1, <1>5, SetOfSeq
<1> QED
  BY <1>1, <1>6, <1>7 DEF r, n

\* The recursive function of Without exists, and what it returns.
LEMMA WithoutProperties ==
    ASSUME NEW A, NEW s \in Seq(A), IsInjective(s), NEW S
    PROVE  /\ Without(s, S) \in Seq(A)
           /\ IsInjective(Without(s, S))
           /\ ToSet(Without(s, S)) = ToSet(s) \ S
<1> DEFINE N == Len(s)
           step(n, r) == IF s[n] \in S THEN r ELSE Append(r, s[n])
           Run(g, n) == g = [i \in 0..n |-> IF i = 0 THEN << >> ELSE step(i, g[i - 1])]
           T == {n \in 0..N : \E g : Run(g, n)}
<1>1. N \in Nat
  OBVIOUS
<1>2. \E g : Run(g, N)
  <2> HIDE DEF step, N
  <2>1. 0 \in T
    <3> DEFINE h == [i \in 0..0 |-> << >>]
    <3>1. Run(h, 0)
      OBVIOUS
    <3> HIDE DEF Run, h
    <3> QED
      BY <1>1, <3>1
  <2>2. ASSUME NEW n \in 0..N - 1, n \in T PROVE n + 1 \in T
    <3>1. PICK g : Run(g, n)
      BY <2>2
    <3> DEFINE h == [i \in 0..n + 1 |-> IF i <= n THEN g[i] ELSE step(n + 1, g[n])]
    <3>2. \A i \in 0..n + 1 : h[i] = IF i = 0 THEN << >> ELSE step(i, h[i - 1])
      BY <1>1, <3>1
    <3>3. Run(h, n + 1)
      BY <3>2
    <3> HIDE DEF h
    <3> QED
      BY <1>1, <3>3
  <2> HIDE DEF T
  <2>3. \A n \in 0..N : n \in T
    BY <1>1, <2>1, <2>2, Induction
  <2> QED
    BY <1>1, <2>3 DEF T
<1>3. PICK g : Run(g, N) /\ Without(s, S) = g[N]
  BY <1>2 DEF Without
<1>4. g[0] = << >> /\ \A n \in 0..N - 1 : g[n + 1] = step(n + 1, g[n])
  <2>1. \A n \in 0..N - 1 : (n + 1) - 1 = n /\ n + 1 \in 0..N /\ n + 1 # 0
    BY <1>1
  <2> HIDE DEF step, N
  <2> QED
    BY <1>1, <1>3, <2>1
<1> HIDE DEF Run
<1> DEFINE U == {n \in 0..N : /\ g[n] \in Seq(A) /\ IsInjective(g[n])
                              /\ ToSet(g[n]) = {s[i] : i \in 1..n} \ S}
<1>5. 0 \in U
  <2>1. /\ << >> \in Seq(A) /\ IsInjective(<< >>) /\ ToSet(<< >>) = {}
        /\ {s[i] : i \in 1..0} \ S = {}
    BY DEF ToSet, IsInjective
  <2>2. 0 \in 0..N /\ g[0] = << >>
    BY <1>1, <1>4
  <2> HIDE DEF N, step
  <2> QED
    BY <2>1, <2>2, Zenon
<1>6. ASSUME NEW n \in 0..N - 1, n \in U PROVE n + 1 \in U
  <2> DEFINE x == s[n + 1]
  <2>1. /\ g[n] \in Seq(A) /\ IsInjective(g[n]) /\ ToSet(g[n]) = {s[i] : i \in 1..n} \ S
        /\ x \in A /\ n + 1 \in 1..N /\ n \in Nat
    BY <1>1, <1>6
  <2>2. \A i \in 1..n : s[i] # x
    BY <2>1, SetOfSeq
  <2>3. {s[i] : i \in 1..n + 1} = {s[i] : i \in 1..n} \cup {x}
    <3>1. 1..n + 1 = 1..n \cup {n + 1}
      BY <2>1
    <3> QED
      BY <3>1
  <2>4. CASE x \in S
    <3>1. g[n + 1] = g[n]
      BY <1>4, <2>4
    <3> QED
      BY <2>1, <2>3, <2>4, <3>1
  <2>5. CASE x \notin S
    <3>1. g[n + 1] = Append(g[n], x)
      BY <1>4, <2>5
    <3>2. x \notin ToSet(g[n])
      BY <2>1, <2>2
    <3>3. /\ g[n + 1] \in Seq(A) /\ IsInjective(g[n + 1])
          /\ ToSet(g[n + 1]) = ToSet(g[n]) \cup {x}
      BY <2>1, <3>1, <3>2, AppendInjectiveSeq
    <3>4. ToSet(g[n + 1]) = {s[i] : i \in 1..n + 1} \ S
      BY <2>1, <2>3, <2>5, <3>3
    <3> QED
      BY <2>1, <3>3, <3>4
  <2> QED
    BY <2>4, <2>5
<1> HIDE DEF U
<1>7. N \in U
  <2> HIDE DEF N
  <2>1. \A n \in 0..N : n \in U
    BY <1>1, <1>5, <1>6, Induction
  <2> QED
    BY <1>1, <2>1
<1> QED
  BY <1>3, <1>7, SetOfSeq DEF U

LEMMA ConcatInjective ==
    ASSUME NEW A, NEW s \in Seq(A), NEW t \in Seq(A), IsInjective(s), IsInjective(t),
           ToSet(s) \cap ToSet(t) = {}
    PROVE  /\ s \o t \in Seq(A) /\ IsInjective(s \o t)
           /\ ToSet(s \o t) = ToSet(s) \cup ToSet(t)
<1> DEFINE r == s \o t
           m == Len(s)
           n == Len(t)
<1>1. /\ r \in Seq(A) /\ Len(r) = m + n /\ m \in Nat /\ n \in Nat
      /\ \A i \in 1..m + n : r[i] = IF i <= m THEN s[i] ELSE t[i - m]
  BY ConcatProperties
<1>2. /\ ToSet(s) = {s[i] : i \in 1..m} /\ ToSet(t) = {t[i] : i \in 1..n}
      /\ ToSet(r) = {r[i] : i \in 1..m + n}
      /\ \A i, j \in 1..m : s[i] = s[j] => i = j
      /\ \A i, j \in 1..n : t[i] = t[j] => i = j
  BY <1>1, SetOfSeq
<1> HIDE DEF r, m, n
<1>3. \A i \in 1..m : r[i] = s[i] /\ r[i] \in ToSet(s)
  BY <1>1, <1>2
<1>4. \A i \in 1..m + n : i > m => i - m \in 1..n /\ r[i] = t[i - m] /\ r[i] \in ToSet(t)
  <2>1. \A i \in 1..m + n : i > m => i - m \in 1..n /\ r[i] = t[i - m]
    BY <1>1
  <2> QED
    BY <1>2, <2>1
<1>5. ASSUME NEW i \in 1..m + n, NEW j \in 1..m + n, r[i] = r[j] PROVE i = j
  <2>1. CASE i <= m /\ j <= m
    BY <1>1, <1>2, <1>3, <1>5, <2>1
  <2>2. CASE i > m /\ j > m
    <3>1. i - m = j - m
      BY <1>2, <1>4, <1>5, <2>2
    <3> QED
      BY <1>1, <3>1
  <2>3. ASSUME NEW a \in 1..m + n, NEW b \in 1..m + n, a <= m, b > m PROVE r[a] # r[b]
    <3>1. a \in 1..m
      BY <1>1, <2>3
    <3> QED
      BY <1>3, <1>4, <2>3, <3>1
  <2>4. (i <= m \/ i > m) /\ (j <= m \/ j > m)
    BY <1>1
  <2> QED
    BY <1>5, <2>1, <2>2, <2>3, <2>4
<1>6. IsInjective(r)
  BY <1>1, <1>5, SetOfSeq
<1>7. \A i \in 1..n : i + m \in 1..m + n /\ r[i + m] = t[i]
  <2>1. \A i \in 1..n : i + m \in 1..m + n /\ ~(i + m <= m) /\ (i + m) - m = i
    BY <1>1
  <2> QED
    BY <1>1, <2>1
<1>8. \A x \in ToSet(r) : x \in ToSet(s) \cup ToSet(t)
  BY <1>1, <1>2, <1>3, <1>4
<1>9. \A x \in ToSet(s) \cup ToSet(t) : x \in ToSet(r)
  <2>1. \A i \in 1..m : i \in 1..m + n
    BY <1>1
  <2>2. \A x \in ToSet(s) : \E i \in 1..m : x = r[i]
    BY <1>2, <1>3
  <2>3. \A x \in ToSet(t) : \E i \in 1..n : x = r[i + m]
    BY <1>2, <1>7
  <2> QED
    <3>1. \A x \in ToSet(s) \cup ToSet(t) : \E i \in 1..m + n : x = r[i]
      BY <1>7, <2>1, <2>2, <2>3
    <3> QED
      BY <1>2, <3>1
<1> QED
  BY <1>1, <1>6, <1>8, <1>9 DEF r

-----------------------------------------------------------------------------
(* The operations on the stores.                                           *)

LEMMA StoresFields ==
    ASSUME NEW f \in Stores
    PROVE  /\ f.state \in [Players -> States] /\ f.wish \in [Players -> SUBSET Dungeons]
           /\ f.fresh \in Seq(Players) /\ f.waiting \in Seq(Players)
           /\ f.matched \subseteq Rosters /\ f.proposals \in Seq(Proposal)
           /\ f = [state |-> f.state, wish |-> f.wish, fresh |-> f.fresh,
                   waiting |-> f.waiting, matched |-> f.matched, proposals |-> f.proposals]
BY DEF Stores

\* The players of a proposal.
LEMMA LineOf ==
    ASSUME NEW f \in Stores, NEW k \in DOMAIN f.proposals
    PROVE  /\ f.proposals[k] \in Proposal /\ f.proposals[k].line \in Seq(Players)
           /\ Line(f, k) \subseteq Players /\ DOMAIN f.proposals = 1..Len(f.proposals)
           /\ Len(f.proposals) \in Nat
<1>1. f.proposals \in Seq(Proposal)
  BY StoresFields
<1>2. DOMAIN f.proposals = 1..Len(f.proposals) /\ Len(f.proposals) \in Nat
  BY <1>1, SetOfSeq
<1>3. f.proposals[k] \in Proposal
  BY <1>1, <1>2, ElementOfSeq
<1>4. f.proposals[k].line \in Seq(Players)
  BY <1>3 DEF Proposal
<1> QED
  BY <1>2, <1>3, <1>4, SetOfSeq DEF Line

LEMMA RemoveFromQueueProperties ==
    ASSUME NEW f \in Stores, Listed(f), NEW S
    PROVE  LET r == RemoveFromQueue(f, S)
           IN  /\ r \in Stores /\ Listed(r)
               /\ r.state = f.state /\ r.proposals = f.proposals
               /\ \A p \in Players : r.wish[p] = IF p \in S THEN {} ELSE f.wish[p]
               /\ ToSet(r.fresh) = ToSet(f.fresh) \ S
               /\ ToSet(r.waiting) = ToSet(f.waiting) \ S
               /\ r.matched = {key \in f.matched : key \cap S = {}}
<1> DEFINE wish    == [p \in Players |-> IF p \in S THEN {} ELSE f.wish[p]]
           fresh   == Without(f.fresh, S)
           waiting == Without(f.waiting, S)
           matched == {key \in f.matched : key \cap S = {}}
           r       == [state |-> f.state, wish |-> wish, fresh |-> fresh,
                       waiting |-> waiting, matched |-> matched, proposals |-> f.proposals]
<1>1. RemoveFromQueue(f, S) = r
  <2>1. RemoveFromQueue(f, S) = [f EXCEPT !.wish = wish, !.fresh = fresh,
                                          !.waiting = waiting, !.matched = matched]
    BY DEF RemoveFromQueue
  <2> HIDE DEF wish, fresh, waiting, matched
  <2> QED
    BY <2>1, StoresFields
<1>2. /\ fresh \in Seq(Players) /\ IsInjective(fresh) /\ ToSet(fresh) = ToSet(f.fresh) \ S
      /\ waiting \in Seq(Players) /\ IsInjective(waiting) /\ ToSet(waiting) = ToSet(f.waiting) \ S
  BY StoresFields, WithoutProperties DEF Listed
<1>3. wish \in [Players -> SUBSET Dungeons]
  BY StoresFields
<1>4. matched \subseteq Rosters
  BY StoresFields
<1>5. \A p \in Players : wish[p] = IF p \in S THEN {} ELSE f.wish[p]
  OBVIOUS
<1> HIDE DEF fresh, waiting, wish, matched
<1>6. r \in Stores
  BY <1>2, <1>3, <1>4, StoresFields DEF Stores
<1>7. matched = {key \in f.matched : key \cap S = {}}
  BY DEF matched
<1> QED
  BY <1>1, <1>2, <1>5, <1>6, <1>7 DEF Listed

LEMMA SetStateProperties ==
    ASSUME NEW f \in Stores, NEW S, NEW s \in States
    PROVE  LET r == SetState(f, S, s)
           IN  /\ r \in Stores
               /\ r.wish = f.wish /\ r.fresh = f.fresh /\ r.waiting = f.waiting
               /\ r.matched = f.matched /\ r.proposals = f.proposals
               /\ \A p \in Players : r.state[p] = IF p \in S THEN s ELSE f.state[p]
<1> DEFINE state == [p \in Players |-> IF p \in S THEN s ELSE f.state[p]]
<1>1. SetState(f, S, s) = [state |-> state, wish |-> f.wish, fresh |-> f.fresh,
          waiting |-> f.waiting, matched |-> f.matched, proposals |-> f.proposals]
  <2>1. SetState(f, S, s) = [f EXCEPT !.state = state]
    BY DEF SetState
  <2> HIDE DEF state
  <2> QED
    BY <2>1, StoresFields
<1>2. state \in [Players -> States]
  BY StoresFields
<1> QED
  BY <1>1, <1>2, StoresFields DEF Stores

\* The elements of r are those of s but the one at k: r[i] is s[up[i]].
OthersOf(r, s, k) ==
  LET n == Len(s)
  IN \E up \in [1..n - 1 -> 1..n] :
       /\ \A i \in 1..n - 1 : up[i] # k /\ r[i] = s[up[i]]
       /\ \A i, j \in 1..n - 1 : up[i] = up[j] => i = j
       /\ \A j \in 1..n \ {k} : \E i \in 1..n - 1 : up[i] = j

\* A proposal is taken out: the others are what they were, at other positions.
LEMMA ProposalTakenOut ==
    ASSUME NEW f \in Stores, NEW k \in DOMAIN f.proposals, NEW r, r = RemoveAt(f.proposals, k),
           NEW n, n = Len(f.proposals)
    PROVE  /\ n \in Nat /\ DOMAIN f.proposals = 1..n
           /\ r \in Seq(Proposal) /\ Len(r) = n - 1 /\ DOMAIN r = 1..n - 1
           /\ \A i \in 1..n - 1 : r[i] = f.proposals[IF i < k THEN i ELSE i + 1]
           /\ OthersOf(r, f.proposals, k)
<1> DEFINE up == [i \in 1..n - 1 |-> IF i < k THEN i ELSE i + 1]
<1>1. f.proposals \in Seq(Proposal) /\ n \in Nat /\ k \in 1..n /\ DOMAIN f.proposals = 1..n
  BY StoresFields, LineOf
<1>2. /\ r \in Seq(Proposal) /\ Len(r) = n - 1
      /\ \A i \in 1..n - 1 : r[i] = IF i < k THEN f.proposals[i] ELSE f.proposals[i + 1]
  BY <1>1, RemoveAtProperties
<1>3. DOMAIN r = 1..n - 1
  BY <1>2, SetOfSeq
<1>4. up \in [1..n - 1 -> 1..n] /\ \A i \in 1..n - 1 : up[i] # k
  BY <1>1
<1>5. \A i, j \in 1..n - 1 : up[i] = up[j] => i = j
  BY <1>1
<1>6. ASSUME NEW j \in 1..n \ {k} PROVE \E i \in 1..n - 1 : up[i] = j
  <2>1. CASE j < k
    BY <1>1, <2>1
  <2>2. CASE j > k
    <3>1. j - 1 \in 1..n - 1 /\ ~(j - 1 < k) /\ (j - 1) + 1 = j
      BY <1>1, <2>2
    <3> QED
      BY <3>1
  <2> QED
    BY <1>1, <2>1, <2>2
<1>7. \A i \in 1..n - 1 : /\ r[i] = f.proposals[IF i < k THEN i ELSE i + 1]
                          /\ r[i] = f.proposals[up[i]]
  BY <1>2
<1> HIDE DEF up
<1> QED
  <2>1. /\ \A i \in 1..n - 1 : up[i] # k /\ r[i] = f.proposals[up[i]]
        /\ \A i, j \in 1..n - 1 : up[i] = up[j] => i = j
        /\ \A j \in 1..n \ {k} : \E i \in 1..n - 1 : up[i] = j
    BY <1>4, <1>5, <1>6, <1>7
  <2>2. OthersOf(r, f.proposals, k)
    BY <1>4, <2>1, Zenon DEF OthersOf
  <2> QED
    BY <1>1, <1>2, <1>3, <1>7, <2>2

\* Who loses the place when proposal k ends because of the members in denied.
Gone(f, k, denied) == denied \cup {p \in Line(f, k) : f.wish[p] = {}}

LEMMA WaitingAndProposalsReplaced ==
    ASSUME NEW f \in Stores, NEW long, NEW rest
    PROVE  [f EXCEPT !.waiting = long, !.proposals = rest] =
             [state |-> f.state, wish |-> f.wish, fresh |-> f.fresh,
              waiting |-> long, matched |-> f.matched, proposals |-> rest]
<1> DEFINE g == [f EXCEPT !.waiting = long]
<1>1. g = [state |-> f.state, wish |-> f.wish, fresh |-> f.fresh,
           waiting |-> long, matched |-> f.matched, proposals |-> f.proposals]
  <2>1. f = [state |-> f.state, wish |-> f.wish, fresh |-> f.fresh,
             waiting |-> f.waiting, matched |-> f.matched, proposals |-> f.proposals]
    BY StoresFields
  <2> QED
    BY <2>1
<1>2. [f EXCEPT !.waiting = long, !.proposals = rest] = [g EXCEPT !.proposals = rest]
  OBVIOUS
<1> HIDE DEF g
<1> QED
  BY <1>1, <1>2

LEMMA RemoveProposalProperties ==
    ASSUME NEW f \in Stores, Listed(f), Proposed(f), NEW k \in DOMAIN f.proposals,
           NEW denied, denied \subseteq Line(f, k)
    PROVE  LET r    == RemoveProposal(f, k, denied)
               L    == Line(f, k)
               gone == Gone(f, k, denied)
           IN  /\ r \in Stores /\ Listed(r)
               /\ \A p \in Players : r.state[p] =
                    IF p \notin L THEN f.state[p]
                    ELSE IF p \notin gone THEN "queued"
                    ELSE IF f.state[p] = "dungeon" THEN "dungeon" ELSE "none"
               /\ \A p \in Players : r.wish[p] = IF p \in gone THEN {} ELSE f.wish[p]
               /\ ToSet(r.fresh) = ToSet(f.fresh) \ gone
               /\ ToSet(r.waiting) = (ToSet(f.waiting) \cup L) \ gone
               /\ r.matched = {key \in f.matched : key \cap gone = {}}
               /\ r.proposals = RemoveAt(f.proposals, k)
               /\ gone \subseteq L
<1> DEFINE L       == Line(f, k)
           gone    == Gone(f, k, denied)
           kept    == L \ gone
           cleared == {p \in gone : f.state[p] # "dungeon"}
           a == RemoveFromQueue(f, gone)
           b == SetState(a, cleared, "none")
           c == SetState(b, kept, "queued")
           more == Without(f.proposals[k].line, gone \cup ToSet(f.waiting))
           props == RemoveAt(f.proposals, k)
           r == [state |-> c.state, wish |-> c.wish, fresh |-> c.fresh,
                 waiting |-> c.waiting \o more, matched |-> c.matched, proposals |-> props]
<1>1. L \subseteq Players /\ gone \subseteq L /\ f.proposals[k].line \in Seq(Players)
  BY LineOf DEF Gone
<1>2. /\ a \in Stores /\ Listed(a) /\ a.state = f.state /\ a.proposals = f.proposals
      /\ \A p \in Players : a.wish[p] = IF p \in gone THEN {} ELSE f.wish[p]
      /\ ToSet(a.fresh) = ToSet(f.fresh) \ gone
      /\ ToSet(a.waiting) = ToSet(f.waiting) \ gone
      /\ a.matched = {key \in f.matched : key \cap gone = {}}
  BY RemoveFromQueueProperties
<1> HIDE DEF a
<1>3. "none" \in States /\ "queued" \in States /\ "dungeon" \in States
  BY DEF States
<1>4. /\ b \in Stores /\ b.wish = a.wish /\ b.fresh = a.fresh /\ b.waiting = a.waiting
      /\ b.matched = a.matched /\ b.proposals = a.proposals
      /\ \A p \in Players : b.state[p] = IF p \in cleared THEN "none" ELSE a.state[p]
  BY <1>2, <1>3, SetStateProperties
<1> HIDE DEF b
<1>5. /\ c \in Stores /\ c.wish = b.wish /\ c.fresh = b.fresh /\ c.waiting = b.waiting
      /\ c.matched = b.matched /\ c.proposals = b.proposals
      /\ \A p \in Players : c.state[p] = IF p \in kept THEN "queued" ELSE b.state[p]
  BY <1>3, <1>4, SetStateProperties
<1> HIDE DEF c
<1>6. RemoveProposal(f, k, denied) = r
  <2>1. RemoveProposal(f, k, denied) = [c EXCEPT !.waiting = @ \o more,
                                                 !.proposals = RemoveAt(@, k)]
    BY DEF RemoveProposal, Gone, a, b, c
  <2>2. c.proposals = f.proposals
    BY <1>2, <1>4, <1>5
  <2> DEFINE long == c.waiting \o more
             rest == RemoveAt(c.proposals, k)
  <2> HIDE DEF more, long, rest
  <2>3. [c EXCEPT !.waiting = long, !.proposals = rest] =
          [state |-> c.state, wish |-> c.wish, fresh |-> c.fresh,
           waiting |-> long, matched |-> c.matched, proposals |-> rest]
    <3>1. c \in Stores
      BY <1>5
    <3> QED
      BY <3>1, WaitingAndProposalsReplaced, Zenon
  <2> QED
    BY <2>1, <2>2, <2>3 DEF long, rest
<1>7. IsInjective(f.proposals[k].line) /\ ToSet(f.proposals[k].line) = L
  BY DEF Proposed, Line
<1>8. /\ more \in Seq(Players) /\ IsInjective(more)
      /\ ToSet(more) = L \ (gone \cup ToSet(f.waiting))
  BY <1>1, <1>7, WithoutProperties
<1> HIDE DEF more
<1>9. /\ c.waiting \in Seq(Players) /\ IsInjective(c.waiting)
      /\ ToSet(c.waiting) = ToSet(f.waiting) \ gone
      /\ c.fresh \in Seq(Players) /\ IsInjective(c.fresh)
  BY <1>2, <1>4, <1>5, StoresFields DEF Listed
<1>10. /\ c.waiting \o more \in Seq(Players) /\ IsInjective(c.waiting \o more)
       /\ ToSet(c.waiting \o more) = ToSet(c.waiting) \cup ToSet(more)
  <2>1. ToSet(c.waiting) \cap ToSet(more) = {}
    BY <1>8, <1>9
  <2> QED
    BY <1>8, <1>9, <2>1, ConcatInjective
<1>11. props \in Seq(Proposal)
  BY ProposalTakenOut
<1> HIDE DEF props
<1>12. r \in Stores /\ Listed(r)
  BY <1>5, <1>9, <1>10, <1>11, StoresFields DEF Stores, Listed
<1>13. ASSUME NEW p \in Players
       PROVE  c.state[p] = IF p \notin L THEN f.state[p]
                           ELSE IF p \notin gone THEN "queued"
                           ELSE IF f.state[p] = "dungeon" THEN "dungeon" ELSE "none"
  <2> HIDE DEF L, gone
  <2>1. c.state[p] = IF p \in kept THEN "queued" ELSE IF p \in cleared THEN "none" ELSE f.state[p]
    BY <1>2, <1>4, <1>5
  <2> QED
    BY <1>1, <2>1
<1>14. \A p \in Players : c.wish[p] = IF p \in gone THEN {} ELSE f.wish[p]
  BY <1>2, <1>4, <1>5
<1>15. /\ ToSet(c.waiting \o more) = (ToSet(f.waiting) \cup L) \ gone
       /\ ToSet(c.fresh) = ToSet(f.fresh) \ gone
       /\ c.matched = {key \in f.matched : key \cap gone = {}}
  BY <1>2, <1>4, <1>5, <1>8, <1>9, <1>10
<1> QED
  BY <1>1, <1>6, <1>12, <1>13, <1>14, <1>15 DEF props

-----------------------------------------------------------------------------
(* What the operations keep true of the stores.                            *)

LEMMA StoresParts ==
    ASSUME NEW f, NEW st, NEW dr, StoresOK(f, st, dr)
    PROVE  /\ f \in Stores /\ Listed(f) /\ Outside(f) /\ Proposed(f) /\ Called(f)
           /\ Held(f, st, dr) /\ Cached(f, st)
           /\ InLists(f) \subseteq Players
           /\ \A k \in DOMAIN f.proposals : Line(f, k) \subseteq Players /\ Line(f, k) # {}
<1>1. /\ f \in Stores /\ Listed(f) /\ Outside(f) /\ Proposed(f) /\ Called(f)
      /\ Held(f, st, dr) /\ Cached(f, st)
  BY DEF StoresOK
<1>2. InLists(f) \subseteq Players
  BY <1>1, StoresFields, SetOfSeq DEF InLists
<1>3. ASSUME NEW k \in DOMAIN f.proposals PROVE Line(f, k) \subseteq Players /\ Line(f, k) # {}
  <2>1. Line(f, k) \subseteq Players /\ f.proposals[k].line \in Seq(Players)
    BY <1>1, LineOf
  <2>2. Len(f.proposals[k].line) = GroupSize /\ 1 \in 1..GroupSize
    BY <1>1, SizeAssumption DEF Proposed
  <2>3. f.proposals[k].line[1] \in Line(f, k)
    BY <2>1, <2>2, SetOfSeq DEF Line
  <2> QED
    BY <2>1, <2>3
<1> QED
  BY <1>1, <1>2, <1>3

\* The lines are those of the proposals.
LEMMA SameLines ==
    ASSUME NEW f, NEW g, g.proposals = f.proposals
    PROVE  \A k : Line(g, k) = Line(f, k)
BY DEF Line

LEMMA ClearQueueStateProperties ==
    ASSUME NEW f \in Stores, Listed(f), NEW S
    PROVE  LET r == ClearQueueState(f, S)
           IN  /\ r \in Stores /\ Listed(r)
               /\ r.proposals = f.proposals
               /\ \A p \in Players : r.state[p] = IF p \in S THEN "none" ELSE f.state[p]
               /\ \A p \in Players : r.wish[p] = IF p \in S THEN {} ELSE f.wish[p]
               /\ ToSet(r.fresh) = ToSet(f.fresh) \ S
               /\ ToSet(r.waiting) = ToSet(f.waiting) \ S
               /\ r.matched = {key \in f.matched : key \cap S = {}}
<1> DEFINE a == RemoveFromQueue(f, S)
           r == SetState(a, S, "none")
<1>1. ClearQueueState(f, S) = r
  BY DEF ClearQueueState
<1>2. /\ a \in Stores /\ Listed(a) /\ a.state = f.state /\ a.proposals = f.proposals
      /\ \A p \in Players : a.wish[p] = IF p \in S THEN {} ELSE f.wish[p]
      /\ ToSet(a.fresh) = ToSet(f.fresh) \ S
      /\ ToSet(a.waiting) = ToSet(f.waiting) \ S
      /\ a.matched = {key \in f.matched : key \cap S = {}}
  BY RemoveFromQueueProperties
<1> HIDE DEF a
<1>3. /\ r \in Stores /\ r.wish = a.wish /\ r.fresh = a.fresh /\ r.waiting = a.waiting
      /\ r.matched = a.matched /\ r.proposals = a.proposals
      /\ \A p \in Players : r.state[p] = IF p \in S THEN "none" ELSE a.state[p]
  <2>1. "none" \in States
    BY DEF States
  <2> QED
    BY <1>2, <2>1, SetStateProperties
<1> HIDE DEF r
<1> QED
  BY <1>1, <1>2, <1>3 DEF Listed

LEMMA ClearQueueStateOK ==
    ASSUME NEW f, NEW st, NEW dr, StoresOK(f, st, dr), NEW S,
           \A p \in S \ st : p \in Players => f.state[p] # "proposal"
    PROVE  StoresOK(ClearQueueState(f, S), st, dr \ S)
<1> DEFINE r == ClearQueueState(f, S)
<1>1. /\ f \in Stores /\ Listed(f) /\ Outside(f) /\ Proposed(f) /\ Called(f)
      /\ Held(f, st, dr) /\ Cached(f, st) /\ InLists(f) \subseteq Players
      /\ \A k \in DOMAIN f.proposals : Line(f, k) \subseteq Players
  BY StoresParts
<1>2. /\ r \in Stores /\ Listed(r)
      /\ r.proposals = f.proposals
      /\ \A p \in Players : r.state[p] = IF p \in S THEN "none" ELSE f.state[p]
      /\ \A p \in Players : r.wish[p] = IF p \in S THEN {} ELSE f.wish[p]
      /\ ToSet(r.fresh) = ToSet(f.fresh) \ S
      /\ ToSet(r.waiting) = ToSet(f.waiting) \ S
      /\ r.matched = {key \in f.matched : key \cap S = {}}
  <2>1. f \in Stores /\ Listed(f)
    BY <1>1
  <2> QED
    BY <2>1, ClearQueueStateProperties
<1> HIDE DEF r
<1>3. InLists(r) = InLists(f) \ S
  BY <1>2 DEF InLists
<1>4. \A k : Line(r, k) = Line(f, k)
  BY <1>2, SameLines
<1>5. Outside(r)
  BY <1>1, <1>2, <1>3 DEF Outside
<1>6. Proposed(r)
  BY <1>1, <1>2, <1>4 DEF Proposed
<1>7. Called(r)
  BY <1>1, <1>2, <1>4 DEF Called
<1>8. Held(r, st, dr \ S)
  BY <1>1, <1>2, <1>3, <1>4 DEF Held
<1>9. Cached(r, st)
  <2>1. \A key \in r.matched : \E k \in DOMAIN r.proposals : key = Line(r, k)
    BY <1>1, <1>2, <1>4 DEF Cached
  <2>2. ASSUME NEW k \in DOMAIN f.proposals, Line(f, k) \cap st = {}
        PROVE  Line(f, k) \in r.matched
    <3>1. Line(f, k) \in f.matched
      BY <1>1, <2>2 DEF Cached
    <3>2. Line(f, k) \cap S = {}
      BY <1>1, <2>2 DEF Held
    <3> QED
      BY <1>2, <3>1, <3>2
  <2> QED
    BY <1>2, <1>4, <2>1, <2>2 DEF Cached
<1> QED
  BY <1>2, <1>5, <1>6, <1>7, <1>8, <1>9 DEF StoresOK, r

LEMMA RemoveProposalOK ==
    ASSUME NEW f, NEW st, NEW dr, StoresOK(f, st, dr), NEW k \in DOMAIN f.proposals,
           NEW denied, denied \subseteq Line(f, k), denied # {}
    PROVE  StoresOK(RemoveProposal(f, k, denied), st, dr)
<1> DEFINE r == RemoveProposal(f, k, denied)
           L == Line(f, k)
           gone == Gone(f, k, denied)
           n == Len(f.proposals)
<1>1. /\ f \in Stores /\ Listed(f) /\ Outside(f) /\ Proposed(f) /\ Called(f)
      /\ Held(f, st, dr) /\ Cached(f, st) /\ InLists(f) \subseteq Players
      /\ \A j \in DOMAIN f.proposals : Line(f, j) \subseteq Players
  BY StoresParts
<1>2. /\ r \in Stores /\ Listed(r)
      /\ \A p \in Players : r.state[p] =
           IF p \notin L THEN f.state[p]
           ELSE IF p \notin gone THEN "queued"
           ELSE IF f.state[p] = "dungeon" THEN "dungeon" ELSE "none"
      /\ \A p \in Players : r.wish[p] = IF p \in gone THEN {} ELSE f.wish[p]
      /\ ToSet(r.fresh) = ToSet(f.fresh) \ gone
      /\ ToSet(r.waiting) = (ToSet(f.waiting) \cup L) \ gone
      /\ r.matched = {key \in f.matched : key \cap gone = {}}
      /\ r.proposals = RemoveAt(f.proposals, k)
      /\ gone \subseteq L
  <2>1. f \in Stores /\ Listed(f) /\ Proposed(f)
    BY <1>1
  <2> QED
    BY <2>1, RemoveProposalProperties
<1>3. /\ n \in Nat /\ DOMAIN f.proposals = 1..n
      /\ DOMAIN r.proposals = 1..n - 1
      /\ OthersOf(r.proposals, f.proposals, k)
  <2>1. f \in Stores /\ r.proposals = RemoveAt(f.proposals, k)
    BY <1>1, <1>2
  <2> HIDE DEF r
  <2> QED
    BY <2>1, ProposalTakenOut
<1> HIDE DEF r, n
<1>4. PICK up \in [1..n - 1 -> 1..n] :
        /\ \A i \in 1..n - 1 : up[i] # k /\ r.proposals[i] = f.proposals[up[i]]
        /\ \A i, j \in 1..n - 1 : up[i] = up[j] => i = j
        /\ \A j \in 1..n \ {k} : \E i \in 1..n - 1 : up[i] = j
  BY <1>3 DEF OthersOf, n
<1>5. \A i \in 1..n - 1 : Line(r, i) = Line(f, up[i]) /\ up[i] \in 1..n /\ up[i] # k
  BY <1>4 DEF Line
<1>6. /\ \A p \in L \ gone : f.wish[p] # {}
      /\ denied \subseteq gone
      /\ gone \cap L # {} /\ L \subseteq Players
  BY <1>1, <1>2 DEF Gone
<1> HIDE DEF gone, L
<1>7. InLists(r) = (InLists(f) \cup (L \ gone)) \ gone
  BY <1>2, <1>6 DEF InLists
<1>8. Outside(r)
  BY <1>1, <1>2, <1>6, <1>7 DEF Outside
<1>9. Proposed(r)
  <2> SUFFICES ASSUME NEW i \in 1..n - 1
               PROVE  /\ Len(r.proposals[i].line) = GroupSize
                      /\ IsInjective(r.proposals[i].line)
                      /\ r.proposals[i].agreed \subseteq Line(r, i)
                      /\ r.proposals[i].agreed # Line(r, i)
    BY <1>3 DEF Proposed
  <2>1. r.proposals[i] = f.proposals[up[i]] /\ Line(r, i) = Line(f, up[i]) /\ up[i] \in 1..n
    BY <1>4, <1>5
  <2> QED
    BY <1>1, <1>3, <2>1 DEF Proposed
<1>10. Called(r)
  <2> SUFFICES ASSUME NEW p \in Players, r.state[p] = "proposal"
               PROVE  \E i \in 1..n - 1 : p \in Line(r, i)
    BY <1>3 DEF Called
  <2>1. p \notin L /\ f.state[p] = "proposal"
    BY <1>2
  <2>2. PICK j \in 1..n : p \in Line(f, j)
    BY <1>1, <1>3, <2>1 DEF Called
  <2>3. j # k
    BY <2>1, <2>2 DEF L
  <2> QED
    BY <1>4, <1>5, <2>2, <2>3
<1>11. Held(r, st, dr)
  <2> SUFFICES ASSUME NEW p \in Players \ st
               PROVE  /\ ~(p \in ToSet(r.fresh) /\ p \in ToSet(r.waiting))
                      /\ p \in InLists(r) <=> r.state[p] = "queued" /\ p \notin dr
                      /\ (\E i \in 1..n - 1 : p \in Line(r, i)) <=> r.state[p] = "proposal"
                      /\ \A i, j \in 1..n - 1 : p \in Line(r, i) /\ p \in Line(r, j) => i = j
                      /\ r.wish[p] # {} <=> p \in InLists(r) \/ r.state[p] = "proposal"
                      /\ p \in dr => r.state[p] = "queued"
    BY <1>3 DEF Held
  <2>1. /\ ~(p \in ToSet(f.fresh) /\ p \in ToSet(f.waiting))
        /\ p \in InLists(f) <=> f.state[p] = "queued" /\ p \notin dr
        /\ (\E i \in 1..n : p \in Line(f, i)) <=> f.state[p] = "proposal"
        /\ \A i, j \in 1..n : p \in Line(f, i) /\ p \in Line(f, j) => i = j
        /\ f.wish[p] # {} <=> p \in InLists(f) \/ f.state[p] = "proposal"
        /\ p \in dr => f.state[p] = "queued"
    BY <1>1, <1>3 DEF Held
  <2>2. \A i, j \in 1..n - 1 : p \in Line(r, i) /\ p \in Line(r, j) => i = j
    BY <1>4, <1>5, <2>1
  <2>3. CASE p \in L
    <3>1. f.state[p] = "proposal" /\ \A i \in 1..n - 1 : p \notin Line(r, i)
      BY <1>3, <1>5, <2>1, <2>3 DEF L
    <3> QED
      BY <1>2, <1>6, <1>7, <2>1, <2>2, <2>3, <3>1 DEF InLists
  <2>4. CASE p \notin L
    <3>1. (\E i \in 1..n - 1 : p \in Line(r, i)) <=> \E i \in 1..n : p \in Line(f, i)
      BY <1>4, <1>5, <2>4 DEF L
    <3>2. p \notin gone /\ r.state[p] = f.state[p] /\ r.wish[p] = f.wish[p]
      BY <1>2, <2>4
    <3> QED
      BY <1>2, <1>7, <2>1, <2>2, <2>4, <3>1, <3>2
  <2> QED
    BY <2>3, <2>4
<1>12. Cached(r, st)
  <2>1. ASSUME NEW key \in r.matched PROVE \E i \in 1..n - 1 : key = Line(r, i)
    <3>1. key \in f.matched /\ key \cap gone = {}
      BY <1>2, <2>1
    <3>2. PICK j \in 1..n : key = Line(f, j)
      BY <1>1, <1>3, <3>1 DEF Cached
    <3>3. j # k
      BY <1>6, <3>1, <3>2 DEF L
    <3> QED
      BY <1>4, <1>5, <3>2, <3>3
  <2>2. ASSUME NEW i \in 1..n - 1, Line(r, i) \cap st = {} PROVE Line(r, i) \in r.matched
    <3>1. Line(f, up[i]) \in f.matched
      BY <1>1, <1>3, <1>5, <2>2 DEF Cached
    <3>2. ASSUME NEW p \in Line(f, up[i]), p \in gone PROVE FALSE
      <4>1. p \in Players \ st /\ p \in L
        BY <1>1, <1>2, <1>3, <1>5, <2>2, <3>2
      <4> QED
        BY <1>1, <1>3, <1>5, <3>2, <4>1 DEF Held, L
    <3> QED
      BY <1>2, <1>5, <3>1, <3>2
  <2> QED
    BY <1>3, <2>1, <2>2 DEF Cached
<1> QED
  BY <1>2, <1>8, <1>9, <1>10, <1>11, <1>12 DEF StoresOK, r

\* What an operation that has nothing to do with groups does to the states.
Keeps(g, f) ==
  \A q \in Players : /\ g.state[q] = "dungeon" <=> f.state[q] = "dungeon"
                     /\ f.state[q] = "none" => g.state[q] = "none"

LEMMA RemoveProposalKeeps ==
    ASSUME NEW f, NEW st, NEW dr, StoresOK(f, st, dr), NEW k \in DOMAIN f.proposals,
           NEW denied, denied \subseteq Line(f, k)
    PROVE  Keeps(RemoveProposal(f, k, denied), f)
<1> DEFINE r == RemoveProposal(f, k, denied)
           L == Line(f, k)
           gone == Gone(f, k, denied)
<1>1. f \in Stores /\ Listed(f) /\ Outside(f) /\ Proposed(f)
  BY StoresParts
<1>2. \A p \in Players : r.state[p] =
           IF p \notin L THEN f.state[p]
           ELSE IF p \notin gone THEN "queued"
           ELSE IF f.state[p] = "dungeon" THEN "dungeon" ELSE "none"
  BY <1>1, RemoveProposalProperties
<1>3. \A p \in Players : p \in L /\ f.state[p] \in {"none", "dungeon"} => p \in gone
  BY <1>1 DEF Outside, Gone
<1> HIDE DEF r, L, gone
<1> QED
  BY <1>2, <1>3 DEF Keeps, r

\* Clearing players outside dungeons.
LEMMA ClearQueueStateKeeps ==
    ASSUME NEW f, NEW st, NEW dr, StoresOK(f, st, dr), NEW S,
           \A p \in Players : p \in S => f.state[p] # "dungeon"
    PROVE  Keeps(ClearQueueState(f, S), f)
<1> DEFINE r == ClearQueueState(f, S)
<1>1. f \in Stores /\ Listed(f)
  BY StoresParts
<1>2. \A p \in Players : r.state[p] = IF p \in S THEN "none" ELSE f.state[p]
  BY <1>1, ClearQueueStateProperties
<1> HIDE DEF r
<1> QED
  BY <1>2 DEF Keeps, r

\* Among the proposals of a player there is an oldest one.
LEMMA OldestProperties ==
    ASSUME NEW f \in Stores, NEW p, ProposalsOf(f, p) # {}
    PROVE  Oldest(f, p) \in DOMAIN f.proposals /\ p \in Line(f, Oldest(f, p))
<1>1. ProposalsOf(f, p) \subseteq Nat /\ ProposalsOf(f, p) \subseteq DOMAIN f.proposals
  <2>1. \A k \in DOMAIN f.proposals : k \in Nat
    BY LineOf
  <2> QED
    BY <2>1 DEF ProposalsOf
<1>2. \E k \in ProposalsOf(f, p) : \A j \in ProposalsOf(f, p) : k <= j
  <2> DEFINE T == ProposalsOf(f, p)
             R == {z \in Nat \X Nat : z[1] < z[2]}
  <2>1. IsWellFoundedOn(R, Nat)
    BY NatLessThanWellFounded DEF OpToRel
  <2>2. PICK n \in T : \A k \in T : ~(<<k, n>> \in R)
    BY <1>1, <2>1, WFMin
  <2>3. \A j \in T : n \in Nat /\ j \in Nat /\ ~(j < n)
    <3> HIDE DEF T
    <3> QED
      BY <1>1, <2>2 DEF T
  <2>4. \A j \in T : n <= j
    BY <2>3
  <2> QED
    BY <2>4
<1>3. Oldest(f, p) \in ProposalsOf(f, p)
  BY <1>2, Zenon DEF Oldest
<1> QED
  BY <1>1, <1>3 DEF ProposalsOf

LEMMA LeaveOK ==
    ASSUME NEW f, NEW st, NEW dr, StoresOK(f, st, dr), NEW p \in Players
    PROVE  /\ \/ StoresOK(Leave(f, p), st, dr)
              \/ StoresOK(Leave(f, p), st, dr \ {p})
           /\ Keeps(Leave(f, p), f)
           /\ f.state[p] = "queued" => Leave(f, p).state[p] = "none"
<1>1. f \in Stores /\ Listed(f)
  BY StoresParts
<1>2. CASE f.state[p] = "queued"
  <2>1. Leave(f, p) = ClearQueueState(f, {p})
    BY <1>2 DEF Leave
  <2>2. StoresOK(Leave(f, p), st, dr \ {p})
    BY <1>2, <2>1, ClearQueueStateOK
  <2>3. Keeps(Leave(f, p), f)
    BY <1>2, <2>1, ClearQueueStateKeeps
  <2>4. ClearQueueState(f, {p}).state[p] = "none"
    BY <1>1, ClearQueueStateProperties
  <2> QED
    BY <2>1, <2>2, <2>3, <2>4
<1>3. CASE f.state[p] = "proposal" /\ ProposalsOf(f, p) # {}
  <2>1. Leave(f, p) = RemoveProposal(f, Oldest(f, p), {p})
    BY <1>3 DEF Leave
  <2>2. Oldest(f, p) \in DOMAIN f.proposals /\ {p} \subseteq Line(f, Oldest(f, p))
    BY <1>1, <1>3, OldestProperties
  <2>3. StoresOK(Leave(f, p), st, dr)
    BY <2>1, <2>2, RemoveProposalOK
  <2>4. Keeps(Leave(f, p), f)
    BY <2>1, <2>2, RemoveProposalKeeps
  <2> QED
    BY <1>3, <2>3, <2>4
<1>4. CASE f.state[p] # "queued" /\ ~(f.state[p] = "proposal" /\ ProposalsOf(f, p) # {})
  <2>1. Leave(f, p) = f
    BY <1>4 DEF Leave
  <2> QED
    BY <1>4, <2>1 DEF Keeps
<1> QED
  BY <1>2, <1>3, <1>4

-----------------------------------------------------------------------------
(* The invariant, action by action.                                        *)

LEMMA BecomeOK ==
    ASSUME NEW g, NEW dr, StoresOK(g, strayed, dr), dr \subseteq dropped, Become(g)
    PROVE  /\ StoresOK(lfg', strayed', dropped') /\ lfg' = g
           /\ strayed' \subseteq strayed /\ dropped' \subseteq dropped
           /\ \A p \in strayed \ strayed' : lfg'.state[p] = "none"
<1>1. /\ g \in Stores /\ Listed(g) /\ Outside(g) /\ Proposed(g) /\ Called(g)
      /\ Held(g, strayed, dr) /\ Cached(g, strayed)
      /\ \A k \in DOMAIN g.proposals : Line(g, k) \subseteq Players
  BY StoresParts
<1>2. /\ lfg' = g
      /\ dropped' = {p \in dropped : g.state[p] = "queued" /\ g.wish[p] = {}}
      /\ strayed' = {p \in strayed : g.state[p] # "none" \/ ProposalsOf(g, p) # {}}
  BY DEF Become
<1>3. \A p \in strayed \ strayed' : /\ g.state[p] = "none"
                                    /\ \A k \in DOMAIN g.proposals : p \notin Line(g, k)
  BY <1>2 DEF ProposalsOf
<1>4. Held(g, strayed', dropped')
  <2> SUFFICES ASSUME NEW p \in Players \ strayed'
               PROVE  /\ ~(p \in ToSet(g.fresh) /\ p \in ToSet(g.waiting))
                      /\ p \in InLists(g) <=> g.state[p] = "queued" /\ p \notin dropped'
                      /\ (\E k \in DOMAIN g.proposals : p \in Line(g, k)) <=> g.state[p] = "proposal"
                      /\ \A j, k \in DOMAIN g.proposals : p \in Line(g, j) /\ p \in Line(g, k) => j = k
                      /\ g.wish[p] # {} <=> p \in InLists(g) \/ g.state[p] = "proposal"
                      /\ p \in dropped' => g.state[p] = "queued"
    BY DEF Held
  <2>1. CASE p \in strayed
    <3>1. g.state[p] = "none" /\ \A k \in DOMAIN g.proposals : p \notin Line(g, k)
      BY <1>3, <2>1
    <3>2. g.wish[p] = {} /\ p \notin InLists(g)
      BY <1>1, <3>1 DEF Outside
    <3>3. p \notin dropped'
      BY <1>2, <3>1
    <3> QED
      BY <3>1, <3>2, <3>3 DEF InLists
  <2>2. CASE p \notin strayed
    <3>1. /\ ~(p \in ToSet(g.fresh) /\ p \in ToSet(g.waiting))
          /\ p \in InLists(g) <=> g.state[p] = "queued" /\ p \notin dr
          /\ (\E k \in DOMAIN g.proposals : p \in Line(g, k)) <=> g.state[p] = "proposal"
          /\ \A j, k \in DOMAIN g.proposals : p \in Line(g, j) /\ p \in Line(g, k) => j = k
          /\ g.wish[p] # {} <=> p \in InLists(g) \/ g.state[p] = "proposal"
          /\ p \in dr => g.state[p] = "queued"
      BY <1>1, <2>2 DEF Held
    <3>2. p \in dropped' <=> p \in dr
      BY <1>2, <3>1
    <3> QED
      BY <3>1, <3>2
  <2> QED
    BY <2>1, <2>2
<1>5. Cached(g, strayed')
  <2>1. \A k \in DOMAIN g.proposals : Line(g, k) \cap strayed' = {} => Line(g, k) \cap strayed = {}
    BY <1>3
  <2> QED
    BY <1>1, <2>1 DEF Cached
<1>6. StoresOK(g, strayed', dropped')
  BY <1>1, <1>4, <1>5 DEF StoresOK
<1> QED
  BY <1>2, <1>3, <1>6

\* The invariant after a step that leaves the groups alone.
LEMMA GroupsAlone ==
    ASSUME IInv, StoresOK(lfg', strayed', dropped'), groups' = groups,
           \A p \in Players : lfg'.state[p] = "dungeon" <=> lfg.state[p] = "dungeon",
           \A p \in party : lfg.state[p] = "none" => lfg'.state[p] = "none",
           party' \subseteq Players,
           \A p \in party' \ party : lfg'.state[p] # "dungeon" /\ (p \notin strayed' => lfg'.state[p] = "none"),
           \A p \in strayed \ strayed' : lfg'.state[p] = "none",
           UNION {inWorld', dropped', strayed'} \subseteq Players,
           fault' \in {"no", "erased", "twice"}
    PROVE  IInv'
<1>1. /\ \A S \in groups : S \subseteq Players /\ IsFiniteSet(S) /\ Cardinality(S) <= GroupSize
      /\ \A p \in Players : lfg.state[p] = "dungeon" <=> \E S \in groups : p \in S
      /\ \A S, T \in groups : S \cap T # {} => S = T
      /\ party \subseteq Players
      /\ \A p \in party : lfg.state[p] # "dungeon"
      /\ \A p \in party \ strayed : lfg.state[p] = "none"
  BY DEF IInv, GroupsOK, PartyOK
<1>2. GroupsOK'
  BY <1>1 DEF GroupsOK
<1>3. PartyOK'
  <2>1. \A p \in party' : lfg'.state[p] # "dungeon"
    BY <1>1
  <2>2. \A p \in party' \ strayed' : lfg'.state[p] = "none"
    BY <1>1
  <2> QED
    BY <2>1, <2>2 DEF PartyOK
<1> QED
  BY <1>2, <1>3 DEF IInv

LEMMA IInvParts ==
    ASSUME IInv
    PROVE  /\ StoresOK(lfg, strayed, dropped)
           /\ inWorld \subseteq Players /\ dropped \subseteq Players /\ strayed \subseteq Players
           /\ party \subseteq Players
           /\ \A p \in party : lfg.state[p] # "dungeon"
           /\ \A p \in party \ strayed : lfg.state[p] = "none"
           /\ \A p \in Players : Ungrouped(p) => lfg.state[p] # "dungeon"
           /\ \A S \in groups : S \subseteq Players
           /\ fault \in {"no", "erased", "twice"}
BY DEF IInv, PartyOK, GroupsOK, Ungrouped

LEMMA InitIInv == Init => IInv
<1> SUFFICES ASSUME Init PROVE IInv
  OBVIOUS
<1>1. /\ lfg = [state |-> [p \in Players |-> "none"], wish |-> [p \in Players |-> {}],
                fresh |-> << >>, waiting |-> << >>, matched |-> {}, proposals |-> << >>]
      /\ groups = {} /\ party = {} /\ inWorld = Players /\ dropped = {} /\ strayed = {}
      /\ fault = "no"
  BY DEF Init
<1>2. /\ \A p \in Players : lfg.state[p] = "none" /\ lfg.wish[p] = {}
      /\ lfg.fresh = << >> /\ lfg.waiting = << >> /\ lfg.matched = {} /\ lfg.proposals = << >>
  BY <1>1
<1>3. ToSet(<< >>) = {} /\ IsInjective(<< >>) /\ DOMAIN << >> = {}
  BY DEF ToSet, IsInjective
<1>4. lfg \in Stores
  BY <1>1 DEF Stores, States
<1>5. InLists(lfg) = {} /\ DOMAIN lfg.proposals = {}
  BY <1>2, <1>3 DEF InLists
<1>6. Listed(lfg) /\ Outside(lfg) /\ Proposed(lfg) /\ Called(lfg)
  BY <1>2, <1>3, <1>5 DEF Listed, Outside, Proposed, Called
<1>7. Held(lfg, strayed, dropped) /\ Cached(lfg, strayed)
  BY <1>1, <1>2, <1>3, <1>5 DEF Held, Cached
<1>8. GroupsOK /\ PartyOK
  BY <1>1, <1>2 DEF GroupsOK, PartyOK
<1> QED
  BY <1>1, <1>4, <1>6, <1>7, <1>8 DEF IInv, StoresOK

\* Someone leaves, as many actions have it.
LEMMA LeaveBecomes ==
    ASSUME IInv, NEW p \in Players, Become(Leave(lfg, p))
    PROVE  /\ StoresOK(lfg', strayed', dropped') /\ Keeps(lfg', lfg)
           /\ strayed' \subseteq strayed /\ dropped' \subseteq dropped
           /\ \A q \in strayed \ strayed' : lfg'.state[q] = "none"
           /\ lfg.state[p] = "queued" => lfg'.state[p] = "none"
<1>1. StoresOK(lfg, strayed, dropped)
  BY IInvParts
<1>2. /\ \/ StoresOK(Leave(lfg, p), strayed, dropped)
         \/ StoresOK(Leave(lfg, p), strayed, dropped \ {p})
      /\ Keeps(Leave(lfg, p), lfg)
      /\ lfg.state[p] = "queued" => Leave(lfg, p).state[p] = "none"
  BY <1>1, LeaveOK
<1>3. PICK dr \in SUBSET dropped : StoresOK(Leave(lfg, p), strayed, dr)
  BY <1>2
<1> QED
  BY <1>2, <1>3, BecomeOK

\* A proposal ends.
LEMMA RemoveBecomes ==
    ASSUME IInv, NEW k \in DOMAIN lfg.proposals, NEW denied, denied \subseteq Line(lfg, k),
           denied # {}, Become(RemoveProposal(lfg, k, denied))
    PROVE  /\ StoresOK(lfg', strayed', dropped') /\ Keeps(lfg', lfg)
           /\ strayed' \subseteq strayed /\ dropped' \subseteq dropped
           /\ \A q \in strayed \ strayed' : lfg'.state[q] = "none"
<1>1. StoresOK(lfg, strayed, dropped)
  BY IInvParts
<1>2. StoresOK(RemoveProposal(lfg, k, denied), strayed, dropped)
  BY <1>1, RemoveProposalOK
<1>3. Keeps(RemoveProposal(lfg, k, denied), lfg)
  BY <1>1, RemoveProposalKeeps
<1> QED
  BY <1>2, <1>3, BecomeOK

\* Players outside dungeons and, unless strayed, outside proposals are cleared.
LEMMA ClearBecomes ==
    ASSUME IInv, NEW S, Become(ClearQueueState(lfg, S)),
           \A p \in S \ strayed : p \in Players => lfg.state[p] # "proposal"
    PROVE  /\ StoresOK(lfg', strayed', dropped')
           /\ strayed' \subseteq strayed /\ dropped' \subseteq dropped
           /\ \A q \in strayed \ strayed' : lfg'.state[q] = "none"
           /\ \A p \in Players : lfg'.state[p] = IF p \in S THEN "none" ELSE lfg.state[p]
<1>1. StoresOK(lfg, strayed, dropped) /\ lfg \in Stores /\ Listed(lfg)
  BY IInvParts, StoresParts
<1>2. StoresOK(ClearQueueState(lfg, S), strayed, dropped \ S)
  BY <1>1, ClearQueueStateOK
<1>3. \A p \in Players : ClearQueueState(lfg, S).state[p] = IF p \in S THEN "none" ELSE lfg.state[p]
  BY <1>1, ClearQueueStateProperties
<1> QED
  BY <1>2, <1>3, BecomeOK

\* The stores after a player joined the queue.
Joined(f, p, dungeons) ==
  [SetState(RemoveFromQueue(f, {p}), {p}, "queued")
     EXCEPT !.wish[p] = dungeons, !.fresh = Append(@, p)]

LEMMA WishAndFreshReplaced ==
    ASSUME NEW f \in Stores, NEW p, NEW d, NEW long
    PROVE  [f EXCEPT !.wish[p] = d, !.fresh = long] =
             [state |-> f.state, wish |-> [f.wish EXCEPT ![p] = d], fresh |-> long,
              waiting |-> f.waiting, matched |-> f.matched, proposals |-> f.proposals]
<1> DEFINE g == [f EXCEPT !.wish[p] = d]
<1>1. g = [state |-> f.state, wish |-> [f.wish EXCEPT ![p] = d], fresh |-> f.fresh,
           waiting |-> f.waiting, matched |-> f.matched, proposals |-> f.proposals]
  <2>1. f = [state |-> f.state, wish |-> f.wish, fresh |-> f.fresh,
             waiting |-> f.waiting, matched |-> f.matched, proposals |-> f.proposals]
    BY StoresFields
  <2> QED
    BY <2>1
<1>2. [f EXCEPT !.wish[p] = d, !.fresh = long] = [g EXCEPT !.fresh = long]
  OBVIOUS
<1> HIDE DEF g
<1> QED
  BY <1>1, <1>2

LEMMA JoinedProperties ==
    ASSUME NEW f \in Stores, Listed(f), NEW p \in Players, NEW dungeons \in SUBSET Dungeons,
           NEW r, r = Joined(f, p, dungeons)
    PROVE  /\ r \in Stores /\ Listed(r)
           /\ r.proposals = f.proposals
           /\ \A q \in Players : r.state[q] = IF q = p THEN "queued" ELSE f.state[q]
           /\ \A q \in Players : r.wish[q] = IF q = p THEN dungeons ELSE f.wish[q]
           /\ ToSet(r.fresh) = ToSet(f.fresh) \cup {p}
           /\ ToSet(r.waiting) = ToSet(f.waiting) \ {p}
           /\ r.matched = {key \in f.matched : key \cap {p} = {}}
<1> DEFINE a == RemoveFromQueue(f, {p})
           b == SetState(a, {p}, "queued")
           wish == [b.wish EXCEPT ![p] = dungeons]
           long == Append(b.fresh, p)
           g == [state |-> b.state, wish |-> wish, fresh |-> long,
                 waiting |-> b.waiting, matched |-> b.matched, proposals |-> b.proposals]
<1>1. /\ a \in Stores /\ Listed(a) /\ a.state = f.state /\ a.proposals = f.proposals
      /\ \A q \in Players : a.wish[q] = IF q \in {p} THEN {} ELSE f.wish[q]
      /\ ToSet(a.fresh) = ToSet(f.fresh) \ {p}
      /\ ToSet(a.waiting) = ToSet(f.waiting) \ {p}
      /\ a.matched = {key \in f.matched : key \cap {p} = {}}
  BY RemoveFromQueueProperties
<1> HIDE DEF a
<1>2. /\ b \in Stores /\ b.wish = a.wish /\ b.fresh = a.fresh /\ b.waiting = a.waiting
      /\ b.matched = a.matched /\ b.proposals = a.proposals
      /\ \A q \in Players : b.state[q] = IF q \in {p} THEN "queued" ELSE a.state[q]
  <2>1. "queued" \in States
    BY DEF States
  <2> QED
    BY <1>1, <2>1, SetStateProperties
<1>3. Joined(f, p, dungeons) = [b EXCEPT !.wish[p] = dungeons, !.fresh = long]
  BY DEF Joined, a
<1> HIDE DEF b
<1>4. r = g
  <2>1. b \in Stores
    BY <1>2
  <2> HIDE DEF long
  <2> QED
    BY <1>3, <2>1, WishAndFreshReplaced, Zenon
<1>5. /\ b.fresh \in Seq(Players) /\ IsInjective(b.fresh) /\ p \notin ToSet(b.fresh)
      /\ b.waiting \in Seq(Players) /\ IsInjective(b.waiting)
  BY <1>1, <1>2, StoresFields DEF Listed
<1>6. long \in Seq(Players) /\ IsInjective(long) /\ ToSet(long) = ToSet(b.fresh) \cup {p}
  BY <1>5, AppendInjectiveSeq
<1>7. /\ wish \in [Players -> SUBSET Dungeons]
      /\ \A q \in Players : wish[q] = IF q = p THEN dungeons ELSE b.wish[q]
  <2>1. b.wish \in [Players -> SUBSET Dungeons]
    BY <1>2, StoresFields
  <2> QED
    BY <2>1
<1> HIDE DEF wish, long
<1>8. g \in Stores /\ Listed(g)
  BY <1>2, <1>5, <1>6, <1>7, StoresFields DEF Stores, Listed
<1>9. \A q \in Players : b.state[q] = IF q = p THEN "queued" ELSE f.state[q]
  BY <1>1, <1>2
<1>10. \A q \in Players : wish[q] = IF q = p THEN dungeons ELSE f.wish[q]
  BY <1>1, <1>2, <1>7
<1>11. ToSet(long) = ToSet(f.fresh) \cup {p} /\ ToSet(b.waiting) = ToSet(f.waiting) \ {p}
  BY <1>1, <1>2, <1>6
<1> QED
  BY <1>1, <1>2, <1>4, <1>8, <1>9, <1>10, <1>11

LEMMA JoinedOK ==
    ASSUME NEW f, NEW st, NEW dr, StoresOK(f, st, dr), NEW p \in Players,
           f.state[p] \in {"none", "queued"}, NEW dungeons \in SUBSET Dungeons, dungeons # {}
    PROVE  /\ StoresOK(Joined(f, p, dungeons), st, dr \ {p})
           /\ \A q \in Players : Joined(f, p, dungeons).state[q] =
                IF q = p THEN "queued" ELSE f.state[q]
<1> DEFINE r == Joined(f, p, dungeons)
<1>1. /\ f \in Stores /\ Listed(f) /\ Outside(f) /\ Proposed(f) /\ Called(f)
      /\ Held(f, st, dr) /\ Cached(f, st)
      /\ \A k \in DOMAIN f.proposals : Line(f, k) \subseteq Players
  BY StoresParts
<1>2. /\ r \in Stores /\ Listed(r)
      /\ r.proposals = f.proposals
      /\ \A q \in Players : r.state[q] = IF q = p THEN "queued" ELSE f.state[q]
      /\ \A q \in Players : r.wish[q] = IF q = p THEN dungeons ELSE f.wish[q]
      /\ ToSet(r.fresh) = ToSet(f.fresh) \cup {p}
      /\ ToSet(r.waiting) = ToSet(f.waiting) \ {p}
      /\ r.matched = {key \in f.matched : key \cap {p} = {}}
  <2>1. f \in Stores /\ Listed(f)
    BY <1>1
  <2>2. r = Joined(f, p, dungeons)
    OBVIOUS
  <2> HIDE DEF r
  <2> QED
    BY <2>1, <2>2, JoinedProperties
<1> HIDE DEF r
<1>3. InLists(r) = InLists(f) \cup {p}
  BY <1>2 DEF InLists
<1>4. \A k : Line(r, k) = Line(f, k)
  BY <1>2, SameLines
<1>5. Outside(r)
  BY <1>1, <1>2, <1>3 DEF Outside
<1>6. Proposed(r)
  BY <1>1, <1>2, <1>4 DEF Proposed
<1>7. Called(r)
  BY <1>1, <1>2, <1>4 DEF Called
<1>8. Held(r, st, dr \ {p})
  BY <1>1, <1>2, <1>3, <1>4 DEF Held
<1>9. Cached(r, st)
  <2>1. \A key \in r.matched : \E k \in DOMAIN r.proposals : key = Line(r, k)
    BY <1>1, <1>2, <1>4 DEF Cached
  <2>2. ASSUME NEW k \in DOMAIN f.proposals, Line(f, k) \cap st = {}
        PROVE  Line(f, k) \in r.matched
    <3>1. Line(f, k) \in f.matched
      BY <1>1, <2>2 DEF Cached
    <3>2. Line(f, k) \cap {p} = {}
      BY <1>1, <2>2 DEF Held
    <3> QED
      BY <1>2, <3>1, <3>2
  <2> QED
    BY <1>2, <1>4, <2>1, <2>2 DEF Cached
<1> QED
  BY <1>2, <1>5, <1>6, <1>7, <1>8, <1>9 DEF StoresOK, r

\* A refused second join takes a queued player out of the queue.
LEMMA RefusedOK ==
    ASSUME NEW f, NEW st, NEW dr, StoresOK(f, st, dr), NEW p \in Players, f.state[p] = "queued"
    PROVE  /\ StoresOK(RemoveFromQueue(f, {p}), st, dr \cup {p})
           /\ RemoveFromQueue(f, {p}).state = f.state
<1> DEFINE r == RemoveFromQueue(f, {p})
<1>1. /\ f \in Stores /\ Listed(f) /\ Outside(f) /\ Proposed(f) /\ Called(f)
      /\ Held(f, st, dr) /\ Cached(f, st)
      /\ \A k \in DOMAIN f.proposals : Line(f, k) \subseteq Players
  BY StoresParts
<1>2. /\ r \in Stores /\ Listed(r) /\ r.state = f.state /\ r.proposals = f.proposals
      /\ \A q \in Players : r.wish[q] = IF q \in {p} THEN {} ELSE f.wish[q]
      /\ ToSet(r.fresh) = ToSet(f.fresh) \ {p}
      /\ ToSet(r.waiting) = ToSet(f.waiting) \ {p}
      /\ r.matched = {key \in f.matched : key \cap {p} = {}}
  <2>1. f \in Stores /\ Listed(f)
    BY <1>1
  <2> QED
    BY <2>1, RemoveFromQueueProperties
<1> HIDE DEF r
<1>3. InLists(r) = InLists(f) \ {p}
  BY <1>2 DEF InLists
<1>4. \A k : Line(r, k) = Line(f, k)
  BY <1>2, SameLines
<1>5. Outside(r)
  BY <1>1, <1>2, <1>3 DEF Outside
<1>6. Proposed(r)
  BY <1>1, <1>2, <1>4 DEF Proposed
<1>7. Called(r)
  BY <1>1, <1>2, <1>4 DEF Called
<1>8. Held(r, st, dr \cup {p})
  BY <1>1, <1>2, <1>3, <1>4 DEF Held
<1>9. Cached(r, st)
  <2>1. \A key \in r.matched : \E k \in DOMAIN r.proposals : key = Line(r, k)
    BY <1>1, <1>2, <1>4 DEF Cached
  <2>2. ASSUME NEW k \in DOMAIN f.proposals, Line(f, k) \cap st = {}
        PROVE  Line(f, k) \in r.matched
    <3>1. Line(f, k) \in f.matched
      BY <1>1, <2>2 DEF Cached
    <3>2. Line(f, k) \cap {p} = {}
      BY <1>1, <2>2 DEF Held
    <3> QED
      BY <1>2, <3>1, <3>2
  <2> QED
    BY <1>2, <1>4, <2>1, <2>2 DEF Cached
<1> QED
  BY <1>2, <1>5, <1>6, <1>7, <1>8, <1>9 DEF StoresOK, r

LEMMA ProposalsReplaced ==
    ASSUME NEW f \in Stores, NEW s
    PROVE  [f EXCEPT !.proposals = s] =
             [state |-> f.state, wish |-> f.wish, fresh |-> f.fresh,
              waiting |-> f.waiting, matched |-> f.matched, proposals |-> s]
<1>1. f = [state |-> f.state, wish |-> f.wish, fresh |-> f.fresh,
           waiting |-> f.waiting, matched |-> f.matched, proposals |-> f.proposals]
  BY StoresFields
<1> QED
  BY <1>1

\* The stores after a player agreed to proposal k, not as the last one.
Agreed(f, p, k) == [f EXCEPT !.proposals[k].agreed = @ \cup {p}]

LEMMA AgreedOK ==
    ASSUME NEW f, NEW st, NEW dr, StoresOK(f, st, dr), NEW k \in DOMAIN f.proposals,
           NEW p \in Line(f, k), f.proposals[k].agreed \cup {p} # Line(f, k)
    PROVE  StoresOK(Agreed(f, p, k), st, dr) /\ Agreed(f, p, k).state = f.state
<1> DEFINE one == [line |-> f.proposals[k].line, agreed |-> f.proposals[k].agreed \cup {p}]
           s == [f.proposals EXCEPT ![k] = one]
           r == [state |-> f.state, wish |-> f.wish, fresh |-> f.fresh,
                 waiting |-> f.waiting, matched |-> f.matched, proposals |-> s]
<1>1. /\ f \in Stores /\ Listed(f) /\ Outside(f) /\ Proposed(f) /\ Called(f)
      /\ Held(f, st, dr) /\ Cached(f, st)
      /\ \A j \in DOMAIN f.proposals : Line(f, j) \subseteq Players
  BY StoresParts
<1>2. /\ f.proposals \in Seq(Proposal) /\ f.proposals[k] \in Proposal
      /\ f.proposals[k].line \in Seq(Players)
      /\ f.proposals[k] = [line |-> f.proposals[k].line, agreed |-> f.proposals[k].agreed]
  BY <1>1, StoresFields, LineOf DEF Proposal
<1>3. [f.proposals[k] EXCEPT !.agreed = @ \cup {p}] = one
  <2>1. ASSUME NEW q, q = [line |-> q.line, agreed |-> q.agreed]
        PROVE  [q EXCEPT !.agreed = @ \cup {p}] = [line |-> q.line, agreed |-> q.agreed \cup {p}]
    BY <2>1
  <2> QED
    BY <1>2, <2>1
<1>4. Agreed(f, p, k) = r
  <2>1. Agreed(f, p, k) = [f EXCEPT !.proposals = s]
    <3>1. Agreed(f, p, k) =
            [f EXCEPT !.proposals = [f.proposals EXCEPT ![k] = [f.proposals[k] EXCEPT !.agreed = @ \cup {p}]]]
      BY DEF Agreed
    <3> HIDE DEF one
    <3> QED
      BY <1>3, <3>1
  <2> HIDE DEF s
  <2> QED
    BY <1>1, <2>1, ProposalsReplaced
<1>5. one \in Proposal
  BY <1>1, <1>2 DEF Proposal
<1>6. /\ s \in Seq(Proposal) /\ DOMAIN s = DOMAIN f.proposals /\ s[k] = one
      /\ \A j \in DOMAIN f.proposals : j # k => s[j] = f.proposals[j]
  <2> HIDE DEF one
  <2> QED
    BY <1>2, <1>5
<1> HIDE DEF s
<1>7. \A j \in DOMAIN f.proposals : Line(r, j) = Line(f, j)
  BY <1>6 DEF Line
<1>8. /\ r \in Stores /\ Listed(r) /\ InLists(r) = InLists(f)
      /\ r.state = f.state /\ r.wish = f.wish /\ r.fresh = f.fresh /\ r.waiting = f.waiting
      /\ r.matched = f.matched /\ r.proposals = s
  BY <1>1, <1>6, StoresFields DEF Stores, Listed, InLists
<1> HIDE DEF r
<1>9. Outside(r) /\ Called(r)
  BY <1>1, <1>6, <1>7, <1>8 DEF Outside, Called
<1>10. Proposed(r)
  <2>1. \A j \in DOMAIN f.proposals : j # k =>
          /\ Len(s[j].line) = GroupSize /\ IsInjective(s[j].line)
          /\ s[j].agreed \subseteq Line(r, j) /\ s[j].agreed # Line(r, j)
    BY <1>1, <1>6, <1>7 DEF Proposed
  <2>2. /\ Len(s[k].line) = GroupSize /\ IsInjective(s[k].line)
        /\ s[k].agreed \subseteq Line(r, k) /\ s[k].agreed # Line(r, k)
    BY <1>1, <1>6, <1>7 DEF Proposed
  <2> QED
    BY <1>6, <1>8, <2>1, <2>2 DEF Proposed
<1>11. Held(r, st, dr)
  BY <1>1, <1>6, <1>7, <1>8 DEF Held
<1>12. Cached(r, st)
  BY <1>1, <1>6, <1>7, <1>8 DEF Cached
<1> QED
  BY <1>4, <1>8, <1>9, <1>10, <1>11, <1>12 DEF StoresOK

\* The stores after a group was made of proposal k.
Formed(f, k) ==
  [SetState(RemoveFromQueue(f, Line(f, k)), Line(f, k), "dungeon") EXCEPT !.proposals = RemoveAt(@, k)]

LEMMA FormedProperties ==
    ASSUME NEW f \in Stores, Listed(f), NEW k \in DOMAIN f.proposals, NEW r, r = Formed(f, k)
    PROVE  /\ r \in Stores /\ Listed(r)
           /\ r.proposals = RemoveAt(f.proposals, k)
           /\ \A p \in Players : r.state[p] = IF p \in Line(f, k) THEN "dungeon" ELSE f.state[p]
           /\ \A p \in Players : r.wish[p] = IF p \in Line(f, k) THEN {} ELSE f.wish[p]
           /\ ToSet(r.fresh) = ToSet(f.fresh) \ Line(f, k)
           /\ ToSet(r.waiting) = ToSet(f.waiting) \ Line(f, k)
           /\ r.matched = {key \in f.matched : key \cap Line(f, k) = {}}
<1> DEFINE L == Line(f, k)
           a == RemoveFromQueue(f, L)
           b == SetState(a, L, "dungeon")
           s == RemoveAt(f.proposals, k)
           g == [state |-> b.state, wish |-> b.wish, fresh |-> b.fresh,
                 waiting |-> b.waiting, matched |-> b.matched, proposals |-> s]
<1>1. /\ a \in Stores /\ Listed(a) /\ a.state = f.state /\ a.proposals = f.proposals
      /\ \A p \in Players : a.wish[p] = IF p \in L THEN {} ELSE f.wish[p]
      /\ ToSet(a.fresh) = ToSet(f.fresh) \ L
      /\ ToSet(a.waiting) = ToSet(f.waiting) \ L
      /\ a.matched = {key \in f.matched : key \cap L = {}}
  BY RemoveFromQueueProperties
<1> HIDE DEF a
<1>2. /\ b \in Stores /\ b.wish = a.wish /\ b.fresh = a.fresh /\ b.waiting = a.waiting
      /\ b.matched = a.matched /\ b.proposals = a.proposals
      /\ \A p \in Players : b.state[p] = IF p \in L THEN "dungeon" ELSE a.state[p]
  <2>1. "dungeon" \in States
    BY DEF States
  <2> QED
    BY <1>1, <2>1, SetStateProperties
<1>3. r = [b EXCEPT !.proposals = RemoveAt(@, k)]
  BY DEF Formed, a
<1> HIDE DEF b
<1>4. r = g
  <2> DEFINE q == RemoveAt(b.proposals, k)
  <2>1. b \in Stores /\ r = [b EXCEPT !.proposals = q]
    BY <1>2, <1>3
  <2>2. q = s
    BY <1>1, <1>2
  <2> HIDE DEF q, s
  <2>3. r = [state |-> b.state, wish |-> b.wish, fresh |-> b.fresh,
             waiting |-> b.waiting, matched |-> b.matched, proposals |-> q]
    BY <2>1, ProposalsReplaced
  <2> QED
    BY <2>2, <2>3
<1>5. s \in Seq(Proposal)
  <2>1. s = RemoveAt(f.proposals, k)
    OBVIOUS
  <2> HIDE DEF s
  <2> QED
    BY <2>1, ProposalTakenOut
<1> HIDE DEF s, L
<1>6. g \in Stores /\ Listed(g)
  BY <1>1, <1>2, <1>5, StoresFields DEF Stores, Listed
<1>7. \A p \in Players : /\ b.state[p] = IF p \in L THEN "dungeon" ELSE f.state[p]
                         /\ b.wish[p] = IF p \in L THEN {} ELSE f.wish[p]
  BY <1>1, <1>2
<1> QED
  BY <1>1, <1>2, <1>4, <1>6, <1>7 DEF s, L

LEMMA FormedOK ==
    ASSUME NEW f, NEW st, NEW dr, StoresOK(f, st, dr), NEW k \in DOMAIN f.proposals
    PROVE  StoresOK(Formed(f, k), st, dr)
<1> DEFINE r == Formed(f, k)
           L == Line(f, k)
           n == Len(f.proposals)
<1>1. /\ f \in Stores /\ Listed(f) /\ Outside(f) /\ Proposed(f) /\ Called(f)
      /\ Held(f, st, dr) /\ Cached(f, st) /\ InLists(f) \subseteq Players
      /\ \A j \in DOMAIN f.proposals : Line(f, j) \subseteq Players /\ Line(f, j) # {}
  BY StoresParts
<1>2. /\ r \in Stores /\ Listed(r)
      /\ r.proposals = RemoveAt(f.proposals, k)
      /\ \A p \in Players : r.state[p] = IF p \in L THEN "dungeon" ELSE f.state[p]
      /\ \A p \in Players : r.wish[p] = IF p \in L THEN {} ELSE f.wish[p]
      /\ ToSet(r.fresh) = ToSet(f.fresh) \ L
      /\ ToSet(r.waiting) = ToSet(f.waiting) \ L
      /\ r.matched = {key \in f.matched : key \cap L = {}}
  <2>1. f \in Stores /\ Listed(f)
    BY <1>1
  <2>2. r = Formed(f, k)
    OBVIOUS
  <2> HIDE DEF r
  <2> QED
    BY <2>1, <2>2, FormedProperties
<1>3. /\ n \in Nat /\ DOMAIN f.proposals = 1..n
      /\ DOMAIN r.proposals = 1..n - 1
      /\ OthersOf(r.proposals, f.proposals, k)
  <2>1. f \in Stores /\ r.proposals = RemoveAt(f.proposals, k)
    BY <1>1, <1>2
  <2> HIDE DEF r
  <2> QED
    BY <2>1, ProposalTakenOut
<1> HIDE DEF r, n
<1>4. PICK up \in [1..n - 1 -> 1..n] :
        /\ \A i \in 1..n - 1 : up[i] # k /\ r.proposals[i] = f.proposals[up[i]]
        /\ \A i, j \in 1..n - 1 : up[i] = up[j] => i = j
        /\ \A j \in 1..n \ {k} : \E i \in 1..n - 1 : up[i] = j
  BY <1>3 DEF OthersOf, n
<1>5. \A i \in 1..n - 1 : Line(r, i) = Line(f, up[i]) /\ up[i] \in 1..n /\ up[i] # k
  BY <1>4 DEF Line
<1>6. L # {} /\ L \subseteq Players
  BY <1>1
<1> HIDE DEF L
<1>7. InLists(r) = InLists(f) \ L
  BY <1>2 DEF InLists
<1>8. Outside(r)
  BY <1>1, <1>2, <1>7 DEF Outside
<1>9. Proposed(r)
  <2> SUFFICES ASSUME NEW i \in 1..n - 1
               PROVE  /\ Len(r.proposals[i].line) = GroupSize
                      /\ IsInjective(r.proposals[i].line)
                      /\ r.proposals[i].agreed \subseteq Line(r, i)
                      /\ r.proposals[i].agreed # Line(r, i)
    BY <1>3 DEF Proposed
  <2>1. r.proposals[i] = f.proposals[up[i]] /\ Line(r, i) = Line(f, up[i]) /\ up[i] \in 1..n
    BY <1>4, <1>5
  <2> QED
    BY <1>1, <1>3, <2>1 DEF Proposed
<1>10. Called(r)
  <2> SUFFICES ASSUME NEW p \in Players, r.state[p] = "proposal"
               PROVE  \E i \in 1..n - 1 : p \in Line(r, i)
    BY <1>3 DEF Called
  <2>1. p \notin L /\ f.state[p] = "proposal"
    BY <1>2
  <2>2. PICK j \in 1..n : p \in Line(f, j)
    BY <1>1, <1>3, <2>1 DEF Called
  <2>3. j # k
    BY <2>1, <2>2 DEF L
  <2> QED
    BY <1>4, <1>5, <2>2, <2>3
<1>11. Held(r, st, dr)
  <2> SUFFICES ASSUME NEW p \in Players \ st
               PROVE  /\ ~(p \in ToSet(r.fresh) /\ p \in ToSet(r.waiting))
                      /\ p \in InLists(r) <=> r.state[p] = "queued" /\ p \notin dr
                      /\ (\E i \in 1..n - 1 : p \in Line(r, i)) <=> r.state[p] = "proposal"
                      /\ \A i, j \in 1..n - 1 : p \in Line(r, i) /\ p \in Line(r, j) => i = j
                      /\ r.wish[p] # {} <=> p \in InLists(r) \/ r.state[p] = "proposal"
                      /\ p \in dr => r.state[p] = "queued"
    BY <1>3 DEF Held
  <2>1. /\ ~(p \in ToSet(f.fresh) /\ p \in ToSet(f.waiting))
        /\ p \in InLists(f) <=> f.state[p] = "queued" /\ p \notin dr
        /\ (\E i \in 1..n : p \in Line(f, i)) <=> f.state[p] = "proposal"
        /\ \A i, j \in 1..n : p \in Line(f, i) /\ p \in Line(f, j) => i = j
        /\ f.wish[p] # {} <=> p \in InLists(f) \/ f.state[p] = "proposal"
        /\ p \in dr => f.state[p] = "queued"
    BY <1>1, <1>3 DEF Held
  <2>2. \A i, j \in 1..n - 1 : p \in Line(r, i) /\ p \in Line(r, j) => i = j
    BY <1>4, <1>5, <2>1
  <2>3. CASE p \in L
    <3>1. f.state[p] = "proposal" /\ \A i \in 1..n - 1 : p \notin Line(r, i)
      BY <1>3, <1>5, <2>1, <2>3 DEF L
    <3> QED
      BY <1>2, <1>7, <2>1, <2>2, <2>3, <3>1
  <2>4. CASE p \notin L
    <3>1. (\E i \in 1..n - 1 : p \in Line(r, i)) <=> \E i \in 1..n : p \in Line(f, i)
      BY <1>4, <1>5, <2>4 DEF L
    <3>2. r.state[p] = f.state[p] /\ r.wish[p] = f.wish[p]
      BY <1>2, <2>4
    <3> QED
      BY <1>2, <1>7, <2>1, <2>2, <2>4, <3>1, <3>2
  <2> QED
    BY <2>3, <2>4
<1>12. Cached(r, st)
  <2>1. ASSUME NEW key \in r.matched PROVE \E i \in 1..n - 1 : key = Line(r, i)
    <3>1. key \in f.matched /\ key \cap L = {}
      BY <1>2, <2>1
    <3>2. PICK j \in 1..n : key = Line(f, j)
      BY <1>1, <1>3, <3>1 DEF Cached
    <3>3. j # k
      BY <1>6, <3>1, <3>2 DEF L
    <3> QED
      BY <1>4, <1>5, <3>2, <3>3
  <2>2. ASSUME NEW i \in 1..n - 1, Line(r, i) \cap st = {} PROVE Line(r, i) \in r.matched
    <3>1. Line(f, up[i]) \in f.matched
      BY <1>1, <1>3, <1>5, <2>2 DEF Cached
    <3>2. ASSUME NEW p \in Line(f, up[i]), p \in L PROVE FALSE
      <4>1. p \in Players \ st
        BY <1>1, <1>3, <1>5, <2>2, <3>2
      <4> QED
        BY <1>1, <1>3, <1>5, <3>2, <4>1 DEF Held, L
    <3> QED
      BY <1>2, <1>5, <3>1, <3>2
  <2> QED
    BY <1>3, <2>1, <2>2 DEF Cached
<1> QED
  BY <1>2, <1>8, <1>9, <1>10, <1>11, <1>12 DEF StoresOK, r

LEMMA JoinLfgStep ==
    ASSUME IInv, NEW p \in Players, NEW dungeons \in (SUBSET Dungeons) \ {{}}, JoinLfg(p, dungeons)
    PROVE  IInv'
<1>1. /\ Ungrouped(p) /\ lfg.state[p] \in {"none", "queued"}
      /\ Become(Joined(lfg, p, dungeons))
      /\ groups' = groups /\ party' = party /\ inWorld' = inWorld /\ fault' = fault
  BY DEF JoinLfg, Joined
<1>2. /\ StoresOK(Joined(lfg, p, dungeons), strayed, dropped \ {p})
      /\ \A q \in Players : Joined(lfg, p, dungeons).state[q] =
           IF q = p THEN "queued" ELSE lfg.state[q]
  BY <1>1, IInvParts, JoinedOK
<1>3. /\ StoresOK(lfg', strayed', dropped') /\ lfg' = Joined(lfg, p, dungeons)
      /\ strayed' \subseteq strayed /\ dropped' \subseteq dropped
      /\ \A q \in strayed \ strayed' : lfg'.state[q] = "none"
  <2>1. dropped \ {p} \subseteq dropped
    OBVIOUS
  <2> QED
    BY <1>1, <1>2, <2>1, BecomeOK
<1>4. p \notin party
  BY <1>1 DEF Ungrouped
<1>5. \A q \in Players : lfg'.state[q] = IF q = p THEN "queued" ELSE lfg.state[q]
  BY <1>2, <1>3
<1> QED
  BY <1>1, <1>3, <1>4, <1>5, IInvParts, GroupsAlone

LEMMA RefuseJoinStep == ASSUME IInv, NEW p \in Players, RefuseJoin(p) PROVE IInv'
<1>1. /\ lfg.state[p] = "queued" /\ lfg' = RemoveFromQueue(lfg, {p})
      /\ dropped' = dropped \cup {p} /\ strayed' = strayed
      /\ groups' = groups /\ party' = party /\ inWorld' = inWorld /\ fault' = fault
  BY DEF RefuseJoin
<1>2. StoresOK(lfg', strayed', dropped') /\ lfg'.state = lfg.state
  BY <1>1, IInvParts, RefusedOK
<1> QED
  BY <1>1, <1>2, IInvParts, GroupsAlone

LEMMA LeaveQueueStep == ASSUME IInv, NEW p \in Players, LeaveQueue(p) PROVE IInv'
<1>1. /\ Become(Leave(lfg, p))
      /\ groups' = groups /\ party' = party /\ inWorld' = inWorld /\ fault' = fault
  BY DEF LeaveQueue
<1>2. /\ StoresOK(lfg', strayed', dropped') /\ Keeps(lfg', lfg)
      /\ strayed' \subseteq strayed /\ dropped' \subseteq dropped
      /\ \A q \in strayed \ strayed' : lfg'.state[q] = "none"
  BY <1>1, LeaveBecomes
<1> QED
  BY <1>1, <1>2, IInvParts, GroupsAlone DEF Keeps

LEMMA RefuseStep ==
    ASSUME IInv, NEW p \in Players, NEW k \in DOMAIN lfg.proposals, Refuse(p, k) PROVE IInv'
<1>1. /\ {p} \subseteq Line(lfg, k) /\ {p} # {} /\ Become(RemoveProposal(lfg, k, {p}))
      /\ groups' = groups /\ party' = party /\ inWorld' = inWorld /\ fault' = fault
  BY DEF Refuse, MayAnswer
<1>2. /\ StoresOK(lfg', strayed', dropped') /\ Keeps(lfg', lfg)
      /\ strayed' \subseteq strayed /\ dropped' \subseteq dropped
      /\ \A q \in strayed \ strayed' : lfg'.state[q] = "none"
  BY <1>1, RemoveBecomes
<1> QED
  BY <1>1, <1>2, IInvParts, GroupsAlone DEF Keeps

LEMMA AgreeStep ==
    ASSUME IInv, NEW p \in Players, NEW k \in DOMAIN lfg.proposals, Agree(p, k) PROVE IInv'
<1>1. /\ p \in Line(lfg, k) /\ lfg.proposals[k].agreed \cup {p} # Line(lfg, k)
      /\ Become(Agreed(lfg, p, k))
      /\ groups' = groups /\ party' = party /\ inWorld' = inWorld /\ fault' = fault
  BY DEF Agree, MayAnswer, Complete, Agreed
<1>2. /\ StoresOK(Agreed(lfg, p, k), strayed, dropped)
      /\ Agreed(lfg, p, k).state = lfg.state
  BY <1>1, IInvParts, AgreedOK
<1>3. /\ StoresOK(lfg', strayed', dropped') /\ lfg'.state = lfg.state
      /\ strayed' \subseteq strayed /\ dropped' \subseteq dropped
      /\ \A q \in strayed \ strayed' : lfg'.state[q] = "none"
  BY <1>1, <1>2, BecomeOK
<1> QED
  BY <1>1, <1>3, IInvParts, GroupsAlone

LEMMA AgreeOfflineStep ==
    ASSUME IInv, NEW p \in Players, NEW k \in DOMAIN lfg.proposals, AgreeOffline(p, k) PROVE IInv'
<1>1. /\ \E q \in Line(lfg, k) : Become(RemoveProposal(lfg, k, {q}))
      /\ groups' = groups /\ party' = party /\ inWorld' = inWorld /\ fault' = fault
  BY DEF AgreeOffline
<1>2. PICK q \in Line(lfg, k) : Become(RemoveProposal(lfg, k, {q}))
  BY <1>1
<1>3. {q} \subseteq Line(lfg, k) /\ {q} # {}
  OBVIOUS
<1>4. /\ StoresOK(lfg', strayed', dropped') /\ Keeps(lfg', lfg)
      /\ strayed' \subseteq strayed /\ dropped' \subseteq dropped
      /\ \A r \in strayed \ strayed' : lfg'.state[r] = "none"
  BY <1>2, <1>3, RemoveBecomes
<1> QED
  BY <1>1, <1>4, IInvParts, GroupsAlone DEF Keeps

LEMMA FormGroupStep ==
    ASSUME IInv, NEW p \in Players, NEW k \in DOMAIN lfg.proposals, FormGroup(p, k) PROVE IInv'
<1> DEFINE L == Line(lfg, k)
<1>1. /\ Intact(k) /\ L \subseteq inWorld /\ Become(Formed(lfg, k))
      /\ groups' = groups \cup {L} /\ party' = party \ L
      /\ inWorld' \subseteq inWorld /\ fault' = fault
  BY DEF FormGroup, Formed
<1>2. /\ StoresOK(lfg, strayed, dropped) /\ lfg \in Stores /\ Outside(lfg) /\ Proposed(lfg)
      /\ Listed(lfg) /\ L \subseteq Players
  BY IInvParts, StoresParts
<1>3. StoresOK(Formed(lfg, k), strayed, dropped)
  BY <1>2, FormedOK
<1>4. /\ StoresOK(lfg', strayed', dropped') /\ lfg' = Formed(lfg, k)
      /\ strayed' \subseteq strayed /\ dropped' \subseteq dropped
      /\ \A q \in strayed \ strayed' : lfg'.state[q] = "none"
  BY <1>1, <1>3, BecomeOK
<1>5. \A q \in Players : lfg'.state[q] = IF q \in L THEN "dungeon" ELSE lfg.state[q]
  BY <1>2, <1>4, FormedProperties
<1>6. \A q \in L : lfg.state[q] # "dungeon"
  BY <1>1, <1>2 DEF Intact, Outside
<1>7. IsFiniteSet(L) /\ Cardinality(L) = GroupSize
  <2>1. /\ lfg.proposals[k].line \in Seq(Players) /\ IsInjective(lfg.proposals[k].line)
        /\ Len(lfg.proposals[k].line) = GroupSize
    BY <1>2, LineOf DEF Proposed
  <2> QED
    BY <2>1, LengthIsCardinality DEF Line
<1>8. /\ \A S \in groups : S \subseteq Players /\ IsFiniteSet(S) /\ Cardinality(S) <= GroupSize
      /\ \A q \in Players : lfg.state[q] = "dungeon" <=> \E S \in groups : q \in S
      /\ \A S, T \in groups : S \cap T # {} => S = T
      /\ party \subseteq Players
      /\ \A q \in party : lfg.state[q] # "dungeon"
      /\ \A q \in party \ strayed : lfg.state[q] = "none"
  BY DEF IInv, GroupsOK, PartyOK
<1> HIDE DEF L
<1>9. GroupsOK'
  <2>1. \A S \in groups' : S \subseteq Players /\ IsFiniteSet(S) /\ Cardinality(S) <= GroupSize
    BY <1>1, <1>2, <1>7, <1>8, SizeAssumption
  <2>2. \A q \in Players : lfg'.state[q] = "dungeon" <=> \E S \in groups' : q \in S
    BY <1>1, <1>5, <1>8
  <2>3. \A S \in groups : S \cap L = {}
    BY <1>6, <1>8
  <2>4. \A S, T \in groups' : S \cap T # {} => S = T
    BY <1>1, <1>8, <2>3
  <2> QED
    BY <2>1, <2>2, <2>4 DEF GroupsOK
<1>10. PartyOK'
  <2>1. party' \subseteq Players /\ \A q \in party' : lfg'.state[q] = lfg.state[q]
    BY <1>1, <1>5, <1>8
  <2>2. \A q \in party' \ strayed' : lfg'.state[q] = "none"
    BY <1>1, <1>4, <1>8, <2>1
  <2> QED
    BY <1>1, <1>8, <2>1, <2>2 DEF PartyOK
<1> QED
  BY <1>1, <1>4, <1>9, <1>10, IInvParts DEF IInv

LEMMA JoinPartyStep == ASSUME IInv, NEW p \in Players, JoinParty(p) PROVE IInv'
<1>1. /\ Ungrouped(p) /\ party' = party \cup {p}
      /\ groups' = groups /\ inWorld' = inWorld /\ fault' = fault
  BY DEF JoinParty
<1>2. lfg.state[p] # "dungeon" /\ StoresOK(lfg, strayed, dropped)
  BY <1>1, IInvParts
<1>3. CASE lfg.state[p] = "proposal"
  <2>1. strayed' = strayed \cup {p} /\ lfg' = lfg /\ dropped' = dropped
    BY <1>3 DEF JoinParty
  <2>2. StoresOK(lfg', strayed', dropped')
    <3>1. Held(lfg, strayed \cup {p}, dropped) /\ Cached(lfg, strayed \cup {p})
      <4>1. Held(lfg, strayed, dropped) /\ Cached(lfg, strayed)
        BY <1>2, StoresParts
      <4> QED
        BY <4>1 DEF Held, Cached
    <3> QED
      BY <1>2, <2>1, <3>1 DEF StoresOK
  <2> QED
    BY <1>1, <1>2, <2>1, <2>2, IInvParts, GroupsAlone
<1>4. CASE lfg.state[p] # "proposal"
  <2>1. Become(Leave(lfg, p))
    BY <1>4 DEF JoinParty
  <2>2. /\ StoresOK(lfg', strayed', dropped') /\ Keeps(lfg', lfg)
        /\ strayed' \subseteq strayed /\ dropped' \subseteq dropped
        /\ \A q \in strayed \ strayed' : lfg'.state[q] = "none"
        /\ lfg.state[p] = "queued" => lfg'.state[p] = "none"
    BY <2>1, LeaveBecomes
  <2>3. lfg'.state[p] = "none"
    <3>1. lfg.state \in [Players -> States]
      BY <1>2, StoresParts, StoresFields
    <3>2. lfg.state[p] \in {"none", "queued"}
      BY <1>2, <1>4, <3>1 DEF States
    <3> QED
      BY <2>2, <3>2 DEF Keeps
  <2> QED
    BY <1>1, <2>2, <2>3, IInvParts, GroupsAlone DEF Keeps
<1> QED
  BY <1>3, <1>4

LEMMA LeavePartyStep == ASSUME IInv, NEW p \in Players, LeaveParty(p) PROVE IInv'
<1>1. /\ Become(Leave(lfg, p)) /\ party' = party \ {p}
      /\ groups' = groups /\ inWorld' = inWorld /\ fault' = fault
  BY DEF LeaveParty
<1>2. /\ StoresOK(lfg', strayed', dropped') /\ Keeps(lfg', lfg)
      /\ strayed' \subseteq strayed /\ dropped' \subseteq dropped
      /\ \A q \in strayed \ strayed' : lfg'.state[q] = "none"
  BY <1>1, LeaveBecomes
<1> QED
  BY <1>1, <1>2, IInvParts, GroupsAlone DEF Keeps

LEMMA DisbandPartyStep == ASSUME IInv, NEW p \in Players, DisbandParty(p) PROVE IInv'
<1>1. /\ Become(ClearQueueState(lfg, {p})) /\ p \in party /\ party' = party \ {p}
      /\ groups' = groups /\ inWorld' = inWorld /\ fault' = fault
  BY DEF DisbandParty
<1>2. lfg.state[p] # "dungeon" /\ (p \notin strayed => lfg.state[p] = "none")
  BY <1>1, IInvParts
<1>3. \A q \in {p} \ strayed : q \in Players => lfg.state[q] # "proposal"
  BY <1>2
<1>4. /\ StoresOK(lfg', strayed', dropped')
      /\ strayed' \subseteq strayed /\ dropped' \subseteq dropped
      /\ \A q \in strayed \ strayed' : lfg'.state[q] = "none"
      /\ \A q \in Players : lfg'.state[q] = IF q \in {p} THEN "none" ELSE lfg.state[q]
  BY <1>1, <1>3, ClearBecomes
<1> QED
  BY <1>1, <1>2, <1>4, IInvParts, GroupsAlone

LEMMA LeaveMapStep == ASSUME IInv, NEW p \in Players, LeaveMap(p) PROVE IInv'
<1>1. /\ inWorld' = inWorld \ {p} /\ lfg' = lfg /\ groups' = groups /\ party' = party
      /\ dropped' = dropped /\ strayed' = strayed /\ fault' = fault
  BY DEF LeaveMap
<1> QED
  BY <1>1, IInvParts, GroupsAlone

LEMMA LogoutStep == ASSUME IInv, NEW p \in Players, Logout(p) PROVE IInv'
<1>1. /\ Become(Leave(lfg, p)) /\ party' \subseteq party
      /\ inWorld' = inWorld \ {p} /\ groups' = groups /\ fault' = fault
  BY DEF Logout
<1>2. /\ StoresOK(lfg', strayed', dropped') /\ Keeps(lfg', lfg)
      /\ strayed' \subseteq strayed /\ dropped' \subseteq dropped
      /\ \A q \in strayed \ strayed' : lfg'.state[q] = "none"
  BY <1>1, LeaveBecomes
<1> QED
  BY <1>1, <1>2, IInvParts, GroupsAlone DEF Keeps

\* Members of a group are cleared and the group goes, or goes on without them.
LEMMA GroupCleared ==
    ASSUME IInv, NEW S \in groups, NEW C, C \subseteq S, Become(ClearQueueState(lfg, C)),
           \/ C = S /\ groups' = groups \ {S}
           \/ groups' = (groups \ {S}) \cup {S \ C},
           party' = party, inWorld' \subseteq Players, fault' = fault
    PROVE  IInv'
<1>1. /\ \A T \in groups : T \subseteq Players /\ IsFiniteSet(T) /\ Cardinality(T) <= GroupSize
      /\ \A q \in Players : lfg.state[q] = "dungeon" <=> \E T \in groups : q \in T
      /\ \A T, U \in groups : T \cap U # {} => T = U
      /\ party \subseteq Players
      /\ \A q \in party : lfg.state[q] # "dungeon"
      /\ \A q \in party \ strayed : lfg.state[q] = "none"
  BY DEF IInv, GroupsOK, PartyOK
<1>2. \A q \in C \ strayed : q \in Players => lfg.state[q] # "proposal"
  BY <1>1
<1>3. /\ StoresOK(lfg', strayed', dropped')
      /\ strayed' \subseteq strayed /\ dropped' \subseteq dropped
      /\ \A q \in strayed \ strayed' : lfg'.state[q] = "none"
      /\ \A q \in Players : lfg'.state[q] = IF q \in C THEN "none" ELSE lfg.state[q]
  BY <1>2, ClearBecomes
<1>4. IsFiniteSet(S \ C) /\ Cardinality(S \ C) <= GroupSize /\ S \ C \subseteq Players
  <2>1. /\ IsFiniteSet(S) /\ S \subseteq Players /\ Cardinality(S) <= GroupSize
    BY <1>1
  <2>2. /\ IsFiniteSet(S \ C) /\ Cardinality(S \ C) <= Cardinality(S)
        /\ Cardinality(S \ C) \in Nat /\ Cardinality(S) \in Nat
    BY <2>1, FS_Subset, FS_CardinalityType
  <2> QED
    BY <2>1, <2>2, SizeAssumption
<1>5. GroupsOK'
  <2> DEFINE R == S \ C
  <2>0. /\ \A T \in groups' : (T \in groups /\ T # S) \/ T = R
        /\ \A T \in groups : T # S => T \in groups'
        /\ R \in groups' \/ R = {}
        /\ \A q : q \in R <=> q \in S /\ q \notin C
    OBVIOUS
  <2> HIDE DEF R
  <2>1. \A T \in groups' : T \subseteq Players /\ IsFiniteSet(T) /\ Cardinality(T) <= GroupSize
    <3>1. R \subseteq Players /\ IsFiniteSet(R) /\ Cardinality(R) <= GroupSize
      BY <1>4 DEF R
    <3> QED
      BY <1>1, <2>0, <3>1
  <2>2. \A q \in Players : lfg'.state[q] = "dungeon" <=> \E T \in groups' : q \in T
    <3>1. \A q \in Players : q \in S => \A T \in groups \ {S} : q \notin T
      BY <1>1
    <3>2. \A q \in Players : (\E T \in groups' : q \in T) <=> q \notin C /\ \E T \in groups : q \in T
      BY <2>0, <3>1
    <3> QED
      BY <1>1, <1>3, <3>2
  <2>3. \A T, U \in groups' : T \cap U # {} => T = U
    <3>1. \A T \in groups : T # S => T \cap R = {}
      BY <1>1, <2>0
    <3> QED
      BY <1>1, <2>0, <3>1
  <2> QED
    BY <2>1, <2>2, <2>3 DEF GroupsOK
<1>6. PartyOK'
  BY <1>1, <1>3 DEF PartyOK
<1> QED
  BY <1>3, <1>5, <1>6, IInvParts DEF IInv

LEMMA EnterMapStep == ASSUME IInv, NEW p \in Players, EnterMap(p) PROVE IInv'
<1>1. party' = party /\ fault' = fault
  BY DEF EnterMap
<1>2. CASE Become(Leave(lfg, p)) /\ inWorld' = inWorld \cup {p} /\ groups' = groups
  <2>1. /\ StoresOK(lfg', strayed', dropped') /\ Keeps(lfg', lfg)
        /\ strayed' \subseteq strayed /\ dropped' \subseteq dropped
        /\ \A q \in strayed \ strayed' : lfg'.state[q] = "none"
    BY <1>2, LeaveBecomes
  <2> QED
    BY <1>1, <1>2, <2>1, IInvParts, GroupsAlone DEF Keeps
<1>3. CASE inWorld' = inWorld \cup {p} /\ UNCHANGED <<lfg, groups, dropped, strayed>>
  BY <1>1, <1>3, IInvParts, GroupsAlone
<1>4. CASE \E S \in groups : /\ groups' = groups \ {S}
                             /\ Become(ClearQueueState(lfg, S))
                             /\ \E away \in SUBSET S : inWorld' = (inWorld \ away) \cup {p}
  <2>1. inWorld' \subseteq Players
    BY <1>4, IInvParts
  <2> QED
    BY <1>1, <1>4, <2>1, GroupCleared
<1> QED
  BY <1>2, <1>3, <1>4 DEF EnterMap

LEMMA DisbandGroupStep == ASSUME IInv, NEW S \in groups, DisbandGroup(S) PROVE IInv'
<1>1. /\ groups' = groups \ {S} /\ Become(ClearQueueState(lfg, S))
      /\ inWorld' \subseteq inWorld /\ party' = party /\ fault' = fault
  BY DEF DisbandGroup
<1> QED
  BY <1>1, IInvParts, GroupCleared

LEMMA LogoutFromGroupStep ==
    ASSUME IInv, NEW p \in Players, NEW S \in groups, LogoutFromGroup(p, S) PROVE IInv'
<1>1. /\ p \in S /\ inWorld' \subseteq Players /\ party' = party /\ fault' = fault
      /\ \/ groups' = (groups \ {S}) \cup {S \ {p}} /\ Become(ClearQueueState(lfg, {p}))
         \/ groups' = groups \ {S} /\ Become(ClearQueueState(lfg, S))
  BY IInvParts DEF LogoutFromGroup
<1> QED
  BY <1>1, GroupCleared

-----------------------------------------------------------------------------
(* Update: the proposals past their deadline.                              *)

\* g is f after its first i proposals expired: who had agreed is queued, who
\* had not is nowhere, and the others are where they were.
ExpiredTo(g, f, i, st, dr) ==
  /\ StoresOK(g, st, dr)
  /\ Keeps(g, f)
  /\ Len(g.proposals) = Len(f.proposals) - i
  /\ \A j \in 1..Len(f.proposals) - i : g.proposals[j] = f.proposals[j + i]
  /\ \A p \in Players \ st : \A m \in 1..i :
       p \in Line(f, m) =>
         /\ p \in f.proposals[m].agreed => g.state[p] = "queued" /\ g.wish[p] = f.wish[p]
         /\ p \notin f.proposals[m].agreed => g.state[p] = "none" /\ g.wish[p] = {}
  /\ \A p \in Players :
       (\A m \in 1..i : p \notin Line(f, m)) => g.state[p] = f.state[p] /\ g.wish[p] = f.wish[p]

LEMMA ExpireFirstStep ==
    ASSUME NEW f, NEW st, NEW dr, StoresOK(f, st, dr), NEW i \in 0..Len(f.proposals) - 1,
           NEW g, ExpiredTo(g, f, i, st, dr)
    PROVE  ExpiredTo(ExpireFirst(g), f, i + 1, st, dr)
<1> DEFINE n == Len(f.proposals)
           L == Line(g, 1)
           denied == L \ g.proposals[1].agreed
           gone == Gone(g, 1, denied)
           r == RemoveProposal(g, 1, denied)
<1>1. /\ f \in Stores /\ Held(f, st, dr)
      /\ \A k \in DOMAIN f.proposals : Line(f, k) \subseteq Players
      /\ g \in Stores /\ Listed(g) /\ Proposed(g)
      /\ StoresOK(g, st, dr) /\ Keeps(g, f)
      /\ Len(g.proposals) = n - i
      /\ \A j \in 1..n - i : g.proposals[j] = f.proposals[j + i]
  BY StoresParts DEF ExpiredTo
<1>2. n \in Nat /\ DOMAIN f.proposals = 1..n /\ i + 1 \in 1..n /\ i \in Nat
  <2>1. f.proposals \in Seq(Proposal)
    BY <1>1, StoresFields
  <2> QED
    BY <2>1, SetOfSeq
<1>3. DOMAIN g.proposals = 1..n - i /\ 1 \in 1..n - i
  <2>1. g.proposals \in Seq(Proposal)
    BY <1>1, StoresFields
  <2>2. DOMAIN g.proposals = 1..n - i
    BY <1>1, <2>1, SetOfSeq
  <2> QED
    BY <1>2, <2>2
<1>4. g.proposals[1] = f.proposals[i + 1] /\ L = Line(f, i + 1)
  <2>1. g.proposals[1] = f.proposals[1 + i]
    BY <1>1, <1>3
  <2>2. 1 + i = i + 1
    BY <1>2
  <2> QED
    BY <2>1, <2>2 DEF Line
<1>5. denied \subseteq L /\ denied # {}
  BY <1>1, <1>3 DEF Proposed
<1>6. ExpireFirst(g) = r
  BY DEF ExpireFirst
<1>7. StoresOK(r, st, dr) /\ Keeps(r, g)
  <2> HIDE DEF denied, L, r
  <2>1. 1 \in DOMAIN g.proposals
    BY <1>3
  <2>2. denied \subseteq Line(g, 1) /\ denied # {}
    BY <1>5 DEF L
  <2> QED
    BY <1>1, <2>1, <2>2, RemoveProposalOK, RemoveProposalKeeps DEF r
<1>8. /\ r.proposals = RemoveAt(g.proposals, 1)
      /\ \A p \in Players : r.state[p] =
           IF p \notin L THEN g.state[p]
           ELSE IF p \notin gone THEN "queued"
           ELSE IF g.state[p] = "dungeon" THEN "dungeon" ELSE "none"
      /\ \A p \in Players : r.wish[p] = IF p \in gone THEN {} ELSE g.wish[p]
      /\ gone \subseteq L
  <2> HIDE DEF denied
  <2>1. 1 \in DOMAIN g.proposals /\ denied \subseteq Line(g, 1)
    BY <1>3, <1>5
  <2> QED
    BY <1>1, <2>1, RemoveProposalProperties
<1>9. gone = denied \cup {p \in L : g.wish[p] = {}}
  BY DEF Gone
<1> HIDE DEF n, gone, r
<1>10. /\ Len(r.proposals) = n - (i + 1)
       /\ \A j \in 1..n - (i + 1) : r.proposals[j] = f.proposals[j + (i + 1)]
  <2>1. /\ Len(r.proposals) = (n - i) - 1
        /\ \A j \in 1..(n - i) - 1 : r.proposals[j] = g.proposals[IF j < 1 THEN j ELSE j + 1]
    <3> DEFINE q == r.proposals
               h == Len(g.proposals)
    <3>1. g \in Stores /\ 1 \in DOMAIN g.proposals /\ q = RemoveAt(g.proposals, 1) /\ h = n - i
      BY <1>1, <1>3, <1>8
    <3>2. h = Len(g.proposals)
      OBVIOUS
    <3> HIDE DEF q, h
    <3>3. /\ Len(q) = h - 1
          /\ \A j \in 1..h - 1 : q[j] = g.proposals[IF j < 1 THEN j ELSE j + 1]
      BY <3>1, <3>2, ProposalTakenOut
    <3> QED
      BY <3>1, <3>3 DEF q
  <2>2. ASSUME NEW j \in 1..n - (i + 1) PROVE r.proposals[j] = f.proposals[j + (i + 1)]
    <3>1. /\ j \in 1..(n - i) - 1 /\ ~(j < 1) /\ j + 1 \in 1..n - i
          /\ (j + 1) + i = j + (i + 1)
      BY <1>2
    <3>2. r.proposals[j] = g.proposals[j + 1]
      BY <2>1, <3>1
    <3> QED
      BY <1>1, <3>1, <3>2
  <2> QED
    BY <1>2, <2>1, <2>2
<1>11. Keeps(r, f)
  BY <1>1, <1>7 DEF Keeps
<1>12. \A m \in 1..i + 1 : m \in 1..i \/ m = i + 1
  BY <1>2
<1>13. /\ \A p \in Players \ st : \A m \in 1..i :
            p \in Line(f, m) =>
              /\ p \in f.proposals[m].agreed => g.state[p] = "queued" /\ g.wish[p] = f.wish[p]
              /\ p \notin f.proposals[m].agreed => g.state[p] = "none" /\ g.wish[p] = {}
       /\ \A p \in Players :
            (\A m \in 1..i : p \notin Line(f, m)) => g.state[p] = f.state[p] /\ g.wish[p] = f.wish[p]
  BY DEF ExpiredTo
<1>14. ASSUME NEW p \in Players \ st, NEW m \in 1..i + 1, p \in Line(f, m)
       PROVE  /\ p \in f.proposals[m].agreed => r.state[p] = "queued" /\ r.wish[p] = f.wish[p]
              /\ p \notin f.proposals[m].agreed => r.state[p] = "none" /\ r.wish[p] = {}
  <2>1. /\ \A j, k \in 1..n : p \in Line(f, j) /\ p \in Line(f, k) => j = k
        /\ f.state[p] = "proposal" /\ f.wish[p] # {}
    <3>1. m \in 1..n
      BY <1>2
    <3> QED
      BY <1>1, <1>2, <1>14, <3>1 DEF Held
  <2>2. CASE m \in 1..i
    <3>1. p \notin L
      <4>1. m \in 1..n /\ m # i + 1
        BY <1>2, <2>2
      <4> QED
        BY <1>2, <1>4, <1>14, <2>1, <4>1
    <3>2. r.state[p] = g.state[p] /\ r.wish[p] = g.wish[p]
      BY <1>8, <3>1
    <3> QED
      BY <1>13, <1>14, <2>2, <3>2
  <2>3. CASE m = i + 1
    <3>1. \A j \in 1..i : p \notin Line(f, j)
      <4>1. \A j \in 1..i : j \in 1..n /\ j # i + 1
        BY <1>2
      <4> QED
        BY <1>2, <1>14, <2>1, <2>3, <4>1
    <3>2. g.state[p] = "proposal" /\ g.wish[p] = f.wish[p]
      BY <1>13, <2>1, <3>1
    <3>3. p \in gone <=> p \notin f.proposals[m].agreed
      BY <1>4, <1>9, <1>14, <2>1, <2>3, <3>2
    <3>4. p \in L
      BY <1>4, <1>14, <2>3
    <3> QED
      BY <1>8, <3>2, <3>3, <3>4
  <2> QED
    BY <1>12, <2>2, <2>3
<1>15. ASSUME NEW p \in Players, \A m \in 1..i + 1 : p \notin Line(f, m)
       PROVE  r.state[p] = f.state[p] /\ r.wish[p] = f.wish[p]
  <2>1. \A m \in 1..i : m \in 1..i + 1
    BY <1>2
  <2>2. i + 1 \in 1..i + 1
    BY <1>2
  <2>3. p \notin L /\ \A m \in 1..i : p \notin Line(f, m)
    BY <1>4, <1>15, <2>1, <2>2
  <2> QED
    BY <1>8, <1>13, <2>3
<1>16. ExpiredTo(r, f, i + 1, st, dr)
  BY <1>7, <1>10, <1>11, <1>14, <1>15 DEF ExpiredTo, n
<1> QED
  BY <1>6, <1>16

LEMMA ExpiredOK ==
    ASSUME NEW f, NEW st, NEW dr, StoresOK(f, st, dr), NEW n \in 0..Len(f.proposals)
    PROVE  ExpiredTo(Expired(f, n), f, n, st, dr)
<1> DEFINE Run(g, m) == g = [i \in 0..m |-> IF i = 0 THEN f ELSE ExpireFirst(g[i - 1])]
           T == {m \in 0..n : \E g : Run(g, m)}
<1>1. n \in Nat /\ Len(f.proposals) \in Nat
  <2>1. f.proposals \in Seq(Proposal)
    BY StoresParts, StoresFields
  <2> QED
    BY <2>1
<1>2. \E g : Run(g, n)
  <2>1. 0 \in T
    <3> DEFINE h == [i \in 0..0 |-> f]
    <3>1. Run(h, 0)
      OBVIOUS
    <3> HIDE DEF Run, h
    <3> QED
      BY <1>1, <3>1
  <2>2. ASSUME NEW m \in 0..n - 1, m \in T PROVE m + 1 \in T
    <3>1. PICK g : Run(g, m)
      BY <2>2
    <3> DEFINE h == [i \in 0..m + 1 |-> IF i <= m THEN g[i] ELSE ExpireFirst(g[m])]
    <3>2. \A i \in 0..m + 1 : h[i] = IF i = 0 THEN f ELSE ExpireFirst(h[i - 1])
      BY <1>1, <3>1
    <3>3. Run(h, m + 1)
      BY <3>2
    <3> HIDE DEF h
    <3> QED
      BY <1>1, <3>3
  <2> HIDE DEF T
  <2>3. \A m \in 0..n : m \in T
    BY <1>1, <2>1, <2>2, Induction
  <2> QED
    BY <1>1, <2>3 DEF T
<1>3. PICK g : Run(g, n) /\ Expired(f, n) = g[n]
  BY <1>2 DEF Expired
<1>4. g[0] = f /\ \A m \in 0..n - 1 : g[m + 1] = ExpireFirst(g[m])
  <2>1. \A m \in 0..n - 1 : (m + 1) - 1 = m /\ m + 1 \in 0..n /\ m + 1 # 0
    BY <1>1
  <2> QED
    BY <1>1, <1>3, <2>1
<1> HIDE DEF Run
<1> DEFINE U == {m \in 0..n : ExpiredTo(g[m], f, m, st, dr)}
<1>5. 0 \in U
  <2>1. ExpiredTo(f, f, 0, st, dr)
    <3>1. \A j \in 1..Len(f.proposals) - 0 : j + 0 = j
      BY <1>1
    <3>2. Len(f.proposals) - 0 = Len(f.proposals) /\ 1..0 = {}
      BY <1>1
    <3> QED
      BY <3>1, <3>2 DEF ExpiredTo, Keeps
  <2> QED
    BY <1>1, <1>4, <2>1
<1>6. ASSUME NEW m \in 0..n - 1, m \in U PROVE m + 1 \in U
  <2>1. m \in 0..Len(f.proposals) - 1 /\ m + 1 \in 0..n
    BY <1>1
  <2>2. ExpiredTo(g[m + 1], f, m + 1, st, dr)
    BY <1>4, <1>6, <2>1, ExpireFirstStep
  <2> QED
    BY <2>1, <2>2
<1> HIDE DEF U
<1>7. \A m \in 0..n : m \in U
  BY <1>1, <1>5, <1>6, Induction
<1> QED
  BY <1>1, <1>3, <1>7 DEF U

-----------------------------------------------------------------------------
(* Update: matching.                                                       *)

\* What Gather has after it looked at i players of the current queue.
GatheredTo(c, f, p, i) ==
  /\ c \in Seq(Players) /\ IsInjective(c)
  /\ p \in ToSet(c)
  /\ ToSet(c) \subseteq {p} \cup {f.waiting[j] : j \in 1..i}
  /\ Len(c) <= GroupSize
  /\ Len(c) = 1 \/ Fits(f, c)

LEMMA GatherStep ==
    ASSUME NEW f \in Stores, Listed(f), NEW p \in Players, p \notin ToSet(f.waiting),
           NEW i \in 0..Len(f.waiting) - 1, NEW c, GatheredTo(c, f, p, i),
           NEW d, d = IF Len(c) < GroupSize /\ Fits(f, Append(c, f.waiting[i + 1]))
                      THEN Append(c, f.waiting[i + 1]) ELSE c
    PROVE  GatheredTo(d, f, p, i + 1)
<1> DEFINE x == f.waiting[i + 1]
<1>1. /\ f.waiting \in Seq(Players) /\ Len(f.waiting) \in Nat /\ i \in Nat /\ i + 1 \in 1..Len(f.waiting)
      /\ x \in Players /\ x \in ToSet(f.waiting)
      /\ \A j, k \in 1..Len(f.waiting) : f.waiting[j] = f.waiting[k] => j = k
  <2>1. f.waiting \in Seq(Players)
    BY StoresFields
  <2>2. Len(f.waiting) \in Nat /\ i \in Nat /\ i + 1 \in 1..Len(f.waiting)
    BY <2>1
  <2> QED
    BY <2>1, <2>2, SetOfSeq DEF Listed
<1>2. /\ c \in Seq(Players) /\ IsInjective(c) /\ p \in ToSet(c)
      /\ ToSet(c) \subseteq {p} \cup {f.waiting[j] : j \in 1..i}
      /\ Len(c) <= GroupSize
      /\ Len(c) = 1 \/ Fits(f, c)
  BY DEF GatheredTo
<1>3. {f.waiting[j] : j \in 1..i + 1} = {f.waiting[j] : j \in 1..i} \cup {x}
  <2>1. 1..i + 1 = 1..i \cup {i + 1}
    BY <1>1
  <2> QED
    BY <2>1
<1>4. x # p /\ x \notin {f.waiting[j] : j \in 1..i}
  <2>1. \A j \in 1..i : j \in 1..Len(f.waiting) /\ j # i + 1
    BY <1>1
  <2> QED
    BY <1>1, <2>1
<1>5. CASE d = c
  BY <1>2, <1>3, <1>5 DEF GatheredTo
<1>6. CASE d # c
  <2>1. Len(c) < GroupSize /\ Fits(f, d) /\ d = Append(c, x)
    BY <1>6
  <2>2. x \notin ToSet(c)
    BY <1>2, <1>4
  <2>3. /\ d \in Seq(Players) /\ IsInjective(d) /\ ToSet(d) = ToSet(c) \cup {x}
        /\ Len(d) = Len(c) + 1
    <3> HIDE DEF x
    <3> QED
      BY <1>1, <1>2, <2>1, <2>2, AppendInjectiveSeq
  <2>4. Len(d) <= GroupSize
    BY <2>1 DEF Fits
  <2> HIDE DEF x
  <2> QED
    BY <1>2, <1>3, <2>1, <2>3, <2>4 DEF GatheredTo
<1> QED
  BY <1>5, <1>6

LEMMA GatherOK ==
    ASSUME NEW f \in Stores, Listed(f), NEW p \in Players, p \notin ToSet(f.waiting)
    PROVE  GatheredTo(Gather(f, p), f, p, Len(f.waiting))
<1> DEFINE n == Len(f.waiting)
           more(i, c) == Append(c, f.waiting[i])
           step(i, c) == IF Len(c) < GroupSize /\ Fits(f, more(i, c)) THEN more(i, c) ELSE c
           Run(g, m) == g = [i \in 0..m |-> IF i = 0 THEN <<p>> ELSE step(i, g[i - 1])]
           T == {m \in 0..n : \E g : Run(g, m)}
<1>1. n \in Nat
  <2>1. f.waiting \in Seq(Players)
    BY StoresFields
  <2> QED
    BY <2>1
<1>2. \E g : Run(g, n)
  <2> HIDE DEF step, n
  <2>1. 0 \in T
    <3> DEFINE h == [i \in 0..0 |-> <<p>>]
    <3>1. Run(h, 0)
      OBVIOUS
    <3> HIDE DEF Run, h
    <3> QED
      BY <1>1, <3>1
  <2>2. ASSUME NEW m \in 0..n - 1, m \in T PROVE m + 1 \in T
    <3>1. PICK g : Run(g, m)
      BY <2>2
    <3> DEFINE h == [i \in 0..m + 1 |-> IF i <= m THEN g[i] ELSE step(m + 1, g[m])]
    <3>2. \A i \in 0..m + 1 : h[i] = IF i = 0 THEN <<p>> ELSE step(i, h[i - 1])
      BY <1>1, <3>1
    <3>3. Run(h, m + 1)
      BY <3>2
    <3> HIDE DEF h
    <3> QED
      BY <1>1, <3>3
  <2> HIDE DEF T
  <2>3. \A m \in 0..n : m \in T
    BY <1>1, <2>1, <2>2, Induction
  <2>4. n \in T
    BY <1>1, <2>3
  <2> HIDE DEF Run
  <2> QED
    BY <2>4 DEF T
<1>3. PICK g : Run(g, n) /\ Gather(f, p) = g[n]
  BY <1>2 DEF Gather
<1>4. g[0] = <<p>> /\ \A m \in 0..n - 1 : g[m + 1] = step(m + 1, g[m])
  <2>1. \A m \in 0..n - 1 : (m + 1) - 1 = m /\ m + 1 \in 0..n /\ m + 1 # 0
    BY <1>1
  <2> HIDE DEF step, n
  <2> QED
    BY <1>1, <1>3, <2>1
<1> HIDE DEF Run
<1> DEFINE U == {m \in 0..n : GatheredTo(g[m], f, p, m)}
<1>5. 0 \in U
  <2>1. /\ <<p>> \in Seq(Players) /\ IsInjective(<<p>>) /\ p \in ToSet(<<p>>)
        /\ ToSet(<<p>>) \subseteq {p} /\ Len(<<p>>) = 1
    BY DEF IsInjective, ToSet
  <2>2. GatheredTo(<<p>>, f, p, 0)
    BY <2>1, SizeAssumption DEF GatheredTo
  <2> HIDE DEF n, step
  <2> QED
    BY <1>1, <1>4, <2>2
<1>6. ASSUME NEW m \in 0..n - 1, m \in U PROVE m + 1 \in U
  <2>1. m + 1 \in 0..n
    BY <1>1
  <2>2. g[m + 1] = IF Len(g[m]) < GroupSize /\ Fits(f, Append(g[m], f.waiting[m + 1]))
                   THEN Append(g[m], f.waiting[m + 1]) ELSE g[m]
    BY <1>4
  <2>3. GatheredTo(g[m], f, p, m)
    BY <1>6
  <2>4. GatheredTo(g[m + 1], f, p, m + 1)
    <3> DEFINE d == g[m + 1]
               c == g[m]
    <3>1. d = IF Len(c) < GroupSize /\ Fits(f, Append(c, f.waiting[m + 1]))
              THEN Append(c, f.waiting[m + 1]) ELSE c
      BY <2>2
    <3> HIDE DEF c, d
    <3>2. GatheredTo(c, f, p, m)
      BY <2>3 DEF c
    <3>3. GatheredTo(d, f, p, m + 1)
      BY <3>1, <3>2, GatherStep
    <3> QED
      BY <3>3 DEF d
  <2> QED
    BY <2>1, <2>4
<1> HIDE DEF U
<1>7. \A m \in 0..n : m \in U
  <2> HIDE DEF n
  <2> QED
    BY <1>1, <1>5, <1>6, Induction
<1> QED
  BY <1>1, <1>3, <1>7 DEF U

\* A newcomer goes to the end of the current queue.
LEMMA NewcomerWaits ==
    ASSUME NEW e, NEW st, NEW dr, StoresOK(e, st, dr), NEW p \in ToSet(e.fresh), p \notin ToSet(e.waiting),
           NEW g \in Stores, Listed(g), g.wish = e.wish, g.matched = e.matched, g.proposals = e.proposals,
           \A q \in Players : g.state[q] = e.state[q],
           ToSet(g.fresh) = ToSet(e.fresh) \ {p}, ToSet(g.waiting) = ToSet(e.waiting) \cup {p}
    PROVE  StoresOK(g, st, dr)
<1>1. /\ e \in Stores /\ Listed(e) /\ Outside(e) /\ Proposed(e) /\ Called(e)
      /\ Held(e, st, dr) /\ Cached(e, st)
  BY StoresParts
<1>2. InLists(g) = InLists(e)
  BY DEF InLists
<1>3. \A k : Line(g, k) = Line(e, k)
  BY SameLines
<1>4. Outside(g) /\ Called(g)
  BY <1>1, <1>2, <1>3 DEF Outside, Called
<1>5. Proposed(g)
  BY <1>1, <1>3 DEF Proposed
<1>6. Held(g, st, dr)
  BY <1>1, <1>2, <1>3 DEF Held
<1>7. Cached(g, st)
  BY <1>1, <1>3 DEF Cached
<1> QED
  BY <1>4, <1>5, <1>6, <1>7 DEF StoresOK

\* A newcomer the cache swallows has strayed.
LEMMA NewcomerSwallowed ==
    ASSUME NEW e, NEW st, NEW dr, StoresOK(e, st, dr), NEW p \in ToSet(e.fresh), p \notin ToSet(e.waiting),
           NEW S \in e.matched, p \in S,
           NEW g \in Stores, Listed(g), g.wish = e.wish, g.matched = e.matched, g.proposals = e.proposals,
           \A q \in Players : g.state[q] = e.state[q],
           ToSet(g.fresh) = ToSet(e.fresh) \ {p}, ToSet(g.waiting) = ToSet(e.waiting)
    PROVE  StoresOK(g, st, dr)
<1>1. /\ e \in Stores /\ Listed(e) /\ Outside(e) /\ Proposed(e) /\ Called(e)
      /\ Held(e, st, dr) /\ Cached(e, st) /\ InLists(e) \subseteq Players
  BY StoresParts
<1>2. InLists(g) = InLists(e) \ {p} /\ p \in InLists(e)
  BY DEF InLists
<1>3. p \in st
  <2>1. \E k \in DOMAIN e.proposals : p \in Line(e, k)
    BY <1>1 DEF Cached
  <2> QED
    BY <1>1, <1>2, <2>1 DEF Held
<1>4. \A k : Line(g, k) = Line(e, k)
  BY SameLines
<1>5. Outside(g) /\ Called(g)
  BY <1>1, <1>2, <1>4 DEF Outside, Called
<1>6. Proposed(g)
  BY <1>1, <1>4 DEF Proposed
<1>7. Held(g, st, dr)
  BY <1>1, <1>2, <1>3, <1>4 DEF Held
<1>8. Cached(g, st)
  BY <1>1, <1>4 DEF Cached
<1> QED
  BY <1>5, <1>6, <1>7, <1>8 DEF StoresOK

\* A complete group of queued players is called.
LEMMA GroupCalled ==
    ASSUME NEW e, NEW st, NEW dr, StoresOK(e, st, dr),
           NEW c \in Seq(Players), IsInjective(c), Len(c) = GroupSize,
           ToSet(c) \subseteq InLists(e), \A q \in ToSet(c) : e.state[q] = "queued",
           NEW g \in Stores, Listed(g), g.wish = e.wish, g.matched = e.matched \cup {ToSet(c)},
           g.proposals = Append(e.proposals, [line |-> c, agreed |-> {}]),
           \A q \in Players : g.state[q] = IF q \in ToSet(c) THEN "proposal" ELSE e.state[q],
           ToSet(g.fresh) = ToSet(e.fresh) \ ToSet(c), ToSet(g.waiting) = ToSet(e.waiting) \ ToSet(c)
    PROVE  StoresOK(g, st, dr)
<1> DEFINE S == ToSet(c)
           n == Len(e.proposals)
           one == [line |-> c, agreed |-> {}]
<1>1. /\ e \in Stores /\ Listed(e) /\ Outside(e) /\ Proposed(e) /\ Called(e)
      /\ Held(e, st, dr) /\ Cached(e, st) /\ InLists(e) \subseteq Players
  BY StoresParts
<1>2. e.proposals \in Seq(Proposal) /\ n \in Nat /\ DOMAIN e.proposals = 1..n
  <2>1. e.proposals \in Seq(Proposal)
    BY <1>1, StoresFields
  <2> QED
    BY <2>1, SetOfSeq
<1>3. one \in Proposal
  BY DEF Proposal
<1>4. /\ DOMAIN g.proposals = 1..n + 1 /\ g.proposals[n + 1] = one
      /\ \A j \in 1..n : g.proposals[j] = e.proposals[j]
  <2> HIDE DEF one
  <2>1. /\ Append(e.proposals, one) \in Seq(Proposal) /\ Len(Append(e.proposals, one)) = n + 1
        /\ Append(e.proposals, one)[n + 1] = one
        /\ \A j \in 1..n : Append(e.proposals, one)[j] = e.proposals[j]
    BY <1>2, <1>3, AppendProperties
  <2>2. g.proposals = Append(e.proposals, one)
    BY DEF one
  <2> QED
    BY <2>1, <2>2, SetOfSeq
<1>5. Line(g, n + 1) = S /\ \A j \in 1..n : Line(g, j) = Line(e, j)
  BY <1>4 DEF Line
<1>6. 1..n + 1 = 1..n \cup {n + 1}
  BY <1>2
<1>7. S # {}
  <2>1. 1 \in 1..Len(c)
    BY SizeAssumption
  <2> QED
    BY <2>1, SetOfSeq
<1>8. Len(g.proposals[n + 1].line) = GroupSize /\ IsInjective(g.proposals[n + 1].line)
      /\ g.proposals[n + 1].agreed = {}
  BY <1>4
<1> HIDE DEF S, n, one
<1>9. S \subseteq InLists(e) /\ \A q \in S : e.state[q] = "queued"
  BY DEF S
<1>10. InLists(g) = InLists(e) \ S
  BY DEF InLists, S
<1>11. \A q \in Players : g.state[q] = IF q \in S THEN "proposal" ELSE e.state[q]
  BY DEF S
<1>12. Outside(g)
  BY <1>1, <1>10, <1>11 DEF Outside
<1>13. Called(g)
  BY <1>1, <1>2, <1>4, <1>5, <1>6, <1>11 DEF Called
<1>14. Proposed(g)
  <2>1. \A j \in 1..n : /\ Len(g.proposals[j].line) = GroupSize /\ IsInjective(g.proposals[j].line)
                        /\ g.proposals[j].agreed \subseteq Line(g, j)
                        /\ g.proposals[j].agreed # Line(g, j)
    BY <1>1, <1>2, <1>4, <1>5 DEF Proposed
  <2> QED
    BY <1>4, <1>5, <1>6, <1>7, <1>8, <2>1 DEF Proposed
<1>15. Held(g, st, dr)
  <2> SUFFICES ASSUME NEW q \in Players \ st
               PROVE  /\ ~(q \in ToSet(g.fresh) /\ q \in ToSet(g.waiting))
                      /\ q \in InLists(g) <=> g.state[q] = "queued" /\ q \notin dr
                      /\ (\E k \in 1..n + 1 : q \in Line(g, k)) <=> g.state[q] = "proposal"
                      /\ \A j, k \in 1..n + 1 : q \in Line(g, j) /\ q \in Line(g, k) => j = k
                      /\ g.wish[q] # {} <=> q \in InLists(g) \/ g.state[q] = "proposal"
                      /\ q \in dr => g.state[q] = "queued"
    BY <1>4 DEF Held
  <2>1. /\ ~(q \in ToSet(e.fresh) /\ q \in ToSet(e.waiting))
        /\ q \in InLists(e) <=> e.state[q] = "queued" /\ q \notin dr
        /\ (\E k \in 1..n : q \in Line(e, k)) <=> e.state[q] = "proposal"
        /\ \A j, k \in 1..n : q \in Line(e, j) /\ q \in Line(e, k) => j = k
        /\ e.wish[q] # {} <=> q \in InLists(e) \/ e.state[q] = "proposal"
        /\ q \in dr => e.state[q] = "queued"
    BY <1>1, <1>2 DEF Held
  <2>2. CASE q \in S
    <3>1. q \in InLists(e) /\ e.state[q] = "queued" /\ q \notin dr /\ \A k \in 1..n : q \notin Line(e, k)
      BY <1>9, <2>1, <2>2
    <3> QED
      BY <1>5, <1>6, <1>10, <1>11, <2>1, <2>2, <3>1
  <2>3. CASE q \notin S
    <3>1. q \notin Line(g, n + 1) /\ g.state[q] = e.state[q] /\ (q \in InLists(g) <=> q \in InLists(e))
      BY <1>5, <1>10, <1>11, <2>3
    <3> QED
      BY <1>5, <1>6, <2>1, <3>1
  <2> QED
    BY <2>2, <2>3
<1>16. Cached(g, st)
  <2>1. \A key \in g.matched : \E k \in 1..n + 1 : key = Line(g, k)
    BY <1>1, <1>2, <1>5, <1>6 DEF Cached, S
  <2>2. \A k \in 1..n + 1 : Line(g, k) \cap st = {} => Line(g, k) \in g.matched
    BY <1>1, <1>2, <1>5, <1>6 DEF Cached, S
  <2> QED
    BY <1>4, <2>1, <2>2 DEF Cached
<1> QED
  BY <1>12, <1>13, <1>14, <1>15, <1>16 DEF StoresOK

LEMMA ListsReplaced ==
    ASSUME NEW f \in Stores, NEW a, NEW b, NEW c, NEW d
    PROVE  /\ [f EXCEPT !.fresh = a] =
                [state |-> f.state, wish |-> f.wish, fresh |-> a,
                 waiting |-> f.waiting, matched |-> f.matched, proposals |-> f.proposals]
           /\ [f EXCEPT !.waiting = b] =
                [state |-> f.state, wish |-> f.wish, fresh |-> f.fresh,
                 waiting |-> b, matched |-> f.matched, proposals |-> f.proposals]
           /\ [f EXCEPT !.fresh = a, !.waiting = b, !.matched = c, !.proposals = d] =
                [state |-> f.state, wish |-> f.wish, fresh |-> a,
                 waiting |-> b, matched |-> c, proposals |-> d]
<1>1. f = [state |-> f.state, wish |-> f.wish, fresh |-> f.fresh,
           waiting |-> f.waiting, matched |-> f.matched, proposals |-> f.proposals]
  BY StoresFields
<1>2. [f EXCEPT !.fresh = a] =
        [state |-> f.state, wish |-> f.wish, fresh |-> a,
         waiting |-> f.waiting, matched |-> f.matched, proposals |-> f.proposals]
  BY <1>1
<1>3. [f EXCEPT !.waiting = b] =
        [state |-> f.state, wish |-> f.wish, fresh |-> f.fresh,
         waiting |-> b, matched |-> f.matched, proposals |-> f.proposals]
  BY <1>1
<1>4. [f EXCEPT !.fresh = a, !.waiting = b, !.matched = c, !.proposals = d] =
        [state |-> f.state, wish |-> f.wish, fresh |-> a,
         waiting |-> b, matched |-> c, proposals |-> d]
  <2> DEFINE g == [f EXCEPT !.fresh = a]
             h == [g EXCEPT !.waiting = b]
             i == [h EXCEPT !.matched = c]
  <2>1. [f EXCEPT !.fresh = a, !.waiting = b, !.matched = c, !.proposals = d] = [i EXCEPT !.proposals = d]
    OBVIOUS
  <2>2. g = [state |-> f.state, wish |-> f.wish, fresh |-> a,
             waiting |-> f.waiting, matched |-> f.matched, proposals |-> f.proposals]
    BY <1>2
  <2> HIDE DEF g
  <2>3. h = [state |-> f.state, wish |-> f.wish, fresh |-> a,
             waiting |-> b, matched |-> f.matched, proposals |-> f.proposals]
    BY <2>2
  <2> HIDE DEF h
  <2>4. i = [state |-> f.state, wish |-> f.wish, fresh |-> a,
             waiting |-> b, matched |-> c, proposals |-> f.proposals]
    BY <2>3
  <2> HIDE DEF i
  <2> QED
    BY <2>1, <2>4
<1> QED
  BY <1>2, <1>3, <1>4

\* p waits, is swallowed by the cache, or is called with the others of c.
Placing(g, h, p, c) ==
  \/ /\ g.matched = h.matched /\ g.proposals = h.proposals
     /\ ToSet(g.fresh) = ToSet(h.fresh) \ {p}
     /\ ToSet(g.waiting) = ToSet(h.waiting) \cup {p}
  \/ /\ ToSet(c) \in h.matched
     /\ g.matched = h.matched /\ g.proposals = h.proposals
     /\ ToSet(g.fresh) = ToSet(h.fresh) \ {p}
     /\ ToSet(g.waiting) = ToSet(h.waiting)
  \/ /\ Len(c) = GroupSize /\ \A q \in ToSet(c) : h.state[q] = "queued"
     /\ g.matched = h.matched \cup {ToSet(c)}
     /\ g.proposals = Append(h.proposals, [line |-> c, agreed |-> {}])
     /\ ToSet(g.fresh) = ToSet(h.fresh) \ ToSet(c)
     /\ ToSet(g.waiting) = ToSet(h.waiting) \ ToSet(c)

LEMMA PlaceProperties ==
    ASSUME NEW h \in Stores, Listed(h), NEW p \in ToSet(h.fresh), p \notin ToSet(h.waiting),
           NEW g, g = Place(h, p), NEW c, c = Gather(h, p)
    PROVE  /\ GatheredTo(c, h, p, Len(h.waiting))
           /\ g \in Stores /\ Listed(g) /\ g.state = h.state /\ g.wish = h.wish
           /\ Placing(g, h, p, c)
<1> DEFINE S == ToSet(c)
           fresh == Without(h.fresh, {p})
           a == [h EXCEPT !.fresh = fresh]
<1>1. /\ h.fresh \in Seq(Players) /\ IsInjective(h.fresh) /\ p \in Players
      /\ h.waiting \in Seq(Players) /\ IsInjective(h.waiting)
  BY StoresFields, SetOfSeq DEF Listed
<1>2. GatheredTo(c, h, p, Len(h.waiting))
  BY <1>1, GatherOK
<1>3. /\ c \in Seq(Players) /\ IsInjective(c) /\ p \in S /\ Len(c) <= GroupSize /\ Len(c) \in Nat
      /\ Len(c) = 1 \/ Fits(h, c)
  BY <1>2 DEF GatheredTo
<1>4. fresh \in Seq(Players) /\ IsInjective(fresh) /\ ToSet(fresh) = ToSet(h.fresh) \ {p}
  BY <1>1, WithoutProperties
<1> HIDE DEF fresh
<1>5. a = [state |-> h.state, wish |-> h.wish, fresh |-> fresh,
           waiting |-> h.waiting, matched |-> h.matched, proposals |-> h.proposals]
  BY ListsReplaced
<1>6. a \in Stores
  BY <1>4, <1>5, StoresFields DEF Stores
<1>7. /\ a.state = h.state /\ a.wish = h.wish /\ a.fresh = fresh /\ a.waiting = h.waiting
      /\ a.matched = h.matched /\ a.proposals = h.proposals
  BY <1>5
<1>8. g = IF Len(c) < GroupSize
          THEN [a EXCEPT !.waiting = IF p \in ToSet(@) THEN @ ELSE Append(@, p)]
          ELSE IF S \in h.matched THEN a
          ELSE [a EXCEPT !.fresh = Without(@, S), !.waiting = Without(@, S),
                         !.matched = @ \cup {S},
                         !.proposals = Append(@, [line |-> c, agreed |-> {}])]
  BY DEF Place, fresh
<1> HIDE DEF a
<1>9. CASE Len(c) < GroupSize
  <2> DEFINE b == Append(h.waiting, p)
  <2>1. g = [a EXCEPT !.waiting = b]
    BY <1>7, <1>8, <1>9
  <2>2. b \in Seq(Players) /\ IsInjective(b) /\ ToSet(b) = ToSet(h.waiting) \cup {p}
    BY <1>1, AppendInjectiveSeq
  <2> HIDE DEF b
  <2>3. g = [state |-> h.state, wish |-> h.wish, fresh |-> fresh,
             waiting |-> b, matched |-> h.matched, proposals |-> h.proposals]
    <3>1. g = [state |-> a.state, wish |-> a.wish, fresh |-> a.fresh,
               waiting |-> b, matched |-> a.matched, proposals |-> a.proposals]
      BY <1>6, <2>1, ListsReplaced
    <3> QED
      BY <1>7, <3>1
  <2>4. g \in Stores /\ Listed(g)
    BY <1>4, <2>2, <2>3, StoresFields DEF Stores, Listed
  <2> QED
    BY <1>2, <1>4, <2>2, <2>3, <2>4 DEF Placing
<1>10. CASE ~(Len(c) < GroupSize) /\ S \in h.matched
  <2>1. g = [state |-> h.state, wish |-> h.wish, fresh |-> fresh,
             waiting |-> h.waiting, matched |-> h.matched, proposals |-> h.proposals]
    BY <1>5, <1>8, <1>10
  <2>2. g \in Stores /\ Listed(g)
    BY <1>1, <1>4, <2>1, StoresFields DEF Stores, Listed
  <2> QED
    BY <1>2, <1>4, <1>10, <2>1, <2>2 DEF Placing
<1>11. CASE ~(Len(c) < GroupSize) /\ S \notin h.matched
  <2> DEFINE u == Without(fresh, S)
             w == Without(h.waiting, S)
             m == h.matched \cup {S}
             one == [line |-> c, agreed |-> {}]
             s == Append(h.proposals, one)
  <2>1. g = [a EXCEPT !.fresh = u, !.waiting = w, !.matched = m, !.proposals = s]
    BY <1>7, <1>8, <1>11
  <2>2. Len(c) = GroupSize /\ Fits(h, c)
    <3> DEFINE len == Len(c)
    <3>1. len \in Nat /\ len <= GroupSize /\ ~(len < GroupSize)
      BY <1>3, <1>11
    <3> HIDE DEF len
    <3>2. len = GroupSize /\ len # 1
      BY <3>1, SizeAssumption
    <3> QED
      BY <1>3, <3>2 DEF len
  <2>3. S \in Rosters /\ \A q \in S : h.state[q] = "queued"
    <3>1. S \in Rosters /\ \A i \in DOMAIN c : h.state[c[i]] = "queued"
      BY <1>11, <2>2 DEF Fits
    <3>2. S = {c[i] : i \in 1..Len(c)} /\ DOMAIN c = 1..Len(c)
      BY <1>3, SetOfSeq
    <3> HIDE DEF S
    <3> QED
      BY <3>1, <3>2
  <2>4. /\ u \in Seq(Players) /\ IsInjective(u) /\ ToSet(u) = ToSet(h.fresh) \ S
        /\ w \in Seq(Players) /\ IsInjective(w) /\ ToSet(w) = ToSet(h.waiting) \ S
    <3>1. u \in Seq(Players) /\ IsInjective(u) /\ ToSet(u) = ToSet(fresh) \ S
      BY <1>4, WithoutProperties
    <3>2. w \in Seq(Players) /\ IsInjective(w) /\ ToSet(w) = ToSet(h.waiting) \ S
      BY <1>1, WithoutProperties
    <3> HIDE DEF u, w, S
    <3> QED
      BY <1>3, <1>4, <3>1, <3>2
  <2>5. s \in Seq(Proposal)
    <3>1. one \in Proposal
      BY <1>3 DEF Proposal
    <3>2. h.proposals \in Seq(Proposal)
      BY StoresFields
    <3> HIDE DEF one
    <3> QED
      BY <3>1, <3>2
  <2> HIDE DEF u, w, m, s, S
  <2>6. g = [state |-> h.state, wish |-> h.wish, fresh |-> u,
             waiting |-> w, matched |-> m, proposals |-> s]
    <3>1. g = [state |-> a.state, wish |-> a.wish, fresh |-> u,
               waiting |-> w, matched |-> m, proposals |-> s]
      BY <1>6, <2>1, ListsReplaced
    <3> QED
      BY <1>7, <3>1
  <2>7. m \subseteq Rosters
    BY <2>3, StoresFields DEF m
  <2>8. g \in Stores /\ Listed(g)
    BY <2>4, <2>5, <2>6, <2>7, StoresFields DEF Stores, Listed
  <2> QED
    BY <1>2, <2>2, <2>3, <2>4, <2>6, <2>8 DEF m, s, S, Placing
<1> QED
  BY <1>9, <1>10, <1>11

\* The players of the proposals after the first old, and the stores with them called.
CalledSince(g, old) == UNION {Line(g, k) : k \in old + 1..Len(g.proposals)}

AsCalled(g, old) == SetState(g, CalledSince(g, old), "proposal")

\* h is f after the first i newcomers were placed.
PlacedTo(h, f, i, st, dr) ==
  LET seen == ToSet(f.waiting) \cup {f.fresh[j] : j \in 1..i}
      old == Len(f.proposals)
  IN /\ h \in Stores /\ Listed(h)
     /\ h.state = f.state /\ h.wish = f.wish
     /\ Len(h.proposals) >= old
     /\ \A k \in 1..old : h.proposals[k] = f.proposals[k]
     /\ StoresOK(AsCalled(h, old), st, dr)
     /\ ToSet(h.fresh) = {f.fresh[j] : j \in i + 1..Len(f.fresh)}
     /\ ToSet(h.waiting) \subseteq seen
     /\ CalledSince(h, old) \subseteq seen
     /\ CalledSince(h, old) \cap InLists(h) = {}

LEMMA AsCalledProperties ==
    ASSUME NEW g \in Stores, NEW old, NEW e, e = AsCalled(g, old)
    PROVE  /\ e \in Stores /\ e.wish = g.wish /\ e.fresh = g.fresh /\ e.waiting = g.waiting
           /\ e.matched = g.matched /\ e.proposals = g.proposals
           /\ \A q \in Players : e.state[q] = IF q \in CalledSince(g, old) THEN "proposal" ELSE g.state[q]
<1>1. "proposal" \in States
  BY DEF States
<1> QED
  BY <1>1, SetStateProperties DEF AsCalled

\* A proposal more, or none.
LEMMA CalledSinceProperties ==
    ASSUME NEW h \in Stores, NEW g \in Stores, NEW old \in Nat, Len(h.proposals) >= old
    PROVE  /\ g.proposals = h.proposals => CalledSince(g, old) = CalledSince(h, old)
           /\ \A one \in Proposal : g.proposals = Append(h.proposals, one) =>
                /\ CalledSince(g, old) = CalledSince(h, old) \cup ToSet(one.line)
                /\ Len(g.proposals) = Len(h.proposals) + 1
                /\ \A k \in 1..Len(h.proposals) : g.proposals[k] = h.proposals[k]
<1>1. g.proposals = h.proposals => CalledSince(g, old) = CalledSince(h, old)
  BY DEF CalledSince, Line
<1>2. ASSUME NEW one \in Proposal, g.proposals = Append(h.proposals, one)
      PROVE  /\ CalledSince(g, old) = CalledSince(h, old) \cup ToSet(one.line)
             /\ Len(g.proposals) = Len(h.proposals) + 1
             /\ \A k \in 1..Len(h.proposals) : g.proposals[k] = h.proposals[k]
  <2> DEFINE n == Len(h.proposals)
  <2>1. h.proposals \in Seq(Proposal)
    BY StoresFields
  <2>2. /\ n \in Nat /\ n >= old /\ Len(g.proposals) = n + 1 /\ g.proposals[n + 1] = one
        /\ \A k \in 1..n : g.proposals[k] = h.proposals[k]
    BY <1>2, <2>1, AppendProperties
  <2>3. Line(g, n + 1) = ToSet(one.line) /\ \A k \in 1..n : Line(g, k) = Line(h, k)
    BY <2>2 DEF Line
  <2> HIDE DEF n
  <2>4. /\ old + 1..n + 1 = (old + 1..n) \cup {n + 1}
        /\ \A k \in old + 1..n : k \in 1..n
    BY <2>2
  <2>5. CalledSince(g, old) = CalledSince(h, old) \cup ToSet(one.line)
    <3>1. CalledSince(g, old) = UNION {Line(g, k) : k \in old + 1..n + 1}
      BY <2>2 DEF CalledSince
    <3>2. CalledSince(h, old) = UNION {Line(h, k) : k \in old + 1..n}
      BY DEF CalledSince, n
    <3> QED
      BY <2>3, <2>4, <3>1, <3>2
  <2> QED
    BY <2>2, <2>5 DEF n
<1> QED
  BY <1>1, <1>2

LEMMA PlaceStep ==
    ASSUME NEW f, NEW st, NEW dr, StoresOK(f, st, dr), ToSet(f.fresh) \cap ToSet(f.waiting) = {},
           NEW i \in 0..Len(f.fresh) - 1, NEW h, PlacedTo(h, f, i, st, dr),
           NEW g, g = Place(h, f.fresh[i + 1])
    PROVE  PlacedTo(g, f, i + 1, st, dr)
<1> DEFINE p == f.fresh[i + 1]
           old == Len(f.proposals)
           n == Len(f.fresh)
           seen == ToSet(f.waiting) \cup {f.fresh[j] : j \in 1..i}
           more == ToSet(f.waiting) \cup {f.fresh[j] : j \in 1..i + 1}
           c == Gather(h, p)
           S == ToSet(c)
           e == AsCalled(h, old)
           b == AsCalled(g, old)
<1>1. /\ f \in Stores /\ f.fresh \in Seq(Players) /\ IsInjective(f.fresh)
      /\ f.proposals \in Seq(Proposal)
  BY StoresParts, StoresFields DEF Listed
<1>2. /\ n \in Nat /\ old \in Nat /\ i \in Nat /\ i + 1 \in 1..n
      /\ \A j, k \in 1..n : f.fresh[j] = f.fresh[k] => j = k
      /\ ToSet(f.fresh) = {f.fresh[j] : j \in 1..n}
  <2>1. n \in Nat /\ old \in Nat /\ i \in Nat /\ i + 1 \in 1..n
    BY <1>1
  <2> QED
    BY <1>1, <2>1, SetOfSeq
<1>3. /\ h \in Stores /\ Listed(h) /\ h.state = f.state /\ h.wish = f.wish
      /\ Len(h.proposals) >= old
      /\ \A k \in 1..old : h.proposals[k] = f.proposals[k]
      /\ StoresOK(e, st, dr)
      /\ ToSet(h.fresh) = {f.fresh[j] : j \in i + 1..n}
      /\ ToSet(h.waiting) \subseteq seen
      /\ CalledSince(h, old) \subseteq seen
      /\ CalledSince(h, old) \cap InLists(h) = {}
  BY DEF PlacedTo
<1>4. p \in ToSet(h.fresh) /\ p \notin seen /\ p \in ToSet(f.fresh)
  <2>1. i + 1 \in i + 1..n
    BY <1>2
  <2>2. \A j \in 1..i : j \in 1..n /\ j # i + 1
    BY <1>2
  <2> QED
    BY <1>2, <1>3, <2>1, <2>2
<1>5. p \notin ToSet(h.waiting) /\ p \notin CalledSince(h, old)
  BY <1>3, <1>4
<1>6. more = seen \cup {p}
  <2>1. 1..i + 1 = 1..i \cup {i + 1}
    BY <1>2
  <2> QED
    BY <2>1
<1>7. ToSet(h.fresh) \ {p} = {f.fresh[j] : j \in (i + 1) + 1..n}
  <2>1. i + 1..n = {i + 1} \cup ((i + 1) + 1..n)
    BY <1>2
  <2>2. \A j \in (i + 1) + 1..n : j \in 1..n /\ j # i + 1
    BY <1>2
  <2>3. p \notin {f.fresh[j] : j \in (i + 1) + 1..n}
    BY <1>2, <2>2
  <2> HIDE DEF n
  <2> QED
    BY <1>3, <2>1, <2>3
<1> HIDE DEF n, seen, more, e, b, old, p, c
<1>8. /\ GatheredTo(c, h, p, Len(h.waiting))
      /\ g \in Stores /\ Listed(g) /\ g.state = h.state /\ g.wish = h.wish
      /\ Placing(g, h, p, c)
  <2>1. g = Place(h, p) /\ c = Gather(h, p)
    BY DEF p, c
  <2>2. h \in Stores /\ Listed(h) /\ p \in ToSet(h.fresh) /\ p \notin ToSet(h.waiting)
    BY <1>3, <1>4, <1>5
  <2> QED
    BY <2>1, <2>2, PlaceProperties
<1>9. /\ c \in Seq(Players) /\ IsInjective(c) /\ p \in S
      /\ S \subseteq {p} \cup ToSet(h.waiting)
  <2>1. ToSet(h.waiting) = {h.waiting[j] : j \in 1..Len(h.waiting)}
    BY <1>3, StoresFields, SetOfSeq
  <2> QED
    BY <1>8, <2>1 DEF GatheredTo
<1> HIDE DEF S
<1>10. /\ e \in Stores /\ e.wish = h.wish /\ e.fresh = h.fresh /\ e.waiting = h.waiting
       /\ e.matched = h.matched /\ e.proposals = h.proposals
       /\ \A q \in Players : e.state[q] = IF q \in CalledSince(h, old) THEN "proposal" ELSE h.state[q]
  BY <1>3, AsCalledProperties DEF e
<1>11. /\ b \in Stores /\ b.wish = g.wish /\ b.fresh = g.fresh /\ b.waiting = g.waiting
       /\ b.matched = g.matched /\ b.proposals = g.proposals
       /\ \A q \in Players : b.state[q] = IF q \in CalledSince(g, old) THEN "proposal" ELSE g.state[q]
  BY <1>8, AsCalledProperties DEF b
<1>12. Listed(b) /\ Listed(e)
  BY <1>3, <1>8, <1>10, <1>11 DEF Listed
<1>13. CASE /\ g.matched = h.matched /\ g.proposals = h.proposals
            /\ ToSet(g.fresh) = ToSet(h.fresh) \ {p}
            /\ ToSet(g.waiting) = ToSet(h.waiting) \cup {p}
  <2>1. CalledSince(g, old) = CalledSince(h, old)
    BY <1>2, <1>3, <1>8, <1>13, CalledSinceProperties
  <2>2. StoresOK(b, st, dr)
    <3>1. \A q \in Players : b.state[q] = e.state[q]
      BY <1>8, <1>10, <1>11, <2>1
    <3>2. /\ p \in ToSet(e.fresh) /\ p \notin ToSet(e.waiting)
          /\ b.wish = e.wish /\ b.matched = e.matched /\ b.proposals = e.proposals
          /\ ToSet(b.fresh) = ToSet(e.fresh) \ {p}
          /\ ToSet(b.waiting) = ToSet(e.waiting) \cup {p}
      BY <1>4, <1>5, <1>8, <1>10, <1>11, <1>13
    <3> QED
      BY <1>3, <1>11, <1>12, <3>1, <3>2, NewcomerWaits
  <2>3. CalledSince(g, old) \cap InLists(g) = {}
    BY <1>3, <1>4, <1>5, <1>13, <2>1 DEF InLists
  <2> QED
    BY <1>3, <1>6, <1>7, <1>8, <1>13, <2>1, <2>2, <2>3 DEF PlacedTo, n, seen, more, b, old
<1>14. CASE /\ S \in h.matched
            /\ g.matched = h.matched /\ g.proposals = h.proposals
            /\ ToSet(g.fresh) = ToSet(h.fresh) \ {p}
            /\ ToSet(g.waiting) = ToSet(h.waiting)
  <2>1. CalledSince(g, old) = CalledSince(h, old)
    BY <1>2, <1>3, <1>8, <1>14, CalledSinceProperties
  <2>2. StoresOK(b, st, dr)
    <3>1. \A q \in Players : b.state[q] = e.state[q]
      BY <1>8, <1>10, <1>11, <2>1
    <3>2. /\ p \in ToSet(e.fresh) /\ p \notin ToSet(e.waiting) /\ S \in e.matched
          /\ b.wish = e.wish /\ b.matched = e.matched /\ b.proposals = e.proposals
          /\ ToSet(b.fresh) = ToSet(e.fresh) \ {p}
          /\ ToSet(b.waiting) = ToSet(e.waiting)
      BY <1>4, <1>5, <1>8, <1>10, <1>11, <1>14
    <3> QED
      BY <1>3, <1>9, <1>11, <1>12, <3>1, <3>2, NewcomerSwallowed
  <2>3. CalledSince(g, old) \cap InLists(g) = {}
    BY <1>3, <1>14, <2>1 DEF InLists
  <2> QED
    BY <1>3, <1>6, <1>7, <1>8, <1>14, <2>1, <2>2, <2>3 DEF PlacedTo, n, seen, more, b, old
<1>15. CASE /\ Len(c) = GroupSize /\ \A q \in S : h.state[q] = "queued"
            /\ g.matched = h.matched \cup {S}
            /\ g.proposals = Append(h.proposals, [line |-> c, agreed |-> {}])
            /\ ToSet(g.fresh) = ToSet(h.fresh) \ S
            /\ ToSet(g.waiting) = ToSet(h.waiting) \ S
  <2> DEFINE one == [line |-> c, agreed |-> {}]
  <2>1. one \in Proposal /\ ToSet(one.line) = S
    BY <1>9 DEF Proposal, S
  <2>2. /\ CalledSince(g, old) = CalledSince(h, old) \cup S
        /\ Len(g.proposals) = Len(h.proposals) + 1
        /\ \A k \in 1..Len(h.proposals) : g.proposals[k] = h.proposals[k]
    <3>1. g.proposals = Append(h.proposals, one)
      BY <1>15
    <3>2. h \in Stores /\ g \in Stores /\ old \in Nat /\ Len(h.proposals) >= old
      BY <1>2, <1>3, <1>8
    <3> HIDE DEF one
    <3> QED
      BY <2>1, <3>1, <3>2, CalledSinceProperties
  <2>3. S \subseteq InLists(h) /\ S \cap CalledSince(h, old) = {} /\ InLists(h) = InLists(e)
    BY <1>3, <1>4, <1>9, <1>10 DEF InLists
  <2>4. StoresOK(b, st, dr)
    <3>1. \A q \in Players : b.state[q] = IF q \in S THEN "proposal" ELSE e.state[q]
      BY <1>8, <1>10, <1>11, <2>2
    <3>2. S \subseteq Players
      BY <1>9, SetOfSeq DEF S
    <3>3. \A q \in S : e.state[q] = "queued"
      BY <1>10, <1>15, <2>3, <3>2
    <3>4. /\ S \subseteq InLists(e)
          /\ b.wish = e.wish /\ b.matched = e.matched \cup {S}
          /\ b.proposals = Append(e.proposals, one)
          /\ ToSet(b.fresh) = ToSet(e.fresh) \ S
          /\ ToSet(b.waiting) = ToSet(e.waiting) \ S
      BY <1>8, <1>10, <1>11, <1>15, <2>3
    <3>5. /\ c \in Seq(Players) /\ IsInjective(c) /\ Len(c) = GroupSize
          /\ b \in Stores /\ Listed(b) /\ StoresOK(e, st, dr)
      BY <1>3, <1>9, <1>11, <1>12, <1>15
    <3>6. S = ToSet(c)
      BY DEF S
    <3> QED
      BY <3>1, <3>3, <3>4, <3>5, <3>6, GroupCalled
  <2>5. CalledSince(g, old) \cap InLists(g) = {}
    BY <1>3, <1>15, <2>2 DEF InLists
  <2>6. ToSet(g.fresh) = ToSet(h.fresh) \ {p}
    <3>1. ToSet(h.fresh) \cap S = {p}
      <4>1. ToSet(h.fresh) \cap seen = {}
        <5>1. \A j \in i + 1..n : \A k \in 1..i : j \in 1..n /\ k \in 1..n /\ j # k
          BY <1>2
        <5>2. \A j \in i + 1..n : f.fresh[j] \in ToSet(f.fresh)
          BY <1>2, <5>1
        <5> QED
          BY <1>2, <1>3, <5>1, <5>2 DEF seen
      <4> QED
        BY <1>3, <1>4, <1>9, <4>1
    <3> QED
      BY <1>15, <3>1
  <2>7. ToSet(g.waiting) \subseteq more /\ CalledSince(g, old) \subseteq more
    BY <1>3, <1>6, <1>9, <1>15, <2>2
  <2>8. /\ Len(g.proposals) >= old
        /\ \A k \in 1..old : g.proposals[k] = f.proposals[k]
    <3>1. Len(h.proposals) \in Nat
      BY <1>3, StoresFields
    <3> QED
      BY <1>2, <1>3, <2>2, <3>1
  <2> QED
    BY <1>3, <1>7, <1>8, <2>4, <2>5, <2>6, <2>7, <2>8 DEF PlacedTo, n, more, b, old
<1> QED
  BY <1>8, <1>13, <1>14, <1>15 DEF S, Placing

LEMMA NobodyPlaced ==
    ASSUME NEW f, NEW st, NEW dr, StoresOK(f, st, dr)
    PROVE  PlacedTo(f, f, 0, st, dr)
<1> DEFINE old == Len(f.proposals)
           e == AsCalled(f, old)
<1>1. f \in Stores /\ Listed(f) /\ f.fresh \in Seq(Players) /\ f.proposals \in Seq(Proposal)
  BY StoresParts, StoresFields
<1>2. old \in Nat /\ Len(f.fresh) \in Nat
  BY <1>1
<1> HIDE DEF old
<1>3. CalledSince(f, old) = {}
  <2>1. old + 1..old = {}
    BY <1>2
  <2> QED
    BY <2>1 DEF CalledSince, old
<1>4. e = f
  <2>1. /\ e \in Stores /\ e.wish = f.wish /\ e.fresh = f.fresh /\ e.waiting = f.waiting
        /\ e.matched = f.matched /\ e.proposals = f.proposals
        /\ \A q \in Players : e.state[q] = IF q \in CalledSince(f, old) THEN "proposal" ELSE f.state[q]
    BY <1>1, AsCalledProperties
  <2> HIDE DEF e
  <2>2. e.state = f.state
    <3>1. e.state \in [Players -> States] /\ f.state \in [Players -> States]
      BY <1>1, <2>1, StoresFields
    <3>2. \A q \in Players : e.state[q] = f.state[q]
      BY <1>3, <2>1
    <3> QED
      BY <3>1, <3>2
  <2>3. /\ e = [state |-> e.state, wish |-> e.wish, fresh |-> e.fresh,
                waiting |-> e.waiting, matched |-> e.matched, proposals |-> e.proposals]
        /\ f = [state |-> f.state, wish |-> f.wish, fresh |-> f.fresh,
                waiting |-> f.waiting, matched |-> f.matched, proposals |-> f.proposals]
    BY <1>1, <2>1, StoresFields
  <2> QED
    BY <2>1, <2>2, <2>3
<1>5. ToSet(f.fresh) = {f.fresh[j] : j \in 0 + 1..Len(f.fresh)}
  <2>1. 0 + 1 = 1
    OBVIOUS
  <2> QED
    BY <1>1, <2>1, SetOfSeq
<1>6. StoresOK(e, st, dr)
  BY <1>4
<1> QED
  BY <1>1, <1>2, <1>3, <1>5, <1>6 DEF PlacedTo, old

LEMMA FindGroupsOK ==
    ASSUME NEW f, NEW st, NEW dr, StoresOK(f, st, dr), ToSet(f.fresh) \cap ToSet(f.waiting) = {}
    PROVE  PlacedTo(FindGroups(f), f, Len(f.fresh), st, dr)
<1> DEFINE n == Len(f.fresh)
           step(i, c) == Place(c, f.fresh[i])
           Run(g, m) == g = [i \in 0..m |-> IF i = 0 THEN f ELSE step(i, g[i - 1])]
           T == {m \in 0..n : \E g : Run(g, m)}
<1>1. n \in Nat
  <2>1. f.fresh \in Seq(Players)
    BY StoresParts, StoresFields
  <2> QED
    BY <2>1
<1>2. \E g : Run(g, n)
  <2> HIDE DEF step, n
  <2>1. 0 \in T
    <3> DEFINE h == [i \in 0..0 |-> f]
    <3>1. Run(h, 0)
      OBVIOUS
    <3> HIDE DEF Run, h
    <3> QED
      BY <1>1, <3>1
  <2>2. ASSUME NEW m \in 0..n - 1, m \in T PROVE m + 1 \in T
    <3>1. PICK g : Run(g, m)
      BY <2>2
    <3> DEFINE h == [i \in 0..m + 1 |-> IF i <= m THEN g[i] ELSE step(m + 1, g[m])]
    <3>2. \A i \in 0..m + 1 : h[i] = IF i = 0 THEN f ELSE step(i, h[i - 1])
      BY <1>1, <3>1
    <3>3. Run(h, m + 1)
      BY <3>2
    <3> HIDE DEF h
    <3> QED
      BY <1>1, <3>3
  <2> HIDE DEF T
  <2>3. \A m \in 0..n : m \in T
    BY <1>1, <2>1, <2>2, Induction
  <2>4. n \in T
    BY <1>1, <2>3
  <2> HIDE DEF Run
  <2> QED
    BY <2>4 DEF T
<1>3. PICK g : Run(g, n) /\ FindGroups(f) = g[n]
  BY <1>2 DEF FindGroups
<1>4. g[0] = f /\ \A m \in 0..n - 1 : g[m + 1] = step(m + 1, g[m])
  <2>1. \A m \in 0..n - 1 : (m + 1) - 1 = m /\ m + 1 \in 0..n /\ m + 1 # 0
    BY <1>1
  <2> HIDE DEF step, n
  <2> QED
    BY <1>1, <1>3, <2>1
<1> HIDE DEF Run
<1> DEFINE U == {m \in 0..n : PlacedTo(g[m], f, m, st, dr)}
<1>5. 0 \in U
  <2>1. 0 \in 0..n /\ PlacedTo(g[0], f, 0, st, dr)
    BY <1>1, <1>4, NobodyPlaced
  <2> QED
    BY <2>1
<1>6. ASSUME NEW m \in 0..n - 1, m \in U PROVE m + 1 \in U
  <2>1. m + 1 \in 0..n
    BY <1>1
  <2>2. g[m + 1] = Place(g[m], f.fresh[m + 1])
    BY <1>4
  <2>3. PlacedTo(g[m], f, m, st, dr)
    BY <1>6
  <2>4. PlacedTo(g[m + 1], f, m + 1, st, dr)
    BY <2>2, <2>3, PlaceStep
  <2> QED
    BY <2>1, <2>4
<1> HIDE DEF U
<1>7. \A m \in 0..n : m \in U
  <2> HIDE DEF n
  <2> QED
    BY <1>1, <1>5, <1>6, Induction
<1> QED
  BY <1>1, <1>3, <1>7 DEF U

\* The matching of one update: it calls players from the queues.
LEMMA MatchedOK ==
    ASSUME NEW f, NEW st, NEW dr, StoresOK(f, st, dr), ToSet(f.fresh) \cap ToSet(f.waiting) = {},
           NEW e, e = AsCalled(FindGroups(f), Len(f.proposals))
    PROVE  /\ StoresOK(e, st, dr) /\ Keeps(e, f) /\ e.wish = f.wish
           /\ Len(e.proposals) >= Len(f.proposals)
           /\ \A k \in 1..Len(f.proposals) : e.proposals[k] = f.proposals[k]
           /\ \A q \in Players : e.state[q] \in {f.state[q], "proposal"}
<1> DEFINE g == FindGroups(f)
           old == Len(f.proposals)
           n == Len(f.fresh)
           seen == ToSet(f.waiting) \cup {f.fresh[j] : j \in 1..n}
<1>1. /\ f \in Stores /\ Outside(f) /\ f.fresh \in Seq(Players)
  BY StoresParts, StoresFields
<1>2. PlacedTo(g, f, n, st, dr)
  BY FindGroupsOK
<1>3. e = AsCalled(g, old)
  OBVIOUS
<1> HIDE DEF g, old, n
<1>4. /\ g \in Stores /\ g.state = f.state /\ g.wish = f.wish
      /\ Len(g.proposals) >= old
      /\ \A k \in 1..old : g.proposals[k] = f.proposals[k]
      /\ StoresOK(e, st, dr)
      /\ CalledSince(g, old) \subseteq seen
  BY <1>2, <1>3 DEF PlacedTo, old
<1>5. seen = InLists(f)
  BY <1>1, SetOfSeq DEF InLists, n
<1>6. /\ e.wish = g.wish /\ e.proposals = g.proposals
      /\ \A q \in Players : e.state[q] = IF q \in CalledSince(g, old) THEN "proposal" ELSE g.state[q]
  BY <1>3, <1>4, AsCalledProperties
<1>7. \A q \in Players : q \in CalledSince(g, old) => f.state[q] \notin {"none", "dungeon"}
  BY <1>1, <1>4, <1>5 DEF Outside
<1>8. Keeps(e, f)
  BY <1>4, <1>6, <1>7 DEF Keeps
<1> QED
  BY <1>4, <1>6, <1>8 DEF old

LEMMA UpdateUnfolded ==
    ASSUME NEW n, Update(n)
    PROVE  LET f == Expired(lfg, n)
           IN  /\ groups' = groups /\ party' = party /\ inWorld' = inWorld
               /\ \/ /\ ToSet(f.fresh) \cap ToSet(f.waiting) # {}
                     /\ fault' = "twice" /\ lfg' = lfg /\ dropped' = dropped /\ strayed' = strayed
                  \/ /\ ToSet(f.fresh) \cap ToSet(f.waiting) = {}
                     /\ Become(AsCalled(FindGroups(f), Len(f.proposals))) /\ fault' = fault
BY DEF Update, AsCalled, CalledSince

LEMMA UpdateStep == ASSUME IInv, NEW n \in 0..Len(lfg.proposals), Update(n) PROVE IInv'
<1> DEFINE f == Expired(lfg, n)
           e == AsCalled(FindGroups(f), Len(f.proposals))
<1>1. groups' = groups /\ party' = party /\ inWorld' = inWorld
  BY UpdateUnfolded
<1>2. StoresOK(lfg, strayed, dropped)
  BY IInvParts
<1>3. StoresOK(f, strayed, dropped) /\ Keeps(f, lfg)
  BY <1>2, ExpiredOK DEF ExpiredTo
<1>4. CASE fault' = "twice" /\ lfg' = lfg /\ dropped' = dropped /\ strayed' = strayed
  BY <1>1, <1>2, <1>4, IInvParts, GroupsAlone
<1>5. CASE ToSet(f.fresh) \cap ToSet(f.waiting) = {} /\ Become(e) /\ fault' = fault
  <2>1. e = AsCalled(FindGroups(f), Len(f.proposals))
    OBVIOUS
  <2> HIDE DEF f, e
  <2>2. StoresOK(e, strayed, dropped) /\ Keeps(e, f)
    BY <1>3, <1>5, <2>1, MatchedOK
  <2>3. /\ StoresOK(lfg', strayed', dropped') /\ lfg' = e
        /\ strayed' \subseteq strayed /\ dropped' \subseteq dropped
        /\ \A q \in strayed \ strayed' : lfg'.state[q] = "none"
    BY <1>5, <2>2, BecomeOK
  <2>4. Keeps(lfg', lfg)
    BY <1>3, <2>2, <2>3 DEF Keeps
  <2> QED
    BY <1>1, <1>5, <2>3, <2>4, IInvParts, GroupsAlone DEF Keeps
<1> QED
  BY <1>4, <1>5, UpdateUnfolded

THEOREM IInvStep == IInv /\ [Next]_vars => IInv'
<1> SUFFICES ASSUME IInv, [Next]_vars PROVE IInv'
  OBVIOUS
<1>1. CASE UNCHANGED vars
  <2>1. /\ lfg' = lfg /\ groups' = groups /\ party' = party /\ inWorld' = inWorld
        /\ dropped' = dropped /\ strayed' = strayed /\ fault' = fault
    BY <1>1 DEF vars
  <2> QED
    BY <2>1, IInvParts, GroupsAlone
<1>2. CASE \E p \in Players : \E dungeons \in (SUBSET Dungeons) \ {{}} : JoinLfg(p, dungeons)
  BY <1>2, JoinLfgStep
<1>3. CASE \E p \in Players : RefuseJoin(p)
  BY <1>3, RefuseJoinStep
<1>4. CASE \E p \in Players : LeaveQueue(p)
  BY <1>4, LeaveQueueStep
<1>5. CASE \E p \in Players : \E k \in DOMAIN lfg.proposals : Refuse(p, k)
  BY <1>5, RefuseStep
<1>6. CASE \E p \in Players : \E k \in DOMAIN lfg.proposals : Agree(p, k)
  BY <1>6, AgreeStep
<1>7. CASE \E p \in Players : \E k \in DOMAIN lfg.proposals : AgreeOffline(p, k)
  BY <1>7, AgreeOfflineStep
<1>8. CASE \E p \in Players : \E k \in DOMAIN lfg.proposals : FormGroup(p, k)
  BY <1>8, FormGroupStep
<1>9. CASE \E p \in Players : \E k \in DOMAIN lfg.proposals : FormGroupFromParty(p, k)
  <2>1. /\ lfg' = lfg /\ groups' = groups /\ party' = party /\ inWorld' = inWorld
        /\ dropped' = dropped /\ strayed' = strayed /\ fault' = "erased"
    BY <1>9 DEF FormGroupFromParty
  <2> QED
    BY <2>1, IInvParts, GroupsAlone
<1>10. CASE \E p \in Players : JoinParty(p)
  BY <1>10, JoinPartyStep
<1>11. CASE \E p \in Players : LeaveParty(p)
  BY <1>11, LeavePartyStep
<1>12. CASE \E p \in Players : DisbandParty(p)
  BY <1>12, DisbandPartyStep
<1>13. CASE \E p \in Players : LeaveMap(p)
  BY <1>13, LeaveMapStep
<1>14. CASE \E p \in Players : EnterMap(p)
  BY <1>14, EnterMapStep
<1>15. CASE \E p \in Players : Logout(p)
  BY <1>15, LogoutStep
<1>16. CASE \E p \in Players : \E S \in groups : LogoutFromGroup(p, S)
  BY <1>16, LogoutFromGroupStep
<1>17. CASE \E S \in groups : DisbandGroup(S)
  BY <1>17, DisbandGroupStep
<1>18. CASE \E n \in 0..Len(lfg.proposals) : Update(n)
  BY <1>18, UpdateStep
<1> QED
  BY <1>1, <1>2, <1>3, <1>4, <1>5, <1>6, <1>7, <1>8, <1>9, <1>10, <1>11, <1>12, <1>13,
     <1>14, <1>15, <1>16, <1>17, <1>18 DEF Next

\* The stores, the groups and the parties agree in every reachable state.
THEOREM IInvCorrect == Spec => []IInv
<1> QED
  BY InitIInv, IInvStep, PTL DEF Spec

-----------------------------------------------------------------------------
(* What follows from the invariant.                                        *)

LEMMA AtMostOne ==
    ASSUME NEW S, \A x, y \in S : x = y
    PROVE  Cardinality(S) = IF S = {} THEN 0 ELSE 1
<1>1. CASE S = {}
  BY <1>1, FS_EmptySet
<1>2. CASE S # {}
  <2>1. PICK x \in S : TRUE
    BY <1>2
  <2>2. S = {x}
    BY <2>1
  <2> QED
    BY <1>2, <2>2, FS_Singleton
<1> QED
  BY <1>1, <1>2

LEMMA ConcatOnce ==
    ASSUME NEW a \in Seq(Players), NEW b \in Seq(Players), IsInjective(a), IsInjective(b),
           NEW p, ~(p \in ToSet(a) /\ p \in ToSet(b)),
           NEW S, S = {i \in DOMAIN (a \o b) : (a \o b)[i] = p}
    PROVE  /\ S # {} <=> p \in ToSet(a) \/ p \in ToSet(b)
           /\ Cardinality(S) = IF p \in ToSet(a) \/ p \in ToSet(b) THEN 1 ELSE 0
<1> DEFINE r == a \o b
           m == Len(a)
           n == Len(b)
<1>1. /\ r \in Seq(Players) /\ Len(r) = m + n /\ m \in Nat /\ n \in Nat
      /\ \A i \in 1..m + n : r[i] = IF i <= m THEN a[i] ELSE b[i - m]
  BY ConcatProperties
<1>2. /\ ToSet(a) = {a[i] : i \in 1..m} /\ ToSet(b) = {b[i] : i \in 1..n}
      /\ DOMAIN r = 1..m + n
      /\ \A i, j \in 1..m : a[i] = a[j] => i = j
      /\ \A i, j \in 1..n : b[i] = b[j] => i = j
  BY <1>1, SetOfSeq
<1>3. S = {i \in 1..m + n : r[i] = p}
  BY <1>2
<1> HIDE DEF r, m, n
<1>4. \A i \in 1..m + n : i > m => i - m \in 1..n /\ r[i] = b[i - m]
  <2>1. \A i \in 1..m + n : i > m => i - m \in 1..n /\ ~(i <= m)
    BY <1>1
  <2> QED
    BY <1>1, <2>1
<1>5. \A i \in 1..m + n : i <= m => i \in 1..m /\ r[i] = a[i]
  BY <1>1
<1>6. S # {} => p \in ToSet(a) \/ p \in ToSet(b)
  <2>1. \A i \in 1..m + n : i <= m \/ i > m
    BY <1>1
  <2> QED
    BY <1>2, <1>3, <1>4, <1>5, <2>1
<1>7. p \in ToSet(a) => S # {}
  <2>1. \A i \in 1..m : i \in 1..m + n /\ r[i] = a[i]
    BY <1>1
  <2> QED
    BY <1>2, <1>3, <2>1
<1>8. p \in ToSet(b) => S # {}
  <2>1. \A i \in 1..n : i + m \in 1..m + n /\ r[i + m] = b[i]
    <3>1. \A i \in 1..n : i + m \in 1..m + n /\ ~(i + m <= m) /\ (i + m) - m = i
      BY <1>1
    <3> QED
      BY <1>1, <3>1
  <2> QED
    BY <1>2, <1>3, <2>1
<1>9. ASSUME NEW i \in S, NEW j \in S PROVE i = j
  <2>1. /\ i \in 1..m + n /\ j \in 1..m + n /\ r[i] = p /\ r[j] = p
        /\ i \in Nat /\ j \in Nat
    BY <1>1, <1>3
  <2>2. CASE i <= m /\ j <= m
    BY <1>2, <1>5, <2>1, <2>2
  <2>3. CASE i > m /\ j > m
    <3>1. i - m = j - m
      BY <1>2, <1>4, <2>1, <2>3
    <3> QED
      BY <1>1, <2>1, <3>1
  <2>4. ASSUME NEW x \in S, NEW y \in S, x <= m, y > m PROVE FALSE
    <3>1. x \in 1..m + n /\ y \in 1..m + n /\ r[x] = p /\ r[y] = p
      BY <1>3
    <3>2. p \in ToSet(a) /\ p \in ToSet(b)
      BY <1>2, <1>4, <1>5, <2>4, <3>1
    <3> QED
      BY <3>2
  <2>5. (i <= m \/ i > m) /\ (j <= m \/ j > m)
    BY <1>1, <2>1
  <2> QED
    BY <2>2, <2>3, <2>4, <2>5
<1>10. Cardinality(S) = IF S = {} THEN 0 ELSE 1
  BY <1>9, AtMostOne
<1> QED
  BY <1>6, <1>7, <1>8, <1>10

LEMMA TypeFollows == IInv => TypeOK
<1> SUFFICES ASSUME IInv PROVE TypeOK
  OBVIOUS
<1>1. /\ lfg \in Stores /\ Proposed(lfg)
      /\ lfg.state \in [Players -> States] /\ lfg.wish \in [Players -> SUBSET Dungeons]
      /\ lfg.fresh \in Seq(Players) /\ lfg.waiting \in Seq(Players)
      /\ lfg.matched \subseteq Rosters
  BY IInvParts, StoresParts, StoresFields
<1>2. ASSUME NEW k \in DOMAIN lfg.proposals
      PROVE  /\ lfg.proposals[k].line \in [1..GroupSize -> Players]
             /\ lfg.proposals[k].agreed \subseteq Line(lfg, k)
  <2>1. lfg.proposals[k].line \in Seq(Players) /\ Len(lfg.proposals[k].line) = GroupSize
    BY <1>1, LineOf DEF Proposed
  <2>2. lfg.proposals[k].line \in [1..GroupSize -> Players]
    BY <2>1
  <2> QED
    BY <1>1, <2>2 DEF Proposed
<1>3. groups \subseteq SUBSET Players
  BY IInvParts
<1>4. UNION {party, inWorld, dropped, strayed} \subseteq Players /\ fault \in {"no", "erased", "twice"}
  BY IInvParts
<1> QED
  BY <1>1, <1>2, <1>3, <1>4 DEF TypeOK

LEMMA PlacesFollow == IInv => PlacesExact
<1> SUFFICES ASSUME IInv PROVE PlacesExact
  OBVIOUS
<1>1. /\ lfg \in Stores /\ Listed(lfg) /\ Called(lfg)
      /\ Held(lfg, strayed, dropped) /\ Cached(lfg, strayed)
  BY IInvParts, StoresParts
<1>2. ASSUME NEW p \in Players \ strayed
      PROVE  /\ Cardinality(Queued(p)) =
                  IF lfg.state[p] = "queued" /\ p \notin dropped THEN 1 ELSE 0
             /\ Cardinality(ProposalsOf(lfg, p)) = IF lfg.state[p] = "proposal" THEN 1 ELSE 0
             /\ lfg.wish[p] # {} <=> Queued(p) # {} \/ ProposalsOf(lfg, p) # {}
  <2>1. /\ ~(p \in ToSet(lfg.fresh) /\ p \in ToSet(lfg.waiting))
        /\ p \in InLists(lfg) <=> lfg.state[p] = "queued" /\ p \notin dropped
        /\ (\E k \in DOMAIN lfg.proposals : p \in Line(lfg, k)) <=> lfg.state[p] = "proposal"
        /\ \A j, k \in DOMAIN lfg.proposals : p \in Line(lfg, j) /\ p \in Line(lfg, k) => j = k
        /\ lfg.wish[p] # {} <=> p \in InLists(lfg) \/ lfg.state[p] = "proposal"
    BY <1>1 DEF Held
  <2>2. /\ Queued(p) # {} <=> p \in InLists(lfg)
        /\ Cardinality(Queued(p)) = IF p \in InLists(lfg) THEN 1 ELSE 0
    <3>1. /\ lfg.fresh \in Seq(Players) /\ lfg.waiting \in Seq(Players)
          /\ IsInjective(lfg.fresh) /\ IsInjective(lfg.waiting)
      BY <1>1, StoresFields DEF Listed
    <3>2. Queued(p) = {i \in DOMAIN (lfg.fresh \o lfg.waiting) : (lfg.fresh \o lfg.waiting)[i] = p}
      BY DEF Queued, Lists
    <3>3. /\ Queued(p) # {} <=> p \in ToSet(lfg.fresh) \/ p \in ToSet(lfg.waiting)
          /\ Cardinality(Queued(p)) = IF p \in ToSet(lfg.fresh) \/ p \in ToSet(lfg.waiting) THEN 1 ELSE 0
      BY <2>1, <3>1, <3>2, ConcatOnce
    <3> QED
      BY <3>3 DEF InLists
  <2>3. /\ ProposalsOf(lfg, p) # {} <=> lfg.state[p] = "proposal"
        /\ \A j, k \in ProposalsOf(lfg, p) : j = k
    BY <2>1 DEF ProposalsOf
  <2>4. Cardinality(ProposalsOf(lfg, p)) = IF ProposalsOf(lfg, p) = {} THEN 0 ELSE 1
    BY <2>3, AtMostOne
  <2> QED
    BY <2>1, <2>2, <2>3, <2>4
<1>3. ASSUME NEW p \in Players
      PROVE  /\ lfg.state[p] = "proposal" => ProposalsOf(lfg, p) # {}
             /\ Cardinality({S \in groups : p \in S}) = IF lfg.state[p] = "dungeon" THEN 1 ELSE 0
  <2>1. lfg.state[p] = "proposal" => ProposalsOf(lfg, p) # {}
    BY <1>1 DEF Called, ProposalsOf
  <2> DEFINE G == {S \in groups : p \in S}
  <2>2. /\ \A S, T \in G : S = T
        /\ G # {} <=> lfg.state[p] = "dungeon"
    BY DEF IInv, GroupsOK
  <2> HIDE DEF G
  <2>3. Cardinality(G) = IF lfg.state[p] = "dungeon" THEN 1 ELSE 0
    BY <2>2, AtMostOne
  <2> QED
    BY <2>1, <2>3 DEF G
<1>4. /\ \A k \in DOMAIN lfg.proposals :
           Line(lfg, k) \cap strayed = {} => Line(lfg, k) \in lfg.matched
      /\ lfg.matched \subseteq {Line(lfg, k) : k \in DOMAIN lfg.proposals}
  BY <1>1 DEF Cached
<1> QED
  BY <1>2, <1>3, <1>4 DEF PlacesExact

\* The stores have the shape the operations rely on.
THEOREM TypeCorrect == Spec => []TypeOK
<1> QED
  BY IInvCorrect, TypeFollows, PTL

\* A player's state names the one place the finder holds the player in, and
\* the cache of matches is the live proposals.
THEOREM PlacesCorrect == Spec => []PlacesExact
<1> QED
  BY IInvCorrect, PlacesFollow, PTL

-----------------------------------------------------------------------------
(* How proposals end.                                                      *)

\* Nothing ends where the lines stay.
LEMMA NothingEnds ==
    ASSUME NEW f, NEW g, DOMAIN g.proposals = DOMAIN f.proposals,
           \A k \in DOMAIN f.proposals : Line(g, k) = Line(f, k)
    PROVE  \A k \in DOMAIN f.proposals : ~Ended(f, g, k)
BY DEF Ended

\* The proposals other than the k-th stay where it is taken out.
LEMMA OthersStay ==
    ASSUME NEW f, NEW g, NEW k, OthersOf(g.proposals, f.proposals, k),
           NEW n, n = Len(f.proposals), DOMAIN f.proposals = 1..n, DOMAIN g.proposals = 1..n - 1
    PROVE  \A j \in DOMAIN f.proposals : Ended(f, g, j) => j = k
<1>1. PICK up \in [1..n - 1 -> 1..n] :
        /\ \A i \in 1..n - 1 : up[i] # k /\ g.proposals[i] = f.proposals[up[i]]
        /\ \A j \in 1..n \ {k} : \E i \in 1..n - 1 : up[i] = j
  BY DEF OthersOf
<1>2. SUFFICES ASSUME NEW j \in 1..n, j # k PROVE \E i \in 1..n - 1 : Line(g, i) = Line(f, j)
  BY DEF Ended
<1>3. PICK i \in 1..n - 1 : up[i] = j
  BY <1>1, <1>2
<1>4. g.proposals[i] = f.proposals[j]
  BY <1>1, <1>3
<1> QED
  BY <1>4 DEF Line

\* Who is in proposal k, none of whose members has strayed, waits in it alone.
LEMMA InLine ==
    ASSUME NEW f, NEW st, NEW dr, StoresOK(f, st, dr), NEW k \in DOMAIN f.proposals,
           Line(f, k) \cap st = {}, NEW p \in Line(f, k)
    PROVE  /\ p \in Players \ st /\ f.state[p] = "proposal" /\ f.wish[p] # {}
           /\ \A j \in DOMAIN f.proposals : p \in Line(f, j) => j = k
<1>1. Held(f, st, dr) /\ Line(f, k) \subseteq Players
  BY StoresParts
<1> QED
  BY <1>1 DEF Held

\* One member ends a proposal: that one, and at nobody else's cost.
LEMMA RemovalCosts ==
    ASSUME NEW f, NEW st, NEW dr, StoresOK(f, st, dr), NEW k \in DOMAIN f.proposals,
           NEW q \in Line(f, k)
    PROVE  /\ \A j \in DOMAIN f.proposals : Ended(f, RemoveProposal(f, k, {q}), j) => j = k
           /\ Line(f, k) \cap st = {} => OnlyLosers(f, RemoveProposal(f, k, {q}), k, {q})
<1> DEFINE r == RemoveProposal(f, k, {q})
           L == Line(f, k)
           gone == Gone(f, k, {q})
           n == Len(f.proposals)
<1>1. f \in Stores /\ Listed(f) /\ Proposed(f) /\ L \subseteq Players
  BY StoresParts
<1>2. /\ r.proposals = RemoveAt(f.proposals, k)
      /\ \A p \in Players : r.state[p] =
           IF p \notin L THEN f.state[p]
           ELSE IF p \notin gone THEN "queued"
           ELSE IF f.state[p] = "dungeon" THEN "dungeon" ELSE "none"
      /\ \A p \in Players : r.wish[p] = IF p \in gone THEN {} ELSE f.wish[p]
  <2>1. /\ f \in Stores /\ Listed(f) /\ Proposed(f) /\ {q} \subseteq Line(f, k)
        /\ \A j \in DOMAIN f.proposals : Line(f, j) \subseteq Players
    BY StoresParts
  <2> QED
    BY <2>1, RemoveProposalProperties
<1>3. /\ n \in Nat /\ DOMAIN f.proposals = 1..n
      /\ DOMAIN r.proposals = 1..n - 1
      /\ OthersOf(r.proposals, f.proposals, k)
  <2>1. f \in Stores /\ r.proposals = RemoveAt(f.proposals, k)
    BY <1>1, <1>2
  <2> HIDE DEF r
  <2> QED
    BY <2>1, ProposalTakenOut
<1>4. gone = {q} \cup {p \in L : f.wish[p] = {}}
  BY DEF Gone
<1> HIDE DEF r, n, gone
<1>5. \A j \in DOMAIN f.proposals : Ended(f, r, j) => j = k
  <2>1. /\ OthersOf(r.proposals, f.proposals, k) /\ n = Len(f.proposals)
        /\ DOMAIN f.proposals = 1..n /\ DOMAIN r.proposals = 1..n - 1
    BY <1>3 DEF n
  <2> QED
    BY <2>1, OthersStay
<1>6. ASSUME L \cap st = {} PROVE OnlyLosers(f, r, k, {q})
  <2>1. \A p \in L : p \in Players /\ f.state[p] = "proposal" /\ f.wish[p] # {}
    BY <1>6, InLine
  <2>2. gone = {q}
    BY <1>4, <2>1
  <2>3. {p \in L : r.wish[p] # f.wish[p]} = {q}
    BY <1>2, <2>1, <2>2
  <2>4. r.state[q] = "none" /\ \A p \in L \ {q} : r.state[p] = "queued"
    BY <1>2, <2>1, <2>2
  <2> QED
    BY <2>3, <2>4 DEF OnlyLosers
<1> QED
  BY <1>5, <1>6 DEF r

\* Clearing players ends nothing.
LEMMA ClearEndsNothing ==
    ASSUME NEW f, NEW st, NEW dr, StoresOK(f, st, dr), NEW S
    PROVE  \A k \in DOMAIN f.proposals : ~Ended(f, ClearQueueState(f, S), k)
<1>1. f \in Stores /\ Listed(f)
  BY StoresParts
<1>2. ClearQueueState(f, S).proposals = f.proposals
  BY <1>1, ClearQueueStateProperties
<1> QED
  BY <1>2, SameLines, NothingEnds

\* Who leaves ends the own proposal only, and pays alone.
LEMMA LeaveCosts ==
    ASSUME NEW f, NEW st, NEW dr, StoresOK(f, st, dr), NEW p, NEW k \in DOMAIN f.proposals,
           Line(f, k) \cap st = {}
    PROVE  /\ p \in Line(f, k) => OnlyLosers(f, Leave(f, p), k, {p})
           /\ Ended(f, Leave(f, p), k) => p \in Line(f, k)
<1>1. f \in Stores
  BY StoresParts
<1>2. ASSUME f.state[p] = "proposal", ProposalsOf(f, p) # {}
      PROVE  /\ Leave(f, p) = RemoveProposal(f, Oldest(f, p), {p})
             /\ Oldest(f, p) \in DOMAIN f.proposals /\ p \in Line(f, Oldest(f, p))
  BY <1>1, <1>2, OldestProperties DEF Leave
<1>3. ASSUME p \in Line(f, k) PROVE OnlyLosers(f, Leave(f, p), k, {p})
  <2>1. /\ f.state[p] = "proposal"
        /\ \A j \in DOMAIN f.proposals : p \in Line(f, j) => j = k
    BY <1>3, InLine
  <2>2. ProposalsOf(f, p) # {}
    BY <1>3 DEF ProposalsOf
  <2>3. Leave(f, p) = RemoveProposal(f, k, {p})
    BY <1>2, <2>1, <2>2
  <2> QED
    BY <1>3, <2>3, RemovalCosts
<1>4. ASSUME Ended(f, Leave(f, p), k) PROVE p \in Line(f, k)
  <2>1. CASE f.state[p] = "queued"
    <3>1. Leave(f, p) = ClearQueueState(f, {p})
      BY <2>1 DEF Leave
    <3> QED
      BY <1>4, <3>1, ClearEndsNothing
  <2>2. CASE f.state[p] = "proposal" /\ ProposalsOf(f, p) # {}
    <3>1. k = Oldest(f, p)
      BY <1>2, <1>4, <2>2, RemovalCosts
    <3> QED
      BY <1>2, <2>2, <3>1
  <2>3. CASE f.state[p] # "queued" /\ ~(f.state[p] = "proposal" /\ ProposalsOf(f, p) # {})
    <3>1. Leave(f, p) = f
      BY <2>3 DEF Leave
    <3> QED
      BY <1>4, <3>1, NothingEnds
  <2> QED
    BY <2>1, <2>2, <2>3
<1> QED
  BY <1>3, <1>4

\* Deadlines: only the proposals past theirs end, and who had not agreed loses
\* the place.
LEMMA UpdateCosts ==
    ASSUME NEW f, NEW st, NEW dr, StoresOK(f, st, dr), NEW n \in 0..Len(f.proposals),
           NEW h, h = Expired(f, n), ToSet(h.fresh) \cap ToSet(h.waiting) = {},
           NEW e, e = AsCalled(FindGroups(h), Len(h.proposals)),
           NEW k \in DOMAIN f.proposals, Line(f, k) \cap st = {}, Ended(f, e, k)
    PROVE  /\ n \in k..Len(f.proposals)
           /\ OnlyLosers(f, e, k, Line(f, k) \ f.proposals[k].agreed)
<1> DEFINE len == Len(f.proposals)
<1>1. f \in Stores
  BY StoresParts
<1>2. len \in Nat /\ DOMAIN f.proposals = 1..len /\ n \in Nat /\ n <= len
  <2>1. f.proposals \in Seq(Proposal)
    BY <1>1, StoresFields
  <2> QED
    BY <2>1, SetOfSeq
<1>3. /\ StoresOK(h, st, dr)
      /\ Len(h.proposals) = len - n
      /\ \A j \in 1..len - n : h.proposals[j] = f.proposals[j + n]
      /\ \A p \in Players \ st : \A m \in 1..n :
           p \in Line(f, m) =>
             /\ p \in f.proposals[m].agreed => h.state[p] = "queued" /\ h.wish[p] = f.wish[p]
             /\ p \notin f.proposals[m].agreed => h.state[p] = "none" /\ h.wish[p] = {}
  <2>1. ExpiredTo(h, f, n, st, dr)
    BY ExpiredOK
  <2> QED
    BY <2>1 DEF ExpiredTo
<1>4. /\ StoresOK(e, st, dr) /\ Keeps(e, h) /\ e.wish = h.wish
      /\ Len(e.proposals) >= len - n
      /\ \A i \in 1..len - n : e.proposals[i] = h.proposals[i]
      /\ \A q \in Players : e.state[q] \in {h.state[q], "proposal"}
  <2> HIDE DEF len
  <2>1. /\ StoresOK(e, st, dr) /\ Keeps(e, h) /\ e.wish = h.wish
        /\ Len(e.proposals) >= Len(h.proposals)
        /\ \A i \in 1..Len(h.proposals) : e.proposals[i] = h.proposals[i]
        /\ \A q \in Players : e.state[q] \in {h.state[q], "proposal"}
    <3>1. StoresOK(h, st, dr)
      BY <1>3
    <3> QED
      BY <3>1, MatchedOK
  <2> QED
    BY <1>3, <2>1
<1>5. Len(e.proposals) \in Nat /\ DOMAIN e.proposals = 1..Len(e.proposals)
  <2>1. e.proposals \in Seq(Proposal)
    BY <1>4, StoresParts, StoresFields
  <2> QED
    BY <2>1, SetOfSeq
<1> HIDE DEF len
<1>6. k \in 1..len /\ \A j \in DOMAIN e.proposals : Line(e, j) # Line(f, k)
  BY <1>2 DEF Ended
<1>7. k \in 1..n
  <2>1. CASE k > n
    <3>1. /\ k - n \in 1..len - n /\ (k - n) + n = k
          /\ k - n \in 1..Len(e.proposals)
      BY <1>2, <1>4, <1>5, <2>1
    <3>2. e.proposals[k - n] = f.proposals[k]
      BY <1>3, <1>4, <3>1
    <3>3. Line(e, k - n) = Line(f, k)
      BY <3>2 DEF Line
    <3> QED
      BY <1>5, <1>6, <3>1, <3>3
  <2> QED
    BY <1>2, <2>1
<1>8. ASSUME NEW p \in Line(f, k)
      PROVE  /\ f.wish[p] # {} /\ p \in Players
             /\ p \in f.proposals[k].agreed => e.state[p] \in {"queued", "proposal"} /\ e.wish[p] = f.wish[p]
             /\ p \notin f.proposals[k].agreed => e.state[p] = "none" /\ e.wish[p] = {}
  <2>1. p \in Players \ st /\ f.wish[p] # {}
    BY InLine
  <2>2. /\ p \in f.proposals[k].agreed => h.state[p] = "queued" /\ h.wish[p] = f.wish[p]
        /\ p \notin f.proposals[k].agreed => h.state[p] = "none" /\ h.wish[p] = {}
    BY <1>3, <1>7, <2>1
  <2> QED
    BY <1>4, <2>1, <2>2 DEF Keeps
<1>9. {p \in Line(f, k) : e.wish[p] # f.wish[p]} = Line(f, k) \ f.proposals[k].agreed
  BY <1>8
<1>10. n \in k..Len(f.proposals)
  BY <1>2, <1>6, <1>7 DEF len
<1> QED
  BY <1>8, <1>9, <1>10 DEF OnlyLosers

\* Deadlines, in a step.
LEMMA UpdateEnds ==
    ASSUME IInv, NEW n \in 0..Len(lfg.proposals), Update(n),
           NEW k \in DOMAIN lfg.proposals, Ends(k)
    PROVE  /\ n \in k..Len(lfg.proposals)
           /\ OnlyLosers(lfg, lfg', k, Line(lfg, k) \ lfg.proposals[k].agreed)
<1> DEFINE f == Expired(lfg, n)
           e == AsCalled(FindGroups(f), Len(f.proposals))
<1>1. CASE lfg' = lfg
  BY <1>1, NothingEnds DEF Ends
<1>2. CASE ToSet(f.fresh) \cap ToSet(f.waiting) = {} /\ Become(e)
  <2>1. /\ f = Expired(lfg, n)
        /\ e = AsCalled(FindGroups(f), Len(f.proposals))
    OBVIOUS
  <2>2. StoresOK(lfg, strayed, dropped)
    BY IInvParts
  <2> HIDE DEF f, e
  <2>3. lfg' = e
    BY <1>2 DEF Become
  <2>4. Ended(lfg, e, k) /\ Line(lfg, k) \cap strayed = {}
    BY <2>3 DEF Ends
  <2> QED
    BY <1>2, <2>1, <2>2, <2>3, <2>4, UpdateCosts
<1> QED
  BY <1>1, <1>2, UpdateUnfolded

\* Whatever ends a proposal, only those pay who have to.
LEMMA CostsStep == ASSUME IInv, NEW k \in DOMAIN lfg.proposals, Ends(k) PROVE Costs(k)
<1> DEFINE L == Line(lfg, k)
<1>1. StoresOK(lfg, strayed, dropped) /\ L \subseteq Players /\ L \cap strayed = {}
  BY IInvParts, StoresParts DEF Ends
<1>2. ASSUME NEW p \in L, Breaks(p, k) PROVE OnlyLosers(lfg, lfg', k, {p})
  <2>1. CASE lfg' = RemoveProposal(lfg, k, {p})
    BY <1>1, <2>1, RemovalCosts
  <2>2. CASE lfg' = Leave(lfg, p)
    BY <1>1, <2>2, LeaveCosts
  <2> QED
    BY <1>2, <2>1, <2>2 DEF Breaks, Refuse, LeaveQueue, Logout, Become
<1>3. ASSUME NEW p \in L, AgreeOffline(p, k)
      PROVE  \E q \in L \ inWorld : OnlyLosers(lfg, lfg', k, {q})
  <2>1. PICK q \in L \ inWorld : lfg' = RemoveProposal(lfg, k, {q})
    BY <1>3 DEF AgreeOffline, Become
  <2>2. OnlyLosers(lfg, lfg', k, {q})
    BY <1>1, <2>1, RemovalCosts
  <2> QED
    BY <2>2
<1>4. ASSUME NEW n \in k..Len(lfg.proposals), Update(n)
      PROVE  OnlyLosers(lfg, lfg', k, L \ lfg.proposals[k].agreed)
  <2>1. k \in Nat /\ Len(lfg.proposals) \in Nat
    BY <1>1, StoresParts, LineOf, StoresFields, SetOfSeq
  <2>2. n \in 0..Len(lfg.proposals)
    BY <2>1
  <2> QED
    BY <1>4, <2>2, UpdateEnds
<1> QED
  BY <1>2, <1>3, <1>4 DEF Costs

\* Steps that leave the lines alone end no proposal.
LEMMA SameLinesEnd ==
    ASSUME lfg'.proposals = lfg.proposals, NEW k \in DOMAIN lfg.proposals
    PROVE  ~Ends(k)
<1>1. \A j \in DOMAIN lfg.proposals : Line(lfg', j) = Line(lfg, j)
  BY DEF Line
<1> QED
  BY <1>1, NothingEnds DEF Ends

LEMMA ClearEnds ==
    ASSUME IInv, NEW S, Become(ClearQueueState(lfg, S)), NEW k \in DOMAIN lfg.proposals
    PROVE  ~Ends(k)
<1>1. lfg' = ClearQueueState(lfg, S)
  BY DEF Become
<1> QED
  BY <1>1, IInvParts, ClearEndsNothing DEF Ends

\* One member alone takes a proposal out: it is the one that ends.
LEMMA RemovalEnds ==
    ASSUME IInv, NEW j \in DOMAIN lfg.proposals, NEW q \in Line(lfg, j),
           Become(RemoveProposal(lfg, j, {q})), NEW k \in DOMAIN lfg.proposals, Ends(k)
    PROVE  j = k
<1>1. lfg' = RemoveProposal(lfg, j, {q}) /\ Ended(lfg, lfg', k)
  BY DEF Become, Ends
<1> QED
  BY <1>1, IInvParts, RemovalCosts

LEMMA LeaveEnds ==
    ASSUME IInv, NEW p, Become(Leave(lfg, p)), NEW k \in DOMAIN lfg.proposals, Ends(k)
    PROVE  p \in Line(lfg, k)
<1>1. lfg' = Leave(lfg, p) /\ Ended(lfg, lfg', k) /\ Line(lfg, k) \cap strayed = {}
  BY DEF Become, Ends
<1> QED
  BY <1>1, IInvParts, LeaveCosts

\* Who is in a party, or queues or joins one now, is in no such proposal.
LEMMA PartyEnds ==
    ASSUME IInv, NEW p \in Players, Become(Leave(lfg, p)), p \in party \/ lfg.state[p] # "proposal",
           NEW k \in DOMAIN lfg.proposals
    PROVE  ~Ends(k)
<1> SUFFICES ASSUME Ends(k) PROVE FALSE
  OBVIOUS
<1>1. p \in Line(lfg, k) /\ Line(lfg, k) \cap strayed = {}
  BY LeaveEnds DEF Ends
<1>2. lfg.state[p] = "proposal" /\ p \notin strayed
  BY <1>1, IInvParts, InLine
<1>3. \A q \in party \ strayed : lfg.state[q] = "none"
  BY DEF IInv, PartyOK
<1> QED
  BY <1>2, <1>3

\* The whole group is made of one proposal; the others stay.
LEMMA FormGroupEnds ==
    ASSUME IInv, NEW p \in Players, NEW j \in DOMAIN lfg.proposals, FormGroup(p, j),
           NEW k \in DOMAIN lfg.proposals, Ends(k)
    PROVE  Line(lfg, k) \in groups'
<1> DEFINE n == Len(lfg.proposals)
<1>1. lfg \in Stores /\ Listed(lfg)
  BY IInvParts, StoresParts
<1>2. lfg'.proposals = RemoveAt(lfg.proposals, j) /\ Line(lfg, j) \in groups'
  <2>1. lfg' = Formed(lfg, j) /\ Line(lfg, j) \in groups'
    BY DEF FormGroup, Become, Formed
  <2> QED
    BY <1>1, <2>1, FormedProperties
<1>3. /\ n \in Nat /\ DOMAIN lfg.proposals = 1..n
      /\ OthersOf(lfg'.proposals, lfg.proposals, j) /\ DOMAIN lfg'.proposals = 1..n - 1
  BY <1>1, <1>2, ProposalTakenOut
<1>4. k = j
  BY <1>3, OthersStay DEF Ends
<1> QED
  BY <1>2, <1>4

LEMMA JoinLfgEnds ==
    ASSUME IInv, NEW p \in Players, NEW dungeons \in (SUBSET Dungeons) \ {{}}, JoinLfg(p, dungeons),
           NEW k \in DOMAIN lfg.proposals
    PROVE  ~Ends(k)
<1>1. lfg' = Joined(lfg, p, dungeons)
  BY DEF JoinLfg, Joined, Become
<1>2. lfg \in Stores /\ Listed(lfg) /\ Outside(lfg) /\ Held(lfg, strayed, dropped)
  BY IInvParts, StoresParts
<1>3. lfg'.proposals = lfg.proposals
  BY <1>1, <1>2, JoinedProperties
<1> QED
  BY <1>3, SameLinesEnd

LEMMA RefuseJoinEnds ==
    ASSUME IInv, NEW p \in Players, RefuseJoin(p), NEW k \in DOMAIN lfg.proposals
    PROVE  ~Ends(k)
<1>1. lfg' = RemoveFromQueue(lfg, {p})
  BY DEF RefuseJoin
<1>2. lfg \in Stores /\ Listed(lfg)
  BY IInvParts, StoresParts
<1>3. lfg'.proposals = lfg.proposals
  BY <1>1, <1>2, RemoveFromQueueProperties
<1> QED
  BY <1>3, SameLinesEnd

\* An answer that is not the last one changes no line.
LEMMA AgreeEnds ==
    ASSUME IInv, NEW p \in Players, NEW j \in DOMAIN lfg.proposals, Agree(p, j),
           NEW k \in DOMAIN lfg.proposals
    PROVE  ~Ends(k)
<1>1. lfg' = Agreed(lfg, p, j)
  BY DEF Agree, Agreed, Become
<1>2. lfg \in Stores
  BY IInvParts, StoresParts
<1>3. /\ DOMAIN lfg'.proposals = DOMAIN lfg.proposals
      /\ \A i \in DOMAIN lfg.proposals : lfg'.proposals[i].line = lfg.proposals[i].line
  <2>1. lfg'.proposals = [lfg.proposals EXCEPT ![j].agreed = @ \cup {p}]
    BY <1>1, <1>2 DEF Agreed, Stores
  <2> QED
    BY <2>1
<1>4. \A i \in DOMAIN lfg.proposals : Line(lfg', i) = Line(lfg, i)
  BY <1>3 DEF Line
<1> QED
  BY <1>3, <1>4, NothingEnds DEF Ends

LEMMA JoinPartyEnds ==
    ASSUME IInv, NEW p \in Players, JoinParty(p), NEW k \in DOMAIN lfg.proposals
    PROVE  ~Ends(k)
<1>1. CASE lfg.state[p] = "proposal"
  <2>1. lfg'.proposals = lfg.proposals
    BY <1>1 DEF JoinParty
  <2> QED
    BY <2>1, SameLinesEnd
<1>2. CASE lfg.state[p] # "proposal"
  BY <1>2, PartyEnds DEF JoinParty
<1> QED
  BY <1>1, <1>2

LEMMA EnterMapEnds ==
    ASSUME IInv, NEW p \in Players, EnterMap(p), NEW k \in DOMAIN lfg.proposals
    PROVE  ~Ends(k)
<1>1. CASE p \in party /\ Become(Leave(lfg, p))
  BY <1>1, PartyEnds
<1>2. CASE lfg' = lfg
  BY <1>2, SameLinesEnd
<1>3. CASE \E S \in groups : Become(ClearQueueState(lfg, S))
  BY <1>3, ClearEnds
<1> QED
  BY <1>1, <1>2, <1>3 DEF EnterMap

\* Nothing else ends a proposal than what OnlyRefusersLose names.
LEMMA CauseStep ==
    ASSUME IInv, [Next]_vars, NEW k \in DOMAIN lfg.proposals, Ends(k)
    PROVE  Caused(k)
<1>1. CASE UNCHANGED vars
  BY <1>1, SameLinesEnd DEF vars
<1>2. CASE \E p \in Players : \E dungeons \in (SUBSET Dungeons) \ {{}} : JoinLfg(p, dungeons)
  BY <1>2, JoinLfgEnds
<1>3. CASE \E p \in Players : RefuseJoin(p)
  BY <1>3, RefuseJoinEnds
<1>4. CASE \E p \in Players : LeaveQueue(p) \/ Logout(p)
  <2>1. PICK p \in Players : LeaveQueue(p) \/ Logout(p)
    BY <1>4
  <2>2. p \in Line(lfg, k)
    BY <2>1, LeaveEnds DEF LeaveQueue, Logout
  <2> QED
    BY <2>1, <2>2 DEF Caused, Breaks
<1>5. CASE \E p \in Players : \E j \in DOMAIN lfg.proposals : Refuse(p, j)
  <2>1. PICK p \in Players, j \in DOMAIN lfg.proposals : Refuse(p, j)
    BY <1>5
  <2>2. p \in Line(lfg, j) /\ j = k
    BY <2>1, RemovalEnds DEF Refuse, MayAnswer
  <2> QED
    BY <2>1, <2>2 DEF Caused, Breaks
<1>6. CASE \E p \in Players : \E j \in DOMAIN lfg.proposals : Agree(p, j)
  BY <1>6, AgreeEnds
<1>7. CASE \E p \in Players : \E j \in DOMAIN lfg.proposals : AgreeOffline(p, j)
  <2>1. PICK p \in Players, j \in DOMAIN lfg.proposals : AgreeOffline(p, j)
    BY <1>7
  <2>2. p \in Line(lfg, j) /\ j = k
    BY <2>1, RemovalEnds DEF AgreeOffline, MayAnswer
  <2> QED
    BY <2>1, <2>2 DEF Caused
<1>8. CASE \E p \in Players : \E j \in DOMAIN lfg.proposals : FormGroup(p, j)
  BY <1>8, FormGroupEnds DEF Caused
<1>9. CASE \E p \in Players : \E j \in DOMAIN lfg.proposals : FormGroupFromParty(p, j)
  BY <1>9, SameLinesEnd DEF FormGroupFromParty
<1>10. CASE \E p \in Players : JoinParty(p)
  BY <1>10, JoinPartyEnds
<1>11. CASE \E p \in Players : LeaveParty(p)
  BY <1>11, PartyEnds DEF LeaveParty
<1>12. CASE \E p \in Players : DisbandParty(p)
  BY <1>12, ClearEnds DEF DisbandParty
<1>13. CASE \E p \in Players : LeaveMap(p)
  BY <1>13, SameLinesEnd DEF LeaveMap
<1>14. CASE \E p \in Players : EnterMap(p)
  BY <1>14, EnterMapEnds
<1>15. CASE \E p \in Players : \E S \in groups : LogoutFromGroup(p, S)
  BY <1>15, ClearEnds DEF LogoutFromGroup
<1>16. CASE \E S \in groups : DisbandGroup(S)
  BY <1>16, ClearEnds DEF DisbandGroup
<1>17. CASE \E n \in 0..Len(lfg.proposals) : Update(n)
  BY <1>17, UpdateEnds DEF Caused
<1> QED
  BY <1>1, <1>2, <1>3, <1>4, <1>5, <1>6, <1>7, <1>8, <1>9, <1>10, <1>11, <1>12, <1>13,
     <1>14, <1>15, <1>16, <1>17 DEF Next

\* A proposal ends in a group, by one of its members or at its deadline; who
\* breaks it off loses the place alone, the deadline takes it from those who have
\* not agreed, and everybody else keeps it.
THEOREM OnlyRefusersCorrect == Spec => OnlyRefusersLose
<1>1. IInv /\ [Next]_vars =>
        [\A k \in DOMAIN lfg.proposals : Ends(k) => Costs(k) /\ Caused(k)]_vars
  BY CostsStep, CauseStep
<1> QED
  BY <1>1, IInvCorrect, PTL DEF Spec, OnlyRefusersLose

-----------------------------------------------------------------------------
(* Who is in a group is in no second one.                                  *)

\* Who still has queue data is in no group, and a group that lost a member is
\* no full one.
LEMMA NoSecondStep ==
    ASSUME IInv, [Next]_vars, NEW S \in groups' \ groups, Cardinality(S) = GroupSize
    PROVE  S \cap UNION groups = {}
<1>1. /\ \A T \in groups : IsFiniteSet(T) /\ Cardinality(T) <= GroupSize
      /\ \A q \in Players : lfg.state[q] = "dungeon" <=> \E T \in groups : q \in T
  BY DEF IInv, GroupsOK
<1>2. CASE \E p \in Players : \E k \in DOMAIN lfg.proposals : FormGroup(p, k)
  <2>1. PICK k \in DOMAIN lfg.proposals : Intact(k) /\ groups' = groups \cup {Line(lfg, k)}
    BY <1>2 DEF FormGroup
  <2>2. S = Line(lfg, k)
    BY <2>1
  <2>3. Outside(lfg) /\ Line(lfg, k) \subseteq Players
    BY IInvParts, StoresParts
  <2>4. \A q \in S : lfg.state[q] # "dungeon"
    BY <2>1, <2>2, <2>3 DEF Intact, Outside
  <2> QED
    BY <1>1, <2>2, <2>3, <2>4
<1>3. CASE \E p \in Players : \E T \in groups : LogoutFromGroup(p, T)
  <2>1. PICK p \in Players, T \in groups :
          p \in T /\ (groups' = (groups \ {T}) \cup {T \ {p}} \/ groups' = groups \ {T})
    BY <1>3 DEF LogoutFromGroup
  <2>2. S = T \ {p}
    BY <2>1
  <2>3. /\ Cardinality(S) = Cardinality(T) - 1
        /\ Cardinality(T) \in Nat /\ Cardinality(T) <= GroupSize /\ GroupSize \in Nat
    BY <1>1, <2>1, <2>2, FS_RemoveElement, FS_CardinalityType, SizeAssumption
  <2> QED
    BY <2>3
<1>4. CASE groups' \subseteq groups
  BY <1>4
<1>5. CASE \E p \in Players : EnterMap(p)
  <2>1. groups' \subseteq groups
    BY <1>5 DEF EnterMap
  <2> QED
    BY <2>1
<1>6. CASE \E T \in groups : DisbandGroup(T)
  <2>1. groups' \subseteq groups
    BY <1>6 DEF DisbandGroup
  <2> QED
    BY <2>1
<1>7. CASE \E n \in 0..Len(lfg.proposals) : Update(n)
  BY <1>7, UpdateUnfolded
<1>8. CASE /\ ~(\E p \in Players : \E k \in DOMAIN lfg.proposals : FormGroup(p, k))
           /\ ~(\E p \in Players : \E T \in groups : LogoutFromGroup(p, T))
           /\ ~(\E p \in Players : EnterMap(p))
           /\ ~(\E T \in groups : DisbandGroup(T))
           /\ ~(\E n \in 0..Len(lfg.proposals) : Update(n))
  <2>1. groups' = groups
    BY <1>8 DEF Next, vars, JoinLfg, RefuseJoin, LeaveQueue, Refuse, Agree, AgreeOffline,
       FormGroupFromParty, JoinParty, LeaveParty, DisbandParty, LeaveMap, Logout
  <2> QED
    BY <2>1
<1> QED
  BY <1>2, <1>3, <1>5, <1>6, <1>7, <1>8

\* Nobody is put into a second group while in one.
THEOREM NoSecondGroupCorrect == Spec => NoSecondGroup
<1>1. IInv /\ [Next]_vars => [\A S \in groups' \ groups : Cardinality(S) = GroupSize =>
                                S \cap UNION groups = {}]_vars
  BY NoSecondStep
<1> QED
  BY <1>1, IInvCorrect, PTL DEF Spec, NoSecondGroup


=============================================================================
