-------------------------- MODULE SessionQueueProofs --------------------------
(***************************************************************************)
(* For any accounts, limits and numbers of sessions: no container of World *)
(* holds a deleted session, the flags and positions of the login queue are *)
(* right, the player limit is kept to exactly, and no session is forgotten.*)
(*                                                                         *)
(* The argument: the line holds no session twice, so the free slots, which *)
(* the code derives from the sizes of m_sessions and m_QueuedPlayer, are   *)
(* those of the set Active; a call of RemoveQueuedPlayer lets in at most   *)
(* one session, and only into a slot that is free once s has gone.         *)
(***************************************************************************)
EXTENDS SessionQueue, SequenceTheorems, FiniteSetTheorems, TLAPS

Pending == ToSet(addSessQueue)

\* The network threads hand each session over once; until AddSession_ it is in
\* no other container and not in the queue.
PendingExact ==
    /\ IsInjective(addSessQueue)
    /\ Pending \subseteq Born
    /\ Pending \cap (Sessions \cup inQueue) = {}

\* A listed session is one that was created for this account.
ListedExact ==
    \A a \in Accounts : Listed(a) =>
        sessions[a] \in Born /\ account[sessions[a]] = a

\* The flags of queued sessions are set, also when KickAll has closed them.
FlagsCover == ToSet(queue) \subseteq inQueue /\ inQueue \subseteq Born

\* An update visits listed sessions only, and has found open those it has left
\* behind and not removed.
Visited ==
    /\ \A a \in todo : Listed(a)
    /\ phase = "updating" =>
           \A a \in Accounts \ todo : Listed(a) => sessions[a] \in seenOpen

IInv ==
    /\ TypeOK
    /\ PendingExact
    /\ ListedExact
    /\ FlagsCover
    /\ Visited
    /\ NoDanglingSession
    /\ QueueExact
    /\ LimitExact
    /\ ClosedSessionDeleted

-----------------------------------------------------------------------------
(* Sequences without repetition.                                           *)

\* The elements of a sequence are the values at its positions.
LEMMA SetOfSeq ==
    ASSUME NEW S, NEW q \in Seq(S)
    PROVE  /\ Len(q) \in Nat /\ DOMAIN q = 1..Len(q)
           /\ ToSet(q) = {q[i] : i \in 1..Len(q)}
           /\ ToSet(q) \subseteq S
           /\ IsInjective(q) <=> \A j, k \in 1..Len(q) : q[j] = q[k] => j = k
BY DEF ToSet, IsInjective

\* The length of a line is the number of sessions in it.
LEMMA LengthIsCardinality ==
    ASSUME NEW S, NEW q \in Seq(S), IsInjective(q)
    PROVE  IsFiniteSet(ToSet(q)) /\ Cardinality(ToSet(q)) = Len(q)
<1>1. Len(q) \in Nat /\ q \in [1..Len(q) -> ToSet(q)]
  BY SetOfSeq
<1>2. q \in Bijection(1..Len(q), ToSet(q))
  BY <1>1, SetOfSeq DEF Bijection, Injection, Surjection, IsInjective
<1>3. ExistsBijection(1..Len(q), ToSet(q))
  BY <1>2 DEF ExistsBijection
<1>4. IsFiniteSet(1..Len(q)) /\ Cardinality(1..Len(q)) = Len(q)
  BY <1>1, FS_Interval
<1> QED
  BY <1>3, <1>4, FS_Bijection

\* Taking out position k leaves the others in their order; past the end there
\* is nothing to take out.
LEMMA RemoveAtProperties ==
    ASSUME NEW S, NEW q \in Seq(S), NEW k \in 1..Len(q)
    PROVE  /\ RemoveAt(q, k) \in Seq(S)
           /\ Len(RemoveAt(q, k)) = Len(q) - 1
           /\ \A i \in 1..Len(q) - 1 :
                  RemoveAt(q, k)[i] = IF i < k THEN q[i] ELSE q[i + 1]
<1> DEFINE n == Len(q)
           a == SubSeq(q, 1, k - 1)
           b == SubSeq(q, k + 1, n)
<1>1. n \in Nat /\ k \in 1..n /\ \A i \in 1..n : q[i] \in S
  OBVIOUS
<1>2. a \in Seq(S) /\ Len(a) = k - 1 /\ \A i \in 1..k - 1 : a[i] = q[i]
  BY <1>1, SubSeqProperties
<1>3. b \in Seq(S) /\ Len(b) = n - k /\ \A i \in 1..n - k : b[i] = q[k + i]
  BY <1>1, SubSeqProperties
<1>4. RemoveAt(q, k) = a \o b
  BY DEF RemoveAt
<1>5. /\ a \o b \in Seq(S) /\ Len(a \o b) = Len(a) + Len(b)
      /\ \A i \in 1..Len(a) + Len(b) :
             (a \o b)[i] = IF i <= Len(a) THEN a[i] ELSE b[i - Len(a)]
  BY <1>2, <1>3, ConcatProperties
<1> HIDE DEF n, a, b
<1>6. ASSUME NEW i \in 1..n - 1
      PROVE  (a \o b)[i] = IF i < k THEN q[i] ELSE q[i + 1]
  <2>1. CASE i < k
    BY <1>1, <1>2, <1>3, <1>5, <2>1
  <2>2. CASE ~(i < k)
    <3>1. i - (k - 1) \in 1..n - k /\ ~(i <= k - 1) /\ k + (i - (k - 1)) = i + 1
      BY <1>1, <2>2
    <3> QED
      BY <1>1, <1>2, <1>3, <1>5, <2>2, <3>1
  <2> QED
    BY <2>1, <2>2
<1> QED
  BY <1>1, <1>2, <1>3, <1>4, <1>5, <1>6 DEF n

LEMMA RemoveAtEnd ==
    ASSUME NEW S, NEW q \in Seq(S)
    PROVE  RemoveAt(q, Len(q) + 1) = q
<1>1. SubSeq(q, 1, (Len(q) + 1) - 1) = q
  BY SubSeqFull
<1>2. SubSeq(q, (Len(q) + 1) + 1, Len(q)) = << >>
  BY SubSeqEmpty
<1> QED
  BY <1>1, <1>2, ConcatEmptySeq DEF RemoveAt

LEMMA RemoveAtInjective ==
    ASSUME NEW S, NEW q \in Seq(S), IsInjective(q), NEW k \in 1..Len(q)
    PROVE  /\ IsInjective(RemoveAt(q, k))
           /\ ToSet(RemoveAt(q, k)) = ToSet(q) \ {q[k]}
<1> DEFINE r == RemoveAt(q, k)
           n == Len(q)
<1>1. /\ r \in Seq(S) /\ Len(r) = n - 1 /\ n \in Nat /\ k \in 1..n
      /\ \A i \in 1..n - 1 : r[i] = IF i < k THEN q[i] ELSE q[i + 1]
  <2>1. n \in Nat
    BY SetOfSeq
  <2> QED
    BY <2>1, RemoveAtProperties
<1>2. \A i, j \in 1..n : q[i] = q[j] => i = j
  BY SetOfSeq
<1>3. ToSet(q) = {q[i] : i \in 1..n} /\ ToSet(r) = {r[i] : i \in 1..n - 1}
  BY <1>1, SetOfSeq
<1> HIDE DEF n, r
<1>4. \A i, j \in 1..n - 1 : r[i] = r[j] => i = j
  BY <1>1, <1>2
<1>5. ASSUME NEW i \in 1..n, i # k PROVE \E j \in 1..n - 1 : r[j] = q[i]
  <2>1. CASE i < k
    BY <1>1, <2>1
  <2>2. CASE i > k
    <3>1. i - 1 \in 1..n - 1 /\ ~(i - 1 < k) /\ (i - 1) + 1 = i
      BY <1>1, <2>2
    <3> QED
      BY <1>1, <3>1
  <2> QED
    BY <1>1, <1>5, <2>1, <2>2
<1>6. \A i \in 1..n - 1 : \E j \in 1..n : j # k /\ r[i] = q[j]
  BY <1>1
<1>7. ToSet(r) = ToSet(q) \ {q[k]}
  <2>1. ASSUME NEW x \in ToSet(r) PROVE x \in ToSet(q) \ {q[k]}
    <3>1. PICK i \in 1..n - 1 : x = r[i]
      BY <1>3
    <3>2. PICK j \in 1..n : j # k /\ x = q[j]
      BY <1>6, <3>1
    <3> QED
      BY <1>1, <1>2, <1>3, <3>2
  <2>2. ASSUME NEW x \in ToSet(q) \ {q[k]} PROVE x \in ToSet(r)
    <3>1. PICK i \in 1..n : x = q[i] /\ i # k
      BY <1>3
    <3> QED
      BY <1>3, <1>5, <3>1
  <2> QED
    BY <2>1, <2>2
<1>8. IsInjective(r)
  BY <1>1, <1>4, SetOfSeq
<1> QED
  BY <1>7, <1>8 DEF r

LEMMA TailInjective ==
    ASSUME NEW S, NEW q \in Seq(S), IsInjective(q), q # << >>
    PROVE  /\ Tail(q) \in Seq(S) /\ Len(Tail(q)) = Len(q) - 1
           /\ Head(q) = q[1] /\ Head(q) \in ToSet(q) /\ Len(q) \in Nat \ {0}
           /\ \A i \in 1..Len(q) - 1 : Tail(q)[i] = q[i + 1]
           /\ IsInjective(Tail(q))
           /\ ToSet(Tail(q)) = ToSet(q) \ {Head(q)}
<1> DEFINE r == Tail(q)
           n == Len(q)
<1>1. /\ r \in Seq(S) /\ Len(r) = n - 1 /\ n \in Nat \ {0} /\ Head(q) = q[1]
      /\ \A i \in 1..n - 1 : r[i] = q[i + 1]
  BY HeadTailProperties, EmptySeq
<1>2. \A i, j \in 1..n : q[i] = q[j] => i = j
  BY SetOfSeq
<1> HIDE DEF r
<1>3. ToSet(q) = {q[i] : i \in 1..n} /\ ToSet(r) = {r[i] : i \in 1..n - 1}
  BY <1>1, SetOfSeq
<1> HIDE DEF n
<1>4. \A i, j \in 1..n - 1 : r[i] = r[j] => i = j
  BY <1>1, <1>2
<1>5. ASSUME NEW i \in 1..n, i # 1 PROVE \E j \in 1..n - 1 : r[j] = q[i]
  <2>1. i - 1 \in 1..n - 1 /\ (i - 1) + 1 = i
    BY <1>1, <1>5
  <2> QED
    BY <1>1, <2>1
<1>6. \A i \in 1..n - 1 : \E j \in 1..n : j # 1 /\ r[i] = q[j]
  BY <1>1
<1>7. ToSet(r) = ToSet(q) \ {q[1]} /\ q[1] \in ToSet(q)
  <2>1. ASSUME NEW x \in ToSet(r) PROVE x \in ToSet(q) \ {q[1]}
    BY <1>1, <1>2, <1>3, <1>6
  <2>2. ASSUME NEW x \in ToSet(q) \ {q[1]} PROVE x \in ToSet(r)
    <3>1. PICK i \in 1..n : x = q[i] /\ i # 1
      BY <1>3
    <3> QED
      BY <1>3, <1>5, <3>1
  <2>3. 1 \in 1..n
    BY <1>1
  <2> QED
    BY <1>3, <2>1, <2>2, <2>3
<1>8. IsInjective(r)
  BY <1>1, <1>4, SetOfSeq
<1> QED
  BY <1>1, <1>7, <1>8 DEF r, n

LEMMA AppendInjectiveSeq ==
    ASSUME NEW S, NEW q \in Seq(S), IsInjective(q), NEW x \in S, x \notin ToSet(q)
    PROVE  /\ Append(q, x) \in Seq(S) /\ Len(Append(q, x)) = Len(q) + 1
           /\ \A i \in 1..Len(q) : Append(q, x)[i] = q[i]
           /\ Append(q, x)[Len(q) + 1] = x
           /\ IsInjective(Append(q, x))
           /\ ToSet(Append(q, x)) = ToSet(q) \cup {x}
<1> DEFINE r == Append(q, x)
           n == Len(q)
<1>1. /\ r \in Seq(S) /\ Len(r) = n + 1 /\ n \in Nat /\ r[n + 1] = x
      /\ \A i \in 1..n : r[i] = q[i]
  BY AppendProperties
<1>2. \A i, j \in 1..n : q[i] = q[j] => i = j
  BY SetOfSeq
<1>3. ToSet(q) = {q[i] : i \in 1..n} /\ ToSet(r) = {r[i] : i \in 1..n + 1}
  BY <1>1, SetOfSeq
<1> HIDE DEF n, r
<1>4. 1..n + 1 = 1..n \cup {n + 1}
  BY <1>1
<1>5. \A i, j \in 1..n + 1 : r[i] = r[j] => i = j
  BY <1>1, <1>2, <1>3, <1>4
<1>6. ToSet(r) = ToSet(q) \cup {x}
  BY <1>1, <1>3, <1>4
<1>7. IsInjective(r)
  BY <1>1, <1>5, SetOfSeq
<1> QED
  BY <1>1, <1>6, <1>7 DEF r, n

-----------------------------------------------------------------------------
(* The login queue.                                                        *)

\* A login queue w: nobody stands in line twice, who stands in line is flagged,
\* and was last told where.
LineOK(w) ==
    /\ w \in [line : Seq(Ids), flagged : SUBSET Ids, told : [Ids -> 0..MaxSessions]]
    /\ IsInjective(w.line)
    /\ ToSet(w.line) \subseteq w.flagged
    /\ \A k \in 1..Len(w.line) : w.told[w.line[k]] = k

\* What RemoveQueuedPlayer makes of the queue w when s leaves: r, with one
\* session h let in if there is one and a slot is free.
Leaves(w, n, s, r) ==
    LET rest  == ToSet(w.line) \ {s}
        flags == IF s \in ToSet(w.line) THEN w.flagged \ {s} ELSE w.flagged
    IN  \/ /\ rest = {} \/ ~SlotFree(SlotsUsed(w, n, s))
           /\ ToSet(r.line) = rest /\ r.flagged = flags
        \/ /\ SlotFree(SlotsUsed(w, n, s))
           /\ \E h \in rest : ToSet(r.line) = rest \ {h} /\ r.flagged = flags \ {h}

LEMMA LeavesShrinks ==
    ASSUME NEW w, NEW n, NEW s, NEW r, Leaves(w, n, s, r)
    PROVE  /\ ToSet(r.line) \subseteq ToSet(w.line) \ {s}
           /\ r.flagged \subseteq w.flagged
BY DEF Leaves

LEMMA LeavesAgrees ==
    ASSUME NEW w, NEW n, NEW s, NEW r, Leaves(w, n, s, r), NEW x, x # s,
           x \in w.flagged <=> x \in ToSet(w.line)
    PROVE  x \in r.flagged <=> x \in ToSet(r.line)
BY DEF Leaves

LEMMA LineBound ==
    ASSUME NEW q \in Seq(Ids), IsInjective(q)
    PROVE  Len(q) \in 0..MaxSessions
<1>1. IsFiniteSet(Ids) /\ Cardinality(Ids) = MaxSessions
  BY FS_Interval, SessionQueueAssumption DEF Ids
<1>2. ToSet(q) \subseteq Ids /\ Len(q) \in Nat
  BY SetOfSeq
<1>3. Cardinality(ToSet(q)) <= Cardinality(Ids) /\ Cardinality(ToSet(q)) = Len(q)
  BY <1>1, <1>2, FS_Subset, LengthIsCardinality
<1> QED
  BY <1>1, <1>2, <1>3, SessionQueueAssumption

\* The position found for the session at position k is k.
LEMMA PositionIs ==
    ASSUME NEW q \in Seq(Ids), IsInjective(q), NEW k \in 1..Len(q)
    PROVE  Position(q, q[k]) = k
BY SetOfSeq DEF Position

\* SendPositions tells the clients from position k on where they stand.
LEMMA SendPositionsProperties ==
    ASSUME NEW w, w.told \in [Ids -> 0..MaxSessions],
           NEW q \in Seq(Ids), IsInjective(q), NEW k \in Nat
    PROVE  /\ SendPositions(w, q, k) \in [Ids -> 0..MaxSessions]
           /\ \A i \in 1..Len(q) : SendPositions(w, q, k)[q[i]] =
                  IF i >= k THEN i ELSE w.told[q[i]]
<1> DEFINE r == SendPositions(w, q, k)
<1>1. Len(q) \in 0..MaxSessions /\ ToSet(q) = {q[i] : i \in 1..Len(q)}
  BY LineBound, SetOfSeq
<1>2. r = [s \in Ids |->
              IF s \in ToSet(q) /\ Position(q, s) >= k THEN Position(q, s) ELSE w.told[s]]
  BY DEF SendPositions
<1>3. \A s \in ToSet(q) : Position(q, s) \in 1..Len(q)
  BY <1>1, PositionIs
<1>4. \A s \in ToSet(q) : Position(q, s) \in 0..MaxSessions
  BY <1>1, <1>3, SessionQueueAssumption
<1>5. r \in [Ids -> 0..MaxSessions]
  BY <1>2, <1>4
<1>6. ASSUME NEW i \in 1..Len(q)
      PROVE  r[q[i]] = IF i >= k THEN i ELSE w.told[q[i]]
  BY <1>1, <1>2, PositionIs
<1> QED
  BY <1>5, <1>6

\* s is let in from the front of q.
LEMMA AcceptFirstProperties ==
    ASSUME NEW w \in [line : Seq(Ids), flagged : SUBSET Ids, told : [Ids -> 0..MaxSessions]],
           NEW q \in Seq(Ids), IsInjective(q), q # << >>, ToSet(q) \subseteq w.flagged, NEW from
    PROVE  /\ LineOK(AcceptFirst(w, q, from))
           /\ ToSet(AcceptFirst(w, q, from).line) = ToSet(q) \ {Head(q)}
           /\ AcceptFirst(w, q, from).flagged = w.flagged \ {Head(q)}
           /\ Head(q) \in ToSet(q)
<1> DEFINE r == AcceptFirst(w, q, from)
           t == SendPositions(w, Tail(q), 1)
<1>1. /\ Tail(q) \in Seq(Ids) /\ IsInjective(Tail(q)) /\ Head(q) \in ToSet(q)
      /\ ToSet(Tail(q)) = ToSet(q) \ {Head(q)} /\ Len(Tail(q)) \in Nat
  BY TailInjective, SetOfSeq
<1>2. /\ t \in [Ids -> 0..MaxSessions]
      /\ \A i \in 1..Len(Tail(q)) : t[Tail(q)[i]] = i
  <2>1. \A i \in 1..Len(Tail(q)) : i >= 1
    OBVIOUS
  <2> QED
    BY <1>1, <2>1, SendPositionsProperties
<1> HIDE DEF t
<1>3. r = [line |-> Tail(q), flagged |-> w.flagged \ {Head(q)},
           told |-> [t EXCEPT ![Head(q)] = 0]]
  BY DEF AcceptFirst, t
<1>4. Head(q) \in Ids /\ 0 \in 0..MaxSessions
  BY <1>1, SetOfSeq, SessionQueueAssumption
<1>5. \A i \in 1..Len(Tail(q)) : Tail(q)[i] \in ToSet(Tail(q)) /\ Tail(q)[i] \in Ids
  <2> DEFINE u == Tail(q)
  <2>1. u \in Seq(Ids)
    BY <1>1
  <2> HIDE DEF u
  <2>2. \A i \in 1..Len(u) : u[i] \in ToSet(u) /\ u[i] \in Ids
    BY <2>1, SetOfSeq
  <2> QED
    BY <2>2 DEF u
<1>6. \A i \in 1..Len(Tail(q)) : [t EXCEPT ![Head(q)] = 0][Tail(q)[i]] = i
  BY <1>1, <1>2, <1>4, <1>5
<1>7. [t EXCEPT ![Head(q)] = 0] \in [Ids -> 0..MaxSessions]
  BY <1>2, <1>4
<1> QED
  BY <1>1, <1>3, <1>6, <1>7 DEF LineOK

\* RemoveQueuedPlayer keeps the queue right and lets in at most one session.
LEMMA RemoveQueuedPlayerLeaves ==
    ASSUME NEW w, LineOK(w), NEW s \in Ids, NEW n
    PROVE  /\ LineOK(RemoveQueuedPlayer(w, n, s))
           /\ Leaves(w, n, s, RemoveQueuedPlayer(w, n, s))
<1> DEFINE line  == w.line
           found == s \in ToSet(line)
           from  == IF found THEN Position(line, s) ELSE Len(line) + 1
           q     == RemoveAt(line, from)
           left  == [w EXCEPT !.flagged = IF found THEN @ \ {s} ELSE @]
           r     == RemoveQueuedPlayer(w, n, s)
           free  == SlotFree(SlotsUsed(w, n, s))
           told1 == SendPositions(left, q, from)
<1>1. /\ w \in [line : Seq(Ids), flagged : SUBSET Ids, told : [Ids -> 0..MaxSessions]]
      /\ line \in Seq(Ids) /\ IsInjective(line) /\ ToSet(line) \subseteq w.flagged
      /\ \A k \in 1..Len(line) : w.told[line[k]] = k
  BY DEF LineOK
<1>2. /\ left = [line |-> line, told |-> w.told,
                 flagged |-> IF found THEN w.flagged \ {s} ELSE w.flagged]
      /\ left \in [line : Seq(Ids), flagged : SUBSET Ids, told : [Ids -> 0..MaxSessions]]
  <2> DEFINE flags == IF found THEN w.flagged \ {s} ELSE w.flagged
  <2>1. flags \in SUBSET Ids
    BY <1>1
  <2>2. left = [w EXCEPT !.flagged = flags]
    OBVIOUS
  <2> HIDE DEF flags
  <2>3. /\ left = [line |-> line, told |-> w.told, flagged |-> flags]
        /\ line \in Seq(Ids) /\ w.told \in [Ids -> 0..MaxSessions]
    BY <1>1, <2>2
  <2>4. [line |-> line, told |-> w.told, flagged |-> flags]
            \in [line : Seq(Ids), flagged : SUBSET Ids, told : [Ids -> 0..MaxSessions]]
    BY <2>1, <2>3
  <2> QED
    BY <2>3, <2>4 DEF flags
<1>3. r = IF free /\ q # << >> THEN AcceptFirst(left, q, from)
          ELSE [left EXCEPT !.line = q, !.told = told1]
  BY DEF RemoveQueuedPlayer
<1>4. /\ q \in Seq(Ids) /\ IsInjective(q) /\ ToSet(q) = ToSet(line) \ {s}
      /\ from \in Nat /\ Len(line) \in Nat
      /\ \A i \in 1..Len(q) : i < from => q[i] = line[i] /\ i \in 1..Len(line)
  <2>1. CASE found
    <3>1. PICK k \in 1..Len(line) : line[k] = s
      BY <1>1, <2>1, SetOfSeq
    <3>2. from = k
      BY <1>1, <2>1, <3>1, PositionIs
    <3>3. Len(line) \in Nat
      BY <1>1, SetOfSeq
    <3> HIDE DEF line, from
    <3>4. /\ q \in Seq(Ids) /\ IsInjective(q) /\ ToSet(q) = ToSet(line) \ {s}
          /\ Len(q) = Len(line) - 1
          /\ \A i \in 1..Len(line) - 1 : q[i] = IF i < k THEN line[i] ELSE line[i + 1]
      BY <1>1, <3>1, <3>2, RemoveAtProperties, RemoveAtInjective
    <3> QED
      BY <3>2, <3>3, <3>4
  <2>2. CASE ~found
    <3>1. from = Len(line) + 1 /\ Len(line) \in Nat
      BY <1>1, <2>2, SetOfSeq
    <3>2. q = line
      BY <1>1, <3>1, RemoveAtEnd
    <3> QED
      BY <1>1, <2>2, <3>1, <3>2
  <2> QED
    BY <2>1, <2>2
<1>5. Len(q) \in Nat /\ \A i \in 1..Len(q) : q[i] \in ToSet(q) /\ q[i] \in Ids
  BY <1>4, SetOfSeq
<1> HIDE DEF from, q, free, left
<1>6. ToSet(q) \subseteq left.flagged
  BY <1>1, <1>2, <1>4
<1>7. CASE free /\ q # << >>
  <2>1. r = AcceptFirst(left, q, from)
    BY <1>3, <1>7
  <2>2. /\ LineOK(AcceptFirst(left, q, from))
        /\ ToSet(AcceptFirst(left, q, from).line) = ToSet(q) \ {Head(q)}
        /\ AcceptFirst(left, q, from).flagged = left.flagged \ {Head(q)}
        /\ Head(q) \in ToSet(q)
    BY <1>2, <1>4, <1>6, <1>7, AcceptFirstProperties
  <2> HIDE DEF r
  <2>3. Leaves(w, n, s, r)
    BY <1>2, <1>4, <1>7, <2>1, <2>2 DEF Leaves, free
  <2> QED
    BY <2>1, <2>2, <2>3 DEF r
<1>8. CASE ~(free /\ q # << >>)
  <2>1. /\ told1 \in [Ids -> 0..MaxSessions]
        /\ \A i \in 1..Len(q) : told1[q[i]] = IF i >= from THEN i ELSE left.told[q[i]]
    <3>1. left.told \in [Ids -> 0..MaxSessions]
      BY <1>2
    <3>2. q \in Seq(Ids) /\ IsInjective(q) /\ from \in Nat
      BY <1>4
    <3> QED
      BY <3>1, <3>2, SendPositionsProperties
  <2>2. r = [left EXCEPT !.line = q, !.told = told1]
    BY <1>3, <1>8
  <2> HIDE DEF told1, r
  <2>3. \A i \in 1..Len(q) : told1[q[i]] = i
    <3>1. \A i \in 1..Len(q) : i < from => w.told[q[i]] = i
      BY <1>1, <1>4
    <3>2. left.told = w.told
      BY <1>2
    <3> QED
      BY <1>4, <1>5, <2>1, <3>1, <3>2
  <2>4. /\ r \in [line : Seq(Ids), flagged : SUBSET Ids, told : [Ids -> 0..MaxSessions]]
        /\ r.line = q /\ r.flagged = left.flagged /\ r.told = told1
    BY <1>2, <1>4, <2>1, <2>2
  <2>5. LineOK(r)
    BY <1>4, <1>6, <2>3, <2>4 DEF LineOK
  <2>6. free => ToSet(line) \ {s} = {}
    <3>1. q = << >> => Len(q) = 0
      OBVIOUS
    <3>2. q = << >> => ToSet(q) = {}
      <4>1. \A x \in ToSet(q) : \E i \in 1..Len(q) : x = q[i]
        BY <1>4, SetOfSeq
      <4> QED
        BY <3>1, <4>1
    <3> QED
      BY <1>4, <1>8, <3>2
  <2>7. Leaves(w, n, s, r)
    BY <1>2, <1>4, <2>4, <2>6 DEF Leaves, free
  <2> QED
    BY <2>5, <2>7 DEF r
<1> QED
  BY <1>7, <1>8

LEMMA AddQueuedPlayerProperties ==
    ASSUME NEW w, LineOK(w), NEW s \in Ids \ ToSet(w.line)
    PROVE  /\ LineOK(AddQueuedPlayer(w, s))
           /\ ToSet(AddQueuedPlayer(w, s).line) = ToSet(w.line) \cup {s}
           /\ AddQueuedPlayer(w, s).flagged = w.flagged \cup {s}
<1> DEFINE line == w.line
           long == Append(line, s)
           t    == [w.told EXCEPT ![s] = Len(line) + 1]
<1>1. /\ line \in Seq(Ids) /\ IsInjective(line) /\ ToSet(line) \subseteq w.flagged
      /\ w.flagged \subseteq Ids /\ w.told \in [Ids -> 0..MaxSessions]
      /\ \A k \in 1..Len(line) : w.told[line[k]] = k
  BY DEF LineOK
<1>2. AddQueuedPlayer(w, s) = [line |-> long, flagged |-> w.flagged \cup {s}, told |-> t]
  BY DEF AddQueuedPlayer
<1> HIDE DEF line
<1>3. /\ long \in Seq(Ids) /\ Len(long) = Len(line) + 1 /\ IsInjective(long)
      /\ \A i \in 1..Len(line) : long[i] = line[i]
      /\ long[Len(line) + 1] = s
      /\ ToSet(long) = ToSet(line) \cup {s}
  BY <1>1, AppendInjectiveSeq DEF line
<1>4. Len(line) \in Nat /\ \A i \in 1..Len(line) : line[i] \in ToSet(line) /\ line[i] \in Ids
  BY <1>1, SetOfSeq
<1> HIDE DEF long
<1>5. Len(line) + 1 \in 0..MaxSessions
  BY <1>3, LineBound
<1>6. t \in [Ids -> 0..MaxSessions]
  BY <1>1, <1>5
<1>7. ASSUME NEW k \in 1..Len(long) PROVE t[long[k]] = k
  <2>1. CASE k = Len(line) + 1
    BY <1>1, <1>3, <2>1
  <2>2. CASE k \in 1..Len(line)
    <3>1. long[k] = line[k] /\ line[k] # s /\ line[k] \in Ids
      BY <1>3, <1>4, <2>2 DEF line
    <3> QED
      BY <1>1, <2>2, <3>1
  <2> QED
    BY <1>3, <1>4, <2>1, <2>2
<1> QED
  BY <1>1, <1>2, <1>3, <1>6, <1>7 DEF LineOK, line

-----------------------------------------------------------------------------
(* The state.                                                              *)

\* The login queue of World is one.
LEMMA LineIsOK ==
    ASSUME TypeOK, FlagsCover, QueueExact
    PROVE  LineOK(Line)
<1>1. \A j, k \in 1..Len(queue) : queue[j] = queue[k] => j = k
  BY DEF QueueExact
<1>2. IsInjective(queue)
  BY <1>1, SetOfSeq DEF TypeOK
<1> QED
  BY <1>2 DEF LineOK, Line, TypeOK, FlagsCover, QueueExact

\* The next login queue, and the conjuncts it gives.
LEMMA NextLine ==
    ASSUME NEW w, LineOK(w), SetLine(w)
    PROVE  /\ queue' \in Seq(Ids) /\ inQueue' \subseteq Ids /\ told' \in [Ids -> 0..MaxSessions]
           /\ queue' = w.line /\ inQueue' = w.flagged
           /\ ToSet(queue') \subseteq inQueue'
           /\ \A k \in 1..Len(queue') : told'[queue'[k]] = k
BY DEF LineOK, SetLine

\* Sessions that were created are numbered.
LEMMA BornIds ==
    ASSUME TypeOK
    PROVE  /\ Born = 1..Len(account) /\ Len(account) \in Nat /\ Born \subseteq Ids
           /\ IsFiniteSet(Born) /\ NoSession \notin Born
           /\ \A s \in Born : account[s] \in Accounts
<1>1. account \in Seq(Accounts) /\ Len(account) <= MaxSessions
  BY DEF TypeOK
<1>2. Born = 1..Len(account) /\ Len(account) \in Nat
  BY <1>1, SetOfSeq DEF Born
<1>3. IsFiniteSet(1..Len(account))
  BY <1>2, FS_Interval
<1>4. \A s \in 1..Len(account) : account[s] \in Accounts
  BY <1>1, ElementOfSeq
<1>5. 1..Len(account) \subseteq 1..MaxSessions
  BY <1>1, <1>2, SessionQueueAssumption
<1> QED
  BY <1>2, <1>3, <1>4, <1>5, SessionQueueAssumption DEF Ids

\* Each listed session is that of one account.
LEMMA SessionsListed ==
    ASSUME TypeOK, ListedExact
    PROVE  /\ \A s : s \in Sessions <=> \E a \in Accounts : Listed(a) /\ s = sessions[a]
           /\ \A a, b \in Accounts : Listed(a) /\ sessions[a] = sessions[b] => a = b
           /\ Sessions \subseteq Born /\ NoSession \notin Sessions
           /\ IsFiniteSet(Sessions) /\ GetActiveAndQueuedSessionCount \in Nat
<1>1. \A s : s \in Sessions <=> \E a \in Accounts : Listed(a) /\ s = sessions[a]
  BY DEF Sessions
<1>2. \A a, b \in Accounts : Listed(a) /\ sessions[a] = sessions[b] => a = b
  BY DEF ListedExact, Listed
<1>3. Sessions \subseteq Born
  BY <1>1 DEF ListedExact
<1>4. IsFiniteSet(Sessions)
  BY <1>3, BornIds, FS_Subset
<1> QED
  BY <1>1, <1>2, <1>3, <1>4, BornIds, FS_CardinalityType DEF GetActiveAndQueuedSessionCount

\* An entry of m_sessions is replaced or erased.
LEMMA SessionsReplaced ==
    ASSUME TypeOK, ListedExact, NEW a \in Accounts, NEW x,
           sessions' = [sessions EXCEPT ![a] = x]
    PROVE  Sessions' = (Sessions \ {sessions[a]}) \cup ({x} \ {NoSession})
<1>1. sessions \in [Accounts -> Ids \cup {NoSession}]
  BY DEF TypeOK
<1>2. \A b \in Accounts : sessions'[b] = IF b = a THEN x ELSE sessions[b]
  BY <1>1
<1>3. \A s : s \in Sessions' <=> \E b \in Accounts : sessions'[b] # NoSession /\ s = sessions'[b]
  BY DEF Sessions, Listed
<1>4. ASSUME NEW s \in Sessions' PROVE s \in (Sessions \ {sessions[a]}) \cup ({x} \ {NoSession})
  <2>1. PICK b \in Accounts : sessions'[b] # NoSession /\ s = sessions'[b]
    BY <1>3
  <2>2. CASE b # a
    BY <1>2, <2>1, <2>2, SessionsListed DEF Listed
  <2> QED
    BY <1>2, <2>1, <2>2
<1>5. ASSUME NEW s \in (Sessions \ {sessions[a]}) \cup ({x} \ {NoSession}) PROVE s \in Sessions'
  <2>1. CASE s \in Sessions \ {sessions[a]}
    <3>1. PICK b \in Accounts : Listed(b) /\ s = sessions[b]
      BY <2>1, SessionsListed
    <3> QED
      BY <1>2, <1>3, <2>1, <3>1 DEF Listed
  <2> QED
    BY <1>2, <1>3, <2>1
<1> QED
  BY <1>4, <1>5

-----------------------------------------------------------------------------
(* What the steps do.                                                      *)

\* Steps that leave the sessions where they are.
Resting ==
    /\ UNCHANGED <<account, deleted, addSessQueue, worldVars, limit, relimited>>
    /\ closed \subseteq closed'

\* The session at the head of addSessQueue, its account and its old session.
Newcomer == Head(addSessQueue)
Home == account[Newcomer]
Old == sessions[Home]

\* The login queue once the old session has gone, and the sessions AddSession_
\* compares with the limit.
Middle ==
    IF Listed(Home)
    THEN RemoveQueuedPlayer(Line, GetActiveAndQueuedSessionCount, Old) ELSE Line
Others ==
    IF Listed(Home) /\ Old \notin ToSet(queue)
    THEN GetActiveAndQueuedSessionCount - 1 ELSE GetActiveAndQueuedSessionCount
Full == limit > 0 /\ Others >= limit

\* Every step of Next, the resting ones taken together.
LEMMA Steps ==
    ASSUME TypeOK, [Next]_vars
    PROVE  \/ Resting
           \/ RejectSession \/ AcceptSession
           \/ \E a \in Accounts : RemoveClosedSession(a) \/ AddSession(a)
           \/ KickAll
           \/ \E l \in Limits : SetPlayerAmountLimit(l)
<1>1. ASSUME StartUpdate \/ AllAdded \/ EndUpdate \/ Tick \/ UNCHANGED vars PROVE Resting
  BY <1>1 DEF StartUpdate, AllAdded, EndUpdate, Tick, vars, Resting, clientVars, worldVars,
         limitVars, updateVars
<1>2. ASSUME NEW a \in Accounts, UpdateOpenSession(a) PROVE Resting
  BY <1>2 DEF UpdateOpenSession, Resting, worldVars, limitVars
<1>3. ASSUME NEW s \in Born, CloseSocket(s) PROVE Resting
  BY <1>3 DEF CloseSocket, Resting, worldVars, limitVars
<1> QED
  BY <1>1, <1>2, <1>3 DEF Next, UpdateSessions

\* The newcomer was created and is nowhere else yet.
LEMMA NewcomerIsNew ==
    ASSUME TypeOK, PendingExact, NoDanglingSession, addSessQueue # << >>
    PROVE  /\ Newcomer \in Born /\ Newcomer \notin Sessions /\ Newcomer \notin inQueue
           /\ Newcomer \notin deleted /\ Home \in Accounts /\ Newcomer \in Pending
           /\ Tail(addSessQueue) \in Seq(Ids) /\ IsInjective(Tail(addSessQueue))
           /\ ToSet(Tail(addSessQueue)) = Pending \ {Newcomer}
<1>1. /\ addSessQueue \in Seq(Ids) /\ IsInjective(addSessQueue)
      /\ Pending \subseteq Born /\ Pending \cap (Sessions \cup inQueue) = {}
      /\ Pending \cap deleted = {}
  BY DEF TypeOK, PendingExact, NoDanglingSession, Pending
<1>2. /\ Newcomer \in Pending
      /\ Tail(addSessQueue) \in Seq(Ids) /\ IsInjective(Tail(addSessQueue))
      /\ ToSet(Tail(addSessQueue)) = Pending \ {Newcomer}
  BY <1>1, TailInjective DEF Newcomer, Pending
<1> QED
  BY <1>1, <1>2, BornIds DEF Home

\* What AddSession_ does to the login queue and to the sessions.
LEMMA Accepted ==
    ASSUME IInv, AcceptSession
    PROVE  /\ addSessQueue # << >> /\ phase = "adding" /\ LineOK(Middle) /\ LineOK(Line)
           /\ Listed(Home) => Leaves(Line, GetActiveAndQueuedSessionCount, Old, Middle)
           /\ sessions' = [sessions EXCEPT ![Home] = Newcomer]
           /\ Sessions' = (Sessions \ {Old}) \cup {Newcomer}
           /\ addSessQueue' = Tail(addSessQueue)
           /\ IF Listed(Home)
              THEN closed' = closed \cup {Old} /\ deleted' = deleted \cup {Old}
              ELSE closed' = closed /\ deleted' = deleted
           /\ UNCHANGED <<account, loading, disconnects, limitVars, updateVars>>
           /\ \/ /\ Full
                 /\ SetLine(AddQueuedPlayer(Middle, Newcomer))
                 /\ UNCHANGED bypassed
              \/ /\ SetLine(Middle)
                 /\ bypassed' = IF Full THEN bypassed \cup {Newcomer} ELSE bypassed
<1> USE DEF IInv
<1>1. LineOK(Line)
  BY LineIsOK
<1>2. addSessQueue # << >> /\ phase = "adding"
  BY DEF AcceptSession
<1>3. Newcomer \in Born /\ Home \in Accounts
  BY <1>2, NewcomerIsNew
<1>4. Listed(Home) => Old \in Ids
  BY <1>3, BornIds DEF ListedExact, Old
<1>5. /\ Listed(Home) => LineOK(Middle)
      /\ Listed(Home) => Leaves(Line, GetActiveAndQueuedSessionCount, Old, Middle)
  BY <1>1, <1>4, RemoveQueuedPlayerLeaves DEF Middle
<1>6. LineOK(Middle)
  BY <1>1, <1>5 DEF Middle
<1>7. sessions' = [sessions EXCEPT ![Home] = Newcomer]
  BY DEF AcceptSession, Home, Newcomer
<1>8. Sessions' = (Sessions \ {Old}) \cup {Newcomer}
  BY <1>3, <1>7, SessionsReplaced, BornIds DEF Old
<1>9. GetActiveAndQueuedSessionCount \in Nat
  BY SessionsListed
<1>10. \/ /\ Full
          /\ SetLine(AddQueuedPlayer(Middle, Newcomer))
          /\ UNCHANGED bypassed
       \/ /\ SetLine(Middle)
          /\ bypassed' = IF Full THEN bypassed \cup {Newcomer} ELSE bypassed
  <2>1. CASE Listed(Home)
    <3>1. Admit(Newcomer, Middle, GetActiveAndQueuedSessionCount, Old \in ToSet(queue))
      BY <2>1 DEF AcceptSession, Middle, Home, Newcomer, Old
    <3> QED
      BY <2>1, <3>1 DEF Admit, Full, Others
  <2>2. CASE ~Listed(Home)
    <3>1. Admit(Newcomer, Line, GetActiveAndQueuedSessionCount + 1, FALSE)
      BY <2>2 DEF AcceptSession, Middle, Home, Newcomer, Old
    <3>2. (GetActiveAndQueuedSessionCount + 1) - 1 = GetActiveAndQueuedSessionCount
      BY <1>9
    <3> QED
      BY <2>2, <3>1, <3>2 DEF Admit, Full, Others, Middle
  <2> QED
    BY <2>1, <2>2
<1> QED
  BY <1>1, <1>2, <1>5, <1>6, <1>7, <1>8, <1>10 DEF AcceptSession, Home, Newcomer, Old

\* What removing a closed session does: the session at a, queued or not, and
\* the login queue after the first call of RemoveQueuedPlayer and the second.
LEMMA Removed ==
    ASSUME IInv, NEW a \in Accounts, RemoveClosedSession(a)
    PROVE  LET n     == GetActiveAndQueuedSessionCount
               first == RemoveQueuedPlayer(Line, n, sessions[a])
               last  == RemoveQueuedPlayer(first, n, sessions[a])
           IN  /\ phase = "updating" /\ a \in todo /\ Listed(a)
               /\ sessions[a] \in Sessions /\ sessions[a] \in Born
               /\ LineOK(Line) /\ LineOK(first) /\ LineOK(last)
               /\ Leaves(Line, n, sessions[a], first)
               /\ Leaves(first, n, sessions[a], last)
               /\ SetLine(last)
               /\ todo' = todo \ {a}
               /\ sessions' = [sessions EXCEPT ![a] = NoSession]
               /\ Sessions' = Sessions \ {sessions[a]}
               /\ deleted' = deleted \cup {sessions[a]}
               /\ disconnects' \in {disconnects, RecordDisconnect(a)}
               /\ UNCHANGED <<account, closed, loading, addSessQueue, bypassed,
                              limitVars, phase, seenOpen>>
<1> USE DEF IInv
<1> DEFINE n     == GetActiveAndQueuedSessionCount
           first == RemoveQueuedPlayer(Line, n, sessions[a])
           last  == RemoveQueuedPlayer(first, n, sessions[a])
<1>1. LineOK(Line)
  BY LineIsOK
<1>2. phase = "updating" /\ a \in todo /\ Listed(a)
  BY DEF RemoveClosedSession, Visited
<1>3. sessions[a] \in Sessions /\ sessions[a] \in Born /\ sessions[a] \in Ids
  BY <1>2, SessionsListed, BornIds
<1>4. LineOK(first) /\ Leaves(Line, n, sessions[a], first)
  BY <1>1, <1>3, RemoveQueuedPlayerLeaves
<1> HIDE DEF first
<1>5. LineOK(last) /\ Leaves(first, n, sessions[a], last)
  BY <1>3, <1>4, RemoveQueuedPlayerLeaves
<1> HIDE DEF last
<1>6. sessions' = [sessions EXCEPT ![a] = NoSession]
  BY DEF RemoveClosedSession
<1>7. Sessions' = Sessions \ {sessions[a]}
  BY <1>6, SessionsReplaced
<1>8. SetLine(last)
  BY DEF RemoveClosedSession, first, last
<1> QED
  BY <1>1, <1>2, <1>3, <1>4, <1>5, <1>6, <1>7, <1>8 DEF RemoveClosedSession, first, last

-----------------------------------------------------------------------------
(* The invariants, one by one.                                             *)

LEMMA LineStep ==
    ASSUME IInv, [Next]_vars
    PROVE  /\ queue' \in Seq(Ids) /\ inQueue' \subseteq Ids /\ told' \in [Ids -> 0..MaxSessions]
           /\ ToSet(queue') \subseteq inQueue'
           /\ \A k \in 1..Len(queue') : told'[queue'[k]] = k
<1> DEFINE Goal == /\ queue' \in Seq(Ids) /\ inQueue' \subseteq Ids
                   /\ told' \in [Ids -> 0..MaxSessions]
                   /\ ToSet(queue') \subseteq inQueue'
                   /\ \A k \in 1..Len(queue') : told'[queue'[k]] = k
<1> USE DEF IInv
<1>1. ASSUME UNCHANGED <<queue, inQueue, told>> PROVE Goal
  BY <1>1 DEF TypeOK, FlagsCover, QueueExact
<1>2. Resting \/ RejectSession => Goal
  BY <1>1 DEF Resting, RejectSession, worldVars
<1>3. (\E a \in Accounts : AddSession(a)) \/ (\E l \in Limits : SetPlayerAmountLimit(l)) => Goal
  BY <1>1 DEF AddSession, SetPlayerAmountLimit, worldVars
<1>4. ASSUME KickAll PROVE Goal
  <2>1. queue' = << >> /\ inQueue' = inQueue /\ told' = told
    BY <1>4 DEF KickAll
  <2>2. << >> \in Seq(Ids) /\ Len(<< >>) = 0 /\ ToSet(<< >>) = {}
    BY DEF ToSet
  <2> QED
    BY <2>1, <2>2 DEF TypeOK
<1>5. ASSUME AcceptSession PROVE Goal
  <2>1. /\ LineOK(Middle)
        /\ SetLine(AddQueuedPlayer(Middle, Newcomer)) \/ SetLine(Middle)
    BY <1>5, Accepted
  <2>2. Newcomer \in Ids /\ Newcomer \notin inQueue
    BY <1>5, NewcomerIsNew, BornIds DEF AcceptSession
  <2>3. Newcomer \notin ToSet(Middle.line)
    <3>1. Listed(Home) => ToSet(Middle.line) \subseteq ToSet(queue)
      BY <1>5, Accepted DEF Leaves, Line
    <3>2. ~Listed(Home) => Middle.line = queue
      BY DEF Middle, Line
    <3> QED
      BY <2>2, <3>1, <3>2 DEF FlagsCover
  <2>4. LineOK(AddQueuedPlayer(Middle, Newcomer))
    BY <2>1, <2>2, <2>3, AddQueuedPlayerProperties
  <2> QED
    BY <2>1, <2>4, NextLine
<1>6. ASSUME NEW a \in Accounts, RemoveClosedSession(a) PROVE Goal
  BY <1>6, Removed, NextLine
<1> QED
  BY <1>2, <1>3, <1>4, <1>5, <1>6, Steps

LEMMA TypeStep == ASSUME IInv, [Next]_vars PROVE TypeOK'
<1> USE DEF IInv
<1>1. TypeOK
  OBVIOUS
<1>2. queue' \in Seq(Ids) /\ inQueue' \subseteq Ids /\ told' \in [Ids -> 0..MaxSessions]
  BY LineStep
<1>3. ASSUME StartUpdate \/ AllAdded \/ EndUpdate \/ UNCHANGED vars PROVE TypeOK'
  BY <1>1, <1>3 DEF TypeOK, StartUpdate, AllAdded, EndUpdate, vars, clientVars, worldVars,
         limitVars, updateVars, Born
<1>4. ASSUME Tick PROVE TypeOK'
  <2>1. now + 1 \in 0..MaxTime /\ 0..now \subseteq 0..now + 1
    BY <1>1, <1>4, SessionQueueAssumption DEF TypeOK, Tick
  <2>2. disconnects \in [Accounts -> {Never} \cup 0..now + 1]
    BY <1>1, <2>1 DEF TypeOK
  <2> QED
    BY <1>1, <1>4, <2>1, <2>2 DEF TypeOK, Tick, clientVars, worldVars, updateVars, Born
<1>5. ASSUME NEW a \in Accounts, AddSession(a) PROVE TypeOK'
  <2>1. /\ account' \in Seq(Accounts) /\ Len(account') = Len(account) + 1
        /\ Len(account) \in Nat /\ Len(account) + 1 <= MaxSessions
    BY <1>1, <1>5, AppendProperties, SessionQueueAssumption DEF TypeOK, AddSession
  <2>2. Len(account) + 1 \in Ids
    BY <2>1, SessionQueueAssumption DEF Ids
  <2>3. addSessQueue' \in Seq(Ids)
    BY <1>1, <1>5, <2>2, AppendProperties DEF TypeOK, AddSession
  <2>4. Born \subseteq Born'
    BY <1>1, <2>1, SetOfSeq DEF TypeOK, Born
  <2> QED
    BY <1>1, <1>5, <2>1, <2>3, <2>4 DEF TypeOK, AddSession, worldVars, limitVars, updateVars
<1>6. ASSUME NEW s \in Born, CloseSocket(s) PROVE TypeOK'
  BY <1>1, <1>6 DEF TypeOK, CloseSocket, worldVars, limitVars, updateVars, Born
<1>7. ASSUME KickAll PROVE TypeOK'
  <2>1. Sessions \subseteq Born
    BY SessionsListed
  <2> QED
    BY <1>1, <1>2, <1>7, <2>1 DEF TypeOK, KickAll, limitVars, updateVars, Born
<1>8. ASSUME NEW l \in Limits, SetPlayerAmountLimit(l) PROVE TypeOK'
  BY <1>1, <1>8, SessionQueueAssumption DEF TypeOK, SetPlayerAmountLimit, clientVars,
         worldVars, updateVars, Born
<1>9. ASSUME RejectSession PROVE TypeOK'
  <2>1. Newcomer \in Born /\ Tail(addSessQueue) \in Seq(Ids)
    BY <1>9, NewcomerIsNew DEF RejectSession
  <2> QED
    BY <1>1, <1>9, <2>1 DEF TypeOK, RejectSession, worldVars, limitVars, updateVars, Born, Newcomer
<1>10. ASSUME AcceptSession PROVE TypeOK'
  <2>1. Newcomer \in Born /\ Tail(addSessQueue) \in Seq(Ids) /\ Newcomer \in Ids /\ Home \in Accounts
    BY <1>10, NewcomerIsNew, BornIds DEF AcceptSession
  <2>2. Listed(Home) => Old \in Born
    BY <2>1 DEF ListedExact, Old
  <2>3. /\ sessions' = [sessions EXCEPT ![Home] = Newcomer] /\ addSessQueue' = Tail(addSessQueue)
        /\ IF Listed(Home)
           THEN closed' = closed \cup {Old} /\ deleted' = deleted \cup {Old}
           ELSE closed' = closed /\ deleted' = deleted
        /\ UNCHANGED <<account, loading, disconnects, limitVars, updateVars>>
        /\ bypassed' \subseteq bypassed \cup {Newcomer}
    BY <1>10, Accepted
  <2>4. sessions' \in [Accounts -> Ids \cup {NoSession}]
    BY <1>1, <2>1, <2>3 DEF TypeOK
  <2>5. closed' \subseteq Born /\ deleted' \subseteq Born /\ bypassed' \subseteq Born /\ Born' = Born
    BY <1>1, <2>1, <2>2, <2>3 DEF TypeOK, Born
  <2> QED
    BY <1>1, <1>2, <2>1, <2>3, <2>4, <2>5 DEF TypeOK, limitVars, updateVars
<1>11. ASSUME NEW a \in Accounts, UpdateOpenSession(a) PROVE TypeOK'
  <2>1. sessions[a] \in Born
    BY <1>11 DEF UpdateOpenSession, Visited, ListedExact
  <2> QED
    BY <1>1, <1>11, <2>1 DEF TypeOK, UpdateOpenSession, worldVars, limitVars, Born
<1>12. ASSUME NEW a \in Accounts, RemoveClosedSession(a) PROVE TypeOK'
  <2>1. /\ sessions[a] \in Born /\ sessions' = [sessions EXCEPT ![a] = NoSession]
        /\ deleted' = deleted \cup {sessions[a]} /\ todo' = todo \ {a}
        /\ disconnects' \in {disconnects, RecordDisconnect(a)}
        /\ UNCHANGED <<account, closed, loading, addSessQueue, bypassed, limitVars,
                       phase, seenOpen>>
    BY <1>12, Removed
  <2>2. disconnects' \in [Accounts -> {Never} \cup 0..now]
    <3>1. now \in {Never} \cup 0..now
      BY <1>1 DEF TypeOK
    <3> QED
      BY <1>1, <2>1, <3>1 DEF TypeOK, RecordDisconnect
  <2>3. sessions' \in [Accounts -> Ids \cup {NoSession}]
    BY <1>1, <2>1 DEF TypeOK
  <2> QED
    BY <1>1, <1>2, <2>1, <2>2, <2>3 DEF TypeOK, limitVars, Born
<1> QED
  BY <1>3, <1>4, <1>5, <1>6, <1>7, <1>8, <1>9, <1>10, <1>11, <1>12 DEF Next, UpdateSessions

\* The queue of the next state holds queued sessions and perhaps the newcomer,
\* and only the newcomer's flag may be set.
LEMMA QueueShrinks ==
    ASSUME IInv, [Next]_vars
    PROVE  \/ ToSet(queue') \subseteq ToSet(queue) /\ inQueue' \subseteq inQueue
           \/ /\ AcceptSession
              /\ ToSet(queue') \subseteq ToSet(queue) \cup {Newcomer}
              /\ inQueue' \subseteq inQueue \cup {Newcomer}
<1> USE DEF IInv
<1>1. ASSUME UNCHANGED <<queue, inQueue>>
      PROVE  ToSet(queue') \subseteq ToSet(queue) /\ inQueue' \subseteq inQueue
  BY <1>1
<1>2. Resting \/ RejectSession \/ (\E a \in Accounts : AddSession(a))
        \/ (\E l \in Limits : SetPlayerAmountLimit(l)) => UNCHANGED <<queue, inQueue>>
  BY DEF Resting, RejectSession, AddSession, SetPlayerAmountLimit, worldVars
<1>3. ASSUME KickAll PROVE ToSet(queue') \subseteq ToSet(queue) /\ inQueue' \subseteq inQueue
  BY <1>3 DEF KickAll, ToSet
<1>4. ASSUME NEW a \in Accounts, RemoveClosedSession(a)
      PROVE  ToSet(queue') \subseteq ToSet(queue) /\ inQueue' \subseteq inQueue
  <2> DEFINE n     == GetActiveAndQueuedSessionCount
             first == RemoveQueuedPlayer(Line, n, sessions[a])
             last  == RemoveQueuedPlayer(first, n, sessions[a])
  <2>1. /\ Leaves(Line, n, sessions[a], first)
        /\ Leaves(first, n, sessions[a], last)
        /\ SetLine(last)
    BY <1>4, Removed
  <2> HIDE DEF n, first, last
  <2>2. /\ ToSet(last.line) \subseteq ToSet(Line.line)
        /\ last.flagged \subseteq Line.flagged
    BY <2>1, LeavesShrinks
  <2> QED
    BY <2>1, <2>2 DEF SetLine, Line
<1>5. ASSUME AcceptSession
      PROVE  /\ ToSet(queue') \subseteq ToSet(queue) \cup {Newcomer}
             /\ inQueue' \subseteq inQueue \cup {Newcomer}
  <2>1. /\ LineOK(Middle)
        /\ Listed(Home) => Leaves(Line, GetActiveAndQueuedSessionCount, Old, Middle)
        /\ SetLine(AddQueuedPlayer(Middle, Newcomer)) \/ SetLine(Middle)
    BY <1>5, Accepted
  <2>2. ToSet(Middle.line) \subseteq ToSet(queue) /\ Middle.flagged \subseteq inQueue
    <3>1. Listed(Home) =>
            ToSet(Middle.line) \subseteq ToSet(queue) /\ Middle.flagged \subseteq inQueue
      BY <2>1, LeavesShrinks DEF Line
    <3>2. ~Listed(Home) => Middle.line = queue /\ Middle.flagged = inQueue
      BY DEF Middle, Line
    <3> QED
      BY <3>1, <3>2
  <2>3. Newcomer \in Ids \ ToSet(Middle.line)
    BY <1>5, <2>2, NewcomerIsNew, BornIds DEF AcceptSession, FlagsCover
  <2>4. /\ ToSet(AddQueuedPlayer(Middle, Newcomer).line) = ToSet(Middle.line) \cup {Newcomer}
        /\ AddQueuedPlayer(Middle, Newcomer).flagged = Middle.flagged \cup {Newcomer}
    BY <2>1, <2>3, AddQueuedPlayerProperties
  <2> QED
    BY <2>1, <2>2, <2>4 DEF SetLine
<1> QED
  BY <1>1, <1>2, <1>3, <1>4, <1>5, Steps

LEMMA PendingStep == ASSUME IInv, [Next]_vars PROVE PendingExact'
<1> USE DEF IInv
<1>1. ASSUME NEW a \in Accounts, AddSession(a) PROVE PendingExact'
  <2> DEFINE s == Len(account) + 1
  <2>1. /\ account \in Seq(Accounts) /\ addSessQueue \in Seq(Ids) /\ IsInjective(addSessQueue)
        /\ Pending \subseteq Born /\ Pending \cap (Sessions \cup inQueue) = {}
    BY DEF TypeOK, PendingExact
  <2>2. /\ Born = 1..Len(account) /\ Len(account) \in Nat
        /\ Sessions \cup inQueue \subseteq Born
    BY BornIds, SessionsListed DEF FlagsCover
  <2>3. s \in Ids /\ s \notin Born
    BY <1>1, <2>2, SessionQueueAssumption DEF AddSession, Ids
  <2>4. Born' = Born \cup {s}
    <3>1. account' \in Seq(Accounts) /\ Len(account') = Len(account) + 1
      BY <1>1, <2>1, AppendProperties DEF AddSession
    <3>2. Born' = 1..Len(account) + 1
      BY <3>1, SetOfSeq DEF Born
    <3> QED
      BY <2>2, <3>2
  <2> HIDE DEF s
  <2>5. addSessQueue' = Append(addSessQueue, s)
    BY <1>1 DEF AddSession, s
  <2>6. IsInjective(addSessQueue') /\ ToSet(addSessQueue') = Pending \cup {s}
    BY <2>1, <2>2, <2>3, <2>5, AppendInjectiveSeq DEF Pending
  <2>7. Sessions' = Sessions /\ inQueue' = inQueue
    BY <1>1 DEF AddSession, worldVars, Sessions, Listed
  <2> QED
    BY <2>1, <2>2, <2>3, <2>4, <2>6, <2>7 DEF PendingExact, Pending
<1>2. ASSUME UNCHANGED <<account, addSessQueue, sessions>>, inQueue' \subseteq inQueue
      PROVE  PendingExact'
  <2>1. Sessions' = Sessions /\ Born' = Born /\ Pending' = Pending
    BY <1>2 DEF Sessions, Listed, Born, Pending
  <2> QED
    BY <1>2, <2>1 DEF PendingExact
<1>3. Resting \/ KickAll \/ (\E l \in Limits : SetPlayerAmountLimit(l)) => PendingExact'
  BY <1>2 DEF Resting, KickAll, SetPlayerAmountLimit, worldVars, clientVars
<1>4. ASSUME NEW a \in Accounts, RemoveClosedSession(a) PROVE PendingExact'
  <2>1. Sessions' \subseteq Sessions /\ account' = account /\ addSessQueue' = addSessQueue
    BY <1>4, Removed
  <2>2. inQueue' \subseteq inQueue
    BY <1>4, QueueShrinks DEF AcceptSession, RemoveClosedSession
  <2> QED
    BY <2>1, <2>2 DEF PendingExact, Pending, Born
<1>5. ASSUME RejectSession \/ AcceptSession PROVE PendingExact'
  <2>1. addSessQueue # << >> /\ addSessQueue' = Tail(addSessQueue)
    BY <1>5 DEF RejectSession, AcceptSession
  <2>2. IsInjective(addSessQueue') /\ ToSet(addSessQueue') = Pending \ {Newcomer}
    BY <2>1, NewcomerIsNew
  <2>3. account' = account
    BY <1>5 DEF RejectSession, AcceptSession
  <2>4. Sessions' \subseteq Sessions \cup {Newcomer}
    BY <1>5, Accepted DEF RejectSession, worldVars, Sessions, Listed
  <2>5. inQueue' \subseteq inQueue \cup {Newcomer}
    BY QueueShrinks
  <2> QED
    BY <2>2, <2>3, <2>4, <2>5 DEF PendingExact, Pending, Born
<1> QED
  BY <1>1, <1>3, <1>4, <1>5, Steps

\* Sessions keep their account and stay listed, unless an action of UpdateSessions
\* replaces or removes them.
LEMMA ListedStep == ASSUME IInv, [Next]_vars PROVE ListedExact'
<1> USE DEF IInv
<1>1. ASSUME UNCHANGED <<account, sessions>> PROVE ListedExact'
  BY <1>1 DEF ListedExact, Listed, Born
<1>2. Resting \/ KickAll \/ RejectSession \/ (\E l \in Limits : SetPlayerAmountLimit(l))
        => ListedExact'
  BY <1>1 DEF Resting, KickAll, RejectSession, SetPlayerAmountLimit, worldVars, clientVars
<1>3. ASSUME NEW a \in Accounts, AddSession(a) PROVE ListedExact'
  <2>1. /\ account \in Seq(Accounts) /\ account' = Append(account, a) /\ sessions' = sessions
    BY <1>3 DEF AddSession, worldVars, TypeOK
  <2>2. /\ account' \in Seq(Accounts) /\ Len(account') = Len(account) + 1 /\ Len(account) \in Nat
        /\ \A i \in 1..Len(account) : account'[i] = account[i]
    BY <2>1, AppendProperties, SetOfSeq
  <2>3. Born = 1..Len(account) /\ Born' = 1..Len(account')
    BY <2>1, <2>2, SetOfSeq DEF Born
  <2>4. \A s \in Born : s \in Born' /\ account'[s] = account[s]
    BY <2>2, <2>3
  <2> QED
    BY <2>1, <2>4 DEF ListedExact, Listed
<1>4. ASSUME NEW a \in Accounts, RemoveClosedSession(a) PROVE ListedExact'
  <2>1. sessions' = [sessions EXCEPT ![a] = NoSession] /\ account' = account
    BY <1>4, Removed
  <2> QED
    BY <2>1 DEF ListedExact, Listed, Born, TypeOK
<1>5. ASSUME AcceptSession PROVE ListedExact'
  <2>1. sessions' = [sessions EXCEPT ![Home] = Newcomer] /\ account' = account
    BY <1>5, Accepted
  <2>2. Newcomer \in Born /\ account[Newcomer] = Home
    BY <1>5, NewcomerIsNew DEF AcceptSession, Home
  <2> QED
    BY <2>1, <2>2 DEF ListedExact, Listed, Born, TypeOK
<1> QED
  BY <1>2, <1>3, <1>4, <1>5, Steps

LEMMA FlagsStep == ASSUME IInv, [Next]_vars PROVE FlagsCover'
<1> USE DEF IInv
<1>1. ToSet(queue') \subseteq inQueue'
  BY LineStep
<1>2. Born \subseteq Born'
  <2>1. ASSUME NEW a \in Accounts, AddSession(a) PROVE Born \subseteq Born'
    <3>1. account' = Append(account, a) /\ account \in Seq(Accounts)
      BY <2>1 DEF AddSession, TypeOK
    <3>2. account' \in Seq(Accounts) /\ Len(account') = Len(account) + 1 /\ Len(account) \in Nat
      BY <3>1, AppendProperties, SetOfSeq
    <3> QED
      BY <3>1, <3>2, SetOfSeq DEF Born
  <2>2. AcceptSession \/ Resting \/ RejectSession \/ KickAll
          \/ (\E a \in Accounts : RemoveClosedSession(a))
          \/ (\E l \in Limits : SetPlayerAmountLimit(l)) => account' = account
    BY DEF AcceptSession, Resting, RejectSession, KickAll, RemoveClosedSession,
           SetPlayerAmountLimit, clientVars
  <2> QED
    BY <2>1, <2>2, Steps DEF Born
<1>3. inQueue' \subseteq inQueue \/ (AcceptSession /\ inQueue' \subseteq inQueue \cup {Newcomer})
  BY QueueShrinks
<1>4. AcceptSession => Newcomer \in Born
  BY NewcomerIsNew DEF AcceptSession
<1> QED
  BY <1>1, <1>2, <1>3, <1>4 DEF FlagsCover

LEMMA QueueExactStep == ASSUME IInv, [Next]_vars PROVE QueueExact'
<1> USE DEF IInv
<1> DEFINE Agree(s) == s \in inQueue <=> s \in ToSet(queue)
<1>1. \A s \in Sessions \ closed : Agree(s)
  BY DEF QueueExact
<1>2. ASSUME UNCHANGED <<sessions, queue, inQueue>>, closed \subseteq closed'
      PROVE  \A s \in Sessions' \ closed' : Agree(s)'
  BY <1>1, <1>2 DEF Sessions, Listed
<1>3. Resting \/ RejectSession \/ (\E l \in Limits : SetPlayerAmountLimit(l))
        \/ (\E a \in Accounts : AddSession(a))
        => \A s \in Sessions' \ closed' : Agree(s)'
  <2> HIDE DEF Agree
  <2> QED
    BY <1>2 DEF Resting, RejectSession, SetPlayerAmountLimit, AddSession, worldVars, clientVars
<1>4. KickAll => \A s \in Sessions' \ closed' : Agree(s)'
  BY DEF KickAll, Sessions, Listed
<1>5. ASSUME NEW a \in Accounts, RemoveClosedSession(a)
      PROVE  \A s \in Sessions' \ closed' : Agree(s)'
  <2> DEFINE n     == GetActiveAndQueuedSessionCount
             first == RemoveQueuedPlayer(Line, n, sessions[a])
             last  == RemoveQueuedPlayer(first, n, sessions[a])
  <2>1. /\ Leaves(Line, n, sessions[a], first)
        /\ Leaves(first, n, sessions[a], last)
        /\ SetLine(last)
        /\ Sessions' = Sessions \ {sessions[a]} /\ closed' = closed
    BY <1>5, Removed
  <2> HIDE DEF n, first, last
  <2> SUFFICES ASSUME NEW s \in Sessions \ closed, s # sessions[a] PROVE Agree(s)'
    BY <2>1
  <2>2. s \in Line.flagged <=> s \in ToSet(Line.line)
    BY <1>1 DEF Line
  <2>3. s \in first.flagged <=> s \in ToSet(first.line)
    BY <2>1, <2>2, LeavesAgrees
  <2>4. s \in last.flagged <=> s \in ToSet(last.line)
    BY <2>1, <2>3, LeavesAgrees
  <2> QED
    BY <2>1, <2>4 DEF SetLine
<1>6. ASSUME AcceptSession PROVE \A s \in Sessions' \ closed' : Agree(s)'
  <2>1. /\ LineOK(Middle)
        /\ Listed(Home) => Leaves(Line, GetActiveAndQueuedSessionCount, Old, Middle)
        /\ Sessions' = (Sessions \ {Old}) \cup {Newcomer} /\ closed \subseteq closed'
        /\ SetLine(AddQueuedPlayer(Middle, Newcomer)) \/ SetLine(Middle)
    BY <1>6, Accepted
  <2>2. Newcomer \in Ids /\ Newcomer \notin inQueue
    BY <1>6, NewcomerIsNew, BornIds DEF AcceptSession
  <2>3. Middle.flagged \subseteq inQueue
    BY <2>1, LeavesShrinks DEF Middle, Line
  <2>4. ToSet(Middle.line) \subseteq Middle.flagged
    BY <2>1 DEF LineOK
  <2>5. ASSUME NEW s \in (Sessions \ closed) \ {Old}
        PROVE  s \in Middle.flagged <=> s \in ToSet(Middle.line)
    <3>1. s \in Line.flagged <=> s \in ToSet(Line.line)
      BY <1>1 DEF Line
    <3>2. CASE Listed(Home)
      BY <2>1, <3>1, <3>2, LeavesAgrees
    <3>3. CASE ~Listed(Home)
      BY <3>1, <3>3 DEF Middle
    <3> QED
      BY <3>2, <3>3
  <2>6. /\ ToSet(AddQueuedPlayer(Middle, Newcomer).line) = ToSet(Middle.line) \cup {Newcomer}
        /\ AddQueuedPlayer(Middle, Newcomer).flagged = Middle.flagged \cup {Newcomer}
    BY <2>1, <2>2, <2>3, <2>4, AddQueuedPlayerProperties
  <2>7. \/ /\ ToSet(queue') = ToSet(Middle.line) \cup {Newcomer}
           /\ inQueue' = Middle.flagged \cup {Newcomer}
        \/ ToSet(queue') = ToSet(Middle.line) /\ inQueue' = Middle.flagged
    BY <2>1, <2>6 DEF SetLine
  <2> QED
    BY <2>1, <2>2, <2>3, <2>4, <2>5, <2>7
<1>7. \A s \in Sessions' \ closed' : Agree(s)'
  BY <1>3, <1>4, <1>5, <1>6, Steps
<1>8. \A k \in 1..Len(queue') : told'[queue'[k]] = k
  BY LineStep
<1> QED
  BY <1>7, <1>8 DEF QueueExact

LEMMA DanglingStep == ASSUME IInv, [Next]_vars PROVE NoDanglingSession'
<1> USE DEF IInv
<1>1. /\ (Pending \cup ToSet(queue) \cup Sessions) \cap deleted = {}
      /\ ToSet(queue) \subseteq Sessions /\ deleted \subseteq Born
  BY DEF NoDanglingSession, Pending, TypeOK
<1>2. SUFFICES /\ (Pending' \cup Sessions') \cap deleted' = {}
               /\ ToSet(queue') \subseteq Sessions'
  BY DEF NoDanglingSession, Pending
<1>3. ASSUME UNCHANGED <<addSessQueue, sessions, deleted>>, ToSet(queue') \subseteq ToSet(queue)
      PROVE  /\ (Pending' \cup Sessions') \cap deleted' = {}
             /\ ToSet(queue') \subseteq Sessions'
  BY <1>1, <1>3 DEF Sessions, Listed, Pending
<1>4. Resting \/ (\E l \in Limits : SetPlayerAmountLimit(l)) \/ KickAll
        => UNCHANGED <<addSessQueue, sessions, deleted>> /\ ToSet(queue') \subseteq ToSet(queue)
  BY DEF Resting, SetPlayerAmountLimit, KickAll, worldVars, clientVars, ToSet
<1>5. ASSUME NEW a \in Accounts, AddSession(a)
      PROVE  /\ (Pending' \cup Sessions') \cap deleted' = {}
             /\ ToSet(queue') \subseteq Sessions'
  <2>1. /\ addSessQueue' = Append(addSessQueue, Len(account) + 1)
        /\ UNCHANGED <<deleted, queue>> /\ Sessions' = Sessions
    BY <1>5 DEF AddSession, worldVars, Sessions, Listed
  <2>2. Len(account) + 1 \in Ids /\ Len(account) + 1 \notin Born
    BY <1>5, BornIds, SessionQueueAssumption DEF AddSession, Ids
  <2>3. Len(account) + 1 \notin Pending
    BY <2>2 DEF PendingExact
  <2>4. Pending' = Pending \cup {Len(account) + 1}
    BY <2>1, <2>2, <2>3, AppendInjectiveSeq DEF Pending, PendingExact, TypeOK
  <2> QED
    BY <1>1, <2>1, <2>2, <2>4
<1>6. ASSUME RejectSession
      PROVE  /\ (Pending' \cup Sessions') \cap deleted' = {}
             /\ ToSet(queue') \subseteq Sessions'
  <2>1. /\ addSessQueue # << >> /\ addSessQueue' = Tail(addSessQueue)
        /\ deleted' = deleted \cup {Newcomer} /\ queue' = queue /\ Sessions' = Sessions
    BY <1>6 DEF RejectSession, worldVars, Sessions, Listed, Newcomer
  <2>2. Newcomer \notin Sessions /\ Pending' = Pending \ {Newcomer}
    BY <2>1, NewcomerIsNew DEF Pending
  <2> QED
    BY <1>1, <2>1, <2>2
<1>7. ASSUME AcceptSession
      PROVE  /\ (Pending' \cup Sessions') \cap deleted' = {}
             /\ ToSet(queue') \subseteq Sessions'
  <2>1. /\ addSessQueue # << >> /\ addSessQueue' = Tail(addSessQueue)
        /\ LineOK(Middle)
        /\ Listed(Home) => Leaves(Line, GetActiveAndQueuedSessionCount, Old, Middle)
        /\ Sessions' = (Sessions \ {Old}) \cup {Newcomer}
        /\ deleted' \subseteq deleted \cup {Old}
        /\ ~Listed(Home) => deleted' = deleted
        /\ SetLine(AddQueuedPlayer(Middle, Newcomer)) \/ SetLine(Middle)
    BY <1>7, Accepted
  <2>2. /\ Newcomer \in Ids /\ Newcomer \notin Sessions /\ Newcomer \notin inQueue
        /\ Newcomer \in Pending /\ Pending' = Pending \ {Newcomer} /\ Home \in Accounts
    BY <2>1, NewcomerIsNew, BornIds DEF Pending
  <2>3. ToSet(Middle.line) \subseteq ToSet(queue) \ {Old}
    <3>1. CASE Listed(Home)
      BY <2>1, <3>1, LeavesShrinks DEF Line
    <3>2. CASE ~Listed(Home)
      <4>1. Old \notin Sessions
        BY <3>2, SessionsListed DEF Old, Listed
      <4> QED
        BY <1>1, <3>2, <4>1 DEF Middle, Line
    <3> QED
      BY <3>1, <3>2
  <2>4. ToSet(AddQueuedPlayer(Middle, Newcomer).line) = ToSet(Middle.line) \cup {Newcomer}
    BY <1>1, <2>1, <2>2, <2>3, AddQueuedPlayerProperties
  <2>5. ToSet(queue') \subseteq (ToSet(queue) \ {Old}) \cup {Newcomer}
    BY <2>1, <2>3, <2>4 DEF SetLine
  <2>6. Listed(Home) => Old \in Sessions
    BY <2>2, SessionsListed DEF Old
  <2>7. Pending \cap Sessions = {}
    BY DEF PendingExact
  <2> QED
    BY <1>1, <2>1, <2>2, <2>5, <2>6, <2>7
<1>8. ASSUME NEW a \in Accounts, RemoveClosedSession(a)
      PROVE  /\ (Pending' \cup Sessions') \cap deleted' = {}
             /\ ToSet(queue') \subseteq Sessions'
  <2> DEFINE n     == GetActiveAndQueuedSessionCount
             first == RemoveQueuedPlayer(Line, n, sessions[a])
             last  == RemoveQueuedPlayer(first, n, sessions[a])
  <2>1. /\ Leaves(Line, n, sessions[a], first)
        /\ Leaves(first, n, sessions[a], last)
        /\ SetLine(last)
        /\ Sessions' = Sessions \ {sessions[a]} /\ sessions[a] \in Sessions
        /\ deleted' = deleted \cup {sessions[a]} /\ addSessQueue' = addSessQueue
    BY <1>8, Removed
  <2> HIDE DEF n, first, last
  <2>2. ToSet(last.line) \subseteq ToSet(first.line) \ {sessions[a]}
    BY <2>1, LeavesShrinks
  <2>3. ToSet(first.line) \subseteq ToSet(queue)
    BY <2>1, LeavesShrinks DEF Line
  <2>4. Pending \cap Sessions = {} /\ Pending' = Pending
    BY <2>1 DEF PendingExact, Pending
  <2> QED
    BY <1>1, <2>1, <2>2, <2>3, <2>4 DEF SetLine
<1> QED
  BY <1>3, <1>4, <1>5, <1>6, <1>7, <1>8, Steps

LEMMA VisitedStep == ASSUME IInv, [Next]_vars PROVE Visited'
<1> USE DEF IInv
<1>1. ASSUME UNCHANGED <<sessions, todo, phase, seenOpen>> PROVE Visited'
  BY <1>1 DEF Visited, Listed
<1>2. UNCHANGED vars \/ Tick \/ KickAll \/ RejectSession
        \/ (\E l \in Limits : SetPlayerAmountLimit(l))
        \/ (\E a \in Accounts : AddSession(a)) \/ (\E s \in Born : CloseSocket(s))
        => Visited'
  BY <1>1 DEF vars, Tick, KickAll, RejectSession, SetPlayerAmountLimit, AddSession, CloseSocket,
       worldVars, updateVars
<1>3. StartUpdate \/ AllAdded \/ EndUpdate => Visited'
  BY DEF StartUpdate, AllAdded, EndUpdate, Visited, Listed, worldVars
<1>4. ASSUME NEW a \in Accounts, UpdateOpenSession(a) PROVE Visited'
  BY <1>4 DEF UpdateOpenSession, Visited, Listed, worldVars
<1>5. ASSUME NEW a \in Accounts, RemoveClosedSession(a) PROVE Visited'
  <2>1. /\ sessions' = [sessions EXCEPT ![a] = NoSession] /\ todo' = todo \ {a}
        /\ UNCHANGED <<phase, seenOpen>>
    BY <1>5, Removed
  <2> QED
    BY <2>1 DEF Visited, Listed, TypeOK
<1>6. ASSUME AcceptSession PROVE Visited'
  <2>1. /\ sessions' = [sessions EXCEPT ![Home] = Newcomer] /\ phase = "adding"
        /\ UNCHANGED updateVars /\ addSessQueue # << >>
    BY <1>6, Accepted
  <2>2. Newcomer # NoSession
    BY <2>1, NewcomerIsNew, BornIds
  <2> QED
    BY <2>1, <2>2 DEF Visited, Listed, TypeOK, updateVars
<1> QED
  BY <1>2, <1>3, <1>4, <1>5, <1>6 DEF Next, UpdateSessions

LEMMA ClosedStep == ASSUME IInv, [Next]_vars PROVE ClosedSessionDeleted'
<1> USE DEF IInv
<1>1. Visited' /\ TypeOK' /\ ListedExact'
  BY VisitedStep, TypeStep, ListedStep
<1>2. phase' = "updating" /\ todo' = {} => Sessions' \subseteq seenOpen'
  BY <1>1 DEF Visited, Sessions, Listed
<1>3. Born \ deleted \subseteq Sessions \cup Pending
  BY DEF ClosedSessionDeleted, Pending
<1>4. SUFFICES Born' \ deleted' \subseteq Sessions' \cup Pending'
  BY <1>2 DEF ClosedSessionDeleted, Pending
<1>5. ASSUME UNCHANGED <<account, deleted, sessions, addSessQueue>>
      PROVE  Born' \ deleted' \subseteq Sessions' \cup Pending'
  BY <1>3, <1>5 DEF Born, Sessions, Listed, Pending
<1>6. Resting \/ (\E l \in Limits : SetPlayerAmountLimit(l)) \/ KickAll
        => UNCHANGED <<account, deleted, sessions, addSessQueue>>
  BY DEF Resting, SetPlayerAmountLimit, KickAll, worldVars, clientVars
<1>7. ASSUME NEW a \in Accounts, AddSession(a)
      PROVE  Born' \ deleted' \subseteq Sessions' \cup Pending'
  <2> DEFINE s == Len(account) + 1
  <2>1. /\ addSessQueue' = Append(addSessQueue, s) /\ account' = Append(account, a)
        /\ deleted' = deleted /\ Sessions' = Sessions
    BY <1>7 DEF AddSession, worldVars, Sessions, Listed
  <2>2. s \in Ids /\ s \notin Born /\ Born = 1..Len(account) /\ Len(account) \in Nat
    BY <1>7, BornIds, SessionQueueAssumption DEF AddSession, Ids
  <2>3. Pending' = Pending \cup {s}
    BY <2>1, <2>2, AppendInjectiveSeq DEF Pending, PendingExact, TypeOK
  <2>4. Born' = Born \cup {s}
    <3>1. account' \in Seq(Accounts) /\ Len(account') = s
      BY <2>1, AppendProperties DEF TypeOK
    <3>2. Born' = 1..Len(account) + 1
      BY <3>1, SetOfSeq DEF Born
    <3> QED
      BY <2>2, <3>2
  <2> QED
    BY <1>3, <2>1, <2>3, <2>4
<1>8. ASSUME RejectSession PROVE Born' \ deleted' \subseteq Sessions' \cup Pending'
  <2>1. /\ addSessQueue # << >> /\ addSessQueue' = Tail(addSessQueue)
        /\ deleted' = deleted \cup {Newcomer} /\ Sessions' = Sessions /\ Born' = Born
    BY <1>8 DEF RejectSession, worldVars, Sessions, Listed, Newcomer, Born
  <2>2. Pending' = Pending \ {Newcomer}
    BY <2>1, NewcomerIsNew DEF Pending
  <2> QED
    BY <1>3, <2>1, <2>2
<1>9. ASSUME AcceptSession PROVE Born' \ deleted' \subseteq Sessions' \cup Pending'
  <2>1. /\ addSessQueue # << >> /\ addSessQueue' = Tail(addSessQueue)
        /\ Sessions' = (Sessions \ {Old}) \cup {Newcomer}
        /\ Listed(Home) => deleted' = deleted \cup {Old}
        /\ ~Listed(Home) => deleted' = deleted
        /\ account' = account
    BY <1>9, Accepted
  <2>2. Pending' = Pending \ {Newcomer} /\ Home \in Accounts
    BY <2>1, NewcomerIsNew DEF Pending
  <2>3. ~Listed(Home) => Old \notin Sessions
    BY SessionsListed DEF Old, Listed
  <2> QED
    BY <1>3, <2>1, <2>2, <2>3 DEF Born
<1>10. ASSUME NEW a \in Accounts, RemoveClosedSession(a)
       PROVE  Born' \ deleted' \subseteq Sessions' \cup Pending'
  <2>1. /\ Sessions' = Sessions \ {sessions[a]} /\ deleted' = deleted \cup {sessions[a]}
        /\ account' = account /\ addSessQueue' = addSessQueue
    BY <1>10, Removed
  <2> QED
    BY <1>3, <2>1 DEF Born, Pending
<1> QED
  BY <1>5, <1>6, <1>7, <1>8, <1>9, <1>10, Steps

-----------------------------------------------------------------------------
(* The limit.                                                              *)

LetIn == Sessions \ (inQueue \cup bypassed)

\* The sizes of the queue and the slots used, in a call of RemoveQueuedPlayer
\* while m_sessions has n entries.
LEMMA LeavesCounts ==
    ASSUME NEW w, NEW s \in Ids, NEW r, LineOK(w), LineOK(r),
           NEW n \in Nat, Len(w.line) <= n, Leaves(w, n, s, r)
    PROVE  LET long == Len(w.line)
               rest == IF s \in ToSet(w.line) THEN long - 1 ELSE long
               used == IF s \in ToSet(w.line) \/ n = long THEN n - long ELSE n - long - 1
           IN  /\ long \in Nat /\ rest \in Nat /\ used \in Nat /\ Len(r.line) \in Nat
               /\ \/ /\ rest = 0 \/ ~SlotFree(used)
                     /\ Len(r.line) = rest
                     /\ r.flagged = IF s \in ToSet(w.line) THEN w.flagged \ {s} ELSE w.flagged
                  \/ SlotFree(used) /\ rest > 0 /\ Len(r.line) = rest - 1
<1> DEFINE long == Len(w.line)
           rest == IF s \in ToSet(w.line) THEN long - 1 ELSE long
           used == IF s \in ToSet(w.line) \/ n = long THEN n - long ELSE n - long - 1
           T    == ToSet(w.line) \ {s}
<1>1. /\ IsFiniteSet(ToSet(w.line)) /\ Cardinality(ToSet(w.line)) = long /\ long \in Nat
      /\ IsFiniteSet(ToSet(r.line)) /\ Cardinality(ToSet(r.line)) = Len(r.line)
      /\ Len(r.line) \in Nat
  BY LengthIsCardinality, SetOfSeq DEF LineOK
<1>2. IsFiniteSet(T) /\ Cardinality(T) = rest
  BY <1>1, FS_RemoveElement
<1>3. rest \in Nat /\ (T = {} <=> rest = 0)
  BY <1>2, FS_CardinalityType, FS_EmptySet
<1>4. SlotsUsed(w, n, s) = used /\ used \in Nat
  BY <1>1 DEF SlotsUsed
<1> HIDE DEF used, rest
<1>5. ASSUME NEW h \in T PROVE Cardinality(T \ {h}) = rest - 1 /\ rest > 0
  <2>1. Cardinality(T \ {h}) = rest - 1
    BY <1>2, FS_RemoveElement
  <2>2. rest # 0
    BY <1>3
  <2> QED
    BY <1>3, <2>1, <2>2
<1>6. ToSet(r.line) = T => Len(r.line) = rest
  BY <1>1, <1>2
<1>7. (\E h \in T : ToSet(r.line) = T \ {h}) => Len(r.line) = rest - 1 /\ rest > 0
  BY <1>1, <1>5
<1>8. \/ /\ T = {} \/ ~SlotFree(used)
         /\ ToSet(r.line) = T
         /\ r.flagged = IF s \in ToSet(w.line) THEN w.flagged \ {s} ELSE w.flagged
      \/ /\ SlotFree(used)
         /\ \E h \in T : ToSet(r.line) = T \ {h}
  BY <1>4 DEF Leaves
<1>9. \/ /\ rest = 0 \/ ~SlotFree(used)
         /\ Len(r.line) = rest
         /\ r.flagged = IF s \in ToSet(w.line) THEN w.flagged \ {s} ELSE w.flagged
      \/ SlotFree(used) /\ rest > 0 /\ Len(r.line) = rest - 1
  BY <1>3, <1>6, <1>7, <1>8
<1> QED
  BY <1>1, <1>3, <1>4, <1>9 DEF used, rest

\* The sessions that are not in line are counted by a subtraction.
LEMMA ActiveCount ==
    ASSUME NEW S, IsFiniteSet(S), NEW q \in Seq(Ids), IsInjective(q), ToSet(q) \subseteq S
    PROVE  /\ IsFiniteSet(S \ ToSet(q)) /\ Cardinality(S) \in Nat
           /\ Len(q) \in Nat /\ Len(q) <= Cardinality(S)
           /\ Cardinality(S \ ToSet(q)) = Cardinality(S) - Len(q)
<1>1. S \cap ToSet(q) = ToSet(q)
  OBVIOUS
<1>2. IsFiniteSet(S \ ToSet(q)) /\ Cardinality(S \ ToSet(q)) = Cardinality(S) - Cardinality(S \cap ToSet(q))
  BY FS_Difference
<1>3. Cardinality(ToSet(q)) = Len(q) /\ Len(q) \in Nat
  BY LengthIsCardinality, SetOfSeq
<1>4. Cardinality(ToSet(q)) <= Cardinality(S) /\ Cardinality(S) \in Nat
  BY FS_Subset, FS_CardinalityType
<1> QED
  BY <1>1, <1>2, <1>3, <1>4

\* A part of a finite set is not larger.
LEMMA NotMore ==
    ASSUME NEW S, NEW T, T \subseteq S, IsFiniteSet(S)
    PROVE  Cardinality(T) \in Nat /\ Cardinality(S) \in Nat /\ Cardinality(T) <= Cardinality(S)
BY FS_Subset, FS_CardinalityType

\* A removal gives away at most the slot that becomes free, and does so.
LEMMA LimitAtRemoval ==
    ASSUME IInv, ~relimited, NEW a \in Accounts, RemoveClosedSession(a)
    PROVE  /\ limit > 0 => Cardinality(LetIn') <= limit
           /\ queue' # << >> => Cardinality(Active') >= limit
<1> USE DEF IInv
<1> DEFINE n     == GetActiveAndQueuedSessionCount
           s     == sessions[a]
           first == RemoveQueuedPlayer(Line, n, s)
           last  == RemoveQueuedPlayer(first, n, s)
<1>1. /\ LineOK(Line) /\ LineOK(first) /\ LineOK(last)
      /\ Leaves(Line, n, s, first) /\ Leaves(first, n, s, last)
      /\ SetLine(last) /\ s \in Sessions /\ s \in Ids
      /\ Sessions' = Sessions \ {s} /\ bypassed' = bypassed
      /\ limit' = limit
  BY Removed, BornIds DEF limitVars
<1> HIDE DEF first, last
<1>2. /\ queue \in Seq(Ids) /\ IsInjective(queue) /\ ToSet(queue) \subseteq Sessions
      /\ IsFiniteSet(Sessions) /\ n \in Nat /\ n = Cardinality(Sessions) /\ limit \in Nat
  BY <1>1, SessionsListed DEF NoDanglingSession, TypeOK, LineOK, Line,
     GetActiveAndQueuedSessionCount
<1>3. /\ Len(queue) \in Nat /\ Len(queue) <= n
      /\ Cardinality(Active) = n - Len(queue)
  BY <1>2, ActiveCount DEF Active
<1>4. IsFiniteSet(Sessions') /\ Cardinality(Sessions') = n - 1
  BY <1>1, <1>2, FS_RemoveElement
<1>5. /\ first.line \in Seq(Ids) /\ IsInjective(first.line)
      /\ ToSet(first.line) \subseteq Sessions' /\ s \notin ToSet(first.line)
      /\ last.line \in Seq(Ids) /\ IsInjective(last.line)
      /\ ToSet(last.line) \subseteq Sessions'
  <2>1. ToSet(first.line) \subseteq ToSet(queue) \ {s}
    BY <1>1, LeavesShrinks DEF Line
  <2>2. ToSet(last.line) \subseteq ToSet(first.line)
    BY <1>1, LeavesShrinks
  <2>3. /\ first.line \in Seq(Ids) /\ IsInjective(first.line)
        /\ last.line \in Seq(Ids) /\ IsInjective(last.line)
    BY <1>1 DEF LineOK
  <2> QED
    BY <1>1, <1>2, <2>1, <2>2, <2>3
<1>6. Len(first.line) \in Nat /\ Len(first.line) <= n - 1
  BY <1>4, <1>5, ActiveCount
<1>7. /\ Cardinality(Active') = (n - 1) - Len(last.line)
      /\ IsFiniteSet(Active') /\ Len(last.line) \in Nat /\ Len(last.line) <= n - 1
  BY <1>1, <1>4, <1>5, ActiveCount DEF Active, SetLine
<1>8. Cardinality(LetIn') <= Cardinality(Active') /\ Cardinality(LetIn') \in Nat
  <2>1. LetIn' \subseteq Active'
    BY <1>1 DEF LetIn, Active, SetLine, LineOK
  <2> QED
    BY <1>7, <2>1, NotMore
<1> HIDE DEF n
<1> DEFINE rest == IF s \in ToSet(queue) THEN Len(queue) - 1 ELSE Len(queue)
           used == IF s \in ToSet(queue) \/ n = Len(queue) THEN n - Len(queue)
                   ELSE n - Len(queue) - 1
           flags == IF s \in ToSet(queue) THEN inQueue \ {s} ELSE inQueue
<1>9. \/ (rest = 0 \/ ~SlotFree(used)) /\ Len(first.line) = rest /\ first.flagged = flags
      \/ SlotFree(used) /\ rest > 0 /\ Len(first.line) = rest - 1
  <2>1. Line.line = queue /\ Line.flagged = inQueue
    BY DEF Line
  <2>2. Len(Line.line) <= n
    BY <1>3, <2>1
  <2> HIDE DEF Line
  <2> QED
    BY <1>1, <1>2, <2>1, <2>2, LeavesCounts
<1>10. \/ /\ Len(first.line) = 0 \/ ~SlotFree(n - Len(first.line) - 1)
          /\ Len(last.line) = Len(first.line) /\ last.flagged = first.flagged
       \/ /\ SlotFree(n - Len(first.line) - 1) /\ Len(first.line) > 0
          /\ Len(last.line) = Len(first.line) - 1
  <2>1. Len(first.line) <= n /\ n # Len(first.line)
    BY <1>2, <1>6
  <2> QED
    BY <1>1, <1>2, <1>5, <2>1, LeavesCounts
<1>11. rest > 0 => Cardinality(Active) >= limit
  <2>1. rest > 0 => queue # << >>
    BY <1>3
  <2> QED
    BY <2>1 DEF LimitExact
<1>12. s \notin ToSet(queue) => Len(queue) <= n - 1
  <2>1. s \notin ToSet(queue) => ToSet(queue) \subseteq Sessions'
    BY <1>1, <1>2
  <2> QED
    BY <1>2, <1>4, <2>1, ActiveCount
<1>13. ASSUME queue' # << >> PROVE Cardinality(Active') >= limit
  <2>1. Len(last.line) > 0
    <3>1. last.line # << >>
      BY <1>1, <1>13 DEF SetLine
    <3> QED
      BY <1>5, <1>7, <3>1, EmptySeq
  <2> QED
    BY <1>2, <1>3, <1>6, <1>7, <1>9, <1>10, <1>11, <1>12, <2>1 DEF SlotFree
<1> HIDE DEF flags
<1>14. ASSUME limit > 0, last.flagged # flags PROVE Cardinality(Active') <= limit
  <2>1. CASE SlotFree(n - Len(first.line) - 1) /\ Len(last.line) = Len(first.line) - 1
    BY <1>2, <1>6, <1>7, <1>14, <2>1 DEF SlotFree
  <2>2. CASE Len(last.line) = Len(first.line) /\ last.flagged = first.flagged
    <3>1. SlotFree(used) /\ rest > 0 /\ Len(first.line) = rest - 1
      BY <1>9, <1>14, <2>2
    <3>2. used < limit
      BY <1>2, <1>14, <3>1 DEF SlotFree
    <3>3. Cardinality(Active') = (n - 1) - (rest - 1)
      BY <1>7, <2>2, <3>1
    <3>4. (n - 1) - (rest - 1) = used + 1
      BY <1>2, <1>3, <1>12
    <3> QED
      BY <1>2, <1>3, <3>2, <3>3, <3>4
  <2> QED
    BY <1>10, <2>1, <2>2
<1>15. ASSUME last.flagged = flags PROVE LetIn' \subseteq LetIn
  BY <1>1, <1>15 DEF LetIn, SetLine, flags
<1>16. ASSUME limit > 0, last.flagged = flags PROVE Cardinality(LetIn') <= limit
  <2>1. LetIn \subseteq Sessions
    BY DEF LetIn
  <2>2. Cardinality(LetIn) <= limit
    BY <1>16 DEF LimitExact, LetIn
  <2>3. IsFiniteSet(LetIn)
    BY <1>2, <2>1, FS_Subset
  <2> QED
    BY <1>2, <1>15, <1>16, <2>2, <2>3, NotMore
<1>17. ASSUME limit > 0, last.flagged # flags PROVE Cardinality(LetIn') <= limit
  BY <1>2, <1>7, <1>8, <1>14, <1>17
<1> QED
  BY <1>13, <1>16, <1>17

\* The counts of AddSession_: the login queue and the sessions without the old
\* session and without the newcomer.
LEMMA CountsAtAccept ==
    ASSUME IInv, ~relimited, AcceptSession
    PROVE  LET base == Sessions \ {Old}
               b    == Cardinality(base)
               m    == Len(Middle.line)
           IN  /\ IsFiniteSet(base) /\ b \in Nat /\ m \in Nat /\ m <= b
               /\ Middle.line \in Seq(Ids) /\ IsInjective(Middle.line)
               /\ ToSet(Middle.line) \subseteq base
               /\ m > 0 => b + 1 - m >= limit
               /\ Full => b - m >= limit
               /\ limit > 0 /\ ~Full => b + 1 <= limit
               /\ \/ base \ Middle.flagged \subseteq Sessions \ inQueue
                  \/ limit > 0 => b - m <= limit
<1> USE DEF IInv
<1> DEFINE n    == GetActiveAndQueuedSessionCount
           base == Sessions \ {Old}
           b    == Cardinality(base)
           q    == Len(queue)
           m    == Len(Middle.line)
<1>1. /\ LineOK(Line) /\ LineOK(Middle) /\ addSessQueue # << >>
      /\ Listed(Home) => Leaves(Line, n, Old, Middle)
  BY Accepted
<1>2. /\ queue \in Seq(Ids) /\ IsInjective(queue) /\ ToSet(queue) \subseteq Sessions
      /\ IsFiniteSet(Sessions) /\ n \in Nat /\ n = Cardinality(Sessions) /\ limit \in Nat
  BY <1>1, SessionsListed DEF NoDanglingSession, TypeOK, LineOK, Line,
     GetActiveAndQueuedSessionCount
<1>3. /\ q \in Nat /\ q <= n /\ Cardinality(Active) = n - q
  BY <1>2, ActiveCount DEF Active
<1>4. q > 0 => n - q >= limit
  <2>1. q > 0 => queue # << >>
    OBVIOUS
  <2> QED
    BY <1>3, <2>1 DEF LimitExact
<1>5. Middle.line \in Seq(Ids) /\ IsInjective(Middle.line)
  BY <1>1 DEF LineOK
<1>6. CASE ~Listed(Home)
  <2>1. Old \notin Sessions /\ Old = NoSession
    BY <1>6, SessionsListed DEF Old, Listed
  <2>2. base = Sessions /\ Middle.line = queue /\ Middle.flagged = inQueue
    BY <1>6, <2>1 DEF Middle, Line
  <2>3. b = n /\ m = q /\ Others = n
    BY <1>2, <1>6, <2>2 DEF Others
  <2>4. Full <=> limit > 0 /\ n >= limit
    BY <2>3 DEF Full
  <2>5. Full => n - q >= limit
    BY <1>2, <1>3, <1>4, <2>4
  <2> HIDE DEF n, b, q, m, base
  <2>6. /\ m > 0 => b + 1 - m >= limit
        /\ Full => b - m >= limit
        /\ limit > 0 /\ ~Full => b + 1 <= limit
    BY <1>2, <1>3, <1>4, <2>3, <2>4, <2>5
  <2> QED
    BY <1>2, <1>3, <1>5, <2>2, <2>3, <2>6 DEF n, b, q, m, base
<1>7. CASE Listed(Home)
  <2>1. Old \in Sessions /\ Old \in Ids
    BY <1>1, <1>7, NewcomerIsNew, SessionsListed, BornIds DEF Old
  <2>2. b = n - 1 /\ IsFiniteSet(base) /\ b \in Nat
    BY <1>2, <2>1, FS_RemoveElement, FS_CardinalityType
  <2>3. ToSet(Middle.line) \subseteq base
    <3>1. ToSet(Middle.line) \subseteq ToSet(queue) \ {Old}
      BY <1>1, <1>7, LeavesShrinks DEF Line
    <3> QED
      BY <1>2, <3>1
  <2>4. m \in Nat /\ m <= b
    BY <1>5, <2>2, <2>3, ActiveCount
  <2>5. Old \notin ToSet(queue) => q <= n - 1
    <3>1. Old \notin ToSet(queue) => ToSet(queue) \subseteq base
      BY <1>2
    <3> QED
      BY <1>2, <2>2, <3>1, ActiveCount
  <2> HIDE DEF n
  <2> DEFINE rest  == IF Old \in ToSet(queue) THEN q - 1 ELSE q
             used  == IF Old \in ToSet(queue) \/ n = q THEN n - q ELSE n - q - 1
             flags == IF Old \in ToSet(queue) THEN inQueue \ {Old} ELSE inQueue
  <2>6. \/ (rest = 0 \/ ~SlotFree(used)) /\ m = rest /\ Middle.flagged = flags
        \/ SlotFree(used) /\ rest > 0 /\ m = rest - 1
    <3>1. Line.line = queue /\ Line.flagged = inQueue
      BY DEF Line
    <3>2. Len(Line.line) <= n
      BY <1>3, <3>1
    <3> HIDE DEF Line
    <3> QED
      BY <1>1, <1>2, <1>7, <2>1, <3>1, <3>2, LeavesCounts
  <2>7. Middle.flagged = flags => base \ Middle.flagged \subseteq Sessions \ inQueue
    OBVIOUS
  <2> HIDE DEF b, q, m, base, flags
  <2>8. Others = IF Old \in ToSet(queue) THEN n ELSE n - 1
    BY <1>7 DEF Others, n
  <2>9. rest \in Nat
    <3>1. Old \in ToSet(queue) => q > 0
      <4>1. Old \in ToSet(queue) => \E i \in 1..Len(queue) : Old = queue[i]
        BY <1>2, SetOfSeq
      <4> QED
        BY <1>3, <4>1 DEF q
    <3> QED
      BY <1>3, <3>1
  <2>10. m > 0 => b + 1 - m >= limit
    BY <1>2, <1>3, <1>4, <2>2, <2>4, <2>5, <2>6, <2>9
  <2>11. Full => b - m >= limit
    <3>1. ASSUME Full, Old \in ToSet(queue) PROVE b - m >= limit
      <4>1. q > 0 /\ ~SlotFree(used) /\ m = q - 1
        BY <1>2, <1>3, <1>4, <2>6, <2>9, <3>1 DEF Full, SlotFree
      <4> QED
        BY <1>2, <1>3, <1>4, <2>2, <4>1
    <3>2. ASSUME Full, Old \notin ToSet(queue) PROVE b - m >= limit
      <4>1. limit > 0 /\ n - 1 >= limit /\ rest = q /\ used = n - q - 1
        BY <1>2, <1>3, <2>5, <2>8, <3>2 DEF Full
      <4> HIDE DEF rest, used
      <4>2. SlotFree(used) <=> used < limit
        BY <4>1 DEF SlotFree
      <4> QED
        BY <1>2, <1>3, <1>4, <2>2, <2>6, <4>1, <4>2
    <3> QED
      BY <3>1, <3>2
  <2>12. limit > 0 /\ ~Full => b + 1 <= limit
    BY <1>2, <1>3, <2>2, <2>8 DEF Full
  <2>13. \/ base \ Middle.flagged \subseteq Sessions \ inQueue
         \/ limit > 0 => b - m <= limit
    <3>1. ASSUME limit > 0, SlotFree(used), rest > 0, m = rest - 1 PROVE b - m <= limit
      <4>1. used < limit
        BY <1>2, <3>1 DEF SlotFree
      <4>2. b - m = used + 1
        BY <1>2, <1>3, <2>2, <2>5, <3>1
      <4> QED
        BY <1>2, <1>3, <4>1, <4>2
    <3> QED
      BY <2>6, <2>7, <3>1
  <2> QED
    BY <1>5, <2>2, <2>3, <2>4, <2>10, <2>11, <2>12, <2>13 DEF b, m, base
<1> QED
  BY <1>6, <1>7

\* A newcomer takes a free slot, or waits while there is none.
LEMMA LimitAtAccept ==
    ASSUME IInv, ~relimited, AcceptSession
    PROVE  /\ limit > 0 => Cardinality(LetIn') <= limit
           /\ queue' # << >> => Cardinality(Active') >= limit
<1> USE DEF IInv
<1> DEFINE base == Sessions \ {Old}
           b    == Cardinality(base)
           m    == Len(Middle.line)
<1>1. /\ LineOK(Middle) /\ addSessQueue # << >>
      /\ Sessions' = base \cup {Newcomer}
      /\ limit' = limit
      /\ \/ /\ Full
            /\ SetLine(AddQueuedPlayer(Middle, Newcomer))
            /\ UNCHANGED bypassed
         \/ /\ SetLine(Middle)
            /\ bypassed' = IF Full THEN bypassed \cup {Newcomer} ELSE bypassed
  BY Accepted DEF limitVars
<1>2. /\ IsFiniteSet(base) /\ b \in Nat /\ m \in Nat /\ m <= b
      /\ Middle.line \in Seq(Ids) /\ IsInjective(Middle.line)
      /\ ToSet(Middle.line) \subseteq base
      /\ m > 0 => b + 1 - m >= limit
      /\ Full => b - m >= limit
      /\ limit > 0 /\ ~Full => b + 1 <= limit
      /\ \/ base \ Middle.flagged \subseteq Sessions \ inQueue
         \/ limit > 0 => b - m <= limit
  BY CountsAtAccept
<1>3. Newcomer \in Ids /\ Newcomer \notin base
  BY <1>1, NewcomerIsNew, BornIds
<1>4. limit \in Nat /\ (limit > 0 => Cardinality(LetIn) <= limit) /\ IsFiniteSet(LetIn)
  <2>1. IsFiniteSet(LetIn)
    BY SessionsListed, FS_Subset DEF LetIn
  <2> QED
    BY <2>1 DEF LimitExact, LetIn, TypeOK
<1>5. IsFiniteSet(base \cup {Newcomer}) /\ Cardinality(base \cup {Newcomer}) = b + 1
  BY <1>2, <1>3, FS_AddElement
<1>6. /\ IsFiniteSet(base \ ToSet(Middle.line))
      /\ Cardinality(base \ ToSet(Middle.line)) = b - m
  BY <1>2, ActiveCount
<1>7. /\ Cardinality((base \cup {Newcomer}) \ ToSet(Middle.line)) = (b + 1) - m
  BY <1>2, <1>5, ActiveCount
<1>8. ToSet(Middle.line) \subseteq Middle.flagged
  BY <1>1 DEF LineOK
<1>9. Newcomer \notin ToSet(Middle.line)
  BY <1>2, <1>3
<1> HIDE DEF b, m, base
<1>10. ASSUME limit > 0, LetIn' \subseteq base \ Middle.flagged,
              bypassed \subseteq bypassed', LetIn' \cap bypassed' = {}
       PROVE  Cardinality(LetIn') <= limit
  <2>1. LetIn' \subseteq base \ ToSet(Middle.line)
    BY <1>8, <1>10
  <2>2. CASE base \ Middle.flagged \subseteq Sessions \ inQueue
    <3>1. LetIn' \subseteq LetIn
      BY <1>10, <2>2 DEF LetIn
    <3> QED
      BY <1>4, <1>10, <3>1, NotMore
  <2>3. CASE b - m <= limit
    BY <1>2, <1>4, <1>6, <2>1, <2>3, NotMore
  <2> QED
    BY <1>2, <1>10, <2>2, <2>3
<1>11. CASE Full /\ SetLine(AddQueuedPlayer(Middle, Newcomer)) /\ UNCHANGED bypassed
  <2>1. /\ ToSet(queue') = ToSet(Middle.line) \cup {Newcomer}
        /\ inQueue' = Middle.flagged \cup {Newcomer}
    BY <1>1, <1>3, <1>9, <1>11, AddQueuedPlayerProperties DEF SetLine
  <2>2. Active' = base \ ToSet(Middle.line)
    BY <1>1, <1>3, <2>1 DEF Active
  <2>3. LetIn' = (base \ Middle.flagged) \ bypassed
    BY <1>1, <1>3, <1>11, <2>1 DEF LetIn
  <2>4. limit > 0 => Cardinality(LetIn') <= limit
    BY <1>10, <1>11, <2>3
  <2> QED
    BY <1>2, <1>6, <1>11, <2>2, <2>4
<1>12. CASE /\ SetLine(Middle)
            /\ bypassed' = IF Full THEN bypassed \cup {Newcomer} ELSE bypassed
  <2>1. queue' = Middle.line /\ inQueue' = Middle.flagged
    BY <1>12 DEF SetLine
  <2>2. Active' = (base \cup {Newcomer}) \ ToSet(Middle.line)
    BY <1>1, <2>1 DEF Active
  <2>3. queue' # << >> => m > 0
    <3>1. Middle.line # << >> => Len(Middle.line) # 0
      BY <1>2, EmptySeq
    <3> QED
      BY <1>2, <2>1, <3>1 DEF m
  <2>4. ASSUME limit > 0, Full PROVE Cardinality(LetIn') <= limit
    <3>1. bypassed' = bypassed \cup {Newcomer}
      BY <1>12, <2>4
    <3>2. LetIn' = (base \ Middle.flagged) \ bypassed'
      BY <1>1, <2>1, <3>1 DEF LetIn
    <3> QED
      BY <1>10, <2>4, <3>1, <3>2
  <2>5. ASSUME limit > 0, ~Full PROVE Cardinality(LetIn') <= limit
    <3>1. LetIn' \subseteq base \cup {Newcomer}
      BY <1>1 DEF LetIn
    <3> QED
      BY <1>2, <1>4, <1>5, <2>5, <3>1, NotMore
  <2> QED
    BY <1>2, <1>7, <2>2, <2>3, <2>4, <2>5
<1> QED
  BY <1>1, <1>11, <1>12

LEMMA LimitStep == ASSUME IInv, [Next]_vars PROVE LimitExact'
<1> USE DEF IInv
<1>1. LimitExact' <=>
        (~relimited' => /\ limit' > 0 => Cardinality(LetIn') <= limit'
                        /\ queue' # << >> => Cardinality(Active') >= limit')
  BY DEF LimitExact, LetIn
<1>2. ASSUME UNCHANGED <<sessions, inQueue, bypassed, limit, relimited>>,
             queue' \in {queue, << >>}
      PROVE  LimitExact'
  <2>1. Sessions' = Sessions /\ LetIn' = LetIn
    BY <1>2 DEF LetIn, Sessions, Listed
  <2>2. queue' # << >> => queue' = queue /\ Active' = Active
    BY <1>2, <2>1 DEF Active
  <2> QED
    BY <1>1, <1>2, <2>1, <2>2 DEF LimitExact, LetIn
<1>3. Resting \/ RejectSession \/ KickAll \/ (\E a \in Accounts : AddSession(a)) => LimitExact'
  BY <1>2 DEF Resting, RejectSession, KickAll, AddSession, worldVars, limitVars
<1>4. ASSUME NEW l \in Limits, SetPlayerAmountLimit(l) PROVE LimitExact'
  BY <1>1, <1>4 DEF SetPlayerAmountLimit
<1>5. ASSUME AcceptSession PROVE LimitExact'
  <2>1. limit' = limit /\ relimited' = relimited
    BY <1>5, Accepted DEF limitVars
  <2> QED
    BY <1>1, <1>5, <2>1, LimitAtAccept
<1>6. ASSUME NEW a \in Accounts, RemoveClosedSession(a) PROVE LimitExact'
  <2>1. limit' = limit /\ relimited' = relimited
    BY <1>6, Removed DEF limitVars
  <2> QED
    BY <1>1, <1>6, <2>1, LimitAtRemoval
<1> QED
  BY <1>3, <1>4, <1>5, <1>6, Steps

-----------------------------------------------------------------------------
(* The theorems.                                                           *)

LEMMA InitIInv == Init => IInv
<1> SUFFICES ASSUME Init PROVE IInv
  OBVIOUS
<1>1. /\ Len(<< >>) = 0 /\ ToSet(<< >>) = {} /\ DOMAIN << >> = {} /\ IsInjective(<< >>)
      /\ \A S : << >> \in Seq(S)
  BY DEF ToSet, IsInjective
<1>2. Sessions = {} /\ Born = {} /\ \A a \in Accounts : ~Listed(a)
  BY <1>1 DEF Init, Sessions, Listed, Born
<1>3. TypeOK
  <2>1. /\ account = << >> /\ addSessQueue = << >> /\ queue = << >>
        /\ closed = {} /\ loading = {} /\ deleted = {} /\ inQueue = {} /\ todo = {}
        /\ bypassed = {} /\ seenOpen = {} /\ now = 0 /\ limit = InitialLimit
        /\ phase = "idle" /\ relimited = FALSE
    BY DEF Init
  <2>2. 0 \in 0..MaxSessions /\ 0 \in 0..MaxTime /\ InitialLimit \in Nat /\ 0 <= MaxSessions
    BY SessionQueueAssumption
  <2>3. told \in [Ids -> 0..MaxSessions]
    BY <2>2 DEF Init, Ids
  <2>4. sessions \in [Accounts -> Ids \cup {NoSession}]
    BY DEF Init
  <2>5. disconnects \in [Accounts -> {Never} \cup 0..now]
    BY DEF Init
  <2> QED
    BY <1>1, <2>1, <2>2, <2>3, <2>4, <2>5 DEF TypeOK
<1>4. LimitExact
  <2>1. Sessions \ (inQueue \cup bypassed) = {} /\ Cardinality({}) = 0
    BY <1>2, FS_EmptySet
  <2>2. queue = << >> /\ limit \in Nat
    BY SessionQueueAssumption DEF Init
  <2>3. limit > 0 => 0 <= limit
    BY <2>2
  <2>4. limit > 0 => Cardinality(Sessions \ (inQueue \cup bypassed)) <= limit
    BY <2>1, <2>3, Zenon
  <2> QED
    BY <2>2, <2>4 DEF LimitExact
<1> QED
  BY <1>1, <1>2, <1>3, <1>4 DEF IInv, Init, PendingExact, Pending, ListedExact, FlagsCover,
     Visited, NoDanglingSession, QueueExact, ClosedSessionDeleted

\* Every step of World and its network threads keeps the invariant.
LEMMA IInvStep == IInv /\ [Next]_vars => IInv'
BY TypeStep, PendingStep, ListedStep, FlagsStep, VisitedStep, DanglingStep, QueueExactStep,
   LimitStep, ClosedStep DEF IInv

THEOREM IInvCorrect == Spec => []IInv
<1>1. Init => IInv
  BY InitIInv
<1>2. IInv /\ [Next]_vars => IInv'
  BY IInvStep
<1> QED
  BY <1>1, <1>2, PTL DEF Spec

\* Every variable keeps its type: no queue position exceeds the number of
\* sessions, no disconnection is recorded for the future.
THEOREM TypeCorrect == Spec => []TypeOK
BY IInvCorrect, PTL DEF IInv

\* World::UpdateSessions never leaves a pointer to a deleted session in
\* addSessQueue, m_sessions or m_QueuedPlayer, whatever order sessions are
\* created, replaced, kicked and disconnected in.
THEOREM NoSessionDangles == Spec => []NoDanglingSession
BY IInvCorrect, PTL DEF IInv

\* m_inQueue and the positions sent by AddQueuedPlayer and RemoveQueuedPlayer
\* agree with m_QueuedPlayer.
THEOREM QueueCorrect == Spec => []QueueExact
BY IInvCorrect, PTL DEF IInv

\* The arithmetic of AddSession_ and RemoveQueuedPlayer on the sizes of
\* m_sessions and m_QueuedPlayer keeps the player limit, and leaves nobody
\* waiting while a slot is free.
THEOREM LimitCorrect == Spec => []LimitExact
BY IInvCorrect, PTL DEF IInv

\* UpdateSessions forgets no session, and lists only sessions it found open
\* when it ends.
THEOREM ClosedDeleted == Spec => []ClosedSessionDeleted
BY IInvCorrect, PTL DEF IInv

=============================================================================
