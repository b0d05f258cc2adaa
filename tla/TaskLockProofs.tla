--------------------------- MODULE TaskLockProofs ---------------------------
(***************************************************************************)
(* What the components that queue tasks rest on, for a TaskLock and for a  *)
(* CapacityLimiter: its line is a sequence of tasks, whatever leaves it    *)
(* and from which place, and every slot is accounted for.                  *)
(***************************************************************************)
EXTENDS TaskLock, SequenceTheorems, FiniteSetTheorems, TLAPS

(* Removing one place of a sequence leaves a shorter sequence of the rest. *)
LEMMA RemoveAtProperties ==
  ASSUME NEW S, NEW s \in Seq(S), NEW i \in 1..Len(s)
  PROVE  /\ RemoveAt(s, i) \in Seq(S)
         /\ Len(RemoveAt(s, i)) = Len(s) - 1
         /\ \A j \in 1..(Len(s) - 1) :
              RemoveAt(s, i)[j] = IF j < i THEN s[j] ELSE s[j + 1]
<1> DEFINE front == SubSeq(s, 1, i - 1)
           back  == SubSeq(s, i + 1, Len(s))
<1>1. Len(s) \in Nat /\ \A j \in 1..Len(s) : s[j] \in S
  BY LenProperties, ElementOfSeq
<1>2. /\ front \in Seq(S)
      /\ Len(front) = i - 1
      /\ \A j \in 1..(i - 1) : front[j] = s[j]
  <2>1. \A j \in 1..(i - 1) : s[j] \in S
    BY <1>1
  <2> QED
    BY <1>1, <2>1, SubSeqProperties
<1>3. /\ back \in Seq(S)
      /\ Len(back) = Len(s) - i
      /\ \A j \in 1..(Len(s) - i) : back[j] = s[j + i]
  <2>1. \A j \in (i + 1)..Len(s) : s[j] \in S
    BY <1>1
  <2>2. /\ back \in Seq(S)
        /\ Len(back) = IF i + 1 <= Len(s) THEN Len(s) - (i + 1) + 1 ELSE 0
        /\ \A j \in 1..(Len(s) - (i + 1) + 1) : back[j] = s[(i + 1) + j - 1]
    BY <1>1, <2>1, SubSeqProperties
  <2> QED
    BY <1>1, <2>2
<1>4. /\ front \o back \in Seq(S)
      /\ Len(front \o back) = Len(front) + Len(back)
      /\ \A j \in 1..(Len(front) + Len(back)) : (front \o back)[j] =
           IF j <= Len(front) THEN front[j] ELSE back[j - Len(front)]
  BY <1>2, <1>3, ConcatProperties
<1>5. RemoveAt(s, i) = front \o back
  BY DEF RemoveAt
<1> HIDE DEF front, back
<1>6. Len(RemoveAt(s, i)) = Len(s) - 1
  <2>1. Len(front) + Len(back) = Len(s) - 1
    BY <1>1, <1>2, <1>3
  <2>2. Len(RemoveAt(s, i)) = Len(front) + Len(back)
    BY <1>4, <1>5, Zenon
  <2> QED
    BY <2>1, <2>2
<1>7. ASSUME NEW j \in 1..(Len(s) - 1)
      PROVE  RemoveAt(s, i)[j] = IF j < i THEN s[j] ELSE s[j + 1]
  <2>1. CASE j < i
    BY <1>1, <1>2, <1>3, <1>4, <1>5, <2>1
  <2>2. CASE ~(j < i)
    <3>1. j - (i - 1) \in 1..(Len(s) - i)
      BY <1>1, <2>2
    <3>2. back[j - (i - 1)] = s[j + 1]
      BY <1>1, <1>3, <3>1
    <3> QED
      BY <1>1, <1>2, <1>3, <1>4, <1>5, <2>2, <3>2
  <2> QED
    BY <2>1, <2>2
<1> QED
  BY <1>4, <1>5, <1>6, <1>7

(* Whoever leaves hands the lock to a task that waits, or to no one. *)
LEMMA ReleaseKeeps ==
  ASSUME waiters \in Seq(Caller), Release
  PROVE  owner' \in Caller \cup {NoOne} /\ waiters' \in Seq(Caller)
<1>1. CASE waiters = <<>>
  BY <1>1 DEF Release
<1>2. CASE waiters # <<>>
  BY <1>2, HeadTailProperties DEF Release
<1> QED
  BY <1>1, <1>2

(* A waiter that withdraws leaves the others in line. *)
LEMMA WithdrawKeeps ==
  ASSUME owner \in Caller \cup {NoOne}, waiters \in Seq(Caller), NEW c, Withdraw(c)
  PROVE  owner' \in Caller \cup {NoOne} /\ waiters' \in Seq(Caller)
<1>1. CASE owner = c
  BY <1>1, ReleaseKeeps DEF Withdraw
<1>2. CASE owner # c
  <2>1. PICK i \in DOMAIN waiters : waiters' = RemoveAt(waiters, i) /\ UNCHANGED owner
    BY <1>2 DEF Withdraw, LeaveLine
  <2>2. i \in 1..Len(waiters)
    BY LenProperties
  <2> QED
    BY <2>1, <2>2, RemoveAtProperties
<1> QED
  BY <1>1, <1>2

(* A task that joins the line is one of the tasks. *)
LEMMA JoinKeeps ==
  ASSUME waiters \in Seq(Caller), NEW c \in Caller, JoinLine(c)
  PROVE  waiters' \in Seq(Caller)
BY AppendProperties DEF JoinLine
-----------------------------------------------------------------------------
(* Tasks that queue for a bounded number of slots, as CapacityLimiter keeps
   them: h hold one, ln waits in order, and together they are the users. *)

Accounted(h, ln, users, n) ==
  /\ IsFiniteSet(h)
  /\ Cardinality(h) <= n
  /\ ln # <<>> => Cardinality(h) = n
  /\ h \subseteq users
  /\ \A i \in 1..Len(ln) : ln[i] \in users \ h
  /\ \A i, j \in 1..Len(ln) : ln[i] = ln[j] => i = j
  /\ \A u \in users \ h : \E i \in 1..Len(ln) : ln[i] = u

(* A newcomer takes a free slot, or waits behind those who wait. *)
LEMMA NewcomerIsAccounted ==
  ASSUME NEW T, NEW h \in SUBSET T, NEW ln \in Seq(T), NEW users, NEW n \in Nat,
         NEW c \in T, Accounted(h, ln, users, n), c \notin users
  PROVE  /\ ln = <<>> /\ Cardinality(h) < n
              => Accounted(h \cup {c}, ln, users \cup {c}, n)
         /\ ~(ln = <<>> /\ Cardinality(h) < n)
              => Accounted(h, Append(ln, c), users \cup {c}, n)
<1> USE DEF Accounted
<1>1. Cardinality(h) \in Nat /\ c \notin h
  BY FS_CardinalityType
<1>2. ASSUME ln = <<>>, Cardinality(h) < n
      PROVE  Accounted(h \cup {c}, ln, users \cup {c}, n)
  <2>1. IsFiniteSet(h \cup {c}) /\ Cardinality(h \cup {c}) = Cardinality(h) + 1
    BY <1>1, FS_AddElement
  <2>2. Len(ln) = 0
    BY <1>2
  <2> QED
    BY <1>1, <1>2, <2>1, <2>2
<1>3. ASSUME ~(ln = <<>> /\ Cardinality(h) < n)
      PROVE  Accounted(h, Append(ln, c), users \cup {c}, n)
  <2> DEFINE new == Append(ln, c)
  <2>1. /\ new \in Seq(T)
        /\ Len(new) = Len(ln) + 1
        /\ \A i \in 1..Len(ln) : new[i] = ln[i]
        /\ new[Len(ln) + 1] = c
    BY AppendProperties
  <2>2. Len(ln) \in Nat
    BY LenProperties
  <2>3. Cardinality(h) = n
    BY <1>1, <1>3
  <2> HIDE DEF new
  <2>4. \A i \in 1..Len(new) : new[i] \in (users \cup {c}) \ h
    BY <1>1, <2>1, <2>2
  <2>5. \A i, j \in 1..Len(new) : new[i] = new[j] => i = j
    BY <2>1, <2>2
  <2>6. \A u \in (users \cup {c}) \ h : \E i \in 1..Len(new) : new[i] = u
    BY <2>1, <2>2
  <2> QED
    BY <2>3, <2>4, <2>5, <2>6 DEF new
<1> QED
  BY <1>2, <1>3

(* A slot given back goes to whoever has waited longest, if anyone has. *)
LEMMA SlotGivenBackIsAccounted ==
  ASSUME NEW T, NEW h \in SUBSET T, NEW ln \in Seq(T), NEW users, NEW n \in Nat,
         NEW c \in h, Accounted(h, ln, users, n)
  PROVE  /\ ln = <<>> => Accounted(h \ {c}, ln, users \ {c}, n)
         /\ ln # <<>> => Accounted((h \ {c}) \cup {Head(ln)}, Tail(ln), users \ {c}, n)
<1> USE DEF Accounted
<1>1. /\ Cardinality(h) \in Nat
      /\ IsFiniteSet(h \ {c})
      /\ Cardinality(h \ {c}) = Cardinality(h) - 1
  BY FS_CardinalityType, FS_RemoveElement
<1>2. ASSUME ln = <<>> PROVE Accounted(h \ {c}, ln, users \ {c}, n)
  BY <1>1, <1>2
<1>3. ASSUME ln # <<>>
      PROVE  Accounted((h \ {c}) \cup {Head(ln)}, Tail(ln), users \ {c}, n)
  <2> DEFINE first == Head(ln)
             rest  == Tail(ln)
             held  == (h \ {c}) \cup {first}
  <2>1. /\ Len(ln) \in Nat
        /\ Len(ln) >= 1
        /\ first = ln[1]
    BY <1>3, LenProperties, EmptySeq, HeadTailProperties
  <2>2. /\ rest \in Seq(T)
        /\ Len(rest) = Len(ln) - 1
        /\ \A i \in 1..(Len(ln) - 1) : rest[i] = ln[i + 1]
    BY <1>3, <2>1, HeadTailProperties
  <2>3. first \in users \ h
    BY <2>1
  <2> HIDE DEF first, rest
  <2>4. IsFiniteSet(held) /\ Cardinality(held) = Cardinality(h)
    <3>1. first \notin h \ {c}
      BY <2>3
    <3>2. /\ IsFiniteSet((h \ {c}) \cup {first})
          /\ Cardinality((h \ {c}) \cup {first}) = Cardinality(h \ {c}) + 1
      BY <1>1, <3>1, FS_AddElement
    <3> QED
      BY <1>1, <3>2
  <2>5. \A i \in 1..Len(rest) : rest[i] \in (users \ {c}) \ held
    BY <2>1, <2>2
  <2>6. \A i, j \in 1..Len(rest) : rest[i] = rest[j] => i = j
    BY <2>1, <2>2
  <2>7. ASSUME NEW u \in (users \ {c}) \ held
        PROVE  \E i \in 1..Len(rest) : rest[i] = u
    <3>1. PICK i \in 1..Len(ln) : ln[i] = u
      BY <2>7
    <3>2. i # 1
      BY <2>1, <2>7, <3>1
    <3>3. i - 1 \in 1..Len(rest) /\ rest[i - 1] = ln[i]
      BY <2>1, <2>2, <3>2
    <3> QED
      BY <3>1, <3>3
  <2>8. held \subseteq users \ {c}
    BY <2>3
  <2>9. Cardinality(held) = n
    BY <1>3, <2>4
  <2> QED
    BY <2>4, <2>5, <2>6, <2>7, <2>8, <2>9 DEF first, rest
<1> QED
  BY <1>2, <1>3

(* Whoever stops waiting leaves the others in line, and the slots as they are. *)
LEMMA LeaverIsAccounted ==
  ASSUME NEW T, NEW h \in SUBSET T, NEW ln \in Seq(T), NEW users, NEW n \in Nat,
         Accounted(h, ln, users, n), NEW p \in 1..Len(ln)
  PROVE  Accounted(h, RemoveAt(ln, p), users \ {ln[p]}, n)
<1> USE DEF Accounted
<1> DEFINE rest == RemoveAt(ln, p)
<1>1. /\ rest \in Seq(T)
      /\ Len(rest) = Len(ln) - 1
      /\ \A j \in 1..(Len(ln) - 1) : rest[j] = IF j < p THEN ln[j] ELSE ln[j + 1]
  BY RemoveAtProperties
<1>2. Len(ln) \in Nat /\ ln # <<>>
  BY LenProperties
<1> HIDE DEF rest
<1>3. \A j \in 1..Len(rest) :
        \E i \in 1..Len(ln) : i = (IF j < p THEN j ELSE j + 1) /\ i # p /\ rest[j] = ln[i]
  BY <1>1, <1>2
<1>4. \A i \in 1..Len(rest) : rest[i] \in (users \ {ln[p]}) \ h
  BY <1>3
<1>5. \A i, j \in 1..Len(rest) : rest[i] = rest[j] => i = j
  BY <1>1, <1>2, <1>3
<1>6. ASSUME NEW u \in (users \ {ln[p]}) \ h
      PROVE  \E i \in 1..Len(rest) : rest[i] = u
  <2>1. PICK i \in 1..Len(ln) : ln[i] = u
    BY <1>6
  <2>2. i # p
    BY <1>6, <2>1
  <2>3. CASE i < p
    BY <1>1, <1>2, <2>1, <2>3
  <2>4. CASE i > p
    <3>1. i - 1 \in 1..Len(rest) /\ rest[i - 1] = ln[i]
      BY <1>1, <1>2, <2>4
    <3> QED
      BY <2>1, <3>1
  <2> QED
    BY <2>2, <2>3, <2>4
<1>7. h \subseteq users \ {ln[p]}
  OBVIOUS
<1> QED
  BY <1>2, <1>4, <1>5, <1>6, <1>7 DEF rest
=============================================================================
