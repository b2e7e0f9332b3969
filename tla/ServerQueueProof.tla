--------------------------- MODULE ServerQueueProof ---------------------------
(***************************************************************************)
(* Proofs about ServerQueue, for any number of readers and slots and       *)
(* answers of any length: a task is in one place, its last result is the   *)
(* last one its reader sees, and by then the reader has all the tokens.    *)
(***************************************************************************)
EXTENDS ServerQueue, FiniteSetTheorems, FunctionTheorems, SequenceTheorems,
        WellFoundedInduction, TLAPS

(***************************************************************************)
(* The inductive invariant.                                                *)
(***************************************************************************)
\* What the inference thread has in its hands, where it is.
Hands ==
    /\ loop = "process" => current \in TaskTypes
    /\ loop \in {"finish", "release"} => current \in pending
    /\ loop \in {"slots", "finish", "release"} => \A s \in pending : slot[s] # None

\* Who waits for results, where it is.
Waits == \A r \in Readers :
            /\ reader[r] \in {"post", "next", "received", "stop"} => r \in waiting
            /\ reader[r] \in {"new", "served", "cancel", "stopped"} => r \notin waiting

\* No task is there before its reader has posted it, and no result of it.
Places(r) == {i \in DOMAIN results : results[i].of = r}
Posted == \A r \in Readers : reader[r] \in {"new", "post"} => Copies(r) = 0
Unanswered == \A r \in Readers : reader[r] \in {"new", "post"} => Places(r) = {}

\* A task has ended when its last result was sent: then it is nowhere, except
\* for the slot that sent it, until the inference thread releases that slot.
Closing(x) == x.kind # "partial"
Ended(r) == \/ reader[r] \in {"received", "served"}
            \/ \E i \in Places(r) : Closing(results[i])
Ends == \A r \in Readers : Ended(r) => Copies(r) = 0 \/ Releasing(r)

\* No result of its task comes after the last one, queued or taken.
LastIsLast ==
    /\ \A r \in Readers : \A i, j \in Places(r) : i < j => ~Closing(results[i])
    /\ \A r \in Readers : reader[r] \in {"received", "served"} => Places(r) = {}

\* A token sampled for a reader that has not left is received or queued.
Partials(r) == Count(results, [kind |-> "partial", of |-> r])
Balance == \A r \in Readers :
              reader[r] \in {"new", "post", "next", "received", "served"} =>
                 got[r] + Partials(r) = sampled[r]

Answers == Unanswered /\ LastIsLast /\ Balance /\ NoStaleResult
IInv == /\ TypeOK /\ Hands /\ Waits
        /\ TaskOnce /\ Posted /\ Ends
        /\ Answers
-----------------------------------------------------------------------------
(***************************************************************************)
(* Counting in sequences, and in the slots.                                *)
(***************************************************************************)
\* In a finite domain an element is counted, and not counted when it is absent.
LEMMA CountTyped ==
    ASSUME NEW s, NEW x, IsFiniteSet(DOMAIN s)
    PROVE  /\ IsFiniteSet({i \in DOMAIN s : s[i] = x}) /\ Count(s, x) \in Nat
           /\ Count(s, x) = 0 <=> \A i \in DOMAIN s : s[i] # x
<1> DEFINE places == {i \in DOMAIN s : s[i] = x}
<1>1. IsFiniteSet(places)
  BY FS_Subset
<1>2. Cardinality(places) \in Nat /\ (Cardinality(places) = 0 <=> places = {})
  BY <1>1, FS_CardinalityType, FS_EmptySet
<1> QED BY <1>1, <1>2 DEF Count

\* A sequence has such a domain.
LEMMA SeqFinite ==
    ASSUME NEW S, NEW s \in Seq(S)
    PROVE  /\ IsFiniteSet(DOMAIN s) /\ DOMAIN s = 1..Len(s) /\ Len(s) \in Nat
           /\ \A i \in DOMAIN s : s[i] \in S
<1>1. Len(s) \in Nat /\ DOMAIN s = 1..Len(s) /\ s \in [1..Len(s) -> S]
  BY LenProperties
<1>2. IsFiniteSet(1..Len(s))
  BY <1>1, FS_Interval
<1> QED BY <1>1, <1>2

\* So its counts are numbers.
LEMMA CountSeq ==
    ASSUME NEW S, NEW s \in Seq(S), NEW x
    PROVE  /\ Count(s, x) \in Nat
           /\ Count(s, x) = 0 <=> \A i \in DOMAIN s : s[i] # x
  BY SeqFinite, CountTyped

\* The empty sequence holds nothing.
LEMMA CountEmpty == ASSUME NEW x PROVE Count(<<>>, x) = 0
<1>1. {i \in DOMAIN <<>> : <<>>[i] = x} = {}
  OBVIOUS
<1> QED BY <1>1, FS_EmptySet DEF Count

\* One step to the right does not change how many there are.
LEMMA CountShifted ==
    ASSUME NEW S, NEW t \in Seq(S), NEW x, NEW n \in Nat, NEW P,
           P = {i \in (n + 1)..(n + Len(t)) : t[i - n] = x}
    PROVE  IsFiniteSet(P) /\ Cardinality(P) = Count(t, x)
<1> DEFINE Q == {i \in DOMAIN t : t[i] = x}
           f == [i \in Q |-> i + n]
<1>1. /\ DOMAIN t = 1..Len(t) /\ Len(t) \in Nat
      /\ IsFiniteSet(Q)
  BY SeqFinite, CountTyped
<1>2. f \in [Q -> P]
  BY <1>1
<1>3. \A i, j \in Q : f[i] = f[j] => i = j
  BY <1>1
<1>4. \A j \in P : \E i \in Q : f[i] = j
  <2> SUFFICES ASSUME NEW j \in P PROVE \E i \in Q : f[i] = j
    OBVIOUS
  <2>1. j - n \in Q /\ (j - n) + n = j
    BY <1>1
  <2> QED BY <2>1
<1>5. ExistsBijection(Q, P)
  <2> HIDE DEF f, Q
  <2>1. f \in Bijection(Q, P)
    BY <1>2, <1>3, <1>4, Fun_IsBij
  <2> QED BY <2>1 DEF ExistsBijection
<1> HIDE DEF f, Q
<1>6. IsFiniteSet(P) /\ Cardinality(P) = Cardinality(Q)
  BY <1>1, <1>5, FS_Bijection
<1> QED BY <1>6 DEF Count, Q

\* A concatenation has the elements of its parts at their places,
LEMMA ConcatPlaces ==
    ASSUME NEW S, NEW s \in Seq(S), NEW t \in Seq(S), NEW u, u = s \o t
    PROVE  /\ u \in Seq(S) /\ Len(u) = Len(s) + Len(t) /\ DOMAIN u = 1..(Len(s) + Len(t))
           /\ \A i \in 1..Len(s) : u[i] = s[i]
           /\ \A i \in 1..Len(t) : u[Len(s) + i] = t[i]
<1>1. Len(s) \in Nat /\ Len(t) \in Nat
  BY SeqFinite
<1>2. /\ u \in Seq(S) /\ Len(u) = Len(s) + Len(t)
      /\ \A i \in 1..(Len(s) + Len(t)) :
            u[i] = IF i <= Len(s) THEN s[i] ELSE t[i - Len(s)]
  BY ConcatProperties
<1>3. DOMAIN u = 1..Len(u)
  BY <1>2, SeqFinite
<1>4. \A i \in 1..Len(s) : u[i] = s[i]
  BY <1>1, <1>2
<1>5. ASSUME NEW i \in 1..Len(t) PROVE u[Len(s) + i] = t[i]
  <2>1. /\ Len(s) + i \in 1..(Len(s) + Len(t)) /\ ~(Len(s) + i <= Len(s))
        /\ (Len(s) + i) - Len(s) = i
    BY <1>1
  <2> QED BY <1>2, <2>1
<1> QED BY <1>2, <1>3, <1>4, <1>5

\* and holds what they hold.
LEMMA CountConcat ==
    ASSUME NEW S, NEW s \in Seq(S), NEW t \in Seq(S), NEW x
    PROVE  /\ s \o t \in Seq(S)
           /\ Count(s \o t, x) = Count(s, x) + Count(t, x)
<1> DEFINE u == s \o t
           L == {i \in DOMAIN s : s[i] = x}
           R == {i \in (Len(s) + 1)..(Len(s) + Len(t)) : t[i - Len(s)] = x}
<1>1. /\ u \in Seq(S) /\ Len(u) = Len(s) + Len(t)
      /\ \A i \in 1..(Len(s) + Len(t)) :
            u[i] = IF i <= Len(s) THEN s[i] ELSE t[i - Len(s)]
  BY ConcatProperties
<1>2. /\ DOMAIN s = 1..Len(s) /\ Len(s) \in Nat /\ Len(t) \in Nat
      /\ DOMAIN u = 1..(Len(s) + Len(t))
  BY <1>1, SeqFinite
<1>3. IsFiniteSet(L) /\ Cardinality(L) = Count(s, x) /\ Count(s, x) \in Nat
  BY SeqFinite, CountTyped DEF Count
<1>4. IsFiniteSet(R) /\ Cardinality(R) = Count(t, x) /\ Count(t, x) \in Nat
  BY <1>2, CountShifted, CountSeq
<1> HIDE DEF u
<1>5. {i \in DOMAIN u : u[i] = x} = L \union R /\ L \intersect R = {}
  BY <1>1, <1>2
<1> HIDE DEF L, R
<1>6. Cardinality(L \union R) = Count(s, x) + Count(t, x)
  <2>1. /\ Cardinality(L \union R)
              = Cardinality(L) + Cardinality(R) - Cardinality(L \intersect R)
    BY <1>3, <1>4, FS_Union
  <2>2. Cardinality(L \intersect R) = 0
    BY <1>5, FS_EmptySet
  <2> QED BY <1>3, <1>4, <2>1, <2>2
<1> QED BY <1>1, <1>5, <1>6 DEF Count, u

\* One element counts once.
LEMMA CountOne ==
    ASSUME NEW S, NEW e \in S, NEW x
    PROVE  <<e>> \in Seq(S) /\ Count(<<e>>, x) = IF e = x THEN 1 ELSE 0
<1>1. {i \in DOMAIN <<e>> : <<e>>[i] = x} = IF e = x THEN {1} ELSE {}
  OBVIOUS
<1> QED BY <1>1, FS_EmptySet, FS_Singleton DEF Count

\* An element is added at the end,
LEMMA CountAppend ==
    ASSUME NEW S, NEW s \in Seq(S), NEW e \in S, NEW x
    PROVE  /\ Append(s, e) \in Seq(S)
           /\ Count(Append(s, e), x) = IF e = x THEN Count(s, x) + 1 ELSE Count(s, x)
<1> DEFINE h == <<e>>
<1>1. h \in Seq(S) /\ Count(h, x) = IF e = x THEN 1 ELSE 0
  BY CountOne
<1>2. Append(s, e) = s \o h
  BY AppendIsConcat
<1> HIDE DEF h
<1>3. s \o h \in Seq(S) /\ Count(s \o h, x) = Count(s, x) + Count(h, x)
  BY <1>1, CountConcat
<1>4. Count(s, x) \in Nat
  BY CountSeq
<1> QED BY <1>1, <1>2, <1>3, <1>4

\* or in front,
LEMMA CountPush ==
    ASSUME NEW S, NEW s \in Seq(S), NEW e \in S, NEW x
    PROVE  /\ <<e>> \o s \in Seq(S)
           /\ Count(<<e>> \o s, x) = IF e = x THEN Count(s, x) + 1 ELSE Count(s, x)
<1> DEFINE h == <<e>>
<1>1. h \in Seq(S) /\ Count(h, x) = IF e = x THEN 1 ELSE 0
  BY CountOne
<1> HIDE DEF h
<1>2. h \o s \in Seq(S) /\ Count(h \o s, x) = Count(h, x) + Count(s, x)
  BY <1>1, CountConcat
<1>3. Count(s, x) \in Nat
  BY CountSeq
<1>4. /\ h \o s \in Seq(S)
      /\ Count(h \o s, x) = IF e = x THEN Count(s, x) + 1 ELSE Count(s, x)
  BY <1>1, <1>2, <1>3
<1> QED BY <1>4 DEF h

\* and removed where it is.
LEMMA CountRemove ==
    ASSUME NEW S, NEW s \in Seq(S), NEW i \in DOMAIN s, NEW x
    PROVE  /\ RemoveAt(s, i) \in Seq(S) /\ Len(RemoveAt(s, i)) = Len(s) - 1
           /\ \A j \in DOMAIN RemoveAt(s, i) :
                 RemoveAt(s, i)[j] = IF j < i THEN s[j] ELSE s[j + 1]
           /\ Count(s, x) = IF s[i] = x THEN Count(RemoveAt(s, i), x) + 1
                                        ELSE Count(RemoveAt(s, i), x)
<1> DEFINE a == SubSeq(s, 1, i - 1)
           b == SubSeq(s, i + 1, Len(s))
           c == <<s[i]>> \o b
<1>1. DOMAIN s = 1..Len(s) /\ Len(s) \in Nat /\ (\A j \in DOMAIN s : s[j] \in S)
  BY SeqFinite
<1>2. /\ a \in Seq(S) /\ Len(a) = i - 1
      /\ \A j \in 1..(i - 1) : a[j] = s[j]
  <2>1. \A j \in 1..(i - 1) : s[j] \in S
    BY <1>1
  <2>2. /\ SubSeq(s, 1, i - 1) \in Seq(S)
        /\ Len(SubSeq(s, 1, i - 1)) = IF 1 <= i - 1 THEN (i - 1) - 1 + 1 ELSE 0
        /\ \A j \in 1..((i - 1) - 1 + 1) : SubSeq(s, 1, i - 1)[j] = s[1 + j - 1]
    BY <1>1, <2>1, SubSeqProperties
  <2> QED BY <1>1, <2>2
<1>3. /\ b \in Seq(S) /\ Len(b) = Len(s) - i
      /\ \A j \in 1..(Len(s) - i) : b[j] = s[i + j]
  <2>1. \A j \in (i + 1)..Len(s) : s[j] \in S
    BY <1>1
  <2>2. /\ SubSeq(s, i + 1, Len(s)) \in Seq(S)
        /\ Len(SubSeq(s, i + 1, Len(s)))
              = IF i + 1 <= Len(s) THEN Len(s) - (i + 1) + 1 ELSE 0
        /\ \A j \in 1..(Len(s) - (i + 1) + 1) :
              SubSeq(s, i + 1, Len(s))[j] = s[(i + 1) + j - 1]
    BY <1>1, <2>1, SubSeqProperties
  <2> QED BY <1>1, <2>2
<1> HIDE DEF a, b
<1>4. /\ c \in Seq(S) /\ Count(c, x) = IF s[i] = x THEN Count(b, x) + 1 ELSE Count(b, x)
      /\ Len(c) = Len(s) - i + 1
      /\ \A j \in 1..(Len(s) - i + 1) : c[j] = s[i - 1 + j]
  <2>1. s[i] \in S
    BY <1>1
  <2>2. c \in Seq(S) /\ Count(c, x) = IF s[i] = x THEN Count(b, x) + 1 ELSE Count(b, x)
    BY <1>3, <2>1, CountPush
  <2> DEFINE h == <<s[i]>>
  <2>3. h \in Seq(S) /\ Len(h) = 1 /\ h[1] = s[i]
    BY <2>1
  <2>4. c = h \o b
    OBVIOUS
  <2> HIDE DEF c, h
  <2>5. /\ Len(c) = Len(h) + Len(b)
        /\ \A j \in 1..(Len(h) + Len(b)) : c[j] = IF j <= Len(h) THEN h[j] ELSE b[j - Len(h)]
    BY <1>3, <2>3, <2>4, ConcatProperties
  <2>6. Len(c) = Len(s) - i + 1
    BY <1>1, <1>3, <2>3, <2>5
  <2>7. \A j \in 1..(Len(s) - i + 1) : c[j] = s[i - 1 + j]
    <3> SUFFICES ASSUME NEW j \in 1..(Len(s) - i + 1) PROVE c[j] = s[i - 1 + j]
      OBVIOUS
    <3>1. CASE j = 1
      BY <1>1, <1>3, <2>3, <2>5, <3>1
    <3>2. CASE j # 1
      <4>1. j - 1 \in 1..(Len(s) - i) /\ i + (j - 1) = i - 1 + j
        BY <1>1, <3>2
      <4>2. b[j - 1] = s[i - 1 + j]
        BY <1>3, <4>1
      <4> QED BY <1>1, <1>3, <2>3, <2>5, <3>2, <4>2
    <3> QED BY <3>1, <3>2
  <2> QED BY <2>2, <2>6, <2>7
<1> HIDE DEF c
<1>5. s = a \o c
  <2> DEFINE u == a \o c
  <2> HIDE DEF u
  <2>1. /\ u \in Seq(S) /\ Len(u) = Len(a) + Len(c)
        /\ \A j \in 1..Len(a) : u[j] = a[j]
        /\ \A j \in 1..Len(c) : u[Len(a) + j] = c[j]
    <3>1. a \in Seq(S) /\ c \in Seq(S) /\ u = a \o c
      BY <1>2, <1>4 DEF u
    <3> QED BY <3>1, ConcatPlaces
  <2>2. Len(u) = Len(s)
    BY <1>1, <1>2, <1>4, <2>1
  <2>3. \A j \in 1..Len(s) : s[j] = u[j]
    <3> SUFFICES ASSUME NEW j \in 1..Len(s) PROVE s[j] = u[j]
      OBVIOUS
    <3>1. CASE j <= i - 1
      BY <1>1, <1>2, <2>1, <3>1
    <3>2. CASE j > i - 1
      <4>1. j - (i - 1) \in 1..(Len(s) - i + 1) /\ (i - 1) + (j - (i - 1)) = j
        BY <1>1, <3>2
      <4>2. c[j - (i - 1)] = s[j]
        BY <1>4, <4>1
      <4>3. u[(i - 1) + (j - (i - 1))] = c[j - (i - 1)]
        BY <1>2, <1>4, <2>1, <4>1
      <4> QED BY <4>1, <4>2, <4>3
    <3> QED BY <1>1, <3>1, <3>2
  <2>4. s = u
    BY <2>1, <2>2, <2>3, SeqEqual
  <2> QED BY <2>4 DEF u
<1>6. /\ Count(a, x) \in Nat /\ Count(b, x) \in Nat
      /\ Count(s, x) = Count(a, x) + Count(c, x)
  BY <1>2, <1>3, <1>4, <1>5, CountConcat, CountSeq
<1> DEFINE r == RemoveAt(s, i)
<1>7. r = a \o b
  BY DEF RemoveAt, a, b
<1> HIDE DEF r
<1>8. Count(r, x) = Count(a, x) + Count(b, x)
  BY <1>2, <1>3, <1>7, CountConcat
<1>9. /\ r \in Seq(S) /\ Len(r) = Len(s) - 1
      /\ \A j \in DOMAIN r : r[j] = IF j < i THEN s[j] ELSE s[j + 1]
  <2>1. /\ r \in Seq(S) /\ Len(r) = Len(a) + Len(b) /\ DOMAIN r = 1..(Len(a) + Len(b))
        /\ \A j \in 1..Len(a) : r[j] = a[j]
        /\ \A j \in 1..Len(b) : r[Len(a) + j] = b[j]
    <3>1. a \in Seq(S) /\ b \in Seq(S) /\ r = a \o b
      BY <1>2, <1>3, <1>7
    <3> QED BY <3>1, ConcatPlaces
  <2>2. Len(r) = Len(s) - 1 /\ DOMAIN r = 1..(Len(s) - 1)
    BY <1>1, <1>2, <1>3, <2>1
  <2>3. ASSUME NEW j \in 1..(Len(s) - 1)
        PROVE  r[j] = IF j < i THEN s[j] ELSE s[j + 1]
    <3>1. CASE j < i
      BY <1>1, <1>2, <2>1, <3>1
    <3>2. CASE j >= i
      <4>1. /\ j - (i - 1) \in 1..(Len(s) - i) /\ i + (j - (i - 1)) = j + 1
            /\ (i - 1) + (j - (i - 1)) = j
        BY <1>1, <3>2
      <4>2. b[j - (i - 1)] = s[j + 1]
        BY <1>3, <4>1
      <4>3. r[(i - 1) + (j - (i - 1))] = b[j - (i - 1)]
        BY <1>2, <1>3, <2>1, <4>1
      <4> QED BY <1>1, <3>2, <4>1, <4>2, <4>3
    <3> QED BY <1>1, <3>1, <3>2
  <2> QED BY <2>1, <2>2, <2>3
<1> QED BY <1>4, <1>6, <1>8, <1>9 DEF r

\* The head is removed with the tail left.
LEMMA CountTail ==
    ASSUME NEW S, NEW s \in Seq(S), s # <<>>, NEW x
    PROVE  /\ Head(s) \in S /\ Tail(s) \in Seq(S)
           /\ Count(s, x) = IF Head(s) = x THEN Count(Tail(s), x) + 1 ELSE Count(Tail(s), x)
<1>1. /\ Head(s) \in S /\ Tail(s) \in Seq(S) /\ Len(Tail(s)) = Len(s) - 1
      /\ \A i \in 1..Len(Tail(s)) : Tail(s)[i] = s[i + 1]
  BY HeadTailProperties
<1>2. Len(s) \in Nat \ {0} /\ Head(s) = s[1] /\ Len(Tail(s)) \in Nat
  BY <1>1, EmptySeq, SeqFinite
<1> DEFINE h == <<Head(s)>>
           t == Tail(s)
           u == h \o t
<1>3. h \in Seq(S) /\ Len(h) = 1 /\ h[1] = s[1]
  BY <1>1, <1>2
<1>4. /\ t \in Seq(S) /\ Len(t) = Len(s) - 1
      /\ \A i \in 1..(Len(s) - 1) : t[i] = s[i + 1]
  BY <1>1
<1>5. u = h \o t
  OBVIOUS
<1> HIDE DEF t, u
<1>6. Count(u, x) = IF Head(s) = x THEN Count(t, x) + 1 ELSE Count(t, x)
  BY <1>1, <1>4, <1>5, CountPush
<1> HIDE DEF h
<1>7. /\ u \in Seq(S) /\ Len(u) = Len(h) + Len(t)
      /\ \A i \in 1..Len(h) : u[i] = h[i]
      /\ \A i \in 1..Len(t) : u[Len(h) + i] = t[i]
  <2>1. h \in Seq(S) /\ t \in Seq(S) /\ u = h \o t
    BY <1>3, <1>4, <1>5
  <2> QED BY <2>1, ConcatPlaces
<1>8. Len(u) = Len(s)
  BY <1>2, <1>3, <1>4, <1>7
<1>9. \A i \in 1..Len(s) : s[i] = u[i]
  <2> SUFFICES ASSUME NEW i \in 1..Len(s) PROVE s[i] = u[i]
    OBVIOUS
  <2>1. CASE i = 1
    BY <1>3, <1>7, <2>1
  <2>2. CASE i > 1
    <3>1. i - 1 \in 1..(Len(s) - 1) /\ (i - 1) + 1 = i /\ 1 + (i - 1) = i
      BY <1>2, <2>2
    <3>2. t[i - 1] = s[i] /\ u[i] = t[i - 1]
      BY <1>3, <1>4, <1>7, <3>1
    <3> QED BY <3>2
  <2> QED BY <1>2, <2>1, <2>2
<1>10. s = u
  BY <1>7, <1>8, <1>9, SeqEqual
<1> QED BY <1>1, <1>6, <1>10 DEF t

(***************************************************************************)
(* What is left when elements are removed.                                 *)
(***************************************************************************)
\* The places kept are numbered from 1 on, in their order.
LEMMA Ranks ==
    ASSUME NEW n \in Nat, NEW K \in SUBSET (1..n)
    PROVE  /\ Cardinality(K) \in Nat
           /\ \A i \in K : Rank(K, i) \in 1..Cardinality(K)
           /\ \A i, j \in K : i < j => Rank(K, i) < Rank(K, j)
           /\ \A m \in 1..Cardinality(K) : \E i \in K : Rank(K, i) = m
<1> DEFINE upto(i) == {k \in K : k <= i}
<1>1. IsFiniteSet(K) /\ Cardinality(K) \in Nat
  <2>1. IsFiniteSet(1..n)
    BY FS_Interval
  <2> QED BY <2>1, FS_Subset, FS_CardinalityType
<1>2. \A i : IsFiniteSet(upto(i)) /\ Rank(K, i) \in Nat /\ Rank(K, i) <= Cardinality(K)
  <2> TAKE i
  <2>1. upto(i) \in SUBSET K
    OBVIOUS
  <2> QED BY <1>1, <2>1, FS_Subset, FS_CardinalityType DEF Rank
<1>3. \A i \in K : Rank(K, i) \in 1..Cardinality(K)
  <2> SUFFICES ASSUME NEW i \in K PROVE Rank(K, i) \in 1..Cardinality(K)
    OBVIOUS
  <2>1. upto(i) # {}
    OBVIOUS
  <2>2. Rank(K, i) # 0
    BY <1>2, <2>1, FS_EmptySet DEF Rank
  <2>3. Rank(K, i) \in Nat /\ Rank(K, i) <= Cardinality(K)
    BY <1>2
  <2> QED BY <1>1, <2>2, <2>3
<1>4. \A i, j \in K : i < j => Rank(K, i) < Rank(K, j)
  <2> SUFFICES ASSUME NEW i \in K, NEW j \in K, i < j PROVE Rank(K, i) < Rank(K, j)
    OBVIOUS
  <2>1. i \in 1..n /\ j \in 1..n /\ \A k \in K : k \in 1..n
    OBVIOUS
  <2>2. upto(i) \in SUBSET upto(j) /\ j \in upto(j) /\ j \notin upto(i)
    <3>1. ASSUME NEW k \in upto(i) PROVE k \in upto(j)
      BY <2>1
    <3>2. j \in upto(j) /\ j \notin upto(i)
      BY <2>1
    <3> QED BY <3>1, <3>2
  <2>3. /\ Cardinality(upto(i)) <= Cardinality(upto(j))
        /\ Cardinality(upto(j)) = Cardinality(upto(i)) => upto(j) = upto(i)
    <3> HIDE DEF upto
    <3> QED BY <1>2, <2>2, FS_Subset
  <2>4. Cardinality(upto(j)) # Cardinality(upto(i))
    BY <2>2, <2>3
  <2> QED BY <1>2, <2>3, <2>4 DEF Rank
<1> DEFINE numbers == 1..Cardinality(K)
           f == [i \in K |-> Rank(K, i)]
<1>5. f \in [K -> numbers]
  BY <1>3
<1>6. \A i, j \in K : f[i] = f[j] => i = j
  <2> SUFFICES ASSUME NEW i \in K, NEW j \in K, i # j PROVE Rank(K, i) # Rank(K, j)
    OBVIOUS
  <2>1. i < j \/ j < i
    OBVIOUS
  <2>2. Rank(K, i) \in Nat /\ Rank(K, j) \in Nat
    BY <1>2
  <2>3. Rank(K, i) < Rank(K, j) \/ Rank(K, j) < Rank(K, i)
    BY <1>4, <2>1
  <2> QED BY <2>2, <2>3
<1>7. IsFiniteSet(numbers) /\ Cardinality(numbers) = Cardinality(K)
  BY <1>1, FS_Interval
<1>8. \A m \in numbers : \E i \in K : f[i] = m
  <2> HIDE DEF f, numbers
  <2>1. f \in Injection(K, numbers)
    BY <1>5, <1>6, Fun_IsInj
  <2>2. f \in Surjection(K, numbers)
    BY <1>7, <2>1, FS_Injection
  <2> QED BY <2>2, Fun_SurjectionProperties
<1> QED BY <1>1, <1>3, <1>4, <1>8

\* What is left is what was kept, in its order.
LEMMA WithoutPlaces ==
    ASSUME NEW S, NEW s \in Seq(S), NEW X, NEW t, t = Without(s, X)
    PROVE  /\ t \in Seq(S)
           /\ \E f \in [DOMAIN t -> DOMAIN s] :
                 /\ \A j \in DOMAIN t : t[j] = s[f[j]] /\ t[j] \notin X
                 /\ \A j, k \in DOMAIN t : j < k => f[j] < f[k]
                 /\ \A i \in DOMAIN s : s[i] \notin X => \E j \in DOMAIN t : f[j] = i
<1> DEFINE K == Kept(s, X)
           f == [j \in 1..Cardinality(K) |-> CHOOSE i \in K : Rank(K, i) = j]
<1>1. DOMAIN s = 1..Len(s) /\ Len(s) \in Nat /\ \A i \in DOMAIN s : s[i] \in S
  BY SeqFinite
<1>2. K \in SUBSET (1..Len(s)) /\ \A i \in K : i \in DOMAIN s /\ s[i] \notin X
  BY <1>1 DEF Kept
<1>3. t = [j \in 1..Cardinality(K) |-> s[CHOOSE i \in K : Rank(K, i) = j]]
  BY DEF Without
<1>4. \A i \in DOMAIN s : s[i] \notin X => i \in K
  BY DEF Kept
<1> HIDE DEF K
<1>5. /\ Cardinality(K) \in Nat
      /\ \A i \in K : Rank(K, i) \in 1..Cardinality(K)
      /\ \A i, j \in K : i < j => Rank(K, i) < Rank(K, j)
      /\ \A m \in 1..Cardinality(K) : \E i \in K : Rank(K, i) = m
  BY <1>1, <1>2, Ranks
<1>6. \A j \in 1..Cardinality(K) : f[j] \in K /\ Rank(K, f[j]) = j
  BY <1>5
<1>7. DOMAIN t = 1..Cardinality(K) /\ \A j \in DOMAIN t : t[j] = s[f[j]]
  BY <1>3
<1>8. f \in [DOMAIN t -> DOMAIN s]
  BY <1>2, <1>6, <1>7
<1> HIDE DEF f
<1>9. \A j \in DOMAIN t : t[j] \notin X /\ t[j] \in S
  BY <1>1, <1>2, <1>6, <1>7
<1>10. t \in Seq(S)
  <2>1. t \in [1..Cardinality(K) -> S]
    BY <1>3, <1>7, <1>9
  <2> QED BY <1>5, <2>1, SeqDef
<1>11. \A j, k \in DOMAIN t : j < k => f[j] < f[k]
  <2> SUFFICES ASSUME NEW j \in DOMAIN t, NEW k \in DOMAIN t, j < k PROVE f[j] < f[k]
    OBVIOUS
  <2>1. /\ f[j] \in K /\ f[k] \in K /\ Rank(K, f[j]) = j /\ Rank(K, f[k]) = k
        /\ f[j] \in 1..Len(s) /\ f[k] \in 1..Len(s) /\ j \in Nat /\ k \in Nat
    BY <1>2, <1>5, <1>6, <1>7
  <2>2. f[j] # f[k]
    BY <2>1
  <2>3. ~(f[k] < f[j])
    BY <1>5, <2>1
  <2> QED BY <1>1, <2>1, <2>2, <2>3
<1>12. \A i \in K : \E j \in DOMAIN t : f[j] = i
  <2> SUFFICES ASSUME NEW i \in K PROVE \E j \in DOMAIN t : f[j] = i
    OBVIOUS
  <2> DEFINE j == Rank(K, i)
  <2>1. j \in DOMAIN t /\ f[j] \in K /\ Rank(K, f[j]) = j
    BY <1>5, <1>6, <1>7
  <2>2. i \in 1..Len(s) /\ f[j] \in 1..Len(s)
    BY <1>2, <2>1
  <2>3. ~(f[j] < i) /\ ~(i < f[j])
    BY <1>1, <1>5, <2>1, <2>2
  <2> QED BY <1>1, <2>1, <2>2, <2>3
<1> QED BY <1>4, <1>7, <1>8, <1>9, <1>10, <1>11, <1>12

\* Nothing else is lost.
LEMMA CountWithout ==
    ASSUME NEW S, NEW s \in Seq(S), NEW X, NEW x
    PROVE  /\ Without(s, X) \in Seq(S)
           /\ x \in X => Count(Without(s, X), x) = 0
           /\ x \notin X => Count(Without(s, X), x) = Count(s, x)
<1> DEFINE t == Without(s, X)
<1> HIDE DEF t
<1>1. t \in Seq(S)
  BY WithoutPlaces DEF t
<1>2. PICK f \in [DOMAIN t -> DOMAIN s] :
         /\ \A j \in DOMAIN t : t[j] = s[f[j]] /\ t[j] \notin X
         /\ \A j, k \in DOMAIN t : j < k => f[j] < f[k]
         /\ \A i \in DOMAIN s : s[i] \notin X => \E j \in DOMAIN t : f[j] = i
  <2>1. t = Without(s, X)
    BY DEF t
  <2> QED BY <2>1, WithoutPlaces
<1>3. /\ DOMAIN t = 1..Len(t) /\ Len(t) \in Nat /\ Count(t, x) \in Nat
      /\ DOMAIN s = 1..Len(s) /\ Len(s) \in Nat /\ Count(s, x) \in Nat
      /\ Count(t, x) = 0 <=> \A j \in DOMAIN t : t[j] # x
  BY <1>1, SeqFinite, CountSeq
<1>4. CASE x \in X
  BY <1>1, <1>2, <1>3, <1>4 DEF t
<1>5. CASE x \notin X
  <2> DEFINE P == {j \in DOMAIN t : t[j] = x}
             Q == {i \in DOMAIN s : s[i] = x}
             g == [j \in P |-> f[j]]
  <2>1. g \in [P -> Q]
    BY <1>2
  <2>2. \A j, k \in P : g[j] = g[k] => j = k
    <3> SUFFICES ASSUME NEW j \in DOMAIN t, NEW k \in DOMAIN t, j # k PROVE f[j] # f[k]
      OBVIOUS
    <3>1. f[j] \in DOMAIN s /\ f[k] \in DOMAIN s
      BY <1>2
    <3>2. j < k \/ k < j
      BY <1>3
    <3> QED BY <1>2, <1>3, <3>1, <3>2
  <2>3. \A i \in Q : \E j \in P : g[j] = i
    <3> SUFFICES ASSUME NEW i \in Q PROVE \E j \in P : g[j] = i
      OBVIOUS
    <3>1. PICK j \in DOMAIN t : f[j] = i
      BY <1>2, <1>5
    <3> QED BY <1>2, <3>1
  <2>4. IsFiniteSet(P)
    BY <1>1, SeqFinite, CountTyped
  <2> HIDE DEF g, P, Q
  <2>5. g \in Bijection(P, Q)
    BY <2>1, <2>2, <2>3, Fun_IsBij
  <2>6. ExistsBijection(P, Q)
    BY <2>5 DEF ExistsBijection
  <2>7. Cardinality(Q) = Cardinality(P)
    BY <2>4, <2>6, FS_Bijection
  <2> QED BY <1>1, <1>5, <2>7 DEF Count, P, Q, t
<1> QED BY <1>4, <1>5

\* A slot that changes hands is counted for its new owner, not for the old one.
LEMMA CountSlot ==
    ASSUME NEW f, DOMAIN f = Slots, NEW g, DOMAIN g = Slots, NEW s \in Slots,
           \A i \in Slots \ {s} : g[i] = f[i], NEW x
    PROVE  /\ Count(f, x) \in Nat /\ Count(g, x) \in Nat
           /\ f[s] = x /\ g[s] # x => Count(g, x) = Count(f, x) - 1
           /\ f[s] # x /\ g[s] = x => Count(g, x) = Count(f, x) + 1
           /\ (f[s] = x <=> g[s] = x) => Count(g, x) = Count(f, x)
<1> DEFINE others == {i \in Slots \ {s} : f[i] = x}
<1>1. IsFiniteSet(others) /\ Cardinality(others) \in Nat
  <2>1. others \in SUBSET Slots
    OBVIOUS
  <2> QED BY <2>1, QueueAssumption, FS_Subset, FS_CardinalityType
<1>2. s \notin others
  OBVIOUS
<1>3. {i \in DOMAIN f : f[i] = x} = IF f[s] = x THEN others \union {s} ELSE others
  OBVIOUS
<1>4. {i \in DOMAIN g : g[i] = x} = IF g[s] = x THEN others \union {s} ELSE others
  OBVIOUS
<1> HIDE DEF others
<1>5. Cardinality(others \union {s}) = Cardinality(others) + 1
  BY <1>1, <1>2, FS_AddElement
<1>6. Count(f, x) = Cardinality(others) + (IF f[s] = x THEN 1 ELSE 0)
  <2>1. CASE f[s] = x
    BY <1>1, <1>3, <1>5, <2>1 DEF Count
  <2>2. CASE f[s] # x
    BY <1>1, <1>3, <2>2 DEF Count
  <2> QED BY <2>1, <2>2
<1>7. Count(g, x) = Cardinality(others) + (IF g[s] = x THEN 1 ELSE 0)
  <2>1. CASE g[s] = x
    BY <1>1, <1>4, <1>5, <2>1 DEF Count
  <2>2. CASE g[s] # x
    BY <1>1, <1>4, <2>2 DEF Count
  <2> QED BY <2>1, <2>2
<1> QED BY <1>1, <1>6, <1>7
-----------------------------------------------------------------------------
(***************************************************************************)
(* Tasks.                                                                  *)
(***************************************************************************)
\* The tasks of two readers differ, and are no cancellations.
LEMMA Distinct ==
    /\ \A r, q \in Readers : /\ Completion(r) = Completion(q) <=> r = q
                             /\ CancelTask(q) # Completion(r)
                             /\ Completion(r) \in TaskTypes /\ CancelTask(r) \in TaskTypes
    /\ NextResponse \in TaskTypes
    /\ \A r : NextResponse # Completion(r)
    /\ \A t \in TaskTypes :
          /\ t.type \in {"completion", "cancel", "next"}
          /\ t.type = "completion" <=> \E r \in Readers : t = Completion(r)
          /\ t.type = "completion" => t.of \in Readers /\ t = Completion(t.of)
          /\ t.type = "cancel" => t.of \in Readers /\ t = CancelTask(t.of)
<1>1. ASSUME NEW r \in Readers, NEW q \in Readers
      PROVE  /\ Completion(r) = Completion(q) <=> r = q
             /\ CancelTask(q) # Completion(r)
             /\ Completion(r) \in TaskTypes /\ CancelTask(r) \in TaskTypes
  <2>1. CancelTask(q).type = "cancel" /\ Completion(r).type = "completion"
    BY DEF Completion, CancelTask
  <2>2. Completion(r).of = r /\ Completion(q).of = q
    BY DEF Completion
  <2> QED BY <2>1, <2>2 DEF TaskTypes
<1>2. ASSUME NEW r PROVE NextResponse # Completion(r)
  <2>1. NextResponse.type = "next" /\ Completion(r).type = "completion"
    BY DEF NextResponse, Completion
  <2> QED BY <2>1
<1>3. ASSUME NEW t \in TaskTypes
      PROVE  /\ t.type \in {"completion", "cancel", "next"}
             /\ t.type = "completion" <=> \E r \in Readers : t = Completion(r)
             /\ t.type = "completion" => t.of \in Readers /\ t = Completion(t.of)
             /\ t.type = "cancel" => t.of \in Readers /\ t = CancelTask(t.of)
  <2>1. CASE \E r \in Readers : t = Completion(r)
    <3>1. PICK r \in Readers : t = Completion(r)
      BY <2>1
    <3>2. t.type = "completion" /\ t.of = r
      BY <3>1 DEF Completion
    <3> QED BY <3>1, <3>2
  <2>2. CASE \E r \in Readers : t = CancelTask(r)
    <3>1. PICK r \in Readers : t = CancelTask(r)
      BY <2>2
    <3>2. t.type = "cancel" /\ t.of = r
      BY <3>1 DEF CancelTask
    <3>3. \A q \in Readers : t # Completion(q)
      BY <1>1, <3>1
    <3> QED BY <3>1, <3>2, <3>3
  <2>3. CASE t = NextResponse
    <3>1. t.type = "next"
      BY <2>3 DEF NextResponse
    <3> QED BY <1>2, <2>3, <3>1
  <2> QED BY <2>1, <2>2, <2>3 DEF TaskTypes
<1> QED BY <1>1, <1>2, <1>3 DEF TaskTypes

\* What the type invariant says of the parts a task can be in.
LEMMA CopiesTyped ==
    ASSUME TypeOK, NEW r \in Readers
    PROVE  /\ Count(tasks, Completion(r)) \in Nat /\ Count(deferred, r) \in Nat
           /\ Count(slot, r) \in Nat /\ Copies(r) \in Nat
           /\ \A s \in Slots : slot[s] = r => Copies(r) >= 1
           /\ InHand(r) => Copies(r) >= 1
<1>1. Count(tasks, Completion(r)) \in Nat /\ Count(deferred, r) \in Nat
  BY CountSeq DEF TypeOK
<1>2. DOMAIN slot = Slots /\ IsFiniteSet(DOMAIN slot)
  BY QueueAssumption DEF TypeOK
<1>3. Count(slot, r) \in Nat /\ (Count(slot, r) = 0 <=> \A s \in Slots : slot[s] # r)
  BY <1>2, CountTyped
<1> QED BY <1>1, <1>3 DEF Copies

\* A task in the hands of the inference thread.
LEMMA Handed ==
    ASSUME TypeOK, Hands, NEW type \in {"completion", "cancel", "next"}, Processing(type)
    PROVE  /\ loop = "process" /\ current' = None
           /\ type = "completion" => current.of \in Readers /\ current = Completion(current.of)
           /\ type = "cancel" => current.of \in Readers /\ current = CancelTask(current.of)
           /\ type # "completion" => \A r \in Readers : ~InHand(r)
<1>1. loop = "process" /\ current.type = type /\ current \in TaskTypes /\ current' = None
  BY DEF Processing, Hands
<1> QED BY <1>1, Distinct DEF InHand

\* pop_deferred_task moves a task, and loses none.
LEMMA PopDeferredMoves ==
    ASSUME TypeOK, PopDeferred
    PROVE  /\ tasks' \in Seq(TaskTypes) /\ deferred' \in Seq(Readers)
           /\ \A r \in Readers :
                 Count(tasks', Completion(r)) + Count(deferred', r)
                    = Count(tasks, Completion(r)) + Count(deferred, r)
<1>1. tasks \in Seq(TaskTypes) /\ deferred \in Seq(Readers)
  BY DEF TypeOK
<1>2. CASE deferred = <<>>
  <2>1. tasks' = tasks /\ deferred' = deferred
    BY <1>2 DEF PopDeferred
  <2> QED BY <1>1, <2>1
<1>3. CASE deferred # <<>>
  <2> DEFINE q == Head(deferred)
  <2>1. q \in Readers /\ Completion(q) \in TaskTypes
    BY <1>1, <1>3, HeadTailProperties, Distinct
  <2>2. tasks' = <<Completion(q)>> \o tasks /\ deferred' = Tail(deferred)
    BY <1>3 DEF PopDeferred
  <2>3. tasks' \in Seq(TaskTypes)
    BY <1>1, <2>1, <2>2, CountPush
  <2>4. deferred' \in Seq(Readers)
    BY <1>1, <1>3, <2>2, HeadTailProperties
  <2>5. ASSUME NEW r \in Readers
        PROVE  Count(tasks', Completion(r)) + Count(deferred', r)
                  = Count(tasks, Completion(r)) + Count(deferred, r)
    <3>1. Count(tasks', Completion(r))
             = IF q = r THEN Count(tasks, Completion(r)) + 1 ELSE Count(tasks, Completion(r))
      <4>1. Count(tasks', Completion(r))
               = IF Completion(q) = Completion(r) THEN Count(tasks, Completion(r)) + 1
                                                  ELSE Count(tasks, Completion(r))
        BY <1>1, <2>1, <2>2, CountPush
      <4> QED BY <2>1, <4>1, Distinct
    <3>2. Count(deferred, r) = IF q = r THEN Count(deferred', r) + 1 ELSE Count(deferred', r)
      BY <1>1, <1>3, <2>2, CountTail
    <3>3. Count(tasks, Completion(r)) \in Nat /\ Count(deferred', r) \in Nat
      BY <1>1, <2>4, CountSeq
    <3> QED BY <3>1, <3>2, <3>3
  <2> QED BY <2>3, <2>4, <2>5
<1> QED BY <1>2, <1>3

\* The release of a slot ends the work for its reader only.
LEMMA Released ==
    ASSUME TypeOK, NEW s \in Slots, slot[s] \in Readers, Release(s),
           \A r \in Readers : InHand(r)' <=> InHand(r)
    PROVE  \A r \in Readers : Copies(r)' = IF r = slot[s] THEN Copies(r) - 1 ELSE Copies(r)
<1> SUFFICES ASSUME NEW r \in Readers
             PROVE  Copies(r)' = IF r = slot[s] THEN Copies(r) - 1 ELSE Copies(r)
  OBVIOUS
<1>1. /\ tasks' \in Seq(TaskTypes) /\ deferred' \in Seq(Readers)
      /\ Count(tasks', Completion(r)) + Count(deferred', r)
            = Count(tasks, Completion(r)) + Count(deferred, r)
  BY PopDeferredMoves DEF Release
<1>2. slot \in [Slots -> Readers \union {None}] /\ slot' = [slot EXCEPT ![s] = None] /\ None # r
  BY QueueAssumption DEF TypeOK, Release
<1>3. /\ Count(slot, r) \in Nat /\ Count(slot', r) \in Nat
      /\ slot[s] = r => Count(slot', r) = Count(slot, r) - 1
      /\ slot[s] # r => Count(slot', r) = Count(slot, r)
  <2>1. /\ DOMAIN slot = Slots /\ DOMAIN slot' = Slots /\ slot'[s] # r
        /\ \A i \in Slots \ {s} : slot'[i] = slot[i]
    BY <1>2
  <2> QED BY <2>1, CountSlot
<1>4. /\ Count(tasks, Completion(r)) \in Nat /\ Count(deferred, r) \in Nat
      /\ Count(tasks', Completion(r)) \in Nat /\ Count(deferred', r) \in Nat
  BY <1>1, CountSeq DEF TypeOK
<1> QED BY <1>1, <1>2, <1>3, <1>4 DEF Copies
-----------------------------------------------------------------------------
(***************************************************************************)
(* Types.                                                                  *)
(***************************************************************************)
\* The results of a reader have places in the queue.
LEMMA PlacesTyped ==
    ASSUME TypeOK
    PROVE  /\ DOMAIN results = 1..Len(results) /\ Len(results) \in Nat
           /\ \A i \in DOMAIN results :
                 /\ results[i] \in Results /\ results[i].of \in Readers
                 /\ results[i].kind \in Kinds
                 /\ results[i] = [kind |-> results[i].kind, of |-> results[i].of]
<1>1. results \in Seq(Results)
  BY DEF TypeOK
<1>2. /\ DOMAIN results = 1..Len(results) /\ Len(results) \in Nat
      /\ \A i \in DOMAIN results : results[i] \in Results
  BY <1>1, SeqFinite
<1>3. ASSUME NEW x \in Results
      PROVE  x.of \in Readers /\ x.kind \in Kinds /\ x = [kind |-> x.kind, of |-> x.of]
  BY DEF Results
<1> QED BY <1>2, <1>3

\* recv finds the first of them.
LEMMA TakenFirst ==
    ASSUME TypeOK, NEW r \in Readers, \E i \in DOMAIN results : results[i].of = r
    PROVE  /\ Taken(r) \in Places(r)
           /\ \A j \in Places(r) : Taken(r) <= j
<1> DEFINE P == Places(r)
<1>1. P \subseteq Nat /\ P # {} /\ \A j \in P : j \in DOMAIN results
  BY PlacesTyped DEF Places
<1>2. PICK i \in P : \A j \in P : ~(<<j, i>> \in OpToRel(<, Nat))
  BY <1>1, NatLessThanWellFounded, WFMin
<1>3. \A j \in P : ~(j < i)
  BY <1>1, <1>2 DEF OpToRel
<1>4. \A k : (/\ results[k].of = r
              /\ \A j \in 1..(k - 1) : results[j].of # r) /\ k \in DOMAIN results
                => k \in P /\ \A j \in P : k <= j
  <2> SUFFICES ASSUME NEW k \in DOMAIN results, results[k].of = r,
                      \A j \in 1..(k - 1) : results[j].of # r
               PROVE  k \in P /\ \A j \in P : k <= j
    OBVIOUS
  <2>1. k \in Nat /\ \A j \in DOMAIN results : j \in Nat /\ j >= 1
    BY PlacesTyped
  <2>2. \A j \in P : j \in Nat /\ j >= 1 /\ results[j].of = r
    BY <2>1 DEF Places
  <2>3. \A j \in P : ~(j < k)
    <3> SUFFICES ASSUME NEW j \in P, j < k PROVE FALSE
      OBVIOUS
    <3>1. j \in 1..(k - 1)
      BY <2>1, <2>2
    <3> QED BY <2>2, <3>1
  <2> QED BY <2>1, <2>2, <2>3 DEF Places
<1>5. i \in DOMAIN results /\ results[i].of = r /\ \A j \in 1..(i - 1) : results[j].of # r
  <2>1. i \in DOMAIN results /\ results[i].of = r
    BY <1>2 DEF Places
  <2>2. ASSUME NEW j \in 1..(i - 1) PROVE results[j].of # r
    <3>1. i \in 1..Len(results) /\ Len(results) \in Nat
      BY <2>1, PlacesTyped
    <3>2. j \in DOMAIN results /\ j < i
      BY <3>1, PlacesTyped
    <3> QED BY <1>3, <3>2 DEF Places
  <2> QED BY <2>1, <2>2
<1>6. /\ Oldest(r) \in DOMAIN results /\ results[Oldest(r)].of = r
      /\ \A j \in 1..(Oldest(r) - 1) : results[j].of # r
  BY <1>5 DEF Oldest
<1> QED BY <1>4, <1>6 DEF Taken

\* What is sent is a result.
LEMMA SendTyped ==
    ASSUME TypeOK, NEW kind \in Kinds, NEW r \in Readers, Send(kind, r)
    PROVE  results' \in Seq(Results)
<1>1. results \in Seq(Results) /\ [kind |-> kind, of |-> r] \in Results
  BY DEF TypeOK, Results
<1>2. CASE r \in waiting
  BY <1>1, <1>2, AppendProperties DEF Send
<1>3. CASE r \notin waiting
  BY <1>1, <1>3 DEF Send
<1> QED BY <1>2, <1>3

\* A reader that takes a partial result has room for it.
LEMMA ReceiveTyped ==
    ASSUME IInv, NEW r \in Readers, Receive(r)
    PROVE  /\ results' \in Seq(Results)
           /\ got' \in [Readers -> 0..MaxTokens]
           /\ reader' \in [Readers -> {"new", "post", "next", "received", "served", "stop",
                                       "drop", "cancel", "stopped"}]
<1>1. /\ TypeOK /\ results \in Seq(Results) /\ got \in [Readers -> 0..MaxTokens]
      /\ MaxTokens \in Nat
  BY QueueAssumption DEF IInv, TypeOK
<1>2. Taken(r) \in DOMAIN results /\ results[Taken(r)].of = r
  BY <1>1, TakenFirst DEF Receive, Places
<1>3. results' = RemoveAt(results, Taken(r))
  BY DEF Receive
<1>4. results' \in Seq(Results)
  BY <1>1, <1>2, <1>3, CountRemove
<1> DEFINE kind == results[Taken(r)].kind
<1>5. got' \in [Readers -> 0..MaxTokens]
  <2>1. CASE kind = "partial"
    <3>1. results[Taken(r)] = [kind |-> "partial", of |-> r]
      BY <1>1, <1>2, <2>1, PlacesTyped
    <3>2. Partials(r) \in Nat /\ Partials(r) # 0
      BY <1>1, <1>2, <3>1, CountSeq DEF Partials
    <3>3. got[r] + Partials(r) = sampled[r] /\ reader[r] = "next"
      BY DEF Balance, Answers, IInv, Receive
    <3>4. got[r] \in Nat /\ sampled[r] \in 0..MaxTokens
      BY <1>1 DEF TypeOK
    <3>5. got[r] + 1 \in 0..MaxTokens
      BY <1>1, <3>2, <3>3, <3>4
    <3>6. got' = [got EXCEPT ![r] = got[r] + 1]
      BY <2>1 DEF Receive
    <3> QED BY <1>1, <3>5, <3>6
  <2>2. CASE kind # "partial"
    BY <1>1, <2>2 DEF Receive
  <2> QED BY <2>1, <2>2
<1>6. reader' \in [Readers -> {"new", "post", "next", "received", "served", "stop",
                               "drop", "cancel", "stopped"}]
  <2>1. PICK l \in {"next", "received", "stop"} : reader' = [reader EXCEPT ![r] = l]
    BY DEF Receive, ReaderGoto
  <2> QED BY <1>1, <2>1 DEF TypeOK
<1> QED BY <1>4, <1>5, <1>6

\* All that a reader does.
ReaderSteps(r) == AddWaiting(r) \/ Leave(r) \/ Reads(r)

\* The steps of a reader keep the types,
LEMMA ReadersTyped ==
    ASSUME IInv, NEW r \in Readers, ReaderSteps(r)
    PROVE  TypeOK'
<1>1. TypeOK
  BY DEF IInv
<1> USE DEF scheduling, serving
<1>2. CASE AddWaiting(r)
  BY <1>1, <1>2 DEF AddWaiting, ReaderGoto, TypeOK
<1>3. CASE Leave(r)
  BY <1>1, <1>3 DEF Leave, ReaderGoto, TypeOK
<1>4. CASE PostTask(r)
  <2>1. tasks' \in Seq(TaskTypes)
    <3>1. tasks \in Seq(TaskTypes) /\ Completion(r) \in TaskTypes
      BY <1>1, Distinct DEF TypeOK
    <3> QED BY <1>4, <3>1, AppendProperties DEF PostTask
  <2> QED BY <1>1, <1>4, <2>1 DEF PostTask, ReaderGoto, TypeOK
<1>5. CASE Receive(r)
  <2>1. /\ results' \in Seq(Results)
        /\ got' \in [Readers -> 0..MaxTokens]
        /\ reader' \in [Readers -> {"new", "post", "next", "received", "served", "stop",
                                    "drop", "cancel", "stopped"}]
    BY <1>5, ReceiveTyped
  <2>2. UNCHANGED <<tasks, deferred, running, waiting, sampled, decoded, loop, current,
                    pending, slot, main>>
    BY <1>5 DEF Receive
  <2> QED BY <1>1, <2>1, <2>2 DEF TypeOK
<1>6. CASE StopServed(r) \/ StopWaiting(r)
  BY <1>1, <1>6 DEF StopServed, StopWaiting, ReaderGoto, TypeOK
<1>7. CASE DropResults(r)
  <2>1. results' \in Seq(Results)
    BY <1>1, <1>7, CountWithout DEF DropResults, TypeOK
  <2> QED BY <1>1, <1>7, <2>1 DEF DropResults, ReaderGoto, TypeOK
<1>8. CASE PostCancel(r)
  <2> DEFINE left == Without(tasks, {Completion(r)})
  <2>1. tasks' \in Seq(TaskTypes) /\ deferred' \in Seq(Readers)
    <3>1. /\ left \in Seq(TaskTypes) /\ CancelTask(r) \in TaskTypes
          /\ Without(deferred, {r}) \in Seq(Readers)
      <4>1. tasks \in Seq(TaskTypes) /\ deferred \in Seq(Readers) /\ CancelTask(r) \in TaskTypes
        BY <1>1, Distinct DEF TypeOK
      <4>2. Without(tasks, {Completion(r)}) \in Seq(TaskTypes)
        BY <4>1, CountWithout
      <4>3. Without(deferred, {r}) \in Seq(Readers)
        BY <4>1, CountWithout
      <4> QED BY <4>1, <4>2, <4>3
    <3>2. tasks' = <<CancelTask(r)>> \o left /\ deferred' = Without(deferred, {r})
      BY <1>8 DEF PostCancel, CleanUp
    <3> HIDE DEF left
    <3> QED BY <3>1, <3>2, CountPush
  <2>2. UNCHANGED <<running, waiting, results, got, sampled, decoded, loop, current,
                    pending, slot, main>> /\ reader' = [reader EXCEPT ![r] = "stopped"]
    BY <1>8 DEF PostCancel, ReaderGoto
  <2> QED BY <1>1, <2>1, <2>2 DEF TypeOK
<1> QED BY <1>2, <1>3, <1>4, <1>5, <1>6, <1>7, <1>8 DEF ReaderSteps, Reads

\* and so do those of the inference thread.
LEMMA ProcessTyped ==
    ASSUME TypeOK, Hands, Process
    PROVE  TypeOK'
<1> USE DEF scheduling
<1>1. CASE Defer
  <2>1. current.of \in Readers /\ current' = None
    BY <1>1, Handed DEF Defer
  <2>2. deferred' \in Seq(Readers)
    BY <1>1, <2>1, AppendProperties DEF Defer, TypeOK
  <2> QED BY <1>1, <2>1, <2>2 DEF Defer, TypeOK
<1>2. CASE Launch
  <2>1. current.of \in Readers /\ current' = None
    BY <1>2, Handed DEF Launch
  <2>2. PICK s \in Slots : slot' = [slot EXCEPT ![s] = current.of]
    BY <1>2 DEF Launch, Idle
  <2> QED BY <1>2, <2>1, <2>2 DEF Launch, TypeOK
<1>3. CASE Refuse
  <2>1. current.of \in Readers /\ current' = None
    BY <1>3, Handed DEF Refuse
  <2>2. results' \in Seq(Results)
    BY <1>3, <2>1, SendTyped DEF Refuse, Kinds
  <2> QED BY <1>3, <2>1, <2>2 DEF Refuse, TypeOK
<1>4. CASE CancelRunning
  <2>1. current' = None
    BY <1>4, Handed DEF CancelRunning
  <2>2. PICK s \in Slots : Release(s)
    BY <1>4 DEF CancelRunning
  <2>3. tasks' \in Seq(TaskTypes) /\ deferred' \in Seq(Readers)
    BY <2>2, PopDeferredMoves DEF Release
  <2>4. slot' = [slot EXCEPT ![s] = None]
    BY <2>2 DEF Release
  <2> QED BY <1>4, <2>1, <2>3, <2>4 DEF CancelRunning, TypeOK
<1>5. CASE IgnoreTask
  <2>1. current' = None
    BY <1>5 DEF IgnoreTask, Processing
  <2> QED BY <1>5, <2>1 DEF IgnoreTask, TypeOK
<1> QED BY <1>1, <1>2, <1>3, <1>4, <1>5 DEF Process

\* In each of the three loops.
LEMMA InferTyped ==
    ASSUME TypeOK, Hands, Infer
    PROVE  TypeOK'
<1> USE DEF scheduling
<1>1. CASE StartLoop \/ EndLoop \/ Wait \/ AllIdle \/ SlotsUpdated
  BY <1>1 DEF StartLoop, EndLoop, Wait, AllIdle, SlotsUpdated, TypeOK
<1>2. CASE Pop
  <2>1. CASE tasks = <<>>
    BY <1>2, <2>1 DEF Pop, TypeOK
  <2>2. CASE tasks # <<>>
    <3>1. tasks' \in Seq(TaskTypes) /\ current' \in TaskTypes
      <4>1. tasks \in Seq(TaskTypes)
        BY DEF TypeOK
      <4> QED BY <1>2, <2>2, <4>1, HeadTailProperties DEF Pop
    <3> QED BY <1>2, <2>2, <3>1 DEF Pop, TypeOK
  <2> QED BY <2>1, <2>2
<1>3. CASE Decode
  <2>1. tasks' \in Seq(TaskTypes)
    BY <1>3, Distinct, AppendProperties DEF Decode, TypeOK
  <2> QED BY <1>3, <2>1 DEF Decode, TypeOK
<1>4. CASE SendFinal
  <2>1. slot[current] \in Readers
    BY <1>4 DEF SendFinal, Hands, TypeOK
  <2>2. results' \in Seq(Results)
    BY <1>4, <2>1, SendTyped DEF SendFinal, Kinds
  <2> QED BY <1>4, <2>2 DEF SendFinal, TypeOK
<1>5. CASE ReleaseSlot
  <2>1. tasks' \in Seq(TaskTypes) /\ deferred' \in Seq(Readers)
    BY <1>5, PopDeferredMoves DEF ReleaseSlot, Release
  <2>2. slot' = [slot EXCEPT ![current] = None]
    BY <1>5 DEF ReleaseSlot, Release
  <2> QED BY <1>5, <2>1, <2>2 DEF ReleaseSlot, TypeOK
<1>6. ASSUME NEW s \in Slots, Sample(s) PROVE TypeOK'
  <2>1. slot[s] \in Readers /\ loop' \in {"slots", "finish"}
    BY <1>6 DEF Sample, TypeOK
  <2>2. results' \in Seq(Results)
    <3>1. Send("partial", slot[s]) \/ results' = results
      BY <1>6 DEF Sample
    <3> QED BY <2>1, <3>1, SendTyped DEF Kinds, TypeOK
  <2>3. /\ sampled' \in [Readers -> Nat] /\ decoded' \in [Readers -> 0..MaxTokens]
        /\ \A r \in Readers : sampled'[r] <= decoded'[r]
    <3>1. /\ sampled \in [Readers -> Nat] /\ decoded \in [Readers -> 0..MaxTokens]
          /\ \A r \in Readers : sampled[r] <= decoded[r]
          /\ MaxTokens \in Nat
      BY QueueAssumption DEF TypeOK
    <3>2. /\ decoded[slot[s]] < MaxTokens
          /\ decoded' = [decoded EXCEPT ![slot[s]] = decoded[slot[s]] + 1]
          /\ sampled' \in {sampled, [sampled EXCEPT ![slot[s]] = sampled[slot[s]] + 1]}
      BY <1>6 DEF Sample
    <3>3. decoded[slot[s]] + 1 \in 0..MaxTokens
      BY <2>1, <3>1, <3>2
    <3>4. sampled' \in [Readers -> Nat] /\ decoded' \in [Readers -> 0..MaxTokens]
      BY <2>1, <3>1, <3>2, <3>3
    <3>5. ASSUME NEW r \in Readers PROVE sampled'[r] <= decoded'[r]
      <4>1. CASE r = slot[s]
        BY <2>1, <3>1, <3>2, <4>1
      <4>2. CASE r # slot[s]
        BY <2>1, <3>1, <3>2, <4>2
      <4> QED BY <4>1, <4>2
    <3> QED BY <3>4, <3>5
  <2>4. current' \in {None} \union TaskTypes \union Slots /\ pending' \subseteq Slots
    BY <1>6 DEF Sample, TypeOK
  <2>5. UNCHANGED <<tasks, deferred, running, waiting, reader, got, slot, main>>
    BY <1>6 DEF Sample
  <2> QED BY <2>1, <2>2, <2>3, <2>4, <2>5 DEF TypeOK
<1>7. ASSUME NEW s \in Slots, SendError(s) PROVE TypeOK'
  <2>1. slot[s] \in Readers
    BY <1>7 DEF SendError, Hands, TypeOK
  <2>2. results' \in Seq(Results)
    BY <1>7, <2>1, SendTyped DEF SendError, Kinds
  <2> QED BY <1>7, <2>2 DEF SendError, TypeOK
<1> QED BY <1>1, <1>2, <1>3, <1>4, <1>5, <1>6, <1>7, ProcessTyped DEF Infer, Update
-----------------------------------------------------------------------------
(***************************************************************************)
(* Hands and Waits.                                                        *)
(***************************************************************************)
\* The inference thread knows what it holds.
LEMMA HandsKept == ASSUME TypeOK, Hands, Next PROVE Hands'
<1> USE DEF Hands, scheduling, serving
<1>1. CASE Terminate \/ Join \/ \E r \in Readers : ReaderSteps(r)
  BY <1>1 DEF Terminate, Join, ReaderSteps, AddWaiting, Leave, Reads, PostTask, Receive,
              StopServed, StopWaiting, DropResults, PostCancel
<1>2. CASE StartLoop \/ EndLoop \/ Wait \/ AllIdle \/ SlotsUpdated
  BY <1>2 DEF StartLoop, EndLoop, Wait, AllIdle, SlotsUpdated
<1>3. CASE Pop
  <2>1. CASE tasks = <<>>
    BY <1>3, <2>1 DEF Pop
  <2>2. CASE tasks # <<>>
    <3>1. current' \in TaskTypes /\ loop' = "process"
      BY <1>3, <2>2, HeadTailProperties DEF Pop, TypeOK
    <3> QED BY <3>1
  <2> QED BY <2>1, <2>2
<1>4. CASE Process
  <2>1. loop' = "pop"
    BY <1>4 DEF Process, Defer, Launch, Refuse, CancelRunning, IgnoreTask
  <2> QED BY <2>1
<1>5. CASE Decode
  BY <1>5 DEF Decode, Idle
<1>6. CASE SendFinal
  BY <1>6 DEF SendFinal
<1>7. CASE ReleaseSlot
  <2>1. /\ loop' = "slots" /\ pending' = pending \ {current}
        /\ slot' = [slot EXCEPT ![current] = None]
        /\ \A s \in pending : slot[s] # None
    BY <1>7 DEF ReleaseSlot, Release
  <2> QED BY <2>1 DEF TypeOK
<1>8. ASSUME NEW s \in Slots, Sample(s) \/ SendError(s) PROVE Hands'
  <2>1. /\ loop = "slots" /\ s \in pending /\ UNCHANGED slot
        /\ \/ pending' = pending \ {s} /\ loop' = "slots"
           \/ loop' \in {"finish", "release"} /\ current' = s /\ UNCHANGED pending
    BY <1>8 DEF Sample, SendError
  <2> QED BY <2>1
<1> QED BY <1>1, <1>2, <1>3, <1>4, <1>5, <1>6, <1>7, <1>8 DEF Next, Infer, Update, ReaderSteps

\* The inference thread has no say in it.
InferFrame == UNCHANGED <<waiting, reader, got, main>>

\* None of its steps has.
LEMMA InferLeaves == ASSUME Infer PROVE InferFrame
  BY DEF Infer, StartLoop, EndLoop, Pop, Wait, Process, Defer, Launch, Refuse,
         CancelRunning, IgnoreTask, Update, AllIdle, Decode, SendFinal, ReleaseSlot,
         SlotsUpdated, Sample, SendError, InferFrame, scheduling

\* A reader waits for its results from before it posts until it stops.
LEMMA WaitsKept == ASSUME TypeOK, Waits, Next PROVE Waits'
<1> USE DEF Waits, ReaderGoto
<1>1. CASE Infer \/ Terminate \/ Join
  <2>1. UNCHANGED <<waiting, reader>>
    BY <1>1, InferLeaves DEF InferFrame, Terminate, Join
  <2> QED BY <2>1
<1>2. ASSUME NEW r \in Readers, ReaderSteps(r) PROVE Waits'
  <2>1. PICK l : reader' = [reader EXCEPT ![r] = l]
    BY <1>2 DEF ReaderSteps, AddWaiting, Leave, Reads, PostTask, Receive, StopServed,
                StopWaiting, DropResults, PostCancel
  <2>2. \A q \in Readers \ {r} : reader'[q] = reader[q]
    BY <2>1 DEF TypeOK
  <2>3. \A q \in Readers \ {r} : q \in waiting' <=> q \in waiting
    BY <1>2 DEF ReaderSteps, AddWaiting, Leave, Reads, PostTask, Receive, StopServed,
                StopWaiting, DropResults, PostCancel
  <2>4. /\ reader'[r] \in {"post", "next", "received", "stop"} => r \in waiting'
        /\ reader'[r] \in {"new", "served", "cancel", "stopped"} => r \notin waiting'
    <3>1. CASE AddWaiting(r)
      BY <3>1 DEF AddWaiting, TypeOK
    <3>2. CASE Leave(r) \/ PostTask(r)
      BY <3>2 DEF Leave, PostTask, TypeOK
    <3>3. CASE Receive(r)
      <4>1. PICK k \in {"next", "received", "stop"} : reader' = [reader EXCEPT ![r] = k]
        BY <3>3 DEF Receive
      <4> QED BY <3>3, <4>1 DEF Receive, TypeOK
    <3>4. CASE StopServed(r) \/ StopWaiting(r) \/ DropResults(r)
      BY <3>4 DEF StopServed, StopWaiting, DropResults, TypeOK
    <3>5. CASE PostCancel(r)
      BY <3>5 DEF PostCancel, TypeOK
    <3> QED BY <1>2, <3>1, <3>2, <3>3, <3>4, <3>5 DEF ReaderSteps, Reads
  <2> QED BY <2>2, <2>3, <2>4
<1> QED BY <1>1, <1>2 DEF Next, ReaderSteps
-----------------------------------------------------------------------------
(***************************************************************************)
(* Copies of a task.                                                       *)
(***************************************************************************)
\* Only post_task makes one.
CopiesMove == \A r \in Readers :
                 \/ Copies(r)' <= Copies(r)
                 \/ PostTask(r) /\ Copies(r)' = Copies(r) + 1

\* post_task does,
LEMMA PostCopies == ASSUME TypeOK, NEW q \in Readers, PostTask(q)
                    PROVE  \A r \in Readers : Copies(r)' = IF r = q THEN Copies(r) + 1
                                                                    ELSE Copies(r)
<1> SUFFICES ASSUME NEW r \in Readers
             PROVE  Copies(r)' = IF r = q THEN Copies(r) + 1 ELSE Copies(r)
  OBVIOUS
<1>1. /\ Count(tasks, Completion(r)) \in Nat /\ Count(deferred, r) \in Nat
      /\ Count(slot, r) \in Nat
  BY CopiesTyped
<1>2. /\ tasks \in Seq(TaskTypes) /\ Completion(q) \in TaskTypes
      /\ tasks' = Append(tasks, Completion(q))
      /\ Completion(q) = Completion(r) <=> r = q
  BY Distinct DEF PostTask, TypeOK
<1>3. Count(tasks', Completion(r)) = IF Completion(q) = Completion(r)
                                     THEN Count(tasks, Completion(r)) + 1
                                     ELSE Count(tasks, Completion(r))
  BY <1>2, CountAppend
<1>4. UNCHANGED <<deferred, slot, loop, current>>
  BY DEF PostTask, serving
<1> QED BY <1>1, <1>2, <1>3, <1>4 DEF Copies, InHand

\* a cancellation takes those that wait in the queues,
LEMMA CancelCopies == ASSUME TypeOK, NEW q \in Readers, PostCancel(q)
                      PROVE  \A r \in Readers : /\ Copies(r)' <= Copies(r)
                                                /\ r # q => Copies(r)' = Copies(r)
<1> SUFFICES ASSUME NEW r \in Readers
             PROVE  Copies(r)' <= Copies(r) /\ (r # q => Copies(r)' = Copies(r))
  OBVIOUS
<1>1. /\ Count(tasks, Completion(r)) \in Nat /\ Count(deferred, r) \in Nat
      /\ Count(slot, r) \in Nat
  BY CopiesTyped
<1> DEFINE left == Without(tasks, {Completion(q)})
<1>2. /\ left \in Seq(TaskTypes)
      /\ Count(left, Completion(r)) <= Count(tasks, Completion(r))
      /\ r # q => Count(left, Completion(r)) = Count(tasks, Completion(r))
      /\ Count(left, Completion(r)) \in Nat
  <2>1. tasks \in Seq(TaskTypes)
    BY DEF TypeOK
  <2> DEFINE X == {Completion(q)}
  <2> HIDE DEF X
  <2>2. /\ Without(tasks, X) \in Seq(TaskTypes)
        /\ Count(Without(tasks, X), Completion(r)) \in {0, Count(tasks, Completion(r))}
        /\ Completion(r) \notin X
              => Count(Without(tasks, X), Completion(r)) = Count(tasks, Completion(r))
    BY <2>1, CountWithout
  <2>3. r # q => Completion(r) \notin X
    BY Distinct DEF X
  <2> QED BY <1>1, <2>2, <2>3 DEF X
<1>3. /\ tasks' = <<CancelTask(q)>> \o left
      /\ CancelTask(q) \in TaskTypes /\ CancelTask(q) # Completion(r)
  BY Distinct DEF PostCancel, CleanUp
<1> HIDE DEF left
<1>4. Count(tasks', Completion(r)) = Count(left, Completion(r))
  BY <1>2, <1>3, CountPush
<1>5. /\ Count(deferred', r) \in Nat /\ Count(deferred', r) <= Count(deferred, r)
      /\ r # q => Count(deferred', r) = Count(deferred, r)
  <2> DEFINE X == {q}
  <2>1. deferred \in Seq(Readers) /\ deferred' = Without(deferred, X)
    BY DEF TypeOK, PostCancel, CleanUp
  <2> HIDE DEF X
  <2>2. /\ Count(deferred', r) \in {0, Count(deferred, r)}
        /\ r \notin X => Count(deferred', r) = Count(deferred, r)
    BY <2>1, CountWithout
  <2>3. r # q => r \notin X
    BY DEF X
  <2> QED BY <1>1, <2>2, <2>3
<1>6. UNCHANGED <<slot, loop, current>>
  BY DEF PostCancel, serving
<1> QED BY <1>1, <1>2, <1>4, <1>5, <1>6 DEF Copies, InHand

\* and start_loop takes a task into its hands.
LEMMA PopCopies == ASSUME TypeOK, Pop PROVE \A r \in Readers : Copies(r)' = Copies(r)
<1> SUFFICES ASSUME NEW r \in Readers PROVE Copies(r)' = Copies(r)
  OBVIOUS
<1>1. /\ Count(tasks, Completion(r)) \in Nat /\ Count(deferred, r) \in Nat
      /\ Count(slot, r) \in Nat
  BY CopiesTyped
<1>2. loop = "pop" /\ ~InHand(r) /\ UNCHANGED <<deferred, slot>>
  BY DEF Pop, InHand
<1>3. CASE tasks = <<>>
  <2>1. UNCHANGED tasks /\ ~InHand(r)'
    BY <1>3 DEF Pop, InHand
  <2> QED BY <1>2, <2>1 DEF Copies
<1>4. CASE tasks # <<>>
  <2>1. tasks' = Tail(tasks) /\ (InHand(r)' <=> Head(tasks) = Completion(r))
    BY <1>4 DEF Pop, InHand
  <2>2. /\ tasks' \in Seq(TaskTypes)
        /\ Count(tasks, Completion(r)) = IF Head(tasks) = Completion(r)
                                         THEN Count(tasks', Completion(r)) + 1
                                         ELSE Count(tasks', Completion(r))
    BY <1>4, <2>1, CountTail DEF TypeOK
  <2>3. Count(tasks', Completion(r)) \in Nat
    BY <2>2, CountSeq
  <2> QED BY <1>1, <1>2, <2>1, <2>2, <2>3 DEF Copies
<1> QED BY <1>3, <1>4

\* A task is deferred,
LEMMA DeferCopies == ASSUME TypeOK, Hands, Defer PROVE \A r \in Readers : Copies(r)' = Copies(r)
<1> SUFFICES ASSUME NEW r \in Readers PROVE Copies(r)' = Copies(r)
  OBVIOUS
<1>1. /\ current.of \in Readers /\ current = Completion(current.of) /\ loop = "process"
      /\ deferred' = Append(deferred, current.of) /\ loop' = "pop"
      /\ UNCHANGED <<tasks, slot>>
  BY Handed DEF Defer
<1>2. /\ Count(tasks, Completion(r)) \in Nat /\ Count(deferred, r) \in Nat
      /\ Count(slot, r) \in Nat
  BY CopiesTyped
<1>3. (InHand(r) <=> r = current.of) /\ ~InHand(r)'
  BY <1>1, Distinct DEF InHand
<1>4. Count(deferred', r) = IF current.of = r THEN Count(deferred, r) + 1
                                              ELSE Count(deferred, r)
  BY <1>1, CountAppend DEF TypeOK
<1> QED BY <1>1, <1>2, <1>3, <1>4 DEF Copies

\* or launched in a slot,
LEMMA LaunchCopies == ASSUME TypeOK, Hands, Launch PROVE \A r \in Readers : Copies(r)' = Copies(r)
<1> SUFFICES ASSUME NEW r \in Readers PROVE Copies(r)' = Copies(r)
  OBVIOUS
<1>1. /\ current.of \in Readers /\ current = Completion(current.of) /\ loop = "process"
      /\ loop' = "pop" /\ UNCHANGED <<tasks, deferred>>
  BY Handed DEF Launch, scheduling
<1>2. /\ Count(tasks, Completion(r)) \in Nat /\ Count(deferred, r) \in Nat
      /\ Count(slot, r) \in Nat
  BY CopiesTyped
<1>3. (InHand(r) <=> r = current.of) /\ ~InHand(r)'
  BY <1>1, Distinct DEF InHand
<1>4. PICK s \in Slots : slot[s] = None /\ slot' = [slot EXCEPT ![s] = current.of]
  BY DEF Launch, Idle
<1>5. /\ DOMAIN slot = Slots /\ DOMAIN slot' = Slots /\ slot[s] # r /\ slot'[s] = current.of
      /\ \A i \in Slots \ {s} : slot'[i] = slot[i]
  BY <1>4, QueueAssumption DEF TypeOK
<1>6. Count(slot', r) = IF r = current.of THEN Count(slot, r) + 1 ELSE Count(slot, r)
  <2>1. CASE r = current.of
    BY <1>5, <2>1, CountSlot
  <2>2. CASE r # current.of
    BY <1>5, <2>2, CountSlot
  <2> QED BY <2>1, <2>2
<1> QED BY <1>1, <1>2, <1>3, <1>6 DEF Copies

\* or refused, and gone,
LEMMA RefuseCopies ==
    ASSUME TypeOK, Hands, Refuse
    PROVE  \A r \in Readers : Copies(r)' = IF r = current.of THEN Copies(r) - 1 ELSE Copies(r)
<1> SUFFICES ASSUME NEW r \in Readers
             PROVE  Copies(r)' = IF r = current.of THEN Copies(r) - 1 ELSE Copies(r)
  OBVIOUS
<1>1. /\ current.of \in Readers /\ current = Completion(current.of) /\ loop = "process"
      /\ loop' = "pop" /\ UNCHANGED <<tasks, deferred, slot>>
  BY Handed DEF Refuse, scheduling
<1>2. /\ Count(tasks, Completion(r)) \in Nat /\ Count(deferred, r) \in Nat
      /\ Count(slot, r) \in Nat
  BY CopiesTyped
<1>3. (InHand(r) <=> r = current.of) /\ ~InHand(r)'
  BY <1>1, Distinct DEF InHand
<1> QED BY <1>1, <1>2, <1>3 DEF Copies

\* or cancelled in its slot,
LEMMA CancelRunningCopies ==
    ASSUME TypeOK, Hands, CancelRunning
    PROVE  \A r \in Readers : Copies(r)' <= Copies(r)
<1>1. /\ current.of \in Readers /\ loop' = "pop" /\ \A r \in Readers : ~InHand(r)
  BY Handed DEF CancelRunning
<1>2. PICK s \in Slots : slot[s] = current.of /\ Release(s)
  BY DEF CancelRunning
<1>3. \A r \in Readers : InHand(r)' <=> InHand(r)
  BY <1>1 DEF InHand
<1>4. \A r \in Readers : Copies(r)' = IF r = slot[s] THEN Copies(r) - 1 ELSE Copies(r)
  BY <1>1, <1>2, <1>3, Released
<1>5. \A r \in Readers : Copies(r) \in Nat
  BY CopiesTyped
<1> QED BY <1>4, <1>5

\* or released there by update_slots.
LEMMA ReleaseCopies ==
    ASSUME TypeOK, Hands, ReleaseSlot
    PROVE  \A r \in Readers : Copies(r)' = IF r = slot[current] THEN Copies(r) - 1
                                                              ELSE Copies(r)
<1>1. current \in Slots /\ slot[current] \in Readers /\ Release(current)
  BY DEF ReleaseSlot, Hands, TypeOK
<1>2. \A r \in Readers : InHand(r)' <=> InHand(r)
  BY DEF ReleaseSlot, InHand
<1> QED BY <1>1, <1>2, Released

\* The other steps of the loop queue a NEXT_RESPONSE, or nothing.
LEMMA DecodeCopies == ASSUME TypeOK, Decode PROVE \A r \in Readers : Copies(r)' = Copies(r)
<1> SUFFICES ASSUME NEW r \in Readers PROVE Copies(r)' = Copies(r)
  OBVIOUS
<1>1. /\ tasks \in Seq(TaskTypes) /\ NextResponse \in TaskTypes
      /\ tasks' = Append(tasks, NextResponse) /\ NextResponse # Completion(r)
  BY Distinct DEF Decode, TypeOK
<1>2. Count(tasks', Completion(r)) = Count(tasks, Completion(r))
  BY <1>1, CountAppend
<1>3. ~InHand(r) /\ ~InHand(r)' /\ UNCHANGED <<deferred, slot>>
  BY DEF Decode, InHand
<1> QED BY <1>2, <1>3 DEF Copies

\* The rest of the program does not touch them.
Elsewhere == \/ StartLoop \/ EndLoop \/ Wait \/ IgnoreTask \/ AllIdle \/ SendFinal
             \/ SlotsUpdated \/ \E s \in Slots : Sample(s) \/ SendError(s)
\* So it keeps the copies.
LEMMA OtherCopies == ASSUME TypeOK, Hands, Elsewhere
                     PROVE  \A r \in Readers : Copies(r)' = Copies(r)
<1> SUFFICES ASSUME NEW r \in Readers PROVE Copies(r)' = Copies(r)
  OBVIOUS
<1>1. ~InHand(r) /\ ~InHand(r)' /\ UNCHANGED <<tasks, deferred, slot>>
  <2> USE DEF scheduling, InHand
  <2>1. CASE StartLoop \/ EndLoop \/ Wait \/ AllIdle \/ SlotsUpdated \/ SendFinal
    BY <2>1 DEF StartLoop, EndLoop, Wait, AllIdle, SlotsUpdated, SendFinal
  <2>2. ASSUME NEW s \in Slots, Sample(s) \/ SendError(s)
        PROVE  ~InHand(r) /\ ~InHand(r)' /\ UNCHANGED <<tasks, deferred, slot>>
    BY <2>2 DEF Sample, SendError
  <2>3. CASE IgnoreTask
    <3>1. \A q \in Readers : ~InHand(q)
      BY <2>3, Handed DEF IgnoreTask
    <3> QED BY <2>3, <3>1 DEF IgnoreTask
  <2> QED BY <2>1, <2>2, <2>3 DEF Elsewhere
<1> QED BY <1>1 DEF Copies

\* So copies are made by post_task alone.
LEMMA CopiesKept == ASSUME TypeOK, Hands, Next PROVE CopiesMove
<1>1. \A r \in Readers : Copies(r) \in Nat
  BY CopiesTyped
<1>2. ASSUME NEW q \in Readers, ReaderSteps(q) PROVE CopiesMove
  <2>1. CASE PostTask(q)
    BY <1>1, <2>1, PostCopies DEF CopiesMove
  <2>2. CASE PostCancel(q)
    BY <2>2, CancelCopies DEF CopiesMove
  <2>3. CASE AddWaiting(q) \/ Leave(q) \/ Receive(q) \/ StopServed(q) \/ StopWaiting(q)
             \/ DropResults(q)
    <3>1. UNCHANGED <<tasks, deferred, slot, loop, current>>
      BY <2>3 DEF AddWaiting, Leave, Receive, StopServed, StopWaiting, DropResults,
                  scheduling, serving
    <3>2. \A r \in Readers : Copies(r)' = Copies(r)
      BY <3>1 DEF Copies, InHand
    <3> QED BY <1>1, <3>2 DEF CopiesMove
  <2> QED BY <1>2, <2>1, <2>2, <2>3 DEF ReaderSteps, Reads
<1>3. CASE Terminate \/ Join
  <2>1. UNCHANGED <<tasks, deferred, slot, loop, current>>
    BY <1>3 DEF Terminate, Join, scheduling, serving
  <2>2. \A r \in Readers : Copies(r)' = Copies(r)
    BY <2>1 DEF Copies, InHand
  <2> QED BY <1>1, <2>2 DEF CopiesMove
<1>4. CASE Refuse \/ ReleaseSlot
  BY <1>1, <1>4, RefuseCopies, ReleaseCopies DEF CopiesMove
<1>5. CASE Pop \/ Defer \/ Launch \/ Decode \/ Elsewhere
  BY <1>1, <1>5, PopCopies, DeferCopies, LaunchCopies, DecodeCopies, OtherCopies
     DEF CopiesMove
<1>6. CASE CancelRunning
  BY <1>6, CancelRunningCopies DEF CopiesMove
<1> QED BY <1>2, <1>3, <1>4, <1>5, <1>6
        DEF Next, Infer, Process, Update, ReaderSteps, Elsewhere
-----------------------------------------------------------------------------
(***************************************************************************)
(* Results.                                                                *)
(***************************************************************************)
\* Nobody's task ends, except the one of q.
EndedOnly(q) == \A r \in Readers : Ended(r)' => Ended(r) \/ r = q
NobodyEnds == \A r \in Readers : Ended(r)' => Ended(r)

\* A task that is somewhere has not ended.
LEMMA StillAlive ==
    ASSUME IInv, NEW q \in Readers, Copies(q) >= 1, loop # "release"
    PROVE  ~Ended(q) /\ reader[q] \notin {"new", "post", "received", "served"}
  BY DEF IInv, Ends, Posted, Releasing, Ended

\* What send does to the queue.
LEMMA SendPlaces ==
    ASSUME TypeOK, NEW kind \in Kinds, NEW q \in Readers, Send(kind, q), q \in waiting
    PROVE  LET last == Len(results) + 1
           IN  /\ results' \in Seq(Results) /\ last \notin DOMAIN results
               /\ DOMAIN results' = DOMAIN results \union {last}
               /\ \A i \in DOMAIN results : results'[i] = results[i] /\ i < last
               /\ results'[last].kind = kind /\ results'[last].of = q
               /\ \A r \in Readers :
                     Partials(r)' = IF kind = "partial" /\ r = q THEN Partials(r) + 1
                                                                 ELSE Partials(r)
<1> DEFINE x == [kind |-> kind, of |-> q]
           last == Len(results) + 1
<1>1. results \in Seq(Results) /\ x \in Results /\ x.kind = kind /\ x.of = q
  BY DEF TypeOK, Results
<1>2. results' = Append(results, x)
  BY DEF Send
<1>3. ASSUME NEW r \in Readers
      PROVE  x = [kind |-> "partial", of |-> r] <=> kind = "partial" /\ r = q
  <2>1. [kind |-> "partial", of |-> r].kind = "partial" /\ [kind |-> "partial", of |-> r].of = r
    OBVIOUS
  <2> QED BY <1>1, <2>1
<1> HIDE DEF x
<1>4. /\ results' \in Seq(Results) /\ Len(results') = last
      /\ \A i \in 1..Len(results) : results'[i] = results[i]
      /\ results'[last] = x
  BY <1>1, <1>2, AppendProperties
<1>5. DOMAIN results = 1..Len(results) /\ DOMAIN results' = 1..last /\ Len(results) \in Nat
  BY <1>1, <1>4, SeqFinite
<1>6. ASSUME NEW r \in Readers
      PROVE  Partials(r)' = IF kind = "partial" /\ r = q THEN Partials(r) + 1 ELSE Partials(r)
  <2> DEFINE p == [kind |-> "partial", of |-> r]
  <2>1. x = p <=> kind = "partial" /\ r = q
    BY <1>3
  <2> HIDE DEF p
  <2>2. Count(results', p) = IF x = p THEN Count(results, p) + 1 ELSE Count(results, p)
    BY <1>1, <1>2, CountAppend
  <2> QED BY <2>1, <2>2 DEF Partials, p
<1>7. /\ last \notin DOMAIN results /\ DOMAIN results' = DOMAIN results \union {last}
      /\ \A i \in DOMAIN results : results'[i] = results[i] /\ i < last
  BY <1>4, <1>5
<1> QED BY <1>1, <1>4, <1>6, <1>7

\* The answers to all readers stay right when one more result is sent.
LEMMA SendKeeps ==
    ASSUME IInv, NEW kind \in Kinds, NEW q \in Readers, Send(kind, q),
           Copies(q) >= 1, loop # "release",
           UNCHANGED <<reader, waiting, got>>,
           sampled' = IF kind = "partial" THEN [sampled EXCEPT ![q] = sampled[q] + 1]
                                          ELSE sampled
    PROVE  Answers' /\ EndedOnly(q) /\ (kind = "partial" => NobodyEnds)
<1> DEFINE last == Len(results) + 1
<1>1. /\ TypeOK /\ Waits /\ Unanswered /\ LastIsLast /\ Balance /\ NoStaleResult
      /\ ~Ended(q) /\ reader[q] \notin {"new", "post", "received", "served"}
  BY StillAlive DEF IInv, Answers
<1>2. /\ \A r \in Readers : r # q => sampled'[r] = sampled[r]
      /\ sampled'[q] = IF kind = "partial" THEN sampled[q] + 1 ELSE sampled[q]
  BY <1>1 DEF TypeOK
<1>3. \A r \in Readers : got[r] \in Nat /\ sampled[r] \in Nat /\ Partials(r) \in Nat
  <2>1. results \in Seq(Results) /\ MaxTokens \in Nat
    BY <1>1, QueueAssumption DEF TypeOK
  <2>2. \A r \in Readers : Partials(r) \in Nat
    BY <2>1, CountSeq DEF Partials
  <2>3. \A r \in Readers : got[r] \in 0..MaxTokens /\ sampled[r] \in Nat
    BY <1>1 DEF TypeOK
  <2> QED BY <2>1, <2>2, <2>3
<1>4. CASE q \notin waiting
  <2>1. UNCHANGED results /\ reader[q] # "next"
    BY <1>1, <1>4 DEF Send, Waits
  <2>2. Unanswered' /\ LastIsLast' /\ NoStaleResult' /\ NobodyEnds
    BY <1>1, <2>1 DEF Unanswered, LastIsLast, NoStaleResult, NobodyEnds, Ended, Places
  <2>3. Balance'
    BY <1>1, <1>2, <2>1 DEF Balance, Partials
  <2> QED BY <2>2, <2>3 DEF Answers, EndedOnly, NobodyEnds
<1>5. CASE q \in waiting
  <2>1. /\ results' \in Seq(Results) /\ last \notin DOMAIN results
        /\ DOMAIN results' = DOMAIN results \union {last}
        /\ \A i \in DOMAIN results : results'[i] = results[i] /\ i < last
        /\ results'[last].kind = kind /\ results'[last].of = q
        /\ \A r \in Readers :
              Partials(r)' = IF kind = "partial" /\ r = q THEN Partials(r) + 1
                                                          ELSE Partials(r)
    BY <1>1, <1>5, SendPlaces
  <2> HIDE DEF last
  <2>2. /\ \A r \in Readers \ {q} : Places(r)' = Places(r)
        /\ Places(q)' = Places(q) \union {last}
        /\ \A r \in Readers : \A i \in Places(r) :
              i \in DOMAIN results /\ results'[i] = results[i] /\ i < last
    BY <2>1 DEF Places
  <2>3. \A i \in Places(q) : ~Closing(results[i])
    BY <1>1 DEF Ended
  <2>4. Unanswered'
    BY <1>1, <2>2 DEF Unanswered
  <2>5. LastIsLast'
    <3>1. \A i \in DOMAIN results : i \in Nat
      BY <1>1, PlacesTyped
    <3>2. ASSUME NEW r \in Readers, NEW i \in Places(r)', NEW j \in Places(r)', i < j
          PROVE  ~Closing(results'[i])
      <4>1. i # last
        <5>1. CASE i = last
          <6>1. j \in DOMAIN results /\ j < last /\ j \in Nat /\ last \in Nat
            <7>1. last \in Nat
              BY <1>1, PlacesTyped DEF last
            <7>2. j # last
              BY <3>2, <5>1, <7>1
            <7>3. j \in Places(r)
              BY <2>2, <3>2, <7>2
            <7> QED BY <2>2, <3>1, <7>1, <7>3
          <6> QED BY <3>2, <5>1, <6>1
        <5> QED BY <5>1
      <4>2. i \in Places(r)
        BY <2>2, <3>2, <4>1
      <4>3. CASE r = q
        BY <2>2, <2>3, <4>2, <4>3
      <4>4. CASE r # q
        BY <1>1, <2>2, <3>2, <4>4 DEF LastIsLast
      <4> QED BY <4>3, <4>4
    <3>3. \A r \in Readers : reader'[r] \in {"received", "served"} => Places(r)' = {}
      BY <1>1, <2>2 DEF LastIsLast
    <3> QED BY <3>2, <3>3 DEF LastIsLast, Closing
  <2>6. Balance'
    <3> SUFFICES ASSUME NEW r \in Readers,
                        reader[r] \in {"new", "post", "next", "received", "served"}
                 PROVE  got[r] + Partials(r)' = sampled'[r]
      BY DEF Balance
    <3>1. got[r] + Partials(r) = sampled[r]
      BY <1>1 DEF Balance
    <3>2. /\ Partials(r)' = IF kind = "partial" /\ r = q THEN Partials(r) + 1 ELSE Partials(r)
          /\ got[r] \in Nat /\ sampled[r] \in Nat /\ Partials(r) \in Nat
      BY <1>3, <2>1
    <3>3. CASE kind = "partial" /\ r = q
      BY <1>2, <3>1, <3>2, <3>3
    <3>4. CASE ~(kind = "partial" /\ r = q)
      BY <1>2, <3>1, <3>2, <3>4
    <3> QED BY <3>3, <3>4
  <2>7. NoStaleResult'
    BY <1>1, <1>5, <2>1 DEF NoStaleResult
  <2>8. EndedOnly(q) /\ (kind = "partial" => NobodyEnds)
    <3>1. \A r \in Readers \ {q} : Ended(r)' => Ended(r)
      BY <2>2 DEF Ended, Closing
    <3>2. kind = "partial" => ~Ended(q)'
      BY <1>1, <2>1, <2>2, <2>3 DEF Ended, Closing
    <3> QED BY <3>1, <3>2 DEF EndedOnly, NobodyEnds
  <2> QED BY <2>4, <2>5, <2>6, <2>7, <2>8 DEF Answers
<1> QED BY <1>4, <1>5

\* Where results are only removed, and f says which are left, nothing ends and
\* the order of the others stays.
Thinned(f) ==
    /\ f \in [DOMAIN results' -> DOMAIN results]
    /\ \A j \in DOMAIN results' : results'[j] = results[f[j]]
    /\ \A i, j \in DOMAIN results' : i < j => f[i] < f[j]

\* So what is right of the places of a reader stays right.
LEMMA ThinnedPlaces ==
    ASSUME TypeOK, LastIsLast, NEW f, Thinned(f)
    PROVE  /\ \A r \in Readers : \A i \in Places(r)' :
                 f[i] \in Places(r) /\ results'[i] = results[f[i]]
           /\ \A r \in Readers : Places(r) = {} => Places(r)' = {}
           /\ \A r \in Readers : \A i, j \in Places(r)' : i < j => ~Closing(results'[i])
<1>1. \A r \in Readers : \A i \in Places(r)' :
         i \in DOMAIN results' /\ f[i] \in Places(r) /\ results'[i] = results[f[i]]
  BY DEF Thinned, Places
<1>2. \A r \in Readers : \A i, j \in Places(r)' : i < j => ~Closing(results'[i])
  BY <1>1 DEF Thinned, LastIsLast
<1> QED BY <1>1, <1>2

\* next() takes the oldest result of its reader.
LEMMA ReceiveKeeps == ASSUME IInv, NEW r \in Readers, Receive(r) PROVE Answers' /\ NobodyEnds
<1> DEFINE t == Taken(r)
           f == [j \in DOMAIN results' |-> IF j < t THEN j ELSE j + 1]
<1>1. TypeOK /\ Unanswered /\ LastIsLast /\ Balance /\ NoStaleResult
  BY DEF IInv, Answers
<1>2. /\ t \in Places(r) /\ t \in DOMAIN results /\ \A j \in Places(r) : t <= j
      /\ results[t].of = r
  BY <1>1, TakenFirst DEF Receive, Places
<1>3. results \in Seq(Results) /\ results' = RemoveAt(results, t)
  BY <1>1 DEF Receive, TypeOK
<1>4. results[t].kind \in Kinds /\ results[t] = [kind |-> results[t].kind, of |-> r]
  BY <1>1, <1>2, PlacesTyped
<1>5. reader[r] = "next" /\ UNCHANGED <<waiting, sampled>>
  BY DEF Receive
<1>6. /\ \A q \in Readers \ {r} : reader'[q] = reader[q] /\ got'[q] = got[q]
      /\ results[t].kind = "partial" => reader'[r] = "next" /\ got'[r] = got[r] + 1
      /\ results[t].kind = "final" => reader'[r] = "received" /\ got'[r] = got[r]
      /\ results[t].kind = "error" => reader'[r] = "stop"
  <2>1. CASE results[t].kind = "partial"
    <3>1. got' = [got EXCEPT ![r] = got[r] + 1] /\ reader' = [reader EXCEPT ![r] = "next"]
      BY <2>1 DEF Receive, ReaderGoto
    <3> QED BY <1>1, <2>1, <3>1 DEF TypeOK
  <2>2. CASE results[t].kind = "final"
    <3>1. got' = got /\ reader' = [reader EXCEPT ![r] = "received"]
      BY <2>2 DEF Receive, ReaderGoto
    <3> QED BY <1>1, <2>2, <3>1 DEF TypeOK
  <2>3. CASE results[t].kind = "error"
    <3>1. got' = got /\ reader' = [reader EXCEPT ![r] = "stop"]
      BY <2>3 DEF Receive, ReaderGoto
    <3> QED BY <1>1, <2>3, <3>1 DEF TypeOK
  <2> QED BY <1>4, <2>1, <2>2, <2>3 DEF Kinds
<1>7. /\ results' \in Seq(Results) /\ Len(results') = Len(results) - 1
      /\ \A j \in DOMAIN results' : results'[j] = IF j < t THEN results[j] ELSE results[j + 1]
  BY <1>2, <1>3, CountRemove
<1>8. /\ DOMAIN results = 1..Len(results) /\ Len(results) \in Nat
      /\ DOMAIN results' = 1..(Len(results) - 1)
  BY <1>1, <1>7, PlacesTyped, SeqFinite
<1> HIDE DEF t
<1>9. Thinned(f)
  <2>1. f \in [DOMAIN results' -> DOMAIN results]
    BY <1>2, <1>8
  <2>2. \A j \in DOMAIN results' : results'[j] = results[f[j]]
    BY <1>7
  <2>3. \A i, j \in DOMAIN results' : i < j => f[i] < f[j]
    BY <1>2, <1>8
  <2> QED BY <2>1, <2>2, <2>3 DEF Thinned
<1>10. \A i \in DOMAIN results' : f[i] # t
  BY <1>2, <1>8
<1> HIDE DEF f
<1>11. /\ \A q \in Readers : \A i \in Places(q)' :
             f[i] \in Places(q) /\ results'[i] = results[f[i]]
       /\ \A q \in Readers : Places(q) = {} => Places(q)' = {}
       /\ \A q \in Readers : \A i, j \in Places(q)' : i < j => ~Closing(results'[i])
  BY <1>1, <1>9, ThinnedPlaces
<1>12. Unanswered'
  BY <1>1, <1>4, <1>5, <1>6, <1>11 DEF Unanswered, Kinds
<1>13. Closing(results[t]) => Places(r)' = {}
  <2> SUFFICES ASSUME Closing(results[t]), NEW i \in Places(r)' PROVE FALSE
    OBVIOUS
  <2>1. f[i] \in Places(r) /\ f[i] # t
    BY <1>10, <1>11 DEF Places
  <2>2. t <= f[i] /\ f[i] \in 1..Len(results) /\ t \in 1..Len(results)
    BY <1>2, <1>8, <2>1 DEF Places
  <2>3. t < f[i]
    BY <1>8, <2>1, <2>2
  <2> QED BY <1>1, <1>2, <2>1, <2>3 DEF LastIsLast
<1>14. LastIsLast'
  <2>1. \A q \in Readers : reader'[q] \in {"received", "served"} => Places(q)' = {}
    <3> SUFFICES ASSUME NEW q \in Readers, reader'[q] \in {"received", "served"}
                 PROVE  Places(q)' = {}
      OBVIOUS
    <3>1. CASE q = r
      BY <1>4, <1>6, <1>13, <3>1 DEF Kinds, Closing
    <3>2. CASE q # r
      BY <1>1, <1>6, <1>11, <3>2 DEF LastIsLast
    <3> QED BY <3>1, <3>2
  <2> QED BY <1>11, <2>1 DEF LastIsLast, Closing
<1>15. Balance'
  <2> SUFFICES ASSUME NEW q \in Readers,
                      reader'[q] \in {"new", "post", "next", "received", "served"}
               PROVE  got'[q] + Partials(q)' = sampled[q]
    BY <1>5 DEF Balance
  <2> DEFINE p == [kind |-> "partial", of |-> q]
  <2>1. p.kind = "partial" /\ p.of = q
    OBVIOUS
  <2>2. results[t] = p <=> results[t].kind = "partial" /\ q = r
    BY <1>2, <1>4, <2>1
  <2> HIDE DEF p
  <2>3. /\ Count(results, p) \in Nat /\ Count(results', p) \in Nat
        /\ Count(results, p) = IF results[t] = p THEN Count(results', p) + 1
                                                 ELSE Count(results', p)
    BY <1>2, <1>3, <1>7, CountRemove, CountSeq
  <2>4. Partials(q) = Count(results, p) /\ Partials(q)' = Count(results', p)
    BY DEF Partials, p
  <2>5. got[q] \in Nat /\ sampled[q] \in Nat
    BY <1>1, QueueAssumption DEF TypeOK
  <2>6. got[q] + Partials(q) = sampled[q]
    BY <1>1, <1>5, <1>6 DEF Balance
  <2>7. CASE q = r /\ results[t].kind = "partial"
    BY <1>6, <2>2, <2>3, <2>4, <2>5, <2>6, <2>7
  <2>8. CASE q = r /\ results[t].kind = "final"
    BY <1>6, <2>2, <2>3, <2>4, <2>5, <2>6, <2>8
  <2>9. CASE q = r /\ results[t].kind = "error"
    BY <1>6, <2>9
  <2>10. CASE q # r
    BY <1>6, <2>2, <2>3, <2>4, <2>5, <2>6, <2>10
  <2> QED BY <1>4, <2>7, <2>8, <2>9, <2>10 DEF Kinds
<1>16. NoStaleResult'
  <2> SUFFICES ASSUME NEW i \in DOMAIN results'
               PROVE  results'[i].of \in waiting \/ reader'[results'[i].of] = "drop"
    BY <1>5 DEF NoStaleResult
  <2>1. f[i] \in DOMAIN results /\ results'[i] = results[f[i]]
    BY <1>9 DEF Thinned
  <2>2. results[f[i]].of \in Readers
    BY <1>1, <2>1, PlacesTyped
  <2> QED BY <1>1, <1>5, <1>6, <2>1, <2>2 DEF NoStaleResult
<1>17. NobodyEnds
  <2> SUFFICES ASSUME NEW q \in Readers, Ended(q)' PROVE Ended(q)
    BY DEF NobodyEnds
  <2>1. CASE reader'[q] \in {"received", "served"}
    BY <1>2, <1>4, <1>6, <2>1 DEF Ended, Closing, Kinds
  <2>2. CASE \E i \in Places(q)' : Closing(results'[i])
    BY <1>11, <2>2 DEF Ended
  <2> QED BY <2>1, <2>2 DEF Ended, Closing
<1> QED BY <1>12, <1>14, <1>15, <1>16, <1>17 DEF Answers

\* stop() drops the results of its reader, and no other.
LEMMA DropKeeps == ASSUME IInv, NEW r \in Readers, DropResults(r) PROVE Answers' /\ NobodyEnds
<1>1. TypeOK /\ Unanswered /\ LastIsLast /\ Balance /\ NoStaleResult
  BY DEF IInv, Answers
<1>2. /\ reader[r] = "drop" /\ reader'[r] = "cancel"
      /\ \A q \in Readers \ {r} : reader'[q] = reader[q]
      /\ \A q \in Readers \ {r} : q \in waiting => q \in waiting'
      /\ UNCHANGED <<got, sampled>>
  BY <1>1 DEF DropResults, ReaderGoto, TypeOK
<1>3. results \in Seq(Results) /\ results' = Without(results, ResultsOf(r))
  BY <1>1 DEF TypeOK, DropResults
<1>4. PICK f \in [DOMAIN results' -> DOMAIN results] :
         /\ \A j \in DOMAIN results' : results'[j] = results[f[j]] /\ results'[j] \notin ResultsOf(r)
         /\ \A j, k \in DOMAIN results' : j < k => f[j] < f[k]
         /\ \A i \in DOMAIN results : results[i] \notin ResultsOf(r)
               => \E j \in DOMAIN results' : f[j] = i
  BY <1>3, WithoutPlaces
<1>5. Thinned(f)
  BY <1>4 DEF Thinned
<1>6. /\ \A q \in Readers : \A i \in Places(q)' :
            f[i] \in Places(q) /\ results'[i] = results[f[i]]
      /\ \A q \in Readers : Places(q) = {} => Places(q)' = {}
      /\ \A q \in Readers : \A i, j \in Places(q)' : i < j => ~Closing(results'[i])
  BY <1>1, <1>5, ThinnedPlaces
<1>7. \A j \in DOMAIN results' : results'[j].of \in Readers \ {r} /\ f[j] \in DOMAIN results
  <2> SUFFICES ASSUME NEW j \in DOMAIN results'
               PROVE  results'[j].of \in Readers \ {r} /\ f[j] \in DOMAIN results
    OBVIOUS
  <2>1. f[j] \in DOMAIN results /\ results'[j] = results[f[j]] /\ results'[j] \notin ResultsOf(r)
    BY <1>4
  <2>2. /\ results[f[j]].of \in Readers /\ results[f[j]].kind \in Kinds
        /\ results[f[j]] = [kind |-> results[f[j]].kind, of |-> results[f[j]].of]
    BY <1>1, <2>1, PlacesTyped
  <2>3. results[f[j]].of # r
    BY <2>1, <2>2 DEF ResultsOf
  <2> QED BY <2>1, <2>2, <2>3
<1>8. Unanswered'
  BY <1>1, <1>2, <1>6 DEF Unanswered
<1>9. LastIsLast'
  <2>1. \A q \in Readers : reader'[q] \in {"received", "served"} => Places(q)' = {}
    BY <1>1, <1>2, <1>6 DEF LastIsLast
  <2> QED BY <1>6, <2>1 DEF LastIsLast, Closing
<1>10. Balance'
  <2> SUFFICES ASSUME NEW q \in Readers,
                      reader'[q] \in {"new", "post", "next", "received", "served"}
               PROVE  got[q] + Partials(q)' = sampled[q]
    BY <1>2 DEF Balance
  <2>1. q # r /\ got[q] + Partials(q) = sampled[q]
    BY <1>1, <1>2 DEF Balance
  <2> DEFINE p == [kind |-> "partial", of |-> q]
             X == ResultsOf(r)
  <2>2. p \notin X
    <3>1. p.of = q /\ \A x \in X : x.of = r
      BY DEF ResultsOf
    <3> QED BY <2>1, <3>1
  <2> HIDE DEF p, X
  <2>3. Count(results', p) = Count(results, p)
    <3>1. results' = Without(results, X)
      BY <1>3 DEF X
    <3> QED BY <1>3, <2>2, <3>1, CountWithout
  <2> QED BY <2>1, <2>3 DEF Partials, p
<1>11. NoStaleResult'
  BY <1>1, <1>2, <1>4, <1>7 DEF NoStaleResult
<1>12. NobodyEnds
  <2> SUFFICES ASSUME NEW q \in Readers, Ended(q)' PROVE Ended(q)
    BY DEF NobodyEnds
  <2>1. CASE reader'[q] \in {"received", "served"}
    BY <1>2, <2>1 DEF Ended
  <2>2. CASE \E i \in Places(q)' : Closing(results'[i])
    BY <1>6, <2>2 DEF Ended
  <2> QED BY <2>1, <2>2 DEF Ended, Closing
<1> QED BY <1>8, <1>9, <1>10, <1>11, <1>12 DEF Answers

\* The steps that leave the results where they are.
Onwards(q) == \/ reader'[q] = reader[q]
              \/ reader[q] = "new" /\ reader'[q] = "post"
              \/ reader[q] = "post" /\ reader'[q] = "next"
              \/ reader[q] = "next" /\ reader'[q] = "stop"
              \/ reader[q] = "received" /\ reader'[q] = "served"
              \/ reader[q] = "stop" /\ reader'[q] = "drop"
              \/ reader[q] = "cancel" /\ reader'[q] = "stopped"
Quiet == /\ UNCHANGED <<results, got, sampled>>
         /\ \A q \in Readers : Onwards(q)
         /\ \A q \in waiting \ waiting' : reader[q] = "received" \/ reader'[q] = "drop"

\* They keep the answers right,
LEMMA QuietKeeps == ASSUME IInv, Quiet PROVE Answers' /\ NobodyEnds
<1>1. TypeOK /\ Unanswered /\ LastIsLast /\ Balance /\ NoStaleResult
  BY DEF IInv, Answers
<1>2. UNCHANGED <<results, got, sampled>> /\ \A q \in Readers : Places(q)' = Places(q)
  BY DEF Quiet, Places
<1>3. Unanswered'
  BY <1>1, <1>2 DEF Unanswered, Quiet, Onwards
<1>4. LastIsLast'
  BY <1>1, <1>2 DEF LastIsLast, Quiet, Onwards
<1>5. Balance'
  BY <1>1, <1>2 DEF Balance, Quiet, Onwards, Partials
<1>6. NoStaleResult'
  <2> SUFFICES ASSUME NEW i \in DOMAIN results
               PROVE  results[i].of \in waiting' \/ reader'[results[i].of] = "drop"
    BY <1>2 DEF NoStaleResult
  <2> DEFINE q == results[i].of
  <2>1. q \in Readers /\ i \in Places(q) /\ (q \in waiting \/ reader[q] = "drop")
    BY <1>1, PlacesTyped DEF NoStaleResult, Places
  <2>2. reader[q] # "received"
    BY <1>1, <2>1 DEF LastIsLast
  <2> QED BY <2>1, <2>2 DEF Quiet, Onwards
<1>7. NobodyEnds
  BY <1>2 DEF NobodyEnds, Ended, Quiet, Onwards
<1> QED BY <1>3, <1>4, <1>5, <1>6, <1>7 DEF Answers

\* and they are these steps of a reader,
LEMMA QuietReaders ==
    ASSUME TypeOK, NEW r \in Readers,
           AddWaiting(r) \/ Leave(r) \/ PostTask(r) \/ StopServed(r) \/ StopWaiting(r)
             \/ PostCancel(r)
    PROVE  Quiet
<1>1. UNCHANGED <<results, got, sampled>>
  BY DEF AddWaiting, Leave, PostTask, StopServed, StopWaiting, PostCancel
<1>2. \A q \in Readers : Onwards(q)
  BY DEF AddWaiting, Leave, PostTask, StopServed, StopWaiting, PostCancel, ReaderGoto,
         Onwards, TypeOK
<1>3. \A q \in waiting \ waiting' : reader[q] = "received" \/ reader'[q] = "drop"
  BY DEF AddWaiting, Leave, PostTask, StopServed, StopWaiting, PostCancel, ReaderGoto, TypeOK
<1> QED BY <1>1, <1>2, <1>3 DEF Quiet

\* and these of the other two threads.
LEMMA QuietOthers ==
    ASSUME Terminate \/ Join \/ StartLoop \/ EndLoop \/ Pop \/ Wait \/ Defer \/ Launch
             \/ CancelRunning \/ IgnoreTask \/ AllIdle \/ Decode \/ ReleaseSlot \/ SlotsUpdated
    PROVE  Quiet
<1>1. UNCHANGED <<results, got, sampled, waiting, reader>>
  BY DEF Terminate, Join, StartLoop, EndLoop, Pop, Wait, Defer, Launch, CancelRunning,
         IgnoreTask, AllIdle, Decode, ReleaseSlot, SlotsUpdated
<1> QED BY <1>1 DEF Quiet, Onwards

(***************************************************************************)
(* The four steps of the inference thread that send.                       *)
(***************************************************************************)
\* The error of a task that is refused is its last result,
LEMMA RefuseKeeps ==
    ASSUME IInv, Refuse
    PROVE  Answers' /\ \E q \in Readers : q = current.of /\ EndedOnly(q)
<1>1. TypeOK /\ Hands
  BY DEF IInv
<1>2. /\ loop = "process" /\ current.of \in Readers /\ current = Completion(current.of)
      /\ Send("error", current.of) /\ UNCHANGED <<reader, waiting, got, sampled>>
  BY <1>1, Handed DEF Refuse
<1>3. PICK q \in Readers : q = current.of
  BY <1>2
<1>4. Copies(q) >= 1 /\ Send("error", q)
  BY <1>1, <1>2, <1>3, CopiesTyped DEF InHand
<1> QED BY <1>2, <1>3, <1>4, SendKeeps DEF Kinds

\* the token that is sampled is not, nor is one whose text is withheld,
LEMMA SampleKeeps ==
    ASSUME IInv, NEW s \in Slots, Sample(s)
    PROVE  Answers' /\ NobodyEnds
<1>1. TypeOK
  BY DEF IInv
<1>2. /\ loop = "slots" /\ loop' \in {"slots", "finish"} /\ slot[s] \in Readers
      /\ UNCHANGED <<tasks, deferred, slot, reader, waiting, got>>
      /\ \/ /\ Send("partial", slot[s])
            /\ sampled' = [sampled EXCEPT ![slot[s]] = sampled[slot[s]] + 1]
         \/ UNCHANGED <<sampled, results>>
  BY <1>1 DEF Sample, TypeOK, scheduling
<1>3. CASE UNCHANGED <<sampled, results>>
  <2>1. Quiet
    BY <1>2, <1>3 DEF Quiet, Onwards
  <2> QED BY <2>1, QuietKeeps
<1>4. CASE /\ Send("partial", slot[s])
           /\ sampled' = [sampled EXCEPT ![slot[s]] = sampled[slot[s]] + 1]
  <2>1. Copies(slot[s]) >= 1
    BY <1>1, <1>2, CopiesTyped
  <2> DEFINE q == slot[s]
  <2>2. q \in Readers /\ Send("partial", q) /\ Copies(q) >= 1
        /\ sampled' = [sampled EXCEPT ![q] = sampled[q] + 1]
    BY <1>2, <1>4, <2>1
  <2> HIDE DEF q
  <2> QED BY <1>2, <2>2, SendKeeps DEF Kinds
<1> QED BY <1>2, <1>3, <1>4

\* the final result is, and its slot is about to be released,
LEMMA FinalKeeps ==
    ASSUME IInv, SendFinal
    PROVE  Answers' /\ \E q \in Readers : EndedOnly(q) /\ Releasing(q)'
<1>1. TypeOK /\ Hands
  BY DEF IInv
<1>2. /\ loop = "finish" /\ loop' = "release" /\ UNCHANGED <<slot, current>>
      /\ current \in Slots /\ slot[current] \in Readers /\ Send("final", slot[current])
      /\ UNCHANGED <<reader, waiting, got, sampled>>
  BY <1>1 DEF SendFinal, Hands, TypeOK
<1>3. PICK q \in Readers : q = slot[current]
  BY <1>2
<1>4. Copies(q) >= 1 /\ Send("final", q) /\ Releasing(q)'
  BY <1>1, <1>2, <1>3, CopiesTyped DEF Releasing
<1> QED BY <1>2, <1>4, SendKeeps DEF Kinds

\* and so is the error of a slot.
LEMMA ErrorKeeps ==
    ASSUME IInv, NEW s \in Slots, SendError(s)
    PROVE  Answers' /\ \E q \in Readers : EndedOnly(q) /\ Releasing(q)'
<1>1. TypeOK /\ Hands
  BY DEF IInv
<1>2. /\ loop = "slots" /\ loop' = "release" /\ UNCHANGED slot /\ current' = s
      /\ slot[s] \in Readers /\ Send("error", slot[s])
      /\ UNCHANGED <<reader, waiting, got, sampled>>
  BY <1>1 DEF SendError, Hands, TypeOK
<1>3. PICK q \in Readers : q = slot[s]
  BY <1>2
<1>4. Copies(q) >= 1 /\ Send("error", q) /\ Releasing(q)'
  BY <1>1, <1>2, <1>3, CopiesTyped DEF Releasing
<1> QED BY <1>2, <1>4, SendKeeps DEF Kinds

\* All steps together: who ends, and where its task is then.
Sends == Refuse \/ SendFinal \/ \E s \in Slots : SendError(s)

\* Only they end a task, and no step spoils an answer.
LEMMA AnswersKept ==
    ASSUME IInv, Next
    PROVE  Answers' /\ (Sends \/ NobodyEnds)
<1>1. ASSUME NEW r \in Readers, ReaderSteps(r) PROVE Answers' /\ NobodyEnds
  <2>1. CASE Receive(r)
    BY <2>1, ReceiveKeeps
  <2>2. CASE DropResults(r)
    BY <2>2, DropKeeps
  <2>3. CASE AddWaiting(r) \/ Leave(r) \/ PostTask(r) \/ StopServed(r) \/ StopWaiting(r)
             \/ PostCancel(r)
    BY <2>3, QuietReaders, QuietKeeps DEF IInv
  <2> QED BY <1>1, <2>1, <2>2, <2>3 DEF ReaderSteps, Reads
<1>2. CASE Terminate \/ Join \/ StartLoop \/ EndLoop \/ Pop \/ Wait \/ Defer \/ Launch
             \/ CancelRunning \/ IgnoreTask \/ AllIdle \/ Decode \/ ReleaseSlot \/ SlotsUpdated
  BY <1>2, QuietOthers, QuietKeeps
<1>3. CASE Refuse
  BY <1>3, RefuseKeeps DEF Sends
<1>4. CASE SendFinal
  BY <1>4, FinalKeeps DEF Sends
<1>5. CASE \E s \in Slots : Sample(s)
  BY <1>5, SampleKeeps
<1>6. CASE \E s \in Slots : SendError(s)
  BY <1>6, ErrorKeeps DEF Sends
<1> QED BY <1>1, <1>2, <1>3, <1>4, <1>5, <1>6 DEF Next, ReaderSteps, Infer, Process, Update
-----------------------------------------------------------------------------
(***************************************************************************)
(* TaskOnce, Posted and Ends.                                              *)
(***************************************************************************)
\* Copies are numbers, also after a step.
CopiesAreNumbers == \A r \in Readers : Copies(r) \in Nat

\* That is a matter of types.
LEMMA NumbersNext == TypeOK' => CopiesAreNumbers'
<1>1. TypeOK => CopiesAreNumbers
  BY CopiesTyped DEF CopiesAreNumbers
<1> QED BY <1>1, PTL

\* post_task makes the first copy.
LEMMA OnceKept == ASSUME IInv, Next PROVE TypeOK' => TaskOnce' /\ Posted'
<1>1. TypeOK /\ Hands /\ TaskOnce /\ Posted /\ CopiesMove
  BY CopiesKept DEF IInv
<1>2. \A r \in Readers : Copies(r) \in Nat
  BY <1>1, CopiesTyped
<1>3. TypeOK' => \A r \in Readers : Copies(r)' \in Nat
  BY NumbersNext DEF CopiesAreNumbers
<1> SUFFICES ASSUME TypeOK' PROVE TaskOnce' /\ Posted'
  OBVIOUS
<1>4. \A r \in Readers : PostTask(r) => Copies(r) = 0 /\ reader'[r] = "next"
  BY <1>1 DEF PostTask, Posted, ReaderGoto, TypeOK
<1>5. TaskOnce'
  BY <1>1, <1>2, <1>3, <1>4 DEF TaskOnce, CopiesMove
<1>6. Posted'
  <2>1. \A r \in Readers : reader'[r] \in {"new", "post"} => reader[r] \in {"new", "post"}
    <3>1. CASE Infer \/ Terminate \/ Join
      BY <3>1, InferLeaves DEF InferFrame, Terminate, Join
    <3>2. ASSUME NEW q \in Readers, ReaderSteps(q)
          PROVE  \A r \in Readers : reader'[r] \in {"new", "post"} => reader[r] \in {"new", "post"}
      <4>1. CASE AddWaiting(q)
        BY <1>1, <4>1 DEF AddWaiting, ReaderGoto, TypeOK
      <4>2. CASE Leave(q) \/ Reads(q)
        <5>1. PICK l \in {"next", "received", "served", "stop", "drop", "cancel", "stopped"} :
                 reader' = [reader EXCEPT ![q] = l]
          BY <4>2 DEF Leave, Reads, PostTask, Receive, StopServed, StopWaiting,
                      DropResults, PostCancel, ReaderGoto
        <5> QED BY <1>1, <5>1 DEF TypeOK
      <4> QED BY <3>2, <4>1, <4>2 DEF ReaderSteps
    <3> QED BY <3>1, <3>2 DEF Next, ReaderSteps
  <2> QED BY <1>1, <1>2, <1>3, <1>4, <2>1 DEF Posted, CopiesMove
<1> QED BY <1>5, <1>6

\* A step that ends nobody makes no copy of what has ended.
LEMMA EndsQuietly ==
    ASSUME IInv, Next, CopiesMove, \A r \in Readers : Copies(r)' \in Nat,
           NEW r \in Readers, Ended(r)
    PROVE  Copies(r)' = 0 \/ Releasing(r)'
<1>1. TypeOK /\ Hands /\ TaskOnce /\ Ends /\ Copies(r) \in Nat
  BY CopiesTyped DEF IInv
<1>2. ~PostTask(r)
  <2>1. ASSUME PostTask(r) PROVE FALSE
    <3>1. reader[r] = "post" /\ Places(r) = {}
      BY <2>1 DEF PostTask, IInv, Answers, Unanswered
    <3> QED BY <3>1 DEF Ended
  <2> QED BY <2>1
<1>3. Copies(r)' <= Copies(r)
  BY <1>2 DEF CopiesMove
<1>4. CASE Copies(r) = 0
  BY <1>1, <1>3, <1>4
<1>5. CASE Releasing(r)
  <2>1. CASE ReleaseSlot
    <3>1. Copies(r)' = Copies(r) - 1
      BY <1>1, <1>5, <2>1, ReleaseCopies DEF Releasing
    <3> QED BY <1>1, <3>1 DEF TaskOnce
  <2>2. CASE ~ReleaseSlot
    <3>1. loop = "release"
      BY <1>5 DEF Releasing
    <3>2. ~StartLoop /\ ~EndLoop /\ ~Pop /\ ~Wait /\ ~Process
      BY <3>1 DEF StartLoop, EndLoop, Pop, Wait, Process, Defer, Launch, Refuse,
                  CancelRunning, IgnoreTask, Processing
    <3>3. ~Update
      BY <2>2, <3>1 DEF Update, AllIdle, Decode, SendFinal, SlotsUpdated, Sample, SendError
    <3>4. UNCHANGED <<loop, slot, current>>
      <4>1. CASE Terminate \/ Join
        BY <4>1 DEF Terminate, Join, serving
      <4>2. ASSUME NEW q \in Readers, ReaderSteps(q) PROVE UNCHANGED <<loop, slot, current>>
        BY <4>2 DEF ReaderSteps, AddWaiting, Leave, Reads, PostTask, Receive, StopServed,
                    StopWaiting, DropResults, PostCancel, serving
      <4> QED BY <3>2, <3>3, <4>1, <4>2 DEF Next, Infer, ReaderSteps
    <3> QED BY <1>5, <3>4 DEF Releasing
  <2> QED BY <2>1, <2>2
<1> QED BY <1>1, <1>4, <1>5 DEF Ends

\* A task that ends has left, or its slot is about to.
LEMMA EndsKept == ASSUME IInv, Next, TypeOK' PROVE Ends'
<1>1. TypeOK /\ Hands /\ TaskOnce /\ CopiesMove
  BY CopiesKept DEF IInv
<1>2. \A r \in Readers : Copies(r)' \in Nat
  BY NumbersNext DEF CopiesAreNumbers
<1>3. \A r \in Readers : Ended(r) => Copies(r)' = 0 \/ Releasing(r)'
  BY <1>1, <1>2, EndsQuietly
<1>4. CASE NobodyEnds
  BY <1>3, <1>4 DEF NobodyEnds, Ends
<1>5. ASSUME NEW q \in Readers, EndedOnly(q), Copies(q)' = 0 \/ Releasing(q)' PROVE Ends'
  BY <1>3, <1>5 DEF EndedOnly, Ends
<1>6. CASE Refuse
  <2>1. PICK q \in Readers : q = current.of /\ EndedOnly(q)
    BY <1>6, RefuseKeeps
  <2>2. Copies(q)' = Copies(q) - 1
    BY <1>1, <1>6, <2>1, RefuseCopies
  <2>3. Copies(q) \in Nat /\ Copies(q) <= 1 /\ Copies(q)' \in Nat
    BY <1>1, <1>2, <2>1, CopiesTyped DEF TaskOnce
  <2>4. Copies(q)' = 0
    BY <2>2, <2>3
  <2> QED BY <1>5, <2>1, <2>4
<1>7. CASE SendFinal
  BY <1>5, <1>7, FinalKeeps
<1>8. CASE \E s \in Slots : SendError(s)
  <2>1. PICK s \in Slots : SendError(s)
    BY <1>8
  <2> QED BY <1>5, <2>1, ErrorKeeps
<1> QED BY <1>4, <1>6, <1>7, <1>8, AnswersKept DEF Sends
-----------------------------------------------------------------------------
(***************************************************************************)
(* The theorems.                                                           *)
(***************************************************************************)
\* Nothing has been posted yet.
THEOREM Initially == Init => IInv
<1> SUFFICES ASSUME Init PROVE IInv
  OBVIOUS
<1> USE DEF Init
<1>1. /\ <<>> \in Seq(TaskTypes) /\ <<>> \in Seq(Readers) /\ <<>> \in Seq(Results)
      /\ DOMAIN results = {}
  BY EmptySeq
<1>2. TypeOK
  <2>1. 0 \in 0..MaxTokens /\ 0 <= 0
    BY QueueAssumption
  <2>2. \A r \in Readers : sampled[r] <= decoded[r]
    OBVIOUS
  <2> QED BY <1>1, <2>1, <2>2 DEF TypeOK
<1>3. \A r \in Readers : Copies(r) = 0 /\ Places(r) = {} /\ Partials(r) = 0
  <2> SUFFICES ASSUME NEW r \in Readers
               PROVE  Copies(r) = 0 /\ Places(r) = {} /\ Partials(r) = 0
    OBVIOUS
  <2>1. Count(tasks, Completion(r)) = 0 /\ Count(deferred, r) = 0 /\ Partials(r) = 0
    BY CountEmpty DEF Partials
  <2>2. Count(slot, r) = 0
    BY QueueAssumption, CountTyped
  <2> QED BY <1>1, <2>1, <2>2 DEF Copies, InHand, Places
<1>4. Hands /\ Waits
  BY DEF Hands, Waits
<1>5. TaskOnce /\ Posted /\ Ends
  BY <1>3 DEF TaskOnce, Posted, Ends
<1>6. Answers
  BY <1>1, <1>3 DEF Answers, Unanswered, LastIsLast, Balance, NoStaleResult
<1> QED BY <1>2, <1>4, <1>5, <1>6 DEF IInv

\* Every step keeps the invariant, whoever takes it.
THEOREM Inductive == IInv /\ [Next]_vars => IInv'
<1>1. ASSUME IInv, Next PROVE IInv'
  <2>1. TypeOK /\ Hands /\ Waits
    BY <1>1 DEF IInv
  <2>2. TypeOK'
    <3>1. CASE Terminate \/ Join
      BY <2>1, <3>1 DEF Terminate, Join, scheduling, serving, TypeOK
    <3> QED BY <1>1, <2>1, <3>1, ReadersTyped, InferTyped DEF Next, ReaderSteps
  <2>3. Hands' /\ Waits'
    BY <1>1, <2>1, HandsKept, WaitsKept
  <2>4. TaskOnce' /\ Posted'
    BY <1>1, <2>2, OnceKept
  <2>5. Ends' /\ Answers'
    BY <1>1, <2>2, EndsKept, AnswersKept
  <2> QED BY <2>2, <2>3, <2>4, <2>5 DEF IInv
<1>2. ASSUME IInv, UNCHANGED vars PROVE IInv'
  BY <1>2 DEF vars, scheduling, serving, IInv, TypeOK, Hands, Waits, TaskOnce, Posted, Ends,
     Answers, Unanswered, LastIsLast, Balance, NoStaleResult, Ended, Releasing, Closing,
     Places, Partials, Copies, InHand
<1> QED BY <1>1, <1>2

\* So it always holds.
THEOREM Invariance == Spec => []IInv
  BY Initially, Inductive, PTL DEF Spec

\* The state of the queues stays typed.
THEOREM Typing == Spec => []TypeOK
<1>1. IInv => TypeOK
  BY DEF IInv
<1> QED BY <1>1, Invariance, PTL

\* A task is never in two places: no prompt is answered twice.
THEOREM OneCopy == Spec => []TaskOnce
<1>1. IInv => TaskOnce
  BY DEF IInv
<1> QED BY <1>1, Invariance, PTL

\* No result stays in the queue without a reader to take or drop it.
THEOREM ResultsHaveReaders == Spec => []NoStaleResult
<1>1. IInv => NoStaleResult
  BY DEF IInv, Answers
<1> QED BY <1>1, Invariance, PTL

\* A reader that gets the final result has every token sampled for it.
THEOREM AnswersComplete == Spec => []CompleteAnswer
<1>1. IInv => CompleteAnswer
  <2> SUFFICES ASSUME IInv, NEW r \in Readers, reader[r] \in {"received", "served"}
               PROVE  got[r] = sampled[r]
    BY DEF CompleteAnswer
  <2>1. TypeOK /\ Balance /\ Places(r) = {}
    BY DEF IInv, Answers, LastIsLast
  <2>2. Partials(r) = 0
    <3> DEFINE p == [kind |-> "partial", of |-> r]
    <3>1. \A i \in DOMAIN results : results[i] # p
      BY <2>1 DEF Places
    <3> HIDE DEF p
    <3> QED BY <2>1, <3>1, CountSeq DEF Partials, TypeOK, p
  <2>3. got[r] + Partials(r) = sampled[r]
    BY <2>1 DEF Balance
  <2>4. got[r] \in Nat
    BY <2>1, QueueAssumption DEF TypeOK
  <2> QED BY <2>2, <2>3, <2>4
<1> QED BY <1>1, Invariance, PTL
=============================================================================
