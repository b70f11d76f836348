------------------------------ MODULE QueueLemmas ------------------------------
(***************************************************************************)
(* Lemmas about the containers of the loader (ArrayList, Queue and Stack)  *)
(* as the sequences they stand for: taking an entry out, taking the first, *)
(* popping the last, and finding the first entry that has a property.      *)
(***************************************************************************)
EXTENDS Integers, SequencesExt, FiniteSetsExt, TLAPS, SequenceTheorems, WellFoundedInduction

(* Where entry a of the queue stood before entry i was taken out.          *)
Earlier(a, i) == IF a < i THEN a ELSE a + 1

(* Taking an entry out of a queue (dsbt_index_request_ptr_remove, the     *)
(* remove of Queue.h) leaves the others, in their order.                                             *)
LEMMA RemoveAtEntries ==
  ASSUME NEW S, NEW q \in Seq(S), NEW i \in 1 .. Len(q)
  PROVE  /\ RemoveAt(q, i) \in Seq(S)
         /\ Len(RemoveAt(q, i)) = Len(q) - 1
         /\ \A a \in 1 .. Len(q) - 1 :
               /\ Earlier(a, i) \in 1 .. Len(q)
               /\ Earlier(a, i) # i
               /\ RemoveAt(q, i)[a] = q[Earlier(a, i)]
<1> DEFINE front == SubSeq(q, 1, i - 1)
           back  == SubSeq(q, i + 1, Len(q))
<1>1. /\ front \in Seq(S) /\ Len(front) = i - 1
      /\ \A a \in 1 .. i - 1 : front[a] = q[a]
  BY SubSeqProperties
<1>2. /\ back \in Seq(S) /\ Len(back) = Len(q) - i
      /\ \A a \in 1 .. Len(q) - i : back[a] = q[i + a]
  BY SubSeqProperties
<1>3. RemoveAt(q, i) = front \o back
  BY DEF RemoveAt
<1> HIDE DEF front, back
<1>4. /\ front \o back \in Seq(S)
      /\ Len(front \o back) = Len(q) - 1
  <2>1. front \o back \in Seq(S) /\ Len(front \o back) = Len(front) + Len(back)
    BY <1>1, <1>2, ConcatProperties
  <2> QED BY <1>1, <1>2, <2>1, LenProperties
<1>5. ASSUME NEW a \in 1 .. Len(q) - 1
      PROVE  /\ Earlier(a, i) \in 1 .. Len(q)
             /\ Earlier(a, i) # i
             /\ (front \o back)[a] = q[Earlier(a, i)]
  <2>1. Len(front) + Len(back) = Len(q) - 1
    BY <1>1, <1>2, LenProperties
  <2>2. (front \o back)[a] = IF a <= Len(front) THEN front[a]
                             ELSE back[a - Len(front)]
    BY <1>1, <1>2, <2>1, ConcatProperties
  <2>3. CASE a < i
    BY <2>2, <2>3, <1>1 DEF Earlier
  <2>4. CASE ~(a < i)
    <3>1. /\ a - Len(front) \in 1 .. Len(q) - i
          /\ i + (a - Len(front)) = a + 1
          /\ ~(a <= Len(front))
      BY <2>4, <1>1
    <3>2. (front \o back)[a] = back[a - Len(front)]
      BY <2>2, <3>1
    <3>3. back[a - Len(front)] = q[a + 1]
      BY <1>2, <3>1
    <3>4. Len(q) \in Nat
      BY LenProperties
    <3>5. Earlier(a, i) = a + 1 /\ a + 1 \in 1 .. Len(q) /\ a + 1 # i
      BY <2>4, <3>4 DEF Earlier
    <3> QED BY <3>2, <3>3, <3>5
  <2> QED BY <2>3, <2>4
<1> QED BY <1>3, <1>4, <1>5

(* What a list contains when an entry is appended.                         *)
LEMMA AppendContains ==
  ASSUME NEW S, NEW q \in Seq(S), NEW e \in S
  PROVE  /\ ToSet(Append(q, e)) = ToSet(q) \cup {e}
         /\ \A x : Contains(Append(q, e), x) <=> Contains(q, x) \/ x = e
<1> DEFINE r == Append(q, e)
<1>1. Len(q) \in Nat /\ DOMAIN q = 1 .. Len(q)
  BY LenProperties
<1>2. /\ r \in Seq(S) /\ Len(r) = Len(q) + 1
      /\ \A i \in 1 .. Len(q) : r[i] = q[i]
      /\ r[Len(q) + 1] = e
  BY AppendProperties
<1> HIDE DEF r
<1>3. DOMAIN r = 1 .. Len(q) + 1
  BY <1>2, LenProperties
<1>4. /\ Len(q) + 1 \in 1 .. Len(q) + 1 /\ 1 .. Len(q) \subseteq 1 .. Len(q) + 1
      /\ \A i \in 1 .. Len(q) + 1 : i = Len(q) + 1 \/ i \in 1 .. Len(q)
  BY <1>1
<1>5. ToSet(r) = ToSet(q) \cup {e}
  BY <1>1, <1>2, <1>3, <1>4 DEF ToSet
<1>6. ASSUME NEW x PROVE Contains(r, x) <=> Contains(q, x) \/ x = e
  BY <1>1, <1>2, <1>3, <1>4 DEF Contains
<1> QED BY <1>5, <1>6 DEF r

(* The first entry of a queue is taken out by dequeue.                     *)
LEMMA TailEntries ==
  ASSUME NEW S, NEW q \in Seq(S), q # << >>
  PROVE  /\ Tail(q) \in Seq(S)
         /\ Len(Tail(q)) = Len(q) - 1
         /\ Len(q) \in Nat \ {0}
         /\ Head(q) = q[1] /\ Head(q) \in S
         /\ \A a \in 1 .. Len(q) - 1 :
               /\ Earlier(a, 1) \in 1 .. Len(q)
               /\ Earlier(a, 1) # 1
               /\ Tail(q)[a] = q[Earlier(a, 1)]
<1>1. /\ Len(q) \in Nat \ {0} /\ DOMAIN q = 1 .. Len(q)
  BY EmptySeq, LenProperties
<1>2. /\ Tail(q) \in Seq(S) /\ Len(Tail(q)) = Len(q) - 1
      /\ \A a \in 1 .. Len(Tail(q)) : Tail(q)[a] = q[a + 1]
      /\ Head(q) = q[1]
  BY HeadTailProperties
<1>3. Head(q) \in S
  BY <1>1, <1>2, ElementOfSeq
<1> QED BY <1>1, <1>2, <1>3 DEF Earlier

(* Popping a stack (Stack.h) leaves what lies below the top.               *)
LEMMA FrontEntries ==
  ASSUME NEW S, NEW q \in Seq(S), q # << >>
  PROVE  /\ Len(q) \in Nat \ {0}
         /\ Last(q) = q[Len(q)] /\ Last(q) \in S
         /\ Front(q) \in Seq(S) /\ Len(Front(q)) = Len(q) - 1
         /\ \A a \in 1 .. Len(q) - 1 : Front(q)[a] = q[a]
<1>1. Len(q) \in Nat \ {0}
  BY EmptySeq, LenProperties
<1>2. \A a \in 1 .. Len(q) : q[a] \in S
  BY ElementOfSeq
<1> DEFINE k == Len(q) - 1
<1>3. k \in Nat /\ \A a \in 1 .. k : q[a] \in S
  BY <1>1, <1>2
<1> HIDE DEF k
<1>4. /\ SubSeq(q, 1, k) \in Seq(S)
      /\ Len(SubSeq(q, 1, k)) = k
      /\ \A a \in 1 .. k : SubSeq(q, 1, k)[a] = q[a]
  BY <1>3, SubSeqProperties
<1>5. Front(q) = SubSeq(q, 1, k)
  BY DEF Front, k
<1> QED BY <1>1, <1>2, <1>4, <1>5 DEF Last, k

(* Among places there is a first one.                                      *)
LEMMA LeastOfPlaces ==
  ASSUME NEW T \in SUBSET Nat, T # {}
  PROVE  \E x \in T : \A y \in T : x <= y
<1> DEFINE R == OpToRel(<, Nat)
<1>1. PICK x \in T : \A y \in T : ~ (<< y, x >> \in R)
  <2>1. IsWellFoundedOn(R, Nat)
    BY NatLessThanWellFounded
  <2> HIDE DEF R
  <2> QED BY <2>1, WFMin
<1>2. ASSUME NEW y \in T PROVE x <= y
  <2>1. y < x => << y, x >> \in R
    BY DEF OpToRel
  <2>2. x \in Nat /\ y \in Nat
    OBVIOUS
  <2> HIDE DEF R
  <2>3. ~ (y < x)
    BY <1>1, <2>1
  <2> QED BY <2>2, <2>3
<1> QED BY <1>2

(* A walk from the front stops at the first of the places it looks for.    *)
LEMMA FirstOfPlaces ==
  ASSUME NEW T \in SUBSET Nat, T # {}
  PROVE  Min(T) \in T /\ \A x \in T : Min(T) <= x
  BY LeastOfPlaces DEF Min
=============================================================================
