-------------------------- MODULE TargetMemoryProofs --------------------------
(***************************************************************************)
(* The packet list, proved for a pool of any size and for every client:     *)
(* whatever sizes, alignments and addresses it asks for, and in whatever    *)
(* order it gives its blocks back.                                         *)
(*                                                                         *)
(* The types hold in every state.  The rest of MemoryInv holds as long as   *)
(* trg_alloc_pkt told every neighbor of its splits (intact), and has four   *)
(* parts.  Linked(packet): the links agree in both directions and each      *)
(* packet ends where the next starts, from one end of the pool to the       *)
(* other.  NoFreePair: no two free packets side by side.  HeadFirst: the    *)
(* list starts at the start of the pool.  HeldInv: the packets in use are   *)
(* the client's blocks.                                                    *)
(*                                                                         *)
(* The operators take the packets as a parameter, so that the lists that    *)
(* DLTMM_free goes through within one step can be spoken of.                *)
(***************************************************************************)
EXTENDS TargetMemory, QueueLemmas, FiniteSetTheorems

-----------------------------------------------------------------------------
(* Where the packet x ends.                                                *)
End(p, x) == p[x].addr + p[x].size

Packet == [addr : Nat, size : Nat \ {0}, prev : Name \cup {NULL}, next : Name \cup {NULL},
           used : BOOLEAN]

(* Packets of some size, within the pool.                                  *)
PacketsOK(p) ==
  /\ DOMAIN p \subseteq Name
  /\ \A x \in DOMAIN p : p[x] \in Packet /\ PoolStart <= p[x].addr /\ End(p, x) <= PoolEnd

(* Each packet leads to the one that starts where it ends, and that one    *)
(* leads back; only the last leads nowhere.                                *)
NextOK(p) ==
  \A x \in DOMAIN p :
    IF p[x].next = NULL THEN End(p, x) = PoolEnd
    ELSE /\ p[x].next \in DOMAIN p
         /\ p[p[x].next].addr = End(p, x)
         /\ p[p[x].next].prev = x

(* Only the first has none before it.                                      *)
PrevOK(p) ==
  \A x \in DOMAIN p :
    IF p[x].prev = NULL THEN p[x].addr = PoolStart
    ELSE p[x].prev \in DOMAIN p /\ p[p[x].prev].next = x

(* No two packets share an address.                                        *)
PacketsApart(p) ==
  \A x, y \in DOMAIN p : x # y => End(p, x) <= p[y].addr \/ End(p, y) <= p[x].addr

(* A list without a stale link that tiles the pool.                        *)
Linked(p) == PacketsOK(p) /\ NextOK(p) /\ PrevOK(p) /\ PacketsApart(p)

(* Of a packet and the one after it, one is in use.                        *)
NoFreePair(p) ==
  \A x \in DOMAIN p : p[x].next # NULL => p[x].used \/ p[p[x].next].used

(* The list starts with the packet at the start of the pool.               *)
HeadFirst == trg_mem_head \in DOMAIN packet /\ packet[trg_mem_head].addr = PoolStart

Block == [addr : Nat, size : Nat]

(* The packet x is the block b.                                            *)
Holds(p, x, b) == p[x].used /\ p[x].addr = b.addr /\ p[x].size = b.size

(* The packets in use are the blocks the client has, each once.             *)
HeldBy(p, h) ==
  /\ h \in Seq(Block)
  /\ \A i \in DOMAIN h : \E x \in DOMAIN p : Holds(p, x, h[i])
  /\ \A x \in DOMAIN p : p[x].used => \E i \in DOMAIN h : Holds(p, x, h[i])
  /\ \A i, j \in DOMAIN h : h[i].addr = h[j].addr => i = j

HeldInv == HeldBy(packet, held)

(* A list that tiles the pool, with the client's blocks in use.             *)
Whole == Linked(packet) /\ NoFreePair(packet) /\ HeadFirst /\ HeldInv

(* The inductive invariant.                                                *)
MemoryInv == TypeOK /\ (intact => Whole)
-----------------------------------------------------------------------------
(* The walk of the for loops is what its recursion says.                   *)
LEMMA WalkExists ==
  \E f : f = [k \in Name |-> IF k = 1 THEN trg_mem_head ELSE NextOf(f[k - 1])]
<1> DEFINE Upto(n) == 1 .. n
           Bad == {n \in Name :
                     ~ \E f : f = [k \in Upto(n) |-> IF k = 1 THEN trg_mem_head
                                                     ELSE NextOf(f[k - 1])]}
<1>1. PacketBound \in Nat \ {0} /\ Name = Upto(PacketBound)
  BY TargetMemoryAssumption DEF Name
<1>2. SUFFICES ASSUME Bad # {} PROVE FALSE
  BY <1>1
<1>3. Bad \in SUBSET Nat
  BY <1>1
<1> HIDE DEF Bad
<1>4. PICK m \in Bad : \A n \in Bad : m <= n
  BY <1>2, <1>3, LeastOfPlaces
<1>5. m \in 1 .. PacketBound
  BY <1>1, <1>4 DEF Bad
<1>6. \E f : f = [k \in Upto(m) |-> IF k = 1 THEN trg_mem_head ELSE NextOf(f[k - 1])]
  <2>1. CASE m = 1
    <3> DEFINE g == [k \in Upto(m) |-> trg_mem_head]
    <3>1. \A k \in Upto(m) : k = 1
      BY <2>1
    <3>2. g = [k \in Upto(m) |-> IF k = 1 THEN trg_mem_head ELSE NextOf(g[k - 1])]
      BY <3>1
    <3> QED BY <3>2
  <2>2. CASE m # 1
    <3>1. m - 1 \in Name /\ m - 1 \notin Bad
      BY <1>1, <1>4, <1>5, <2>2
    <3>2. PICK f : f = [k \in Upto(m - 1) |-> IF k = 1 THEN trg_mem_head ELSE NextOf(f[k - 1])]
      BY <3>1 DEF Bad
    <3> DEFINE g == [k \in Upto(m) |-> IF k = 1 THEN trg_mem_head ELSE NextOf(f[k - 1])]
    <3>3. \A k \in Upto(m) : k # 1 => k - 1 \in Upto(m - 1) /\ k - 1 \in Upto(m)
      BY <1>5
    <3>4. \A k \in Upto(m - 1) : k \in Upto(m)
      BY <1>5
    <3>5. \A k \in Upto(m - 1) : f[k] = IF k = 1 THEN trg_mem_head ELSE NextOf(f[k - 1])
      BY <3>2
    <3>6. \A k \in Upto(m - 1) : g[k] = f[k]
      BY <3>4, <3>5
    <3>7. \A k \in Upto(m) : k # 1 => NextOf(g[k - 1]) = NextOf(f[k - 1])
      BY <3>3, <3>6
    <3>8. g = [k \in Upto(m) |-> IF k = 1 THEN trg_mem_head ELSE NextOf(g[k - 1])]
      <4> DEFINE h == [k \in Upto(m) |-> IF k = 1 THEN trg_mem_head ELSE NextOf(g[k - 1])]
      <4>1. \A k \in Upto(m) : g[k] = h[k]
        BY <3>7
      <4> QED BY <4>1
    <3> QED BY <3>8
  <2> QED BY <2>1, <2>2
<1> QED BY <1>4, <1>6 DEF Bad

(* Each name of the walk is found from the one before it.                  *)
LEMMA WalkSteps ==
  /\ 1 \in Name /\ Walk[1] = trg_mem_head
  /\ \A k \in Name : k # 1 => Walk[k] = NextOf(Walk[k - 1])
<1>1. Walk = CHOOSE f : f = [k \in Name |-> IF k = 1 THEN trg_mem_head ELSE NextOf(f[k - 1])]
  BY DEF Walk
<1>2. Walk = [k \in Name |-> IF k = 1 THEN trg_mem_head ELSE NextOf(Walk[k - 1])]
  BY <1>1, WalkExists
<1>3. 1 \in Name
  BY TargetMemoryAssumption DEF Name
<1>4. \A k \in Name : Walk[k] = IF k = 1 THEN trg_mem_head ELSE NextOf(Walk[k - 1])
  BY <1>2
<1> QED BY <1>3, <1>4

(* Names are numbers, and none is NULL.                                    *)
LEMMA Names ==
  /\ PacketBound \in Nat \ {0} /\ Name = 1 .. PacketBound /\ Name \in SUBSET Nat
  /\ NULL \notin Name /\ PoolStart \in Nat /\ PoolEnd \in Nat /\ PoolStart < PoolEnd
  BY TargetMemoryAssumption DEF Name, NULL, PoolEnd

(* What a packet of a list that tiles the pool is.                         *)
LEMMA PacketFacts ==
  ASSUME NEW p, Linked(p), NEW x \in DOMAIN p
  PROVE  /\ x \in Name /\ x # NULL /\ p[x] \in Packet
         /\ p[x].addr \in Nat /\ p[x].size \in Nat \ {0} /\ p[x].used \in BOOLEAN
         /\ End(p, x) \in Nat /\ p[x].addr < End(p, x)
         /\ PoolStart <= p[x].addr /\ End(p, x) <= PoolEnd
<1>1. x \in Name /\ p[x] \in Packet /\ PoolStart <= p[x].addr /\ End(p, x) <= PoolEnd
  BY DEF Linked, PacketsOK
<1>2. p[x].addr \in Nat /\ p[x].size \in Nat \ {0} /\ p[x].used \in BOOLEAN
  BY <1>1 DEF Packet
<1>3. End(p, x) \in Nat /\ p[x].addr < End(p, x)
  BY <1>2 DEF End
<1> QED BY <1>1, <1>2, <1>3, Names

(* Two packets that start at one address are the same.                     *)
LEMMA OneAtAddress ==
  ASSUME NEW p, Linked(p), NEW x \in DOMAIN p, NEW y \in DOMAIN p, p[x].addr = p[y].addr
  PROVE  x = y
<1>1. /\ p[x].addr \in Nat /\ End(p, x) \in Nat /\ p[x].addr < End(p, x)
      /\ p[y].addr \in Nat /\ End(p, y) \in Nat /\ p[y].addr < End(p, y)
  BY PacketFacts
<1>2. x # y => End(p, x) <= p[y].addr \/ End(p, y) <= p[x].addr
  BY DEF Linked, PacketsApart
<1> QED BY <1>1, <1>2

(* The packets of the walk.                                                *)
LEMMA WalkEntries ==
  ASSUME Linked(packet), HeadFirst
  PROVE  /\ \A k \in Name : Walk[k] \in DOMAIN packet \cup {NULL}
         /\ \A k \in Name : (k # 1 /\ Walk[k] # NULL) =>
              /\ k - 1 \in Name /\ Walk[k - 1] \in DOMAIN packet
              /\ Walk[k] = packet[Walk[k - 1]].next
<1>1. ASSUME NEW x \in DOMAIN packet \cup {NULL} PROVE NextOf(x) \in DOMAIN packet \cup {NULL}
  <2>1. NULL \notin DOMAIN packet
    BY PacketFacts
  <2> QED BY <2>1 DEF NextOf, Linked, NextOK
<1> DEFINE Bad == {k \in Name : Walk[k] \notin DOMAIN packet \cup {NULL}}
<1>2. ASSUME Bad # {} PROVE FALSE
  <2>1. Bad \in SUBSET Nat
    BY Names
  <2> HIDE DEF Bad
  <2>2. PICK m \in Bad : \A n \in Bad : m <= n
    BY <1>2, <2>1, LeastOfPlaces
  <2>3. m \in 1 .. PacketBound /\ m \in Name
    BY <2>2, Names DEF Bad
  <2>4. CASE m = 1
    BY <2>2, <2>4, WalkSteps DEF Bad, HeadFirst
  <2>5. CASE m # 1
    <3>1. m - 1 \in Name /\ ~(m <= m - 1)
      BY <2>3, <2>5, Names
    <3>2. Walk[m - 1] \in DOMAIN packet \cup {NULL}
      BY <2>2, <3>1 DEF Bad
    <3>3. Walk[m] \in DOMAIN packet \cup {NULL}
      BY <1>1, <2>3, <2>5, <3>2, WalkSteps
    <3> QED BY <2>2, <3>3 DEF Bad
  <2> QED BY <2>4, <2>5
<1>3. ASSUME NEW k \in Name, k # 1, Walk[k] # NULL
      PROVE  /\ k - 1 \in Name /\ Walk[k - 1] \in DOMAIN packet
             /\ Walk[k] = packet[Walk[k - 1]].next
  <2>1. k - 1 \in Name
    BY <1>3, Names
  <2>2. Walk[k] = NextOf(Walk[k - 1])
    BY <1>3, WalkSteps
  <2> QED BY <1>3, <2>1, <2>2 DEF NextOf
<1> QED BY <1>2, <1>3

(* The list: it begins at the head, follows next, and only stops where     *)
(* there is no next or no name left.                                       *)
LEMMA ListEntries ==
  ASSUME Linked(packet), HeadFirst
  PROVE  /\ DOMAIN List \in SUBSET Name
         /\ 1 \in DOMAIN List /\ List[1] = trg_mem_head
         /\ \A k \in DOMAIN List : List[k] \in DOMAIN packet
         /\ \A k \in DOMAIN List : k # 1 =>
              k - 1 \in DOMAIN List /\ List[k] = packet[List[k - 1]].next
         /\ \A k \in DOMAIN List : (packet[List[k]].next # NULL /\ k + 1 \in Name) =>
              k + 1 \in DOMAIN List
<1>1. DOMAIN List = {j \in Name : Walk[j] # NULL} /\ \A k \in DOMAIN List : List[k] = Walk[k]
  BY DEF List
<1>2. NULL \notin DOMAIN packet
  BY PacketFacts
<1>3. 1 \in DOMAIN List /\ List[1] = trg_mem_head
  BY <1>1, <1>2, WalkSteps DEF HeadFirst
<1>4. \A k \in DOMAIN List : List[k] \in DOMAIN packet
  BY <1>1, WalkEntries
<1>5. \A k \in DOMAIN List : k # 1 => k - 1 \in DOMAIN List /\ List[k] = packet[List[k - 1]].next
  BY <1>1, <1>2, WalkEntries
<1>6. ASSUME NEW k \in DOMAIN List, packet[List[k]].next # NULL, k + 1 \in Name
      PROVE  k + 1 \in DOMAIN List
  <2>1. k + 1 # 1 /\ (k + 1) - 1 = k
    BY <1>1, Names
  <2>2. Walk[k + 1] = NextOf(List[k])
    BY <1>1, <1>6, <2>1, WalkSteps
  <2> QED BY <1>1, <1>4, <1>6, <2>2 DEF NextOf
<1> QED BY <1>1, <1>3, <1>4, <1>5, <1>6

(* Addresses grow along the list.                                          *)
LEMMA ListSorted ==
  ASSUME Linked(packet), HeadFirst
  PROVE  \A i, j \in DOMAIN List : i < j => packet[List[i]].addr < packet[List[j]].addr
<1> DEFINE Less(i, j) == packet[List[i]].addr < packet[List[j]].addr
           Bad == {j \in DOMAIN List : \E i \in DOMAIN List : i < j /\ ~Less(i, j)}
<1>1. SUFFICES ASSUME Bad # {} PROVE FALSE
  OBVIOUS
<1>2. DOMAIN List \in SUBSET Nat /\ Bad \in SUBSET Nat
  BY ListEntries, Names
<1>3. PICK m \in Bad : \A n \in Bad : m <= n
  <2> HIDE DEF Bad
  <2> QED BY <1>1, <1>2, LeastOfPlaces
<1>4. PICK i \in DOMAIN List : i < m /\ ~Less(i, m)
  BY <1>3
<1>5. m \in DOMAIN List /\ m # 1 /\ m \in Nat /\ i \in Nat
  <2>1. m \in DOMAIN List /\ m \in Nat /\ i \in Nat /\ i \in 1 .. PacketBound
    BY <1>2, <1>3, ListEntries, Names
  <2> QED BY <1>4, <2>1
<1>6. m - 1 \in DOMAIN List /\ List[m] = packet[List[m - 1]].next /\ List[m - 1] \in DOMAIN packet
      /\ List[m] \in DOMAIN packet /\ List[i] \in DOMAIN packet
  BY <1>5, ListEntries
<1>7. packet[List[m]].addr = End(packet, List[m - 1])
  <2>1. List[m] # NULL
    BY <1>6, PacketFacts
  <2> QED BY <1>6, <2>1 DEF Linked, NextOK
<1>8. Less(m - 1, m)
  BY <1>6, <1>7, PacketFacts
<1>9. i = m - 1 \/ i < m - 1
  BY <1>4, <1>5
<1>10. CASE i < m - 1
  <2>1. ~(m <= m - 1)
    BY <1>5
  <2>2. m - 1 \notin Bad
    BY <1>3, <2>1
  <2>3. Less(i, m - 1)
    BY <1>6, <1>10, <2>2
  <2>4. packet[List[i]].addr \in Nat /\ packet[List[m - 1]].addr \in Nat /\ packet[List[m]].addr \in Nat
    BY <1>6, PacketFacts
  <2>5. Less(i, m)
    BY <1>8, <2>3, <2>4
  <2> QED BY <1>4, <2>5
<1> QED BY <1>4, <1>8, <1>9, <1>10

(* With as many packets as there are names the last name is at the end.    *)
LEMMA ListEnds ==
  ASSUME Linked(packet), HeadFirst, PacketBound \in DOMAIN List
  PROVE  packet[List[PacketBound]].next = NULL
<1> DEFINE y == packet[List[PacketBound]].next
<1>1. SUFFICES ASSUME y # NULL PROVE FALSE
  OBVIOUS
<1>2. PacketBound \in Nat \ {0} /\ Name = 1 .. PacketBound
  BY Names
<1>3. y \in DOMAIN packet /\ packet[y].addr = End(packet, List[PacketBound])
  BY <1>1, ListEntries DEF Linked, NextOK
<1> HIDE DEF y
<1>4. ASSUME NEW k \in Name PROVE k \in DOMAIN List
  <2> DEFINE Missing == {j \in Nat : j < PacketBound /\ PacketBound - j \notin DOMAIN List}
  <2>1. ASSUME Missing # {} PROVE FALSE
    <3>1. Missing \in SUBSET Nat
      OBVIOUS
    <3> HIDE DEF Missing
    <3>2. PICK m \in Missing : \A n \in Missing : m <= n
      BY <2>1, <3>1, LeastOfPlaces
    <3>3. m \in Nat /\ m < PacketBound /\ PacketBound - m \notin DOMAIN List
      BY <3>2 DEF Missing
    <3>4. m # 0
      BY <1>2, <3>3
    <3>5. m - 1 \in Nat /\ m - 1 < PacketBound /\ ~(m <= m - 1)
      BY <1>2, <3>3, <3>4
    <3>6. PacketBound - (m - 1) \in DOMAIN List
      BY <3>2, <3>5 DEF Missing
    <3>7. (PacketBound - (m - 1)) - 1 = PacketBound - m /\ PacketBound - (m - 1) # 1
      BY <1>2, <3>3, <3>5
    <3>8. PacketBound - m \in DOMAIN List
      BY <3>6, <3>7, ListEntries
    <3> QED BY <3>3, <3>8
  <2>2. PacketBound - k \in Nat /\ PacketBound - k < PacketBound /\ PacketBound - (PacketBound - k) = k
    BY <1>2
  <2> QED BY <2>1, <2>2
<1>5. \A k \in Name : packet[List[k]].addr < packet[y].addr
  <2> SUFFICES ASSUME NEW k \in Name PROVE packet[List[k]].addr < packet[y].addr
    OBVIOUS
  <2>1. /\ List[k] \in DOMAIN packet /\ List[PacketBound] \in DOMAIN packet
        /\ k = PacketBound \/ k < PacketBound
    BY <1>2, <1>4, ListEntries
  <2>2. /\ packet[List[k]].addr \in Nat /\ packet[List[PacketBound]].addr \in Nat
        /\ packet[y].addr \in Nat /\ packet[List[PacketBound]].addr < packet[y].addr
    BY <1>3, <2>1, PacketFacts
  <2>3. k < PacketBound => packet[List[k]].addr < packet[List[PacketBound]].addr
    BY <1>4, ListSorted
  <2> QED BY <2>1, <2>2, <2>3
<1>6. \A k \in Name : packet[List[k]].addr \in Nat
  BY <1>4, ListEntries, PacketFacts
<1> DEFINE T == Name \ {y}
           f == [k \in Name |-> List[k]]
<1>7. y \in Name /\ DOMAIN packet \subseteq Name
  BY <1>3, PacketFacts
<1>8. f \in [Name -> T]
  <2>1. \A k \in Name : List[k] \in DOMAIN packet /\ List[k] # y
    BY <1>4, <1>5, <1>6, ListEntries
  <2> QED BY <1>7, <2>1
<1>9. IsFiniteSet(Name) /\ Cardinality(Name) = PacketBound
  BY <1>2, FS_Interval
<1>10. IsFiniteSet(T) /\ Cardinality(T) < Cardinality(Name)
  <2>1. IsFiniteSet(T) /\ Cardinality(T) = Cardinality(Name) - 1
    BY <1>7, <1>9, FS_RemoveElement
  <2> HIDE DEF T
  <2> QED BY <1>2, <1>9, <2>1
<1>11. PICK i, j \in Name : i # j /\ f[i] = f[j]
  <2> HIDE DEF f, T
  <2> QED BY <1>8, <1>9, <1>10, FS_PigeonHole
<1>12. i \in Nat /\ j \in Nat /\ List[i] = List[j]
  BY <1>2, <1>11
<1>13. i < j \/ j < i
  BY <1>11, <1>12
<1> HIDE DEF f, T
<1>14. packet[List[i]].addr < packet[List[j]].addr \/ packet[List[j]].addr < packet[List[i]].addr
  BY <1>4, <1>13, ListSorted
<1>15. packet[List[j]].addr = packet[List[i]].addr /\ packet[List[i]].addr \in Nat
  BY <1>6, <1>12
<1> QED BY <1>14, <1>15

(* Where there is no packet left in the list, the pool ends.               *)
LEMMA ListStops ==
  ASSUME Linked(packet), HeadFirst, NEW k \in DOMAIN List
  PROVE  IF k + 1 \in DOMAIN List THEN List[k + 1] = packet[List[k]].next /\ List[k + 1] # NULL
         ELSE packet[List[k]].next = NULL
<1>1. k \in 1 .. PacketBound /\ PacketBound \in Nat \ {0} /\ Name = 1 .. PacketBound
  BY ListEntries, Names
<1>2. k + 1 # 1 /\ (k + 1) - 1 = k
  BY <1>1
<1>3. CASE k + 1 \in DOMAIN List
  <2>1. List[k + 1] = packet[List[k]].next /\ List[k + 1] \in DOMAIN packet
    BY <1>2, <1>3, ListEntries
  <2> QED BY <1>3, <2>1, PacketFacts
<1>4. CASE k + 1 \notin DOMAIN List
  <2>1. CASE k = PacketBound
    BY <1>4, <2>1, ListEnds
  <2>2. CASE k # PacketBound
    <3>1. k + 1 \in Name
      BY <1>1, <2>2
    <3> QED BY <1>4, <3>1, ListEntries
  <2> QED BY <1>4, <2>1, <2>2
<1> QED BY <1>3, <1>4

(* Every packet is in the list.                                            *)
LEMMA ListComplete ==
  ASSUME Linked(packet), HeadFirst, NEW y \in DOMAIN packet
  PROVE  \E k \in DOMAIN List : List[k] = y
<1> DEFINE Listed(x) == \E k \in DOMAIN List : List[k] = x
           Missing == {x \in DOMAIN packet : ~Listed(x)}
           Starts == {packet[x].addr : x \in Missing}
<1>1. SUFFICES ASSUME ~Listed(y) PROVE FALSE
  OBVIOUS
<1>2. Starts \in SUBSET Nat /\ Starts # {}
  BY <1>1, PacketFacts
<1>3. PICK a \in Starts : \A b \in Starts : a <= b
  <2> HIDE DEF Starts
  <2> QED BY <1>2, LeastOfPlaces
<1>4. PICK x \in DOMAIN packet : ~Listed(x) /\ packet[x].addr = a
  BY <1>3
<1>5. packet[x].prev # NULL
  <2>1. packet[x].addr # PoolStart
    <3>1. ASSUME packet[x].addr = PoolStart PROVE FALSE
      <4>1. x = trg_mem_head
        BY <3>1, OneAtAddress DEF HeadFirst
      <4> QED BY <1>4, <4>1, ListEntries
    <3> QED BY <3>1
  <2> QED BY <2>1 DEF Linked, PrevOK
<1> DEFINE q == packet[x].prev
<1>6. q \in DOMAIN packet /\ packet[q].next = x /\ packet[q].next # NULL
  <2>1. x # NULL
    BY PacketFacts
  <2> QED BY <1>5, <2>1 DEF Linked, PrevOK
<1>7. packet[x].addr = End(packet, q)
  BY <1>6 DEF Linked, NextOK
<1> HIDE DEF q
<1>8. packet[q].addr < a /\ packet[q].addr \in Nat /\ a \in Nat
  BY <1>4, <1>6, <1>7, PacketFacts
<1>9. Listed(q)
  <2>1. ~(a <= packet[q].addr)
    BY <1>8
  <2>2. packet[q].addr \notin Starts
    BY <1>3, <2>1
  <2> QED BY <1>6, <2>2
<1>10. PICK k \in DOMAIN List : List[k] = q
  BY <1>9
<1>11. k + 1 \in DOMAIN List /\ List[k + 1] = x
  BY <1>6, <1>10, ListStops
<1> QED BY <1>4, <1>11

(* The packet a block is released from is the one that was made for it.     *)
LEMMA FoundHolds ==
  ASSUME Linked(packet), HeadFirst, HeldInv, NEW i \in DOMAIN held, NEW k \in DOMAIN List,
         Found(held[i].addr, k)
  PROVE  Holds(packet, List[k], held[i]) /\ List[k] \in DOMAIN packet
<1> DEFINE addr == held[i].addr
           passed == Passed(List, addr)
<1>1. k \in passed /\ \A j \in passed : j <= k
  BY DEF Found
<1>2. /\ packet[List[k]].used
      /\ \A j \in DOMAIN List : (packet[List[j]].used /\ j <= k) => packet[List[j]].addr <= addr
  BY <1>1 DEF Passed
<1>3. PICK y \in DOMAIN packet : Holds(packet, y, held[i])
  BY DEF HeldInv, HeldBy
<1>4. PICK n \in DOMAIN List : List[n] = y
  BY <1>3, ListComplete
<1>5. packet[List[n]].used /\ packet[List[n]].addr = addr
  BY <1>3, <1>4 DEF Holds
<1>6. /\ DOMAIN List \in SUBSET Nat
      /\ \A j \in DOMAIN List : List[j] \in DOMAIN packet /\ packet[List[j]].addr \in Nat
  <2>1. \A j \in DOMAIN List : List[j] \in DOMAIN packet
    BY ListEntries
  <2> QED BY <2>1, ListEntries, Names, PacketFacts
<1>7. \A j \in DOMAIN List : (packet[List[j]].used /\ j <= n) => packet[List[j]].addr <= addr
  <2> SUFFICES ASSUME NEW j \in DOMAIN List, j <= n PROVE packet[List[j]].addr <= addr
    OBVIOUS
  <2>1. CASE j = n
    BY <1>5, <1>6, <2>1
  <2>2. CASE j < n
    BY <1>5, <1>6, <2>2, ListSorted
  <2> QED BY <1>6, <2>1, <2>2
<1>8. n \in passed
  BY <1>5, <1>7 DEF Passed
<1>9. n <= k
  BY <1>1, <1>8
<1>10. n = k
  <2>1. packet[List[k]].addr <= addr
    BY <1>2, <1>6
  <2>2. n < k => addr < packet[List[k]].addr
    BY <1>5, ListSorted
  <2>3. addr \in Nat /\ packet[List[k]].addr \in Nat /\ n \in Nat /\ k \in Nat
    BY <1>5, <1>6
  <2> HIDE DEF addr
  <2> QED BY <1>9, <2>1, <2>2, <2>3
<1> QED BY <1>3, <1>4, <1>10

-----------------------------------------------------------------------------
(* There is a name for a packet that is made.                              *)
LEMMA FreshOf ==
  ASSUME NEW p, Unnamed(p) # {}
  PROVE  Fresh(p) \in Unnamed(p)
<1>1. Unnamed(p) \in SUBSET Nat
  BY Names DEF Unnamed
<1> QED BY <1>1, FirstOfPlaces DEF Fresh

(* And one more for another.                                               *)
LEMMA FreshName ==
  ASSUME HasFresh
  PROVE  /\ Fresh(packet) \in Unnamed(packet)
         /\ Fresh(packet) \in Name /\ Fresh(packet) \notin DOMAIN packet
         /\ \E g \in Unnamed(packet) : g # Fresh(packet)
<1> DEFINE T == Unnamed(packet)
<1>1. Cardinality(T) >= 2
  BY DEF HasFresh
<1>2. ASSUME T = {} PROVE FALSE
  BY <1>1, <1>2, FS_EmptySet
<1>3. ASSUME NEW f \in T, \A g \in T : g = f PROVE FALSE
  <2>1. T = {f}
    BY <1>3
  <2> HIDE DEF T
  <2> QED BY <1>1, <2>1, FS_Singleton
<1>4. Fresh(packet) \in T
  BY <1>2, FreshOf
<1> QED BY <1>3, <1>4 DEF Unnamed

(* Nothing comes before the packet at the start of the pool.               *)
LEMMA FirstHasNoPrev ==
  ASSUME NEW p, Linked(p), NEW x \in DOMAIN p
  PROVE  p[x].prev = NULL <=> p[x].addr = PoolStart
<1>1. p[x].prev = NULL => p[x].addr = PoolStart
  BY DEF Linked, PrevOK
<1>2. ASSUME p[x].prev # NULL PROVE p[x].addr # PoolStart
  <2> DEFINE q == p[x].prev
  <2>1. q \in DOMAIN p /\ p[q].next = x /\ x # NULL
    BY <1>2, PacketFacts DEF Linked, PrevOK
  <2>2. p[x].addr = End(p, q)
    BY <2>1 DEF Linked, NextOK
  <2> HIDE DEF q
  <2>3. PoolStart <= p[q].addr /\ p[q].addr < End(p, q) /\ p[q].addr \in Nat /\ End(p, q) \in Nat
    BY <2>1, PacketFacts
  <2> QED BY <2>2, <2>3, Names
<1> QED BY <1>1, <1>2

(* The last packet is the one the pool ends with.                          *)
LEMMA LastEnds ==
  ASSUME NEW p, Linked(p), NEW x \in DOMAIN p, NEW y \in DOMAIN p, x # y, p[x].next = NULL
  PROVE  End(p, y) <= p[x].addr /\ p[y].addr < p[x].addr
<1>1. End(p, x) = PoolEnd
  BY DEF Linked, NextOK
<1>2. /\ p[x].addr \in Nat /\ p[y].addr \in Nat /\ End(p, y) \in Nat
      /\ p[y].addr < End(p, y) /\ End(p, y) <= PoolEnd
  BY PacketFacts
<1>3. End(p, x) <= p[y].addr \/ End(p, y) <= p[x].addr
  BY DEF Linked, PacketsApart
<1> QED BY <1>1, <1>2, <1>3, Names

(* What trg_alloc_pkt makes of a packet.                                   *)
LEMMA SplitShape ==
  ASSUME Linked(packet), HasFresh, NEW x \in DOMAIN packet, NEW size \in Nat \ {0},
         size <= packet[x].size, packet[x].size > size => packet[x].next = NULL
  PROVE  LET f == Fresh(packet)
             new == SplitTail(packet, x, size)
             taken(next) == [addr |-> packet[x].addr, size |-> size, prev |-> packet[x].prev,
                             next |-> next, used |-> TRUE]
         IN  /\ packet[x].size = size =>
                  /\ DOMAIN new = DOMAIN packet
                  /\ \A y \in DOMAIN packet : new[y] = IF y = x THEN taken(packet[x].next)
                                                      ELSE packet[y]
             /\ packet[x].size # size =>
                  /\ DOMAIN new = DOMAIN packet \cup {f}
                  /\ \A y \in DOMAIN packet : new[y] = IF y = x THEN taken(f) ELSE packet[y]
                  /\ new[f] = [addr |-> packet[x].addr + size, size |-> packet[x].size - size,
                               prev |-> x, next |-> NULL, used |-> FALSE]
<1> DEFINE f == Fresh(packet)
           new == SplitTail(packet, x, size)
           taken(next) == [addr |-> packet[x].addr, size |-> size, prev |-> packet[x].prev,
                           next |-> next, used |-> TRUE]
           mine == [packet EXCEPT ![x].size = size, ![x].used = TRUE]
           rest == [addr |-> packet[x].addr + size, size |-> packet[x].size - size,
                    prev |-> x, next |-> packet[x].next, used |-> FALSE]
<1>1. packet[x] \in Packet /\ packet[x].size \in Nat
  BY PacketFacts
<1>2. f \notin DOMAIN packet
  BY FreshName
<1>3. /\ DOMAIN mine = DOMAIN packet
      /\ \A y \in DOMAIN packet : y # x => mine[y] = packet[y]
      /\ mine[x] = taken(packet[x].next)
  BY <1>1 DEF Packet
<1>4. CASE packet[x].size = size
  <2>1. new = mine
    BY <1>1, <1>4 DEF SplitTail
  <2> QED BY <1>3, <1>4, <2>1
<1>5. CASE packet[x].size # size
  <2> DEFINE linked == [mine EXCEPT ![x].next = f]
  <2>1. new = Added(linked, f, rest)
    BY <1>1, <1>5 DEF SplitTail
  <2>2. /\ DOMAIN linked = DOMAIN packet
        /\ \A y \in DOMAIN packet : y # x => linked[y] = packet[y]
        /\ linked[x] = taken(f)
    BY <1>3
  <2>4. packet[x].next = NULL
    BY <1>1, <1>5
  <2> HIDE DEF linked, rest
  <2>3. /\ DOMAIN new = DOMAIN packet \cup {f}
        /\ \A y \in DOMAIN packet : new[y] = linked[y]
        /\ new[f] = rest
    BY <1>2, <2>1, <2>2 DEF Added
  <2> QED BY <1>5, <2>2, <2>3, <2>4 DEF rest
<1> QED BY <1>4, <1>5

(* It leaves a list that tiles the pool, without stale links.              *)
LEMMA SplitLinked ==
  ASSUME Linked(packet), NoFreePair(packet), HasFresh, NEW x \in DOMAIN packet,
         NEW size \in Nat \ {0}, size <= packet[x].size,
         packet[x].size > size => packet[x].next = NULL,
         NEW new, new = SplitTail(packet, x, size)
  PROVE  /\ Linked(new) /\ NoFreePair(new)
         /\ DOMAIN packet \subseteq DOMAIN new
         /\ \A y \in DOMAIN packet : y # x => new[y] = packet[y]
         /\ new[x].addr = packet[x].addr /\ new[x].size = size /\ new[x].used
         /\ \A y \in DOMAIN new \ DOMAIN packet : ~new[y].used /\ new[y].next = NULL
<1> DEFINE a == packet[x].addr
           whole == packet[x].size
<1>1. /\ a \in Nat /\ whole \in Nat \ {0} /\ x \in Name /\ x # NULL /\ PoolStart <= a
      /\ packet[x].prev \in Name \cup {NULL} /\ packet[x].next \in Name \cup {NULL}
      /\ PoolEnd \in Nat /\ (packet[x].next = NULL => a + whole = PoolEnd)
  BY PacketFacts, Names DEF Packet, Linked, NextOK, End
<1>2. packet[x].next = NULL => \A y \in DOMAIN packet : y # x =>
        /\ End(packet, y) <= a /\ packet[y].addr < a
        /\ packet[y].addr \in Nat /\ End(packet, y) \in Nat
  BY LastEnds, PacketFacts
<1>3. CASE whole = size
  <2>1. /\ DOMAIN new = DOMAIN packet
        /\ \A y \in DOMAIN packet : y # x => new[y] = packet[y]
        /\ new[x] = [addr |-> a, size |-> size, prev |-> packet[x].prev, next |-> packet[x].next,
                    used |-> TRUE]
    <3>1. /\ DOMAIN new = DOMAIN packet
          /\ \A y \in DOMAIN packet :
               new[y] = IF y = x THEN [addr |-> packet[x].addr, size |-> size,
                                       prev |-> packet[x].prev, next |-> packet[x].next,
                                       used |-> TRUE]
                        ELSE packet[y]
      <4>1. new = [packet EXCEPT ![x].size = size, ![x].used = TRUE]
        BY <1>1, <1>3 DEF SplitTail
      <4>2. packet[x] \in Packet
        BY PacketFacts
      <4> QED BY <4>1, <4>2 DEF Packet
    <3> QED BY <3>1
  <2>2. \A y \in DOMAIN new :
          /\ new[y].addr = packet[y].addr /\ new[y].size = packet[y].size
          /\ new[y].next = packet[y].next /\ new[y].prev = packet[y].prev
          /\ End(new, y) = End(packet, y)
          /\ packet[y].used => new[y].used
    BY <1>3, <2>1 DEF End
  <2>3. new[x] \in Packet
    BY <1>1, <2>1 DEF Packet
  <2>4. PacketsOK(new)
    <3>1. ASSUME NEW y \in DOMAIN new
          PROVE  y \in Name /\ new[y] \in Packet /\ PoolStart <= new[y].addr /\ End(new, y) <= PoolEnd
      <4>1. y \in Name /\ PoolStart <= packet[y].addr /\ End(packet, y) <= PoolEnd
            /\ packet[y] \in Packet
        BY <2>1, PacketFacts
      <4>2. new[y] \in Packet
        BY <2>1, <2>3, <4>1
      <4> QED BY <2>2, <4>1, <4>2
    <3> QED BY <3>1 DEF PacketsOK
  <2>5. NextOK(new) /\ PrevOK(new)
    BY <2>1, <2>2 DEF Linked, NextOK, PrevOK
  <2>6. PacketsApart(new) /\ NoFreePair(new)
    BY <2>1, <2>2 DEF Linked, PacketsApart, NoFreePair, NextOK
  <2> QED BY <2>1, <2>2, <2>4, <2>5, <2>6 DEF Linked
<1>4. CASE whole # size
  <2> DEFINE f == Fresh(packet)
  <2>0. packet[x].next = NULL
    BY <1>1, <1>4
  <2>1. /\ DOMAIN new = DOMAIN packet \cup {f}
        /\ \A y \in DOMAIN packet : y # x => new[y] = packet[y]
        /\ new[x] = [addr |-> a, size |-> size, prev |-> packet[x].prev, next |-> f, used |-> TRUE]
        /\ new[f] = [addr |-> a + size, size |-> whole - size, prev |-> x, next |-> NULL,
                     used |-> FALSE]
    BY <1>4, SplitShape
  <2>2. f \in Name /\ f \notin DOMAIN packet /\ f # NULL
    BY FreshName, Names
  <2> HIDE DEF f, a, whole
  <2>3. /\ whole - size \in Nat \ {0} /\ a + size \in Nat /\ a + size + (whole - size) = PoolEnd
        /\ a + size <= PoolEnd /\ PoolStart <= a + size /\ a <= a + size
    BY <1>1, <1>4, <2>0, Names DEF whole
  <2>4. /\ new[x] \in Packet /\ End(new, x) = a + size
        /\ new[f] \in Packet /\ End(new, f) = PoolEnd
    BY <1>1, <2>1, <2>2, <2>3 DEF Packet, End
  <2>5. \A y \in DOMAIN packet : y # x =>
          /\ End(new, y) = End(packet, y) /\ new[y] \in Packet
          /\ PoolStart <= new[y].addr /\ End(new, y) <= PoolEnd
    BY <2>1, PacketFacts DEF End
  <2>6. PacketsOK(new)
    <3>1. ASSUME NEW y \in DOMAIN new
          PROVE  y \in Name /\ new[y] \in Packet /\ PoolStart <= new[y].addr /\ End(new, y) <= PoolEnd
      <4>1. CASE y = x
        <5>1. PoolStart <= new[x].addr /\ End(new, x) <= PoolEnd
          BY <1>1, <2>0, <2>1, <2>3, <2>4
        <5> QED BY <1>1, <2>4, <4>1, <5>1
      <4>2. CASE y = f
        <5>1. PoolStart <= new[f].addr /\ End(new, f) <= PoolEnd
          BY <1>1, <2>0, <2>1, <2>3, <2>4
        <5> QED BY <2>2, <2>4, <4>2, <5>1
      <4>3. CASE y # x /\ y # f
        BY <2>1, <2>5, <4>3, PacketFacts
      <4> QED BY <4>1, <4>2, <4>3
    <3> QED BY <3>1 DEF PacketsOK
  <2>7. ASSUME NEW y \in DOMAIN packet, y # x
        PROVE  /\ new[y] = packet[y] /\ new[y].next # NULL
               /\ new[y].next \in DOMAIN packet /\ packet[new[y].next].addr = End(packet, y)
               /\ packet[new[y].next].prev = y
    <3>1. packet[y].next # NULL
      <4>1. End(packet, y) # PoolEnd
        BY <1>1, <1>2, <2>0, <2>7
      <4> QED BY <4>1 DEF Linked, NextOK
    <3> QED BY <2>1, <2>7, <3>1 DEF Linked, NextOK
  <2>8. NextOK(new)
    <3>1. ASSUME NEW y \in DOMAIN new
          PROVE  IF new[y].next = NULL THEN End(new, y) = PoolEnd
                 ELSE /\ new[y].next \in DOMAIN new
                      /\ new[new[y].next].addr = End(new, y)
                      /\ new[new[y].next].prev = y
      <4>1. CASE y = x
        BY <2>1, <2>2, <2>4, <4>1
      <4>2. CASE y = f
        BY <2>1, <2>4, <4>2
      <4>3. CASE y # x /\ y # f
        <5>1. y \in DOMAIN packet
          BY <2>1, <4>3
        <5>2. /\ new[new[y].next].addr = packet[new[y].next].addr
              /\ new[new[y].next].prev = packet[new[y].next].prev
          BY <2>1, <2>7, <4>3, <5>1 DEF a
        <5> QED BY <2>1, <2>5, <2>7, <4>3, <5>1, <5>2
      <4> QED BY <4>1, <4>2, <4>3
    <3> QED BY <3>1 DEF NextOK
  <2>9. PrevOK(new)
    <3>1. ASSUME NEW y \in DOMAIN new
          PROVE  IF new[y].prev = NULL THEN new[y].addr = PoolStart
                 ELSE new[y].prev \in DOMAIN new /\ new[new[y].prev].next = y
      <4>1. CASE y = f
        BY <1>1, <2>1, <4>1
      <4>2. CASE y # f
        <5>1. /\ y \in DOMAIN packet /\ new[y].prev = packet[y].prev /\ new[y].addr = packet[y].addr
          BY <2>1, <4>2 DEF a
        <5>2. CASE packet[y].prev = NULL
          BY <5>1, <5>2 DEF Linked, PrevOK
        <5>3. CASE packet[y].prev # NULL
          <6>1. packet[y].prev \in DOMAIN packet /\ packet[packet[y].prev].next = y
            BY <5>1, <5>3 DEF Linked, PrevOK
          <6>2. packet[y].prev # x
            BY <2>0, <5>1, <6>1, PacketFacts
          <6> QED BY <2>1, <5>1, <5>3, <6>1, <6>2
        <5> QED BY <5>2, <5>3
      <4> QED BY <4>1, <4>2
    <3> QED BY <3>1 DEF PrevOK
  <2>10. PacketsApart(new)
    <3>1. ASSUME NEW y \in DOMAIN packet, NEW z \in DOMAIN packet, y # z
          PROVE  End(new, y) <= new[z].addr \/ End(new, z) <= new[y].addr
      <4>1. CASE y # x /\ z # x
        BY <2>1, <2>5, <3>1, <4>1 DEF Linked, PacketsApart
      <4>2. CASE y = x
        BY <1>2, <2>0, <2>1, <2>5, <3>1, <4>2 DEF a
      <4>3. CASE z = x
        BY <1>2, <2>0, <2>1, <2>5, <3>1, <4>3 DEF a
      <4> QED BY <4>1, <4>2, <4>3
    <3>2. ASSUME NEW y \in DOMAIN packet PROVE End(new, y) <= new[f].addr
      <4>1. CASE y = x
        BY <2>1, <2>3, <2>4, <4>1
      <4>2. CASE y # x
        <5>1. End(new, y) <= a /\ End(new, y) \in Nat /\ a \in Nat
          BY <1>1, <1>2, <2>0, <2>5, <4>2 DEF a
        <5> QED BY <2>1, <2>3, <5>1
      <4> QED BY <4>1, <4>2
    <3> QED BY <2>1, <3>1, <3>2 DEF PacketsApart
  <2>11. NoFreePair(new)
    <3>1. ASSUME NEW y \in DOMAIN new, new[y].next # NULL
          PROVE  new[y].used \/ new[new[y].next].used
      <4>1. CASE y = x
        BY <2>1, <4>1
      <4>2. CASE y # x
        <5>1. y \in DOMAIN packet
          BY <2>1, <3>1, <4>2
        <5>2. packet[y].used \/ packet[packet[y].next].used
          BY <2>7, <4>2, <5>1 DEF NoFreePair
        <5> QED BY <2>1, <2>7, <4>2, <5>1, <5>2
      <4> QED BY <4>1, <4>2
    <3> QED BY <3>1 DEF NoFreePair
  <2> QED BY <2>1, <2>6, <2>8, <2>9, <2>10, <2>11 DEF Linked, a
<1> QED BY <1>3, <1>4

-----------------------------------------------------------------------------
(* l and r, which comes after l, have become one packet, which is x.        *)
Joined(new, p, x, l, r) ==
  /\ DOMAIN new = (DOMAIN p \ {l, r}) \cup {x}
  /\ new[x] = [addr |-> p[l].addr, size |-> p[l].size + p[r].size, prev |-> p[l].prev,
               next |-> p[r].next, used |-> p[x].used]
  /\ \A y \in DOMAIN p \ {l, r} :
       new[y] = [addr |-> p[y].addr, size |-> p[y].size,
                 prev |-> IF p[y].prev = r THEN x ELSE p[y].prev,
                 next |-> IF p[y].next = l THEN x ELSE p[y].next, used |-> p[y].used]

(* Packets that follow each other, and those before and after them.        *)
LEMMA Neighbors ==
  ASSUME NEW p, Linked(p), NEW l \in DOMAIN p, NEW r \in DOMAIN p, p[l].next = r
  PROVE  /\ l # r /\ p[r].prev = l /\ p[r].addr = End(p, l)
         /\ p[l].prev # NULL => /\ p[l].prev \in DOMAIN p \ {l, r}
                                /\ p[p[l].prev].next = l /\ End(p, p[l].prev) = p[l].addr
         /\ p[r].next # NULL => /\ p[r].next \in DOMAIN p \ {l, r}
                                /\ p[p[r].next].prev = r /\ p[p[r].next].addr = End(p, r)
         /\ \A y \in DOMAIN p \ {l, r} : p[y].next # r /\ p[y].prev # l
<1>1. r # NULL /\ l # NULL
  BY PacketFacts
<1>2. p[r].prev = l /\ p[r].addr = End(p, l)
  BY <1>1 DEF Linked, NextOK
<1>3. /\ p[l].addr < End(p, l) /\ End(p, l) < End(p, r)
      /\ p[l].addr \in Nat /\ End(p, l) \in Nat /\ End(p, r) \in Nat
  BY <1>2, PacketFacts
<1>4. l # r
  BY <1>2, <1>3
<1>5. ASSUME p[l].prev # NULL
      PROVE  /\ p[l].prev \in DOMAIN p \ {l, r}
             /\ p[p[l].prev].next = l /\ End(p, p[l].prev) = p[l].addr
  <2> DEFINE b == p[l].prev
  <2>1. b \in DOMAIN p /\ p[b].next = l
    BY <1>5 DEF Linked, PrevOK
  <2>2. End(p, b) = p[l].addr
    BY <1>1, <2>1 DEF Linked, NextOK
  <2> HIDE DEF b
  <2>3. b # l /\ b # r
    BY <1>3, <2>2
  <2> QED BY <2>1, <2>2, <2>3 DEF b
<1>6. ASSUME p[r].next # NULL
      PROVE  /\ p[r].next \in DOMAIN p \ {l, r}
             /\ p[p[r].next].prev = r /\ p[p[r].next].addr = End(p, r)
  <2> DEFINE a == p[r].next
  <2>1. a \in DOMAIN p /\ p[a].prev = r /\ p[a].addr = End(p, r)
    BY <1>6 DEF Linked, NextOK
  <2> HIDE DEF a
  <2>2. a # l /\ a # r
    BY <1>2, <1>3, <2>1
  <2> QED BY <2>1, <2>2 DEF a
<1>7. ASSUME NEW y \in DOMAIN p \ {l, r} PROVE p[y].next # r /\ p[y].prev # l
  BY <1>1, <1>2 DEF Linked, NextOK, PrevOK
<1> QED BY <1>2, <1>4, <1>5, <1>6, <1>7

(* The list without the packet that was merged tiles the pool.              *)
LEMMA JoinedLinked ==
  ASSUME NEW p, Linked(p), NEW l \in DOMAIN p, NEW r \in DOMAIN p, p[l].next = r,
         NEW x \in {l, r}, NEW new, Joined(new, p, x, l, r)
  PROVE  Linked(new) /\ End(new, x) = End(p, r)
<1>1. /\ l # r /\ p[r].prev = l /\ p[r].addr = End(p, l)
      /\ p[l].prev # NULL => /\ p[l].prev \in DOMAIN p \ {l, r}
                             /\ p[p[l].prev].next = l /\ End(p, p[l].prev) = p[l].addr
      /\ p[r].next # NULL => /\ p[r].next \in DOMAIN p \ {l, r}
                             /\ p[p[r].next].prev = r /\ p[p[r].next].addr = End(p, r)
      /\ \A y \in DOMAIN p \ {l, r} : p[y].next # r /\ p[y].prev # l
  BY Neighbors
<1>2. /\ l \in Name /\ r \in Name /\ l # NULL /\ r # NULL /\ p[l] \in Packet /\ p[r] \in Packet
      /\ p[l].addr \in Nat /\ p[r].addr \in Nat /\ p[l].size \in Nat \ {0} /\ p[r].size \in Nat \ {0}
      /\ PoolStart <= p[l].addr /\ End(p, r) <= PoolEnd /\ p[x].used \in BOOLEAN
  BY PacketFacts
<1>3. x \in DOMAIN new /\ x \in Name /\ x # NULL /\ x \notin DOMAIN p \ {l, r}
  BY <1>2 DEF Joined
<1>4. new[x] = [addr |-> p[l].addr, size |-> p[l].size + p[r].size, prev |-> p[l].prev,
                next |-> p[r].next, used |-> p[x].used]
  BY DEF Joined
<1>5. End(new, x) = End(p, r)
  BY <1>1, <1>2, <1>4 DEF End
<1>6. ASSUME NEW y \in DOMAIN new, y # x
      PROVE  /\ y \in DOMAIN p \ {l, r}
             /\ new[y] = [addr |-> p[y].addr, size |-> p[y].size,
                          prev |-> IF p[y].prev = r THEN x ELSE p[y].prev,
                          next |-> IF p[y].next = l THEN x ELSE p[y].next, used |-> p[y].used]
             /\ End(new, y) = End(p, y)
  BY <1>6 DEF Joined, End
<1>7. DOMAIN p \ {l, r} \subseteq DOMAIN new
  BY DEF Joined
<1>8. PacketsOK(new)
  <2>1. ASSUME NEW y \in DOMAIN new
        PROVE  y \in Name /\ new[y] \in Packet /\ PoolStart <= new[y].addr /\ End(new, y) <= PoolEnd
    <3>1. CASE y = x
      <4>1. p[l].prev \in Name \cup {NULL} /\ p[r].next \in Name \cup {NULL}
        BY <1>2 DEF Packet
      <4>2. new[x] \in Packet
        BY <1>2, <1>4, <4>1 DEF Packet
      <4> QED BY <1>2, <1>3, <1>4, <1>5, <3>1, <4>2
    <3>2. CASE y # x
      <4>1. /\ y \in DOMAIN p /\ y \in Name /\ p[y] \in Packet /\ PoolStart <= p[y].addr
            /\ End(p, y) <= PoolEnd
        BY <1>6, <3>2, PacketFacts
      <4>2. new[y] \in Packet
        BY <1>3, <1>6, <3>2, <4>1 DEF Packet
      <4> QED BY <1>6, <3>2, <4>1, <4>2
    <3> QED BY <3>1, <3>2
  <2> QED BY <2>1 DEF PacketsOK
<1>9. NextOK(new)
  <2>1. ASSUME NEW y \in DOMAIN new
        PROVE  IF new[y].next = NULL THEN End(new, y) = PoolEnd
               ELSE /\ new[y].next \in DOMAIN new
                    /\ new[new[y].next].addr = End(new, y)
                    /\ new[new[y].next].prev = y
    <3>1. CASE y = x
      <4>1. CASE p[r].next = NULL
        BY <1>4, <1>5, <3>1, <4>1 DEF Linked, NextOK
      <4>2. CASE p[r].next # NULL
        <5> DEFINE a == p[r].next
        <5>1. a \in DOMAIN p \ {l, r} /\ p[a].prev = r /\ p[a].addr = End(p, r)
          BY <1>1, <4>2
        <5>2. a \in DOMAIN new /\ a # x
          BY <1>3, <1>7, <5>1
        <5>3. new[a].addr = End(p, r) /\ new[a].prev = x
          BY <1>6, <5>1, <5>2
        <5> QED BY <1>4, <1>5, <3>1, <4>2, <5>2, <5>3
      <4> QED BY <4>1, <4>2
    <3>2. CASE y # x
      <4> DEFINE n == p[y].next
      <4>1. y \in DOMAIN p /\ y # l /\ y # r /\ n # r /\ End(new, y) = End(p, y)
            /\ new[y].next = IF n = l THEN x ELSE n
        BY <1>1, <1>6, <3>2
      <4>2. IF n = NULL THEN End(p, y) = PoolEnd
            ELSE n \in DOMAIN p /\ p[n].addr = End(p, y) /\ p[n].prev = y
        BY <4>1 DEF Linked, NextOK
      <4> HIDE DEF n
      <4>3. CASE n = NULL
        BY <1>2, <4>1, <4>2, <4>3
      <4>4. CASE n = l
        <5>1. p[l].addr = End(p, y) /\ p[l].prev = y
          BY <1>2, <4>2, <4>4
        <5> QED BY <1>3, <1>4, <4>1, <4>4, <5>1
      <4>5. CASE n # NULL /\ n # l
        <5>1. n \in DOMAIN p \ {l, r} /\ p[n].addr = End(p, y) /\ p[n].prev = y
          BY <4>1, <4>2, <4>5
        <5>2. n \in DOMAIN new /\ n # x
          BY <1>3, <1>7, <5>1
        <5>3. new[n].addr = End(p, y) /\ new[n].prev = y
          BY <1>6, <4>1, <5>1, <5>2
        <5> QED BY <4>1, <4>5, <5>2, <5>3
      <4> QED BY <4>3, <4>4, <4>5
    <3> QED BY <3>1, <3>2
  <2> QED BY <2>1 DEF NextOK
<1>10. PrevOK(new)
  <2>1. ASSUME NEW y \in DOMAIN new
        PROVE  IF new[y].prev = NULL THEN new[y].addr = PoolStart
               ELSE new[y].prev \in DOMAIN new /\ new[new[y].prev].next = y
    <3>1. CASE y = x
      <4>1. CASE p[l].prev = NULL
        BY <1>4, <3>1, <4>1 DEF Linked, PrevOK
      <4>2. CASE p[l].prev # NULL
        <5> DEFINE b == p[l].prev
        <5>1. b \in DOMAIN p \ {l, r} /\ p[b].next = l
          BY <1>1, <4>2
        <5>2. b \in DOMAIN new /\ b # x
          BY <1>3, <1>7, <5>1
        <5>3. new[b].next = x
          BY <1>6, <5>1, <5>2
        <5> QED BY <1>4, <3>1, <4>2, <5>2, <5>3
      <4> QED BY <4>1, <4>2
    <3>2. CASE y # x
      <4> DEFINE b == p[y].prev
      <4>1. y \in DOMAIN p /\ y # l /\ y # r /\ b # l /\ new[y].addr = p[y].addr
            /\ new[y].prev = IF b = r THEN x ELSE b
        BY <1>1, <1>6, <3>2
      <4>2. IF b = NULL THEN p[y].addr = PoolStart ELSE b \in DOMAIN p /\ p[b].next = y
        BY <4>1 DEF Linked, PrevOK
      <4> HIDE DEF b
      <4>3. CASE b = NULL
        BY <1>2, <4>1, <4>2, <4>3
      <4>4. CASE b = r
        <5>1. p[r].next = y
          BY <1>2, <4>2, <4>4
        <5> QED BY <1>3, <1>4, <4>1, <4>4, <5>1
      <4>5. CASE b # NULL /\ b # r
        <5>1. b \in DOMAIN p \ {l, r} /\ p[b].next = y
          BY <4>1, <4>2, <4>5
        <5>2. b \in DOMAIN new /\ b # x
          BY <1>3, <1>7, <5>1
        <5>3. new[b].next = y
          BY <1>6, <4>1, <5>1, <5>2
        <5> QED BY <4>1, <4>5, <5>2, <5>3
      <4> QED BY <4>3, <4>4, <4>5
    <3> QED BY <3>1, <3>2
  <2> QED BY <2>1 DEF PrevOK
<1>11. PacketsApart(new)
  <2>1. ASSUME NEW z \in DOMAIN p \ {l, r}
        PROVE  End(p, r) <= p[z].addr \/ End(p, z) <= p[l].addr
    <3>1. /\ p[z].addr \in Nat /\ End(p, z) \in Nat /\ p[z].addr < End(p, z)
          /\ End(p, l) \in Nat /\ End(p, r) \in Nat
      BY PacketFacts
    <3>2. /\ End(p, l) <= p[z].addr \/ End(p, z) <= p[l].addr
          /\ End(p, r) <= p[z].addr \/ End(p, z) <= p[r].addr
      BY DEF Linked, PacketsApart
    <3> QED BY <1>1, <1>2, <3>1, <3>2
  <2>2. ASSUME NEW y \in DOMAIN new, NEW z \in DOMAIN new, y # z
        PROVE  End(new, y) <= new[z].addr \/ End(new, z) <= new[y].addr
    <3>1. CASE y = x
      <4>1. z \in DOMAIN p \ {l, r} /\ new[z].addr = p[z].addr /\ End(new, z) = End(p, z)
        BY <1>6, <2>2, <3>1
      <4> QED BY <1>4, <1>5, <2>1, <3>1, <4>1
    <3>2. CASE z = x
      <4>1. y \in DOMAIN p \ {l, r} /\ new[y].addr = p[y].addr /\ End(new, y) = End(p, y)
        BY <1>6, <2>2, <3>2
      <4> QED BY <1>4, <1>5, <2>1, <3>2, <4>1
    <3>3. CASE y # x /\ z # x
      <4>1. /\ y \in DOMAIN p /\ new[y].addr = p[y].addr /\ End(new, y) = End(p, y)
            /\ z \in DOMAIN p /\ new[z].addr = p[z].addr /\ End(new, z) = End(p, z)
        BY <1>6, <3>3
      <4> QED BY <2>2, <4>1 DEF Linked, PacketsApart
    <3> QED BY <3>1, <3>2, <3>3
  <2> QED BY <2>2 DEF PacketsApart
<1> QED BY <1>5, <1>8, <1>9, <1>10, <1>11 DEF Linked

(* Freeing x merges it with a free packet before it.                        *)
LEMMA MergePrevJoins ==
  ASSUME NEW p, Linked(p), NEW x \in DOMAIN p, Mergeable(p, p[x].prev)
  PROVE  /\ p[x].prev \in DOMAIN p /\ p[p[x].prev].next = x /\ ~p[p[x].prev].used
         /\ Joined(MergePrev(p, x), p, x, p[x].prev, x)
<1> DEFINE q == p[x].prev
           b == p[q].prev
           joined == [p EXCEPT ![x].addr = p[q].addr, ![x].size = @ + p[q].size, ![x].prev = b]
           linked == IF b = NULL THEN joined ELSE [joined EXCEPT ![b].next = x]
           new == MergePrev(p, x)
<1>1. q \in DOMAIN p /\ p[q].next = x /\ ~p[q].used
  BY DEF Mergeable, Linked, PrevOK
<1>2. /\ q # x
      /\ b # NULL => b \in DOMAIN p \ {q, x} /\ p[b].next = q
  BY <1>1, Neighbors
<1>3. new = Restrict(linked, DOMAIN p \ {q})
  BY DEF MergePrev
<1>4. p[x] \in Packet /\ p[q] \in Packet /\ x # NULL /\ q # NULL
  BY <1>1, PacketFacts
<1>5. \A y \in DOMAIN p \ {q, x} : p[y].next = q <=> (y = b /\ b # NULL)
  <2>1. ASSUME NEW y \in DOMAIN p, p[y].next = q PROVE y = b /\ b # NULL
    BY <1>1, <1>4, <2>1, PacketFacts DEF Linked, NextOK
  <2> QED BY <1>2, <2>1
<1> HIDE DEF q, b
<1>6. /\ DOMAIN joined = DOMAIN p
      /\ joined[x] = [addr |-> p[q].addr, size |-> p[q].size + p[x].size, prev |-> b,
                      next |-> p[x].next, used |-> p[x].used]
      /\ \A y \in DOMAIN p \ {x} : joined[y] = p[y]
  <2>1. p[x].size + p[q].size = p[q].size + p[x].size
    BY <1>4 DEF Packet
  <2>2. joined[x] = [addr |-> p[q].addr, size |-> p[x].size + p[q].size, prev |-> b,
                     next |-> p[x].next, used |-> p[x].used]
    BY <1>4 DEF Packet
  <2> QED BY <2>1, <2>2
<1> HIDE DEF joined
<1>7. /\ DOMAIN linked = DOMAIN p
      /\ linked[x] = joined[x]
      /\ \A y \in DOMAIN p \ {q, x} :
           linked[y] = IF y = b /\ b # NULL THEN [p[y] EXCEPT !.next = x] ELSE p[y]
  <2>1. CASE b = NULL
    BY <1>6, <2>1
  <2>2. CASE b # NULL
    BY <1>2, <1>6, <2>2
  <2> QED BY <2>1, <2>2
<1> HIDE DEF linked
<1>8. /\ DOMAIN new = DOMAIN p \ {q}
      /\ \A y \in DOMAIN p \ {q} : new[y] = linked[y]
  BY <1>3 DEF Restrict
<1> HIDE DEF new
<1>9. ASSUME NEW y \in DOMAIN p \ {q, x}
      PROVE  new[y] = [addr |-> p[y].addr, size |-> p[y].size,
                       prev |-> IF p[y].prev = x THEN x ELSE p[y].prev,
                       next |-> IF p[y].next = q THEN x ELSE p[y].next, used |-> p[y].used]
  <2>1. p[y] \in Packet
    BY PacketFacts
  <2>2. new[y] = IF p[y].next = q THEN [p[y] EXCEPT !.next = x] ELSE p[y]
    BY <1>5, <1>7, <1>8
  <2> QED BY <2>1, <2>2 DEF Packet
<1>10. DOMAIN new = (DOMAIN p \ {q, x}) \cup {x}
  BY <1>2, <1>8
<1>11. new[x] = [addr |-> p[q].addr, size |-> p[q].size + p[x].size, prev |-> b,
                 next |-> p[x].next, used |-> p[x].used]
  BY <1>2, <1>6, <1>7, <1>8
<1>12. Joined(new, p, x, q, x)
  BY <1>9, <1>10, <1>11 DEF Joined, b
<1> QED BY <1>1, <1>12 DEF q, new

(* And with a free packet after it.                                         *)
LEMMA MergeNextJoins ==
  ASSUME NEW p, Linked(p), NEW x \in DOMAIN p, Mergeable(p, p[x].next)
  PROVE  /\ p[x].next \in DOMAIN p /\ ~p[p[x].next].used
         /\ Joined(MergeNext(p, x), p, x, x, p[x].next)
<1> DEFINE q == p[x].next
           a == p[q].next
           joined == [p EXCEPT ![x].size = @ + p[q].size, ![x].next = a]
           linked == IF a = NULL THEN joined ELSE [joined EXCEPT ![a].prev = x]
           new == MergeNext(p, x)
<1>1. q \in DOMAIN p /\ ~p[q].used /\ q # NULL
  BY DEF Mergeable, Linked, NextOK
<1>2. /\ q # x
      /\ a # NULL => a \in DOMAIN p \ {q, x} /\ p[a].prev = q
  BY <1>1, Neighbors
<1>3. new = Restrict(linked, DOMAIN p \ {q})
  BY DEF MergeNext
<1>4. p[x] \in Packet /\ p[q] \in Packet /\ x # NULL
  BY <1>1, PacketFacts
<1>5. \A y \in DOMAIN p \ {q, x} : p[y].prev = q <=> (y = a /\ a # NULL)
  BY <1>1, <1>2, <1>4, PacketFacts DEF Linked, PrevOK
<1> HIDE DEF q, a
<1>6. /\ DOMAIN joined = DOMAIN p
      /\ joined[x] = [addr |-> p[x].addr, size |-> p[x].size + p[q].size, prev |-> p[x].prev,
                      next |-> a, used |-> p[x].used]
      /\ \A y \in DOMAIN p \ {x} : joined[y] = p[y]
  BY <1>4 DEF Packet
<1> HIDE DEF joined
<1>7. /\ DOMAIN linked = DOMAIN p
      /\ linked[x] = joined[x]
      /\ \A y \in DOMAIN p \ {q, x} :
           linked[y] = IF y = a /\ a # NULL THEN [p[y] EXCEPT !.prev = x] ELSE p[y]
  <2>1. CASE a = NULL
    BY <1>6, <2>1
  <2>2. CASE a # NULL
    BY <1>2, <1>6, <2>2
  <2> QED BY <2>1, <2>2
<1> HIDE DEF linked
<1>8. /\ DOMAIN new = DOMAIN p \ {q}
      /\ \A y \in DOMAIN p \ {q} : new[y] = linked[y]
  BY <1>3 DEF Restrict
<1> HIDE DEF new
<1>9. ASSUME NEW y \in DOMAIN p \ {q, x}
      PROVE  new[y] = [addr |-> p[y].addr, size |-> p[y].size,
                       prev |-> IF p[y].prev = q THEN x ELSE p[y].prev,
                       next |-> IF p[y].next = x THEN x ELSE p[y].next, used |-> p[y].used]
  <2>1. p[y] \in Packet
    BY PacketFacts
  <2>2. new[y] = IF p[y].prev = q THEN [p[y] EXCEPT !.prev = x] ELSE p[y]
    BY <1>5, <1>7, <1>8
  <2> QED BY <2>1, <2>2 DEF Packet
<1>10. DOMAIN new = (DOMAIN p \ {x, q}) \cup {x}
  BY <1>2, <1>8
<1>11. new[x] = [addr |-> p[x].addr, size |-> p[x].size + p[q].size, prev |-> p[x].prev,
                 next |-> a, used |-> p[x].used]
  BY <1>2, <1>6, <1>7, <1>8
<1>12. Joined(new, p, x, x, q)
  BY <1>9, <1>10, <1>11 DEF Joined, a
<1> QED BY <1>1, <1>12 DEF q, new

-----------------------------------------------------------------------------
(* What the list m that a merge with x made keeps of the list p.            *)
MergeKeeps(m, p, x) ==
  /\ Linked(m) /\ NoFreePair(m)
  /\ x \in DOMAIN m /\ DOMAIN m \subseteq DOMAIN p
  /\ m[x].used = p[x].used /\ End(p, x) <= End(m, x)
  /\ \A y \in DOMAIN m \ {x} :
       m[y].addr = p[y].addr /\ m[y].size = p[y].size /\ m[y].used = p[y].used
  /\ \A y \in DOMAIN p : p[y].used => y \in DOMAIN m
  /\ m[x].prev # NULL => \A h \in DOMAIN p :
       p[h].addr = PoolStart => h \in DOMAIN m \ {x}

(* A packet in use keeps what it was when a free one is merged with it, and *)
(* all others are as they were.                                             *)
LEMMA JoinKeeps ==
  ASSUME NEW p, Linked(p), NoFreePair(p), NEW l \in DOMAIN p, NEW r \in DOMAIN p,
         p[l].next = r, NEW x \in {l, r}, p[x].used, NEW o \in {l, r}, o # x, ~p[o].used,
         NEW new, Joined(new, p, x, l, r)
  PROVE  MergeKeeps(new, p, x)
<1>1. /\ l # r /\ p[r].prev = l /\ l # NULL /\ r # NULL
  BY Neighbors, PacketFacts
<1>2. Linked(new)
  BY JoinedLinked
<1>3. /\ DOMAIN new = (DOMAIN p \ {l, r}) \cup {x}
      /\ new[x] = [addr |-> p[l].addr, size |-> p[l].size + p[r].size, prev |-> p[l].prev,
                   next |-> p[r].next, used |-> p[x].used]
      /\ \A y \in DOMAIN p \ {l, r} :
           new[y] = [addr |-> p[y].addr, size |-> p[y].size,
                     prev |-> IF p[y].prev = r THEN x ELSE p[y].prev,
                     next |-> IF p[y].next = l THEN x ELSE p[y].next, used |-> p[y].used]
  BY DEF Joined
<1>4. x \in DOMAIN new /\ DOMAIN new \subseteq DOMAIN p /\ new[x].used = p[x].used
  BY <1>3
<1>5. ASSUME NEW y \in DOMAIN new \ {x}
      PROVE  /\ new[y].addr = p[y].addr /\ new[y].size = p[y].size /\ new[y].used = p[y].used
             /\ new[y].next = IF p[y].next = l THEN x ELSE p[y].next
             /\ y \in DOMAIN p \ {l, r}
  <2>1. y \in DOMAIN p \ {l, r}
    BY <1>3
  <2> DEFINE prev == IF p[y].prev = r THEN x ELSE p[y].prev
             next == IF p[y].next = l THEN x ELSE p[y].next
  <2>2. new[y] = [addr |-> p[y].addr, size |-> p[y].size, prev |-> prev, next |-> next,
                  used |-> p[y].used]
    BY <1>3, <2>1
  <2> HIDE DEF prev, next
  <2>3. new[y].addr = p[y].addr /\ new[y].size = p[y].size /\ new[y].used = p[y].used
        /\ new[y].next = next
    BY <2>2
  <2> QED BY <2>1, <2>3 DEF next
<1>6. \A y \in DOMAIN p : p[y].used => y \in DOMAIN new
  BY <1>3
<1>7. NoFreePair(new)
  <2>1. ASSUME NEW y \in DOMAIN new, new[y].next # NULL
        PROVE  new[y].used \/ new[new[y].next].used
    <3>1. CASE y = x
      BY <1>4, <3>1
    <3>2. CASE y # x
      <4> DEFINE n == p[y].next
      <4>1. y \in DOMAIN p \ {l, r} /\ new[y].used = p[y].used /\ new[y].next = IF n = l THEN x ELSE n
        BY <1>5, <3>2
      <4>2. CASE n = l
        BY <1>4, <4>1, <4>2
      <4>3. CASE n # l
        <5>1. n # NULL /\ n \in DOMAIN p /\ n # r
          BY <2>1, <4>1, <4>3, Neighbors DEF Linked, NextOK
        <5>2. p[y].used \/ p[n].used
          BY <4>1, <5>1 DEF NoFreePair
        <5>3. n \in DOMAIN new \ {x}
          BY <1>3, <4>3, <5>1
        <5> QED BY <1>5, <4>1, <4>3, <5>2, <5>3
      <4> QED BY <4>2, <4>3
    <3> QED BY <3>1, <3>2
  <2> QED BY <2>1 DEF NoFreePair
<1>8. ASSUME new[x].prev # NULL, NEW h \in DOMAIN p, p[h].addr = PoolStart
      PROVE  h \in DOMAIN new \ {x}
  <2>1. p[l].prev # NULL
    BY <1>3, <1>8
  <2>2. p[l].addr # PoolStart /\ p[r].addr # PoolStart
    BY <1>1, <2>1, FirstHasNoPrev
  <2> QED BY <1>3, <1>8, <2>2
<1>9. End(p, x) <= End(new, x)
  <2>1. /\ End(new, x) = End(p, r) /\ p[r].addr = End(p, l)
        /\ p[r].addr \in Nat /\ End(p, r) \in Nat /\ p[r].addr < End(p, r)
    BY JoinedLinked, Neighbors, PacketFacts
  <2> QED BY <2>1
<1> QED BY <1>2, <1>4, <1>5, <1>6, <1>7, <1>8, <1>9 DEF MergeKeeps

(* The packet before the merged one is in use, and so is the one after it.  *)
UsedBefore(m, x) == m[x].prev # NULL => m[m[x].prev].used
UsedAfter(m, x) == m[x].next # NULL => m[m[x].next].used

(* After a merge with the packet before it, if that was free, the one      *)
(* before is in use.                                                       *)
LEMMA PrevMerged ==
  ASSUME NEW p, Linked(p), NoFreePair(p), NEW x \in DOMAIN p, p[x].used,
         NEW m, m = MergePrev(p, x)
  PROVE  MergeKeeps(m, p, x) /\ UsedBefore(m, x)
<1>1. CASE Mergeable(p, p[x].prev)
  <2> DEFINE q == p[x].prev
             b == p[q].prev
  <2>1. q \in DOMAIN p /\ p[q].next = x /\ ~p[q].used /\ Joined(m, p, x, q, x)
    BY <1>1, MergePrevJoins
  <2>2. /\ q # x
        /\ b # NULL => b \in DOMAIN p \ {q, x} /\ p[b].next = q
    BY <2>1, Neighbors
  <2>3. MergeKeeps(m, p, x)
    BY <2>1, <2>2, JoinKeeps
  <2>4. m[x].prev = b
    BY <2>1 DEF Joined
  <2>5. ASSUME b # NULL PROVE m[b].used
    <3>1. p[b].used
      BY <2>1, <2>2, <2>5, PacketFacts DEF NoFreePair
    <3> QED BY <2>2, <2>3, <2>5, <3>1 DEF MergeKeeps
  <2> HIDE DEF b
  <2> QED BY <2>3, <2>4, <2>5 DEF UsedBefore
<1>2. CASE ~Mergeable(p, p[x].prev)
  <2>1. m = p
    BY <1>2 DEF MergePrev
  <2>2. End(p, x) <= End(p, x)
    BY PacketFacts
  <2>3. \A h \in DOMAIN p : (p[x].prev # NULL /\ p[h].addr = PoolStart) => h # x
    BY FirstHasNoPrev
  <2>4. MergeKeeps(p, p, x)
    BY <2>2, <2>3 DEF MergeKeeps
  <2> QED BY <1>2, <2>1, <2>4 DEF UsedBefore, Mergeable
<1> QED BY <1>1, <1>2

(* And likewise after it; the packet before is still the one that it was.  *)
LEMMA NextMerged ==
  ASSUME NEW p, Linked(p), NoFreePair(p), NEW x \in DOMAIN p, p[x].used, UsedBefore(p, x),
         NEW m, m = MergeNext(p, x)
  PROVE  MergeKeeps(m, p, x) /\ UsedBefore(m, x) /\ UsedAfter(m, x) /\ m[x].prev = p[x].prev
<1>1. CASE Mergeable(p, p[x].next)
  <2> DEFINE q == p[x].next
             a == p[q].next
             b == p[x].prev
  <2>1. q \in DOMAIN p /\ ~p[q].used /\ Joined(m, p, x, x, q)
    BY <1>1, MergeNextJoins
  <2>2. /\ q # x
        /\ a # NULL => a \in DOMAIN p \ {x, q}
        /\ b # NULL => b \in DOMAIN p \ {x, q}
    BY <2>1, Neighbors
  <2>3. MergeKeeps(m, p, x)
    BY <2>1, <2>2, JoinKeeps
  <2>4. m[x].prev = b /\ m[x].next = a
    BY <2>1 DEF Joined
  <2>5. ASSUME a # NULL PROVE m[a].used
    <3>1. p[a].used
      BY <2>1, <2>5 DEF NoFreePair
    <3> QED BY <2>2, <2>3, <2>5, <3>1 DEF MergeKeeps
  <2>6. ASSUME b # NULL PROVE m[b].used
    <3>1. p[b].used
      BY <2>6 DEF UsedBefore
    <3> QED BY <2>2, <2>3, <2>6, <3>1 DEF MergeKeeps
  <2> HIDE DEF a, b
  <2>7. UsedBefore(m, x) /\ UsedAfter(m, x)
    BY <2>4, <2>5, <2>6 DEF UsedBefore, UsedAfter
  <2> QED BY <2>3, <2>4, <2>7 DEF b
<1>2. CASE ~Mergeable(p, p[x].next)
  <2>1. m = p
    BY <1>2 DEF MergeNext
  <2>2. End(p, x) <= End(p, x)
    BY PacketFacts
  <2>3. \A h \in DOMAIN p : (p[x].prev # NULL /\ p[h].addr = PoolStart) => h # x
    BY FirstHasNoPrev
  <2>4. MergeKeeps(p, p, x)
    BY <2>2, <2>3 DEF MergeKeeps
  <2> QED BY <1>2, <2>1, <2>4 DEF UsedAfter, Mergeable
<1> QED BY <1>1, <1>2

(* m, where x is no longer in use.                                         *)
Unused(new, m, x) ==
  /\ DOMAIN new = DOMAIN m
  /\ \A y \in DOMAIN m : new[y] = [addr |-> m[y].addr, size |-> m[y].size,
                                   prev |-> m[y].prev, next |-> m[y].next,
                                   used |-> m[y].used /\ y # x]

(* DLTMM_free clears used_packet at the end.                               *)
LEMMA UnusedMade ==
  ASSUME NEW m, Linked(m), NEW x \in DOMAIN m
  PROVE  Unused([m EXCEPT ![x].used = FALSE], m, x)
<1>1. ASSUME NEW y \in DOMAIN m
      PROVE  [m EXCEPT ![x].used = FALSE][y] =
               [addr |-> m[y].addr, size |-> m[y].size, prev |-> m[y].prev,
                next |-> m[y].next, used |-> m[y].used /\ y # x]
  <2>1. m[y] \in Packet
    BY PacketFacts
  <2>2. CASE y = x
    BY <2>1, <2>2 DEF Packet
  <2>3. CASE y # x
    BY <2>1, <2>3 DEF Packet
  <2> QED BY <2>2, <2>3
<1> QED BY <1>1 DEF Unused

(* A list whose free neighbors were merged tiles the pool still.            *)
LEMMA UnusedLinked ==
  ASSUME NEW m, Linked(m), NoFreePair(m), NEW x \in DOMAIN m, UsedBefore(m, x), UsedAfter(m, x),
         NEW new, Unused(new, m, x)
  PROVE  /\ Linked(new) /\ NoFreePair(new) /\ DOMAIN new = DOMAIN m /\ ~new[x].used
         /\ End(new, x) = End(m, x) /\ new[x].addr = m[x].addr
         /\ \A y \in DOMAIN m \ {x} :
              new[y].addr = m[y].addr /\ new[y].size = m[y].size /\ new[y].used = m[y].used
<1>1. DOMAIN new = DOMAIN m
  BY DEF Unused
<1>2. ASSUME NEW y \in DOMAIN m
      PROVE  /\ new[y].addr = m[y].addr /\ new[y].size = m[y].size
             /\ new[y].prev = m[y].prev /\ new[y].next = m[y].next
             /\ new[y].used = (m[y].used /\ y # x)
             /\ End(new, y) = End(m, y)
             /\ new[y] \in Packet
  <2>1. m[y] \in Packet
    BY PacketFacts
  <2> DEFINE used == m[y].used /\ y # x
  <2>2. new[y] = [addr |-> m[y].addr, size |-> m[y].size, prev |-> m[y].prev,
                  next |-> m[y].next, used |-> used]
    BY DEF Unused
  <2>3. used \in BOOLEAN
    OBVIOUS
  <2> HIDE DEF used
  <2>4. new[y].addr = m[y].addr /\ new[y].size = m[y].size /\ new[y].prev = m[y].prev
        /\ new[y].next = m[y].next /\ new[y].used = used
    BY <2>2
  <2>5. new[y] \in Packet
    BY <2>1, <2>2, <2>3 DEF Packet
  <2>6. End(new, y) = End(m, y)
    BY <2>4 DEF End
  <2> QED BY <2>4, <2>5, <2>6 DEF used
<1>3. PacketsOK(new)
  <2>1. ASSUME NEW y \in DOMAIN new
        PROVE  y \in Name /\ new[y] \in Packet /\ PoolStart <= new[y].addr /\ End(new, y) <= PoolEnd
    BY <1>1, <1>2, PacketFacts
  <2> QED BY <2>1 DEF PacketsOK
<1>4. NextOK(new)
  <2>1. NextOK(m)
    BY DEF Linked
  <2> QED BY <1>1, <1>2, <2>1 DEF NextOK
<1>5. PrevOK(new)
  <2>1. PrevOK(m)
    BY DEF Linked
  <2> QED BY <1>1, <1>2, <2>1 DEF PrevOK
<1>6. PacketsApart(new)
  <2>1. PacketsApart(m)
    BY DEF Linked
  <2> QED BY <1>1, <1>2, <2>1 DEF PacketsApart
<1>7. NoFreePair(new)
  <2>1. ASSUME NEW y \in DOMAIN m, m[y].next # NULL
        PROVE  new[y].used \/ new[m[y].next].used
    <3> DEFINE z == m[y].next
    <3>1. z \in DOMAIN m /\ m[z].prev = y /\ y # NULL
      BY <2>1, PacketFacts DEF Linked, NextOK
    <3>2. y # z
      BY <3>1, Neighbors
    <3>3. CASE y = x
      BY <1>2, <2>1, <3>1, <3>2, <3>3 DEF UsedAfter
    <3>4. CASE z = x
      BY <1>2, <3>1, <3>2, <3>4 DEF UsedBefore
    <3>5. CASE y # x /\ z # x
      <4>1. m[y].used \/ m[z].used
        BY <2>1 DEF NoFreePair
      <4> QED BY <1>2, <3>1, <3>5, <4>1
    <3> QED BY <3>3, <3>4, <3>5
  <2> QED BY <1>1, <1>2, <2>1 DEF NoFreePair
<1>8. Linked(new)
  BY <1>3, <1>4, <1>5, <1>6 DEF Linked
<1>9. \A y \in DOMAIN m \ {x} :
        new[y].addr = m[y].addr /\ new[y].size = m[y].size /\ new[y].used = m[y].used
  <2>1. \A y \in DOMAIN m : m[y].used \in BOOLEAN
    BY PacketFacts
  <2> QED BY <1>2, <2>1
<1> QED BY <1>1, <1>2, <1>7, <1>8, <1>9

(* Freeing x leaves a list that tiles the pool, where x is free and every   *)
(* other packet in use is as it was.                                        *)
LEMMA Freed ==
  ASSUME NEW p, Linked(p), NoFreePair(p), NEW x \in DOMAIN p, p[x].used,
         NEW m, m = MergeNext(MergePrev(p, x), x), NEW new, Unused(new, m, x)
  PROVE  /\ Linked(m) /\ x \in DOMAIN m
         /\ Linked(new) /\ NoFreePair(new)
         /\ DOMAIN new \subseteq DOMAIN p /\ x \in DOMAIN new /\ ~new[x].used
         /\ End(p, x) <= End(new, x)
         /\ \A y \in DOMAIN new \ {x} :
              new[y].addr = p[y].addr /\ new[y].size = p[y].size /\ new[y].used = p[y].used
         /\ \A y \in DOMAIN p : p[y].used => y \in DOMAIN new
         /\ m[x].prev = NULL => new[x].addr = PoolStart
         /\ m[x].prev # NULL => \A h \in DOMAIN p :
              p[h].addr = PoolStart => h \in DOMAIN new /\ new[h].addr = PoolStart
<1> DEFINE n == MergePrev(p, x)
<1>1. MergeKeeps(n, p, x) /\ UsedBefore(n, x)
  BY PrevMerged
<1> HIDE DEF n
<1>2. m = MergeNext(n, x)
  BY DEF n
<1>3. MergeKeeps(m, n, x) /\ UsedBefore(m, x) /\ UsedAfter(m, x) /\ m[x].prev = n[x].prev
  <2>1. Linked(n) /\ NoFreePair(n) /\ x \in DOMAIN n /\ n[x].used
    BY <1>1 DEF MergeKeeps
  <2> QED BY <1>1, <1>2, <2>1, NextMerged
<1>4. /\ Linked(m) /\ NoFreePair(m) /\ x \in DOMAIN m /\ DOMAIN m \subseteq DOMAIN p
      /\ \A y \in DOMAIN m \ {x} :
           m[y].addr = p[y].addr /\ m[y].size = p[y].size /\ m[y].used = p[y].used
      /\ \A y \in DOMAIN p : p[y].used => y \in DOMAIN m
  BY <1>1, <1>3 DEF MergeKeeps
<1>5. End(p, x) <= End(m, x)
  <2>1. End(p, x) <= End(n, x) /\ End(n, x) <= End(m, x) /\ Linked(n) /\ x \in DOMAIN n
    BY <1>1, <1>3 DEF MergeKeeps
  <2>2. End(p, x) \in Nat /\ End(n, x) \in Nat /\ End(m, x) \in Nat
    BY <1>4, <2>1, PacketFacts
  <2> QED BY <2>1, <2>2
<1>6. /\ Linked(new) /\ NoFreePair(new) /\ DOMAIN new = DOMAIN m /\ ~new[x].used
      /\ End(new, x) = End(m, x) /\ new[x].addr = m[x].addr
      /\ \A y \in DOMAIN m \ {x} :
           new[y].addr = m[y].addr /\ new[y].size = m[y].size /\ new[y].used = m[y].used
  BY <1>3, <1>4, UnusedLinked
<1>7. m[x].prev = NULL => new[x].addr = PoolStart
  BY <1>4, <1>6, FirstHasNoPrev
<1>8. ASSUME m[x].prev # NULL, NEW h \in DOMAIN p, p[h].addr = PoolStart
      PROVE  h \in DOMAIN new /\ new[h].addr = PoolStart
  <2>1. h \in DOMAIN n \ {x}
    BY <1>1, <1>3, <1>8 DEF MergeKeeps
  <2>2. n[h].addr = PoolStart
    BY <1>1, <1>8, <2>1 DEF MergeKeeps
  <2>3. h \in DOMAIN m \ {x}
    BY <1>3, <1>8, <2>1, <2>2 DEF MergeKeeps
  <2> QED BY <1>4, <1>6, <1>8, <2>3
<1> QED BY <1>4, <1>5, <1>6, <1>7, <1>8

(* The merged list, before x is marked as free.                             *)
LEMMA MergedLinked ==
  ASSUME NEW p, Linked(p), NoFreePair(p), NEW x \in DOMAIN p, p[x].used
  PROVE  /\ Linked(MergeNext(MergePrev(p, x), x))
         /\ x \in DOMAIN MergeNext(MergePrev(p, x), x)
<1> DEFINE n == MergePrev(p, x)
<1>1. MergeKeeps(n, p, x) /\ UsedBefore(n, x)
  BY PrevMerged
<1> HIDE DEF n
<1>2. Linked(n) /\ NoFreePair(n) /\ x \in DOMAIN n /\ n[x].used
  BY <1>1 DEF MergeKeeps
<1>3. MergeKeeps(MergeNext(n, x), n, x)
  BY <1>1, <1>2, NextMerged
<1> QED BY <1>3 DEF MergeKeeps, n

-----------------------------------------------------------------------------
(* A block that is handed out from a free packet.                          *)
LEMMA GrantHeld ==
  ASSUME NEW p, Linked(p), NEW h, HeldBy(p, h),
         NEW x \in DOMAIN p, ~p[x].used, NEW size \in Nat \ {0},
         NEW new, DOMAIN p \subseteq DOMAIN new,
         \A y \in DOMAIN p : y # x => new[y] = p[y],
         new[x].addr = p[x].addr, new[x].size = size, new[x].used,
         \A y \in DOMAIN new \ DOMAIN p : ~new[y].used,
         NEW b, b = [addr |-> p[x].addr, size |-> size]
  PROVE  HeldBy(new, Append(h, b))
<1> DEFINE r == Append(h, b)
           n == Len(h)
<1>1. h \in Seq(Block) /\ b \in Block /\ b.addr = p[x].addr /\ b.size = size
  BY PacketFacts DEF HeldBy, Block
<1>2. n \in Nat /\ DOMAIN h = 1 .. n
  BY <1>1, LenProperties
<1>3. /\ r \in Seq(Block) /\ Len(r) = n + 1
      /\ \A i \in 1 .. n : r[i] = h[i]
      /\ r[n + 1] = b
  BY <1>1, AppendProperties
<1> HIDE DEF r
<1>4. DOMAIN r = 1 .. n + 1
  BY <1>3, LenProperties
<1> HIDE DEF n
<1>5. \A i \in DOMAIN r : i = n + 1 \/ i \in DOMAIN h
  BY <1>2, <1>4
<1>6. \A i \in DOMAIN h : i \in DOMAIN r /\ r[i] = h[i] /\ i < n + 1
  BY <1>2, <1>3, <1>4
<1>7. n + 1 \in DOMAIN r /\ r[n + 1] = b
  BY <1>2, <1>3, <1>4
<1>9. ASSUME NEW i \in DOMAIN h
      PROVE  h[i].addr # b.addr /\ \E z \in DOMAIN p : z # x /\ Holds(p, z, h[i])
  <2>1. PICK z \in DOMAIN p : Holds(p, z, h[i])
    BY DEF HeldBy
  <2>2. z # x /\ h[i].addr = p[z].addr
    BY <2>1 DEF Holds
  <2>3. p[z].addr # p[x].addr
    BY <2>2, OneAtAddress
  <2> QED BY <1>1, <2>1, <2>2, <2>3
<1>10. ASSUME NEW i \in DOMAIN r PROVE \E y \in DOMAIN new : Holds(new, y, r[i])
  <2>1. CASE i = n + 1
    <3>1. x \in DOMAIN new /\ Holds(new, x, r[i])
      BY <1>1, <1>7, <2>1 DEF Holds
    <3> QED BY <3>1
  <2>2. CASE i \in DOMAIN h
    <3>1. PICK z \in DOMAIN p : z # x /\ Holds(p, z, h[i])
      BY <1>9, <2>2
    <3>2. z \in DOMAIN new /\ Holds(new, z, r[i])
      BY <1>6, <2>2, <3>1 DEF Holds
    <3> QED BY <3>2
  <2> QED BY <1>5, <2>1, <2>2
<1>11. ASSUME NEW y \in DOMAIN new, new[y].used PROVE \E i \in DOMAIN r : Holds(new, y, r[i])
  <2>1. y \in DOMAIN p
    BY <1>11
  <2>2. CASE y = x
    <3>1. Holds(new, y, r[n + 1])
      BY <1>1, <1>7, <2>2 DEF Holds
    <3> QED BY <1>7, <3>1
  <2>3. CASE y # x
    <3>1. new[y] = p[y] /\ p[y].used
      BY <1>11, <2>1, <2>3
    <3>2. PICK i \in DOMAIN h : Holds(p, y, h[i])
      BY <2>1, <3>1 DEF HeldBy
    <3>3. i \in DOMAIN r /\ Holds(new, y, r[i])
      BY <1>6, <3>1, <3>2 DEF Holds
    <3> QED BY <3>3
  <2> QED BY <2>2, <2>3
<1>12. \A i, j \in DOMAIN r : r[i].addr = r[j].addr => i = j
  <2>1. ASSUME NEW i \in DOMAIN r, NEW j \in DOMAIN r, r[i].addr = r[j].addr PROVE i = j
    <3>1. CASE i = n + 1 \/ j = n + 1
      BY <1>5, <1>6, <1>7, <1>9, <2>1, <3>1
    <3>2. CASE i \in DOMAIN h /\ j \in DOMAIN h
      BY <1>6, <2>1, <3>2 DEF HeldBy
    <3> QED BY <1>5, <3>1, <3>2
  <2> QED BY <2>1
<1> QED BY <1>3, <1>10, <1>11, <1>12 DEF HeldBy, r

(* Block i is given back: its packet is free, the others are as they were.  *)
LEMMA ReleaseHeld ==
  ASSUME NEW p, Linked(p), NEW h, HeldBy(p, h), NEW i \in DOMAIN h,
         NEW x \in DOMAIN p, Holds(p, x, h[i]),
         NEW new, DOMAIN new \subseteq DOMAIN p,
         x \in DOMAIN new, ~new[x].used,
         \A y \in DOMAIN new \ {x} :
           new[y].addr = p[y].addr /\ new[y].size = p[y].size /\ new[y].used = p[y].used,
         \A y \in DOMAIN p : p[y].used => y \in DOMAIN new
  PROVE  HeldBy(new, RemoveAt(h, i))
<1> DEFINE r == RemoveAt(h, i)
           n == Len(h)
<1>1. h \in Seq(Block) /\ n \in Nat /\ DOMAIN h = 1 .. n
  BY LenProperties DEF HeldBy
<1>2. /\ r \in Seq(Block) /\ Len(r) = n - 1
      /\ \A a \in 1 .. n - 1 : Earlier(a, i) \in 1 .. n /\ Earlier(a, i) # i
                               /\ r[a] = h[Earlier(a, i)]
  BY <1>1, RemoveAtEntries
<1>3. DOMAIN r = 1 .. n - 1
  BY <1>2, LenProperties
<1> HIDE DEF r, n
<1>4. ASSUME NEW j \in DOMAIN h, j # i PROVE \E a \in DOMAIN r : Earlier(a, i) = j
  <2> DEFINE a == IF j < i THEN j ELSE j - 1
  <2>1. a \in DOMAIN r /\ Earlier(a, i) = j
    BY <1>1, <1>3, <1>4 DEF Earlier
  <2> QED BY <2>1
<1>5. \A a, c \in DOMAIN r : Earlier(a, i) = Earlier(c, i) => a = c
  BY <1>1, <1>3 DEF Earlier
<1>6. \A a \in DOMAIN r : Earlier(a, i) \in DOMAIN h /\ Earlier(a, i) # i /\ r[a] = h[Earlier(a, i)]
  BY <1>1, <1>2, <1>3
<1>7. ASSUME NEW a \in DOMAIN r
      PROVE  \E y \in DOMAIN new : y # x /\ Holds(new, y, r[a])
  <2> DEFINE j == Earlier(a, i)
  <2>1. j \in DOMAIN h /\ j # i /\ r[a] = h[j]
    BY <1>6
  <2>2. PICK y \in DOMAIN p : Holds(p, y, h[j])
    BY <2>1 DEF HeldBy
  <2> HIDE DEF j
  <2>3. y # x
    BY <2>1, <2>2 DEF Holds, HeldBy
  <2>4. y \in DOMAIN new /\ Holds(new, y, r[a])
    BY <2>1, <2>2, <2>3 DEF Holds
  <2> QED BY <2>3, <2>4
<1>8. ASSUME NEW y \in DOMAIN new, new[y].used
      PROVE  \E a \in DOMAIN r : Holds(new, y, r[a]) /\ Holds(p, y, h[Earlier(a, i)])
  <2>1. y # x /\ y \in DOMAIN p /\ p[y].used
    BY <1>8
  <2>2. PICK j \in DOMAIN h : Holds(p, y, h[j])
    BY <2>1 DEF HeldBy
  <2>3. j # i
    <3>1. p[x].addr # p[y].addr
      BY <2>1, OneAtAddress
    <3> QED BY <2>2, <3>1 DEF Holds
  <2>4. PICK a \in DOMAIN r : Earlier(a, i) = j
    BY <1>4, <2>3
  <2>5. Holds(new, y, r[a])
    BY <1>6, <2>1, <2>2, <2>4 DEF Holds
  <2> QED BY <2>2, <2>4, <2>5
<1>9. \A a, c \in DOMAIN r : r[a].addr = r[c].addr => a = c
  BY <1>5, <1>6 DEF HeldBy
<1> QED BY <1>2, <1>7, <1>8, <1>9 DEF HeldBy, r

-----------------------------------------------------------------------------
(* The pool as it is handed to DLTMM_init: one free packet.                 *)
LEMMA MemoryInit == Init => MemoryInv
<1> SUFFICES ASSUME Init PROVE MemoryInv
  OBVIOUS
<1>1. /\ DOMAIN packet = {1} /\ 1 \in Name /\ 1 # NULL
      /\ packet[1] = [addr |-> PoolStart, size |-> PoolSize, prev |-> NULL, next |-> NULL,
                      used |-> FALSE]
      /\ trg_mem_head = 1 /\ held = << >> /\ unloading = FALSE /\ intact = TRUE
  BY TargetMemoryAssumption DEF Init, Name, NULL
<1>2. packet[1] \in Packet /\ PoolStart <= packet[1].addr /\ End(packet, 1) = PoolEnd
  BY <1>1, TargetMemoryAssumption DEF Packet, End, PoolEnd
<1>3. /\ End(packet, 1) <= PoolEnd /\ packet[1].addr = PoolStart
      /\ packet[1].prev = NULL /\ packet[1].next = NULL /\ ~packet[1].used
      /\ \A x \in DOMAIN packet : x = 1
  BY <1>1, <1>2, Names
<1>4. Linked(packet)
  <2>1. PacketsOK(packet)
    BY <1>1, <1>2, <1>3 DEF PacketsOK
  <2>2. NextOK(packet)
    BY <1>2, <1>3 DEF NextOK
  <2>3. PrevOK(packet)
    BY <1>3 DEF PrevOK
  <2>4. PacketsApart(packet)
    BY <1>3 DEF PacketsApart
  <2> QED BY <2>1, <2>2, <2>3, <2>4 DEF Linked
<1>5. NoFreePair(packet) /\ HeadFirst
  BY <1>1, <1>3 DEF NoFreePair, HeadFirst
<1>6. HeldInv
  BY <1>1 DEF HeldInv, HeldBy
<1>7. TypeOK
  <2>1. packet[1] \in [addr : Nat, size : Nat, prev : Name \cup {NULL}, next : Name \cup {NULL},
                       used : BOOLEAN]
    BY <1>2 DEF Packet
  <2>2. \A x \in DOMAIN packet : packet[x] = packet[1]
    BY <1>3
  <2>3. held \in Seq([addr : Nat, size : Nat])
    BY <1>1
  <2>4. intact = TRUE
    BY DEF Init
  <2> QED BY <1>1, <2>1, <2>2, <2>3, <2>4 DEF TypeOK
<1> QED BY <1>4, <1>5, <1>6, <1>7 DEF MemoryInv, Whole

(* A request is met from x, a free packet, and every neighbor is told.      *)
Grants(x, size) ==
  /\ x \in DOMAIN packet /\ ~packet[x].used /\ size <= packet[x].size
  /\ packet[x].size > size => packet[x].next = NULL
  /\ packet' = SplitTail(packet, x, size)
  /\ held' = Append(held, [addr |-> packet[x].addr, size |-> size])
  /\ UNCHANGED << trg_mem_head, unloading >>

(* A request for any address that leaves the list intact took no padding.   *)
LEMMA AllocateGrants ==
  ASSUME MemoryInv, NEW size \in Sizes, NEW align \in Aligns, Allocate(size, align), intact'
  PROVE  /\ HasFresh /\ ~unloading /\ size \in Nat \ {0} /\ intact
         /\ \E x \in DOMAIN packet : Grants(x, size)
<1>1. PICK i \in DOMAIN List :
        /\ BestFit(i, size, align)
        /\ \E used \in (IF Pad(List[i], align) = 0 THEN {FALSE} ELSE BOOLEAN) :
             packet' = SplitTail(SplitFront(packet, List[i], Pad(List[i], align),
                                            Pad(List[i], align), used), List[i], size)
        /\ held' = Append(held, [addr |-> packet[List[i]].addr + Pad(List[i], align),
                                 size |-> size])
        /\ intact' = (intact /\ TellsAll(List[i], Pad(List[i], align), size))
  BY DEF Allocate
<1> DEFINE x == List[i]
<1>2. HasFresh /\ ~unloading /\ size \in Nat \ {0} /\ intact /\ Whole
  BY <1>1, TargetMemoryAssumption DEF Allocate, MayAllocate, MemoryInv
<1>3. Linked(packet) /\ x \in DOMAIN packet
  BY <1>2, ListEntries DEF Whole
<1>4. Fits(x, size, align)
  BY <1>1 DEF BestFit
<1> HIDE DEF x
<1>5. packet[x].addr \in Nat /\ packet[x].size \in Nat
  BY <1>3, PacketFacts
<1>6. Pad(x, align) = 0 /\ (packet[x].size > size => packet[x].next = NULL)
  BY <1>1 DEF TellsAll, x
<1>7. ~packet[x].used /\ size <= packet[x].size
  BY <1>2, <1>4, <1>5, <1>6 DEF Fits
<1>8. packet' = SplitTail(packet, x, size)
  BY <1>1, <1>6 DEF SplitFront, x
<1>9. held' = Append(held, [addr |-> packet[x].addr, size |-> size])
  BY <1>1, <1>5, <1>6 DEF x
<1>10. UNCHANGED << trg_mem_head, unloading >>
  BY DEF Allocate
<1> QED BY <1>2, <1>3, <1>6, <1>7, <1>8, <1>9, <1>10 DEF Grants

(* A request for one address that does so was for the start of a free       *)
(* packet.                                                                 *)
LEMMA AllocateAtGrants ==
  ASSUME MemoryInv, NEW size \in Sizes, NEW align \in Aligns, NEW addr \in Addresses,
         AllocateAt(addr, size, align), intact'
  PROVE  /\ HasFresh /\ ~unloading /\ size \in Nat \ {0} /\ intact
         /\ \E x \in DOMAIN packet : Grants(x, size)
<1>1. PICK i \in DOMAIN List :
        /\ packet[List[i]].size >= size
        /\ packet' = SplitTail(SplitFront(packet, List[i], addr - packet[List[i]].addr, 0, FALSE),
                               List[i], size)
        /\ intact' = (intact /\ ~packet[List[i]].used
                      /\ TellsAll(List[i], addr - packet[List[i]].addr, size))
  BY DEF AllocateAt
<1> DEFINE x == List[i]
<1>2. HasFresh /\ ~unloading /\ size \in Nat \ {0} /\ addr \in Nat /\ intact /\ Whole
  BY <1>1, TargetMemoryAssumption DEF AllocateAt, MayAllocate, MemoryInv
<1>3. Linked(packet) /\ x \in DOMAIN packet
  BY <1>2, ListEntries DEF Whole
<1> HIDE DEF x
<1>4. packet[x].addr \in Nat /\ packet[x].size \in Nat
  BY <1>3, PacketFacts
<1>5. /\ addr - packet[x].addr = 0 /\ (packet[x].size > size => packet[x].next = NULL)
      /\ ~packet[x].used
  BY <1>1 DEF TellsAll, x
<1>6. packet[x].addr = addr /\ size <= packet[x].size
  BY <1>1, <1>2, <1>4, <1>5 DEF x
<1>7. packet' = SplitTail(packet, x, size)
  BY <1>1, <1>5 DEF SplitFront, x
<1>8. held' = Append(held, [addr |-> packet[x].addr, size |-> size])
  BY <1>6 DEF AllocateAt
<1>9. UNCHANGED << trg_mem_head, unloading >>
  BY DEF AllocateAt
<1> QED BY <1>2, <1>3, <1>5, <1>6, <1>7, <1>8, <1>9 DEF Grants

(* A request that is met so keeps the list whole.                          *)
LEMMA GrantStep ==
  ASSUME Whole, HasFresh, NEW x \in DOMAIN packet, NEW size \in Nat \ {0}, Grants(x, size)
  PROVE  Whole'
<1> DEFINE b == [addr |-> packet[x].addr, size |-> size]
<1>1. /\ Linked(packet) /\ NoFreePair(packet) /\ HeadFirst /\ HeldBy(packet, held)
      /\ ~packet[x].used /\ size <= packet[x].size
      /\ packet[x].size > size => packet[x].next = NULL
      /\ held' = Append(held, b) /\ trg_mem_head' = trg_mem_head
  BY DEF Whole, HeldInv, Grants
<1>2. PICK new : new = packet'
  OBVIOUS
<1>3. new = SplitTail(packet, x, size)
  BY <1>2 DEF Grants
<1>4. /\ Linked(new) /\ NoFreePair(new) /\ DOMAIN packet \subseteq DOMAIN new
      /\ \A y \in DOMAIN packet : y # x => new[y] = packet[y]
      /\ new[x].addr = packet[x].addr /\ new[x].size = size /\ new[x].used
      /\ \A y \in DOMAIN new \ DOMAIN packet : ~new[y].used
  BY <1>1, <1>3, SplitLinked
<1>5. HeldBy(new, Append(held, b))
  BY <1>1, <1>4, GrantHeld
<1>6. trg_mem_head \in DOMAIN new /\ new[trg_mem_head].addr = PoolStart
  BY <1>1, <1>4 DEF HeadFirst
<1> HIDE DEF b
<1>7. HeadFirst'
  BY <1>1, <1>2, <1>6 DEF HeadFirst
<1>8. HeldInv'
  BY <1>1, <1>2, <1>5 DEF HeldInv
<1> QED BY <1>2, <1>4, <1>7, <1>8 DEF Whole

(* Freeing a block keeps it whole.                                         *)
LEMMA ReleaseStep ==
  ASSUME Whole, NEW i \in DOMAIN held, Release(i)
  PROVE  Whole'
<1>1. Linked(packet) /\ NoFreePair(packet) /\ HeadFirst /\ HeldInv /\ HeldBy(packet, held)
  BY DEF Whole, HeldInv
<1>2. PICK k \in DOMAIN List :
        LET x == List[k]
            merged == MergeNext(MergePrev(packet, x), x)
        IN  /\ Found(held[i].addr, k)
            /\ packet' = [merged EXCEPT ![x].used = FALSE]
            /\ trg_mem_head' = HeadAfter(merged, x)
  BY DEF Release
<1> DEFINE x == List[k]
           m == MergeNext(MergePrev(packet, x), x)
<1>3. Holds(packet, x, held[i]) /\ x \in DOMAIN packet
  BY <1>1, <1>2, FoundHolds
<1>4. packet[x].used
  BY <1>3 DEF Holds
<1>5. /\ packet' = [m EXCEPT ![x].used = FALSE]
      /\ trg_mem_head' = IF m[x].prev = NULL THEN x ELSE trg_mem_head
  BY <1>2 DEF HeadAfter
<1> HIDE DEF x
<1>6. Linked(m) /\ x \in DOMAIN m
  BY <1>1, <1>3, <1>4, MergedLinked
<1>7. PICK new : new = packet'
  OBVIOUS
<1>8. Unused(new, m, x)
  BY <1>5, <1>6, <1>7, UnusedMade
<1>9. /\ Linked(new) /\ NoFreePair(new)
      /\ DOMAIN new \subseteq DOMAIN packet /\ x \in DOMAIN new /\ ~new[x].used
      /\ \A y \in DOMAIN new \ {x} :
           /\ new[y].addr = packet[y].addr /\ new[y].size = packet[y].size
           /\ new[y].used = packet[y].used
      /\ \A y \in DOMAIN packet : packet[y].used => y \in DOMAIN new
      /\ m[x].prev = NULL => new[x].addr = PoolStart
      /\ m[x].prev # NULL => \A h \in DOMAIN packet :
           packet[h].addr = PoolStart => h \in DOMAIN new /\ new[h].addr = PoolStart
  BY <1>1, <1>3, <1>4, <1>8, Freed
<1> HIDE DEF m
<1>10. HeldBy(new, RemoveAt(held, i))
  BY <1>1, <1>3, <1>9, ReleaseHeld
<1>11. held' = RemoveAt(held, i)
  BY DEF Release
<1>12. HeadFirst'
  <2>1. CASE m[x].prev = NULL
    BY <1>5, <1>7, <1>9, <2>1 DEF HeadFirst
  <2>2. CASE m[x].prev # NULL
    BY <1>1, <1>5, <1>7, <1>9, <2>2 DEF HeadFirst
  <2> QED BY <2>1, <2>2
<1>13. HeldInv'
  BY <1>7, <1>10, <1>11 DEF HeldInv
<1> QED BY <1>7, <1>9, <1>12, <1>13 DEF Whole

-----------------------------------------------------------------------------
(* What a packet is, its links up to date or not.                          *)
Record == [addr : Nat, size : Nat, prev : Name \cup {NULL}, next : Name \cup {NULL},
           used : BOOLEAN]

(* Packets of the right type.                                              *)
Typed(p) == DOMAIN p \subseteq Name /\ \A x \in DOMAIN p : p[x] \in Record

(* The next multiple of n.                                                 *)
LEMMA Aligned ==
  ASSUME NEW addr \in Nat, NEW n \in Nat \ {0}
  PROVE  /\ trg_align(addr, n) \in Nat /\ addr <= trg_align(addr, n)
         /\ \A k \in Nat : addr <= n * k => trg_align(addr, n) <= n * k
<1> DEFINE q == (addr + n - 1) \div n
           r == (addr + n - 1) % n
<1>1. q \in Nat /\ r \in 0 .. n - 1 /\ addr + n - 1 = n * q + r
  OBVIOUS
<1> HIDE DEF q, r
<1>2. q * n = n * q /\ n * q \in Nat
  BY <1>1
<1>3. addr <= n * q
  BY <1>1, <1>2
<1>4. ASSUME NEW k \in Nat, addr <= n * k PROVE n * q <= n * k
  <2>1. ASSUME k + 1 <= q PROVE FALSE
    <3>1. n * (k + 1) <= n * q
      BY <1>1, <2>1
    <3>2. n * (k + 1) = n * k + n /\ n * k \in Nat
      OBVIOUS
    <3> QED BY <1>1, <1>2, <1>4, <3>1, <3>2
  <2>2. q <= k
    BY <1>1, <2>1
  <2> QED BY <1>1, <2>2
<1> QED BY <1>2, <1>3, <1>4 DEF trg_align, q

(* Cutting off a front keeps the types, and leaves a name for the tail.     *)
LEMMA SplitFrontTyped ==
  ASSUME Typed(packet), HasFresh, NEW x \in DOMAIN packet, NEW front \in Nat, NEW lost \in Nat,
         lost <= packet[x].size, NEW used \in BOOLEAN,
         NEW q, q = SplitFront(packet, x, front, lost, used)
  PROVE  Typed(q) /\ Unnamed(q) # {} /\ x \in DOMAIN q
<1> DEFINE f == Fresh(packet)
<1>1. f \in Name /\ f \notin DOMAIN packet /\ f \in Unnamed(packet)
  BY FreshName
<1>2. PICK g \in Unnamed(packet) : g # f
  BY FreshName
<1>3. x \in Name /\ packet[x] \in Record /\ packet[x].addr \in Nat /\ packet[x].size \in Nat
      /\ packet[x].prev \in Name \cup {NULL} /\ packet[x].next \in Name \cup {NULL}
  BY DEF Typed, Record
<1>4. CASE front = 0
  BY <1>1, <1>4 DEF SplitFront
<1>5. CASE front # 0
  <2> DEFINE cut == [packet EXCEPT ![x].addr = @ + front, ![x].size = @ - lost, ![x].prev = f]
             rec == [addr |-> packet[x].addr, size |-> front, prev |-> packet[x].prev, next |-> x,
                     used |-> used]
  <2>1. q = Added(cut, f, rec)
    BY <1>5 DEF SplitFront
  <2>2. /\ DOMAIN cut = DOMAIN packet
        /\ \A y \in DOMAIN packet : y # x => cut[y] = packet[y]
        /\ cut[x] = [addr |-> packet[x].addr + front, size |-> packet[x].size - lost, prev |-> f,
                     next |-> packet[x].next, used |-> packet[x].used]
    BY <1>3 DEF Record
  <2>3. rec \in Record /\ rec.prev = packet[x].prev /\ rec.next = x
    BY <1>3 DEF Record
  <2>4. cut[x] \in Record /\ cut[x].prev = f /\ cut[x].next = packet[x].next
    <3>1. packet[x].addr + front \in Nat /\ packet[x].size - lost \in Nat
      BY <1>3
    <3>2. packet[x].used \in BOOLEAN
      BY <1>3 DEF Record
    <3> QED BY <1>1, <1>3, <2>2, <3>1, <3>2 DEF Record
  <2> HIDE DEF f, cut, rec
  <2>5. /\ DOMAIN q = DOMAIN packet \cup {f} /\ q[f] = rec
        /\ \A y \in DOMAIN packet : q[y] = cut[y]
    BY <1>1, <2>1, <2>2 DEF Added
  <2>6. Typed(q)
    <3>1. ASSUME NEW y \in DOMAIN q PROVE y \in Name /\ q[y] \in Record
      <4>1. CASE y = f
        BY <1>1, <2>3, <2>5, <4>1
      <4>2. CASE y = x
        BY <1>3, <2>4, <2>5, <4>2
      <4>3. CASE y # f /\ y # x
        BY <2>2, <2>5, <4>3 DEF Typed
      <4> QED BY <4>1, <4>2, <4>3
    <3> QED BY <3>1 DEF Typed
  <2>7. g \in Unnamed(q)
    <3>1. /\ g \in Name /\ g \notin DOMAIN packet
          /\ \A y \in DOMAIN packet : g # packet[y].prev /\ g # packet[y].next
      BY <1>2 DEF Unnamed
    <3>2. g \notin DOMAIN q
      BY <1>2, <2>5, <3>1
    <3>3. ASSUME NEW y \in DOMAIN q PROVE g # q[y].prev /\ g # q[y].next
      <4>1. CASE y = f
        BY <2>3, <2>5, <3>1, <4>1
      <4>2. CASE y = x
        BY <1>2, <2>4, <2>5, <3>1, <4>2
      <4>3. CASE y # f /\ y # x
        BY <2>2, <2>5, <3>1, <4>3
      <4> QED BY <4>1, <4>2, <4>3
    <3> QED BY <3>1, <3>2, <3>3 DEF Unnamed
  <2> QED BY <2>5, <2>6, <2>7
<1> QED BY <1>4, <1>5

(* So does cutting off a tail.                                             *)
LEMMA SplitTailTyped ==
  ASSUME NEW p, Typed(p), Unnamed(p) # {}, NEW x \in DOMAIN p, NEW size \in Nat
  PROVE  Typed(SplitTail(p, x, size))
<1> DEFINE f == Fresh(p)
           taken == [p EXCEPT ![x].size = size, ![x].used = TRUE]
           rec == [addr |-> p[x].addr + size, size |-> p[x].size - size, prev |-> x,
                   next |-> p[x].next, used |-> FALSE]
           new == SplitTail(p, x, size)
<1>1. f \in Name /\ f \notin DOMAIN p
  BY FreshOf DEF Unnamed
<1>2. x \in Name /\ p[x] \in Record /\ p[x].addr \in Nat /\ p[x].size \in Nat
      /\ p[x].prev \in Name \cup {NULL} /\ p[x].next \in Name \cup {NULL}
  BY DEF Typed, Record
<1>3. /\ DOMAIN taken = DOMAIN p
      /\ \A y \in DOMAIN p : y # x => taken[y] = p[y]
      /\ taken[x] = [addr |-> p[x].addr, size |-> size, prev |-> p[x].prev, next |-> p[x].next,
                     used |-> TRUE]
  BY <1>2 DEF Record
<1>4. taken[x] \in Record
  BY <1>2, <1>3 DEF Record
<1>5. CASE ~(p[x].size > size)
  <2>1. new = taken
    BY <1>5 DEF SplitTail
  <2> QED BY <1>3, <1>4, <2>1 DEF Typed
<1>6. CASE p[x].size > size
  <2> DEFINE linked == [taken EXCEPT ![x].next = f]
  <2>1. new = Added(linked, f, rec)
    BY <1>6 DEF SplitTail
  <2>2. rec \in Record
    <3>1. p[x].addr + size \in Nat /\ p[x].size - size \in Nat
      BY <1>2, <1>6
    <3> QED BY <1>2, <3>1 DEF Record
  <2>3. /\ DOMAIN linked = DOMAIN p
        /\ \A y \in DOMAIN p : y # x => linked[y] = p[y]
        /\ linked[x] = [addr |-> p[x].addr, size |-> size, prev |-> p[x].prev, next |-> f,
                        used |-> TRUE]
    BY <1>3
  <2>4. linked[x] \in Record
    BY <1>1, <1>2, <2>3 DEF Record
  <2> HIDE DEF f, linked, rec
  <2>5. /\ DOMAIN new = DOMAIN p \cup {f} /\ new[f] = rec
        /\ \A y \in DOMAIN p : new[y] = linked[y]
    BY <1>1, <2>1, <2>3 DEF Added
  <2>6. ASSUME NEW y \in DOMAIN new PROVE y \in Name /\ new[y] \in Record
    BY <1>1, <1>2, <2>2, <2>3, <2>4, <2>5 DEF Typed
  <2> QED BY <2>6 DEF Typed
<1> QED BY <1>5, <1>6

(* A packet that is merged with the free one before it.                     *)
LEMMA MergePrevTyped ==
  ASSUME NEW p, Typed(p), NEW x \in DOMAIN p, p[x].used,
         Mergeable(p, p[x].prev) => p[x].prev \in DOMAIN p,
         NEW n, n = MergePrev(p, x)
  PROVE  /\ Typed(n) /\ x \in DOMAIN n /\ n[x].used
         /\ DOMAIN n = IF Mergeable(p, p[x].prev) THEN DOMAIN p \ {p[x].prev} ELSE DOMAIN p
         /\ n[x].next \in {p[x].next, x}
<1> DEFINE q == p[x].prev
           b == p[q].prev
           joined == [p EXCEPT ![x].addr = p[q].addr, ![x].size = @ + p[q].size, ![x].prev = b]
           linked == IF b = NULL THEN joined ELSE [joined EXCEPT ![b].next = x]
<1>1. CASE ~Mergeable(p, q)
  BY <1>1 DEF MergePrev
<1>2. CASE Mergeable(p, q)
  <2>1. q \in DOMAIN p /\ q # x /\ ~p[q].used
    BY <1>2 DEF Mergeable
  <2>2. n = Restrict(linked, DOMAIN p \ {q})
    BY <1>2 DEF MergePrev
  <2>3. /\ p[x] \in Record /\ p[q] \in Record /\ x \in Name
        /\ p[x].addr \in Nat /\ p[x].size \in Nat /\ p[q].addr \in Nat /\ p[q].size \in Nat
        /\ b \in Name \cup {NULL}
    BY <2>1 DEF Typed, Record
  <2>4. /\ DOMAIN joined = DOMAIN p
        /\ \A y \in DOMAIN p : y # x => joined[y] = p[y]
        /\ joined[x] = [addr |-> p[q].addr, size |-> p[x].size + p[q].size, prev |-> b,
                        next |-> p[x].next, used |-> p[x].used]
    BY <2>3 DEF Record
  <2>5. joined[x] \in Record
    <3>1. p[x].next \in Name \cup {NULL} /\ p[x].used \in BOOLEAN
      BY <2>3 DEF Record
    <3>2. p[x].size + p[q].size \in Nat
      BY <2>3
    <3> HIDE DEF b, joined
    <3> QED BY <2>3, <2>4, <3>1, <3>2 DEF Record
  <2> HIDE DEF joined
  <2>6. ASSUME NEW y \in DOMAIN p PROVE joined[y] \in Record
    BY <2>4, <2>5 DEF Typed
  <2>7. /\ DOMAIN linked = DOMAIN p
        /\ \A y \in DOMAIN p : linked[y] = joined[y]
                               \/ linked[y] = [joined[y] EXCEPT !.next = x]
    BY <2>4
  <2> HIDE DEF linked
  <2>8. ASSUME NEW y \in DOMAIN p PROVE linked[y] \in Record
    BY <2>3, <2>6, <2>7 DEF Record
  <2>9. linked[x].used /\ linked[x].next \in {p[x].next, x}
    BY <2>3, <2>4, <2>6, <2>7 DEF Record
  <2>10. /\ DOMAIN n = DOMAIN p \ {q}
         /\ \A y \in DOMAIN p \ {q} : n[y] = linked[y]
    BY <2>2 DEF Restrict
  <2>11. Typed(n)
    BY <2>8, <2>10 DEF Typed
  <2> QED BY <1>2, <2>1, <2>9, <2>10, <2>11
<1> QED BY <1>1, <1>2

(* And with the free one after it.                                         *)
LEMMA MergeNextTyped ==
  ASSUME NEW p, Typed(p), NEW x \in DOMAIN p, p[x].used,
         Mergeable(p, p[x].next) => p[x].next \in DOMAIN p,
         NEW n, n = MergeNext(p, x)
  PROVE  Typed(n) /\ x \in DOMAIN n
<1> DEFINE q == p[x].next
           a == p[q].next
           joined == [p EXCEPT ![x].size = @ + p[q].size, ![x].next = a]
           linked == IF a = NULL THEN joined ELSE [joined EXCEPT ![a].prev = x]
<1>1. CASE ~Mergeable(p, q)
  BY <1>1 DEF MergeNext
<1>2. CASE Mergeable(p, q)
  <2>1. q \in DOMAIN p /\ q # x /\ ~p[q].used
    BY <1>2 DEF Mergeable
  <2>2. n = Restrict(linked, DOMAIN p \ {q})
    BY <1>2 DEF MergeNext
  <2>3. /\ p[x] \in Record /\ p[q] \in Record /\ x \in Name
        /\ p[x].size \in Nat /\ p[q].size \in Nat /\ a \in Name \cup {NULL}
    BY <2>1 DEF Typed, Record
  <2>4. /\ DOMAIN joined = DOMAIN p
        /\ \A y \in DOMAIN p : y # x => joined[y] = p[y]
        /\ joined[x] = [addr |-> p[x].addr, size |-> p[x].size + p[q].size, prev |-> p[x].prev,
                        next |-> a, used |-> p[x].used]
    BY <2>3 DEF Record
  <2>5. joined[x] \in Record
    <3>1. p[x].prev \in Name \cup {NULL} /\ p[x].used \in BOOLEAN
      BY <2>3 DEF Record
    <3>2. p[x].size + p[q].size \in Nat
      BY <2>3
    <3> HIDE DEF a, joined
    <3> QED BY <2>3, <2>4, <3>1, <3>2 DEF Record
  <2> HIDE DEF joined
  <2>6. ASSUME NEW y \in DOMAIN p PROVE joined[y] \in Record
    BY <2>4, <2>5 DEF Typed
  <2>7. /\ DOMAIN linked = DOMAIN p
        /\ \A y \in DOMAIN p : linked[y] = joined[y]
                               \/ linked[y] = [joined[y] EXCEPT !.prev = x]
    BY <2>4
  <2> HIDE DEF linked
  <2>8. ASSUME NEW y \in DOMAIN p PROVE linked[y] \in Record
    BY <2>3, <2>6, <2>7 DEF Record
  <2>9. /\ DOMAIN n = DOMAIN p \ {q}
        /\ \A y \in DOMAIN p \ {q} : n[y] = linked[y]
    BY <2>2 DEF Restrict
  <2>10. Typed(n)
    BY <2>8, <2>9 DEF Typed
  <2> QED BY <2>1, <2>9, <2>10
<1> QED BY <1>1, <1>2

(* Every walk that ends well leads through packets.                        *)
LEMMA ListInPackets ==
  ASSUME ListIsLive, NEW i \in DOMAIN List
  PROVE  List[i] \in DOMAIN packet
  BY DEF ListIsLive

(* The types of the variables that are kept by hand.                        *)
LEMMA TypesSplit ==
  TypeOK <=> /\ Typed(packet) /\ trg_mem_head \in Name
             /\ held \in Seq(Block) /\ unloading \in BOOLEAN /\ intact \in BOOLEAN
  BY DEF TypeOK, Typed, Record, Block

(* A step keeps the types.                                                 *)
LEMMA TypesStep ==
  ASSUME TypeOK, [Next]_vars
  PROVE  TypeOK'
<1>1. /\ Typed(packet) /\ trg_mem_head \in Name
      /\ held \in Seq(Block) /\ unloading \in BOOLEAN /\ intact \in BOOLEAN
  BY TypesSplit
<1>2. ASSUME Typed(packet'), trg_mem_head' \in Name, held' \in Seq(Block),
             unloading' \in BOOLEAN, intact' \in BOOLEAN
      PROVE  TypeOK'
  BY <1>2 DEF TypeOK, Typed, Record, Block
<1>3. ASSUME NEW size \in Sizes, NEW align \in Aligns, Allocate(size, align) PROVE TypeOK'
  <2>1. PICK i \in DOMAIN List :
          /\ BestFit(i, size, align)
          /\ \E used \in (IF Pad(List[i], align) = 0 THEN {FALSE} ELSE BOOLEAN) :
               packet' = SplitTail(SplitFront(packet, List[i], Pad(List[i], align),
                                              Pad(List[i], align), used), List[i], size)
          /\ held' = Append(held, [addr |-> packet[List[i]].addr + Pad(List[i], align),
                                   size |-> size])
          /\ intact' = (intact /\ TellsAll(List[i], Pad(List[i], align), size))
    BY <1>3 DEF Allocate
  <2> DEFINE x == List[i]
             pad == Pad(x, align)
  <2>2. HasFresh /\ ListIsLive /\ UNCHANGED << trg_mem_head, unloading >>
    BY <1>3 DEF Allocate, MayAllocate
  <2>3. x \in DOMAIN packet
    BY <2>2, ListInPackets
  <2>4. PICK used \in BOOLEAN : packet' = SplitTail(SplitFront(packet, x, pad, pad, used), x, size)
    BY <2>1
  <2>5. intact' \in BOOLEAN
    BY <1>1, <2>1 DEF TellsAll
  <2>6. Fits(x, size, align)
    BY <2>1 DEF BestFit
  <2> HIDE DEF x
  <2>7. packet[x].addr \in Nat /\ packet[x].size \in Nat /\ size \in Nat /\ align \in Nat \ {0}
    BY <1>1, <2>3, TargetMemoryAssumption DEF Typed, Record
  <2>8. pad \in Nat /\ pad <= packet[x].size
    <3>1. trg_align(packet[x].addr, align) \in Nat /\ packet[x].addr <= trg_align(packet[x].addr, align)
      BY <2>7, Aligned
    <3>2. pad \in Nat
      BY <2>7, <3>1 DEF Pad
    <3> QED BY <2>6, <2>7, <3>2 DEF Fits
  <2>9. [addr |-> packet[x].addr + pad, size |-> size] \in Block
    BY <2>7, <2>8 DEF Block
  <2>10. held' \in Seq(Block)
    BY <1>1, <2>1, <2>9, AppendProperties DEF x
  <2> HIDE DEF pad
  <2>11. Typed(packet')
    <3> DEFINE q == SplitFront(packet, x, pad, pad, used)
    <3>1. Typed(q) /\ Unnamed(q) # {} /\ x \in DOMAIN q
      BY <1>1, <2>2, <2>3, <2>8, SplitFrontTyped
    <3> HIDE DEF q
    <3>2. Typed(SplitTail(q, x, size))
      BY <2>7, <3>1, SplitTailTyped
    <3> QED BY <2>4, <3>2 DEF q
  <2> QED BY <1>1, <1>2, <2>2, <2>5, <2>10, <2>11
<1>4. ASSUME NEW size \in Sizes, NEW align \in Aligns, NEW addr \in Addresses,
             AllocateAt(addr, size, align)
      PROVE  TypeOK'
  <2>1. PICK i \in DOMAIN List :
          /\ Within(addr, List[i])
          /\ packet' = SplitTail(SplitFront(packet, List[i], addr - packet[List[i]].addr, 0, FALSE),
                                 List[i], size)
          /\ intact' = (intact /\ ~packet[List[i]].used
                        /\ TellsAll(List[i], addr - packet[List[i]].addr, size))
    BY <1>4 DEF AllocateAt
  <2> DEFINE x == List[i]
             front == addr - packet[x].addr
  <2>2. HasFresh /\ ListIsLive /\ UNCHANGED << trg_mem_head, unloading >>
    BY <1>4 DEF AllocateAt, MayAllocate
  <2>3. x \in DOMAIN packet
    BY <2>2, ListInPackets
  <2>4. intact' \in BOOLEAN
    BY <1>1, <2>1 DEF TellsAll
  <2>5. held' = Append(held, [addr |-> addr, size |-> size])
    BY <1>4 DEF AllocateAt
  <2> HIDE DEF x
  <2>6. packet[x].addr \in Nat /\ packet[x].size \in Nat /\ size \in Nat /\ addr \in Nat
    BY <1>1, <2>3, TargetMemoryAssumption DEF Typed, Record
  <2>7. front \in Nat
    BY <2>1, <2>6 DEF Within, x
  <2>8. held' \in Seq(Block)
    BY <1>1, <2>5, <2>6, AppendProperties DEF Block
  <2>9. packet' = SplitTail(SplitFront(packet, x, front, 0, FALSE), x, size)
    BY <2>1 DEF x
  <2> HIDE DEF front
  <2>10. Typed(packet')
    <3> DEFINE q == SplitFront(packet, x, front, 0, FALSE)
    <3>1. 0 \in Nat /\ 0 <= packet[x].size /\ FALSE \in BOOLEAN
      BY <2>6
    <3>2. Typed(q) /\ Unnamed(q) # {} /\ x \in DOMAIN q
      BY <1>1, <2>2, <2>3, <2>7, <3>1, SplitFrontTyped
    <3> HIDE DEF q
    <3>3. Typed(SplitTail(q, x, size))
      BY <2>6, <3>2, SplitTailTyped
    <3> QED BY <2>9, <3>3 DEF q
  <2> QED BY <1>1, <1>2, <2>2, <2>4, <2>8, <2>10
<1>5. ASSUME NEW i \in DOMAIN held, Release(i) PROVE TypeOK'
  <2>1. PICK k \in DOMAIN List :
          LET x == List[k]
              merged == MergeNext(MergePrev(packet, x), x)
          IN  /\ Found(held[i].addr, k)
              /\ FollowedLive(x)
              /\ packet' = [merged EXCEPT ![x].used = FALSE]
              /\ trg_mem_head' = HeadAfter(merged, x)
    BY <1>5 DEF Release
  <2> DEFINE x == List[k]
             n == MergePrev(packet, x)
             m == MergeNext(n, x)
  <2>2. ListIsLive /\ UNCHANGED intact /\ held' = RemoveAt(held, i) /\ unloading' \in BOOLEAN
    BY <1>1, <1>5, TargetMemoryAssumption DEF Release
  <2>3. x \in DOMAIN packet /\ packet[x].used
    BY <2>1, <2>2, ListInPackets DEF Found, Passed
  <2>4. FollowedLive(x) /\ packet' = [m EXCEPT ![x].used = FALSE]
        /\ trg_mem_head' \in {x, trg_mem_head}
    BY <2>1 DEF HeadAfter
  <2> HIDE DEF x
  <2>5. Mergeable(packet, packet[x].prev) => packet[x].prev \in DOMAIN packet
    BY <2>4 DEF FollowedLive, Live, Mergeable
  <2>6. /\ Typed(n) /\ x \in DOMAIN n /\ n[x].used
        /\ DOMAIN n = IF Mergeable(packet, packet[x].prev) THEN DOMAIN packet \ {packet[x].prev}
                      ELSE DOMAIN packet
        /\ n[x].next \in {packet[x].next, x}
    BY <1>1, <2>3, <2>5, MergePrevTyped
  <2> HIDE DEF n
  <2>7. Mergeable(n, n[x].next) => n[x].next \in DOMAIN n
    <3>1. CASE n[x].next = x
      BY <2>6, <3>1
    <3>2. CASE n[x].next = packet[x].next
      <4>1. Live(packet, packet[x].next)
        BY <2>4 DEF FollowedLive
      <4>2. Mergeable(packet, packet[x].prev) => packet[x].next # packet[x].prev
        BY <2>4 DEF FollowedLive
      <4> QED BY <2>6, <3>2, <4>1, <4>2 DEF Live, Mergeable
    <3> QED BY <2>6, <3>1, <3>2
  <2>8. Typed(m) /\ x \in DOMAIN m
    BY <2>6, <2>7, MergeNextTyped
  <2> HIDE DEF m
  <2>9. Typed(packet')
    BY <2>4, <2>8 DEF Typed, Record
  <2>10. trg_mem_head' \in Name
    BY <1>1, <2>3, <2>4 DEF Typed
  <2>11. held' \in Seq(Block)
    <3>1. i \in 1 .. Len(held)
      BY <1>1, LenProperties
    <3> QED BY <1>1, <2>2, <3>1, RemoveAtEntries
  <2> QED BY <1>1, <1>2, <2>2, <2>9, <2>10, <2>11
<1>6. CASE UNCHANGED vars
  BY <1>6 DEF vars, TypeOK
<1> QED BY <1>3, <1>4, <1>5, <1>6 DEF Next

(* Every step keeps the invariant.                                         *)
LEMMA MemoryNext == MemoryInv /\ [Next]_vars => MemoryInv'
<1> SUFFICES ASSUME MemoryInv, [Next]_vars PROVE MemoryInv'
  OBVIOUS
<1>1. TypeOK'
  BY TypesStep DEF MemoryInv
<1>2. ASSUME intact' PROVE Whole'
  <2>1. ASSUME NEW size \in Sizes, NEW align \in Aligns, Allocate(size, align) PROVE Whole'
    BY <1>2, <2>1, AllocateGrants, GrantStep DEF MemoryInv
  <2>2. ASSUME NEW size \in Sizes, NEW align \in Aligns, NEW addr \in Addresses,
               AllocateAt(addr, size, align)
        PROVE  Whole'
    BY <1>2, <2>2, AllocateAtGrants, GrantStep DEF MemoryInv
  <2>3. ASSUME NEW i \in DOMAIN held, Release(i) PROVE Whole'
    <3>1. intact
      BY <1>2, <2>3 DEF Release
    <3> QED BY <2>3, <3>1, ReleaseStep DEF MemoryInv
  <2>4. CASE UNCHANGED vars
    BY <1>2, <2>4 DEF vars, MemoryInv, Whole, HeadFirst, HeldInv
  <2> QED BY <2>1, <2>2, <2>3, <2>4 DEF Next
<1> QED BY <1>1, <1>2 DEF MemoryInv

(* For every client: as long as every neighbor was told of every split, the *)
(* list has no stale link, tiles the pool and has the client's blocks in    *)
(* use.                                                                    *)
THEOREM MemoryInvariance == Spec => []MemoryInv
  BY MemoryInit, MemoryNext, PTL DEF Spec

(* Every variable has its type, also when links are out of date.            *)
THEOREM MemoryTypeCorrect == Spec => []TypeOK
<1>1. MemoryInv => TypeOK
  BY DEF MemoryInv
<1> QED BY <1>1, MemoryInvariance, PTL

(* The walk of the list visits the packets in the order of their links.    *)
LEMMA MemoryTiles == MemoryInv => ListTilesPool
<1> SUFFICES ASSUME Whole
             PROVE  /\ packet[List[1]].addr = PoolStart
                    /\ \A i \in DOMAIN List :
                         packet[List[i]].addr + packet[List[i]].size =
                           IF i + 1 \in DOMAIN List THEN packet[List[i + 1]].addr ELSE PoolEnd
                    /\ NeighborsMerged
  BY DEF MemoryInv, ListTilesPool
<1>1. Linked(packet) /\ NoFreePair(packet) /\ HeadFirst
  BY DEF Whole
<1>2. packet[List[1]].addr = PoolStart
  BY <1>1, ListEntries DEF HeadFirst
<1>3. ASSUME NEW i \in DOMAIN List
      PROVE  packet[List[i]].addr + packet[List[i]].size =
               IF i + 1 \in DOMAIN List THEN packet[List[i + 1]].addr ELSE PoolEnd
  <2>1. List[i] \in DOMAIN packet
    BY <1>1, ListEntries
  <2>2. IF i + 1 \in DOMAIN List THEN List[i + 1] = packet[List[i]].next /\ List[i + 1] # NULL
        ELSE packet[List[i]].next = NULL
    BY <1>1, ListStops
  <2> QED BY <1>1, <2>1, <2>2 DEF Linked, NextOK, End
<1>4. ASSUME NEW i \in DOMAIN List, i + 1 \in DOMAIN List
      PROVE  packet[List[i]].used \/ packet[List[i + 1]].used
  <2>1. List[i] \in DOMAIN packet
    BY <1>1, ListEntries
  <2>2. List[i + 1] = packet[List[i]].next /\ List[i + 1] # NULL
    BY <1>1, <1>4, ListStops
  <2> QED BY <1>1, <2>1, <2>2 DEF NoFreePair
<1> QED BY <1>2, <1>3, <1>4 DEF NeighborsMerged

(* While the list is intact it is ordered by address, its packets cover the *)
(* pool, and no two free ones stand side by side.                          *)
THEOREM ListIsTiling == Spec => []ListTilesPool
  BY MemoryInvariance, MemoryTiles, PTL

(* Links that agree in both directions lead to packets that exist.         *)
LEMMA MemoryLinks == MemoryInv => LinksAreLive
<1> SUFFICES ASSUME Whole
             PROVE  /\ ListIsLive
                    /\ \A i \in DOMAIN held : \A k \in DOMAIN List :
                         Found(held[i].addr, k) => FollowedLive(List[k])
  BY DEF MemoryInv, LinksAreLive
<1>1. Linked(packet) /\ HeadFirst
  BY DEF Whole
<1>2. \A k \in DOMAIN List : List[k] \in DOMAIN packet
  BY <1>1, ListEntries
<1>3. ASSUME NEW x \in DOMAIN packet PROVE FollowedLive(x)
  <2> DEFINE b == packet[x].prev
             a == packet[x].next
  <2>1. b # NULL => b \in DOMAIN packet /\ packet[b].next = x
    BY <1>1 DEF Linked, PrevOK
  <2>2. a # NULL => a \in DOMAIN packet /\ packet[a].addr = End(packet, x)
    BY <1>1 DEF Linked, NextOK
  <2>3. b # NULL => a # b
    <3>1. ASSUME b # NULL, a = b PROVE FALSE
      <4>1. packet[x].addr = End(packet, b)
        BY <1>1, <2>1, <3>1, PacketFacts DEF Linked, NextOK
      <4> HIDE DEF a, b
      <4>2. /\ packet[b].addr < End(packet, b) /\ packet[x].addr < End(packet, x)
            /\ packet[b].addr \in Nat /\ packet[x].addr \in Nat
            /\ End(packet, b) \in Nat /\ End(packet, x) \in Nat
        BY <1>1, <2>1, <3>1, PacketFacts
      <4> QED BY <2>2, <3>1, <4>1, <4>2
    <3> QED BY <3>1
  <2>4. b # NULL => Live(packet, packet[b].prev)
    BY <1>1, <2>1 DEF Live, Linked, PrevOK
  <2>5. a # NULL => Live(packet, packet[a].next)
    BY <1>1, <2>2 DEF Live, Linked, NextOK
  <2> QED BY <2>1, <2>2, <2>3, <2>4, <2>5 DEF FollowedLive, Live, Mergeable
<1>4. ListIsLive
  BY <1>2 DEF ListIsLive
<1> QED BY <1>2, <1>3, <1>4

(* While the list is intact nothing follows a link to a packet that was     *)
(* freed, in whatever order the blocks are given back.                      *)
THEOREM NoStaleLink == Spec => []LinksAreLive
  BY MemoryInvariance, MemoryLinks, PTL

(* Every address of the pool is in a packet.                                *)
LEMMA Covered ==
  ASSUME Linked(packet), HeadFirst, NEW addr \in Nat, PoolStart <= addr, addr < PoolEnd
  PROVE  \E x \in DOMAIN packet : packet[x].addr <= addr /\ addr < End(packet, x)
<1> DEFINE Below == {x \in DOMAIN packet : packet[x].addr <= addr}
           Gaps == {addr - packet[x].addr : x \in Below}
<1>1. \A x \in DOMAIN packet : packet[x].addr \in Nat /\ End(packet, x) \in Nat
                               /\ packet[x].addr < End(packet, x)
  BY PacketFacts
<1>2. trg_mem_head \in Below
  BY DEF HeadFirst
<1>3. Gaps \in SUBSET Nat /\ Gaps # {}
  BY <1>1, <1>2
<1>4. PICK g \in Gaps : \A d \in Gaps : g <= d
  <2> HIDE DEF Gaps
  <2> QED BY <1>3, LeastOfPlaces
<1>5. PICK x \in Below : g = addr - packet[x].addr
  OBVIOUS
<1>6. ASSUME NEW y \in Below PROVE packet[y].addr <= packet[x].addr
  <2>1. addr - packet[x].addr <= addr - packet[y].addr
    BY <1>4, <1>5
  <2> QED BY <1>1, <2>1
<1>7. addr < End(packet, x)
  <2>1. ASSUME End(packet, x) <= addr PROVE FALSE
    <3> DEFINE n == packet[x].next
    <3>1. n # NULL
      BY <1>1, <2>1, Names DEF Linked, NextOK
    <3>2. n \in DOMAIN packet /\ packet[n].addr = End(packet, x)
      BY <3>1 DEF Linked, NextOK
    <3> HIDE DEF n
    <3>3. packet[n].addr <= packet[x].addr
      BY <1>6, <2>1, <3>2
    <3> QED BY <1>1, <3>2, <3>3
  <2> QED BY <1>1, <2>1
<1> QED BY <1>5, <1>7

(* What a multiple is.                                                     *)
LEMMA Multiple ==
  ASSUME NEW addr \in Nat, NEW n \in Nat \ {0}, addr % n = 0
  PROVE  addr = n * (addr \div n) /\ addr \div n \in Nat
  OBVIOUS

(* The packet that contains the first address of enough room is free, and  *)
(* as large.                                                               *)
LEMMA MemoryRoom == MemoryInv => RoomIsListed
<1> SUFFICES ASSUME Whole, NEW size \in Sizes, NEW align \in Aligns,
                    NEW addr \in PoolStart .. PoolEnd - size, addr % align = 0,
                    \A i \in DOMAIN held : addr + size <= held[i].addr
                                           \/ held[i].addr + held[i].size <= addr
             PROVE  \E i \in DOMAIN List : Fits(List[i], size, align)
  BY DEF MemoryInv, RoomIsListed
<1>1. /\ Linked(packet) /\ NoFreePair(packet) /\ HeadFirst /\ HeldBy(packet, held)
      /\ align \in Nat \ {0} /\ size \in Nat \ {0}
  BY TargetMemoryAssumption DEF Whole, HeldInv
<1>2. addr \in Nat /\ PoolStart <= addr /\ addr + size <= PoolEnd /\ PoolEnd \in Nat
  BY <1>1, Names
<1>3. addr < PoolEnd
  BY <1>1, <1>2
<1>4. PICK x \in DOMAIN packet : packet[x].addr <= addr /\ addr < End(packet, x)
  BY <1>1, <1>2, <1>3, Covered
<1>5. ASSUME NEW y \in DOMAIN packet, packet[y].used
      PROVE  addr + size <= packet[y].addr \/ End(packet, y) <= addr
  <2>1. PICK i \in DOMAIN held : Holds(packet, y, held[i])
    BY <1>1, <1>5 DEF HeldBy
  <2> QED BY <2>1 DEF Holds, End
<1>6. /\ packet[x].addr \in Nat /\ packet[x].size \in Nat \ {0} /\ End(packet, x) \in Nat
      /\ End(packet, x) = packet[x].addr + packet[x].size
  BY <1>1, PacketFacts DEF End
<1>7. ~packet[x].used
  BY <1>1, <1>2, <1>4, <1>5, <1>6
<1>8. addr + size <= End(packet, x)
  <2> DEFINE n == packet[x].next
  <2>1. CASE n = NULL
    BY <1>1, <1>2, <2>1 DEF Linked, NextOK
  <2>2. CASE n # NULL
    <3>1. n \in DOMAIN packet /\ packet[n].addr = End(packet, x) /\ packet[n].used
      BY <1>1, <1>7, <2>2 DEF Linked, NextOK, NoFreePair
    <3> HIDE DEF n
    <3>2. End(packet, x) < End(packet, n) /\ End(packet, n) \in Nat
      BY <1>1, <3>1, PacketFacts
    <3>3. ~(End(packet, n) <= addr)
      BY <1>2, <1>4, <1>6, <3>2
    <3> QED BY <1>5, <3>1, <3>3
  <2> QED BY <2>1, <2>2
<1>9. PICK k \in DOMAIN List : List[k] = x
  BY <1>1, ListComplete
<1>10. Pad(x, align) \in Nat /\ packet[x].addr + Pad(x, align) <= addr
  <2>1. addr = align * (addr \div align) /\ addr \div align \in Nat
    BY <1>1, <1>2, Multiple
  <2>2. packet[x].addr <= align * (addr \div align)
    BY <1>4, <2>1
  <2> HIDE DEF End
  <2>3. /\ trg_align(packet[x].addr, align) \in Nat
        /\ packet[x].addr <= trg_align(packet[x].addr, align)
        /\ trg_align(packet[x].addr, align) <= align * (addr \div align)
    BY <1>1, <1>6, <2>1, <2>2, Aligned
  <2>4. trg_align(packet[x].addr, align) <= addr
    BY <2>1, <2>3
  <2> QED BY <1>6, <2>3, <2>4 DEF Pad
<1>11. /\ packet[x].size > Pad(x, align)
       /\ packet[x].size - Pad(x, align) >= size
  BY <1>1, <1>2, <1>6, <1>8, <1>10
<1>12. Fits(x, size, align)
  BY <1>7, <1>11 DEF Fits
<1> QED BY <1>9, <1>12

(* While the list is intact a request is refused only when the pool has no *)
(* room for it at its alignment.                                           *)
THEOREM RefusedWhenFull == Spec => []RoomIsListed
  BY MemoryInvariance, MemoryRoom, PTL

(* Blocks held at the same time share no address.                           *)
LEMMA MemoryApart == MemoryInv => (intact => HeldApart)
<1> SUFFICES ASSUME Whole, NEW i \in DOMAIN held, NEW j \in DOMAIN held, i < j
             PROVE  \/ held[i].addr + held[i].size <= held[j].addr
                    \/ held[j].addr + held[j].size <= held[i].addr
  BY DEF MemoryInv, HeldApart
<1>1. Linked(packet) /\ HeldBy(packet, held)
  BY DEF Whole, HeldInv
<1>2. PICK x \in DOMAIN packet : Holds(packet, x, held[i])
  BY <1>1 DEF HeldBy
<1>3. PICK y \in DOMAIN packet : Holds(packet, y, held[j])
  BY <1>1 DEF HeldBy
<1>4. DOMAIN held \in SUBSET Nat
  BY <1>1, LenProperties DEF HeldBy
<1>5. held[i].addr # held[j].addr
  BY <1>1, <1>4 DEF HeldBy
<1>6. x # y
  BY <1>2, <1>3, <1>5 DEF Holds
<1>7. End(packet, x) <= packet[y].addr \/ End(packet, y) <= packet[x].addr
  BY <1>1, <1>6 DEF Linked, PacketsApart
<1> QED BY <1>2, <1>3, <1>7 DEF Holds, End

(* While the list is intact no address is held twice.                       *)
THEOREM BlocksApart == Spec => [](intact => HeldApart)
  BY MemoryInvariance, MemoryApart, PTL

-----------------------------------------------------------------------------
(* The steps of the pool.                                                  *)
LEMMA GrantAllocates ==
  ASSUME Whole, NEW x \in DOMAIN packet, NEW size \in Nat \ {0},
         Grants(x, size)
  PROVE  Pool!Allocate
<1> DEFINE b == [addr |-> packet[x].addr, size |-> size]
           owned == {held[i] : i \in DOMAIN held}
<1>1. /\ Linked(packet) /\ HeldBy(packet, held)
      /\ ~packet[x].used /\ size <= packet[x].size /\ held' = Append(held, b)
  BY DEF Whole, HeldInv, Grants
<1>2. /\ packet[x].addr \in Nat /\ packet[x].size \in Nat \ {0} /\ PoolStart <= packet[x].addr
      /\ packet[x].addr + packet[x].size <= PoolEnd
      /\ PoolEnd = PoolStart + PoolSize /\ PoolStart \in Nat /\ PoolSize \in Nat
  BY <1>1, PacketFacts, TargetMemoryAssumption DEF End, PoolEnd
<1>3. b.addr = packet[x].addr /\ b.size = size
  OBVIOUS
<1>4. packet[x].addr \in PoolStart .. PoolEnd - 1 /\ size \in 1 .. PoolSize
  BY <1>1, <1>2
<1>5. b \in Pool!Block /\ Pool!Last(b) < PoolEnd
  BY <1>1, <1>2, <1>4 DEF Pool!Block, Pool!Last, Pool!PoolEnd, PoolEnd
<1>6. ASSUME NEW c \in owned PROVE Pool!Apart(b, c)
  <2>1. PICK i \in DOMAIN held : c = held[i]
    OBVIOUS
  <2>2. PICK z \in DOMAIN packet : Holds(packet, z, held[i])
    BY <1>1 DEF HeldBy
  <2>3. x # z
    BY <1>1, <2>2 DEF Holds
  <2>4. End(packet, z) <= packet[x].addr \/ End(packet, x) <= packet[z].addr
    BY <1>1, <2>3 DEF Linked, PacketsApart
  <2>5. c.addr = packet[z].addr /\ c.size = packet[z].size /\ c.addr \in Nat /\ c.size \in Nat
    BY <1>1, <2>1, <2>2, PacketFacts DEF Holds
  <2>6. c.addr + c.size <= b.addr \/ b.addr + size <= c.addr
    BY <1>1, <1>2, <2>4, <2>5 DEF End
  <2> QED BY <1>2, <2>5, <2>6 DEF Pool!Apart, Pool!Last
<1>7. {held'[i] : i \in DOMAIN held'} = owned \cup {b}
  <2> HIDE DEF b
  <2>1. b \in Block
    BY <1>2 DEF b, Block
  <2>2. held \in Seq(Block) /\ Len(held) \in Nat /\ DOMAIN held = 1 .. Len(held)
    BY <1>1, LenProperties DEF HeldBy
  <2> DEFINE r == Append(held, b)
  <2>3. /\ r \in Seq(Block) /\ Len(r) = Len(held) + 1
        /\ \A i \in 1 .. Len(held) : r[i] = held[i]
        /\ r[Len(held) + 1] = b
    BY <2>1, <2>2, AppendProperties
  <2> HIDE DEF r
  <2>4. DOMAIN r = DOMAIN held \cup {Len(held) + 1}
    BY <2>2, <2>3, LenProperties
  <2>5. {r[i] : i \in DOMAIN r} = owned \cup {b}
    BY <2>2, <2>3, <2>4
  <2> QED BY <1>1, <2>5 DEF r
<1> HIDE DEF b, owned
<1>8. \A c \in owned : Pool!Apart(b, c)
  BY <1>6
<1>9. Pool!PoolEnd = PoolEnd
  BY DEF Pool!PoolEnd, PoolEnd
<1> QED BY <1>5, <1>7, <1>8, <1>9 DEF Pool!Allocate, Owned, owned

(* A block that is freed is given back to the pool.                        *)
LEMMA ReleaseReleases ==
  ASSUME Whole, NEW i \in DOMAIN held, Release(i)
  PROVE  Pool!Release
<1> DEFINE r == RemoveAt(held, i)
           owned == {held[j] : j \in DOMAIN held}
<1>1. held' = r /\ HeldBy(packet, held)
  BY DEF Release, Whole, HeldInv
<1>2. held \in Seq(Block) /\ Len(held) \in Nat /\ DOMAIN held = 1 .. Len(held)
  BY <1>1, LenProperties DEF HeldBy
<1>3. /\ r \in Seq(Block) /\ Len(r) = Len(held) - 1
      /\ \A a \in 1 .. Len(held) - 1 : Earlier(a, i) \in 1 .. Len(held) /\ Earlier(a, i) # i
                                       /\ r[a] = held[Earlier(a, i)]
  BY <1>2, RemoveAtEntries
<1> HIDE DEF r
<1>4. DOMAIN r = 1 .. Len(held) - 1
  BY <1>3, LenProperties
<1>5. \A j \in DOMAIN held : held[j] = held[i] => j = i
  BY <1>1 DEF HeldBy
<1>6. ASSUME NEW a \in DOMAIN r PROVE r[a] \in owned \ {held[i]}
  BY <1>2, <1>3, <1>4, <1>5
<1>7. ASSUME NEW c \in owned \ {held[i]} PROVE \E a \in DOMAIN r : r[a] = c
  <2>1. PICK j \in DOMAIN held : c = held[j] /\ j # i
    BY <1>7
  <2> DEFINE a == IF j < i THEN j ELSE j - 1
  <2>2. a \in DOMAIN r /\ Earlier(a, i) = j
    BY <1>2, <1>4, <2>1 DEF Earlier
  <2> HIDE DEF a
  <2>3. r[a] = c
    BY <1>3, <1>4, <2>1, <2>2
  <2> QED BY <2>2, <2>3
<1>8. {r[a] : a \in DOMAIN r} = owned \ {held[i]}
  BY <1>6, <1>7
<1>9. held[i] \in owned
  OBVIOUS
<1> HIDE DEF owned
<1>10. {held'[j] : j \in DOMAIN held'} = owned \ {held[i]}
  BY <1>1, <1>8
<1> QED BY <1>9, <1>10 DEF Pool!Release, Owned, owned

(* Every step that leaves the list intact is one of the pool, or none.      *)
LEMMA PoolStep == MemoryInv /\ [Next]_vars => [intact' => Pool!Next]_Owned
<1> SUFFICES ASSUME MemoryInv, [Next]_vars, intact', Owned' # Owned PROVE Pool!Next
  OBVIOUS
<1>1. ASSUME NEW size \in Sizes, NEW align \in Aligns, Allocate(size, align) PROVE Pool!Next
  BY <1>1, AllocateGrants, GrantAllocates DEF MemoryInv, Pool!Next
<1>2. ASSUME NEW size \in Sizes, NEW align \in Aligns, NEW addr \in Addresses,
             AllocateAt(addr, size, align)
      PROVE  Pool!Next
  BY <1>2, AllocateAtGrants, GrantAllocates DEF MemoryInv, Pool!Next
<1>3. ASSUME NEW i \in DOMAIN held, Release(i) PROVE Pool!Next
  <2>1. Whole
    BY <1>3 DEF MemoryInv, Release
  <2> QED BY <1>3, <2>1, ReleaseReleases DEF Pool!Next
<1>4. ~UNCHANGED vars
  BY DEF vars, Owned
<1> QED BY <1>1, <1>2, <1>3, <1>4 DEF Next

(* While the list is intact it implements the pool: a block that is handed  *)
(* out lies in the pool and apart from all that are held, and is given back *)
(* once.                                                                   *)
THEOREM ListImplementsPool == Spec => ImplementsPool
<1>1. Init => Pool!Init
  <2> SUFFICES ASSUME Init PROVE Owned = {}
    BY DEF Pool!Init
  <2>1. DOMAIN held = {}
    BY DEF Init
  <2> QED BY <2>1 DEF Owned
<1>2. MemoryInv /\ [Next]_vars => [intact' => Pool!Next]_Owned
  BY PoolStep
<1> QED BY <1>1, <1>2, MemoryInvariance, PTL DEF Spec, ImplementsPool
=============================================================================
