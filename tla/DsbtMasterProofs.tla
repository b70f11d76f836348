--------------------------- MODULE DsbtMasterProofs ---------------------------
(***************************************************************************)
(* Proofs about DsbtMaster, for every set of modules, whatever indices they *)
(* request, with clean and with failing loads.                             *)
(***************************************************************************)
EXTENDS DsbtMaster, QueueLemmas

Inv == TypeOK /\ BelowFirstAvailOccupied /\ SlotIsOwn /\ RequestsKept

-----------------------------------------------------------------------------
(* assign_dsbt_entry grows the master by what is needed to hold the slot    *)
(* and changes no other slot.                                              *)
LEMMA PutAtSlots ==
  ASSUME TypeOK, NEW h \in Handle, NEW slot \in Nat,
         size' = SizeFor(slot), master' = PutAt(h, slot, SizeFor(slot))
  PROVE  /\ size' \in Nat /\ size <= size' /\ slot \in Slot' /\ Slot \subseteq Slot'
         /\ master' \in [Slot' -> Handle \cup {NoModule}]
         /\ \A s \in Slot' :
              master'[s] = IF s = slot THEN h
                           ELSE IF s \in Slot THEN master[s] ELSE NoModule
<1>1. /\ size' \in Nat /\ size <= size' /\ slot < size'
  BY DEF TypeOK, SizeFor
<1>2. slot \in Slot' /\ Slot \subseteq Slot'
  BY <1>1 DEF Slot, TypeOK
<1>3. master' = [j \in Slot' |-> IF j = slot THEN h
                                ELSE IF j \in Slot THEN master[j] ELSE NoModule]
  BY DEF PutAt, Slot
<1>4. \A j \in Slot : master[j] \in Handle \cup {NoModule}
  BY DEF TypeOK
<1> QED BY <1>1, <1>2, <1>3, <1>4

(* What the two assigning loops have in common: the request in entry i      *)
(* leaves the queue and gets a slot that was free and that no request left  *)
(* in the queue asks for.                                                  *)
LEMMA SlotAssigned ==
  ASSUME Inv, NEW i \in 1 .. Len(queue), NEW slot \in Nat,
         slot \in Slot => master[slot] = NoModule,
         Specific(queue[i]) => Requested[queue[i]] = slot,
         \A a \in 1 .. Len(queue) :
            (a # i /\ Specific(queue[a])) => Requested[queue[a]] # slot,
         size' = SizeFor(slot), master' = PutAt(queue[i], slot, SizeFor(slot)),
         first_avail' \in 0 .. size',
         \A s \in 0 .. first_avail' - 1 : s \in Slot /\ master[s] # NoModule,
         queue' \in Seq(Handle), Len(queue') = Len(queue) - 1,
         \A a \in 1 .. Len(queue) - 1 :
            /\ Earlier(a, i) \in 1 .. Len(queue) /\ Earlier(a, i) # i
            /\ queue'[a] = queue[Earlier(a, i)],
         known' = known
  PROVE  /\ master' \in [Slot' -> Handle \cup {NoModule}] /\ size' \in Nat
         /\ BelowFirstAvailOccupied' /\ SlotIsOwn'
         /\ QueuedOnce' /\ QueuedHasNoSlot' /\ HolderIsKnown'
         /\ SpecificsDiffer' /\ SpecificIsFree'
<1> DEFINE h == queue[i]
<1>1. /\ DOMAIN queue = 1 .. Len(queue) /\ DOMAIN queue' = 1 .. Len(queue) - 1
      /\ Len(queue) \in Nat
  BY LenProperties DEF Inv, TypeOK
<1>2. \A a \in 1 .. Len(queue) : queue[a] \in Handle
  BY ElementOfSeq DEF Inv, TypeOK
<1>3. h \in Handle /\ h # NoModule
  BY <1>2, DsbtAssumption
<1>4. /\ size' \in Nat /\ size <= size' /\ slot \in Slot' /\ Slot \subseteq Slot'
      /\ master' \in [Slot' -> Handle \cup {NoModule}]
      /\ \A s \in Slot' :
           master'[s] = IF s = slot THEN h
                        ELSE IF s \in Slot THEN master[s] ELSE NoModule
  BY <1>3, PutAtSlots DEF Inv
<1>5. h \in known /\ \A s \in Slot : master[s] # h
  BY <1>1 DEF Inv, RequestsKept, QueuedHasNoSlot
<1>6. \A a, b \in 1 .. Len(queue) - 1 : Earlier(a, i) = Earlier(b, i) => a = b
  BY <1>1 DEF Earlier
<1> HIDE DEF h
<1>7. BelowFirstAvailOccupied'
  BY <1>3, <1>4 DEF BelowFirstAvailOccupied
<1>8. SlotIsOwn'
  <2>1. \A s \in Slot' : master'[s] # NoModule => s = slot \/ (s \in Slot /\ master'[s] = master[s])
    BY <1>4
  <2>2. Specific(h) => Requested[h] = slot
    BY DEF h
  <2>3. \A s \in Slot : master[s] # NoModule =>
           /\ Specific(master[s]) => Requested[master[s]] = s
           /\ \A t \in Slot : master[t] = master[s] => t = s
    BY DEF Inv, SlotIsOwn
  <2>4. ASSUME NEW s \in Slot', master'[s] # NoModule
        PROVE  /\ Specific(master'[s]) => Requested[master'[s]] = s
               /\ \A t \in Slot' : master'[t] = master'[s] => t = s
    <3>1. CASE s = slot
      <4>1. master'[s] = h
        BY <3>1, <1>4
      <4> QED BY <4>1, <3>1, <2>1, <2>2, <1>3, <1>5
    <3>2. CASE s # slot
      <4>1. s \in Slot /\ master'[s] = master[s] /\ master[s] # h /\ master'[slot] = h
        BY <2>4, <3>2, <2>1, <1>4, <1>5
      <4> QED BY <4>1, <2>4, <2>1, <2>3
    <3> QED BY <3>1, <3>2
  <2>5. (\A s \in Slot : master[s] # NoModule =>
           /\ Specific(master[s]) => Requested[master[s]] = s
           /\ \A t \in Slot : master[t] = master[s] => t = s)'
    BY <2>4 DEF Specific
  <2> QED BY <2>5 DEF SlotIsOwn
<1>9. QueuedOnce'
  BY <1>1, <1>6 DEF Inv, RequestsKept, QueuedOnce
<1>10. QueuedHasNoSlot'
  <2>1. ASSUME NEW a \in 1 .. Len(queue) - 1
        PROVE  queue'[a] \in known /\ \A s \in Slot' : master'[s] # queue'[a]
    <3>1. /\ queue'[a] = queue[Earlier(a, i)] /\ Earlier(a, i) \in 1 .. Len(queue)
          /\ queue'[a] # h
      BY <1>1 DEF Inv, RequestsKept, QueuedOnce, h
    <3>2. queue'[a] \in known /\ \A s \in Slot : master[s] # queue'[a]
      BY <3>1, <1>1 DEF Inv, RequestsKept, QueuedHasNoSlot
    <3>3. queue'[a] # NoModule
      BY <3>1, <1>2, DsbtAssumption
    <3> QED BY <3>1, <3>2, <3>3, <1>4
  <2> QED BY <2>1, <1>1 DEF QueuedHasNoSlot
<1>11. HolderIsKnown'
  BY <1>4, <1>5 DEF Inv, RequestsKept, HolderIsKnown
<1>12. SpecificsDiffer'
  <2>1. ASSUME NEW a \in 1 .. Len(queue) - 1, NEW b \in 1 .. Len(queue) - 1,
               Specific(queue'[a]), Requested[queue'[a]] = Requested[queue'[b]]
        PROVE  a = b
    <3>1. /\ queue'[a] = queue[Earlier(a, i)] /\ Earlier(a, i) \in DOMAIN queue
          /\ queue'[b] = queue[Earlier(b, i)] /\ Earlier(b, i) \in DOMAIN queue
      BY <1>1
    <3>2. \A c, d \in DOMAIN queue :
            (Specific(queue[c]) /\ Requested[queue[c]] = Requested[queue[d]]) => c = d
      BY DEF Inv, RequestsKept, SpecificsDiffer
    <3>3. Specific(queue[Earlier(a, i)])
      BY <2>1, <3>1
    <3>4. Requested[queue[Earlier(a, i)]] = Requested[queue[Earlier(b, i)]]
      BY <2>1, <3>1
    <3>5. Earlier(a, i) = Earlier(b, i)
      BY <3>1, <3>2, <3>3, <3>4
    <3> QED BY <3>5, <1>6
  <2> QED BY <2>1, <1>1 DEF SpecificsDiffer, Specific
<1>13. SpecificIsFree'
  <2>1. ASSUME NEW a \in 1 .. Len(queue) - 1,
               Specific(queue'[a]), Requested[queue'[a]] \in Slot'
        PROVE  master'[Requested[queue'[a]]] = NoModule
    <3>1. /\ queue'[a] = queue[Earlier(a, i)] /\ Earlier(a, i) \in 1 .. Len(queue)
          /\ Requested[queue'[a]] # slot
      BY <2>1
    <3>2. Requested[queue'[a]] \in Slot => master[Requested[queue'[a]]] = NoModule
      BY <2>1, <3>1, <1>1 DEF Inv, RequestsKept, SpecificIsFree
    <3> QED BY <2>1, <3>1, <3>2, <1>4
  <2> QED BY <2>1, <1>1 DEF SpecificIsFree, Specific
<1> QED BY <1>4, <1>7, <1>8, <1>9, <1>10, <1>11, <1>12, <1>13
-----------------------------------------------------------------------------
(* With no module loaded and an empty master nothing is queued or held.     *)
LEMMA InitInv == Init => Inv
<1> SUFFICES ASSUME Init PROVE Inv
  OBVIOUS
<1>1. Slot = {}
  BY DEF Init, Slot
<1>2. TypeOK
  BY <1>1, EmptySeq DEF Init, TypeOK, DSBT_INDEX_INVALID
<1>3. RequestsKept
  BY <1>1 DEF Init, RequestsKept, QueuedOnce, QueuedHasNoSlot, HolderIsKnown,
              SpecificsDiffer, SpecificIsFree, PhaseOfQueue
<1>4. BelowFirstAvailOccupied /\ SlotIsOwn
  BY <1>1 DEF Init, BelowFirstAvailOccupied, SlotIsOwn
<1> QED BY <1>2, <1>3, <1>4 DEF Inv

(* DLIF_register_dsbt_index_request accepts a request: it joins the queue,   *)
(* and a specific one is accepted only when its slot is neither taken nor    *)
(* asked for.                                                               *)
LEMMA RegisterInv ==
  ASSUME Inv, NEW h \in Handle, Register(h)
  PROVE  Inv'
<1>1. /\ queue \in Seq(Handle) /\ DOMAIN queue = 1 .. Len(queue) /\ Len(queue) \in Nat
      /\ \A a \in 1 .. Len(queue) : queue[a] \in Handle
  BY LenProperties, ElementOfSeq DEF Inv, TypeOK
<1>2. /\ queue' = Append(queue, h) /\ known' = known \cup {h} /\ h \notin known
      /\ memory' = memory \cup {h} /\ ~Conflict(h) /\ pc = "idle" /\ pc' = pc
      /\ size' = size /\ master' = master /\ first_avail' = first_avail
      /\ assigned' = assigned /\ clean' = clean /\ Slot' = Slot
  BY DEF Register, master_vars, Slot
<1>3. /\ queue' \in Seq(Handle) /\ DOMAIN queue' = 1 .. Len(queue) + 1
      /\ \A a \in 1 .. Len(queue) : queue'[a] = queue[a]
      /\ queue'[Len(queue) + 1] = h
  BY <1>1, <1>2, AppendProperties, LenProperties
<1>4. \A a \in 1 .. Len(queue) : queue[a] \in known /\ queue[a] # h
  BY <1>1, <1>2 DEF Inv, RequestsKept, QueuedHasNoSlot
<1>5. TypeOK'
  BY <1>2, <1>3 DEF Inv, TypeOK
<1>6. BelowFirstAvailOccupied' /\ SlotIsOwn'
  BY <1>2 DEF Inv, BelowFirstAvailOccupied, SlotIsOwn, Specific
<1>7. QueuedOnce'
  BY <1>1, <1>3, <1>4 DEF Inv, RequestsKept, QueuedOnce
<1>8. HolderIsKnown'
  BY <1>2 DEF Inv, RequestsKept, HolderIsKnown
<1>9. QueuedHasNoSlot'
  BY <1>1, <1>2, <1>3, DsbtAssumption
  DEF Inv, RequestsKept, QueuedHasNoSlot, HolderIsKnown
<1>10. SpecificsDiffer'
  <2>1. \A a \in 1 .. Len(queue) : Specific(h) => Requested[queue[a]] # Requested[h]
    BY <1>1, <1>2 DEF Conflict
  <2>2. \A a \in 1 .. Len(queue) :
           Specific(queue[a]) => Requested[queue[a]] # Requested[h]
    BY <2>1 DEF Specific
  <2>3. \A a, b \in 1 .. Len(queue) :
           (Specific(queue[a]) /\ Requested[queue[a]] = Requested[queue[b]]) => a = b
    BY <1>1 DEF Inv, RequestsKept, SpecificsDiffer
  <2>4. ASSUME NEW a \in 1 .. Len(queue) + 1, NEW b \in 1 .. Len(queue) + 1,
               Specific(queue'[a]), Requested[queue'[a]] = Requested[queue'[b]]
        PROVE  a = b
    <3>1. CASE a \in 1 .. Len(queue) /\ b \in 1 .. Len(queue)
      BY <3>1, <2>3, <2>4, <1>3
    <3>2. CASE a = Len(queue) + 1 /\ b \in 1 .. Len(queue)
      BY <3>2, <2>1, <2>4, <1>3
    <3>3. CASE a \in 1 .. Len(queue) /\ b = Len(queue) + 1
      BY <3>3, <2>2, <2>4, <1>3
    <3> QED BY <3>1, <3>2, <3>3, <1>1
  <2> QED BY <2>4, <1>3 DEF SpecificsDiffer, Specific
<1>11. SpecificIsFree'
  <2>1. Specific(h) /\ Requested[h] \in Slot => master[Requested[h]] = NoModule
    BY <1>2 DEF Conflict
  <2> QED BY <2>1, <1>1, <1>2, <1>3 DEF Inv, RequestsKept, SpecificIsFree, Specific
<1>12. PhaseOfQueue'
  BY <1>2 DEF PhaseOfQueue
<1> QED BY <1>5, <1>6, <1>7, <1>8, <1>9, <1>10, <1>11, <1>12 DEF Inv, RequestsKept

(* A refused request leaves the queue and the master as they were.          *)
LEMMA RefuseRequestInv ==
  ASSUME Inv, NEW h \in Handle, RefuseRequest(h)
  PROVE  Inv'
<1>1. /\ UNCHANGED << queue, master_vars, memory, pc, Slot >>
      /\ known' = known \cup {h} /\ clean' = (clean /\ queue = << >>)
  BY DEF RefuseRequest, Slot, master_vars
<1>2. TypeOK'
  BY <1>1 DEF Inv, TypeOK, master_vars
<1>3. BelowFirstAvailOccupied' /\ SlotIsOwn'
  BY <1>1 DEF Inv, BelowFirstAvailOccupied, SlotIsOwn, Specific, master_vars
<1>4. RequestsKept'
  BY <1>1 DEF Inv, RequestsKept, QueuedOnce, QueuedHasNoSlot, HolderIsKnown,
              SpecificsDiffer, SpecificIsFree, PhaseOfQueue, Specific, master_vars
<1> QED BY <1>2, <1>3, <1>4 DEF Inv

(* A step that moves on to the next loop changes nothing else.             *)
LEMMA PhaseInv ==
  ASSUME Inv, UNCHANGED << queue, master_vars, known, memory, clean >>,
         pc' \in {"idle", "specific", "general", "update"}, PhaseOfQueue'
  PROVE  Inv'
<1>1. Slot' = Slot
  BY DEF Slot, master_vars
<1>2. TypeOK'
  BY <1>1 DEF Inv, TypeOK, master_vars
<1>3. BelowFirstAvailOccupied' /\ SlotIsOwn'
  BY <1>1 DEF Inv, BelowFirstAvailOccupied, SlotIsOwn, Specific, master_vars
<1>4. RequestsKept'
  BY <1>1 DEF Inv, RequestsKept, QueuedOnce, QueuedHasNoSlot, HolderIsKnown,
              SpecificsDiffer, SpecificIsFree, Specific, master_vars
<1> QED BY <1>2, <1>3, <1>4 DEF Inv

(* The first loop of DLIF_assign_dsbt_indices gives a specific request the   *)
(* slot that was kept free for it.                                          *)
LEMMA AssignSpecificInv ==
  ASSUME Inv, AssignSpecific
  PROVE  Inv'
<1>1. PICK i \in DOMAIN queue :
         /\ FirstSpecific(i)
         /\ size' = SizeFor(Requested[queue[i]])
         /\ master' = PutAt(queue[i], Requested[queue[i]], SizeFor(Requested[queue[i]]))
         /\ assigned' = [assigned EXCEPT ![queue[i]] = IndexOfSpecific(queue[i])]
         /\ queue' = RemoveAt(queue, i)
  BY DEF AssignSpecific, SlotOfSpecific
<1>2. UNCHANGED << first_avail, known, memory, pc, clean >> /\ pc = "specific"
  BY DEF AssignSpecific
<1>3. queue \in Seq(Handle) /\ DOMAIN queue = 1 .. Len(queue)
  BY LenProperties DEF Inv, TypeOK
<1>4. /\ i \in 1 .. Len(queue) /\ queue[i] \in Handle /\ Specific(queue[i])
      /\ Requested[queue[i]] \in Nat
  BY <1>1, <1>3, ElementOfSeq, DsbtAssumption DEF FirstSpecific, Specific
<1>5. Requested[queue[i]] \in Slot => master[Requested[queue[i]]] = NoModule
  BY <1>4, <1>3 DEF Inv, RequestsKept, SpecificIsFree
<1>6. \A a \in 1 .. Len(queue) :
         (a # i /\ Specific(queue[a])) => Requested[queue[a]] # Requested[queue[i]]
  BY <1>3, <1>4 DEF Inv, RequestsKept, SpecificsDiffer
<1>7. /\ queue' \in Seq(Handle) /\ Len(queue') = Len(queue) - 1
      /\ \A a \in 1 .. Len(queue) - 1 :
            /\ Earlier(a, i) \in 1 .. Len(queue) /\ Earlier(a, i) # i
            /\ queue'[a] = queue[Earlier(a, i)]
  BY <1>1, <1>3, <1>4, RemoveAtEntries
<1>8. /\ first_avail' \in 0 .. size'
      /\ \A s \in 0 .. first_avail' - 1 : s \in Slot /\ master[s] # NoModule
  BY <1>1, <1>2, <1>4 DEF Inv, TypeOK, BelowFirstAvailOccupied, SizeFor, Slot
<1>9. /\ master' \in [Slot' -> Handle \cup {NoModule}] /\ size' \in Nat
      /\ BelowFirstAvailOccupied' /\ SlotIsOwn'
      /\ QueuedOnce' /\ QueuedHasNoSlot' /\ HolderIsKnown'
      /\ SpecificsDiffer' /\ SpecificIsFree'
  BY <1>1, <1>2, <1>4, <1>5, <1>6, <1>7, <1>8, SlotAssigned
<1>10. TypeOK'
  BY <1>1, <1>2, <1>4, <1>7, <1>8, <1>9 DEF Inv, TypeOK, IndexOfSpecific
<1>11. PhaseOfQueue'
  BY <1>2 DEF PhaseOfQueue
<1> QED BY <1>9, <1>10, <1>11 DEF Inv, RequestsKept

(* The second loop gives the front request the lowest available slot; no    *)
(* specific request is left in the queue to ask for it.                     *)
LEMMA AssignGeneralInv ==
  ASSUME Inv, AssignGeneral
  PROVE  Inv'
<1>1. PICK i \in 0 .. size :
         /\ FirstFree(i)
         /\ size' = SizeFor(i)
         /\ master' = PutAt(Head(queue), i, SizeFor(i))
         /\ first_avail' = i
         /\ assigned' = [assigned EXCEPT ![Head(queue)] = i]
  BY DEF AssignGeneral, AvailAfterScan, IndexOfGeneral
<1>2. /\ UNCHANGED << known, memory, pc, clean >> /\ pc = "general"
      /\ queue # << >> /\ queue' = Tail(queue)
  BY DEF AssignGeneral
<1>3. queue \in Seq(Handle) /\ DOMAIN queue = 1 .. Len(queue)
  BY LenProperties DEF Inv, TypeOK
<1>4. /\ queue' \in Seq(Handle) /\ Len(queue') = Len(queue) - 1
      /\ Len(queue) \in Nat \ {0} /\ Head(queue) = queue[1] /\ queue[1] \in Handle
      /\ \A a \in 1 .. Len(queue) - 1 :
            /\ Earlier(a, 1) \in 1 .. Len(queue) /\ Earlier(a, 1) # 1
            /\ queue'[a] = queue[Earlier(a, 1)]
  BY <1>2, <1>3, TailEntries
<1>5. /\ \A a \in 1 .. Len(queue) : ~Specific(queue[a])
      /\ 1 \in 1 .. Len(queue)
  <2>1. \A a \in DOMAIN queue : ~Specific(queue[a])
    BY <1>2 DEF Inv, RequestsKept, PhaseOfQueue
  <2> QED BY <1>3, <1>4, <2>1
<1>6. i \in Nat /\ (i \in Slot => master[i] = NoModule)
  BY <1>1 DEF FirstFree, Slot, Inv, TypeOK
<1>7. /\ first_avail' \in 0 .. size'
      /\ \A s \in 0 .. first_avail' - 1 : s \in Slot /\ master[s] # NoModule
  BY <1>1 DEF Inv, TypeOK, BelowFirstAvailOccupied, SizeFor, Slot, FirstFree
<1>8. /\ master' \in [Slot' -> Handle \cup {NoModule}] /\ size' \in Nat
      /\ BelowFirstAvailOccupied' /\ SlotIsOwn'
      /\ QueuedOnce' /\ QueuedHasNoSlot' /\ HolderIsKnown'
      /\ SpecificsDiffer' /\ SpecificIsFree'
  BY <1>1, <1>2, <1>4, <1>5, <1>6, <1>7, SlotAssigned
<1>9. TypeOK'
  BY <1>1, <1>2, <1>4, <1>6, <1>7, <1>8 DEF Inv, TypeOK
<1>10. PhaseOfQueue'
  <2>1. \A a \in 1 .. Len(queue) - 1 : ~Specific(queue'[a])
    BY <1>4, <1>5
  <2> QED BY <2>1, <1>2, <1>4, LenProperties DEF PhaseOfQueue, Specific
<1> QED BY <1>8, <1>9, <1>10 DEF Inv, RequestsKept

(* DSBT_release_entry frees the slots of the module that is unloaded and     *)
(* moves the cached scan start back when it has to.                         *)
LEMMA ReleaseInv ==
  ASSUME Inv, NEW h \in Handle, Release(h)
  PROVE  Inv'
<1>1. /\ UNCHANGED << queue, size, assigned, known, pc, Slot >> /\ pc = "idle"
      /\ memory' \subseteq memory /\ clean' = (clean /\ queue = << >>)
      /\ master' = [i \in Slot |-> IF master[i] = h THEN NoModule ELSE master[i]]
      /\ first_avail' = AvailAfterRelease(h)
  BY DEF Release, SlotsWithout, Slot
<1>2. /\ master' \in [Slot -> Handle \cup {NoModule}]
      /\ \A i \in Slot : master'[i] = master[i] \/ (master[i] = h /\ master'[i] = NoModule)
  BY <1>1 DEF Inv, TypeOK
<1>3. /\ first_avail' \in 0 .. size
      /\ \A i \in 0 .. first_avail' - 1 : i < first_avail /\ i \in Slot /\ master[i] # h
  <2>1. h # NoModule /\ first_avail \in 0 .. size /\ size \in Nat
    BY DsbtAssumption DEF Inv, TypeOK
  <2>2. CASE \E i \in Slot : master[i] = h /\ i < first_avail
    <3>1. PICK i \in Slot : master[i] = h /\ i < first_avail
      BY <2>2
    <3>2. \A j \in Slot : master[j] = h => j = i
      BY <3>1, <2>1 DEF Inv, SlotIsOwn
    <3>3. first_avail' = i
      BY <2>2, <3>1, <3>2, <1>1 DEF AvailAfterRelease
    <3> QED BY <3>1, <3>2, <3>3, <2>1 DEF Slot
  <2>3. CASE ~\E i \in Slot : master[i] = h /\ i < first_avail
    <3>1. first_avail' = first_avail
      BY <2>3, <1>1 DEF AvailAfterRelease
    <3> QED BY <3>1, <2>1, <2>3 DEF Slot
  <2> QED BY <2>2, <2>3
<1>4. TypeOK'
  BY <1>1, <1>2, <1>3 DEF Inv, TypeOK
<1>5. BelowFirstAvailOccupied'
  <2>1. ASSUME NEW i \in 0 .. first_avail' - 1 PROVE master'[i] # NoModule
    <3>0. first_avail \in Nat /\ first_avail' \in Nat
      BY <1>3 DEF Inv, TypeOK
    <3>1. i < first_avail /\ i \in Slot /\ master[i] # h
      BY <1>3
    <3>2. master[i] # NoModule
      BY <3>0, <3>1 DEF Inv, BelowFirstAvailOccupied
    <3> QED BY <3>1, <3>2, <1>2
  <2> QED BY <2>1 DEF BelowFirstAvailOccupied
<1>6. SlotIsOwn'
  BY <1>1, <1>2 DEF Inv, SlotIsOwn, Specific
<1>7. QueuedOnce' /\ SpecificsDiffer' /\ PhaseOfQueue'
  BY <1>1 DEF Inv, RequestsKept, QueuedOnce, SpecificsDiffer, PhaseOfQueue, Specific
<1>8. QueuedHasNoSlot'
  <2>1. \A a \in DOMAIN queue : queue[a] # NoModule
    BY ElementOfSeq, LenProperties, DsbtAssumption DEF Inv, TypeOK
  <2> QED BY <2>1, <1>1, <1>2 DEF Inv, RequestsKept, QueuedHasNoSlot
<1>9. HolderIsKnown' /\ SpecificIsFree'
  BY <1>1, <1>2 DEF Inv, RequestsKept, HolderIsKnown, SpecificIsFree, Specific
<1> QED BY <1>4, <1>5, <1>6, <1>7, <1>8, <1>9 DEF Inv, RequestsKept

(* Every step of the loader and of its client keeps the invariant.          *)
LEMMA NextInv == Inv /\ [Next]_vars => Inv'
<1> SUFFICES ASSUME Inv, [Next]_vars PROVE Inv'
  OBVIOUS
<1>1. ASSUME NEW h \in Handle, Register(h) PROVE Inv'
  BY <1>1, RegisterInv
<1>2. ASSUME NEW h \in Handle, RefuseRequest(h) PROVE Inv'
  BY <1>2, RefuseRequestInv
<1>3. ASSUME NEW h \in Handle, Release(h) PROVE Inv'
  BY <1>3, ReleaseInv
<1>4. CASE BeginAssign
  BY <1>4, PhaseInv DEF BeginAssign, PhaseOfQueue
<1>5. CASE AssignSpecific
  BY <1>5, AssignSpecificInv
<1>6. CASE SpecificsDone
  BY <1>6, PhaseInv DEF SpecificsDone, PhaseOfQueue, Specific
<1>7. CASE AssignGeneral
  BY <1>7, AssignGeneralInv
<1>8. CASE AssignDone
  BY <1>8, PhaseInv DEF AssignDone, PhaseOfQueue, Inv, RequestsKept, Specific
<1>9. CASE UpdateAll
  BY <1>9, PhaseInv DEF UpdateAll, PhaseOfQueue
<1>10. CASE UNCHANGED vars
  BY <1>10, PhaseInv DEF vars, master_vars, PhaseOfQueue, Inv, RequestsKept, TypeOK, Specific
<1> QED BY <1>1, <1>2, <1>3, <1>4, <1>5, <1>6, <1>7, <1>8, <1>9, <1>10 DEF Next
-----------------------------------------------------------------------------
(* TypeOK, BelowFirstAvailOccupied, SlotIsOwn and RequestsKept hold in      *)
(* every state DLIF_register_dsbt_index_request, DLIF_assign_dsbt_indices,  *)
(* DLIF_update_all_dsbts and DSBT_release_entry reach together.            *)
THEOREM Invariance == Spec => []Inv
<1>1. Init => Inv
  BY InitInv
<1>2. Inv /\ [Next]_vars => Inv'
  BY NextInv
<1> QED BY <1>1, <1>2, PTL DEF Spec

(* The type invariant, for every set of modules and requests.              *)
THEOREM TypeCorrect == Spec => []TypeOK
<1>1. Inv => TypeOK
  BY DEF Inv
<1> QED BY <1>1, Invariance, PTL

(* DSBT_first_avail_index never passes an available slot, so the scan for a *)
(* general request finds the lowest available one.                         *)
THEOREM FirstAvailable == Spec => []BelowFirstAvailOccupied
<1>1. Inv => BelowFirstAvailOccupied
  BY DEF Inv
<1> QED BY <1>1, Invariance, PTL

(* No module has two slots, and a module that asked for a specific index    *)
(* has that one or none.                                                   *)
THEOREM SlotOwnership == Spec => []SlotIsOwn
<1>1. Inv => SlotIsOwn
  BY DEF Inv
<1> QED BY <1>1, Invariance, PTL

(* What register checked when it queued a request still holds when its      *)
(* slot is assigned, however many loads and unloads come between.          *)
THEOREM QueueKept == Spec => []RequestsKept
<1>1. Inv => RequestsKept
  BY DEF Inv
<1> QED BY <1>1, Invariance, PTL

(* DLIF_get_dsbt_index knows the slot of every module that made a general   *)
(* request, as long as the module holds it.                                *)
THEOREM IndexAnswered == Spec => []GeneralKnowsIndex
<1>1. Init => GeneralKnowsIndex
  BY DEF Init, Slot, GeneralKnowsIndex
<1>2. ASSUME Inv, GeneralKnowsIndex, [Next]_vars PROVE GeneralKnowsIndex'
  <2>1. CASE AssignSpecific
    <3>1. PICK i \in DOMAIN queue :
             /\ FirstSpecific(i)
             /\ size' = SizeFor(Requested[queue[i]])
             /\ master' = PutAt(queue[i], Requested[queue[i]], SizeFor(Requested[queue[i]]))
             /\ assigned' = [assigned EXCEPT ![queue[i]] = assigned[queue[i]]]
      BY <2>1 DEF AssignSpecific, SlotOfSpecific, IndexOfSpecific
    <3>2. Specific(queue[i]) /\ queue[i] \in Handle /\ Requested[queue[i]] \in Nat
      BY <3>1, <1>2, ElementOfSeq, LenProperties, DsbtAssumption
      DEF FirstSpecific, Specific, Inv, TypeOK
    <3>3. assigned' = assigned
      BY <3>1, <1>2 DEF Inv, TypeOK
    <3>4. \A s \in Slot' : master'[s] \in {queue[i], NoModule} \/ (s \in Slot /\ master'[s] = master[s])
      BY <3>1, <3>2, <1>2, PutAtSlots DEF Inv
    <3> QED BY <3>2, <3>3, <3>4, <1>2 DEF GeneralKnowsIndex, Specific
  <2>2. CASE AssignGeneral
    <3>1. PICK i \in 0 .. size :
             /\ size' = SizeFor(i)
             /\ master' = PutAt(Head(queue), i, SizeFor(i))
             /\ assigned' = [assigned EXCEPT ![Head(queue)] = i]
      BY <2>2 DEF AssignGeneral, IndexOfGeneral
    <3>2. /\ Head(queue) \in Handle /\ i \in Nat
          /\ \A s \in Slot : master[s] # Head(queue)
      BY <2>2, <1>2, TailEntries, LenProperties
      DEF AssignGeneral, Inv, TypeOK, RequestsKept, QueuedHasNoSlot
    <3>3. \A h \in Handle : assigned'[h] = IF h = Head(queue) THEN i ELSE assigned[h]
      BY <3>1, <3>2, <1>2 DEF Inv, TypeOK
    <3>4. \A s \in Slot' : \/ s = i /\ master'[s] = Head(queue)
                           \/ master'[s] = NoModule
                           \/ s \in Slot /\ master'[s] = master[s]
      BY <3>1, <3>2, <1>2, PutAtSlots DEF Inv
    <3>5. \A s \in Slot : master[s] \in Handle \cup {NoModule}
      BY <1>2 DEF Inv, TypeOK
    <3> QED BY <3>2, <3>3, <3>4, <3>5, <1>2 DEF GeneralKnowsIndex, Specific
  <2>3. ASSUME NEW h \in Handle, Release(h) PROVE GeneralKnowsIndex'
    BY <2>3, <1>2 DEF Release, SlotsWithout, GeneralKnowsIndex, Specific, Slot
  <2>4. CASE UNCHANGED << size, master, assigned >>
    BY <2>4, <1>2 DEF GeneralKnowsIndex, Specific, Slot
  <2> QED BY <1>2, <2>1, <2>2, <2>3, <2>4
      DEF Next, vars, master_vars, Register, RefuseRequest, BeginAssign,
          SpecificsDone, AssignDone, UpdateAll
<1> QED BY <1>1, <1>2, Invariance, PTL DEF Spec

(* Assigning never overwrites the slot of a module that still holds it,     *)
(* although the check for a conflict is made when the request is queued,    *)
(* many loads and unloads before the assignment.                           *)
THEOREM NoTakeOver == Spec => SlotNeverTakenOver
<1> DEFINE Kept == \A i \in Slot : master[i] # NoModule => master'[i] \in {master[i], NoModule}
<1>1. ASSUME Inv, [Next]_vars PROVE Kept
  <2>1. CASE AssignSpecific
    <3>1. PICK i \in DOMAIN queue :
             /\ FirstSpecific(i)
             /\ size' = SizeFor(Requested[queue[i]])
             /\ master' = PutAt(queue[i], Requested[queue[i]], SizeFor(Requested[queue[i]]))
      BY <2>1 DEF AssignSpecific, SlotOfSpecific
    <3>2. Specific(queue[i]) /\ queue[i] \in Handle /\ Requested[queue[i]] \in Nat
      BY <3>1, <1>1, ElementOfSeq, LenProperties, DsbtAssumption
      DEF FirstSpecific, Specific, Inv, TypeOK
    <3>3. Requested[queue[i]] \in Slot => master[Requested[queue[i]]] = NoModule
      BY <3>2, <1>1 DEF Inv, RequestsKept, SpecificIsFree
    <3>4. \A s \in Slot : s # Requested[queue[i]] => master'[s] = master[s]
      BY <3>1, <3>2, <1>1, PutAtSlots DEF Inv
    <3> QED BY <3>3, <3>4
  <2>2. CASE AssignGeneral
    <3>1. PICK i \in 0 .. size :
             /\ FirstFree(i)
             /\ size' = SizeFor(i)
             /\ master' = PutAt(Head(queue), i, SizeFor(i))
      BY <2>2 DEF AssignGeneral
    <3>2. Head(queue) \in Handle /\ i \in Nat
      BY <2>2, <1>1, TailEntries DEF AssignGeneral, Inv, TypeOK
    <3>3. i \in Slot => master[i] = NoModule
      BY <3>1, <1>1 DEF FirstFree, Slot, Inv, TypeOK
    <3>4. \A s \in Slot : s # i => master'[s] = master[s]
      BY <3>1, <3>2, <1>1, PutAtSlots DEF Inv
    <3> QED BY <3>3, <3>4
  <2>3. ASSUME NEW h \in Handle, Release(h) PROVE Kept
    BY <2>3 DEF Release, SlotsWithout
  <2>4. CASE UNCHANGED master
    BY <2>4
  <2> QED BY <1>1, <2>1, <2>2, <2>3, <2>4
      DEF Next, vars, master_vars, Register, RefuseRequest, BeginAssign,
          SpecificsDone, AssignDone, UpdateAll
<1>2. Inv /\ [Next]_vars => [Kept]_vars
  BY <1>1
<1> QED BY <1>2, Invariance, PTL DEF Spec, SlotNeverTakenOver
-----------------------------------------------------------------------------
(* As long as no load failed the modules in memory are those with a slot   *)
(* and those whose request is queued.                                      *)
HoldOrWait == clean => memory = Holders \cup ToSet(queue)

(* The modules that hold a slot are found in the slots.                     *)
LEMMA HoldersAre == \A h : h \in Holders <=> h # NoModule /\ \E s \in Slot : master[s] = h
  BY DEF Holders

(* A request is queued.                                                    *)
LEMMA RegisterWaits ==
  ASSUME Inv, HoldOrWait, NEW h \in Handle, Register(h)
  PROVE  HoldOrWait'
<1>1. /\ UNCHANGED << size, master, clean >> /\ queue' = Append(queue, h) /\ memory' = memory \cup {h}
  BY DEF Register, master_vars
<1>2. ToSet(queue') = ToSet(queue) \cup {h}
  BY <1>1, AppendContains DEF Inv, TypeOK
<1>3. Holders' = Holders
  BY <1>1 DEF Holders, Slot
<1> QED BY <1>1, <1>2, <1>3 DEF HoldOrWait

(* A module leaves the queue for a slot.                                   *)
LEMMA AssignedHolds ==
  ASSUME Inv, HoldOrWait, NEW i \in 1 .. Len(queue), NEW slot \in Nat,
         slot \in Slot => master[slot] = NoModule,
         size' = SizeFor(slot), master' = PutAt(queue[i], slot, SizeFor(slot)),
         queue' \in Seq(Handle), Len(queue') = Len(queue) - 1,
         \A a \in 1 .. Len(queue) - 1 :
            /\ Earlier(a, i) \in 1 .. Len(queue) /\ queue'[a] = queue[Earlier(a, i)],
         memory' = memory, clean' = clean
  PROVE  HoldOrWait'
<1>1. PICK h : h = queue[i]
  OBVIOUS
<1>2. /\ queue \in Seq(Handle) /\ Len(queue) \in Nat /\ DOMAIN queue = 1 .. Len(queue)
      /\ DOMAIN queue' = 1 .. Len(queue) - 1 /\ h \in Handle /\ h # NoModule
  BY <1>1, LenProperties, ElementOfSeq, DsbtAssumption DEF Inv, TypeOK
<1>3. Holders' = Holders \cup {h}
  <2>1. /\ slot \in Slot' /\ Slot \subseteq Slot'
        /\ \A s \in Slot' : master'[s] = IF s = slot THEN h ELSE IF s \in Slot THEN master[s] ELSE NoModule
    BY <1>1, <1>2, PutAtSlots DEF Inv
  <2>2. \A x : x \in Holders' <=> x # NoModule /\ \E s \in Slot' : master'[s] = x
    BY DEF Holders
  <2>3. ASSUME NEW x PROVE x \in Holders' <=> x \in Holders \/ x = h
    BY <1>2, <2>1, <2>2, HoldersAre
  <2> QED BY <2>3
<1>4. \A x : x \in ToSet(queue) <=> x \in ToSet(queue') \/ x = h
  <2>1. ASSUME NEW x, x \in ToSet(queue') PROVE x \in ToSet(queue)
    <3>1. PICK a \in 1 .. Len(queue) - 1 : x = queue'[a]
      BY <1>2, <2>1 DEF ToSet
    <3> QED BY <1>2, <3>1 DEF ToSet
  <2>2. ASSUME NEW x, x \in ToSet(queue), x # h PROVE x \in ToSet(queue')
    <3>1. PICK b \in 1 .. Len(queue) : x = queue[b]
      BY <1>2, <2>2 DEF ToSet
    <3>2. b # i
      BY <1>1, <2>2, <3>1
    <3>3. \E a \in 1 .. Len(queue) - 1 : Earlier(a, i) = b
      <4>1. CASE b < i
        <5>1. PICK n \in Nat : n = Len(queue)
          BY <1>2
        <5>2. i \in 1 .. n /\ b \in 1 .. n
          BY <5>1
        <5>3. b \in 1 .. n - 1
          BY <5>2, <4>1
        <5>4. b \in 1 .. Len(queue) - 1
          BY <5>1, <5>3
        <5> QED BY <5>4, <4>1 DEF Earlier
      <4>2. CASE b > i
        <5>1. b - 1 \in 1 .. Len(queue) - 1 /\ ~(b - 1 < i) /\ b - 1 + 1 = b
          BY <1>2, <4>2
        <5> QED BY <5>1 DEF Earlier
      <4> QED BY <3>2, <4>1, <4>2
    <3> QED BY <1>2, <3>1, <3>3 DEF ToSet
  <2>3. h \in ToSet(queue)
    BY <1>1, <1>2 DEF ToSet
  <2> QED BY <2>1, <2>2, <2>3
<1> QED BY <1>3, <1>4 DEF HoldOrWait

(* A module is unloaded and gives its slot back.                           *)
LEMMA ReleasedHolds ==
  ASSUME Inv, HoldOrWait, NEW h \in Handle, Release(h)
  PROVE  HoldOrWait'
<1>1. /\ UNCHANGED << queue, size, Slot >> /\ memory' = memory \ {h} /\ clean' = (clean /\ queue = << >>)
      /\ master' = [i \in Slot |-> IF master[i] = h THEN NoModule ELSE master[i]]
  BY DEF Release, SlotsWithout, Slot
<1>2. Holders' = Holders \ {h}
  BY <1>1, DsbtAssumption DEF Holders
<1>3. SUFFICES ASSUME clean' PROVE memory' = Holders' \cup ToSet(queue')
  BY DEF HoldOrWait
<1>4. clean /\ ToSet(queue) = {} /\ ToSet(queue') = {}
  <2>1. clean /\ queue = << >>
    BY <1>1, <1>3, Zenon
  <2>2. queue' = << >>
    BY <1>1, <2>1
  <2> QED BY <2>1, <2>2 DEF ToSet
<1>5. memory = Holders
  BY <1>4 DEF HoldOrWait
<1> QED BY <1>1, <1>2, <1>4, <1>5

(* Every step keeps it.                                                    *)
LEMMA HoldOrWaitNext == Inv /\ HoldOrWait /\ [Next]_vars => HoldOrWait'
<1> SUFFICES ASSUME Inv, HoldOrWait, [Next]_vars PROVE HoldOrWait'
  OBVIOUS
<1>1. ASSUME NEW h \in Handle, Register(h) PROVE HoldOrWait'
  BY <1>1, RegisterWaits
<1>2. ASSUME NEW h \in Handle, Release(h) PROVE HoldOrWait'
  BY <1>2, ReleasedHolds
<1>3. CASE AssignSpecific
  <2>1. PICK i \in DOMAIN queue :
           /\ FirstSpecific(i)
           /\ size' = SizeFor(Requested[queue[i]])
           /\ master' = PutAt(queue[i], Requested[queue[i]], SizeFor(Requested[queue[i]]))
           /\ queue' = RemoveAt(queue, i)
    BY <1>3 DEF AssignSpecific, SlotOfSpecific
  <2>2. queue \in Seq(Handle) /\ DOMAIN queue = 1 .. Len(queue)
    BY LenProperties DEF Inv, TypeOK
  <2>3. i \in 1 .. Len(queue) /\ queue[i] \in Handle /\ Specific(queue[i]) /\ Requested[queue[i]] \in Nat
    BY <2>1, <2>2, ElementOfSeq, DsbtAssumption DEF FirstSpecific, Specific
  <2>4. Requested[queue[i]] \in Slot => master[Requested[queue[i]]] = NoModule
    BY <2>2, <2>3 DEF Inv, RequestsKept, SpecificIsFree
  <2>5. /\ queue' \in Seq(Handle) /\ Len(queue') = Len(queue) - 1
        /\ \A a \in 1 .. Len(queue) - 1 :
              /\ Earlier(a, i) \in 1 .. Len(queue) /\ queue'[a] = queue[Earlier(a, i)]
    BY <2>1, <2>2, <2>3, RemoveAtEntries
  <2>6. memory' = memory /\ clean' = clean
    BY <1>3 DEF AssignSpecific
  <2> QED BY <2>1, <2>3, <2>4, <2>5, <2>6, AssignedHolds
<1>4. CASE AssignGeneral
  <2>1. PICK i \in 0 .. size :
           /\ FirstFree(i)
           /\ size' = SizeFor(i)
           /\ master' = PutAt(Head(queue), i, SizeFor(i))
    BY <1>4 DEF AssignGeneral
  <2>2. /\ queue \in Seq(Handle) /\ queue # << >> /\ queue' = Tail(queue)
        /\ memory' = memory /\ clean' = clean
    BY <1>4 DEF AssignGeneral, Inv, TypeOK
  <2>3. /\ queue' \in Seq(Handle) /\ Len(queue') = Len(queue) - 1
        /\ Len(queue) \in Nat \ {0} /\ Head(queue) = queue[1]
        /\ \A a \in 1 .. Len(queue) - 1 :
              /\ Earlier(a, 1) \in 1 .. Len(queue) /\ queue'[a] = queue[Earlier(a, 1)]
    BY <2>2, TailEntries
  <2>4. i \in Nat /\ (i \in Slot => master[i] = NoModule) /\ 1 \in 1 .. Len(queue)
    BY <2>1, <2>3 DEF FirstFree, Slot, Inv, TypeOK
  <2> QED BY <2>1, <2>2, <2>3, <2>4, AssignedHolds
<1>5. ASSUME NEW h \in Handle, RefuseRequest(h) PROVE HoldOrWait'
  BY <1>5 DEF RefuseRequest, master_vars, HoldOrWait, Holders, Slot
<1>6. CASE UNCHANGED << queue, size, master, memory, clean >>
  BY <1>6 DEF HoldOrWait, Holders, Slot
<1> QED BY <1>1, <1>2, <1>3, <1>4, <1>5, <1>6
    DEF Next, vars, master_vars, BeginAssign, SpecificsDone, AssignDone, UpdateAll

(* As long as no load failed, after a complete load the modules that hold a *)
(* slot of the master are exactly the modules in memory that asked for one, *)
(* for any number of modules and any history of loads and unloads.         *)
THEOREM SlotsOfMemory == Spec => []SlotsAreModulesInMemory
<1>1. Init => HoldOrWait
  BY DEF Init, HoldOrWait, Holders, Slot, ToSet
<1>2. Inv /\ HoldOrWait /\ [Next]_vars => HoldOrWait'
  BY HoldOrWaitNext
<1>3. HoldOrWait => SlotsAreModulesInMemory
  <2>1. queue = << >> => ToSet(queue) = {}
    BY DEF ToSet
  <2> QED BY <2>1 DEF HoldOrWait, SlotsAreModulesInMemory
<1> QED BY <1>1, <1>2, <1>3, Invariance, PTL DEF Spec

(* Where the table of every module has room for the whole master, after a  *)
(* load the table of each module in use leads to the static base of each.  *)
THEOREM TablesLeadEverywhere == Spec /\ []AllFit => []TablesComplete
<1>1. Init => TablesComplete
  BY DEF Init, TablesComplete, Holders, Slot
<1>2. Inv /\ AllFit /\ TablesComplete /\ [Next]_vars => TablesComplete'
  <2> SUFFICES ASSUME Inv, AllFit, TablesComplete, [Next]_vars PROVE TablesComplete'
    OBVIOUS
  <2>1. CASE UpdateAll
    <3>1. /\ table' = [h \in Handle |-> IF h \in Holders THEN Rewritten(h) ELSE table[h]]
          /\ UNCHANGED << size, master >> /\ Slot' = Slot /\ Holders' = Holders
      BY <2>1 DEF UpdateAll, master_vars, Slot, Holders
    <3>2. ASSUME NEW h \in Holders, NEW i \in Slot, master[i] # NoModule
          PROVE  i \in DOMAIN table'[h] /\ table'[h][i] = master[i]
      <4>1. h \in Handle
        BY DEF Holders, Inv, TypeOK
      <4>2. table'[h] = [j \in Slot |-> IF master[j] # NoModule THEN master[j] ELSE Entry(h, j)]
        BY <3>1, <4>1 DEF Rewritten
      <4> QED BY <3>2, <4>2
    <3> QED BY <3>1, <3>2 DEF TablesComplete, Entry
  <2>2. ASSUME NEW h \in Handle, Release(h) PROVE TablesComplete'
    <3>1. /\ UNCHANGED << size, table, pc, Slot >>
          /\ \A i \in Slot : master'[i] # NoModule => master'[i] = master[i]
      BY <2>2 DEF Release, SlotsWithout, Slot
    <3>2. Holders' \subseteq Holders
      BY <3>1 DEF Holders
    <3> QED BY <3>1, <3>2 DEF TablesComplete, Entry
  <2>3. CASE pc' # "idle"
    BY <2>3 DEF TablesComplete
  <2>4. CASE UNCHANGED << size, master, table, pc >>
    BY <2>4 DEF TablesComplete, Holders, Slot, Entry
  <2> QED BY <2>1, <2>2, <2>3, <2>4
      DEF Next, vars, master_vars, Register, RefuseRequest, BeginAssign, AssignSpecific, SpecificsDone,
          AssignGeneral, AssignDone
<1> QED BY <1>1, <1>2, Invariance, PTL DEF Spec
===============================================================================
