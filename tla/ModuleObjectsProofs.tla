------------------------ MODULE ModuleObjectsProofs -------------------------
(***************************************************************************)
(* Proofs about ModuleObjects, for every module, number of events and      *)
(* items.                                                                  *)
(***************************************************************************)
EXTENDS ModuleObjects, TLAPS

\* A call is under way.
Busy == pc \in {"unmarshal", "rules", "crashed"}

\* Values are of events that have arrived, and a callback runs on an event that
\* nothing was stored or cleared for before it.
EventsInOrder ==
    /\ Busy => event > 0
    /\ \A s \in Slots : stored[s] <= event
    /\ cleared <= event
    /\ pc = "unmarshal" => cleared < event
    /\ pc = "unmarshal" => \A s \in Slots : stored[s] = event => written # {}

\* FieldsAreFresh at all times: what the object holds is of an event that failed
\* half way since the last clearing, or of the event under way.
OnlyPending ==
    \A s \in Slots \ Nested :
        \/ stored[s] = 0
        \/ stored[s] \in spoilt /\ stored[s] > cleared
        \/ Busy /\ stored[s] = event

\* NothingLeft at all times: blocks belong to slots that hold pointers, and those
\* of the event under way are still pointed to.
Accounted ==
    \A b \in live :
        /\ Holder(b.slot)
        /\ \/ b.event \in spoilt
           \/ b.slot \in Nested
           \/ b.slot.index > 0 /\ b.slot.sub = NoName
           \/ Busy /\ b.event = event /\ stored[b.slot] = event

IInv == EventsInOrder /\ OnlyPending /\ Accounted

-----------------------------------------------------------------------------
\* The slots that clearing leaves out, those of arrays and those of items are slots.
LEMMA SlotFacts ==
    /\ Nested \subseteq Slots
    /\ \A f \in Arrays : Slot(f, 0, NoName) \in Slots
    /\ \A f \in Arrays, i \in 1..MaxItems : ItemSlots(f, i) \subseteq Slots
    /\ \A s \in Slots : s = Slot(s.field, s.index, s.sub) /\ s.index \in Nat
    /\ \A s \in Nested : s.field \in Variables \ Arrays
<1>1. Nested \subseteq Slots
    BY DEF Slots
<1>2. \A f \in Arrays : Slot(f, 0, NoName) \in Slots
    BY DEF Slots, Arrays
<1>3. \A f \in Arrays, i \in 1..MaxItems : ItemSlots(f, i) \subseteq Slots
    BY DEF Slots
<1>4. \A f, i, g : Slot(f, i, g).field = f /\ Slot(f, i, g).index = i /\ Slot(f, i, g).sub = g
    BY DEF Slot
<1>5. \A s \in Nested : \E f \in Variables \ Arrays : \E g : s = Slot(f, 0, g)
    BY DEF Nested
<1>6. \A s \in Slots : s = Slot(s.field, s.index, s.sub) /\ s.index \in Nat
    <2> SUFFICES ASSUME NEW s \in Slots
                 PROVE  \E f, g : \E i \in Nat : s = Slot(f, i, g)
        BY <1>4
    <2>1. CASE s \in {Slot(f, 0, NoName) : f \in Variables}
        BY <2>1
    <2>2. CASE s \in Nested
        BY <2>2, <1>5
    <2>3. CASE s \in UNION {ItemSlots(f, i) : f \in Arrays, i \in 1..MaxItems}
        <3>1. PICK f \in Arrays, i \in 1..MaxItems : s \in ItemSlots(f, i)
            BY <2>3
        <3>2. i \in Nat /\ \E g : s = Slot(f, i, g)
            BY <3>1, ObjectsAssumption DEF ItemSlots
        <3> QED BY <3>2
    <2> QED BY <2>1, <2>2, <2>3 DEF Slots
<1>7. \A s \in Nested : s.field \in Variables \ Arrays
    BY <1>4, <1>5
<1> QED BY <1>1, <1>2, <1>3, <1>6, <1>7

\* The slots that appending an item stores in.
LEMMA AppendSlots ==
    ASSUME TypeOK, NEW f \in Arrays, NEW set \in SUBSET SubsOf(f), length[f] < MaxItems
    PROVE  /\ length[f] + 1 \in 1..MaxItems
           /\ Item(f, length[f] + 1, set) \subseteq ItemSlots(f, length[f] + 1)
           /\ Item(f, length[f] + 1, set) \cup NullArray(f) \subseteq Slots
<1>1. length[f] + 1 \in 1..MaxItems
    BY ObjectsAssumption DEF TypeOK
<1>2. Item(f, length[f] + 1, set) \subseteq ItemSlots(f, length[f] + 1)
    BY DEF Item, ItemSlots
<1>3. NullArray(f) \subseteq Slots
    BY SlotFacts DEF NullArray
<1> QED BY <1>1, <1>2, <1>3, SlotFacts

\* A step of the callback that stores stores in slots of the module.
LEMMA StoringSteps ==
    ASSUME TypeOK,
           \/ \E s \in Slots : ac_module_set_field(s)
           \/ \E f \in Arrays : \E set \in SUBSET SubsOf(f) : ac_module_array_field_append(f, set)
    PROVE  pc = "unmarshal" /\ \E S \in SUBSET Slots : S # {} /\ Store(S)
<1>1. CASE \E s \in Slots : ac_module_set_field(s)
    BY <1>1 DEF ac_module_set_field
<1>2. CASE \E f \in Arrays : \E set \in SUBSET SubsOf(f) : ac_module_array_field_append(f, set)
    <2>1. PICK f \in Arrays : \E set \in SUBSET SubsOf(f) : ac_module_array_field_append(f, set)
        BY <1>2
    <2>2. PICK set \in SUBSET SubsOf(f) : ac_module_array_field_append(f, set)
        BY <2>1
    <2>3. length[f] < MaxItems /\ pc = "unmarshal"
        BY <2>2 DEF ac_module_array_field_append
    <2>4. Store(Item(f, length[f] + 1, set) \cup NullArray(f))
        BY <2>2 DEF ac_module_array_field_append
    <2>5. Slot(f, length[f] + 1, NoName) \in Item(f, length[f] + 1, set)
        BY DEF Item
    <2>6. Item(f, length[f] + 1, set) \cup NullArray(f) \in SUBSET Slots
        BY <2>3, AppendSlots
    <2> QED BY <2>3, <2>4, <2>5, <2>6
<1> QED BY <1>1, <1>2

-----------------------------------------------------------------------------
(* Type correctness *)

\* A loaded module has its type.
LEMMA TypeInit == ASSUME Init PROVE TypeOK
BY ObjectsAssumption DEF Init, TypeOK, Variables

\* What a callback stores is of the event under way, in slots of the module.
LEMMA StoreType ==
    ASSUME TypeOK, EventsInOrder, pc = "unmarshal", NEW S \in SUBSET Slots, Store(S)
    PROVE  /\ pc' = "unmarshal" /\ event' = event
           /\ stored' \in [Slots -> 0..MaxEvents]
           /\ live' \subseteq [event: 1..MaxEvents, slot: Slots]
           /\ written' \subseteq Slots /\ spoilt' = spoilt /\ cleared' = cleared
<1>1. event \in 1..MaxEvents
    BY ObjectsAssumption DEF TypeOK, EventsInOrder, Busy
<1>2. stored' \in [Slots -> 0..MaxEvents]
    BY <1>1 DEF Store, TypeOK
<1>3. live' \subseteq [event: 1..MaxEvents, slot: Slots]
    BY <1>1 DEF Store, TypeOK, Block
<1> QED BY <1>2, <1>3 DEF Store, TypeOK

\* Every step keeps the types.
LEMMA TypeStep == ASSUME TypeOK, EventsInOrder, [Next]_vars PROVE TypeOK'
<1>1. CASE ac_context_object_unmarshal_evtdata
    BY <1>1, ObjectsAssumption DEF ac_context_object_unmarshal_evtdata, TypeOK
<1>2. CASE \E s \in Slots : ac_module_set_field(s)
    <2>1. PICK s \in Slots : ac_module_set_field(s)
        BY <1>2
    <2>2. Store({s}) /\ pc = "unmarshal" /\ length' = length
        BY <2>1 DEF ac_module_set_field
    <2> QED BY <2>2, StoreType DEF TypeOK
<1>3. CASE \E f \in Arrays : \E set \in SUBSET SubsOf(f) : ac_module_array_field_append(f, set)
    <2>1. PICK f \in Arrays : \E set \in SUBSET SubsOf(f) : ac_module_array_field_append(f, set)
        BY <1>3
    <2>2. PICK set \in SUBSET SubsOf(f) : ac_module_array_field_append(f, set)
        BY <2>1
    <2>3. /\ pc = "unmarshal" /\ length[f] < MaxItems
          /\ length' = [length EXCEPT ![f] = length[f] + 1]
        BY <2>2 DEF ac_module_array_field_append
    <2>4. length' \in [Arrays -> 0..MaxItems]
        BY <2>3, ObjectsAssumption DEF TypeOK
    <2>5. PICK S \in SUBSET Slots : Store(S)
        BY <1>3, StoringSteps
    <2> QED BY <2>3, <2>4, <2>5, StoreType DEF TypeOK
<1>4. CASE UnmarshalSucceeds
    BY <1>4 DEF UnmarshalSucceeds, TypeOK
<1>5. CASE UnmarshalFails
    <2>1. event \in 1..MaxEvents
        BY <1>5, ObjectsAssumption DEF UnmarshalFails, TypeOK, EventsInOrder, Busy
    <2> QED BY <1>5, <2>1 DEF UnmarshalFails, TypeOK
<1>6. CASE ac_context_object_clear_module_data
    <2>1. CASE FreesLength
        BY <1>6, <2>1 DEF ac_context_object_clear_module_data, TypeOK
    <2>2. CASE ~FreesLength
        BY <1>6, <2>2, ObjectsAssumption
        DEF ac_context_object_clear_module_data, TypeOK, ClearedLength
    <2> QED BY <2>1, <2>2
<1>7. CASE UNCHANGED vars
    BY <1>7 DEF vars, TypeOK
<1> QED BY <1>1, <1>2, <1>3, <1>4, <1>5, <1>6, <1>7 DEF Next
-----------------------------------------------------------------------------
(* What is stored, and what is allocated *)

\* The steps of the object, those that store in one.
LEMMA Steps ==
    ASSUME TypeOK, [Next]_vars
    PROVE  \/ ac_context_object_unmarshal_evtdata
           \/ pc = "unmarshal" /\ \E S \in SUBSET Slots : S # {} /\ Store(S)
           \/ UnmarshalSucceeds
           \/ UnmarshalFails
           \/ ac_context_object_clear_module_data
           \/ UNCHANGED vars
BY StoringSteps DEF Next

\* Clearing either stops the program before it has changed anything, or completes.
LEMMA ClearSteps ==
    ASSUME ac_context_object_clear_module_data
    PROVE  /\ pc = "rules" /\ event' = event /\ written' = written /\ spoilt' = spoilt
           /\ \/ pc' = "crashed" /\ UNCHANGED <<stored, length, live, cleared>>
              \/ /\ pc' = "idle" /\ cleared' = event
                 /\ stored' = [s \in Slots |-> IF s \in Nested THEN stored[s] ELSE 0]
                 /\ length' = [f \in Arrays |-> 0]
                 /\ live' = live \ {Block(stored[s], s) :
                                      s \in {t \in Slots : Entered(t) /\ Freed(t)}}
<1>1. CASE FreesLength
    BY <1>1 DEF ac_context_object_clear_module_data
<1>2. CASE ~FreesLength
    BY <1>2 DEF ac_context_object_clear_module_data, Entered, Zeroed, ClearedLength
<1> QED BY <1>1, <1>2

\* Events arrive one after the other, and no value is of one yet to come.
LEMMA OrderStep == ASSUME TypeOK, EventsInOrder, [Next]_vars PROVE EventsInOrder'
<1> USE DEF EventsInOrder, Busy
<1>0. event \in Nat /\ cleared \in Nat /\ stored \in [Slots -> Nat]
    BY ObjectsAssumption DEF TypeOK
<1>1. CASE ac_context_object_unmarshal_evtdata
    <2>1. event' = event + 1 /\ stored' = stored /\ cleared' = cleared
        BY <1>1 DEF ac_context_object_unmarshal_evtdata
    <2> QED BY <1>0, <2>1
<1>2. CASE pc = "unmarshal" /\ \E S \in SUBSET Slots : S # {} /\ Store(S)
    <2>1. PICK S \in SUBSET Slots : S # {} /\ Store(S)
        BY <1>2
    <2>2. pc' = pc /\ event' = event /\ cleared' = cleared /\ written' # {}
        BY <2>1 DEF Store
    <2>3. \A s \in Slots : stored'[s] <= event'
        BY <1>0, <2>1 DEF Store
    <2> QED BY <1>2, <2>2, <2>3
<1>3. CASE UnmarshalSucceeds
    BY <1>3 DEF UnmarshalSucceeds
<1>4. CASE UnmarshalFails
    BY <1>4 DEF UnmarshalFails
<1>5. CASE ac_context_object_clear_module_data
    <2>1. CASE pc' = "crashed" /\ UNCHANGED <<stored, cleared>>
        BY <1>5, <2>1, ClearSteps
    <2>2. CASE /\ pc' = "idle" /\ cleared' = event
               /\ stored' = [s \in Slots |-> IF s \in Nested THEN stored[s] ELSE 0]
        BY <1>0, <1>5, <2>2, ClearSteps
    <2> QED BY <1>5, <2>1, <2>2, ClearSteps
<1>6. CASE UNCHANGED vars
    BY <1>6 DEF vars
<1> QED BY <1>1, <1>2, <1>3, <1>4, <1>5, <1>6, Steps

\* A step leaves values of older events only where a failed callback left them.
LEMMA PendingStep ==
    ASSUME TypeOK, EventsInOrder, OnlyPending, [Next]_vars
    PROVE  OnlyPending'
<1> USE DEF OnlyPending, Busy
<1>1. CASE ac_context_object_unmarshal_evtdata
    BY <1>1 DEF ac_context_object_unmarshal_evtdata
<1>2. CASE pc = "unmarshal" /\ \E S \in SUBSET Slots : S # {} /\ Store(S)
    <2>1. PICK S \in SUBSET Slots : S # {} /\ Store(S)
        BY <1>2
    <2>2. \A s \in Slots : stored'[s] \in {event, stored[s]}
        BY <2>1 DEF Store
    <2> QED BY <1>2, <2>1, <2>2 DEF Store
<1>3. CASE UnmarshalSucceeds
    BY <1>3 DEF UnmarshalSucceeds
<1>4. CASE UnmarshalFails
    <2>1. /\ pc = "unmarshal" /\ stored' = stored /\ cleared' = cleared
          /\ spoilt' = IF written = {} THEN spoilt ELSE spoilt \cup {event}
        BY <1>4 DEF UnmarshalFails
    <2> SUFFICES ASSUME NEW s \in Slots \ Nested, stored[s] # 0
                 PROVE  stored[s] \in spoilt' /\ stored[s] > cleared
        BY <2>1
    <2>2. CASE stored[s] = event
        BY <2>1, <2>2 DEF EventsInOrder, TypeOK
    <2>3. CASE stored[s] # event
        BY <2>1, <2>3
    <2> QED BY <2>2, <2>3
<1>5. CASE ac_context_object_clear_module_data
    BY <1>5, ClearSteps
<1>6. CASE UNCHANGED vars
    BY <1>6 DEF vars
<1> QED BY <1>1, <1>2, <1>3, <1>4, <1>5, <1>6, Steps

\* What clearing has freed is not left: the pointer to it was found.
LEMMA ClearFrees ==
    ASSUME TypeOK, NEW b \in live, Holder(b.slot), b.slot \notin Nested,
           ~(b.slot.index > 0 /\ b.slot.sub = NoName), stored[b.slot] = b.event
    PROVE  b \in {Block(stored[s], s) : s \in {t \in Slots : Entered(t) /\ Freed(t)}}
<1>1. b.slot \in Slots /\ b = Block(b.event, b.slot)
    BY DEF TypeOK, Block
<1>2. Entered(b.slot) /\ Freed(b.slot)
    BY DEF Entered, Freed
<1> QED BY <1>1, <1>2

\* A block of the event under way stays pointed to until it is freed.
LEMMA AccountedStep ==
    ASSUME TypeOK, EventsInOrder, Accounted, [Next]_vars
    PROVE  Accounted'
<1>1. CASE ac_context_object_unmarshal_evtdata
    BY <1>1 DEF ac_context_object_unmarshal_evtdata, Accounted, Busy
<1>2. CASE pc = "unmarshal" /\ \E S \in SUBSET Slots : S # {} /\ Store(S)
    <2>1. PICK S \in SUBSET Slots : S # {} /\ Store(S)
        BY <1>2
    <2>2. /\ pc' = pc /\ event' = event /\ spoilt' = spoilt
          /\ live' = live \cup {Block(event, s) : s \in {t \in S : Holder(t)}}
        BY <2>1 DEF Store
    <2>3. \A s \in Slots : stored'[s] = IF s \in S THEN event ELSE stored[s]
        BY <2>1 DEF Store
    <2> SUFFICES ASSUME NEW b \in live'
                 PROVE  /\ Holder(b.slot)
                        /\ \/ b.event \in spoilt
                           \/ b.slot \in Nested
                           \/ b.slot.index > 0 /\ b.slot.sub = NoName
                           \/ b.event = event /\ stored'[b.slot] = event
        BY <1>2, <2>2 DEF Accounted, Busy
    <2>4. CASE b \in live
        BY <2>3, <2>4 DEF Accounted, TypeOK
    <2>5. CASE b \notin live
        <3>1. PICK s \in S : Holder(s) /\ b = Block(event, s)
            BY <2>2, <2>5
        <3>2. b.slot = s /\ b.event = event
            BY <3>1 DEF Block
        <3> QED BY <2>3, <3>1, <3>2
    <2> QED BY <2>4, <2>5
<1>3. CASE UnmarshalSucceeds
    BY <1>3 DEF UnmarshalSucceeds, Accounted, Busy
<1>4. CASE UnmarshalFails
    <2>1. /\ pc = "unmarshal" /\ live' = live
          /\ spoilt' = IF written = {} THEN spoilt ELSE spoilt \cup {event}
        BY <1>4 DEF UnmarshalFails
    <2>2. \A b \in live : b.slot \in Slots
        BY DEF TypeOK
    <2> QED BY <2>1, <2>2 DEF Accounted, EventsInOrder
<1>5. CASE ac_context_object_clear_module_data
    <2>1. CASE pc' = "crashed" /\ UNCHANGED <<stored, live>>
        BY <1>5, <2>1, ClearSteps DEF Accounted, Busy
    <2>2. CASE live' = live \ {Block(stored[s], s) :
                                   s \in {t \in Slots : Entered(t) /\ Freed(t)}}
        BY <1>5, <2>2, ClearSteps, ClearFrees DEF Accounted
    <2> QED BY <1>5, <2>1, <2>2, ClearSteps
<1>6. CASE UNCHANGED vars
    BY <1>6 DEF vars, Accounted, Busy
<1> QED BY <1>1, <1>2, <1>3, <1>4, <1>5, <1>6, Steps

\* No step leaves a pointer to what it frees.
LEMMA PointersStep ==
    ASSUME TypeOK, PointersAreLive, [Next]_vars
    PROVE  PointersAreLive'
<1>1. CASE ac_context_object_unmarshal_evtdata
    BY <1>1 DEF ac_context_object_unmarshal_evtdata, PointersAreLive
<1>2. CASE pc = "unmarshal" /\ \E S \in SUBSET Slots : S # {} /\ Store(S)
    <2>1. PICK S \in SUBSET Slots : Store(S)
        BY <1>2
    <2>2. \A s \in Slots : stored'[s] = IF s \in S THEN event ELSE stored[s]
        BY <2>1 DEF Store
    <2>3. live' = live \cup {Block(event, s) : s \in {t \in S : Holder(t)}}
        BY <2>1 DEF Store
    <2> QED BY <1>2, <2>2, <2>3 DEF PointersAreLive
<1>3. CASE UnmarshalSucceeds
    BY <1>3 DEF UnmarshalSucceeds, PointersAreLive
<1>4. CASE UnmarshalFails
    BY <1>4 DEF UnmarshalFails, PointersAreLive
<1>5. CASE ac_context_object_clear_module_data
    <2>1. CASE pc' = "crashed"
        BY <2>1 DEF PointersAreLive
    <2>2. CASE /\ stored' = [s \in Slots |-> IF s \in Nested THEN stored[s] ELSE 0]
               /\ live' = live \ {Block(stored[s], s) :
                                    s \in {t \in Slots : Entered(t) /\ Freed(t)}}
        <3> SUFFICES ASSUME NEW s \in Slots, Holder(s), stored'[s] # 0
                     PROVE  Block(stored'[s], s) \in live'
            BY DEF PointersAreLive
        <3>1. s \in Nested /\ stored'[s] = stored[s]
            BY <2>2
        <3>2. Block(stored[s], s) \in live
            BY <1>5, <3>1, ClearSteps DEF PointersAreLive
        <3>3. \A t \in Slots : Entered(t) => Block(stored[t], t) # Block(stored[s], s)
            BY <3>1 DEF Entered, Block
        <3> QED BY <2>2, <3>1, <3>2, <3>3
    <2> QED BY <1>5, <2>1, <2>2, ClearSteps
<1>6. CASE UNCHANGED vars
    BY <1>6 DEF vars, PointersAreLive
<1> QED BY <1>1, <1>2, <1>3, <1>4, <1>5, <1>6, Steps

\* An append and a clearing leave every array whole.
LEMMA ArraysStep ==
    ASSUME TypeOK, EventsInOrder, ArraysAreWhole, [Next]_vars
    PROVE  ArraysAreWhole'
<1>0. \A f \in Arrays : /\ Slot(f, 0, NoName) \in Slots \ Nested
                         /\ \A i \in 1..MaxItems : /\ ItemSlots(f, i) \subseteq Slots \ Nested
                                                    /\ Slot(f, i, NoName) \in ItemSlots(f, i)
    <2>1. \A f \in Arrays : \A i, g : Slot(f, i, g) \notin Nested
        BY SlotFacts DEF Slot
    <2> QED BY <2>1, SlotFacts DEF ItemSlots
<1>1. CASE \E s \in Slots : ac_module_set_field(s)
    <2>1. PICK s \in Slots : ac_module_set_field(s)
        BY <1>1
    <2>2. length' = length /\ Store({s}) /\ s.field \notin Arrays
        BY <2>1, SlotFacts DEF ac_module_set_field, Scalars, Arrays
    <2>3. \A f \in Arrays : \A i, g : Slot(f, i, g) # s
        BY <2>2 DEF Slot
    <2>4. \A f \in Arrays : \A t \in Slots : t.field = f => stored'[t] = stored[t]
        BY <2>2 DEF Store
    <2>5. \A f \in Arrays : \A i, g : Slot(f, i, g) \in Slots =>
                              stored'[Slot(f, i, g)] = stored[Slot(f, i, g)]
        BY <2>4 DEF Slot
    <2>6. \A f \in Arrays : \A i \in 1..MaxItems : \A t \in ItemSlots(f, i) :
              stored'[t] = stored[t]
        BY <1>0, <2>5 DEF ItemSlots
    <2> QED BY <1>0, <2>2, <2>5, <2>6 DEF ArraysAreWhole
<1>2. CASE \E f \in Arrays : \E set \in SUBSET SubsOf(f) : ac_module_array_field_append(f, set)
    <2>1. PICK f \in Arrays : \E set \in SUBSET SubsOf(f) : ac_module_array_field_append(f, set)
        BY <1>2
    <2>2. PICK set \in SUBSET SubsOf(f) : ac_module_array_field_append(f, set)
        BY <2>1
    <2> DEFINE n == length[f] + 1
               S == Item(f, n, set) \cup NullArray(f)
    <2>3. /\ pc = "unmarshal" /\ length[f] < MaxItems
          /\ length' = [length EXCEPT ![f] = length[f] + 1] /\ Store(S)
        BY <2>2 DEF ac_module_array_field_append
    <2>4. event > 0 /\ length \in [Arrays -> Nat] /\ MaxItems \in Nat
        BY <2>3, ObjectsAssumption DEF EventsInOrder, Busy, TypeOK
    <2>5. \A t \in Slots : stored'[t] = IF t \in S THEN event ELSE stored[t]
        BY <2>3 DEF Store
    <2>6. n \in 1..MaxItems /\ length'[f] = n
        BY <2>3, <2>4 DEF TypeOK
    <2>7. \A i, g : Slot(f, i, g) \in S =>
              i = n \/ Slot(f, i, g) = Slot(f, 0, NoName)
        BY DEF Slot, Item, NullArray
    <2>8. /\ Slot(f, n, NoName) \in S
          /\ Slot(f, 0, NoName) \in S \/ stored[Slot(f, 0, NoName)] # 0
        BY DEF Item, NullArray
    <2>9. \A h \in Arrays \ {f} : \A i, g : Slot(h, i, g) \notin S
        BY DEF Slot, Item, NullArray
    <2> HIDE DEF n, S
    <2>10. \A i \in 1..MaxItems : i # n => \A s \in ItemSlots(f, i) : stored'[s] = stored[s]
        <3> SUFFICES ASSUME NEW i \in 1..MaxItems, i # n, NEW s \in ItemSlots(f, i)
                     PROVE  s \notin S
            BY <1>0, <2>5
        <3>1. PICK g : s = Slot(f, i, g)
            BY DEF ItemSlots
        <3>2. Slot(f, i, g) # Slot(f, 0, NoName)
            BY <2>4 DEF Slot
        <3> QED BY <2>7, <3>1, <3>2
    <2>11. /\ stored'[Slot(f, 0, NoName)] # 0 /\ stored'[Slot(f, n, NoName)] # 0
        BY <1>0, <2>4, <2>5, <2>6, <2>8
    <2>12. ASSUME NEW i \in 1..MaxItems
           PROVE  /\ (stored'[Slot(f, i, NoName)] # 0) <=> (i <= length'[f])
                  /\ i > length'[f] => \A s \in ItemSlots(f, i) : stored'[s] = 0
        <3>1. CASE i = n
            BY <2>6, <2>11, <3>1
        <3>2. CASE i # n
            <4>1. \A s \in ItemSlots(f, i) : stored'[s] = stored[s]
                BY <2>10, <3>2
            <4>2. length[f] \in Nat /\ n = length[f] + 1
                BY <2>4 DEF n
            <4>3. (i <= length[f]) <=> (i <= n)
                BY <2>4, <3>2, <4>2
            <4>4. i > n => i > length[f]
                BY <2>4, <4>2
            <4> QED BY <1>0, <2>6, <4>1, <4>3, <4>4 DEF ArraysAreWhole
        <3> QED BY <3>1, <3>2
    <2>13. ASSUME NEW h \in Arrays \ {f}
           PROVE  /\ length'[h] = length[h]
                  /\ stored'[Slot(h, 0, NoName)] = stored[Slot(h, 0, NoName)]
                  /\ \A i \in 1..MaxItems : \A s \in ItemSlots(h, i) : stored'[s] = stored[s]
        <3>1. \A i \in 1..MaxItems : \A s \in ItemSlots(h, i) : s \in Slots \ S
            BY <1>0, <2>9 DEF ItemSlots
        <3>2. length'[h] = length[h]
            BY <2>3, <2>4
        <3> QED BY <1>0, <2>5, <2>9, <3>1, <3>2
    <2>14. length'[f] > 0
        BY <2>6
    <2> QED BY <1>0, <2>11, <2>12, <2>13, <2>14 DEF ArraysAreWhole
<1>3. CASE ac_context_object_clear_module_data
    <2>1. CASE UNCHANGED <<stored, length>>
        BY <2>1 DEF ArraysAreWhole
    <2>2. CASE /\ stored' = [s \in Slots |-> IF s \in Nested THEN stored[s] ELSE 0]
               /\ length' = [f \in Arrays |-> 0]
        BY <1>0, <2>2 DEF ArraysAreWhole
    <2> QED BY <1>3, <2>1, <2>2, ClearSteps
<1>4. CASE \/ ac_context_object_unmarshal_evtdata \/ UnmarshalSucceeds \/ UnmarshalFails
           \/ UNCHANGED vars
    BY <1>4 DEF ac_context_object_unmarshal_evtdata, UnmarshalSucceeds, UnmarshalFails, vars,
        ArraysAreWhole
<1> QED BY <1>1, <1>2, <1>3, <1>4 DEF Next

-----------------------------------------------------------------------------
(* The theorems *)

\* The invariants hold of a loaded module.
LEMMA InitHolds ==
    Init => EventsInOrder /\ OnlyPending /\ Accounted /\ PointersAreLive /\ ArraysAreWhole
<1> SUFFICES ASSUME Init
             PROVE  EventsInOrder /\ OnlyPending /\ Accounted /\ PointersAreLive
                        /\ ArraysAreWhole
    OBVIOUS
<1>1. EventsInOrder /\ OnlyPending /\ Accounted /\ PointersAreLive
    BY DEF Init, EventsInOrder, OnlyPending, Accounted, PointersAreLive, Busy
<1>2. ArraysAreWhole
    <2>1. \A f \in Arrays : /\ Slot(f, 0, NoName) \in Slots
                            /\ \A i \in 1..MaxItems : /\ ItemSlots(f, i) \subseteq Slots
                                                       /\ Slot(f, i, NoName) \in ItemSlots(f, i)
        BY SlotFacts DEF ItemSlots
    <2> QED BY <2>1 DEF Init, ArraysAreWhole
<1> QED BY <1>1, <1>2

\* The object's variables are what they are declared to be, and no value is of an
\* event that is yet to come.
THEOREM TypeCorrect == Spec => [](TypeOK /\ EventsInOrder)
<1>1. Init => TypeOK /\ EventsInOrder
    BY TypeInit, InitHolds
<1>2. TypeOK /\ EventsInOrder /\ [Next]_vars => (TypeOK /\ EventsInOrder)'
    BY TypeStep, OrderStep
<1> QED BY <1>1, <1>2, PTL DEF Spec

\* The rules read fields of their own event, zeroed ones and what callbacks that
\* failed since the last clearing have left.
THEOREM FreshCorrect == Spec => []FieldsAreFresh
<1>1. TypeOK /\ OnlyPending => FieldsAreFresh
    BY DEF OnlyPending, FieldsAreFresh, TypeOK
<1>2. Init => OnlyPending
    BY InitHolds
<1>3. TypeOK /\ EventsInOrder /\ OnlyPending /\ [Next]_vars => OnlyPending'
    BY PendingStep
<1> QED BY <1>1, <1>2, <1>3, TypeCorrect, PTL DEF Spec

\* Between events no memory is left but items of arrays, fields of structs and
\* what failed callbacks had stored.
THEOREM NothingLeftCorrect == Spec => []NothingLeft
<1>1. Accounted => NothingLeft
    BY DEF Accounted, NothingLeft, Busy
<1>2. Init => Accounted
    BY InitHolds
<1>3. TypeOK /\ EventsInOrder /\ Accounted /\ [Next]_vars => Accounted'
    BY AccountedStep
<1> QED BY <1>1, <1>2, <1>3, TypeCorrect, PTL DEF Spec

\* What the fields, the items and their fields point to is allocated.
THEOREM PointersCorrect == Spec => []PointersAreLive
<1>1. Init => PointersAreLive
    BY InitHolds
<1>2. TypeOK /\ PointersAreLive /\ [Next]_vars => PointersAreLive'
    BY PointersStep
<1> QED BY <1>1, <1>2, TypeCorrect, PTL DEF Spec

\* An array has items up to its length and none beyond it.
THEOREM ArraysCorrect == Spec => []ArraysAreWhole
<1>1. Init => ArraysAreWhole
    BY InitHolds
<1>2. TypeOK /\ EventsInOrder /\ ArraysAreWhole /\ [Next]_vars => ArraysAreWhole'
    BY ArraysStep
<1> QED BY <1>1, <1>2, TypeCorrect, PTL DEF Spec
=============================================================================
