--------------------------- MODULE ModuleObjects ----------------------------
(***************************************************************************)
(* The object of one module (libalca/context.c, module.c): the fields that *)
(* its unmarshal callback stores event data in, that rules read, and that  *)
(* ac_vm_exec clears when the rules have run.                              *)
(*                                                                         *)
(* A field is a number, a string, a struct, or an array of one of them; a  *)
(* struct has numbers and strings.  Its value is the number of the event   *)
(* it comes from, 0 for a zeroed one.  Strings, arrays and the items of    *)
(* arrays of structs are blocks of memory, each named after the event and  *)
(* the slot it was allocated for.                                          *)
(*                                                                         *)
(* The callback stores in declared fields that are not constants, and in   *)
(* each at most once for an event, as all callbacks of the repository do.  *)
(***************************************************************************)
EXTENDS Naturals, FiniteSets

CONSTANTS
    Fields,            \* base ("num", "str", "struct"), array and const, by field name
    SubFields,         \* "num" or "str", by <<struct field, name>>
    NoName,            \* no field name
    MaxEvents,         \* bound: events
    MaxItems           \* bound: items of an array

ASSUME ObjectsAssumption ==
    /\ \A f \in DOMAIN Fields : /\ Fields[f].base \in {"num", "str", "struct"}
                                /\ Fields[f].array \in BOOLEAN /\ Fields[f].const \in BOOLEAN
    /\ \A p \in DOMAIN SubFields : /\ SubFields[p] \in {"num", "str"}
                                   /\ p[1] \in DOMAIN Fields /\ Fields[p[1]].base = "struct"
    /\ NoName \notin {p[2] : p \in DOMAIN SubFields}
    /\ MaxEvents \in Nat /\ MaxItems \in Nat

Variables == {f \in DOMAIN Fields : ~Fields[f].const}
Arrays == {f \in Variables : Fields[f].array}
Scalars == {f \in Variables : ~Fields[f].array /\ Fields[f].base # "struct"}

\* Where a value is stored: in a field (index 0), in a field of a struct, in an
\* item of an array or in a field of an item.
Slot(f, i, g) == [field |-> f, index |-> i, sub |-> g]
SubsOf(f) == {g \in {p[2] : p \in DOMAIN SubFields} : <<f, g>> \in DOMAIN SubFields}
Nested == UNION {{Slot(f, 0, g) : g \in SubsOf(f)} : f \in Variables \ Arrays}
ItemSlots(f, i) == {Slot(f, i, g) : g \in {NoName} \cup SubsOf(f)}
Slots ==
    {Slot(f, 0, NoName) : f \in Variables} \cup Nested
        \cup UNION {ItemSlots(f, i) : f \in Arrays, i \in 1..MaxItems}

BaseOf(s) == IF s.sub = NoName THEN Fields[s.field].base ELSE SubFields[s.field, s.sub]

\* Slots whose value is a pointer to a block of their own.
Holder(s) ==
    \/ BaseOf(s) = "str"
    \/ s.field \in Arrays /\ s.index = 0
    \/ s.field \in Arrays /\ s.sub = NoName /\ BaseOf(s) = "struct"

VARIABLES
    pc,        \* "idle", "unmarshal", "rules" (executing) or "crashed"
    event,     \* events so far, the number of the last one
    stored,    \* by slot, the event its value comes from
    length,    \* by array, its len
    live,      \* blocks that are allocated
    written,   \* fields that the callback has stored in for this event
    spoilt,    \* history: events whose callback failed after it had stored something
    cleared    \* history: the last event before the object was cleared

vars == <<pc, event, stored, length, live, written, spoilt, cleared>>

Block(e, s) == [event |-> e, slot |-> s]

\* ac_context_load_modules has called the load callback, which has declared the
\* fields.  Constants have their values from there on; nothing stores in them and
\* clearing passes them over, so they have no slots.
Init ==
    /\ pc = "idle" /\ event = 0
    /\ stored = [s \in Slots |-> 0]
    /\ length = [f \in Arrays |-> 0]
    /\ live = {}
    /\ written = {}
    /\ spoilt = {} /\ cleared = 0

-----------------------------------------------------------------------------
(* Unmarshalling *)

ac_context_object_unmarshal_evtdata ==
    /\ pc = "idle" /\ event < MaxEvents
    /\ pc' = "unmarshal" /\ event' = event + 1
    /\ written' = {}
    /\ UNCHANGED <<stored, length, live, spoilt, cleared>>

\* The slots in S get values of this event, strings as copies of their own.
Store(S) ==
    /\ stored' = [s \in Slots |-> IF s \in S THEN event ELSE stored[s]]
    /\ live' = live \cup {Block(event, s) : s \in {t \in S : Holder(t)}}
    /\ written' = written \cup S
    /\ UNCHANGED <<pc, event, spoilt, cleared>>

\* ac_module_set_uint32_field, ac_module_set_bool_field, ac_module_set_string_field:
\* a string that is already there is not freed.
ac_module_set_field(s) ==
    /\ pc = "unmarshal" /\ s \notin written
    /\ s.field \in Scalars \/ s \in Nested
    /\ Store({s})
    /\ UNCHANGED length

ItemBeyond(f, i, set) == {Slot(f, i + 1, g) : g \in {NoName} \cup set}   \* mutant: array[++len]

\* The item is a number, a string that is copied, or a struct from
\* ac_module_create_item_for_struct_array with some of its fields set.
Item(f, i, set) == {Slot(f, i, g) : g \in {NoName} \cup set}
NullArray(f) == {s \in {Slot(f, 0, NoName)} : stored[s] = 0}

ac_module_array_field_append(f, set) ==
    /\ pc = "unmarshal" /\ length[f] < MaxItems
    /\ Store(Item(f, length[f] + 1, set) \cup NullArray(f))
    /\ length' = [length EXCEPT ![f] = @ + 1]

\* The callback returns TRUE.
UnmarshalSucceeds ==
    /\ pc = "unmarshal"
    /\ pc' = "rules"
    /\ UNCHANGED <<event, stored, length, live, written, spoilt, cleared>>

\* It returns FALSE, as the default callbacks of the library do at once:
\* ac_vm_exec returns, and nothing is cleared.
UnmarshalFails ==
    /\ pc = "unmarshal"
    /\ pc' = "idle"
    /\ spoilt' = IF written = {} THEN spoilt ELSE spoilt \cup {event}
    /\ UNCHANGED <<event, stored, length, live, written, cleared>>

-----------------------------------------------------------------------------
(* Clearing *)

\* What ac_context_object_clear_module_data does not reach: a struct is entered by
\* its object.o, which nothing sets.
Entered(s) == s \notin Nested

FreedButItems(s) == Holder(s) /\ s.index = 0   \* mutant: items are not cleared

\* Of the strings, arrays and items it reaches, it frees all but the items, whose
\* strings it does free.
Freed(s) == Holder(s) /\ ~(s.index > 0 /\ s.sub = NoName)

\* For an item of an array of numbers or strings it frees the array field's own
\* object.s, which shares its memory with the length of the array.
FreesLength == \E f \in Arrays : Fields[f].base # "struct" /\ length[f] > 0

ZeroedNumbers(s) == ~Holder(s)   \* mutant: a pointer stays behind
ZeroedPointers(s) == Holder(s)   \* mutant: a number stays behind
Zeroed(s) == TRUE

KeptLength(f) == length[f]   \* mutant: the array is freed, its length stays
ClearedLength(f) == 0

\* The rules have run.
ac_context_object_clear_module_data ==
    /\ pc = "rules"
    /\ IF FreesLength
       THEN pc' = "crashed" /\ UNCHANGED <<stored, length, live, cleared>>
       ELSE /\ pc' = "idle"
            /\ stored' = [s \in Slots |-> IF Entered(s) /\ Zeroed(s) THEN 0 ELSE stored[s]]
            /\ length' = [f \in Arrays |-> ClearedLength(f)]
            /\ live' = live \ {Block(stored[s], s) : s \in {t \in Slots : Entered(t) /\ Freed(t)}}
            /\ cleared' = event
    /\ UNCHANGED <<event, written, spoilt>>

Next ==
    \/ ac_context_object_unmarshal_evtdata
    \/ \E s \in Slots : ac_module_set_field(s)
    \/ \E f \in Arrays : \E set \in SUBSET SubsOf(f) : ac_module_array_field_append(f, set)
    \/ UnmarshalSucceeds \/ UnmarshalFails
    \/ ac_context_object_clear_module_data

Spec == Init /\ [][Next]_vars

-----------------------------------------------------------------------------
TypeOK ==
    /\ pc \in {"idle", "unmarshal", "rules", "crashed"}
    /\ event \in 0..MaxEvents
    /\ stored \in [Slots -> 0..MaxEvents]
    /\ length \in [Arrays -> 0..MaxItems]
    /\ live \subseteq [event: 1..MaxEvents, slot: Slots]
    /\ written \subseteq Slots
    /\ spoilt \subseteq 1..MaxEvents
    /\ cleared \in 0..MaxEvents

\* Rules read fields of the event they run on.  Fields of an earlier event are
\* among them only if its callback failed half way and nothing was cleared since:
\* no event that was executed leaves anything to a later one, except in the fields
\* of a struct.
FieldsAreFresh ==
    pc = "rules" =>
        \A s \in Slots \ Nested :
            stored[s] \in {0, event} \cup {e \in spoilt : e > cleared}

\* Whatever a field, an item or a field of an item points to is allocated: a rule
\* reads no freed string, and nothing is freed twice.
PointersAreLive ==
    pc # "crashed" =>
        \A s \in Slots : Holder(s) /\ stored[s] # 0 => Block(stored[s], s) \in live

\* Array and length go together, and there are no items beyond the length.
ArraysAreWhole ==
    \A f \in Arrays :
        /\ (stored[Slot(f, 0, NoName)] # 0) <=> (length[f] > 0)
        /\ \A i \in 1..MaxItems :
              /\ (stored[Slot(f, i, NoName)] # 0) <=> (i <= length[f])
              /\ i > length[f] => \A s \in ItemSlots(f, i) : stored[s] = 0

\* Between events no memory is left allocated but items of arrays, fields of
\* structs and what a callback that failed had stored.
NothingLeft ==
    pc = "idle" =>
        \A b \in live :
            \/ b.event \in spoilt
            \/ b.slot \in Nested
            \/ b.slot.index > 0 /\ b.slot.sub = NoName
=============================================================================
