------------------------------ MODULE PovmsData ------------------------------
(***************************************************************************)
(* The data structures every message is made of (povms.cpp): attributes,   *)
(* objects as doubly linked lists of keyed nodes, and attribute lists, as  *)
(* operators on the heap that holds the nodes.                             *)
(*                                                                         *)
(* heap maps an address to the POVMSNode allocated there, or to FreeNode.  *)
(* A POVMSData is a record: root is an object's first node, items a list's *)
(* array, data the content of every other type, size the count of nodes or *)
(* items or the bytes in memory.  The memory behind ptr and items belongs  *)
(* to the record; who owns a node is what the properties are about.        *)
(* A malloc that fails is not modelled (it is a failed POVMS_ASSERT).      *)
(***************************************************************************)
EXTENDS Naturals, SequencesExt

CONSTANT MaxNodes       \* bound: addresses of the heap
ASSUME MaxNodesAssumption == MaxNodes \in Nat \ {0}

NULL == 0
Addresses == 1..MaxNodes

PovmsValue(type, size, root, items, data) ==
    [type |-> type, size |-> size, root |-> root, items |-> items, data |-> data]

AttrNew == PovmsValue("Null", 0, NULL, <<>>, <<>>)
ListNew == PovmsValue("List", 0, NULL, <<>>, <<>>)
EmptyObject == PovmsValue("Object", 0, NULL, <<>>, <<>>)

FreeNode == [key |-> "free", data |-> AttrNew, next |-> NULL, last |-> NULL]
Allocated(h) == {n \in Addresses: h[n] # FreeNode}
Fresh(h) == CHOOSE n \in Addresses: h[n] = FreeNode
Room(h, n) == Cardinality(Addresses \ Allocated(h)) >= n

(* Bytes of a character or number, and of a string's terminator.           *)
Width(type) == CASE type \in {"Long", "VectorLong"} -> 8
                 [] type = "UCS2String" -> 2
                 [] type \in {"CString", "Bool"} -> 1
                 [] OTHER -> 4
Terminator(type) == IF type \in {"CString", "UCS2String"} THEN Width(type) ELSE 0

AttrSet(type, data) ==
    PovmsValue(type, Width(type) * Len(data) + Terminator(type), NULL, <<>>, data)

(* The constructor POVMS_Attribute for a number or string.  An Int is given *)
(* the size of a Long.                                                     *)
Attribute(type, data) ==
    [AttrSet(type, data) EXCEPT !.size = IF type = "Int" THEN Width("Long") ELSE @]

-----------------------------------------------------------------------------
\* for (x in s) acc = step(acc, x)
Loop(step(_, _), acc, s) ==
    LET after[i \in 0..Len(s)] ==
            IF i = 0 THEN acc ELSE LET before == after[i - 1] IN step(before, s[i])
    IN  after[Len(s)]

\* The nodes from address a on, in the order a loop over cur->next meets them.
Chain(h, a) ==
    LET from[n \in Addresses \cup {NULL}, left \in 0..MaxNodes] ==
            IF n = NULL \/ left = 0 THEN <<>> ELSE <<n>> \o from[h[n].next, left - 1]
    IN  from[a, MaxNodes]

Find(h, obj, key) ==
    LET nodes == Chain(h, obj.root)
        i == SelectInSeq(nodes, LAMBDA n: h[n].key = key)
    IN  IF i = 0 THEN NULL ELSE nodes[i]

Exist(h, obj, key) == Find(h, obj, key) # NULL

\* What is read under a key: nothing, if it has another type or too many bytes.
ScalarAt(h, obj, key, type) ==
    LET attr == h[Find(h, obj, key)].data IN
    IF Exist(h, obj, key) /\ attr.size <= Width(type) /\ attr.type = type THEN attr.data
    ELSE <<>>

ClassKey == "class"
Class(h, obj) == ScalarAt(h, obj, ClassKey, "Type")
HasClass(h, obj) == Class(h, obj) # <<>>

(* AttrDelete: the heap without the nodes an attribute owns.               *)
RECURSIVE AttrDelete(_, _)
AttrDelete(h, attr) ==
    CASE attr.type = "Object" ->
            Loop(LAMBDA acc, n: [AttrDelete(acc, h[n].data) EXCEPT ![n] = FreeNode],
                     h, Chain(h, attr.root))
      [] attr.type = "List" -> Loop(AttrDelete, h, attr.items)
      [] OTHER -> h

-----------------------------------------------------------------------------
(* Operations give the heap and the object (or list) they work on.         *)
Made(h, obj) == [heap |-> h, obj |-> obj]

\* A new node in front of the others.
Link(h, obj, key, data) ==
    LET n == Fresh(h)
        added == [h EXCEPT ![n] = [key |-> key, data |-> data, next |-> obj.root, last |-> NULL]]
    IN  Made(IF obj.root = NULL THEN added ELSE [added EXCEPT ![obj.root].last = n],
             [obj EXCEPT !.root = n, !.size = @ + 1])

\* The object takes over attr, and what attr owns.
ObjectSet(h, obj, attr, key) ==
    LET in == Find(h, obj, key) IN
    IF in # NULL THEN Made([AttrDelete(h, h[in].data) EXCEPT ![in].data = attr], obj)
    ELSE Link(h, obj, key, attr)

ObjectNew(h, class) == ObjectSet(h, EmptyObject, AttrSet("Type", class), ClassKey)

ObjectDelete(h, obj) == Made(AttrDelete(h, [obj EXCEPT !.type = "Object"]), EmptyObject)

ObjectRemove(h, obj, key) ==
    LET del == Find(h, obj, key)
        node == h[del]
        freed == AttrDelete(h, node.data)
        unlinked == [n \in Addresses |->
                        CASE n = del -> FreeNode
                          [] n # del /\ n = node.last -> [freed[n] EXCEPT !.next = node.next]
                          [] n # del /\ n = node.next -> [freed[n] EXCEPT !.last = node.last]
                          [] OTHER -> freed[n]]
    IN  IF del = NULL THEN Made(h, obj)
        ELSE Made(unlinked, [obj EXCEPT !.root = IF @ = del THEN node.next ELSE @,
                                        !.size = @ - 1])

(* A copy of an attribute and everything below it.  A nested object always  *)
(* has a class (see Movable), so that only ObjectCopy's caller sees it fail.*)
RECURSIVE AttrCopy(_, _)
ListCopy(h, attr) ==
    Loop(LAMBDA acc, item: LET copy == AttrCopy(acc.heap, item) IN
                               Made(copy.heap, [acc.obj EXCEPT !.items = Append(@, copy.obj)]),
         Made(h, [attr EXCEPT !.items = <<>>]), attr.items)

AttrCopy(h, attr) ==
    CASE attr.type = "Object" ->
            Loop(LAMBDA acc, n: LET copy == AttrCopy(acc.heap, h[n].data) IN
                                ObjectSet(copy.heap, acc.obj, copy.obj, h[n].key),
                 ObjectNew(h, Class(h, attr)), Chain(h, attr.root))
      [] attr.type = "List" -> ListCopy(h, attr)
      [] OTHER -> Made(h, attr)

\* A variant with an error: the loop starts behind the first node.
ObjectCopyRest(h, source, dest) ==
    LET nodes == Chain(h, source.root) IN
    IF ~HasClass(h, source) THEN Made(h, dest)
    ELSE Loop(LAMBDA acc, n: LET copy == AttrCopy(acc.heap, h[n].data) IN
                             ObjectSet(copy.heap, acc.obj, copy.obj, h[n].key),
              ObjectNew(h, Class(h, source)), Tail(nodes))

\* Without a class nothing is copied and dest stays as it was.
ObjectCopy(h, source, dest) ==
    IF HasClass(h, source) THEN AttrCopy(h, source) ELSE Made(h, dest)

ObjectGet(h, obj, key) == AttrCopy(h, h[Find(h, obj, key)].data)

(* The check of the two classes compares the source's with itself.         *)
ObjectMerge(h, source, dest) ==
    IF ~HasClass(h, source) THEN Made(h, dest)
    ELSE Loop(LAMBDA acc, n: LET copy == AttrCopy(acc.heap, h[n].data) IN
                                 ObjectSet(copy.heap, acc.obj, copy.obj, h[n].key),
                  Made(h, dest), Chain(h, source.root))

-----------------------------------------------------------------------------
ListAppend(list, item) == [list EXCEPT !.items = Append(@, item), !.size = @ + 1]

ListGetNth(h, list, i) == AttrCopy(h, list.items[i])

ListSetNth(h, list, i, item) ==
    Made(AttrDelete(h, list.items[i]), [list EXCEPT !.items[i] = item])

(* The items behind the deleted one never move up (size < index is never    *)
(* true); the array only loses its last place.                             *)
ListRemoveNth(h, list, i) ==
    Made(AttrDelete(h, list.items[i]),
         [list EXCEPT !.items = Front([@ EXCEPT ![i] = AttrNew]), !.size = @ - 1])

ListDelete(h, list) == Made(AttrDelete(h, list), AttrNew)

\* A cleared list is no list any more.
ListClear(h, list) == Made(Loop(AttrDelete, h, Reverse(list.items)), AttrNew)
=============================================================================
