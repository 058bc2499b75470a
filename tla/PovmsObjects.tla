----------------------------- MODULE PovmsObjects -----------------------------
(***************************************************************************)
(* Message objects and lists in use: variables of the classes POVMS_Object *)
(* and POVMS_List (povmscpp.cpp) of one thread, which create, fill, copy,  *)
(* nest, merge, send and destroy what PovmsData keeps in the heap.         *)
(* A variable owns the nodes below it; Set and Append move that ownership  *)
(* into an object or list, Get and GetNth copy.                            *)
(*                                                                         *)
(* The callers modelled use the variables as the program does: a class key *)
(* is only written by the constructor and Merge, an object that is moved   *)
(* has a class, what is read has the type of the variable it is read into, *)
(* and nothing is assigned to, or put into, itself.                        *)
(***************************************************************************)
EXTENDS PovmsStream

CONSTANTS Objects, Lists, Keys, Classes,
          Scalars,            \* per key and list, the [type, data] stored there
          Nested,             \* per key, may an "Object" or a "List" be stored there?
          MaxItems            \* bound: items of a list
ASSUME PovmsAssumption ==
    /\ Objects \cap Lists = {} /\ ClassKey \notin Keys
    /\ MaxItems \in Nat

VARIABLES heap,     \* the allocated nodes
          var       \* the POVMSData of each variable

vars == <<heap, var>>
Variables == Objects \cup Lists

Init ==
    /\ heap = [n \in Addresses |-> FreeNode]
    /\ var = [v \in Variables |-> AttrNew]

-----------------------------------------------------------------------------
\* The nodes below an attribute, one entry for each way to reach them.
RECURSIVE Owned(_, _)
Owned(h, attr) ==
    CASE attr.type = "Object" ->
            Loop(LAMBDA acc, n: acc \o <<n>> \o Owned(h, h[n].data), <<>>,
                     Chain(h, attr.root))
      [] attr.type = "List" ->
            Loop(LAMBDA acc, item: acc \o Owned(h, item), <<>>, attr.items)
      [] OTHER -> <<>>

IsObject(o) == var[o].type = "Object"
IsList(l) == var[l].type = "List"
TypeOf(v) == IF v \in Lists THEN "List" ELSE "Object"
Movable(v) == IsList(v) \/ (IsObject(v) /\ HasClass(heap, var[v]))

\* Bound: the heap holds another copy of the attribute.
CopyFits(attr) == Room(heap, Len(Owned(heap, attr)))

\* A step that makes a new heap and value of one variable.
Becomes(v, made) ==
    /\ heap' = made.heap
    /\ var' = [var EXCEPT ![v] = made.obj]

\* Variable v is deleted before the copy is made into it.
Reset(v) == IF v \in Lists THEN ListDelete(heap, var[v]) ELSE ObjectDelete(heap, var[v])

\* A variant with an error: the variable that is moved keeps what it owns.
MovesAndStays(v, o, made) ==
    /\ heap' = made.heap
    /\ var' = [var EXCEPT ![o] = made.obj]

(* v moves into the place of o that made describes, and is detached.       *)
MovesInto(v, o, made) ==
    /\ heap' = made.heap
    /\ var' = [var EXCEPT ![o] = made.obj, ![v] = AttrNew]

-----------------------------------------------------------------------------
NewObject(o) ==
    /\ var[o] = AttrNew /\ Room(heap, 1)
    /\ \E c \in Classes: Becomes(o, ObjectNew(heap, c))

NewList(l) ==
    /\ var[l] = AttrNew
    /\ Becomes(l, Made(heap, ListNew))

\* The variable's destructor; its place is taken by a new one.
Destroy(v) ==
    /\ var[v] # AttrNew
    /\ Becomes(v, [Reset(v) EXCEPT !.obj = AttrNew])

Assign(o, p) ==
    /\ o # p /\ CopyFits(var[p])
    /\ LET deleted == Reset(o) IN Becomes(o, ObjectCopy(deleted.heap, var[p], deleted.obj))

SetScalar(o, k) ==
    /\ IsObject(o) /\ Room(heap, 1)
    /\ \E s \in Scalars[k]: Becomes(o, ObjectSet(heap, var[o], AttrSet(s.type, s.data), k))

SetVariable(o, k, v) ==
    /\ IsObject(o) /\ v # o /\ Movable(v) /\ Room(heap, 1) /\ var[v].type \in Nested[k]
    /\ MovesInto(v, o, ObjectSet(heap, var[o], var[v], k))

\* An object variable is left empty, a list variable null, when o has no such key.
GetVariable(o, k, v) ==
    LET found == Find(heap, var[o], k)
        deleted == Reset(v)
    IN
    /\ IsObject(o) /\ v # o /\ TypeOf(v) \in Nested[k]
    /\ IF found = NULL THEN Becomes(v, deleted)
       ELSE /\ heap[found].data.type = TypeOf(v)
            /\ CopyFits(heap[found].data)
            /\ Becomes(v, ObjectGet(deleted.heap, var[o], k))

RemoveKey(o, k) ==
    /\ IsObject(o) /\ Exist(heap, var[o], k)
    /\ Becomes(o, ObjectRemove(heap, var[o], k))

Merge(p, o) ==
    /\ IsObject(o) /\ IsObject(p) /\ o # p /\ CopyFits(var[p])
    /\ Becomes(o, ObjectMerge(heap, var[p], var[o]))

-----------------------------------------------------------------------------
AppendScalar(l) ==
    /\ IsList(l) /\ var[l].size < MaxItems
    /\ \E s \in Scalars[l]: Becomes(l, Made(heap, ListAppend(var[l], Attribute(s.type, s.data))))

\* Bound: only the first item of a list is an object.
AppendObject(l, o) ==
    /\ IsList(l) /\ var[l].size = 0 /\ IsObject(o) /\ Movable(o)
    /\ MovesInto(o, l, Made(heap, ListAppend(var[l], var[o])))

GetNth(l, i, o) ==
    LET item == var[l].items[i] IN
    /\ IsList(l) /\ i \in 1..var[l].size
    /\ item.type = "Object" /\ CopyFits(item)
    /\ Becomes(o, ListGetNth(Reset(o).heap, var[l], i))

SetNth(l, i) ==
    /\ IsList(l) /\ i \in 1..var[l].size
    /\ \E s \in Scalars[l]: Becomes(l, ListSetNth(heap, var[l], i, Attribute(s.type, s.data)))

(* Only the last of several items is removed.  Another one would leave a   *)
(* Null in its place (povms.cpp:3645), and what the array is after a        *)
(* realloc to no bytes is not defined.                                     *)
RemoveNth(l, i) ==
    /\ IsList(l) /\ var[l].size > 1 /\ i = var[l].size
    /\ Becomes(l, ListRemoveNth(heap, var[l], i))

Clear(l) ==
    /\ IsList(l) /\ var[l].size > 0
    /\ Becomes(l, ListClear(heap, var[l]))

-----------------------------------------------------------------------------
(* POVMS_Send writes the message and deletes it; the receiving thread reads *)
(* it into a message of its own.  The addresses and numbers Send adds are  *)
(* left out.                                                               *)
Send(o, p) ==
    /\ IsObject(o) /\ var[p] = AttrNew
    /\ LET wire == Sent(heap, var[o])
           deleted == ObjectDelete(heap, var[o])
           message == Received(deleted.heap, wire)
       IN  /\ heap' = message.heap
           /\ var' = [var EXCEPT ![o] = deleted.obj, ![p] = message.obj]

Next ==
    \/ \E o \in Objects: NewObject(o)
    \/ \E l \in Lists: NewList(l) \/ AppendScalar(l) \/ Clear(l)
    \/ \E v \in Variables: Destroy(v)
    \/ \E o, p \in Objects: Assign(o, p) \/ Merge(p, o) \/ Send(o, p)
    \/ \E o \in Objects, k \in Keys:
          SetScalar(o, k) \/ RemoveKey(o, k) \/ \E v \in Variables: SetVariable(o, k, v) \/ GetVariable(o, k, v)
    \/ \E l \in Lists, o \in Objects: AppendObject(l, o)
    \/ \E l \in Lists, i \in 1..MaxItems:
          SetNth(l, i) \/ RemoveNth(l, i) \/ \E o \in Objects: GetNth(l, i, o)

Spec == Init /\ [][Next]_vars

-----------------------------------------------------------------------------
\* The map, sequence or scalar an attribute stands for.
RECURSIVE Meaning(_, _)
Meaning(h, attr) ==
    LET from[n \in Addresses \cup {NULL}] ==
            IF n = NULL THEN <<>>
            ELSE (h[n].key :> Meaning(h, h[n].data)) @@ from[h[n].next]
    IN  [kind |-> attr.type,
         map |-> from[attr.root],
         seq |-> [i \in DOMAIN attr.items |-> Meaning(h, attr.items[i])],
         data |-> attr.data]

Map == INSTANCE PovmsMap WITH content <- [v \in Variables |-> Meaning(heap, var[v])]

(* Types: the heap's nodes and the variables are POVMSData.                 *)
TypeOK ==
    /\ \A n \in Allocated(heap): /\ heap[n].key \in Keys \cup {ClassKey}
                                 /\ {heap[n].next, heap[n].last} \subseteq Addresses \cup {NULL}
    /\ \A o \in Objects: var[o].type \in {"Null", "Object"}
    /\ \A l \in Lists: var[l].type \in {"Null", "List"}

(* The nodes of every object are linked both ways, carry different keys and *)
(* are as many as the object's size says, after any sequence of set,       *)
(* remove, copy, merge, send and destroy (POVMSObject_Set, _Remove,        *)
(* POVMSStream_Read).                                                      *)
WellLinked(obj) ==
    LET nodes == Chain(heap, obj.root) IN
    /\ Len(nodes) = obj.size
    /\ IsInjective([i \in DOMAIN nodes |-> heap[nodes[i]].key])
    /\ \A i \in DOMAIN nodes:
          heap[nodes[i]].last = IF i = 1 THEN NULL ELSE nodes[i - 1]

NodesLinked ==
    /\ \A o \in Objects: IsObject(o) => WellLinked(var[o])
    /\ \A n \in Allocated(heap): heap[n].data.type = "Object" => WellLinked(heap[n].data)

(* Every allocated node is below exactly one variable, in one place: none  *)
(* is leaked, none freed is still reachable, and none will be freed twice  *)
(* (POVMSAttr_Copy and DetachData decide who owns what is moved).          *)
OneOwner ==
    /\ \A v \in Variables: IsInjective(Owned(heap, var[v]))
    /\ \A v, w \in Variables: v # w => ToSet(Owned(heap, var[v])) \cap ToSet(Owned(heap, var[w])) = {}
    /\ Allocated(heap) = UNION {ToSet(Owned(heap, var[v])): v \in Variables}

(* The heap has its type, its links are whole and every node has one owner. *)
HeapInv == TypeOK /\ NodesLinked /\ OneOwner

(* The buffer POVMS_Send allocates is filled exactly by what is written     *)
(* into it, and the receiver reads exactly that many bytes.                *)
SizeIsExact ==
    \A o \in Objects:
        IsObject(o) => LET wire == Sent(heap, var[o]) IN
                       /\ wire.ret = StreamSize(heap, var[o])
                       /\ Received([n \in Addresses |-> FreeNode], wire).ret = wire.ret

(* Objects behave as maps and lists as sequences, and no operation on one   *)
(* variable changes another (PovmsMap).                                    *)
ImplementsMap == Map!MapSpec
=============================================================================
