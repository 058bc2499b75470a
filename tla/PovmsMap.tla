------------------------------- MODULE PovmsMap -------------------------------
(***************************************************************************)
(* What POVMS objects and lists promise to the code that fills and reads   *)
(* messages: an object is a finite map from keys to values, a list a       *)
(* sequence of values; a variable never shares anything with another one,  *)
(* a copy equals what it was copied from, and sending an object yields an  *)
(* equal one.  There are no nodes, pointers or streams.                    *)
(***************************************************************************)
EXTENDS Naturals, SequencesExt

CONSTANTS Objects, Lists,     \* variables of class POVMS_Object and POVMS_List
          Keys, ClassKey, Classes,
          Scalars             \* per key and list, the [type, data] stored there

VARIABLE content              \* the value of each variable

Value(kind, map, seq, data) == [kind |-> kind, map |-> map, seq |-> seq, data |-> data]
Nothing == Value("Null", <<>>, <<>>, <<>>)
ObjectOf(map) == Value("Object", map, <<>>, <<>>)
ListOf(seq) == Value("List", <<>>, seq, <<>>)
Scalar(s) == Value(s.type, <<>>, <<>>, s.data)

IsObject(v) == v.kind = "Object"
IsList(v) == v.kind = "List"
HasKey(v, k) == k \in DOMAIN v.map
Classed(v) == IsObject(v) /\ HasKey(v, ClassKey)

\* m with k mapped to v, and m without k.
With(m, k, v) == [j \in DOMAIN m \cup {k} |-> IF j = k THEN v ELSE m[j]]
Without(m, k) == [j \in DOMAIN m \ {k} |-> m[j]]

MapInit == content = [v \in Objects \cup Lists |-> Nothing]

-----------------------------------------------------------------------------
(* Each operation relates the contents before (old) and after (new) it.       *)
Create(old, new, o) ==
    /\ old[o] = Nothing
    /\ \/ \E class \in Classes: new = [old EXCEPT
              ![o] = ObjectOf([k \in {ClassKey} |-> Scalar([type |-> "Type", data |-> class])])]
       \/ o \in Lists /\ new = [old EXCEPT ![o] = ListOf(<<>>)]

Discard(old, new, v) == new = [old EXCEPT ![v] = Nothing]

\* Only an object with a class can be copied; otherwise the target is emptied.
Copy(old, new, o, p) ==
    new = [old EXCEPT ![o] = IF Classed(old[p]) THEN old[p]
                                      ELSE ObjectOf(<<>>)]

PutScalar(old, new, o, k, s) ==
    /\ IsObject(old[o])
    /\ new = [old EXCEPT ![o].map = With(@, k, Scalar(s))]

\* What is put into an object leaves its variable.
PutVariable(old, new, o, k, v) ==
    /\ IsObject(old[o]) /\ v # o
    /\ new = [old EXCEPT ![o].map = With(@, k, old[v]), ![v] = Nothing]

TakeCopy(old, new, o, k, v) ==
    /\ IsObject(old[o]) /\ v # o
    /\ new = [old EXCEPT ![v] =
                      IF HasKey(old[o], k) THEN old[o].map[k]
                      ELSE IF v \in Objects THEN ObjectOf(<<>>) ELSE Nothing]

RemoveKey(old, new, o, k) ==
    /\ HasKey(old[o], k)
    /\ new = [old EXCEPT ![o].map = Without(@, k)]

\* The source's values replace the target's, its class too.
MergeInto(old, new, p, o) ==
    /\ Classed(old[p])
    /\ new = [old EXCEPT ![o].map =
                      [k \in DOMAIN @ \cup DOMAIN old[p].map |->
                          IF HasKey(old[p], k) THEN old[p].map[k] ELSE @[k]]]

-----------------------------------------------------------------------------
AddScalar(old, new, l, s) ==
    /\ IsList(old[l])
    /\ new = [old EXCEPT ![l].seq = Append(@, Scalar(s))]

AddVariable(old, new, l, o) ==
    /\ IsList(old[l]) /\ l # o
    /\ new = [old EXCEPT ![l].seq = Append(@, old[o]), ![o] = Nothing]

CopyOfItem(old, new, l, i, o) ==
    /\ i \in DOMAIN old[l].seq
    /\ new = [old EXCEPT ![o] = old[l].seq[i]]

ReplaceItem(old, new, l, i, s) ==
    /\ i \in DOMAIN old[l].seq
    /\ new = [old EXCEPT ![l].seq[i] = Scalar(s)]

RemoveItem(old, new, l, i) ==
    /\ i \in DOMAIN old[l].seq
    /\ new = [old EXCEPT ![l].seq = RemoveAt(@, i)]

\* The message is gone at the sender's and there, unchanged, at the receiver's.
Deliver(old, new, o, p) ==
    /\ IsObject(old[o]) /\ old[p] = Nothing
    /\ new = [old EXCEPT ![p] = old[o], ![o] = ObjectOf(<<>>)]

-----------------------------------------------------------------------------
Variables == Objects \cup Lists

Step(old, new) ==
    \/ \E v \in Variables: Create(old, new, v) \/ Discard(old, new, v)
    \/ \E o, p \in Objects: Copy(old, new, o, p) \/ MergeInto(old, new, p, o) \/ Deliver(old, new, o, p)
    \/ \E o \in Objects, k \in Keys:
          \/ RemoveKey(old, new, o, k)
          \/ \E s \in Scalars[k]: PutScalar(old, new, o, k, s)
          \/ \E v \in Variables: PutVariable(old, new, o, k, v) \/ TakeCopy(old, new, o, k, v)
    \/ \E l \in Lists:
          \/ \E s \in Scalars[l]: AddScalar(old, new, l, s)
          \/ \E v \in Variables: AddVariable(old, new, l, v)
          \/ \E i \in DOMAIN old[l].seq:
                \/ RemoveItem(old, new, l, i)
                \/ \E o \in Objects: CopyOfItem(old, new, l, i, o)
                \/ \E s \in Scalars[l]: ReplaceItem(old, new, l, i, s)

MapNext == \E old \in {content}, new \in {content'}: Step(old, new)

MapSpec == MapInit /\ [][MapNext]_content
=============================================================================
