-------------------------------- MODULE Octree --------------------------------
(***************************************************************************)
(* The names of the nodes of an octree, and where a sphere is filed in it  *)
(* (backend/support/octree.cpp), in one of the three dimensions: y and z   *)
(* are treated as x is.  A node has two kids then.  Node [size |-> s,      *)
(* x |-> x] spans x*w to (x+1)*w, where w is Width[s] (the code's Size is  *)
(* s + 127), and holds what hangs over by half of its width at most.       *)
(***************************************************************************)
EXTENDS Integers, FiniteSetsExt

CONSTANT MaxSize        \* bound: the largest node
ASSUME MaxSizeAssumption == MaxSize \in Nat

Ids == [size : 0..MaxSize, x : Int]

Width[size \in Nat] == IF size = 0 THEN 1 ELSE 2 * Width[size - 1]

KidNumbers == 0..1

ot_parent(id) == [size |-> id.size + 1, x |-> id.x \div 2]

(* The node of a size that an id is in: up from parent to parent.          *)
AncestorAt(id, size) ==
  LET Up[s \in Nat] == IF s <= id.size THEN id ELSE ot_parent(Up[s - 1])
  IN  Up[size]

(* Which kid of its parent a node is: the oddness of its ordinate.         *)
KidIndex(id) == id.x % 2

(* ot_point_in_node: less than a node's width from its centre.             *)
InNode(p, id) ==
  LET twice == 2 * p - (2 * id.x + 1) * Width[id.size]
  IN  -2 * Width[id.size] < twice /\ twice < 2 * Width[id.size]

(* ot_index_sphere: from the largest power of two that is not above the    *)
(* sphere's diameter upwards, the first node that holds the sphere.        *)
NodeAt(at, size) == [size |-> size, x |-> at \div Width[size]]

HoldsSphere(size, at, radius) ==
  /\ 2 * Width[size] > 2 * radius
  /\ InNode(at - radius, NodeAt(at, size))
  /\ InNode(at + radius, NodeAt(at, size))

IndexSphere(at, radius) ==
  NodeAt(at, Min({s \in 0..MaxSize : HoldsSphere(s, at, radius)}))
=============================================================================
