------------------------- MODULE RadiosityCacheProofs -------------------------
(***************************************************************************)
(* Proofs about RadiosityCache for any renders, threads, pools and spheres *)
(* that the assumptions allow: the octree stays one tree in which samples  *)
(* are where they are looked for, the file gets each of them once          *)
(* (CacheIsOne), and with high reproducibility the samples are those that  *)
(* one thread takes (SamplesAreReproducible).                              *)
(*                                                                         *)
(* What recursive functions compute is proved by a least counterexample:   *)
(* Least and Inductive stand for induction on numbers, FirstBlock for      *)
(* induction on the order in which one thread comes to the samples.        *)
(***************************************************************************)
EXTENDS RadiosityCache, WellFoundedInduction, SequenceTheorems, TLAPS

(* Every set of numbers that is not empty has a least one.                 *)
LEMMA Least ==
  ASSUME NEW S \in SUBSET Nat, S # {}
  PROVE  \E m \in S : \A n \in S : m <= n
<1> DEFINE R == {ss \in Nat \X Nat : ss[1] < ss[2]}
<1>1. IsWellFoundedOn(R, Nat)
  BY NatLessThanWellFounded DEF OpToRel
<1>2. \A x, y \in Nat : <<x, y>> \notin R => y <= x
  OBVIOUS
<1>3. PICK m \in S : \A n \in S : <<n, m>> \notin R
  <2> HIDE DEF R
  <2> QED BY <1>1, WFMin
<1> QED
  BY <1>2, <1>3

(* Induction, for a set instead of a predicate.                            *)
LEMMA Inductive ==
  ASSUME NEW S, 0 \in S, \A n \in Nat : n \in S => n + 1 \in S
  PROVE  \A n \in Nat : n \in S
<1> SUFFICES ASSUME Nat \ S # {} PROVE FALSE
  OBVIOUS
<1>1. PICK m \in Nat \ S : \A n \in Nat \ S : m <= n
  BY Least
<1>2. m # 0 /\ m - 1 \in Nat /\ m = (m - 1) + 1
  BY <1>1
<1>3. m - 1 \in S
  BY <1>1, <1>2
<1> QED
  BY <1>1, <1>2, <1>3

(* A function F iterated from a start, and that there is such a thing.     *)
Iterations(D, F, a) == {f \in [Nat -> D] : f[0] = a /\ \A n \in Nat : f[n + 1] = F[f[n]]}

LEMMA Iterates ==
  ASSUME NEW D, NEW F \in [D -> D], NEW a \in D
  PROVE  Iterations(D, F, a) # {}
<1> DEFINE Upto(n) == {g \in [0..n -> D] : g[0] = a /\ \A i \in 0..n - 1 : g[i + 1] = F[g[i]]}
           S == {n \in Nat : Upto(n) # {}}
<1>1. 0 \in S
  <2>1. [i \in 0..0 |-> a] \in Upto(0)
    OBVIOUS
  <2> QED BY <2>1
<1>2. ASSUME NEW n \in Nat, n \in S PROVE n + 1 \in S
  <2>1. PICK g \in Upto(n) : TRUE
    BY <1>2
  <2> DEFINE h == [i \in 0..n + 1 |-> IF i = n + 1 THEN F[g[n]] ELSE g[i]]
  <2>2. n \in 0..n /\ g[n] \in D
    BY <2>1
  <2>3. h \in [0..n + 1 -> D] /\ h[0] = a
    BY <2>1, <2>2
  <2>4. ASSUME NEW i \in 0..(n + 1) - 1 PROVE h[i + 1] = F[h[i]]
    <3>1. i \in 0..n /\ i + 1 \in 0..n + 1 /\ h[i] = g[i]
      BY <2>4
    <3>2. CASE i = n
      BY <3>1, <3>2
    <3>3. CASE i # n
      <4>1. i \in 0..n - 1 /\ i + 1 \in 0..n
        BY <3>1, <3>3
      <4> QED BY <2>1, <3>1, <4>1
    <3> QED BY <3>2, <3>3
  <2>5. h \in Upto(n + 1)
    BY <2>3, <2>4
  <2> HIDE DEF h, Upto
  <2> QED BY <2>5
<1>3. \A n \in Nat : n \in S
  <2> HIDE DEF S
  <2> QED BY <1>1, <1>2, Inductive
<1>4. ASSUME NEW n \in Nat, NEW g \in Upto(n), NEW m \in Nat, NEW h \in Upto(m)
      PROVE  \A i \in Nat : i <= n /\ i <= m => g[i] = h[i]
  <2> DEFINE E == {i \in Nat : i <= n /\ i <= m => g[i] = h[i]}
  <2>1. 0 \in E
    OBVIOUS
  <2>2. ASSUME NEW i \in Nat, i \in E PROVE i + 1 \in E
    <3> SUFFICES ASSUME i + 1 <= n, i + 1 <= m PROVE g[i + 1] = h[i + 1]
      OBVIOUS
    <3>1. i \in 0..n - 1 /\ i \in 0..m - 1 /\ g[i] = h[i]
      BY <2>2
    <3> QED BY <3>1
  <2> HIDE DEF E
  <2>3. \A i \in Nat : i \in E
    BY <2>1, <2>2, Inductive
  <2> QED BY <2>3 DEF E
<1> DEFINE Pick(n) == CHOOSE g \in Upto(n) : TRUE
           f == [n \in Nat |-> Pick(n)[n]]
<1>5. \A n \in Nat : Pick(n) \in Upto(n)
  BY <1>3
<1> HIDE DEF Pick
<1>6. \A n \in Nat : f[n] = Pick(n)[n] /\ f[n] \in D
  BY <1>5
<1>7. f[0] = a
  BY <1>5, <1>6
<1>8. ASSUME NEW n \in Nat PROVE f[n + 1] = F[f[n]]
  <2>1. n + 1 \in Nat /\ n \in 0..(n + 1) - 1
    OBVIOUS
  <2>2. Pick(n + 1)[n + 1] = F[Pick(n + 1)[n]]
    BY <1>5, <2>1
  <2>3. Pick(n + 1)[n] = Pick(n)[n]
    <3>1. Pick(n + 1) \in Upto(n + 1) /\ Pick(n) \in Upto(n)
      BY <1>5, <2>1
    <3> HIDE DEF Upto
    <3>2. n \in Nat /\ n <= n + 1 /\ n <= n
      OBVIOUS
    <3> QED BY <1>4, <2>1, <3>1, <3>2
  <2> QED BY <1>6, <2>1, <2>2, <2>3
<1>9. f \in [Nat -> D]
  BY <1>6
<1> QED
  BY <1>7, <1>8, <1>9 DEF Iterations

(* The widths of the nodes, from the recursion that defines them.          *)
LEMMA WidthFacts ==
  /\ Width[0] = 1
  /\ \A n \in Nat : Width[n + 1] = 2 * Width[n] /\ Width[n] \in Nat /\ Width[n] > 0
<1> DEFINE D == Nat \ {0}
           F == [x \in D |-> 2 * x]
<1>1. F \in [D -> D] /\ 1 \in D
  OBVIOUS
<1>2. PICK f \in [Nat -> D] : f[0] = 1 /\ \A n \in Nat : f[n + 1] = F[f[n]]
  <2> HIDE DEF D, F
  <2>1. Iterations(D, F, 1) # {}
    BY <1>1, Iterates
  <2> QED BY <2>1 DEF Iterations
<1>3. f = [size \in Nat |-> IF size = 0 THEN 1 ELSE 2 * f[size - 1]]
  <2>1. ASSUME NEW n \in Nat PROVE f[n] = IF n = 0 THEN 1 ELSE 2 * f[n - 1]
    <3>1. CASE n = 0
      BY <1>2, <3>1
    <3>2. CASE n # 0
      <4>1. n - 1 \in Nat /\ n = (n - 1) + 1
        BY <3>2
      <4>2. f[n] = F[f[n - 1]] /\ f[n - 1] \in D
        BY <1>2, <4>1
      <4> QED BY <3>2, <4>2
    <3> QED BY <3>1, <3>2
  <2> QED BY <2>1, <1>2
<1>4. Width = [size \in Nat |-> IF size = 0 THEN 1 ELSE 2 * Width[size - 1]]
  BY <1>3, Zenon DEF Width
<1>5. Width[0] = 1 /\ \A n \in Nat : Width[n + 1] = 2 * Width[n]
  BY <1>4
<1> DEFINE P == {n \in Nat : Width[n] \in Nat /\ Width[n] > 0}
<1>6. 0 \in P /\ \A n \in Nat : n \in P => n + 1 \in P
  BY <1>5
<1>7. \A n \in Nat : n \in P
  <2> HIDE DEF P
  <2> QED BY <1>6, Inductive
<1> QED
  BY <1>5, <1>7

(* The nodes that an id is in, from the recursion that defines them.       *)
LEMMA AncestorFacts ==
  ASSUME NEW id \in [size : Nat, x : Int]
  PROVE  /\ AncestorAt(id, id.size) = id
         /\ \A s \in Nat : s >= id.size =>
              /\ AncestorAt(id, s + 1) = ot_parent(AncestorAt(id, s))
              /\ AncestorAt(id, s) \in [size : {s}, x : Int]
<1> DEFINE D == [size : Nat, x : Int]
           F == [i \in D |-> ot_parent(i)]
           Up == CHOOSE Up : Up = [s \in Nat |-> IF s <= id.size THEN id ELSE ot_parent(Up[s - 1])]
<1>1. F \in [D -> D] /\ id.size \in Nat
  BY DEF ot_parent
<1>2. PICK f \in [Nat -> D] : f[0] = id /\ \A n \in Nat : f[n + 1] = F[f[n]]
  <2> HIDE DEF D, F
  <2>1. Iterations(D, F, id) # {}
    BY <1>1, Iterates DEF D
  <2> QED BY <2>1 DEF Iterations
<1>10. \A n \in Nat : f[n + 1] = ot_parent(f[n])
  BY <1>2
<1> DEFINE g == [s \in Nat |-> IF s <= id.size THEN id ELSE f[s - id.size]]
<1>3. g = [s \in Nat |-> IF s <= id.size THEN id ELSE ot_parent(g[s - 1])]
  <2>1. ASSUME NEW s \in Nat PROVE g[s] = IF s <= id.size THEN id ELSE ot_parent(g[s - 1])
    <3>1. CASE s <= id.size
      BY <3>1
    <3>2. CASE s > id.size
      <4> DEFINE n == s - 1 - id.size
      <4>1. n \in Nat /\ s - id.size = n + 1 /\ s - 1 \in Nat /\ ~(s <= id.size)
        BY <1>1, <3>2
      <4>2. g[s] = f[n + 1]
        BY <1>1, <4>1
      <4>3. g[s - 1] = f[n]
        <5>1. CASE s - 1 <= id.size
          <6>1. g[s - 1] = id
            BY <4>1, <5>1
          <6>2. n = 0
            <7>1. id.size \in Nat
              BY <1>1
            <7> QED BY <3>2, <5>1, <7>1
          <6> QED BY <1>2, <6>1, <6>2
        <5>2. CASE ~(s - 1 <= id.size)
          BY <1>1, <4>1, <5>2
        <5> QED BY <5>1, <5>2
      <4> HIDE DEF g, n
      <4> QED BY <1>10, <4>1, <4>2, <4>3
    <3> QED BY <1>1, <3>1, <3>2
  <2> QED BY <2>1
<1>4. Up = [s \in Nat |-> IF s <= id.size THEN id ELSE ot_parent(Up[s - 1])]
  <2> HIDE DEF g
  <2> QED BY <1>3, Zenon
<1>5. \A s : AncestorAt(id, s) = Up[s]
  BY Zenon DEF AncestorAt
<1> HIDE DEF Up
<1>6. AncestorAt(id, id.size) = id
  <2>1. id.size <= id.size
    BY <1>1
  <2>2. Up[id.size] = id
    BY <1>1, <1>4, <2>1, Zenon
  <2> QED BY <1>5, <2>2
<1>7. \A s \in Nat : s >= id.size => AncestorAt(id, s + 1) = ot_parent(AncestorAt(id, s))
  <2> SUFFICES ASSUME NEW s \in Nat, s >= id.size PROVE Up[s + 1] = ot_parent(Up[s])
    BY <1>5
  <2>1. s + 1 \in Nat /\ ~(s + 1 <= id.size) /\ (s + 1) - 1 = s
    BY <1>1
  <2> QED BY <1>4, <2>1
<1> DEFINE P == {n \in Nat : AncestorAt(id, id.size + n) \in [size : {id.size + n}, x : Int]}
<1>8. \A n \in Nat : n \in P
  <2>1. 0 \in P
    BY <1>1, <1>6
  <2>2. ASSUME NEW n \in Nat, n \in P PROVE n + 1 \in P
    <3>1. id.size + n \in Nat /\ id.size + n >= id.size /\ id.size + (n + 1) = (id.size + n) + 1
      BY <1>1
    <3>2. AncestorAt(id, id.size + (n + 1)) = ot_parent(AncestorAt(id, id.size + n))
      BY <1>7, <3>1
    <3>3. AncestorAt(id, id.size + n) \in [size : {id.size + n}, x : Int]
      BY <2>2
    <3>4. AncestorAt(id, id.size + (n + 1)) \in [size : {id.size + (n + 1)}, x : Int]
      BY <3>1, <3>2, <3>3 DEF ot_parent
    <3> QED BY <3>4
  <2> HIDE DEF P
  <2> QED BY <2>1, <2>2, Inductive
<1>9. ASSUME NEW s \in Nat, s >= id.size PROVE AncestorAt(id, s) \in [size : {s}, x : Int]
  <2>1. s - id.size \in Nat /\ id.size + (s - id.size) = s
    BY <1>1, <1>9
  <2> QED BY <1>8, <2>1
<1> QED
  BY <1>6, <1>7, <1>9

(* An ancestor of an ancestor.                                             *)
LEMMA AncestorUp ==
  ASSUME NEW id \in [size : Nat, x : Int], NEW s \in Nat, s >= id.size, NEW r \in Nat, r >= s
  PROVE  AncestorAt(AncestorAt(id, s), r) = AncestorAt(id, r)
<1> DEFINE a == AncestorAt(id, s)
           P == {n \in Nat : AncestorAt(a, s + n) = AncestorAt(id, s + n)}
<1>1. a \in [size : {s}, x : Int] /\ a \in [size : Nat, x : Int] /\ a.size = s
  BY AncestorFacts
<1> HIDE DEF a
<1>2. 0 \in P
  <2>1. AncestorAt(a, s) = a
    BY <1>1, AncestorFacts
  <2> QED BY <2>1 DEF a
<1>3. ASSUME NEW n \in Nat, n \in P PROVE n + 1 \in P
  <2>1. s + n \in Nat /\ s + n >= s /\ s + n >= id.size /\ s + (n + 1) = (s + n) + 1
    OBVIOUS
  <2>2. AncestorAt(a, (s + n) + 1) = ot_parent(AncestorAt(a, s + n))
    BY <1>1, <2>1, AncestorFacts
  <2>3. AncestorAt(id, (s + n) + 1) = ot_parent(AncestorAt(id, s + n))
    BY <2>1, AncestorFacts
  <2> QED BY <1>3, <2>1, <2>2, <2>3
<1>4. \A n \in Nat : n \in P
  <2> HIDE DEF P
  <2> QED BY <1>2, <1>3, Inductive
<1>5. r - s \in Nat /\ s + (r - s) = r
  OBVIOUS
<1> QED
  BY <1>4, <1>5 DEF a

(* What is in a node is in its parent, as each is wider by half than what  *)
(* it stands for.                                                          *)
LEMMA InParent ==
  ASSUME NEW id \in [size : Nat, x : Int], NEW p \in Int, InNode(p, id)
  PROVE  InNode(p, ot_parent(id))
<1> DEFINE w == Width[id.size]
           y == id.x \div 2
           k == id.x % 2
           up == ot_parent(id)
<1>1. w \in Nat /\ w > 0 /\ Width[id.size + 1] = 2 * w
  BY WidthFacts
<1>2. y \in Int /\ k \in 0..1 /\ id.x = 2 * y + k
  OBVIOUS
<1>3. up.size = id.size + 1 /\ up.x = y
  BY DEF ot_parent
<1>4. -2 * w < 2 * p - (2 * id.x + 1) * w /\ 2 * p - (2 * id.x + 1) * w < 2 * w
  BY DEF InNode
<1> HIDE DEF w, y, k, up
<1> DEFINE z == y * w
<1>5. z \in Int /\ (2 * y + 1) * (2 * w) = 4 * z + 2 * w
  BY <1>1, <1>2
<1>6. (2 * id.x + 1) * w = 4 * z + (2 * k + 1) * w
  <2>1. 2 * id.x + 1 = 4 * y + (2 * k + 1)
    BY <1>2
  <2>2. (4 * y + (2 * k + 1)) * w = 4 * (y * w) + (2 * k + 1) * w
    BY <1>1, <1>2
  <2> QED BY <2>1, <2>2
<1>7. (2 * k + 1) * w \in {w, 3 * w}
  BY <1>1, <1>2
<1> HIDE DEF z
<1>8. -2 * (2 * w) < 2 * p - (2 * y + 1) * (2 * w) /\ 2 * p - (2 * y + 1) * (2 * w) < 2 * (2 * w)
  BY <1>1, <1>4, <1>5, <1>6, <1>7
<1> QED
  BY <1>1, <1>3, <1>8 DEF InNode, up

LEMMA InAncestor ==
  ASSUME NEW id \in [size : Nat, x : Int], NEW p \in Int, InNode(p, id),
         NEW s \in Nat, s >= id.size
  PROVE  InNode(p, AncestorAt(id, s))
<1> DEFINE P == {n \in Nat : InNode(p, AncestorAt(id, id.size + n))}
<1>1. 0 \in P
  BY AncestorFacts
<1>2. ASSUME NEW n \in Nat, n \in P PROVE n + 1 \in P
  <2>1. id.size + n \in Nat /\ id.size + n >= id.size /\ id.size + (n + 1) = (id.size + n) + 1
    OBVIOUS
  <2>2. /\ AncestorAt(id, id.size + (n + 1)) = ot_parent(AncestorAt(id, id.size + n))
        /\ AncestorAt(id, id.size + n) \in [size : Nat, x : Int]
    BY <2>1, AncestorFacts
  <2>3. InNode(p, ot_parent(AncestorAt(id, id.size + n)))
    BY <1>2, <2>2, InParent
  <2> QED BY <2>2, <2>3
<1>3. \A n \in Nat : n \in P
  <2> HIDE DEF P
  <2> QED BY <1>1, <1>2, Inductive
<1>4. s - id.size \in Nat /\ id.size + (s - id.size) = s
  OBVIOUS
<1> QED
  BY <1>3, <1>4

(* A node that holds two points holds what is between them.                *)
LEMMA InBetween ==
  ASSUME NEW id \in [size : Nat, x : Int], NEW p \in Int, NEW q \in Int, NEW m \in Int,
         InNode(p, id), InNode(q, id), p <= m, m <= q
  PROVE  InNode(m, id)
<1> DEFINE c == (2 * id.x + 1) * Width[id.size]
<1>1. c \in Int /\ Width[id.size] \in Int
  BY WidthFacts
<1> HIDE DEF c
<1> QED
  BY <1>1 DEF InNode, c

-----------------------------------------------------------------------------
(* What is rendered.                                                       *)

LEMMA BlockFacts ==
  ASSUME NEW r \in DOMAIN Renders
  PROVE  /\ \A b \in BlocksOf(r) :
              /\ b = [render |-> r, pass |-> b.pass, tile |-> b.tile, n |-> b.n]
              /\ b.render = r /\ b.pass \in Passes(r) /\ b.tile \in Tiles(r, b.pass)
              /\ b.n \in 1..Len(Work(r)[b.pass][b.tile])
         /\ \A p \in Passes(r) : \A c \in Tiles(r, p) : \A n \in 1..Len(Work(r)[p][c]) :
              [render |-> r, pass |-> p, tile |-> c, n |-> n] \in BlocksOf(r)
BY DEF BlocksOf

LEMMA BlocksAre == \A b \in Blocks : b.render \in DOMAIN Renders /\ b \in BlocksOf(b.render)
BY BlockFacts DEF Blocks

LEMMA WorkFacts ==
  ASSUME NEW r \in DOMAIN Renders
  PROVE  /\ BlocksOf(r) \subseteq Blocks
         /\ Len(Work(r)) \in Nat \ {0}
         /\ \A p \in Passes(r) :
              /\ Len(Work(r)[p]) \in Nat \ {0}
              /\ \A c \in Tiles(r, p) :
                   /\ Len(Work(r)[p][c]) \in Nat \ {0}
                   /\ \A n \in 1..Len(Work(r)[p][c]) : Work(r)[p][c][n] \in Spots
<1> DEFINE Tile == Seq(Spots) \ {<<>>}
           Pass == Seq(Tile) \ {<<>>}
<1>1. Work(r) \in Seq(Pass) /\ Work(r) # <<>>
  BY RendersAssumption DEF Work
<1>2. Len(Work(r)) \in Nat \ {0} /\ \A p \in Passes(r) : Work(r)[p] \in Pass
  <2> HIDE DEF Pass
  <2> QED BY <1>1 DEF Passes
<1>3. ASSUME NEW p \in Passes(r)
      PROVE  Len(Work(r)[p]) \in Nat \ {0} /\ \A c \in Tiles(r, p) : Work(r)[p][c] \in Tile
  <2>1. Work(r)[p] \in Seq(Tile) /\ Work(r)[p] # <<>>
    BY <1>2
  <2> HIDE DEF Tile
  <2> QED BY <2>1 DEF Tiles
<1>4. ASSUME NEW p \in Passes(r), NEW c \in Tiles(r, p)
      PROVE  /\ Len(Work(r)[p][c]) \in Nat \ {0}
             /\ \A n \in 1..Len(Work(r)[p][c]) : Work(r)[p][c][n] \in Spots
  <2>1. Work(r)[p][c] \in Seq(Spots) /\ Work(r)[p][c] # <<>>
    BY <1>3
  <2> QED BY <2>1
<1>5. BlocksOf(r) \subseteq Blocks
  BY DEF Blocks
<1> QED
  BY <1>2, <1>3, <1>4, <1>5

LEMMA SampleTyped == \A b \in Blocks : Sample(b) \in Spots
BY BlocksAre, BlockFacts, WorkFacts DEF Sample

(* Where samples are filed: in a node that holds them.                     *)
LEMMA IdFacts ==
  ASSUME NEW b \in Blocks
  PROVE  /\ IdOf[b] \in Ids /\ IdOf[b] \in [size : Nat, x : Int]
         /\ \A p \in Int : /\ Sample(b).at - Sample(b).radius <= p
                           /\ p <= Sample(b).at + Sample(b).radius
                           => InNode(p, IdOf[b])
<1> DEFINE at == Sample(b).at
           radius == Sample(b).radius
           S == {s \in 0..MaxSize : HoldsSphere(s, at, radius)}
<1>1. at \in Int /\ radius \in Nat
  BY SampleTyped DEF Spots
<1>2. S # {} /\ S \in SUBSET Nat
  BY SizesAssumption, MaxSizeAssumption
<1>3. Min(S) \in S
  <2> HIDE DEF S
  <2>1. \E m \in S : \A n \in S : m <= n
    BY <1>2, Least
  <2> QED BY <2>1 DEF Min
<1> DEFINE s == Min(S)
<1>4. IdOf[b] = NodeAt(at, s)
  BY DEF IdOf, IndexSphere
<1>5. s \in 0..MaxSize /\ HoldsSphere(s, at, radius)
  BY <1>3
<1> HIDE DEF s, at, radius, S
<1>6. s \in Nat /\ Width[s] \in Nat /\ Width[s] > 0
  BY <1>5, MaxSizeAssumption, WidthFacts
<1>7. at \div Width[s] \in Int
  BY <1>1, <1>6
<1>8. IdOf[b] \in Ids /\ IdOf[b] \in [size : Nat, x : Int]
  BY <1>4, <1>5, <1>6, <1>7 DEF NodeAt, Ids
<1>9. InNode(at - radius, IdOf[b]) /\ InNode(at + radius, IdOf[b])
  BY <1>4, <1>5 DEF HoldsSphere
<1>10. ASSUME NEW p \in Int, at - radius <= p, p <= at + radius PROVE InNode(p, IdOf[b])
  <2>1. at - radius \in Int /\ at + radius \in Int
    BY <1>1
  <2> QED BY <1>8, <1>9, <1>10, <2>1, InBetween
<1> QED
  BY <1>8, <1>10 DEF at, radius

Entries == [node : Nat \ {0}, kid : 0..2]
NodeRecords == [id : Ids \cup {NoId}, kids : [KidNumbers -> Nat], values : SUBSET Blocks]
PoolRecords == [blocks : Seq(Blocks), savedHead : Nat, nextUnsaved : Nat]

Typed ==
  /\ render \in DOMAIN Renders /\ pass \in Passes(render) /\ left \subseteq Tiles(render, pass)
  /\ pc \in [Threads -> Labels] /\ point \in [Threads -> Blocks \cup {NoPoint}]
  /\ todo \in [Threads -> Seq(Entries)] /\ found \in [Threads -> SUBSET Blocks]
  /\ node \in [Threads -> Nat] /\ pool \in [Threads -> Nat]
  /\ root \in Nat /\ nodes \in Seq(NodeRecords) /\ treeMutex \in Threads \cup {NoThread}
  /\ pools \in Seq(PoolRecords) /\ freePools \in Seq(Nat \ {0})

(* A thread that is not idle has a tile of the pass for itself.            *)
PointsInv ==
  /\ \A t \in Threads : pc[t] # "idle" =>
       /\ point[t] \in BlocksOf(render) /\ point[t].pass = pass /\ point[t].tile \notin left
       /\ pc[t] \in {"save", "release"} =>
            point[t].n = Len(Work(render)[pass][point[t].tile])
  /\ \A t, u \in Threads : t # u /\ pc[t] # "idle" /\ pc[u] # "idle" =>
       point[t].tile # point[u].tile

(* The lock is owned where the tree is changed, and given back.            *)
LockInv ==
  /\ \A t \in Threads : pc[t] \in {"makeroot", "fillroot", "grow", "widen"} => treeMutex = t
  /\ LockIsGivenBack

-----------------------------------------------------------------------------
(* The tree.                                                               *)

Filled == \A t \in Threads : pc[t] # "fillroot"
RootId == nodes[root].id

(* The root is there before its Id is, and nothing else is then.           *)
RootInv ==
  /\ root \in 0..Len(nodes) /\ (root = 0 <=> nodes = <<>>)
  /\ \A t \in Threads :
       /\ pc[t] = "makeroot" => root = 0
       /\ pc[t] = "fillroot" => /\ root = 1
                                /\ nodes = <<[id |-> NoId, kids |-> NoKids, values |-> {}]>>
  /\ Filled /\ root # 0 =>
       /\ \A i \in 1..Len(nodes) : nodes[i].id \in Ids
       /\ \E b \in BlocksOf(render) : /\ IdOf[b].size <= RootId.size
                                      /\ RootId = AncestorAt(IdOf[b], RootId.size)

(* Every node is below the root, and so is all that is between them.       *)
BelowInv ==
  Filled /\ root # 0 => \A i \in 1..Len(nodes) :
    /\ nodes[i].id.size <= RootId.size
    /\ AncestorAt(nodes[i].id, RootId.size) = RootId
    /\ \A s \in nodes[i].id.size..RootId.size :
         \E j \in 1..Len(nodes) : nodes[j].id = AncestorAt(nodes[i].id, s)

KidsInv ==
  \A i \in 1..Len(nodes) : \A k \in KidNumbers : nodes[i].kids[k] \in 0..Len(nodes)

(* What a thread in GetNode knows of the tree, while others change it.     *)
WayInv ==
  \A t \in Threads :
    /\ pc[t] \in {"size", "lockgrow", "grow", "area", "lockwiden", "widen", "enter",
                  "descend", "lockkid", "insert"} => root # 0
    /\ pc[t] \in {"area", "lockwiden", "widen", "enter", "descend", "lockkid", "insert"} => Filled
    /\ pc[t] \in {"area", "lockwiden", "widen", "enter"} => Id(t).size <= RootId.size
    /\ pc[t] = "enter" => RootId = AncestorAt(Id(t), RootId.size)
    /\ pc[t] \in {"descend", "lockkid"} =>
         /\ node[t] \in 1..Len(nodes) /\ Id(t).size <= nodes[node[t]].id.size
         /\ nodes[node[t]].id = AncestorAt(Id(t), nodes[node[t]].id.size)
    /\ pc[t] = "insert" => node[t] \in 1..Len(nodes) /\ nodes[node[t]].id = Id(t)
    /\ node[t] <= Len(nodes)

TreeInv == RootInv /\ BelowInv /\ KidsInv /\ TreeIsOne

(* The way back of a search leads up the tree.                             *)
SearchInv ==
  \A t \in Threads :
    /\ pc[t] = "search" <=> todo[t] # <<>>
    /\ \A i \in 1..Len(todo[t]) :
         LET at == todo[t][i].node
         IN  /\ at <= Len(nodes) /\ nodes[at].id.size <= MaxSize + 1 - i
             /\ i > 1 => nodes[at].id \in Ids

-----------------------------------------------------------------------------
(* Samples, pools and the file.                                            *)

InGetNode == {"root", "lockroot", "makeroot", "fillroot", "size", "area", "grow", "widen",
              "enter", "descend", "insert"} \cup DOMAIN Unlocked
Judged == InGetNode \cup {"save", "release"}

BlocksIn(p) == {p.blocks[k] : k \in 1..Len(p.blocks)}
Pooled == UNION {BlocksIn(pools[i]) : i \in 1..Len(pools)}
Saved(p) == UnitSize * p.savedHead + p.nextUnsaved
AllSaved(p) == p.blocks # <<>> => p.savedHead = HeadOf(p) - 1 /\ p.nextUnsaved = NextFree(p)

OwnersInv ==
  /\ \A t \in Threads :
       /\ pool[t] <= Len(pools) /\ (pool[t] = 0 <=> pc[t] \in {"idle", "acquire"})
       /\ \A i \in 1..Len(freePools) : freePools[i] # pool[t]
       /\ pc[t] = "release" => AllSaved(pools[pool[t]])
  /\ \A t, u \in Threads : t # u /\ pool[t] # 0 => pool[t] # pool[u]
  /\ \A i \in 1..Len(freePools) : freePools[i] <= Len(pools) /\ AllSaved(pools[freePools[i]])
  /\ \A i, j \in 1..Len(freePools) : freePools[i] = freePools[j] => i = j
  /\ \A i \in 1..Len(pools) : \/ \E t \in Threads : pool[t] = i
                              \/ \E j \in 1..Len(freePools) : freePools[j] = i

(* Each sample is in one place of one pool; the file has those that were   *)
(* saved.                                                                  *)
FileInv ==
  /\ \A i, j \in 1..Len(pools) :
       \A k \in 1..Len(pools[i].blocks) : \A m \in 1..Len(pools[j].blocks) :
         pools[i].blocks[k] = pools[j].blocks[m] => i = j /\ k = m
  /\ \A i \in 1..Len(pools) : /\ pools[i].nextUnsaved <= UnitSize
                              /\ Saved(pools[i]) <= Len(pools[i].blocks)
  /\ DOMAIN file = UNION {{pools[i].blocks[k] : k \in 1..Saved(pools[i])} : i \in 1..Len(pools)}
  /\ \A b \in DOMAIN file : file[b] = 1

(* Samples are of points that threads have come to.                        *)
PooledInv ==
  /\ \A b \in Pooled :
       /\ b \in BlocksOf(render) /\ b.pass <= pass /\ (b.pass = pass => b.tile \notin left)
       /\ \A t \in Threads : pc[t] # "idle" /\ b.pass = pass /\ b.tile = point[t].tile =>
            b.n < point[t].n \/ (b.n = point[t].n /\ pc[t] \in Judged)
  /\ \A t \in Threads : pc[t] \in InGetNode => point[t] \in Pooled

TakenInv ==
  /\ Taken = {b \in Pooled : \A t \in Threads : pc[t] \in InGetNode => point[t] # b}
  /\ WellFiled

IInv == /\ Typed /\ PointsInv /\ LockInv /\ TreeInv /\ WayInv /\ SearchInv
        /\ OwnersInv /\ FileInv /\ PooledInv /\ TakenInv

-----------------------------------------------------------------------------
(* What a search finds: of the samples that are there when it begins.      *)

(* The search will still come to the node of b, from this entry on.        *)
Leads(e, b) ==
  LET id == nodes[e.node].id
  IN  \/ id = IdOf[b]
      \/ /\ id.size > IdOf[b].size /\ AncestorAt(IdOf[b], id.size) = id
         /\ KidIndex(AncestorAt(IdOf[b], id.size - 1)) >= e.kid

Ahead(t, b) == \E i \in 1..Len(todo[t]) : Leads(todo[t][i], b)

Finds(t) ==
  pc[t] \in {"search", "judge"} =>
    /\ \A b \in Taken : Settled(t, b) /\ Usable(b, point[t]) /\ FiledAround(b, point[t]) =>
         b \in found[t] \/ (pc[t] = "search" /\ Ahead(t, b))
    /\ \A b \in found[t] : b \in Taken /\ Usable(b, point[t])

FindsInv == \A t \in Threads : Finds(t)

Decided(b) ==
  \/ b.pass < pass
  \/ /\ b.pass = pass /\ b.tile \notin left
     /\ \A t \in Threads : pc[t] # "idle" /\ point[t].tile = b.tile =>
          b.n < point[t].n \/ (b.n = point[t].n /\ pc[t] \in Judged)

DecidedInv ==
  Determined(render) => \A b \in BlocksOf(render) :
    Decided(b) => (b \in Pooled <=> b \in OneThread[render])

(* Sequences.                                                              *)

LEMMA AppendFacts ==
  ASSUME NEW S, NEW s \in Seq(S), NEW e \in S
  PROVE  /\ Append(s, e) \in Seq(S) /\ Len(Append(s, e)) = Len(s) + 1
         /\ \A i \in 1..Len(s) : Append(s, e)[i] = s[i]
         /\ Append(s, e)[Len(s) + 1] = e
OBVIOUS

Changed(r, s, i, e) == r = [s EXCEPT ![i] = e]

LEMMA ExceptFacts ==
  ASSUME NEW S, NEW s \in Seq(S), NEW i \in 1..Len(s), NEW e \in S, NEW r, Changed(r, s, i, e)
  PROVE  /\ r \in Seq(S) /\ Len(r) = Len(s) /\ r[i] = e
         /\ \A j \in 1..Len(s) : j # i => r[j] = s[j]
BY DEF Changed

LEMMA FrontFacts ==
  ASSUME NEW S, NEW s \in Seq(S), s # <<>>
  PROVE  /\ Len(s) \in Nat \ {0} /\ Last(s) \in S /\ Last(s) = s[Len(s)]
         /\ Front(s) \in Seq(S) /\ Len(Front(s)) = Len(s) - 1
         /\ \A i \in 1..Len(s) - 1 : Front(s)[i] = s[i]
<1>1. Len(s) \in Nat \ {0}
  OBVIOUS
<1>2. Last(s) \in S /\ Last(s) = s[Len(s)]
  BY <1>1 DEF Last
<1> DEFINE n == Len(s) - 1
<1>3. n \in Int /\ 1 \in Int /\ \A i \in 1..n : s[i] \in S
  BY <1>1
<1>4. /\ SubSeq(s, 1, n) \in Seq(S) /\ Len(SubSeq(s, 1, n)) = IF 1 <= n THEN n - 1 + 1 ELSE 0
      /\ \A i \in 1..n - 1 + 1 : SubSeq(s, 1, n)[i] = s[1 + i - 1]
  BY <1>3, SubSeqProperties
<1>5. n - 1 + 1 = n /\ (IF 1 <= n THEN n - 1 + 1 ELSE 0) = n
  <2>1. n \in Nat
    BY <1>1
  <2> HIDE DEF n
  <2> QED BY <2>1
<1>6. Front(s) = SubSeq(s, 1, n)
  BY DEF Front
<1> HIDE DEF n
<1>7. Front(s) \in Seq(S) /\ Len(Front(s)) = n /\ \A i \in 1..n : Front(s)[i] = s[i]
  <2>1. \A i \in 1..n : 1 + i - 1 = i
    OBVIOUS
  <2> QED BY <1>4, <1>5, <1>6, <2>1
<1> QED
  BY <1>1, <1>2, <1>7 DEF n

LEMMA ElementFacts ==
  ASSUME NEW S, NEW s \in Seq(S)
  PROVE  /\ Len(s) \in Nat /\ \A i \in 1..Len(s) : s[i] \in S
         /\ s = <<>> <=> Len(s) = 0
OBVIOUS

-----------------------------------------------------------------------------
(* Ids and kids.                                                           *)

LEMMA ParentTyped ==
  ASSUME NEW id \in [size : Nat, x : Int]
  PROVE  ot_parent(id) \in [size : {id.size + 1}, x : Int] /\ KidIndex(id) \in KidNumbers
BY DEF ot_parent, KidIndex, KidNumbers

LEMMA IdsTyped == \A id \in Ids : id \in [size : Nat, x : Int] /\ id.size \in 0..MaxSize /\ id # NoId
BY MaxSizeAssumption DEF Ids, NoId

-----------------------------------------------------------------------------
(* What the actions make of the tree.                                      *)

Kept(n) == \A i \in 1..n : nodes'[i] = nodes[i]

LEMMA NodeFacts ==
  ASSUME Typed, NEW i \in 1..Len(nodes)
  PROVE  /\ nodes[i] \in NodeRecords /\ nodes[i].id \in Ids \cup {NoId}
         /\ nodes[i].kids \in [KidNumbers -> Nat] /\ nodes[i].values \in SUBSET Blocks
<1>1. nodes[i] \in NodeRecords
  BY ElementFacts DEF Typed
<1> QED
  BY <1>1 DEF NodeRecords

LEMMA NewNode ==
  ASSUME Typed, NEW id \in Ids \cup {NoId}, NEW kids \in [KidNumbers -> Nat],
         nodes' = Append(nodes, [id |-> id, kids |-> kids, values |-> {}])
  PROVE  /\ nodes' \in Seq(NodeRecords) /\ Len(nodes') = Len(nodes) + 1 /\ Len(nodes) \in Nat
         /\ Kept(Len(nodes))
         /\ nodes'[Len(nodes) + 1] = [id |-> id, kids |-> kids, values |-> {}]
<1>1. [id |-> id, kids |-> kids, values |-> {}] \in NodeRecords
  BY DEF NodeRecords
<1>2. nodes \in Seq(NodeRecords)
  BY DEF Typed
<1> QED
  BY <1>1, <1>2, AppendFacts, ElementFacts DEF Kept

LEMMA NoKidsFacts ==
  /\ NoKids \in [KidNumbers -> Nat] /\ \A k \in KidNumbers : NoKids[k] = 0
  /\ \A k \in KidNumbers : \A i \in Nat : [NoKids EXCEPT ![k] = i] \in [KidNumbers -> Nat]
BY DEF NoKids

(* The root's parent, with the root as its only kid.                       *)
LEMMA NewRoot ==
  ASSUME Typed, root \in 1..Len(nodes), RootId \in Ids, RootId.size < MaxSize, ot_newroot
  PROVE  /\ nodes' \in Seq(NodeRecords) /\ Len(nodes') = Len(nodes) + 1 /\ root' = Len(nodes) + 1
         /\ Kept(Len(nodes))
         /\ nodes'[root'].id = ot_parent(RootId) /\ nodes'[root'].id \in Ids
         /\ nodes'[root'].values = {}
         /\ \A k \in KidNumbers : nodes'[root'].kids[k] = IF k = KidIndex(RootId) THEN root ELSE 0
<1> DEFINE up == ot_parent(RootId)
           kids == [NoKids EXCEPT ![KidIndex(RootId)] = root]
<1>1. up \in Ids /\ KidIndex(RootId) \in KidNumbers
  <2>1. RootId \in [size : Nat, x : Int]
    BY IdsTyped
  <2>2. up \in [size : {RootId.size + 1}, x : Int] /\ KidIndex(RootId) \in KidNumbers
    BY <2>1, ParentTyped
  <2>3. RootId.size + 1 \in 0..MaxSize
    BY <2>1, MaxSizeAssumption
  <2> QED BY <2>2, <2>3 DEF Ids
<1>2. kids \in [KidNumbers -> Nat]
  BY <1>1, NoKidsFacts DEF Typed
<1>3. nodes' = Append(nodes, [id |-> up, kids |-> kids, values |-> {}]) /\ root' = Len(nodes')
  BY DEF ot_newroot, RootId
<1>4. \A k \in KidNumbers : kids[k] = IF k = KidIndex(RootId) THEN root ELSE 0
  BY <1>1, NoKidsFacts
<1> HIDE DEF up, kids
<1>5. /\ nodes' \in Seq(NodeRecords) /\ Len(nodes') = Len(nodes) + 1 /\ Len(nodes) \in Nat
      /\ Kept(Len(nodes)) /\ nodes'[Len(nodes) + 1] = [id |-> up, kids |-> kids, values |-> {}]
  BY <1>1, <1>2, <1>3, NewNode
<1> QED
  BY <1>1, <1>3, <1>4, <1>5 DEF up

(* A node without kids that hangs on another one, in a free place.         *)
HungOn(at, id, k) ==
  nodes' = [Append(nodes, [id |-> id, kids |-> NoKids, values |-> {}])
              EXCEPT ![at].kids[k] = Len(nodes) + 1]

LEMMA NewKid ==
  ASSUME Typed, NEW at \in 1..Len(nodes), NEW id \in Ids, NEW k \in KidNumbers,
         HungOn(at, id, k)
  PROVE  LET n == Len(nodes) + 1
         IN  /\ nodes' \in Seq(NodeRecords) /\ Len(nodes') = n
             /\ \A i \in 1..Len(nodes) : /\ nodes'[i].id = nodes[i].id
                                         /\ nodes'[i].values = nodes[i].values
                                         /\ i # at => nodes'[i].kids = nodes[i].kids
             /\ \A m \in KidNumbers : nodes'[at].kids[m] = IF m = k THEN n ELSE nodes[at].kids[m]
             /\ nodes'[n].id = id /\ nodes'[n].values = {} /\ nodes'[n].kids = NoKids
<1> DEFINE new == [id |-> id, kids |-> NoKids, values |-> {}]
           s == Append(nodes, new)
           n == Len(nodes) + 1
           e == [nodes[at] EXCEPT !.kids[k] = n]
<1>1. new \in NodeRecords /\ nodes \in Seq(NodeRecords) /\ nodes[at] \in NodeRecords
  BY NoKidsFacts, NodeFacts DEF NodeRecords, Typed
<1>2. /\ s \in Seq(NodeRecords) /\ Len(s) = n /\ s[n] = new /\ Len(nodes) \in Nat
      /\ \A i \in 1..Len(nodes) : s[i] = nodes[i]
  BY <1>1, AppendFacts, ElementFacts
<1>3. Changed(nodes', s, at, e)
  <2>1. s[at] = nodes[at]
    BY <1>2
  <2> HIDE DEF s
  <2> QED BY <2>1 DEF s, new, HungOn, Changed
<1> HIDE DEF new, s
<1>4. /\ e \in NodeRecords /\ e.id = nodes[at].id /\ e.values = nodes[at].values
      /\ \A m \in KidNumbers : e.kids[m] = IF m = k THEN n ELSE nodes[at].kids[m]
  <2>1. s[at] = nodes[at] /\ n \in Nat
    BY <1>2
  <2>2. nodes[at].kids \in [KidNumbers -> Nat]
    BY <1>1 DEF NodeRecords
  <2>6. nodes[at] = [id |-> nodes[at].id, kids |-> nodes[at].kids, values |-> nodes[at].values]
    BY <1>1 DEF NodeRecords
  <2> DEFINE ks == [nodes[at].kids EXCEPT ![k] = n]
  <2>7. e = [nodes[at] EXCEPT !.kids = ks]
    OBVIOUS
  <2> HIDE DEF ks, n
  <2>8. e = [id |-> nodes[at].id, kids |-> ks, values |-> nodes[at].values]
    BY <2>6, <2>7
  <2>3. e = [id |-> nodes[at].id, kids |-> [nodes[at].kids EXCEPT ![k] = n],
             values |-> nodes[at].values]
    BY <2>8 DEF ks
  <2>4. [nodes[at].kids EXCEPT ![k] = n] \in [KidNumbers -> Nat]
    BY <2>1, <2>2
  <2>5. e \in NodeRecords
    BY <1>1, <2>3, <2>4 DEF NodeRecords
  <2> QED BY <2>2, <2>3, <2>5
<1> HIDE DEF e
<1>5. at \in 1..Len(s) /\ n \in 1..Len(s) /\ n # at
  BY <1>2
<1>6. /\ nodes' \in Seq(NodeRecords) /\ Len(nodes') = Len(s) /\ nodes'[at] = e
      /\ \A j \in 1..Len(s) : j # at => nodes'[j] = s[j]
  <2>1. s \in Seq(NodeRecords) /\ e \in NodeRecords
    BY <1>2, <1>4
  <2> QED BY <1>3, <1>5, <2>1, ExceptFacts
<1>7. /\ nodes'[n].id = id /\ nodes'[n].values = {} /\ nodes'[n].kids = NoKids
  BY <1>2, <1>5, <1>6 DEF new
<1>8. ASSUME NEW i \in 1..Len(nodes)
      PROVE  /\ nodes'[i].id = nodes[i].id /\ nodes'[i].values = nodes[i].values
             /\ i # at => nodes'[i].kids = nodes[i].kids
  <2>1. CASE i = at BY <1>4, <1>6, <2>1
  <2>2. CASE i # at
    <3>1. i \in 1..Len(s) /\ s[i] = nodes[i]
      BY <1>2
    <3> QED BY <1>6, <2>2, <3>1
  <2> QED BY <2>1, <2>2
<1> QED
  BY <1>2, <1>4, <1>6, <1>7, <1>8

ValueAdded(at, b) == nodes' = [nodes EXCEPT ![at].values = @ \cup {b}]

LEMMA NewValue ==
  ASSUME Typed, NEW at \in 1..Len(nodes), NEW b \in Blocks,
         ValueAdded(at, b)
  PROVE  /\ nodes' \in Seq(NodeRecords) /\ Len(nodes') = Len(nodes)
         /\ \A i \in 1..Len(nodes) :
              /\ nodes'[i].id = nodes[i].id /\ nodes'[i].kids = nodes[i].kids
              /\ nodes'[i].values = IF i = at THEN nodes[i].values \cup {b} ELSE nodes[i].values
<1> DEFINE e == [nodes[at] EXCEPT !.values = @ \cup {b}]
<1>1. nodes[at] \in NodeRecords /\ nodes \in Seq(NodeRecords)
  BY NodeFacts DEF Typed
<1>2. /\ e \in NodeRecords /\ e.id = nodes[at].id /\ e.kids = nodes[at].kids
      /\ e.values = nodes[at].values \cup {b}
  BY <1>1 DEF NodeRecords
<1>3. Changed(nodes', nodes, at, e)
  BY DEF ValueAdded, Changed
<1> HIDE DEF e
<1>5. e \in NodeRecords
  BY <1>2
<1>4. /\ nodes' \in Seq(NodeRecords) /\ Len(nodes') = Len(nodes) /\ nodes'[at] = e
      /\ \A j \in 1..Len(nodes) : j # at => nodes'[j] = nodes[j]
  BY <1>1, <1>3, <1>5, ExceptFacts
<1>6. ASSUME NEW i \in 1..Len(nodes)
      PROVE  /\ nodes'[i].id = nodes[i].id /\ nodes'[i].kids = nodes[i].kids
             /\ nodes'[i].values = IF i = at THEN nodes[i].values \cup {b} ELSE nodes[i].values
  <2>1. CASE i = at BY <1>2, <1>4, <2>1
  <2>2. CASE i # at BY <1>4, <2>2
  <2> QED BY <2>1, <2>2
<1> QED
  BY <1>4, <1>6

IdSet(at, id) == nodes' = [nodes EXCEPT ![at].id = id]

LEMMA NewId ==
  ASSUME Typed, NEW at \in 1..Len(nodes), NEW id \in Ids, IdSet(at, id)
  PROVE  /\ nodes' \in Seq(NodeRecords) /\ Len(nodes') = Len(nodes)
         /\ nodes'[at].id = id /\ nodes'[at].kids = nodes[at].kids
         /\ nodes'[at].values = nodes[at].values
         /\ \A i \in 1..Len(nodes) : i # at => nodes'[i] = nodes[i]
<1> DEFINE e == [nodes[at] EXCEPT !.id = id]
<1>1. nodes[at] \in NodeRecords /\ nodes \in Seq(NodeRecords)
  BY NodeFacts DEF Typed
<1>2. /\ e \in NodeRecords /\ e.id = id /\ e.kids = nodes[at].kids /\ e.values = nodes[at].values
  BY <1>1 DEF NodeRecords
<1>3. Changed(nodes', nodes, at, e)
  BY DEF IdSet, Changed
<1> HIDE DEF e
<1>4. /\ nodes' \in Seq(NodeRecords) /\ Len(nodes') = Len(nodes) /\ nodes'[at] = e
      /\ \A j \in 1..Len(nodes) : j # at => nodes'[j] = nodes[j]
  BY <1>1, <1>2, <1>3, ExceptFacts
<1> QED
  BY <1>2, <1>4

-----------------------------------------------------------------------------
(* What a thread is at.                                                    *)

LEMMA AtPoint ==
  ASSUME Typed, PointsInv, NEW t \in Threads, pc[t] # "idle"
  PROVE  /\ point[t] \in BlocksOf(render) /\ point[t] \in Blocks
         /\ point[t].render = render /\ point[t].pass = pass
         /\ point[t].tile \in Tiles(render, pass)
         /\ point[t].n \in 1..Len(Work(render)[pass][point[t].tile])
         /\ Id(t) \in Ids /\ Id(t) \in [size : Nat, x : Int] /\ Id(t).size \in 0..MaxSize
<1>1. point[t] \in BlocksOf(render) /\ render \in DOMAIN Renders /\ point[t].pass = pass
  BY DEF PointsInv, Typed
<1>2. point[t] \in Blocks
  BY <1>1, WorkFacts
<1>3. Id(t) \in Ids
  BY <1>2, IdFacts DEF Id
<1> QED
  BY <1>1, <1>2, <1>3, IdsTyped, BlockFacts

LEMMA AtRoot ==
  ASSUME Typed, TreeInv, root # 0
  PROVE  /\ root \in 1..Len(nodes) /\ RootId \in Ids \cup {NoId}
         /\ Filled => RootId \in Ids /\ RootId \in [size : Nat, x : Int] /\ RootId.size \in 0..MaxSize
<1>1. root \in 1..Len(nodes) /\ Len(nodes) \in Nat
  BY ElementFacts DEF TreeInv, RootInv, Typed
<1>2. RootId \in Ids \cup {NoId}
  BY <1>1, NodeFacts DEF RootId
<1>3. Filled => RootId \in Ids
  BY <1>1 DEF TreeInv, RootInv, RootId
<1> QED
  BY <1>1, <1>2, <1>3, IdsTyped

(* The tree needs no root above MaxSize.                                   *)
LEMMA RootGrows ==
  ASSUME IInv, NEW t \in Threads, \/ pc[t] = "grow" /\ RootTooSmall(t)
                                  \/ pc[t] = "widen" /\ RootElsewhere(t)
  PROVE  root \in 1..Len(nodes) /\ RootId \in Ids /\ RootId.size < MaxSize /\ Filled
<1> USE DEF IInv
<1>1. root # 0 /\ treeMutex = t
  BY DEF WayInv, LockInv
<1>2. Filled
  <2>1. \A u \in Threads : pc[u] = "fillroot" => u = t
    BY <1>1 DEF LockInv
  <2> QED BY <2>1 DEF Filled
<1>3. root \in 1..Len(nodes) /\ RootId \in Ids /\ RootId.size \in 0..MaxSize
  BY <1>1, <1>2, AtRoot
<1>4. /\ point[t] \in BlocksOf(render) /\ point[t] \in Blocks /\ Id(t).size \in 0..MaxSize
      /\ point[t].render = render
  BY AtPoint
<1>5. RootId.size # MaxSize
  <2>1. CASE pc[t] = "grow" /\ RootTooSmall(t)
    BY <1>3, <1>4, <2>1, MaxSizeAssumption DEF RootTooSmall, RootId
  <2>2. CASE pc[t] = "widen" /\ RootElsewhere(t)
    <3>1. PICK b \in BlocksOf(render) : RootId = AncestorAt(IdOf[b], RootId.size)
      BY <1>1, <1>2 DEF TreeInv, RootInv
    <3>2. b \in Blocks /\ b.render = render
      BY <3>1, WorkFacts, BlockFacts DEF Typed
    <3>3. AncestorAt(Id(t), MaxSize) = AncestorAt(IdOf[b], MaxSize)
      BY <1>4, <3>2, SizesAssumption DEF Id
    <3> QED BY <2>2, <3>1, <3>3 DEF RootElsewhere, RootId
  <2> QED BY <2>1, <2>2
<1> QED
  BY <1>2, <1>3, <1>5, MaxSizeAssumption

(* Units of a pool.                                                        *)
LEMMA UnitFacts ==
  ASSUME NEW p \in PoolRecords
  PROVE  /\ Len(p.blocks) \in Nat /\ HeadOf(p) \in Nat /\ NextFree(p) \in Int
         /\ p.blocks # <<>> => /\ HeadOf(p) >= 1 /\ NextFree(p) \in 1..UnitSize
                               /\ UnitSize * (HeadOf(p) - 1) + NextFree(p) = Len(p.blocks)
         /\ p.blocks = <<>> <=> Len(p.blocks) = 0
         /\ p.blocks = <<>> => HeadOf(p) = 0
<1> DEFINE n == Len(p.blocks)
           U == UnitSize
           h == (n + U - 1) \div U
<1>1. p.blocks \in Seq(Blocks) /\ n \in Nat /\ (p.blocks = <<>> <=> n = 0)
  BY ElementFacts DEF PoolRecords
<1>2. U \in Nat /\ U > 0
  BY TileIdsAssumption
<1>3. HeadOf(p) = h /\ NextFree(p) = n - U * (h - 1)
  BY DEF HeadOf, NextFree
<1> HIDE DEF n, U
<1>4. h \in Nat /\ U * h <= n + U - 1 /\ n + U - 1 < U * h + U
  BY <1>1, <1>2
<1> HIDE DEF h
<1>5. U * (h - 1) = U * h - U
  BY <1>2, <1>4
<1>6. n > 0 => h # 0
  <2>1. h = 0 => U * h = 0
    BY <1>2
  <2> QED BY <1>1, <1>2, <1>4, <2>1
<1>8. n = 0 => h = 0
  <2>1. h >= 1 => U * h >= U
    BY <1>2, <1>4
  <2> QED BY <1>2, <1>4, <2>1
<1>7. U * h \in Int
  BY <1>2, <1>4
<1> DEFINE m == U * h
<1> HIDE DEF m
<1>9. n - (m - U) \in Int /\ (n > 0 => n - (m - U) \in 1..U) /\ (m - U) + (n - (m - U)) = n
  BY <1>1, <1>2, <1>4, <1>7 DEF m
<1> QED
  BY <1>1, <1>3, <1>4, <1>5, <1>6, <1>8, <1>9 DEF n, U, m

-----------------------------------------------------------------------------
(* What a step leaves alone.                                               *)

Alone(t) ==
  /\ render' = render /\ pass' = pass
  /\ \A u \in Threads : u # t =>
       /\ pc'[u] = pc[u] /\ point'[u] = point[u] /\ todo'[u] = todo[u]
       /\ found'[u] = found[u] /\ node'[u] = node[u] /\ pool'[u] = pool[u]

LEMMA StepAlone ==
  ASSUME Typed, NEW t \in Threads, Step(t)
  PROVE  Alone(t)
BY DEF Typed, Alone, Step, TakeTile, AcquireBlockPool, Save, ReleaseBlockPool, StartQuery,
  LookAtKid, LookAtValues, Reuse, NewBlock, LookForRoot, LockRoot, MakeRoot, FillRoot,
  CompareSize, CompareArea, Lock, Grow, Widen, Enter, Descend, ReturnNode, InsertBlock,
  Goto, NextPoint, Rest, store, tree

-----------------------------------------------------------------------------
(* Types.                                                                  *)

LEMMA NextPointTyped ==
  ASSUME Typed, PointsInv, NEW t \in Threads, pc[t] # "idle", NextPoint(t)
  PROVE  pc' \in [Threads -> Labels] /\ point' \in [Threads -> Blocks \cup {NoPoint}]
<1>1. /\ point[t] \in BlocksOf(render) /\ point[t].pass = pass /\ point[t].render = render
      /\ point[t].tile \in Tiles(render, pass)
      /\ point[t].n \in 1..Len(Work(render)[pass][point[t].tile])
      /\ render \in DOMAIN Renders /\ pass \in Passes(render)
  BY AtPoint DEF Typed
<1> DEFINE len == Len(Work(render)[pass][point[t].tile])
<1>2. len \in Nat
  BY <1>1, WorkFacts
<1>3. CASE point[t].n < len
  <2> DEFINE b == [point[t] EXCEPT !.n = @ + 1]
  <2>1. point[t] = [render |-> render, pass |-> pass, tile |-> point[t].tile, n |-> point[t].n]
    BY <1>1, BlockFacts
  <2>2. b = [render |-> render, pass |-> pass, tile |-> point[t].tile, n |-> point[t].n + 1]
    BY <2>1
  <2>3. point[t].n + 1 \in 1..len
    BY <1>1, <1>2, <1>3
  <2>4. b \in Blocks
    BY <1>1, <2>2, <2>3, BlockFacts, WorkFacts
  <2>5. point' = [point EXCEPT ![t] = b] /\ Goto(t, "query")
    BY <1>1, <1>3 DEF NextPoint
  <2> HIDE DEF b
  <2> QED BY <2>4, <2>5 DEF Typed, Goto, Labels
<1>4. CASE ~(point[t].n < len)
  BY <1>1, <1>4 DEF NextPoint, Goto, Typed, Labels
<1> QED
  BY <1>3, <1>4

LEMMA TypedPools ==
  ASSUME IInv, NEW t \in Threads,
         TakeTile(t) \/ AcquireBlockPool(t) \/ Save(t) \/ ReleaseBlockPool(t)
  PROVE  Typed'
<1> USE DEF IInv
<1>1. CASE TakeTile(t)
  <2> DEFINE c == CHOOSE m \in left : \A n \in left : m <= n
             b == [render |-> render, pass |-> pass, tile |-> c, n |-> 1]
  <2>1. left # {} /\ left \subseteq Tiles(render, pass) /\ left \in SUBSET Nat
    BY <1>1 DEF TakeTile, Typed, Tiles
  <2>2. \E m \in left : \A n \in left : m <= n
    BY <2>1, Least
  <2>3. c \in left /\ c = Min(left)
    BY <2>2 DEF Min
  <2>4. b \in Blocks
    <3>1. render \in DOMAIN Renders /\ pass \in Passes(render) /\ c \in Tiles(render, pass)
      BY <2>1, <2>3 DEF Typed
    <3>2. 1 \in 1..Len(Work(render)[pass][c])
      BY <3>1, WorkFacts
    <3>3. b \in BlocksOf(render)
      BY <3>1, <3>2, BlockFacts
    <3> QED BY <3>1, <3>3, WorkFacts
  <2>5. /\ point' = [point EXCEPT ![t] = b] /\ left' = left \ {c} /\ Goto(t, "acquire")
        /\ UNCHANGED <<render, pass, todo, found, node, tree, store>>
    BY <1>1, <2>3 DEF TakeTile
  <2> HIDE DEF b, c
  <2>6. left' \subseteq Tiles(render, pass)
    BY <2>1, <2>5
  <2> QED BY <2>4, <2>5, <2>6 DEF Typed, tree, store, Goto, Labels
<1>2. CASE AcquireBlockPool(t)
  <2>1. NewPool \in PoolRecords
    BY DEF NewPool, PoolRecords
  <2>2. CASE freePools = <<>>
    <3>2. pools' = Append(pools, NewPool) /\ pools \in Seq(PoolRecords)
      BY <1>2, <2>2 DEF AcquireBlockPool, Typed
    <3>1. pools' \in Seq(PoolRecords) /\ Len(pools') \in Nat
      <4>1. Append(pools, NewPool) \in Seq(PoolRecords)
        BY <2>1, <3>2, AppendFacts
      <4> QED BY <3>2, <4>1, ElementFacts
    <3> QED BY <1>2, <2>2, <3>1 DEF AcquireBlockPool, Typed, tree, Goto, Labels
  <2>3. CASE freePools # <<>>
    <3>1. Last(freePools) \in Nat \ {0} /\ Front(freePools) \in Seq(Nat \ {0})
      BY <2>3, FrontFacts DEF Typed
    <3> QED BY <1>2, <2>3, <3>1 DEF AcquireBlockPool, Typed, tree, Goto, Labels
  <2> QED BY <2>2, <2>3
<1>3. CASE Save(t)
  <2> DEFINE p == pools[pool[t]]
             e == [p EXCEPT !.savedHead = HeadOf(p) - 1, !.nextUnsaved = NextFree(p)]
  <2>1. pc[t] = "save" /\ pool[t] \in 1..Len(pools)
    <3>1. pc[t] = "save"
      BY <1>3 DEF Save
    <3>2. pool[t] \in Nat /\ pool[t] # 0 /\ pool[t] <= Len(pools)
      BY <3>1 DEF OwnersInv, Typed
    <3> QED BY <3>1, <3>2, ElementFacts DEF Typed
  <2>2. p \in PoolRecords /\ pools \in Seq(PoolRecords)
    BY <2>1, ElementFacts DEF Typed
  <2>3. pools' \in Seq(PoolRecords)
    <3>1. CASE p.blocks = <<>>
      BY <1>3, <2>2, <3>1 DEF Save
    <3>2. CASE p.blocks # <<>>
      <4>1. HeadOf(p) - 1 \in Nat /\ NextFree(p) \in Nat
        BY <2>2, <3>2, UnitFacts
      <4>2. e \in PoolRecords
        BY <2>2, <4>1 DEF PoolRecords
      <4>3. Changed(pools', pools, pool[t], e)
        BY <1>3, <3>2 DEF Save, Changed
      <4> HIDE DEF e
      <4> QED BY <2>1, <2>2, <4>2, <4>3, ExceptFacts
    <3> QED BY <3>1, <3>2
  <2> HIDE DEF e, p
  <2>4. /\ pc' = [pc EXCEPT ![t] = "release"]
        /\ UNCHANGED <<render, pass, left, point, todo, found, node, pool, tree, freePools>>
    BY <1>3 DEF Save, Goto
  <2> QED BY <2>3, <2>4 DEF Typed, tree, Labels
<1>4. CASE ReleaseBlockPool(t)
  <2>1. pool[t] \in Nat \ {0}
    BY <1>4 DEF ReleaseBlockPool, OwnersInv, Typed
  <2>2. freePools' \in Seq(Nat \ {0})
    BY <1>4, <2>1, AppendFacts DEF ReleaseBlockPool, Typed
  <2> QED BY <1>4, <2>2 DEF ReleaseBlockPool, Typed, tree, Goto, Labels
<1> QED
  BY <1>1, <1>2, <1>3, <1>4

LEMMA TypedSearch ==
  ASSUME IInv, NEW t \in Threads,
         StartQuery(t) \/ LookAtKid(t) \/ LookAtValues(t) \/ Reuse(t) \/ NewBlock(t)
  PROVE  Typed'
<1> USE DEF IInv
<1>1. CASE StartQuery(t)
  <2>1. root # 0 => <<[node |-> root, kid |-> 0]>> \in Seq(Entries)
    BY DEF Entries, Typed
  <2> DEFINE start == <<[node |-> root, kid |-> 0]>>
  <2>2. todo' \in [Threads -> Seq(Entries)]
    <3> HIDE DEF start
    <3>1. todo' = todo \/ (root # 0 /\ todo' = [todo EXCEPT ![t] = start])
      BY <1>1 DEF StartQuery, start
    <3> QED BY <2>1, <3>1 DEF Typed, start
  <2> HIDE DEF start
  <2>3. pc' \in [Threads -> Labels] /\ found' \in [Threads -> SUBSET Blocks]
    BY <1>1 DEF StartQuery, Typed, Goto, Labels
  <2>4. UNCHANGED <<render, pass, left, point, node, tree, store>>
    BY <1>1 DEF StartQuery
  <2> QED BY <2>2, <2>3, <2>4 DEF Typed, tree, store
<1>2. CASE LookAtKid(t)
  <2> DEFINE n == Len(todo[t])
             at == Last(todo[t])
             kid == nodes[at.node].kids[at.kid]
             e == [at EXCEPT !.kid = @ + 1]
             on == [todo[t] EXCEPT ![n] = e]
             next == [node |-> kid, kid |-> 0]
  <2>1. todo[t] \in Seq(Entries) /\ todo[t] # <<>> /\ pc[t] = "search" /\ at.kid \in KidNumbers
    BY <1>2 DEF LookAtKid, Typed, SearchInv
  <2>2. n \in 1..n /\ n \in Nat \ {0} /\ at \in Entries /\ at = todo[t][n]
    BY <2>1, FrontFacts
  <2>3. e \in Entries
    BY <2>1, <2>2 DEF Entries, KidNumbers
  <2>4. on \in Seq(Entries)
    <3>1. Changed(on, todo[t], n, e)
      BY DEF Changed
    <3> HIDE DEF on, e
    <3> QED BY <2>1, <2>2, <2>3, <3>1, ExceptFacts
  <2>5. kid \in Nat
    <3>1. at.node \in 1..Len(nodes)
      <4>1. at.node <= Len(nodes)
        BY <2>1, <2>2 DEF SearchInv
      <4> QED BY <2>2, <4>1, ElementFacts DEF Entries, Typed
    <3>2. nodes[at.node].kids \in [KidNumbers -> Nat]
      BY <3>1, NodeFacts
    <3> QED BY <2>1, <3>2
  <2>6. todo' = [todo EXCEPT ![t] = IF kid # 0 /\ InNode(Here(t).at, nodes[kid].id)
                                    THEN Append(on, next) ELSE on]
    <3>1. [todo[t] EXCEPT ![Len(todo[t])].kid = @ + 1] = on
      BY <2>2
    <3> QED BY <1>2, <3>1 DEF LookAtKid
  <2>7. kid # 0 => Append(on, next) \in Seq(Entries)
    <3>1. kid # 0 => next \in Entries
      BY <2>5 DEF Entries
    <3> HIDE DEF on, next
    <3> QED BY <2>4, <3>1, AppendFacts
  <2>8. UNCHANGED <<render, pass, left, pc, point, found, node, tree, store>>
    BY <1>2 DEF LookAtKid
  <2> HIDE DEF on, next, kid, e, at, n
  <2>9. todo' \in [Threads -> Seq(Entries)]
    BY <2>4, <2>6, <2>7 DEF Typed
  <2> QED BY <2>8, <2>9 DEF Typed, tree, store
<1>3. CASE LookAtValues(t)
  <2>1. todo[t] \in Seq(Entries) /\ todo[t] # <<>>
    BY <1>3 DEF LookAtValues, Typed, SearchInv
  <2>2. Front(todo[t]) \in Seq(Entries) /\ Last(todo[t]) \in Entries /\ Last(todo[t]).node <= Len(nodes)
    <3>1. /\ Len(todo[t]) \in 1..Len(todo[t]) /\ Last(todo[t]) = todo[t][Len(todo[t])]
          /\ Front(todo[t]) \in Seq(Entries) /\ Last(todo[t]) \in Entries
      BY <2>1, FrontFacts
    <3> QED BY <3>1 DEF SearchInv
  <2>3. nodes[Last(todo[t]).node].values \subseteq Blocks
    <3>1. Last(todo[t]).node \in 1..Len(nodes)
      BY <2>2, ElementFacts DEF Entries, Typed
    <3> QED BY <3>1, NodeFacts
  <2>4. /\ found' = [found EXCEPT ![t] = found[t] \cup {b \in nodes[Last(todo[t]).node].values :
                                                          Usable(b, point[t])}]
        /\ todo' = [todo EXCEPT ![t] = Front(todo[t])]
        /\ pc' = pc \/ pc' = [pc EXCEPT ![t] = "judge"]
        /\ UNCHANGED <<render, pass, left, point, node, tree, store>>
    BY <1>3 DEF LookAtValues, Goto
  <2>5. todo' \in [Threads -> Seq(Entries)]
    BY <2>2, <2>4 DEF Typed
  <2>6. found' \in [Threads -> SUBSET Blocks]
    BY <2>3, <2>4 DEF Typed
  <2>7. pc' \in [Threads -> Labels]
    BY <2>4 DEF Typed, Labels
  <2> QED BY <2>4, <2>5, <2>6, <2>7 DEF Typed, tree, store
<1>4. CASE Reuse(t)
  <2>1. pc[t] # "idle" /\ NextPoint(t) /\ UNCHANGED <<render, pass, left, todo, found, node, tree, store>>
    BY <1>4 DEF Reuse
  <2>2. pc' \in [Threads -> Labels] /\ point' \in [Threads -> Blocks \cup {NoPoint}]
    BY <2>1, NextPointTyped
  <2> QED BY <2>1, <2>2 DEF Typed, tree, store
<1>5. CASE NewBlock(t)
  <2> DEFINE p == pools[pool[t]]
             e == [p EXCEPT !.blocks = Append(p.blocks, point[t])]
  <2>1. pc[t] = "judge" /\ pool[t] \in 1..Len(pools)
    <3>1. pc[t] = "judge"
      BY <1>5 DEF NewBlock
    <3>2. pool[t] \in Nat /\ pool[t] # 0 /\ pool[t] <= Len(pools)
      BY <3>1 DEF OwnersInv, Typed
    <3> QED BY <3>1, <3>2, ElementFacts DEF Typed
  <2>2. p \in PoolRecords /\ pools \in Seq(PoolRecords) /\ point[t] \in Blocks
    BY <2>1, ElementFacts, AtPoint DEF Typed
  <2>3. Append(p.blocks, point[t]) \in Seq(Blocks)
    BY <2>2, AppendFacts DEF PoolRecords
  <2>4. e \in PoolRecords
    BY <2>2, <2>3 DEF PoolRecords
  <2>5. pools' \in Seq(PoolRecords)
    <3>1. Changed(pools', pools, pool[t], e)
      BY <1>5 DEF NewBlock, Changed
    <3> HIDE DEF e
    <3> QED BY <2>1, <2>2, <2>4, <3>1, ExceptFacts
  <2> HIDE DEF e, p
  <2>6. /\ pc' = [pc EXCEPT ![t] = "root"]
        /\ UNCHANGED <<render, pass, left, point, todo, found, node, tree, pool, freePools>>
    BY <1>5 DEF NewBlock, Goto
  <2> QED BY <2>5, <2>6 DEF Typed, tree, Labels
<1> QED
  BY <1>1, <1>2, <1>3, <1>4, <1>5

(* The two kids of a node are told apart by their index.                   *)
LEMMA KidsApart ==
  ASSUME NEW a \in [size : Nat, x : Int], NEW b \in [size : Nat, x : Int],
         ot_parent(a) = ot_parent(b), KidIndex(a) = KidIndex(b)
  PROVE  a = b
<1>1. a.size = b.size /\ a.x \div 2 = b.x \div 2 /\ a.x % 2 = b.x % 2
  BY DEF ot_parent, KidIndex
<1>2. a.x = b.x
  BY <1>1
<1> QED
  BY <1>1, <1>2

(* The kid that a thread goes down to, or makes.                           *)
KidFor(t) == AncestorAt(Id(t), nodes[node[t]].id.size - 1)

DescentIs(t) ==
  LET this == nodes[node[t]]
      next == this.kids[KidIndex(KidFor(t))]
  IN  /\ node[t] \in 1..Len(nodes) /\ this.id \in Ids
      /\ KidFor(t) \in Ids /\ KidFor(t).size = this.id.size - 1 /\ KidFor(t).size >= Id(t).size
      /\ KidIndex(KidFor(t)) \in KidNumbers /\ ot_parent(KidFor(t)) = this.id
      /\ next \in 0..Len(nodes)
      /\ next # 0 => nodes[next].id = KidFor(t)

LEMMA DescentFacts ==
  ASSUME IInv, NEW t \in Threads, pc[t] = "descend", nodes[node[t]].id.size > Id(t).size
  PROVE  DescentIs(t)
<1> USE DEF IInv
<1> DEFINE at == node[t]
           size == nodes[at].id.size
           id == KidFor(t)
           k == KidIndex(id)
           next == nodes[at].kids[k]
<1>1. /\ at \in 1..Len(nodes) /\ nodes[at].id = AncestorAt(Id(t), size)
      /\ root # 0 /\ Filled
  BY DEF WayInv
<1>2. nodes[at].id \in Ids /\ size \in 0..MaxSize
  BY <1>1, IdsTyped DEF TreeInv, RootInv
<1>3. Id(t) \in [size : Nat, x : Int]
  BY AtPoint
<1>4. size - 1 \in Nat /\ size - 1 >= Id(t).size /\ (size - 1) + 1 = size /\ size - 1 \in 0..MaxSize
  BY <1>2, <1>3, MaxSizeAssumption
<1>5. id \in [size : {size - 1}, x : Int] /\ ot_parent(id) = nodes[at].id
  BY <1>1, <1>3, <1>4, AncestorFacts DEF KidFor
<1>6. id \in Ids /\ id \in [size : Nat, x : Int]
  BY <1>4, <1>5 DEF Ids
<1>7. k \in KidNumbers
  BY <1>6, ParentTyped
<1>8. next \in 0..Len(nodes)
  BY <1>1, <1>7 DEF TreeInv, KidsInv
<1>9. ASSUME next # 0 PROVE nodes[next].id = id
  <2>1. next \in 1..Len(nodes)
    BY <1>8, <1>9, ElementFacts DEF Typed
  <2>2. nodes[at].id = ot_parent(nodes[next].id) /\ k = KidIndex(nodes[next].id)
    BY <1>1, <1>7, <2>1 DEF TreeInv, TreeIsOne
  <2>3. nodes[next].id \in [size : Nat, x : Int]
    BY <1>1, <2>1, IdsTyped DEF TreeInv, RootInv
  <2> QED BY <1>5, <1>6, <2>2, <2>3, KidsApart
<1> QED
  BY <1>1, <1>2, <1>4, <1>5, <1>6, <1>7, <1>8, <1>9 DEF DescentIs

(* What Descend does: one node down, wait for the lock, or make the kid.   *)
LEMMA DescentWays ==
  ASSUME IInv, NEW t \in Threads, Descend(t)
  PROVE  LET next == nodes[node[t]].kids[KidIndex(KidFor(t))]
         IN  /\ DescentIs(t) /\ pc[t] = "descend" /\ nodes[node[t]].id.size > Id(t).size
             /\ UNCHANGED <<point, treeMutex, root>> /\ Rest(t)
             /\ \/ /\ next # 0 /\ node' = [node EXCEPT ![t] = next] /\ UNCHANGED <<pc, nodes>>
                \/ next = 0 /\ Goto(t, "lockkid") /\ UNCHANGED <<node, nodes>>
                \/ /\ next = 0 /\ treeMutex = t
                   /\ HungOn(node[t], KidFor(t), KidIndex(KidFor(t)))
                   /\ node' = [node EXCEPT ![t] = Len(nodes')] /\ UNCHANGED pc
<1>1. pc[t] = "descend" /\ nodes[node[t]].id.size > Id(t).size
  BY DEF Descend
<1>2. DescentIs(t)
  BY <1>1, DescentFacts
<1> HIDE DEF DescentIs
<1> QED
  BY <1>1, <1>2 DEF Descend, KidFor, HungOn

LEMMA TypedNode ==
  ASSUME IInv, NEW t \in Threads,
         \/ LookForRoot(t) \/ LockRoot(t) \/ MakeRoot(t) \/ FillRoot(t) \/ CompareSize(t)
         \/ CompareArea(t) \/ Lock(t) \/ Grow(t) \/ Widen(t) \/ Enter(t) \/ Descend(t)
         \/ ReturnNode(t) \/ InsertBlock(t)
  PROVE  Typed'
<1> USE DEF IInv
<1>1. ASSUME \/ LookForRoot(t) \/ LockRoot(t) \/ CompareSize(t) \/ CompareArea(t) \/ Lock(t)
             \/ Enter(t) \/ ReturnNode(t)
      PROVE  Typed'
  <2>1. ASSUME NEW l \in Labels, Goto(t, l), UNCHANGED <<point, root, nodes>>, Rest(t),
               node' \in [Threads -> Nat], treeMutex' \in Threads \cup {NoThread}
        PROVE  Typed'
    BY <2>1 DEF Typed, Goto, Rest, store
  <2> USE DEF Typed
  <2>2. CASE LookForRoot(t) BY <2>1, <2>2 DEF LookForRoot, Labels, tree
  <2>3. CASE LockRoot(t) BY <2>1, <2>3 DEF LockRoot, Labels, TreeFree
  <2>4. CASE CompareSize(t)
    <3>1. \E l \in {"area", "grow", "lockgrow"} : Goto(t, l)
      BY <2>4 DEF CompareSize
    <3> QED BY <2>1, <2>4, <3>1 DEF CompareSize, Labels, Unlocked, tree
  <2>5. CASE CompareArea(t)
    <3>1. \E l \in {"enter", "widen", "lockwiden"} : Goto(t, l)
      BY <2>5 DEF CompareArea
    <3> QED BY <2>1, <2>5, <3>1 DEF CompareArea, Labels, Unlocked, tree
  <2>6. CASE Lock(t)
    <3>1. \E l \in {"grow", "widen", "descend"} : Goto(t, l)
      BY <2>6 DEF Lock, Unlocked
    <3> QED BY <2>1, <2>6, <3>1 DEF Lock, Labels, TreeFree
  <2>7. CASE Enter(t) BY <2>1, <2>7 DEF Enter, Labels, tree
  <2>8. CASE ReturnNode(t) BY <2>1, <2>8 DEF ReturnNode, Labels
  <2> QED BY <1>1, <2>2, <2>3, <2>4, <2>5, <2>6, <2>7, <2>8
<1>2. CASE MakeRoot(t)
  <2>1. nodes' \in Seq(NodeRecords) /\ Len(nodes') \in Nat
    <3>1. nodes' = Append(nodes, [id |-> NoId, kids |-> NoKids, values |-> {}])
      BY <1>2 DEF MakeRoot
    <3> QED BY <3>1, NewNode, NoKidsFacts, ElementFacts
  <2> QED BY <1>2, <2>1 DEF MakeRoot, Typed, Goto, Labels, Rest, store
<1>3. CASE FillRoot(t)
  <2>1. root \in 1..Len(nodes) /\ Id(t) \in Ids
    <3>1. pc[t] = "fillroot"
      BY <1>3 DEF FillRoot
    <3>2. root = 1 /\ root # 0
      BY <3>1 DEF TreeInv, RootInv
    <3> QED BY <3>1, <3>2, AtRoot, AtPoint
  <2>2. nodes' \in Seq(NodeRecords)
    BY <1>3, <2>1, NewId DEF FillRoot, IdSet
  <2> QED BY <1>3, <2>2 DEF FillRoot, Typed, Goto, Labels, Rest, store
<1>4. CASE Grow(t)
  <2>1. CASE RootTooSmall(t)
    <3>1. pc[t] = "grow" /\ ot_newroot /\ UNCHANGED <<pc, point, node, treeMutex>> /\ Rest(t)
      BY <1>4, <2>1 DEF Grow
    <3>3. root \in 1..Len(nodes) /\ RootId \in Ids /\ RootId.size < MaxSize
      BY <2>1, <3>1, RootGrows
    <3>2. nodes' \in Seq(NodeRecords) /\ root' \in Nat
      BY <3>1, <3>3, NewRoot, ElementFacts DEF Typed
    <3> QED BY <3>1, <3>2 DEF Typed, Rest, store
  <2>2. CASE ~RootTooSmall(t)
    BY <1>4, <2>2 DEF Grow, Typed, Goto, Labels, Rest, store
  <2> QED BY <2>1, <2>2
<1>5. CASE Widen(t)
  <2>1. CASE RootElsewhere(t)
    <3>1. pc[t] = "widen" /\ ot_newroot /\ UNCHANGED <<pc, point, node, treeMutex>> /\ Rest(t)
      BY <1>5, <2>1 DEF Widen
    <3>3. root \in 1..Len(nodes) /\ RootId \in Ids /\ RootId.size < MaxSize
      BY <2>1, <3>1, RootGrows
    <3>2. nodes' \in Seq(NodeRecords) /\ root' \in Nat
      BY <3>1, <3>3, NewRoot, ElementFacts DEF Typed
    <3> QED BY <3>1, <3>2 DEF Typed, Rest, store
  <2>2. CASE ~RootElsewhere(t)
    BY <1>5, <2>2 DEF Widen, Typed, Goto, Labels, Rest, store
  <2> QED BY <2>1, <2>2
<1>6. CASE Descend(t)
  <2> DEFINE next == nodes[node[t]].kids[KidIndex(KidFor(t))]
  <2>1. /\ DescentIs(t) /\ UNCHANGED <<point, treeMutex, root>> /\ Rest(t)
        /\ \/ /\ next # 0 /\ node' = [node EXCEPT ![t] = next] /\ UNCHANGED <<pc, nodes>>
           \/ next = 0 /\ Goto(t, "lockkid") /\ UNCHANGED <<node, nodes>>
           \/ /\ next = 0 /\ HungOn(node[t], KidFor(t), KidIndex(KidFor(t)))
              /\ node' = [node EXCEPT ![t] = Len(nodes')] /\ UNCHANGED pc
    BY <1>6, DescentWays
  <2>2. nodes' \in Seq(NodeRecords)
    <3>1. ASSUME HungOn(node[t], KidFor(t), KidIndex(KidFor(t))) PROVE nodes' \in Seq(NodeRecords)
      <4>1. node[t] \in 1..Len(nodes) /\ KidFor(t) \in Ids /\ KidIndex(KidFor(t)) \in KidNumbers
        BY <2>1 DEF DescentIs
      <4> QED BY <3>1, <4>1, NewKid
    <3> QED BY <2>1, <3>1 DEF Typed
  <2>3. Len(nodes') \in Nat /\ next \in Nat
    BY <2>1, <2>2, ElementFacts DEF DescentIs
  <2>4. pc' \in [Threads -> Labels] /\ node' \in [Threads -> Nat]
    <3> HIDE DEF next
    <3> QED BY <2>1, <2>3 DEF Typed, Goto, Labels, Unlocked
  <2> HIDE DEF next
  <2>5. UNCHANGED <<render, pass, left, point, todo, found, root, treeMutex, store>>
    BY <2>1 DEF Rest
  <2> QED BY <2>2, <2>4, <2>5 DEF Typed, store
<1>7. CASE InsertBlock(t)
  <2>1. pc[t] = "insert" /\ node[t] \in 1..Len(nodes) /\ point[t] \in Blocks
    BY <1>7, AtPoint DEF InsertBlock, WayInv
  <2>2. nodes' \in Seq(NodeRecords)
    BY <1>7, <2>1, NewValue DEF InsertBlock, ValueAdded
  <2>3. pc' \in [Threads -> Labels] /\ point' \in [Threads -> Blocks \cup {NoPoint}]
    BY <1>7, <2>1, NextPointTyped DEF InsertBlock
  <2> QED BY <1>7, <2>2, <2>3 DEF InsertBlock, Typed, Rest, store
<1> QED
  BY <1>1, <1>2, <1>3, <1>4, <1>5, <1>6, <1>7

-----------------------------------------------------------------------------
(* Tiles.                                                                  *)

(* NextPoint: the thread keeps its tile.                                   *)
LEMMA NextPointStays ==
  ASSUME Typed, PointsInv, NEW t \in Threads, pc[t] # "idle", NextPoint(t)
  PROVE  /\ point'[t] \in BlocksOf(render) /\ point'[t].pass = pass
         /\ point'[t].tile = point[t].tile
         /\ \/ pc'[t] = "query" /\ point'[t].n = point[t].n + 1
            \/ pc'[t] = "save" /\ point'[t] = point[t]
         /\ pc'[t] = "save" => point'[t].n = Len(Work(render)[pass][point[t].tile])
<1>1. /\ point[t] \in BlocksOf(render) /\ point[t].pass = pass /\ point[t].render = render
      /\ point[t].tile \in Tiles(render, pass)
      /\ point[t].n \in 1..Len(Work(render)[pass][point[t].tile])
      /\ render \in DOMAIN Renders /\ pass \in Passes(render)
  BY AtPoint DEF Typed
<1> DEFINE len == Len(Work(render)[pass][point[t].tile])
<1>2. len \in Nat
  BY <1>1, WorkFacts
<1>3. CASE point[t].n < len
  <2> DEFINE b == [point[t] EXCEPT !.n = @ + 1]
  <2>1. point[t] = [render |-> render, pass |-> pass, tile |-> point[t].tile, n |-> point[t].n]
    BY <1>1, BlockFacts
  <2>2. b = [render |-> render, pass |-> pass, tile |-> point[t].tile, n |-> point[t].n + 1]
    BY <2>1
  <2>3. point[t].n + 1 \in 1..len
    BY <1>1, <1>2, <1>3
  <2>4. b \in BlocksOf(render)
    BY <1>1, <2>2, <2>3, BlockFacts
  <2>5. point' = [point EXCEPT ![t] = b] /\ Goto(t, "query")
    BY <1>1, <1>3 DEF NextPoint
  <2>6. b.pass = pass /\ b.tile = point[t].tile /\ b.n = point[t].n + 1
    BY <2>2
  <2> HIDE DEF b
  <2> QED BY <2>4, <2>5, <2>6 DEF Typed, Goto
<1>4. CASE ~(point[t].n < len)
  <2>1. point[t].n = len /\ point' = point /\ Goto(t, "save")
    BY <1>1, <1>2, <1>4 DEF NextPoint
  <2> QED BY <1>1, <2>1 DEF Typed, Goto
<1> QED
  BY <1>3, <1>4

(* A step of a thread that neither takes nor leaves a tile nor a point.    *)
Stays(t) ==
  /\ pc[t] # "idle" /\ UNCHANGED <<left, point>>
  /\ pc'[t] # "save" /\ (pc'[t] = "release" => pc[t] = "save")

LEMMA WhoStays ==
  ASSUME Typed, NEW t \in Threads, Step(t)
  PROVE  \/ TakeTile(t) \/ Reuse(t) \/ InsertBlock(t) \/ Stays(t)
         \/ pc'[t] = "idle" /\ UNCHANGED <<left, point>>
<1> USE DEF Typed, Stays, Goto, Rest
<1>1. CASE AcquireBlockPool(t) BY <1>1 DEF AcquireBlockPool
<1>2. CASE Save(t) BY <1>2 DEF Save
<1>3. CASE ReleaseBlockPool(t) BY <1>3 DEF ReleaseBlockPool
<1>4. CASE StartQuery(t) BY <1>4 DEF StartQuery
<1>5. CASE LookAtKid(t) BY <1>5 DEF LookAtKid
<1>6. CASE LookAtValues(t) BY <1>6 DEF LookAtValues
<1>7. CASE NewBlock(t) BY <1>7 DEF NewBlock
<1>8. CASE LookForRoot(t) BY <1>8 DEF LookForRoot
<1>9. CASE LockRoot(t) BY <1>9 DEF LockRoot
<1>10. CASE MakeRoot(t) BY <1>10 DEF MakeRoot
<1>11. CASE FillRoot(t) BY <1>11 DEF FillRoot
<1>12. CASE CompareSize(t) BY <1>12 DEF CompareSize
<1>13. CASE CompareArea(t) BY <1>13 DEF CompareArea
<1>14. CASE Lock(t) BY <1>14 DEF Lock, Unlocked
<1>15. CASE Grow(t) BY <1>15 DEF Grow
<1>16. CASE Widen(t) BY <1>16 DEF Widen
<1>17. CASE Enter(t) BY <1>17 DEF Enter
<1>18. CASE Descend(t) BY <1>18 DEF Descend
<1>19. CASE ReturnNode(t) BY <1>19 DEF ReturnNode
<1> HIDE DEF Typed, Stays, Goto, Rest
<1> QED
  BY <1>1, <1>2, <1>3, <1>4, <1>5, <1>6, <1>7, <1>8, <1>9, <1>10, <1>11, <1>12, <1>13, <1>14,
    <1>15, <1>16, <1>17, <1>18, <1>19 DEF Step

LEMMA PointsStep ==
  ASSUME Typed, PointsInv, NEW t \in Threads, Step(t)
  PROVE  PointsInv'
<1>1. Alone(t)
  BY StepAlone
<1>2. CASE TakeTile(t)
  <2> DEFINE c == CHOOSE m \in left : \A n \in left : m <= n
             b == [render |-> render, pass |-> pass, tile |-> c, n |-> 1]
  <2>1. left # {} /\ left \subseteq Tiles(render, pass) /\ left \in SUBSET Nat
    BY <1>2 DEF TakeTile, Typed, Tiles
  <2>2. \E m \in left : \A n \in left : m <= n
    BY <2>1, Least
  <2>3. c \in left /\ c = Min(left)
    BY <2>2 DEF Min
  <2>4. b \in BlocksOf(render) /\ b.pass = pass /\ b.tile = c
    <3>1. render \in DOMAIN Renders /\ pass \in Passes(render) /\ c \in Tiles(render, pass)
      BY <2>1, <2>3 DEF Typed
    <3>2. 1 \in 1..Len(Work(render)[pass][c])
      BY <3>1, WorkFacts
    <3> QED BY <3>1, <3>2, BlockFacts
  <2>5. point'[t] = b /\ left' = left \ {c} /\ pc'[t] = "acquire"
    BY <1>2, <2>3 DEF TakeTile, Typed, Goto
  <2> HIDE DEF b, c
  <2>6. \A u \in Threads : u # t /\ pc'[u] # "idle" => point'[u].tile # c /\ point'[u].tile \notin left'
    BY <1>1, <2>3, <2>5 DEF Alone, PointsInv
  <2> QED BY <1>1, <2>4, <2>5, <2>6 DEF Alone, PointsInv
<1>3. CASE Reuse(t) \/ InsertBlock(t)
  <2>1. pc[t] # "idle" /\ NextPoint(t) /\ left' = left
    BY <1>3 DEF Reuse, InsertBlock, Rest
  <2> QED BY <1>1, <2>1, NextPointStays DEF Alone, PointsInv
<1>4. CASE pc'[t] = "idle" /\ UNCHANGED <<left, point>>
  BY <1>1, <1>4 DEF Alone, PointsInv
<1>5. CASE Stays(t)
  BY <1>1, <1>5 DEF Alone, PointsInv, Stays
<1> QED
  BY <1>2, <1>3, <1>4, <1>5, WhoStays

-----------------------------------------------------------------------------
(* The lock.                                                               *)

Locking == {"makeroot", "fillroot", "size", "area", "grow", "widen", "enter", "descend"}

(* A step of a thread as the lock sees it.                                 *)
LockStep(t) ==
  LET owns == pc'[t] \in {"makeroot", "fillroot", "grow", "widen"}
  IN  \/ /\ treeMutex' = treeMutex /\ (treeMutex = t => pc'[t] \in Locking)
         /\ owns => treeMutex = t
      \/ treeMutex = NoThread /\ treeMutex' = t /\ pc'[t] \in Locking
      \/ treeMutex = t /\ treeMutex' = NoThread /\ ~owns

LEMMA LocksStep ==
  ASSUME Typed, LockInv, NEW t \in Threads, Step(t)
  PROVE  LockStep(t)
<1> USE DEF LockStep, Locking
<1>1. /\ pc \in [Threads -> Labels] /\ t # NoThread /\ (treeMutex = t => pc[t] \in Locking)
      /\ (pc[t] \in {"makeroot", "fillroot", "grow", "widen"} => treeMutex = t)
  BY ThreadsAssumption DEF Typed, LockInv, LockIsGivenBack
<1>2. CASE TakeTile(t) BY <1>1, <1>2 DEF TakeTile, Goto, tree
<1>3. CASE AcquireBlockPool(t) BY <1>1, <1>3 DEF AcquireBlockPool, Goto, tree
<1>4. CASE Save(t) BY <1>1, <1>4 DEF Save, Goto, tree
<1>5. CASE ReleaseBlockPool(t) BY <1>1, <1>5 DEF ReleaseBlockPool, Goto, tree
<1>6. CASE StartQuery(t) BY <1>1, <1>6 DEF StartQuery, Goto, tree
<1>7. CASE LookAtKid(t) BY <1>1, <1>7 DEF LookAtKid, tree
<1>8. CASE LookAtValues(t) BY <1>1, <1>8 DEF LookAtValues, Goto, tree
<1>9. CASE Reuse(t) BY <1>1, <1>9 DEF Reuse, NextPoint, Goto, tree
<1>10. CASE NewBlock(t) BY <1>1, <1>10 DEF NewBlock, Goto, tree
<1>11. CASE LookForRoot(t) BY <1>1, <1>11 DEF LookForRoot, Goto, tree
<1>12. CASE LockRoot(t) BY <1>1, <1>12 DEF LockRoot, TreeFree, Goto
<1>13. CASE MakeRoot(t) BY <1>1, <1>13 DEF MakeRoot, Goto
<1>14. CASE FillRoot(t) BY <1>1, <1>14 DEF FillRoot, Goto
<1>15. CASE CompareSize(t)
  <2>1. /\ pc[t] = "size" /\ treeMutex' = treeMutex
        /\ \/ pc'[t] = "area" \/ (pc'[t] = "grow" /\ treeMutex = t)
           \/ (pc'[t] = "lockgrow" /\ treeMutex # t)
    BY <1>1, <1>15 DEF CompareSize, Goto, tree
  <2> QED BY <2>1
<1>16. CASE CompareArea(t)
  <2>1. /\ pc[t] = "area" /\ treeMutex' = treeMutex
        /\ \/ pc'[t] = "enter" \/ (pc'[t] = "widen" /\ treeMutex = t)
           \/ (pc'[t] = "lockwiden" /\ treeMutex # t)
    BY <1>1, <1>16 DEF CompareArea, Goto, tree
  <2> QED BY <2>1
<1>17. CASE Lock(t) BY <1>1, <1>17 DEF Lock, Unlocked, TreeFree, Goto
<1>18. CASE Grow(t) BY <1>1, <1>18 DEF Grow, Goto
<1>19. CASE Widen(t) BY <1>1, <1>19 DEF Widen, Goto
<1>20. CASE Enter(t) BY <1>1, <1>20 DEF Enter, Goto, tree
<1>21. CASE Descend(t)
  <2>1. /\ pc[t] = "descend" /\ treeMutex' = treeMutex
        /\ \/ pc'[t] = "descend"
           \/ pc'[t] = "lockkid" /\ treeMutex # t
    BY <1>1, <1>21 DEF Descend, Goto
  <2> QED BY <2>1
<1>22. CASE ReturnNode(t)
  <2>1. pc'[t] = "insert" /\ treeMutex' = IF treeMutex = t THEN NoThread ELSE treeMutex
    BY <1>1, <1>22 DEF ReturnNode, Goto
  <2> QED BY <2>1
<1>23. CASE InsertBlock(t) BY <1>1, <1>23 DEF InsertBlock, NextPoint, Goto
<1> QED
  BY <1>2, <1>3, <1>4, <1>5, <1>6, <1>7, <1>8, <1>9, <1>10, <1>11, <1>12, <1>13, <1>14, <1>15,
    <1>16, <1>17, <1>18, <1>19, <1>20, <1>21, <1>22, <1>23 DEF Step

LEMMA LockInvStep ==
  ASSUME Typed, LockInv, NEW t \in Threads, Step(t)
  PROVE  LockInv'
<1>1. LockStep(t) /\ Alone(t) /\ t # NoThread /\ treeMutex \in Threads \cup {NoThread}
  BY LocksStep, StepAlone, ThreadsAssumption DEF Typed
<1>2. ASSUME NEW u \in Threads, pc'[u] \in {"makeroot", "fillroot", "grow", "widen"}
      PROVE  treeMutex' = u
  <2>1. CASE u = t
    BY <1>1, <1>2, <2>1 DEF LockStep
  <2>2. CASE u # t
    <3>1. treeMutex = u /\ u # NoThread
      BY <1>1, <1>2, <2>2, ThreadsAssumption DEF Alone, LockInv
    <3> QED BY <1>1, <2>2, <3>1 DEF LockStep
  <2> QED BY <2>1, <2>2
<1>3. ASSUME treeMutex' # NoThread PROVE pc'[treeMutex'] \in Locking
  <2>1. CASE treeMutex' = t
    BY <1>1, <1>3, <2>1 DEF LockStep
  <2>2. CASE treeMutex' # t
    <3>1. treeMutex' = treeMutex /\ treeMutex \in Threads
      BY <1>1, <1>3, <2>2 DEF LockStep
    <3> QED BY <1>1, <1>3, <2>2, <3>1 DEF Alone, LockInv, LockIsGivenBack, Locking
  <2> QED BY <2>1, <2>2
<1> QED
  BY <1>2, <1>3 DEF LockInv, LockIsGivenBack, Locking

-----------------------------------------------------------------------------
(* The tree.                                                               *)

(* A step that leaves the nodes, their ids and kids as they are.           *)
SameTree(t) ==
  /\ root' = root /\ Len(nodes') = Len(nodes)
  /\ \A i \in 1..Len(nodes) : nodes'[i].id = nodes[i].id /\ nodes'[i].kids = nodes[i].kids
  /\ (nodes = <<>> => nodes' = <<>>) /\ (nodes' = nodes \/ pc[t] = "insert")
  /\ pc[t] # "fillroot" /\ pc'[t] # "fillroot" /\ (pc'[t] = "makeroot" => root = 0)

Rooted(t) == /\ root \in 1..Len(nodes) /\ RootId \in Ids /\ RootId.size < MaxSize /\ Filled
             /\ ot_newroot /\ pc' = pc /\ (pc[t] = "grow" \/ pc[t] = "widen")
             /\ UNCHANGED <<point, node, treeMutex>> /\ Rest(t)

Hung(t) == /\ DescentIs(t) /\ pc[t] = "descend" /\ pc' = pc
           /\ nodes[node[t]].kids[KidIndex(KidFor(t))] = 0
           /\ HungOn(node[t], KidFor(t), KidIndex(KidFor(t)))
           /\ node' = [node EXCEPT ![t] = Len(nodes')]
           /\ UNCHANGED <<point, treeMutex, root>> /\ Rest(t)

LEMMA Unchanged ==
  ASSUME Typed, NEW t \in Threads, UNCHANGED <<root, nodes>>,
         pc[t] # "fillroot", pc'[t] # "fillroot", pc'[t] = "makeroot" => root = 0
  PROVE  SameTree(t)
BY DEF SameTree

LEMMA TreeSteps ==
  ASSUME IInv, NEW t \in Threads, Step(t)
  PROVE  SameTree(t) \/ MakeRoot(t) \/ FillRoot(t) \/ Rooted(t) \/ Hung(t)
<1>1. Typed
  BY DEF IInv
<1>2. pc \in [Threads -> Labels]
  BY <1>1 DEF Typed
<1> USE <1>1, <1>2
<1> DEFINE Goal == SameTree(t) \/ MakeRoot(t) \/ FillRoot(t) \/ Rooted(t) \/ Hung(t)
<1>3. ASSUME UNCHANGED tree,
             \/ TakeTile(t) \/ AcquireBlockPool(t) \/ Save(t) \/ ReleaseBlockPool(t)
             \/ StartQuery(t) \/ LookAtKid(t) \/ LookAtValues(t) \/ Reuse(t) \/ NewBlock(t)
      PROVE  Goal
  <2>1. pc[t] # "fillroot" /\ pc'[t] # "fillroot" /\ pc'[t] # "makeroot"
    BY <1>3 DEF TakeTile, AcquireBlockPool, Save, ReleaseBlockPool, StartQuery, LookAtKid,
      LookAtValues, Reuse, NewBlock, Goto, NextPoint
  <2> QED BY <1>3, <2>1, Unchanged DEF tree
<1>4. CASE LookForRoot(t) BY <1>4, Unchanged DEF LookForRoot, Goto, tree
<1>5. CASE LockRoot(t) BY <1>5, Unchanged DEF LockRoot, Goto
<1>6. CASE CompareSize(t)
  <2>1. pc'[t] \in {"area", "grow", "lockgrow"}
    BY <1>6 DEF CompareSize, Goto
  <2> QED BY <1>6, <2>1, Unchanged DEF CompareSize, tree
<1>7. CASE CompareArea(t)
  <2>1. pc'[t] \in {"enter", "widen", "lockwiden"}
    BY <1>7 DEF CompareArea, Goto
  <2> QED BY <1>7, <2>1, Unchanged DEF CompareArea, tree
<1>8. CASE Lock(t)
  BY <1>8, Unchanged DEF Lock, Unlocked, Goto
<1>9. CASE Grow(t)
  <2>1. CASE RootTooSmall(t)
    BY <1>9, <2>1, RootGrows DEF Grow, Rooted
  <2>2. CASE ~RootTooSmall(t)
    BY <1>9, <2>2, Unchanged DEF Grow, Goto
  <2> QED BY <2>1, <2>2
<1>10. CASE Widen(t)
  <2>1. CASE RootElsewhere(t)
    BY <1>10, <2>1, RootGrows DEF Widen, Rooted
  <2>2. CASE ~RootElsewhere(t)
    BY <1>10, <2>2, Unchanged DEF Widen, Goto
  <2> QED BY <2>1, <2>2
<1>11. CASE Enter(t) BY <1>11, Unchanged DEF Enter, Goto, tree
<1>12. CASE Descend(t)
  <2>1. \/ Hung(t)
        \/ UNCHANGED <<root, nodes>> /\ pc[t] = "descend" /\ (pc' = pc \/ Goto(t, "lockkid"))
    BY <1>12, DescentWays DEF Hung
  <2> QED BY <2>1, Unchanged DEF Goto
<1>13. CASE ReturnNode(t) BY <1>13, Unchanged DEF ReturnNode, Goto
<1>14. CASE InsertBlock(t)
  <2>1. pc[t] = "insert" /\ node[t] \in 1..Len(nodes) /\ point[t] \in Blocks /\ root' = root
    BY <1>14, AtPoint DEF InsertBlock, WayInv, IInv
  <2>2. /\ nodes' \in Seq(NodeRecords) /\ Len(nodes') = Len(nodes)
        /\ \A i \in 1..Len(nodes) : nodes'[i].id = nodes[i].id /\ nodes'[i].kids = nodes[i].kids
    BY <1>14, <2>1, NewValue DEF InsertBlock, ValueAdded
  <2>3. pc'[t] \in {"query", "save"}
    BY <1>14, <2>1 DEF InsertBlock, NextPoint, Goto
  <2>4. nodes # <<>>
    BY <2>1, ElementFacts DEF Typed
  <2> QED BY <2>1, <2>2, <2>3, <2>4 DEF SameTree
<1>15. ASSUME \/ TakeTile(t) \/ AcquireBlockPool(t) \/ Save(t) \/ ReleaseBlockPool(t)
              \/ StartQuery(t) \/ LookAtKid(t) \/ LookAtValues(t) \/ Reuse(t) \/ NewBlock(t)
       PROVE  UNCHANGED tree
  BY <1>15 DEF TakeTile, AcquireBlockPool, Save, ReleaseBlockPool, StartQuery, LookAtKid,
      LookAtValues, Reuse, NewBlock, tree
<1> QED
  BY <1>3, <1>4, <1>5, <1>6, <1>7, <1>8, <1>9, <1>10, <1>11, <1>12, <1>13, <1>14, <1>15 DEF Step

LEMMA SameTreeKept ==
  ASSUME IInv, NEW t \in Threads, Alone(t), SameTree(t)
  PROVE  TreeInv' /\ Filled' = Filled /\ (root # 0 => RootId' = RootId)
<1> USE DEF IInv, TreeInv
<1>1. Filled' = Filled
  BY DEF Filled, Alone, SameTree
<1>2. root # 0 => RootId' = RootId
  BY AtRoot DEF RootId, SameTree
<1>3. RootInv'
  <2>1. root' \in 0..Len(nodes') /\ (root' = 0 <=> nodes' = <<>>)
    <3>1. nodes' = <<>> => nodes = <<>>
      BY ElementFacts DEF SameTree, Typed
    <3> QED BY <3>1 DEF SameTree, RootInv
  <2>2. ASSUME NEW u \in Threads PROVE pc'[u] = "makeroot" => root' = 0
    BY DEF SameTree, Alone, RootInv
  <2>3. ASSUME NEW u \in Threads, pc'[u] = "fillroot" PROVE pc[u] = "fillroot" /\ nodes' = nodes
    <3>1. pc[u] = "fillroot"
      BY <2>3 DEF SameTree, Alone
    <3>2. pc[t] # "insert"
      BY <3>1 DEF WayInv, Filled
    <3> QED BY <3>1, <3>2 DEF SameTree
  <2>4. ASSUME Filled', root' # 0
        PROVE  /\ \A i \in 1..Len(nodes') : nodes'[i].id \in Ids
               /\ \E b \in BlocksOf(render') : /\ IdOf[b].size <= RootId'.size
                                             /\ RootId' = AncestorAt(IdOf[b], RootId'.size)
    <3>1. Filled /\ root # 0 /\ RootId' = RootId /\ render' = render
      BY <1>1, <1>2, <2>4 DEF SameTree, Alone
    <3> QED BY <3>1 DEF SameTree, RootInv
  <2>5. ASSUME NEW u \in Threads, pc'[u] = "fillroot"
        PROVE  root' = 1 /\ nodes' = <<[id |-> NoId, kids |-> NoKids, values |-> {}]>>
    BY <2>3, <2>5 DEF RootInv, SameTree
  <2> QED BY <2>1, <2>2, <2>4, <2>5 DEF RootInv
<1>4. BelowInv'
  BY <1>1, <1>2 DEF BelowInv, SameTree, RootInv
<1>5. KidsInv'
  BY DEF KidsInv, SameTree
<1>6. TreeIsOne'
  BY DEF TreeIsOne, SameTree
<1> QED
  BY <1>1, <1>2, <1>3, <1>4, <1>5, <1>6

LEMMA RootMade ==
  ASSUME IInv, NEW t \in Threads, Alone(t), MakeRoot(t)
  PROVE  TreeInv' /\ ~Filled' /\ root' # 0 /\ nodes = <<>> /\ Len(nodes') = 1 /\ root = 0
<1> USE DEF IInv, TreeInv
<1> DEFINE new == [id |-> NoId, kids |-> NoKids, values |-> {}]
<1>1. root = 0 /\ nodes = <<>> /\ treeMutex = t /\ pc[t] = "makeroot"
  BY DEF MakeRoot, RootInv, LockInv
<1>2. nodes' = <<new>> /\ Len(nodes') = 1 /\ root' = 1
  BY <1>1 DEF MakeRoot
<1>3. pc'[t] = "fillroot"
  BY DEF MakeRoot, Goto, Typed
<1>4. \A u \in Threads : u # t => pc'[u] \notin {"makeroot", "fillroot"}
  BY <1>1 DEF Alone, LockInv
<1>5. ~Filled'
  BY <1>3 DEF Filled
<1>6. RootInv'
  BY <1>2, <1>3, <1>4, <1>5 DEF RootInv
<1>7. BelowInv'
  BY <1>5 DEF BelowInv
<1>8. \A i \in 1..Len(nodes') : i = 1 /\ nodes'[i] = new
  BY <1>2
<1>9. KidsInv'
  BY <1>2, <1>8, NoKidsFacts DEF KidsInv
<1>10. TreeIsOne'
  BY <1>2, <1>8, NoKidsFacts DEF TreeIsOne
<1> QED
  BY <1>1, <1>2, <1>5, <1>6, <1>7, <1>9, <1>10

LEMMA RootFilled ==
  ASSUME IInv, NEW t \in Threads, Alone(t), FillRoot(t)
  PROVE  TreeInv' /\ Filled' /\ root' = 1 /\ RootId' = Id(t) /\ Len(nodes') = 1 /\ Len(nodes) = 1
         /\ root = 1 /\ nodes'[1].values = {}
<1> USE DEF IInv, TreeInv
<1> DEFINE new == [id |-> NoId, kids |-> NoKids, values |-> {}]
<1>1. root = 1 /\ nodes = <<new>> /\ treeMutex = t /\ pc[t] = "fillroot"
  BY DEF FillRoot, RootInv, LockInv
<1>2. /\ point[t] \in BlocksOf(render) /\ Id(t) \in Ids /\ Id(t) \in [size : Nat, x : Int]
      /\ Id(t) = IdOf[point[t]]
  BY <1>1, AtPoint DEF Id
<1> DEFINE id == Id(t)
<1>3. Len(nodes) = 1 /\ nodes[1] = new /\ root' = 1 /\ root = 1
  BY <1>1 DEF FillRoot
<1>4. Len(nodes') = 1 /\ nodes'[1].id = id /\ nodes'[1].kids = NoKids /\ nodes'[1].values = {}
      /\ nodes' # <<>>
  <2>3. IdSet(root, id)
    BY DEF FillRoot, IdSet
  <2>1. IdSet(1, id) /\ 1 \in 1..Len(nodes)
    BY <1>3, <2>3
  <2>2. Len(nodes') = Len(nodes) /\ nodes'[1].id = id /\ nodes'[1].kids = nodes[1].kids
        /\ nodes'[1].values = nodes[1].values /\ nodes' \in Seq(NodeRecords)
    BY <1>2, <2>1, NewId
  <2>4. nodes' # <<>>
    <3>1. Len(nodes') = 1
      BY <1>3, <2>2
    <3>2. Len(<<>>) # 1
      OBVIOUS
    <3> QED BY <3>1, <3>2
  <2>5. nodes[1].kids = NoKids /\ nodes[1].values = {}
    BY <1>3
  <2> HIDE DEF id
  <2> QED BY <1>3, <2>2, <2>4, <2>5
<1>5. pc'[t] = "insert" /\ \A u \in Threads : u # t => pc'[u] \notin {"makeroot", "fillroot"}
  BY <1>1 DEF Alone, LockInv, FillRoot, Goto, Typed
<1>6. Filled' /\ RootId' = id
  BY <1>3, <1>4, <1>5 DEF Filled, RootId
<1>7. AncestorAt(id, id.size) = id /\ id.size \in Nat
  BY <1>2, AncestorFacts
<1> HIDE DEF id
<1>8. \A i \in 1..Len(nodes') : i = 1
  BY <1>4
<1>9. render' = render
  BY DEF Alone
<1>10. \E b \in BlocksOf(render) : IdOf[b].size <= RootId'.size /\ RootId' = AncestorAt(IdOf[b], RootId'.size)
  BY <1>2, <1>6, <1>7 DEF id
<1>11. RootInv'
  <2>1. root' \in 0..Len(nodes') /\ (root' = 0 <=> nodes' = <<>>)
    BY <1>3, <1>4
  <2>2. \A i \in 1..Len(nodes') : nodes'[i].id \in Ids
    BY <1>2, <1>4, <1>8 DEF id
  <2>3. \A u \in Threads : pc'[u] # "makeroot" /\ pc'[u] # "fillroot"
    BY <1>5
  <2> QED BY <1>9, <1>10, <2>1, <2>2, <2>3 DEF RootInv
<1>12. BelowInv'
  <2>1. \A s \in id.size..id.size : s = id.size
    BY <1>7
  <2>2. 1 \in 1..Len(nodes') /\ id.size <= id.size
    BY <1>4, <1>7
  <2> QED BY <1>4, <1>6, <1>7, <1>8, <2>1, <2>2 DEF BelowInv
<1>13. KidsInv'
  BY <1>4, <1>8, NoKidsFacts DEF KidsInv
<1>14. TreeIsOne'
  BY <1>3, <1>4, <1>8, NoKidsFacts DEF TreeIsOne
<1> QED
  BY <1>3, <1>4, <1>6, <1>11, <1>12, <1>13, <1>14 DEF id

(* No thread is between making the root and filling it.                    *)
LEMMA NoneFilling ==
  ASSUME Typed, TreeInv, NEW t \in Threads, Alone(t), Filled, pc'[t] # "fillroot",
         root # 0, pc'[t] # "makeroot"
  PROVE  Filled' /\ \A u \in Threads : pc'[u] # "makeroot" /\ pc'[u] # "fillroot"
BY DEF Filled, Alone, TreeInv, RootInv

LEMMA RootGrown ==
  ASSUME IInv, NEW t \in Threads, Alone(t), Rooted(t)
  PROVE  /\ TreeInv' /\ Filled' /\ root' = Len(nodes) + 1 /\ Len(nodes') = Len(nodes) + 1
         /\ Kept(Len(nodes)) /\ RootId' = ot_parent(RootId) /\ RootId'.size = RootId.size + 1
         /\ nodes'[root'].values = {}
<1> USE DEF IInv, TreeInv
<1> DEFINE n == Len(nodes)
           r == RootId.size
           k0 == KidIndex(RootId)
<1>1. /\ root \in 1..n /\ RootId \in Ids /\ r < MaxSize /\ Filled /\ ot_newroot /\ root # 0
      /\ n \in Nat /\ pc[t] \in {"grow", "widen"} /\ pc' = pc
  BY ElementFacts DEF Rooted, Typed
<1>2. /\ nodes' \in Seq(NodeRecords) /\ Len(nodes') = n + 1 /\ root' = n + 1
      /\ Kept(n)
      /\ nodes'[root'].id = ot_parent(RootId) /\ nodes'[root'].id \in Ids
      /\ nodes'[root'].values = {}
      /\ \A k \in KidNumbers : nodes'[root'].kids[k] = IF k = k0 THEN root ELSE 0
  BY <1>1, NewRoot
<1>3. RootId \in [size : Nat, x : Int] /\ r \in Nat
  BY <1>1, IdsTyped
<1>4. RootId' = ot_parent(RootId) /\ RootId'.size = r + 1
  BY <1>2 DEF RootId, ot_parent
<1>5. Filled' /\ \A u \in Threads : pc'[u] # "makeroot" /\ pc'[u] # "fillroot"
  BY <1>1, NoneFilling
<1>6. render' = render /\ render \in DOMAIN Renders
  BY DEF Alone, Typed
<1>7. \A i \in 1..n + 1 : i \in 1..n \/ i = n + 1
  BY <1>1
<1>8. \A i \in 1..n : nodes'[i] = nodes[i] /\ nodes[i].id \in Ids
  BY <1>1, <1>2 DEF Kept, RootInv
<1>9. \E b \in BlocksOf(render) : IdOf[b].size <= r + 1 /\ RootId' = AncestorAt(IdOf[b], r + 1)
  <2>1. PICK b \in BlocksOf(render) : IdOf[b].size <= r /\ RootId = AncestorAt(IdOf[b], r)
    BY <1>1 DEF RootInv
  <2>2. IdOf[b] \in [size : Nat, x : Int] /\ IdOf[b].size \in Nat
    BY <1>6, <2>1, WorkFacts, IdFacts
  <2>3. AncestorAt(IdOf[b], r + 1) = ot_parent(AncestorAt(IdOf[b], r))
    BY <1>3, <2>1, <2>2, AncestorFacts
  <2>4. IdOf[b].size <= r + 1
    BY <1>3, <2>1, <2>2
  <2> QED BY <1>4, <2>1, <2>3, <2>4
<1>10. RootInv'
  <2>1. root' \in 0..Len(nodes') /\ root' # 0 /\ nodes' # <<>>
    <3>1. Len(nodes') # 0
      BY <1>1, <1>2
    <3>2. Len(<<>>) = 0
      OBVIOUS
    <3> QED BY <1>1, <1>2, <3>1, <3>2
  <2>2. \A i \in 1..Len(nodes') : nodes'[i].id \in Ids
    BY <1>2, <1>7, <1>8
  <2> QED BY <1>4, <1>5, <1>6, <1>9, <2>1, <2>2 DEF RootInv
<1>11. BelowInv'
  <2> SUFFICES ASSUME NEW i \in 1..n + 1
               PROVE  /\ nodes'[i].id.size <= r + 1
                      /\ AncestorAt(nodes'[i].id, r + 1) = ot_parent(RootId)
                      /\ \A s \in nodes'[i].id.size..r + 1 :
                           \E j \in 1..n + 1 : nodes'[j].id = AncestorAt(nodes'[i].id, s)
    BY <1>2, <1>4 DEF BelowInv
  <2>1. CASE i \in 1..n
    <3> DEFINE id == nodes[i].id
    <3>1. nodes'[i].id = id /\ id \in [size : Nat, x : Int]
      BY <1>8, <2>1, IdsTyped
    <3>2. /\ id.size <= r /\ AncestorAt(id, r) = RootId
          /\ \A s \in id.size..r : \E j \in 1..n : nodes[j].id = AncestorAt(id, s)
      BY <1>1, <2>1 DEF BelowInv
    <3> HIDE DEF id
    <3>3. AncestorAt(id, r + 1) = ot_parent(RootId)
      BY <1>3, <3>1, <3>2, AncestorFacts
    <3>4. ASSUME NEW s \in id.size..r + 1 PROVE \E j \in 1..n + 1 : nodes'[j].id = AncestorAt(id, s)
      <4>1. CASE s = r + 1
        BY <1>1, <1>2, <3>3, <4>1
      <4>2. CASE s # r + 1
        <5>1. s \in id.size..r
          BY <1>3, <3>1, <4>2
        <5>2. PICK j \in 1..n : nodes[j].id = AncestorAt(id, s)
          BY <3>2, <5>1
        <5> QED BY <1>1, <1>8, <5>2
      <4> QED BY <4>1, <4>2
    <3>5. id.size <= r + 1
      BY <1>3, <3>1, <3>2
    <3> QED BY <3>1, <3>3, <3>4, <3>5
  <2>2. CASE i = n + 1
    <3> DEFINE id == ot_parent(RootId)
    <3>1. nodes'[i].id = id /\ id \in [size : {r + 1}, x : Int] /\ id.size = r + 1
      BY <1>2, <1>3, <2>2, ParentTyped
    <3>2. id \in [size : Nat, x : Int]
      BY <1>3, <3>1
    <3> HIDE DEF id
    <3>3. AncestorAt(id, r + 1) = id
      BY <3>1, <3>2, AncestorFacts
    <3>4. \A s \in id.size..r + 1 : s = r + 1
      BY <1>3, <3>1
    <3> QED BY <1>3, <3>1, <3>3, <3>4 DEF id
  <2> QED BY <1>7, <2>1, <2>2
<1>12. ASSUME NEW j \in 1..n + 1, NEW k \in KidNumbers, nodes'[j].kids[k] # 0
       PROVE  \/ j = n + 1 /\ k = k0 /\ nodes'[j].kids[k] = root
              \/ j \in 1..n /\ nodes'[j].kids[k] = nodes[j].kids[k] /\ nodes[j].kids[k] \in 1..n
  <2>1. CASE j = n + 1
    BY <1>2, <1>12, <2>1
  <2>2. CASE j \in 1..n
    <3>1. nodes'[j].kids[k] = nodes[j].kids[k] /\ nodes[j].kids[k] \in 0..n
      BY <1>8, <2>2 DEF KidsInv
    <3> QED BY <1>1, <1>12, <2>2, <3>1
  <2> QED BY <1>7, <2>1, <2>2
<1>13. KidsInv'
  <2> SUFFICES ASSUME NEW j \in 1..n + 1, NEW k \in KidNumbers PROVE nodes'[j].kids[k] \in 0..n + 1
    BY <1>2 DEF KidsInv
  <2>1. \A i \in 1..n : i \in 0..n + 1
    BY <1>1
  <2> QED BY <1>1, <1>12, <2>1
<1>14. TreeIsOne'
  <2>1. ASSUME NEW i \in 1..n + 1, i # n + 1
        PROVE  \E j \in 1..n + 1 : nodes'[j].kids[KidIndex(nodes'[i].id)] = i
    <3>1. i \in 1..n /\ nodes'[i].id = nodes[i].id
      BY <1>7, <1>8, <2>1
    <3>2. CASE i = root
      <4>1. k0 \in KidNumbers /\ nodes[i].id = RootId
        BY <1>3, <3>2, ParentTyped DEF RootId
      <4> QED BY <1>1, <1>2, <3>1, <3>2, <4>1
    <3>3. CASE i # root
      <4>1. PICK j \in 1..n : nodes[j].kids[KidIndex(nodes[i].id)] = i
        BY <3>1, <3>3 DEF TreeIsOne
      <4> QED BY <1>1, <1>8, <3>1, <4>1
    <3> QED BY <3>2, <3>3
  <2>2. ASSUME NEW i \in 1..n + 1, NEW j \in 1..n + 1, NEW k \in KidNumbers, nodes'[j].kids[k] = i
        PROVE  i # n + 1 /\ nodes'[j].id = ot_parent(nodes'[i].id) /\ k = KidIndex(nodes'[i].id)
    <3>1. nodes'[j].kids[k] # 0
      BY <1>1, <2>2
    <3>2. CASE j = n + 1 /\ k = k0 /\ nodes'[j].kids[k] = root
      <4>1. nodes'[i].id = RootId /\ i \in 1..n
        BY <1>1, <1>8, <2>2, <3>2 DEF RootId
      <4> QED BY <1>1, <1>2, <3>2, <4>1
    <3>3. CASE j \in 1..n /\ nodes'[j].kids[k] = nodes[j].kids[k] /\ nodes[j].kids[k] \in 1..n
      <4>1. i \in 1..n /\ nodes[j].kids[k] = i
        BY <2>2, <3>3
      <4>2. nodes[j].id = ot_parent(nodes[i].id) /\ k = KidIndex(nodes[i].id)
        BY <3>3, <4>1 DEF TreeIsOne
      <4> QED BY <1>1, <1>8, <3>3, <4>1, <4>2
    <3> QED BY <1>12, <3>1, <3>2, <3>3
  <2>3. ASSUME NEW i \in 1..n + 1, NEW j \in 1..n + 1, nodes'[i].id = nodes'[j].id PROVE i = j
    <3>1. \A m \in 1..n : nodes'[m].id # nodes'[n + 1].id
      <4> SUFFICES ASSUME NEW m \in 1..n PROVE nodes[m].id.size # r + 1
        BY <1>2, <1>4, <1>8
      <4>1. nodes[m].id.size <= r /\ nodes[m].id.size \in Int
        BY <1>1, <1>8, IdsTyped DEF BelowInv
      <4> QED BY <1>3, <4>1
    <3>2. \A m, l \in 1..n : nodes'[m].id = nodes'[l].id => m = l
      BY <1>8 DEF TreeIsOne
    <3> QED BY <1>7, <2>3, <3>1, <3>2
  <2> QED BY <1>2, <2>1, <2>2, <2>3 DEF TreeIsOne
<1> QED
  BY <1>2, <1>4, <1>5, <1>10, <1>11, <1>13, <1>14

LEMMA KidHung ==
  ASSUME IInv, NEW t \in Threads, Alone(t), Hung(t)
  PROVE  /\ TreeInv' /\ Filled /\ Filled' /\ root' = root /\ Len(nodes') = Len(nodes) + 1
         /\ RootId' = RootId
         /\ \A i \in 1..Len(nodes) : nodes'[i].id = nodes[i].id /\ nodes'[i].values = nodes[i].values
         /\ nodes'[Len(nodes) + 1].id = KidFor(t) /\ nodes'[Len(nodes) + 1].values = {}
<1> USE DEF IInv, TreeInv
<1> DEFINE n == Len(nodes)
           r == RootId.size
           at == node[t]
           id == KidFor(t)
           k0 == KidIndex(id)
<1>1. /\ at \in 1..n /\ nodes[at].id \in Ids /\ id \in Ids /\ id.size = nodes[at].id.size - 1
      /\ k0 \in KidNumbers /\ ot_parent(id) = nodes[at].id /\ nodes[at].kids[k0] = 0
      /\ root' = root
  BY DEF Hung, DescentIs
<1>2. /\ nodes' \in Seq(NodeRecords) /\ Len(nodes') = n + 1
      /\ \A i \in 1..n : /\ nodes'[i].id = nodes[i].id /\ nodes'[i].values = nodes[i].values
                         /\ i # at => nodes'[i].kids = nodes[i].kids
      /\ \A m \in KidNumbers : nodes'[at].kids[m] = IF m = k0 THEN n + 1 ELSE nodes[at].kids[m]
      /\ nodes'[n + 1].id = id /\ nodes'[n + 1].values = {} /\ nodes'[n + 1].kids = NoKids
  <2>1. HungOn(at, id, k0)
    BY DEF Hung
  <2> HIDE DEF at, id, k0
  <2> QED BY <1>1, <2>1, NewKid
<1>3. root # 0 /\ Filled /\ pc[t] = "descend" /\ pc' = pc /\ n \in Nat
  BY ElementFacts DEF Hung, WayInv, Typed
<1>4. root \in 1..n /\ RootId \in [size : Nat, x : Int] /\ r \in Nat /\ RootId' = RootId
  <2>1. root \in 1..n /\ RootId \in [size : Nat, x : Int] /\ r \in Nat
    BY <1>3, AtRoot
  <2> QED BY <1>1, <1>2, <2>1 DEF RootId
<1>5. Filled' /\ \A u \in Threads : pc'[u] # "makeroot" /\ pc'[u] # "fillroot"
  BY <1>3, NoneFilling
<1>6. render' = render /\ render \in DOMAIN Renders
  BY DEF Alone, Typed
<1>7. \A i \in 1..n + 1 : i \in 1..n \/ i = n + 1
  BY <1>3
<1>8. \A i \in 1..n : nodes'[i].id = nodes[i].id /\ nodes[i].id \in Ids
  BY <1>2, <1>3 DEF RootInv
<1>9. id \in [size : Nat, x : Int] /\ nodes[at].id \in [size : Nat, x : Int] /\ id.size + 1 = nodes[at].id.size
  BY <1>1, IdsTyped
<1>20. nodes[at].id.size <= r /\ AncestorAt(nodes[at].id, r) = RootId
       /\ \A s \in nodes[at].id.size..r : \E j \in 1..n : nodes[j].id = AncestorAt(nodes[at].id, s)
  BY <1>1, <1>3 DEF BelowInv
<1> HIDE DEF id, k0, at
<1>10. RootInv'
  <2>1. root' \in 0..Len(nodes') /\ root' # 0 /\ nodes' # <<>>
    <3>1. Len(nodes') # 0
      BY <1>3, <1>2
    <3>2. Len(<<>>) = 0
      OBVIOUS
    <3> QED BY <1>1, <1>2, <1>3, <1>4, <3>1, <3>2
  <2>2. \A i \in 1..Len(nodes') : nodes'[i].id \in Ids
    BY <1>1, <1>2, <1>7, <1>8
  <2>3. \E b \in BlocksOf(render) : IdOf[b].size <= r /\ RootId = AncestorAt(IdOf[b], r)
    BY <1>3 DEF RootInv
  <2> QED BY <1>4, <1>5, <1>6, <2>1, <2>2, <2>3 DEF RootInv
<1>11. BelowInv'
  <2> SUFFICES ASSUME NEW i \in 1..n + 1
               PROVE  /\ nodes'[i].id.size <= r
                      /\ AncestorAt(nodes'[i].id, r) = RootId
                      /\ \A s \in nodes'[i].id.size..r :
                           \E j \in 1..n + 1 : nodes'[j].id = AncestorAt(nodes'[i].id, s)
    BY <1>2, <1>4 DEF BelowInv
  <2>1. CASE i \in 1..n
    <3>1. /\ nodes[i].id.size <= r /\ AncestorAt(nodes[i].id, r) = RootId
          /\ \A s \in nodes[i].id.size..r : \E j \in 1..n : nodes[j].id = AncestorAt(nodes[i].id, s)
      BY <1>3, <2>1 DEF BelowInv
    <3>2. \A j \in 1..n : j \in 1..n + 1
      BY <1>3
    <3> QED BY <1>8, <2>1, <3>1, <3>2
  <2>2. CASE i = n + 1
    <3> DEFINE up == nodes[at].id
    <3>1. up.size = id.size + 1 /\ up.size \in Nat /\ AncestorAt(id, up.size) = up
      <4>1. id.size \in Nat /\ id.size >= id.size /\ AncestorAt(id, id.size) = id
        BY <1>9, AncestorFacts
      <4> QED BY <1>1, <1>9, <4>1, AncestorFacts
    <3>2. up \in [size : Nat, x : Int] /\ up.size <= r
      BY <1>9, <1>20
    <3>3. \A s \in Nat : s >= up.size => AncestorAt(id, s) = AncestorAt(up, s)
      <4>1. up.size >= id.size
        BY <1>9, <3>1
      <4> QED BY <1>9, <3>1, <4>1, AncestorUp
    <3>4. \A s \in up.size..r : \E j \in 1..n : nodes[j].id = AncestorAt(up, s)
      BY <1>20
    <3>5. AncestorAt(up, r) = RootId
      BY <1>20
    <3> HIDE DEF up
    <3>6. AncestorAt(id, r) = RootId
      BY <1>4, <3>2, <3>3, <3>5
    <3>7. ASSUME NEW s \in id.size..r PROVE \E j \in 1..n + 1 : nodes'[j].id = AncestorAt(id, s)
      <4>1. CASE s = id.size
        <5>1. AncestorAt(id, s) = id
          BY <1>9, <4>1, AncestorFacts
        <5> QED BY <1>2, <1>3, <5>1
      <4>2. CASE s # id.size
        <5>1. s \in up.size..r /\ s \in Nat /\ s >= up.size
          BY <1>4, <1>9, <3>1, <4>2
        <5>2. PICK j \in 1..n : nodes[j].id = AncestorAt(up, s)
          BY <3>4, <5>1
        <5> QED BY <1>3, <1>8, <3>3, <5>1, <5>2
      <4> QED BY <4>1, <4>2
    <3>8. id.size <= r
      BY <1>4, <1>9, <3>1, <3>2
    <3> QED BY <1>2, <2>2, <3>6, <3>7, <3>8
  <2> QED BY <1>7, <2>1, <2>2
<1>12. ASSUME NEW j \in 1..n + 1, NEW k \in KidNumbers, nodes'[j].kids[k] # 0
       PROVE  \/ j = at /\ k = k0 /\ nodes'[j].kids[k] = n + 1
              \/ j \in 1..n /\ nodes'[j].kids[k] = nodes[j].kids[k] /\ nodes[j].kids[k] \in 1..n
  <2>1. CASE j = n + 1
    BY <1>2, <1>12, <2>1, NoKidsFacts
  <2>2. CASE j \in 1..n
    <3>1. nodes[j].kids[k] \in 0..n
      BY <2>2 DEF KidsInv
    <3>2. \/ nodes'[j].kids[k] = nodes[j].kids[k]
          \/ j = at /\ k = k0 /\ nodes'[j].kids[k] = n + 1
      <4>1. CASE j = at BY <1>2, <4>1
      <4>2. CASE j # at BY <1>2, <2>2, <4>2
      <4> QED BY <4>1, <4>2
    <3> QED BY <1>3, <1>12, <2>2, <3>1, <3>2
  <2> QED BY <1>7, <2>1, <2>2
<1>13. KidsInv'
  <2> SUFFICES ASSUME NEW j \in 1..n + 1, NEW k \in KidNumbers PROVE nodes'[j].kids[k] \in 0..n + 1
    BY <1>2 DEF KidsInv
  <2>1. \A i \in 1..n : i \in 0..n + 1
    BY <1>3
  <2> QED BY <1>3, <1>12, <2>1
<1>14. TreeIsOne'
  <2>1. ASSUME NEW i \in 1..n + 1, i # root
        PROVE  \E j \in 1..n + 1 : nodes'[j].kids[KidIndex(nodes'[i].id)] = i
    <3>1. CASE i = n + 1
      <4>1. at \in 1..n + 1 /\ nodes'[at].kids[k0] = n + 1
        BY <1>1, <1>2, <1>3
      <4> QED BY <1>2, <3>1, <4>1 DEF k0
    <3>2. CASE i \in 1..n
      <4> DEFINE k == KidIndex(nodes[i].id)
      <4>1. PICK j \in 1..n : nodes[j].kids[k] = i
        BY <2>1, <3>2 DEF TreeIsOne
      <4>2. k \in KidNumbers /\ nodes'[i].id = nodes[i].id
        BY <1>8, <3>2, IdsTyped, ParentTyped
      <4>3. nodes'[j].kids[k] = i
        <5> HIDE DEF k
        <5>1. CASE j = at /\ k = k0
          BY <1>1, <3>2, <4>1, <5>1
        <5>2. CASE j = at /\ k # k0
          BY <1>2, <4>1, <4>2, <5>2
        <5>3. CASE j # at
          BY <1>2, <4>1, <5>3
        <5> QED BY <5>1, <5>2, <5>3
      <4> QED BY <1>3, <4>2, <4>3
    <3> QED BY <1>7, <3>1, <3>2
  <2>2. ASSUME NEW i \in 1..n + 1, NEW j \in 1..n + 1, NEW k \in KidNumbers, nodes'[j].kids[k] = i
        PROVE  i # root /\ nodes'[j].id = ot_parent(nodes'[i].id) /\ k = KidIndex(nodes'[i].id)
    <3>1. nodes'[j].kids[k] # 0
      BY <1>3, <2>2
    <3>2. CASE j = at /\ k = k0 /\ nodes'[j].kids[k] = n + 1
      <4>1. i = n + 1 /\ nodes'[i].id = id /\ i # root /\ nodes'[j].id = nodes[at].id
        BY <1>1, <1>2, <1>3, <1>4, <2>2, <3>2
      <4> QED BY <1>1, <3>2, <4>1 DEF k0
    <3>3. CASE j \in 1..n /\ nodes'[j].kids[k] = nodes[j].kids[k] /\ nodes[j].kids[k] \in 1..n
      <4>1. i \in 1..n /\ nodes[j].kids[k] = i
        BY <2>2, <3>3
      <4>2. i # root /\ nodes[j].id = ot_parent(nodes[i].id) /\ k = KidIndex(nodes[i].id)
        BY <3>3, <4>1 DEF TreeIsOne
      <4> QED BY <1>8, <3>3, <4>1, <4>2
    <3> QED BY <1>12, <3>1, <3>2, <3>3
  <2>3. ASSUME NEW i \in 1..n + 1, NEW j \in 1..n + 1, nodes'[i].id = nodes'[j].id PROVE i = j
    <3>1. ASSUME NEW m \in 1..n, nodes[m].id = id PROVE FALSE
      <4>1. m # root
        <5>1. m = root => id.size = r
          BY <3>1 DEF RootId
        <5> QED BY <1>4, <1>9, <1>20, <5>1
      <4>2. PICK l \in 1..n : nodes[l].kids[k0] = m
        BY <3>1, <4>1 DEF TreeIsOne, k0
      <4>3. nodes[l].id = nodes[at].id
        BY <1>1, <3>1, <4>2 DEF TreeIsOne
      <4>4. l = at
        BY <1>1, <4>3 DEF TreeIsOne
      <4> QED BY <1>1, <1>3, <4>2, <4>4
    <3>2. \A m, l \in 1..n : nodes'[m].id = nodes'[l].id => m = l
      BY <1>8 DEF TreeIsOne
    <3>3. \A m \in 1..n : nodes'[m].id # nodes'[n + 1].id
      BY <1>2, <1>8, <3>1
    <3> QED BY <1>7, <2>3, <3>2, <3>3
  <2> QED BY <1>1, <1>2, <2>1, <2>2, <2>3 DEF TreeIsOne
<1> QED
  BY <1>1, <1>2, <1>3, <1>4, <1>5, <1>10, <1>11, <1>13, <1>14 DEF id

LEMMA TreeStep ==
  ASSUME IInv, NEW t \in Threads, Step(t)
  PROVE  TreeInv'
BY TreeSteps, StepAlone, SameTreeKept, RootMade, RootFilled, RootGrown, KidHung DEF IInv

-----------------------------------------------------------------------------
(* What threads know of the tree.                                          *)

(* What WayInv says of one thread.                                         *)
Way(u) ==
  /\ pc[u] \in {"size", "lockgrow", "grow", "area", "lockwiden", "widen", "enter",
                "descend", "lockkid", "insert"} => root # 0
  /\ pc[u] \in {"area", "lockwiden", "widen", "enter", "descend", "lockkid", "insert"} => Filled
  /\ pc[u] \in {"area", "lockwiden", "widen", "enter"} => Id(u).size <= RootId.size
  /\ pc[u] = "enter" => RootId = AncestorAt(Id(u), RootId.size)
  /\ pc[u] \in {"descend", "lockkid"} =>
       /\ node[u] \in 1..Len(nodes) /\ Id(u).size <= nodes[node[u]].id.size
       /\ nodes[node[u]].id = AncestorAt(Id(u), nodes[node[u]].id.size)
  /\ pc[u] = "insert" => node[u] \in 1..Len(nodes) /\ nodes[node[u]].id = Id(u)
  /\ node[u] <= Len(nodes)

LEMMA WayIs == WayInv <=> \A u \in Threads : Way(u)
BY DEF WayInv, Way

(* The tree grows, and what a thread that stays where it is knows of it    *)
(* stays true.                                                             *)
TreeGrows ==
  /\ Len(nodes) \in Nat /\ Len(nodes') \in Nat /\ Len(nodes) <= Len(nodes')
  /\ root # 0 => root' # 0
  /\ Filled /\ root # 0 =>
       /\ Filled' /\ \A i \in 1..Len(nodes) : nodes'[i].id = nodes[i].id
       /\ RootId' = RootId \/ (RootId' = ot_parent(RootId) /\ RootId'.size = RootId.size + 1)

LEMMA TreeGrown ==
  ASSUME IInv, NEW t \in Threads, Step(t)
  PROVE  TreeGrows
<1> USE DEF IInv
<1>1. Alone(t) /\ Len(nodes) \in Nat /\ TreeInv
  BY StepAlone, ElementFacts DEF Typed
<1>2. CASE SameTree(t)
  <2>1. TreeInv' /\ Filled' = Filled /\ (root # 0 => RootId' = RootId)
    BY <1>1, <1>2, SameTreeKept
  <2> QED BY <1>1, <1>2, <2>1 DEF SameTree, TreeGrows
<1>3. CASE MakeRoot(t)
  <2>1. root' # 0 /\ nodes = <<>> /\ Len(nodes') = 1 /\ root = 0
    BY <1>1, <1>3, RootMade
  <2>2. Len(nodes) = 0
    BY <2>1
  <2> QED BY <2>1, <2>2 DEF TreeGrows
<1>4. CASE FillRoot(t)
  <2>1. Filled' /\ root' = 1 /\ Len(nodes') = 1 /\ Len(nodes) = 1
    BY <1>1, <1>4, RootFilled
  <2>2. ~Filled
    BY <1>4 DEF FillRoot, Filled
  <2> QED BY <2>1, <2>2 DEF TreeGrows
<1>5. CASE Rooted(t)
  <2>1. /\ Filled' /\ root' = Len(nodes) + 1 /\ Len(nodes') = Len(nodes) + 1
        /\ Kept(Len(nodes)) /\ RootId' = ot_parent(RootId) /\ RootId'.size = RootId.size + 1
    BY <1>1, <1>5, RootGrown
  <2> QED BY <1>1, <2>1 DEF TreeGrows, Kept
<1>6. CASE Hung(t)
  <2>1. /\ Filled' /\ root' = root /\ Len(nodes') = Len(nodes) + 1 /\ RootId' = RootId
        /\ \A i \in 1..Len(nodes) : nodes'[i].id = nodes[i].id
    BY <1>1, <1>6, KidHung
  <2> QED BY <1>1, <2>1 DEF TreeGrows
<1> QED
  BY <1>2, <1>3, <1>4, <1>5, <1>6, TreeSteps

LEMMA WayOfOthers ==
  ASSUME IInv, TreeGrows, NEW u \in Threads, pc'[u] = pc[u], point'[u] = point[u], node'[u] = node[u]
  PROVE  Way(u)'
<1> USE DEF IInv
<1>1. Way(u) /\ Id(u)' = Id(u)
  BY WayIs DEF Id
<1>2. node[u] \in Nat
  BY DEF Typed
<1>3. pc[u] # "idle" => Id(u) \in [size : Nat, x : Int] /\ Id(u).size \in Nat
  BY AtPoint
<1>4. root # 0 /\ Filled => RootId \in [size : Nat, x : Int] /\ RootId.size \in Nat
  BY AtRoot
<1>5. (pc'[u] \in {"size", "lockgrow", "grow", "area", "lockwiden", "widen", "enter",
                "descend", "lockkid", "insert"} => root' # 0)
      /\ (pc'[u] \in {"area", "lockwiden", "widen", "enter", "descend", "lockkid", "insert"} => Filled')
  BY <1>1 DEF Way, TreeGrows
<1>6. ASSUME pc[u] \in {"area", "lockwiden", "widen", "enter"}
      PROVE  /\ Id(u).size <= RootId'.size
             /\ pc[u] = "enter" => RootId' = AncestorAt(Id(u), RootId'.size)
  <2>1. /\ root # 0 /\ Filled /\ Id(u).size <= RootId.size
        /\ pc[u] = "enter" => RootId = AncestorAt(Id(u), RootId.size)
        /\ Id(u) \in [size : Nat, x : Int] /\ Id(u).size \in Nat /\ RootId.size \in Nat
    BY <1>1, <1>3, <1>4, <1>6 DEF Way
  <2>2. CASE RootId' = RootId
    BY <2>1, <2>2
  <2>3. CASE RootId' = ot_parent(RootId) /\ RootId'.size = RootId.size + 1
    <3>1. AncestorAt(Id(u), RootId.size + 1) = ot_parent(AncestorAt(Id(u), RootId.size))
      BY <2>1, AncestorFacts
    <3> QED BY <2>1, <2>3, <3>1
  <2> QED BY <2>1, <2>2, <2>3 DEF TreeGrows
<1>7. ASSUME pc[u] \in {"descend", "lockkid", "insert"}
      PROVE  node[u] \in 1..Len(nodes) /\ nodes'[node[u]].id = nodes[node[u]].id
  BY <1>1, <1>7 DEF Way, TreeGrows
<1>8. node[u] <= Len(nodes') /\ \A i \in 1..Len(nodes) : i \in 1..Len(nodes')
  BY <1>1, <1>2 DEF Way, TreeGrows
<1>9. pc[u] \in {"descend", "lockkid"} =>
       /\ node'[u] \in 1..Len(nodes') /\ Id(u)'.size <= nodes'[node'[u]].id.size
       /\ nodes'[node'[u]].id = AncestorAt(Id(u)', nodes'[node'[u]].id.size)
  BY <1>1, <1>7, <1>8 DEF Way
<1>10. pc[u] = "insert" => node'[u] \in 1..Len(nodes') /\ nodes'[node'[u]].id = Id(u)'
  BY <1>1, <1>7, <1>8 DEF Way
<1> QED
  BY <1>1, <1>5, <1>6, <1>8, <1>9, <1>10 DEF Way

(* Labels at which a thread need not know anything of the tree.            *)
Knowing == {"size", "lockgrow", "grow", "area", "lockwiden", "widen", "enter", "descend",
            "lockkid", "insert"}

LEMMA WayStep ==
  ASSUME IInv, NEW t \in Threads, Step(t)
  PROVE  WayInv'
<1> USE DEF IInv
<1>1. Alone(t) /\ TreeGrows
  BY StepAlone, TreeGrown
<1>2. \A u \in Threads : u # t => Way(u)'
  BY <1>1, WayOfOthers DEF Alone
<1> SUFFICES Way(t)'
  BY <1>2, WayIs DEF WayInv, Way
<1>3. ASSUME pc'[t] \notin Knowing, node'[t] = node[t] \/ node'[t] = 0
      PROVE  Way(t)'
  <2>1. node'[t] <= Len(nodes')
    BY <1>1, <1>3 DEF TreeGrows, WayInv, Typed
  <2> QED BY <1>3, <2>1 DEF Way, Knowing
<1>4. pc \in [Threads -> Labels] /\ node \in [Threads -> Nat] /\ Way(t) /\ Len(nodes) \in Nat
  BY WayIs, ElementFacts DEF Typed
<1>5. ASSUME \/ TakeTile(t) \/ AcquireBlockPool(t) \/ Save(t) \/ ReleaseBlockPool(t)
             \/ StartQuery(t) \/ LookAtKid(t) \/ LookAtValues(t) \/ Reuse(t) \/ NewBlock(t)
      PROVE  Way(t)'
  <2>1. pc'[t] \notin Knowing /\ node' = node
    BY <1>4, <1>5 DEF TakeTile, AcquireBlockPool, Save, ReleaseBlockPool, StartQuery,
      LookAtKid, LookAtValues, Reuse, NewBlock, NextPoint, Goto, Knowing
  <2> QED BY <1>3, <2>1
<1>6. ASSUME Typed', UNCHANGED <<root, nodes, point, node>>, Filled' = Filled,
             root # 0, pc[t] # "idle",
             \/ pc'[t] \in {"size", "lockgrow", "grow"}
             \/ pc'[t] \in {"area", "lockwiden", "widen"} /\ Filled /\ Id(t).size <= RootId.size
             \/ /\ pc'[t] = "enter" /\ Filled /\ Id(t).size <= RootId.size
                /\ RootId = AncestorAt(Id(t), RootId.size)
      PROVE  Way(t)'
  <2>1. Id(t)' = Id(t) /\ RootId' = RootId
    BY <1>6 DEF Id, RootId
  <2> QED BY <1>4, <1>6, <2>1 DEF Way
<1>7. ASSUME UNCHANGED <<root, nodes>>, pc[t] # "fillroot", pc'[t] # "fillroot"
      PROVE  Filled' = Filled
  BY <1>1, <1>7 DEF Filled, Alone
<1>8. Typed'
  BY TypedPools, TypedSearch, TypedNode DEF Step
<1>9. CASE LookForRoot(t)
  <2>1. pc[t] = "root" /\ UNCHANGED <<root, nodes, point, node>>
        /\ pc'[t] = IF root = 0 THEN "lockroot" ELSE "size"
    BY <1>4, <1>9 DEF LookForRoot, Goto, tree
  <2> QED BY <1>3, <1>6, <1>7, <1>8, <2>1 DEF Knowing
<1>10. CASE LockRoot(t)
  <2>1. pc[t] = "lockroot" /\ UNCHANGED <<root, nodes, point, node>>
        /\ pc'[t] = IF root = 0 THEN "makeroot" ELSE "size"
    BY <1>4, <1>10 DEF LockRoot, Goto
  <2> QED BY <1>3, <1>6, <1>7, <1>8, <2>1 DEF Knowing
<1>11. CASE MakeRoot(t)
  <2>1. pc'[t] = "fillroot" /\ node' = node
    BY <1>4, <1>11 DEF MakeRoot, Goto
  <2> QED BY <1>3, <2>1 DEF Knowing
<1>12. CASE FillRoot(t)
  <2>1. root' = 1 /\ RootId' = Id(t) /\ Filled' /\ Len(nodes') = 1 /\ root = 1
    BY <1>1, <1>12, RootFilled
  <2>2. pc'[t] = "insert" /\ node'[t] = 1 /\ point' = point
    BY <1>4, <1>12, <2>1 DEF FillRoot, Goto
  <2>3. Id(t)' = Id(t) /\ nodes'[1].id = Id(t)
    BY <2>1, <2>2 DEF Id, RootId
  <2> QED BY <2>1, <2>2, <2>3 DEF Way
<1>13. CASE CompareSize(t)
  <2>1. /\ pc[t] = "size" /\ UNCHANGED <<root, nodes, point, node>> /\ root # 0
        /\ \/ pc'[t] \in {"lockgrow", "grow"}
           \/ pc'[t] = "area" /\ ~RootTooSmall(t)
    BY <1>4, <1>13 DEF CompareSize, Goto, tree, Way
  <2>2. ASSUME ~RootTooSmall(t) PROVE Filled /\ Id(t).size <= RootId.size
    <3>1. Id(t).size \in Nat
      BY <2>1, AtPoint
    <3>2. RootId \in Ids \cup {NoId}
      BY <2>1, AtRoot
    <3>3. RootId.size \in Int
      BY <3>2, MaxSizeAssumption DEF Ids, NoId
    <3>4. Id(t).size <= RootId.size
      BY <2>2, <3>1, <3>3 DEF RootTooSmall, RootId
    <3>5. Filled
      <4>1. ~Filled => RootId = NoId
        BY <2>1 DEF Filled, TreeInv, RootInv, RootId
      <4> QED BY <3>1, <3>4, <4>1 DEF NoId
    <3> QED BY <3>4, <3>5
  <2> QED BY <1>6, <1>7, <1>8, <2>1, <2>2
<1>14. CASE CompareArea(t)
  <2>1. /\ pc[t] = "area" /\ UNCHANGED <<root, nodes, point, node>>
        /\ root # 0 /\ Filled /\ Id(t).size <= RootId.size
        /\ \/ pc'[t] \in {"lockwiden", "widen"}
           \/ pc'[t] = "enter" /\ ~RootElsewhere(t)
    BY <1>4, <1>14 DEF CompareArea, Goto, tree, Way
  <2>2. ~RootElsewhere(t) => RootId = AncestorAt(Id(t), RootId.size)
    BY DEF RootElsewhere, RootId
  <2> QED BY <1>6, <1>7, <1>8, <2>1, <2>2
<1>15. CASE Lock(t)
  <2>1. /\ UNCHANGED <<root, nodes, point, node>> /\ root # 0
        /\ \/ pc[t] = "lockgrow" /\ pc'[t] = "grow"
           \/ pc[t] = "lockwiden" /\ pc'[t] = "widen" /\ Filled /\ Id(t).size <= RootId.size
           \/ pc[t] = "lockkid" /\ pc'[t] = "descend"
    BY <1>4, <1>15 DEF Lock, Unlocked, Goto, Way
  <2>2. CASE pc[t] = "lockkid" /\ pc'[t] = "descend"
    <3>1. Filled' = Filled /\ Id(t)' = Id(t)
      BY <1>7, <2>1, <2>2 DEF Id
    <3> QED BY <1>4, <2>1, <2>2, <3>1 DEF Way
  <2> QED BY <1>6, <1>7, <1>8, <2>1, <2>2
<1>16. CASE Rooted(t)
  BY <1>1, <1>16, WayOfOthers DEF Rooted
<1>17. CASE Grow(t) /\ ~RootTooSmall(t)
  <2>1. /\ pc[t] = "grow" /\ pc'[t] = "area" /\ UNCHANGED <<root, nodes, point, node>> /\ root # 0
        /\ treeMutex = t
    BY <1>4, <1>17 DEF Grow, Goto, Way, LockInv
  <2>2. Filled
    BY <2>1 DEF Filled, LockInv
  <2>3. Id(t).size <= RootId.size
    <3>1. Id(t).size \in Nat /\ RootId.size \in Nat
      BY <2>1, <2>2, AtPoint, AtRoot
    <3> QED BY <1>17, <3>1 DEF RootTooSmall, RootId
  <2> QED BY <1>6, <1>7, <1>8, <2>1, <2>2, <2>3
<1>18. CASE Widen(t) /\ ~RootElsewhere(t)
  <2>1. /\ pc[t] = "widen" /\ pc'[t] = "enter" /\ UNCHANGED <<root, nodes, point, node>>
        /\ root # 0 /\ Filled /\ Id(t).size <= RootId.size
    BY <1>4, <1>18 DEF Widen, Goto, Way
  <2>2. RootId = AncestorAt(Id(t), RootId.size)
    BY <1>18 DEF RootElsewhere, RootId
  <2> QED BY <1>6, <1>7, <1>8, <2>1, <2>2
<1>19. CASE Enter(t)
  <2>1. /\ pc[t] = "enter" /\ pc'[t] = "descend" /\ UNCHANGED <<root, nodes, point>> /\ node'[t] = root
        /\ root # 0 /\ Filled /\ Id(t).size <= RootId.size /\ RootId = AncestorAt(Id(t), RootId.size)
    BY <1>4, <1>19 DEF Enter, Goto, tree, Way
  <2>2. Filled' = Filled /\ Id(t)' = Id(t) /\ root \in 1..Len(nodes)
    BY <1>7, <2>1, AtRoot DEF Id
  <2>3. root <= Len(nodes)
    BY <2>2
  <2> QED BY <2>1, <2>2, <2>3 DEF Way, RootId
<1>20. CASE Descend(t)
  <2> DEFINE next == nodes[node[t]].kids[KidIndex(KidFor(t))]
  <2>1. /\ DescentIs(t) /\ pc[t] = "descend" /\ UNCHANGED <<point, root>>
        /\ \/ /\ next # 0 /\ node' = [node EXCEPT ![t] = next] /\ UNCHANGED <<pc, nodes>>
           \/ next = 0 /\ Goto(t, "lockkid") /\ UNCHANGED <<node, nodes>>
           \/ /\ next = 0 /\ HungOn(node[t], KidFor(t), KidIndex(KidFor(t)))
              /\ node' = [node EXCEPT ![t] = Len(nodes')] /\ UNCHANGED pc
    BY <1>20, DescentWays
  <2>2. /\ KidFor(t) \in Ids /\ KidFor(t).size >= Id(t).size /\ next \in 0..Len(nodes)
        /\ next # 0 => nodes[next].id = KidFor(t)
        /\ KidFor(t).size = nodes[node[t]].id.size - 1
    BY <2>1 DEF DescentIs
  <2>3. KidFor(t) = AncestorAt(Id(t), KidFor(t).size)
    BY <2>2 DEF KidFor
  <2>4. root # 0 /\ Filled /\ Id(t)' = Id(t) /\ Filled' /\ root' # 0
    BY <1>1, <1>4, <2>1 DEF Way, Id, TreeGrows
  <2> HIDE DEF next
  <2>5. Id(t).size <= KidFor(t).size
    BY <2>1, <2>2, AtPoint, IdsTyped
  <2>6. CASE next # 0 /\ node' = [node EXCEPT ![t] = next] /\ UNCHANGED <<pc, nodes>>
    <3>1. node'[t] = next /\ next \in 1..Len(nodes) /\ pc'[t] = "descend" /\ next <= Len(nodes)
      BY <1>4, <2>1, <2>2, <2>6
    <3> QED BY <2>2, <2>3, <2>4, <2>5, <2>6, <3>1 DEF Way
  <2>7. CASE Goto(t, "lockkid") /\ UNCHANGED <<node, nodes>>
    <3>1. pc'[t] = "lockkid"
      BY <1>4, <2>7 DEF Goto
    <3> QED BY <1>4, <2>1, <2>4, <2>7, <3>1 DEF Way
  <2>8. CASE HungOn(node[t], KidFor(t), KidIndex(KidFor(t))) /\ node' = [node EXCEPT ![t] = Len(nodes')]
             /\ UNCHANGED pc
    <3>1. node[t] \in 1..Len(nodes) /\ KidIndex(KidFor(t)) \in KidNumbers
      BY <2>1 DEF DescentIs
    <3>2. Len(nodes') = Len(nodes) + 1 /\ nodes'[Len(nodes) + 1].id = KidFor(t)
      BY <2>2, <2>8, <3>1, NewKid
    <3>3. node'[t] = Len(nodes') /\ pc'[t] = "descend" /\ Len(nodes') \in 1..Len(nodes')
          /\ nodes'[node'[t]].id = KidFor(t) /\ Len(nodes') <= Len(nodes')
      BY <1>4, <2>1, <2>8, <3>2
    <3> QED BY <2>3, <2>4, <2>5, <3>3 DEF Way
  <2> QED BY <2>1, <2>6, <2>7, <2>8
<1>21. CASE ReturnNode(t)
  <2>1. /\ pc[t] = "descend" /\ pc'[t] = "insert" /\ UNCHANGED <<root, nodes, point, node>>
        /\ nodes[node[t]].id.size <= Id(t).size /\ root # 0 /\ Filled
        /\ node[t] \in 1..Len(nodes) /\ Id(t).size <= nodes[node[t]].id.size
        /\ nodes[node[t]].id = AncestorAt(Id(t), nodes[node[t]].id.size)
    BY <1>4, <1>21 DEF ReturnNode, Goto, Way
  <2>2. Filled' = Filled /\ Id(t)' = Id(t)
    BY <1>7, <2>1 DEF Id
  <2>3. nodes[node[t]].id = Id(t)
    <3>1. Id(t) \in [size : Nat, x : Int] /\ nodes[node[t]].id \in Ids
      BY <2>1, AtPoint DEF TreeInv, RootInv
    <3>2. nodes[node[t]].id.size = Id(t).size
      BY <2>1, <3>1, IdsTyped
    <3> QED BY <2>1, <3>1, <3>2, AncestorFacts
  <2> QED BY <1>4, <2>1, <2>2, <2>3 DEF Way
<1>22. CASE InsertBlock(t)
  <2>1. pc'[t] \in {"query", "save"} /\ node'[t] = 0
    BY <1>4, <1>22 DEF InsertBlock, NextPoint, Goto
  <2> QED BY <1>3, <2>1 DEF Knowing
<1>23. Grow(t) => Rooted(t) \/ ~RootTooSmall(t)
  BY RootGrows DEF Grow, Rooted
<1>24. Widen(t) => Rooted(t) \/ ~RootElsewhere(t)
  BY RootGrows DEF Widen, Rooted
<1> QED
  BY <1>5, <1>9, <1>10, <1>11, <1>12, <1>13, <1>14, <1>15, <1>16, <1>17, <1>18, <1>19, <1>20, <1>21,
    <1>22, <1>23, <1>24 DEF Step

-----------------------------------------------------------------------------
(* Searches.                                                               *)

(* An id is given once, and nodes stay.                                    *)
LEMMA IdsStay ==
  ASSUME IInv, NEW t \in Threads, Step(t)
  PROVE  /\ Len(nodes) \in Nat /\ Len(nodes') \in Nat /\ Len(nodes) <= Len(nodes')
         /\ \A i \in 1..Len(nodes) :
              \/ nodes'[i].id = nodes[i].id
              \/ nodes[i].id = NoId /\ nodes'[i].id \in Ids
<1> USE DEF IInv
<1>1. Alone(t) /\ TreeGrows /\ TreeInv
  BY StepAlone, TreeGrown
<1>2. CASE SameTree(t)
  BY <1>1, <1>2 DEF SameTree, TreeGrows
<1>3. CASE MakeRoot(t)
  <2>1. Len(nodes) = 0
    <3>1. nodes = <<>>
      BY <1>1, <1>3, RootMade
    <3> QED BY <3>1
  <2> QED BY <1>1, <2>1 DEF TreeGrows
<1>4. CASE FillRoot(t)
  <2>1. RootId' = Id(t) /\ root' = 1 /\ Len(nodes) = 1 /\ root = 1
    BY <1>1, <1>4, RootFilled
  <2>2. pc[t] = "fillroot"
    BY <1>4 DEF FillRoot
  <2>3. Id(t) \in Ids /\ nodes[1].id = NoId
    <3>1. nodes = <<[id |-> NoId, kids |-> NoKids, values |-> {}]>>
      BY <2>2 DEF TreeInv, RootInv
    <3> QED BY <2>2, <3>1, AtPoint
  <2>4. nodes'[1].id \in Ids
    BY <2>1, <2>3 DEF RootId
  <2>5. \A i \in 1..Len(nodes) : i = 1
    BY <2>1
  <2> QED BY <1>1, <2>3, <2>4, <2>5 DEF TreeGrows
<1>5. CASE Rooted(t)
  BY <1>1, <1>5, RootGrown DEF TreeGrows, Kept
<1>6. CASE Hung(t)
  BY <1>1, <1>6, KidHung DEF TreeGrows
<1> QED
  BY <1>2, <1>3, <1>4, <1>5, <1>6, TreeSteps

Way1(todos, i) ==
  LET at == todos[i].node
  IN  /\ at <= Len(nodes) /\ nodes[at].id.size <= MaxSize + 1 - i
      /\ i > 1 => nodes[at].id \in Ids

Searching(u) == /\ pc[u] = "search" <=> todo[u] # <<>>
                /\ \A i \in 1..Len(todo[u]) : Way1(todo[u], i)

LEMMA SearchIs == SearchInv <=> \A u \in Threads : Searching(u)
BY DEF SearchInv, Searching, Way1

LEMMA WayBackStays ==
  ASSUME IInv, NEW t \in Threads, Step(t), NEW s \in Seq(Entries), NEW i \in 1..Len(s), Way1(s, i)
  PROVE  Way1(s, i)'
<1> DEFINE at == s[i].node
<1>1. at \in Nat \ {0} /\ i \in Nat /\ i >= 1 /\ Len(s) \in Nat
  <2>1. Len(s) \in Nat /\ s[i] \in Entries
    BY ElementFacts
  <2>2. s[i].node \in Nat \ {0}
    BY <2>1 DEF Entries
  <2> QED BY <2>1, <2>2
<1>2. /\ Len(nodes) \in Nat /\ Len(nodes') \in Nat /\ Len(nodes) <= Len(nodes')
      /\ \A m \in 1..Len(nodes) :
           \/ nodes'[m].id = nodes[m].id
           \/ nodes[m].id = NoId /\ nodes'[m].id \in Ids
  BY IdsStay
<1>3. at <= Len(nodes) /\ nodes[at].id.size <= MaxSize + 1 - i /\ (i > 1 => nodes[at].id \in Ids)
  BY DEF Way1
<1>4. at \in 1..Len(nodes)
  BY <1>1, <1>2, <1>3
<1>5. at <= Len(nodes')
  BY <1>1, <1>2, <1>3
<1> HIDE DEF at
<1>6. CASE nodes'[at].id = nodes[at].id
  BY <1>3, <1>5, <1>6 DEF Way1, at
<1>7. CASE nodes[at].id = NoId /\ nodes'[at].id \in Ids
  <2>1. ~(i > 1)
    BY <1>3, <1>7, IdsTyped
  <2>2. i = 1 /\ nodes'[at].id.size \in 0..MaxSize
    BY <1>1, <1>7, <2>1, IdsTyped
  <2>3. nodes'[at].id.size <= MaxSize + 1 - i
    BY <2>2, MaxSizeAssumption
  <2> QED BY <1>5, <2>1, <2>3 DEF Way1, at
<1> QED
  BY <1>2, <1>4, <1>6, <1>7

(* The kid that a search looks at.                                         *)
LEMMA KidSeen ==
  ASSUME IInv, NEW t \in Threads, LookAtKid(t)
  PROVE  LET n == Len(todo[t])
             at == Last(todo[t])
             kid == nodes[at.node].kids[at.kid]
         IN  /\ n \in Nat \ {0} /\ at \in Entries /\ at = todo[t][n] /\ at.kid \in KidNumbers
             /\ at.node \in 1..Len(nodes) /\ kid \in 0..Len(nodes)
             /\ kid # 0 => /\ nodes[kid].id \in Ids /\ Filled /\ root # 0
                           /\ nodes[at.node].id = ot_parent(nodes[kid].id)
                           /\ at.kid = KidIndex(nodes[kid].id)
<1> USE DEF IInv
<1> DEFINE n == Len(todo[t])
           at == Last(todo[t])
           kid == nodes[at.node].kids[at.kid]
<1>1. todo[t] \in Seq(Entries) /\ todo[t] # <<>> /\ at.kid \in KidNumbers
  BY DEF LookAtKid, Typed, SearchInv
<1>2. n \in Nat \ {0} /\ n \in 1..n /\ at \in Entries /\ at = todo[t][n]
  <2>1. n \in Nat \ {0} /\ at \in Entries /\ at = todo[t][n]
    BY <1>1, FrontFacts
  <2> HIDE DEF n
  <2> QED BY <2>1
<1>3. at.node \in 1..Len(nodes)
  <2>1. at.node <= Len(nodes) /\ Len(nodes) \in Nat
    BY <1>2, ElementFacts DEF SearchInv, Typed
  <2>2. at.node \in Nat \ {0}
    BY <1>2 DEF Entries
  <2> QED BY <2>1, <2>2
<1>4. kid \in 0..Len(nodes)
  BY <1>1, <1>3 DEF TreeInv, KidsInv
<1>5. ASSUME kid # 0
      PROVE  /\ nodes[kid].id \in Ids /\ Filled /\ root # 0
             /\ nodes[at.node].id = ot_parent(nodes[kid].id) /\ at.kid = KidIndex(nodes[kid].id)
  <2>1. kid \in 1..Len(nodes) /\ nodes # <<>>
    BY <1>4, <1>5, ElementFacts DEF Typed
  <2>2. root # 0
    BY <2>1 DEF TreeInv, RootInv
  <2>3. Filled
    <3> SUFFICES ASSUME NEW u \in Threads, pc[u] = "fillroot" PROVE FALSE
      BY DEF Filled
    <3> HIDE DEF at
    <3>1. nodes = <<[id |-> NoId, kids |-> NoKids, values |-> {}]>>
      BY DEF TreeInv, RootInv
    <3>2. at.node = 1 /\ nodes[1].kids = NoKids
      BY <1>3, <3>1
    <3> QED BY <1>1, <1>5, <3>2, NoKidsFacts DEF at
  <2>4. nodes[kid].id \in Ids
    BY <2>1, <2>2, <2>3 DEF TreeInv, RootInv
  <2>5. nodes[at.node].id = ot_parent(nodes[kid].id) /\ at.kid = KidIndex(nodes[kid].id)
    BY <1>1, <1>3, <2>1 DEF TreeInv, TreeIsOne
  <2> QED BY <2>2, <2>3, <2>4, <2>5
<1> QED
  BY <1>1, <1>2, <1>3, <1>4, <1>5

(* How LookAtKid goes on.                                                  *)
LEMMA TodoSeen ==
  ASSUME IInv, NEW t \in Threads, LookAtKid(t)
  PROVE  LET n == Len(todo[t])
             at == Last(todo[t])
             kid == nodes[at.node].kids[at.kid]
             down == kid # 0 /\ InNode(Here(t).at, nodes[kid].id)
         IN  /\ todo'[t] \in Seq(Entries)
             /\ Len(todo'[t]) = IF down THEN n + 1 ELSE n
             /\ \A i \in 1..n - 1 : todo'[t][i] = todo[t][i]
             /\ todo'[t][n] = [node |-> at.node, kid |-> at.kid + 1]
             /\ down => todo'[t][n + 1] = [node |-> kid, kid |-> 0]
<1> DEFINE n == Len(todo[t])
           at == Last(todo[t])
           kid == nodes[at.node].kids[at.kid]
           e == [at EXCEPT !.kid = @ + 1]
           on == [todo[t] EXCEPT ![n] = e]
           next == [node |-> kid, kid |-> 0]
           down == kid # 0 /\ InNode(Here(t).at, nodes[kid].id)
<1>1. /\ n \in Nat \ {0} /\ at \in Entries /\ at = todo[t][n] /\ at.kid \in KidNumbers
      /\ kid \in 0..Len(nodes) /\ todo[t] \in Seq(Entries) /\ todo \in [Threads -> Seq(Entries)]
      /\ Len(nodes) \in Nat
  BY KidSeen, ElementFacts DEF IInv, Typed
<1>2. e \in Entries /\ e = [node |-> at.node, kid |-> at.kid + 1]
  BY <1>1 DEF Entries, KidNumbers
<1>3. on \in Seq(Entries) /\ Len(on) = n /\ on[n] = e /\ \A i \in 1..n : i # n => on[i] = todo[t][i]
  <2>1. Changed(on, todo[t], n, e) /\ n \in 1..Len(todo[t])
    BY <1>1 DEF Changed
  <2> HIDE DEF on, e, n
  <2> QED BY <1>1, <1>2, <2>1, ExceptFacts DEF n
<1>4. todo'[t] = IF down THEN Append(on, next) ELSE on
  <2>1. [todo[t] EXCEPT ![Len(todo[t])].kid = @ + 1] = on
    BY <1>1
  <2>2. todo' = [todo EXCEPT ![t] = IF down THEN Append(on, next) ELSE on]
    BY <2>1 DEF LookAtKid
  <2> HIDE DEF on, next, down
  <2> QED BY <1>1, <2>2
<1> HIDE DEF on, e
<1>5. CASE ~down
  <2>1. \A i \in 1..n - 1 : i \in 1..n /\ i # n
    BY <1>1
  <2> QED BY <1>2, <1>3, <1>4, <1>5, <2>1
<1>6. CASE down
  <2>1. next \in Entries
    <3>1. kid \in Nat \ {0}
      <4>1. kid # 0
        BY <1>6
      <4> HIDE DEF kid
      <4> QED BY <1>1, <4>1
    <3> HIDE DEF kid
    <3> QED BY <3>1 DEF Entries
  <2> HIDE DEF next
  <2>2. /\ Append(on, next) \in Seq(Entries) /\ Len(Append(on, next)) = n + 1
        /\ \A i \in 1..n : Append(on, next)[i] = on[i]
        /\ Append(on, next)[n + 1] = next
    BY <1>3, <2>1, AppendFacts
  <2>3. n \in 1..n /\ \A i \in 1..n - 1 : i \in 1..n /\ i # n
    BY <1>1
  <2> QED BY <1>2, <1>3, <1>4, <1>6, <2>2, <2>3 DEF next
<1> QED
  BY <1>5, <1>6

LEMMA SearchStep ==
  ASSUME IInv, Typed', NEW t \in Threads, Step(t)
  PROVE  SearchInv'
<1> USE DEF IInv
<1>1. Alone(t) /\ pc \in [Threads -> Labels] /\ todo \in [Threads -> Seq(Entries)]
      /\ todo' \in [Threads -> Seq(Entries)] /\ \A u \in Threads : Searching(u)
  BY StepAlone, SearchIs DEF Typed
<1>2. ASSUME NEW u \in Threads, u # t PROVE Searching(u)'
  <2>1. pc'[u] = pc[u] /\ todo'[u] = todo[u] /\ Searching(u) /\ todo[u] \in Seq(Entries)
    BY <1>1, <1>2 DEF Alone
  <2>2. \A i \in 1..Len(todo[u]) : Way1(todo[u], i)'
    BY <2>1, WayBackStays DEF Searching
  <2> QED BY <2>1, <2>2 DEF Searching, Way1
<1> SUFFICES Searching(t)'
  BY <1>2, SearchIs DEF SearchInv, Searching, Way1
<1>3. ASSUME todo'[t] = <<>>, pc'[t] # "search" PROVE Searching(t)'
  BY <1>3 DEF Searching
<1>4. pc[t] # "search" => todo[t] = <<>>
  BY <1>1 DEF Searching
<1>5. ASSUME \/ TakeTile(t) \/ AcquireBlockPool(t) \/ Save(t) \/ ReleaseBlockPool(t)
             \/ Reuse(t) \/ NewBlock(t) \/ LookForRoot(t) \/ LockRoot(t) \/ MakeRoot(t)
      PROVE  Searching(t)'
  <2>1. todo' = todo /\ pc[t] # "search" /\ pc'[t] # "search"
    BY <1>1, <1>5 DEF TakeTile, AcquireBlockPool, Save, ReleaseBlockPool, Reuse, NewBlock, NextPoint,
      LookForRoot, LockRoot, MakeRoot, Goto, Rest
  <2> QED BY <1>3, <1>4, <2>1
<1>6. ASSUME \/ FillRoot(t) \/ Enter(t) \/ Lock(t) \/ ReturnNode(t) \/ InsertBlock(t)
      PROVE  Searching(t)'
  <2>1. todo' = todo /\ pc[t] # "search" /\ pc'[t] # "search"
    BY <1>1, <1>6 DEF FillRoot, Enter, Lock, Unlocked, ReturnNode, InsertBlock, NextPoint, Goto, Rest
  <2> QED BY <1>3, <1>4, <2>1
<1>7. ASSUME CompareSize(t) \/ CompareArea(t) PROVE Searching(t)'
  <2>1. todo' = todo /\ pc[t] \in {"size", "area"}
        /\ pc'[t] \in {"area", "grow", "lockgrow", "enter", "widen", "lockwiden"}
    BY <1>1, <1>7 DEF CompareSize, CompareArea, Goto, Rest
  <2> QED BY <1>3, <1>4, <2>1
<1>8. ASSUME Grow(t) \/ Widen(t) \/ Descend(t) PROVE Searching(t)'
  <2>1. todo' = todo /\ pc[t] \in {"grow", "widen", "descend"}
        /\ (pc' = pc \/ pc'[t] \in {"area", "enter", "lockkid"})
    BY <1>1, <1>8 DEF Grow, Widen, Descend, Goto, Rest
  <2> QED BY <1>3, <1>4, <2>1
<1>9. CASE StartQuery(t)
  <2>1. pc[t] = "query" /\ UNCHANGED <<root, nodes>>
    BY <1>9 DEF StartQuery, tree
  <2>2. CASE root = 0
    <3>1. todo' = todo /\ pc'[t] = "judge"
      BY <1>1, <1>9, <2>2 DEF StartQuery, Goto
    <3> QED BY <1>3, <1>4, <2>1, <3>1
  <2>3. CASE root # 0
    <3>1. todo'[t] = <<[node |-> root, kid |-> 0]>> /\ pc'[t] = "search"
      BY <1>1, <1>9, <2>3 DEF StartQuery, Goto
    <3>2. root <= Len(nodes) /\ RootId.size <= MaxSize
      <4>1. root \in 1..Len(nodes) /\ RootId \in Ids \cup {NoId}
        BY <2>3, AtRoot
      <4>2. NoId.size <= MaxSize /\ \A id \in Ids : id.size <= MaxSize
        BY MaxSizeAssumption DEF NoId, Ids
      <4> QED BY <4>1, <4>2
    <3>3. MaxSize + 1 - 1 = MaxSize
      BY MaxSizeAssumption
    <3>4. \A i \in 1..Len(todo'[t]) : i = 1 /\ todo'[t][i].node = root
      BY <3>1
    <3>5. todo'[t] # <<>>
      BY <3>1
    <3> QED BY <2>1, <3>1, <3>2, <3>3, <3>4, <3>5 DEF Searching, Way1, RootId
  <2> QED BY <2>2, <2>3
<1>10. CASE LookAtKid(t)
  <2> DEFINE n == Len(todo[t])
             at == Last(todo[t])
             kid == nodes[at.node].kids[at.kid]
             down == kid # 0 /\ InNode(Here(t).at, nodes[kid].id)
  <2>1. pc'[t] = "search" /\ UNCHANGED <<root, nodes>>
    BY <1>10 DEF LookAtKid, tree
  <2>2. /\ todo'[t] \in Seq(Entries)
        /\ Len(todo'[t]) = IF down THEN n + 1 ELSE n
        /\ \A i \in 1..n - 1 : todo'[t][i] = todo[t][i]
        /\ todo'[t][n] = [node |-> at.node, kid |-> at.kid + 1]
        /\ down => todo'[t][n + 1] = [node |-> kid, kid |-> 0]
    BY <1>10, TodoSeen
  <2>3. /\ n \in Nat \ {0} /\ at \in Entries /\ at = todo[t][n] /\ at.node \in 1..Len(nodes)
        /\ kid \in 0..Len(nodes) /\ Len(nodes) \in Nat
        /\ kid # 0 => /\ nodes[kid].id \in Ids
                      /\ nodes[at.node].id = ot_parent(nodes[kid].id)
    BY <1>10, KidSeen, ElementFacts DEF Typed
  <2>4. \A i \in 1..n : Way1(todo[t], i)
    BY <1>1 DEF Searching
  <2>11. down => kid # 0
    OBVIOUS
  <2> HIDE DEF n, at, kid, down
  <2>5. \A i \in 1..n : todo'[t][i].node = todo[t][i].node
    <3>1. \A i \in 1..n : i = n \/ i \in 1..n - 1
      BY <2>3
    <3>2. todo'[t][n].node = todo[t][n].node
      BY <2>2, <2>3
    <3>3. \A i \in 1..n - 1 : todo'[t][i].node = todo[t][i].node
      BY <2>2
    <3> QED BY <3>1, <3>2, <3>3
  <2>6. ASSUME NEW i \in 1..n PROVE Way1(todo[t], i)'
    BY <2>1, <2>4, <2>5 DEF Way1
  <2>7. \A i \in 1..n : (todo'[t][i].node <= Len(nodes') /\ nodes'[todo'[t][i].node].id.size <= MaxSize + 1 - i
                         /\ (i > 1 => nodes'[todo'[t][i].node].id \in Ids))
    BY <2>1, <2>4, <2>5 DEF Way1
  <2>8. ASSUME down
        PROVE  /\ todo'[t][n + 1].node <= Len(nodes')
               /\ nodes'[todo'[t][n + 1].node].id.size <= MaxSize + 1 - (n + 1)
               /\ nodes'[todo'[t][n + 1].node].id \in Ids
    <3>1. todo'[t][n + 1].node = kid /\ nodes' = nodes
      BY <2>1, <2>2, <2>8
    <3>2. nodes[at.node].id.size <= MaxSize + 1 - n
      <4>1. n \in 1..n
        BY <2>3
      <4> QED BY <2>3, <2>4, <4>1 DEF Way1
    <3>3. nodes[kid].id.size \in Int /\ nodes[at.node].id.size = nodes[kid].id.size + 1
      BY <2>3, <2>8, <2>11, IdsTyped DEF ot_parent
    <3>4. nodes[kid].id.size <= MaxSize + 1 - (n + 1)
      BY <2>3, <3>2, <3>3, MaxSizeAssumption
    <3> QED BY <2>3, <2>8, <2>11, <3>1, <3>4
  <2>9. \A i \in 1..Len(todo'[t]) : i \in 1..n \/ (down /\ i = n + 1)
    BY <2>2, <2>3
  <2>10. todo'[t] # <<>>
    <3>1. Len(todo'[t]) # 0
      BY <2>2, <2>3
    <3> QED BY <2>2, <3>1, ElementFacts
  <2> QED BY <2>1, <2>7, <2>8, <2>9, <2>10 DEF Searching, Way1
<1>11. CASE LookAtValues(t)
  <2>1. pc[t] = "search" /\ UNCHANGED <<root, nodes>> /\ todo'[t] = Front(todo[t])
        /\ pc'[t] = IF Len(todo[t]) = 1 THEN "judge" ELSE "search"
    BY <1>1, <1>11 DEF LookAtValues, Goto, tree
  <2>2. todo[t] # <<>> /\ todo[t] \in Seq(Entries)
    BY <1>1, <2>1 DEF Searching
  <2>3. /\ Len(todo[t]) \in Nat \ {0} /\ Front(todo[t]) \in Seq(Entries)
        /\ Len(Front(todo[t])) = Len(todo[t]) - 1
        /\ \A i \in 1..Len(todo[t]) - 1 : Front(todo[t])[i] = todo[t][i]
    BY <2>2, FrontFacts
  <2>4. pc'[t] = "search" <=> todo'[t] # <<>>
    <3>1. Front(todo[t]) = <<>> <=> Len(Front(todo[t])) = 0
      BY <2>3, ElementFacts
    <3> QED BY <2>1, <2>3, <3>1
  <2>5. \A i \in 1..Len(todo[t]) - 1 : i \in 1..Len(todo[t])
    BY <2>3
  <2>6. \A i \in 1..Len(todo'[t]) : todo'[t][i] = todo[t][i] /\ i \in 1..Len(todo[t])
    BY <2>1, <2>3, <2>5
  <2> QED BY <1>1, <2>1, <2>4, <2>6 DEF Searching, Way1
<1> QED
  BY <1>5, <1>6, <1>7, <1>8, <1>9, <1>10, <1>11 DEF Step

-----------------------------------------------------------------------------
(* Pools.                                                                  *)

BlockAdded(i, b) == pools' = [pools EXCEPT ![i].blocks = Append(@, b)]

LEMMA NewPooled ==
  ASSUME Typed, NEW i \in 1..Len(pools), NEW b \in Blocks, BlockAdded(i, b)
  PROVE  /\ pools' \in Seq(PoolRecords) /\ Len(pools') = Len(pools)
         /\ \A j \in 1..Len(pools) : j # i => pools'[j] = pools[j]
         /\ pools'[i].savedHead = pools[i].savedHead /\ pools'[i].nextUnsaved = pools[i].nextUnsaved
         /\ Len(pools'[i].blocks) = Len(pools[i].blocks) + 1
         /\ \A k \in 1..Len(pools[i].blocks) : pools'[i].blocks[k] = pools[i].blocks[k]
         /\ pools'[i].blocks[Len(pools[i].blocks) + 1] = b
<1> DEFINE s == Append(pools[i].blocks, b)
           e == [pools[i] EXCEPT !.blocks = s]
<1>1. pools[i] \in PoolRecords /\ pools \in Seq(PoolRecords) /\ pools[i].blocks \in Seq(Blocks)
  <2>1. pools[i] \in PoolRecords /\ pools \in Seq(PoolRecords)
    BY ElementFacts DEF Typed
  <2> QED BY <2>1 DEF PoolRecords
<1>2. /\ s \in Seq(Blocks) /\ Len(s) = Len(pools[i].blocks) + 1
      /\ \A k \in 1..Len(pools[i].blocks) : s[k] = pools[i].blocks[k]
      /\ s[Len(pools[i].blocks) + 1] = b
  BY <1>1, AppendFacts
<1>3. Changed(pools', pools, i, e)
  BY DEF BlockAdded, Changed
<1> HIDE DEF s
<1>4. /\ e \in PoolRecords /\ e.blocks = s /\ e.savedHead = pools[i].savedHead
      /\ e.nextUnsaved = pools[i].nextUnsaved
  BY <1>1, <1>2 DEF PoolRecords
<1> HIDE DEF e
<1>5. /\ pools' \in Seq(PoolRecords) /\ Len(pools') = Len(pools) /\ pools'[i] = e
      /\ \A j \in 1..Len(pools) : j # i => pools'[j] = pools[j]
  <2>1. e \in PoolRecords
    BY <1>4
  <2> QED BY <1>1, <1>3, <2>1, ExceptFacts
<1> QED
  BY <1>2, <1>4, <1>5

PoolSaved(i) ==
  pools' = [pools EXCEPT ![i].savedHead = HeadOf(pools[i]) - 1,
                         ![i].nextUnsaved = NextFree(pools[i])]

LEMMA NewSaved ==
  ASSUME Typed, NEW i \in 1..Len(pools), pools[i].blocks # <<>>, PoolSaved(i)
  PROVE  /\ pools' \in Seq(PoolRecords) /\ Len(pools') = Len(pools)
         /\ \A j \in 1..Len(pools) : j # i => pools'[j] = pools[j]
         /\ pools'[i].blocks = pools[i].blocks
         /\ pools'[i].savedHead = HeadOf(pools[i]) - 1 /\ pools'[i].nextUnsaved = NextFree(pools[i])
<1> DEFINE p == pools[i]
           e == [p EXCEPT !.savedHead = HeadOf(p) - 1, !.nextUnsaved = NextFree(p)]
<1>1. p \in PoolRecords /\ pools \in Seq(PoolRecords)
  BY ElementFacts DEF Typed
<1>2. HeadOf(p) - 1 \in Nat /\ NextFree(p) \in Nat
  BY <1>1, UnitFacts
<1>3. Changed(pools', pools, i, e)
  BY DEF PoolSaved, Changed
<1> HIDE DEF p
<1>4. e \in PoolRecords /\ e.blocks = p.blocks
      /\ e.savedHead = HeadOf(p) - 1 /\ e.nextUnsaved = NextFree(p)
  BY <1>1, <1>2 DEF PoolRecords
<1> HIDE DEF e
<1>5. /\ pools' \in Seq(PoolRecords) /\ Len(pools') = Len(pools) /\ pools'[i] = e
      /\ \A j \in 1..Len(pools) : j # i => pools'[j] = pools[j]
  <2>1. e \in PoolRecords
    BY <1>4
  <2> QED BY <1>1, <1>3, <2>1, ExceptFacts
<1> QED
  BY <1>4, <1>5 DEF p

(* The steps by what they do to the pools.                                 *)
Acquired(t) ==
  /\ pc[t] = "acquire" /\ pc'[t] = "query" /\ file' = file /\ pool[t] = 0
  /\ \/ /\ freePools = <<>> /\ freePools' = freePools
        /\ pools' = Append(pools, NewPool) /\ pool' = [pool EXCEPT ![t] = Len(pools) + 1]
     \/ /\ freePools # <<>> /\ freePools' = Front(freePools)
        /\ pools' = pools /\ pool' = [pool EXCEPT ![t] = Last(freePools)]

Saves(t) ==
  /\ pc[t] = "save" /\ pc'[t] = "release" /\ UNCHANGED <<pool, freePools>>
  /\ pool[t] \in 1..Len(pools)
  /\ file' = file (+) SetToBag(Unsaved(pools[pool[t]]))
  /\ \/ pools[pool[t]].blocks = <<>> /\ pools' = pools
     \/ pools[pool[t]].blocks # <<>> /\ PoolSaved(pool[t])

Released(t) ==
  /\ pc[t] = "release" /\ pc'[t] = "idle" /\ UNCHANGED <<pools, file>>
  /\ freePools' = Append(freePools, pool[t]) /\ pool' = [pool EXCEPT ![t] = 0]

Added(t) ==
  /\ pc[t] = "judge" /\ pc'[t] = "root" /\ UNCHANGED <<pool, freePools, file, point>>
  /\ pool[t] \in 1..Len(pools) /\ point[t] \in Blocks /\ BlockAdded(pool[t], point[t])

SameStore(t) ==
  /\ UNCHANGED store /\ (pc[t] \in {"idle", "acquire"} <=> pc'[t] \in {"idle", "acquire"})
  /\ pc'[t] # "release"

LEMMA HasPool ==
  ASSUME Typed, OwnersInv, NEW t \in Threads, pc[t] \notin {"idle", "acquire"}
  PROVE  pool[t] \in 1..Len(pools) /\ pools[pool[t]] \in PoolRecords
<1>1. pool[t] \in Nat /\ pool[t] # 0 /\ pool[t] <= Len(pools) /\ Len(pools) \in Nat
  BY ElementFacts DEF OwnersInv, Typed
<1>2. pool[t] \in 1..Len(pools)
  BY <1>1
<1> QED
  BY <1>2, ElementFacts DEF Typed

LEMMA StoreSteps ==
  ASSUME IInv, NEW t \in Threads, Step(t)
  PROVE  Acquired(t) \/ Saves(t) \/ Released(t) \/ Added(t) \/ SameStore(t)
<1> USE DEF IInv
<1>1. pc \in [Threads -> Labels] /\ pool \in [Threads -> Nat] /\ (pool[t] = 0 <=> pc[t] \in {"idle", "acquire"})
      /\ pools \in Seq(PoolRecords)
  BY DEF Typed, OwnersInv
<1>2. CASE AcquireBlockPool(t)
  <2>1. Len(Append(pools, NewPool)) = Len(pools) + 1
    BY <1>1, AppendFacts DEF NewPool, PoolRecords
  <2> QED BY <1>1, <1>2, <2>1 DEF AcquireBlockPool, Acquired, Goto
<1>3. CASE Save(t)
  <2>1. pool[t] \in 1..Len(pools)
    BY <1>3, HasPool DEF Save
  <2>2. /\ pc[t] = "save" /\ pc'[t] = "release" /\ UNCHANGED <<pool, freePools>>
        /\ file' = file (+) SetToBag(Unsaved(pools[pool[t]]))
    BY <1>1, <1>3 DEF Save, Goto
  <2>3. \/ pools[pool[t]].blocks = <<>> /\ pools' = pools
        \/ pools[pool[t]].blocks # <<>> /\ PoolSaved(pool[t])
    BY <1>3 DEF Save, PoolSaved
  <2> QED BY <2>1, <2>2, <2>3 DEF Saves
<1>4. CASE ReleaseBlockPool(t) BY <1>1, <1>4 DEF ReleaseBlockPool, Released, Goto
<1>5. CASE NewBlock(t)
  <2>1. pool[t] \in 1..Len(pools) /\ point[t] \in Blocks
    BY <1>5, HasPool, AtPoint DEF NewBlock
  <2> QED BY <1>1, <1>5, <2>1 DEF NewBlock, Added, BlockAdded, Goto
<1> USE DEF SameStore
<1>6. CASE TakeTile(t) BY <1>1, <1>6 DEF TakeTile, Goto
<1>7. CASE StartQuery(t) BY <1>1, <1>7 DEF StartQuery, Goto
<1>8. CASE LookAtKid(t) BY <1>1, <1>8 DEF LookAtKid
<1>9. CASE LookAtValues(t) BY <1>1, <1>9 DEF LookAtValues, Goto
<1>10. CASE Reuse(t) BY <1>1, <1>10 DEF Reuse, NextPoint, Goto
<1>11. CASE LookForRoot(t) BY <1>1, <1>11 DEF LookForRoot, Goto, Rest
<1>12. CASE LockRoot(t) BY <1>1, <1>12 DEF LockRoot, Goto, Rest
<1>13. CASE MakeRoot(t) BY <1>1, <1>13 DEF MakeRoot, Goto, Rest
<1>14. CASE FillRoot(t) BY <1>1, <1>14 DEF FillRoot, Goto, Rest
<1>15. CASE CompareSize(t)
  <2>1. pc[t] = "size" /\ pc'[t] \in {"area", "grow", "lockgrow"} /\ UNCHANGED store
    BY <1>1, <1>15 DEF CompareSize, Goto, Rest
  <2> QED BY <2>1
<1>16. CASE CompareArea(t)
  <2>1. pc[t] = "area" /\ pc'[t] \in {"enter", "widen", "lockwiden"} /\ UNCHANGED store
    BY <1>1, <1>16 DEF CompareArea, Goto, Rest
  <2> QED BY <2>1
<1>17. CASE Lock(t) BY <1>1, <1>17 DEF Lock, Unlocked, Goto, Rest
<1>18. CASE Grow(t) BY <1>1, <1>18 DEF Grow, Goto, Rest
<1>19. CASE Widen(t) BY <1>1, <1>19 DEF Widen, Goto, Rest
<1>20. CASE Enter(t) BY <1>1, <1>20 DEF Enter, Goto, Rest
<1>21. CASE Descend(t) BY <1>1, <1>21 DEF Descend, Goto, Rest
<1>22. CASE ReturnNode(t) BY <1>1, <1>22 DEF ReturnNode, Goto, Rest
<1>23. CASE InsertBlock(t) BY <1>1, <1>23 DEF InsertBlock, NextPoint, Goto, Rest
<1> HIDE DEF SameStore, IInv
<1> QED
  BY <1>2, <1>3, <1>4, <1>5, <1>6, <1>7, <1>8, <1>9, <1>10, <1>11, <1>12, <1>13, <1>14, <1>15,
    <1>16, <1>17, <1>18, <1>19, <1>20, <1>21, <1>22, <1>23 DEF Step

LEMMA OwnersKept ==
  ASSUME OwnersInv, NEW t \in Threads, Alone(t), Len(pools') = Len(pools), pool' = pool,
         freePools' = freePools, pc[t] \notin {"idle", "acquire"}, pc'[t] \notin {"idle", "acquire"},
         \A u \in Threads : pc'[u] = "release" => AllSaved(pools'[pool[u]]),
         \A i \in 1..Len(freePools) : AllSaved(pools'[freePools[i]])
  PROVE  OwnersInv'
<1>1. \A u \in Threads : u # t => pc'[u] = pc[u]
  BY DEF Alone
<1>2. \A u \in Threads : pc'[u] \in {"idle", "acquire"} <=> pc[u] \in {"idle", "acquire"}
  BY <1>1
<1>3. ASSUME NEW u \in Threads
      PROVE  /\ pool'[u] <= Len(pools') /\ (pool'[u] = 0 <=> pc'[u] \in {"idle", "acquire"})
             /\ \A i \in 1..Len(freePools') : freePools'[i] # pool'[u]
             /\ pc'[u] = "release" => AllSaved(pools'[pool'[u]])
  <2>1. /\ pool[u] <= Len(pools) /\ (pool[u] = 0 <=> pc[u] \in {"idle", "acquire"})
        /\ \A i \in 1..Len(freePools) : freePools[i] # pool[u]
    BY DEF OwnersInv
  <2>2. (pool[u] = 0) <=> (pc'[u] \in {"idle", "acquire"})
    BY <1>2, <2>1
  <2> QED BY <2>1, <2>2
<1>4. \A i \in 1..Len(freePools') : freePools'[i] <= Len(pools') /\ AllSaved(pools'[freePools'[i]])
  BY DEF OwnersInv
<1>5. /\ \A u, v \in Threads : u # v /\ pool'[u] # 0 => pool'[u] # pool'[v]
      /\ \A i, j \in 1..Len(freePools') : freePools'[i] = freePools'[j] => i = j
      /\ \A i \in 1..Len(pools') : \/ \E u \in Threads : pool'[u] = i
                                   \/ \E j \in 1..Len(freePools') : freePools'[j] = i
  BY DEF OwnersInv
<1> QED
  BY <1>3, <1>4, <1>5 DEF OwnersInv

LEMMA OwnersStep ==
  ASSUME IInv, NEW t \in Threads, Step(t)
  PROVE  OwnersInv'
<1> USE DEF IInv
<1>1. /\ Alone(t) /\ pc \in [Threads -> Labels] /\ pool \in [Threads -> Nat] /\ pools \in Seq(PoolRecords)
      /\ freePools \in Seq(Nat \ {0}) /\ Len(pools) \in Nat /\ Len(freePools) \in Nat
  BY StepAlone, ElementFacts DEF Typed
<1>2. CASE SameStore(t)
  BY <1>1, <1>2 DEF SameStore, store, OwnersInv, Alone
<1>3. CASE Added(t)
  <2>1. /\ Len(pools') = Len(pools) /\ \A j \in 1..Len(pools) : j # pool[t] => pools'[j] = pools[j]
    BY <1>3, NewPooled DEF Added
  <2>2. pool' = pool /\ freePools' = freePools /\ pc[t] = "judge" /\ pc'[t] = "root"
    BY <1>3 DEF Added
  <2>3. ASSUME NEW u \in Threads, pc'[u] = "release" PROVE AllSaved(pools'[pool[u]])
    <3>1. u # t /\ pc[u] = "release"
      BY <1>1, <2>2, <2>3 DEF Alone
    <3>2. pool[u] \in 1..Len(pools) /\ pool[u] # pool[t]
      BY <3>1, HasPool DEF OwnersInv
    <3> QED BY <2>1, <3>1, <3>2 DEF OwnersInv
  <2>4. ASSUME NEW i \in 1..Len(freePools) PROVE AllSaved(pools'[freePools[i]])
    <3>1. freePools[i] \in 1..Len(pools)
      <4>1. freePools[i] \in Nat \ {0} /\ freePools[i] <= Len(pools)
        BY <1>1, ElementFacts DEF OwnersInv
      <4> QED BY <1>1, <4>1
    <3> QED BY <2>1, <3>1 DEF OwnersInv
  <2>5. /\ Len(pools') = Len(pools) /\ pool' = pool /\ freePools' = freePools
        /\ pc[t] \notin {"idle", "acquire"} /\ pc'[t] \notin {"idle", "acquire"}
    BY <2>1, <2>2
  <2> QED BY <1>1, <2>3, <2>4, <2>5, OwnersKept
<1>4. CASE Saves(t)
  <2>1. /\ Len(pools') = Len(pools) /\ \A j \in 1..Len(pools) : j # pool[t] => pools'[j] = pools[j]
        /\ AllSaved(pools'[pool[t]])
    <3>1. CASE pools[pool[t]].blocks = <<>> /\ pools' = pools
      BY <3>1 DEF AllSaved
    <3>2. CASE pools[pool[t]].blocks # <<>> /\ PoolSaved(pool[t])
      <4>1. /\ Len(pools') = Len(pools) /\ \A j \in 1..Len(pools) : j # pool[t] => pools'[j] = pools[j]
            /\ pools'[pool[t]].blocks = pools[pool[t]].blocks
            /\ pools'[pool[t]].savedHead = HeadOf(pools[pool[t]]) - 1
            /\ pools'[pool[t]].nextUnsaved = NextFree(pools[pool[t]])
        BY <1>4, <3>2, NewSaved DEF Saves
      <4> QED BY <4>1 DEF AllSaved, HeadOf, NextFree
    <3> QED BY <1>4, <3>1, <3>2 DEF Saves
  <2>2. pool' = pool /\ freePools' = freePools /\ pc[t] = "save" /\ pc'[t] = "release"
    BY <1>4 DEF Saves
  <2>3. ASSUME NEW u \in Threads, pc'[u] = "release" PROVE AllSaved(pools'[pool[u]])
    <3>1. CASE u = t
      BY <2>1, <3>1
    <3>2. CASE u # t
      <4>1. pc[u] = "release"
        BY <1>1, <2>3, <3>2 DEF Alone
      <4>2. pool[u] \in 1..Len(pools) /\ pool[u] # pool[t]
        BY <2>2, <3>2, <4>1, HasPool DEF OwnersInv
      <4> QED BY <2>1, <4>1, <4>2 DEF OwnersInv
    <3> QED BY <3>1, <3>2
  <2>4. ASSUME NEW i \in 1..Len(freePools) PROVE AllSaved(pools'[freePools[i]])
    <3>1. freePools[i] \in 1..Len(pools)
      <4>1. freePools[i] \in Nat \ {0} /\ freePools[i] <= Len(pools)
        BY <1>1, ElementFacts DEF OwnersInv
      <4> QED BY <1>1, <4>1
    <3> QED BY <2>1, <3>1 DEF OwnersInv
  <2>5. /\ Len(pools') = Len(pools) /\ pool' = pool /\ freePools' = freePools
        /\ pc[t] \notin {"idle", "acquire"} /\ pc'[t] \notin {"idle", "acquire"}
    BY <2>1, <2>2
  <2> QED BY <1>1, <2>3, <2>4, <2>5, OwnersKept
<1>5. CASE Released(t)
  <2>1. pc[t] = "release" /\ pc'[t] = "idle" /\ pools' = pools /\ pool'[t] = 0
    BY <1>1, <1>5 DEF Released
  <2>2. pool[t] \in 1..Len(pools) /\ AllSaved(pools[pool[t]]) /\ pool[t] \in Nat \ {0} /\ pool[t] <= Len(pools)
    BY <1>1, <2>1, HasPool DEF OwnersInv
  <2> DEFINE m == Len(freePools)
  <2>3. /\ Len(freePools') = m + 1 /\ freePools'[m + 1] = pool[t]
        /\ \A i \in 1..m : freePools'[i] = freePools[i]
    BY <1>1, <1>5, <2>2, AppendFacts DEF Released
  <2>4. \A i \in 1..m + 1 : i \in 1..m \/ i = m + 1
    BY <1>1
  <2>5. m \in Nat /\ \A i \in 1..m : i \in 1..m + 1
    BY <1>1
  <2> HIDE DEF m
  <2>6. \A u \in Threads : u # t => pool'[u] = pool[u] /\ pc'[u] = pc[u]
    BY <1>1 DEF Alone
  <2>7. \A u \in Threads : u # t /\ pool[u] # 0 => pool[u] # pool[t]
    BY DEF OwnersInv
  <2>8. \A u \in Threads : \A i \in 1..m : freePools[i] # pool[u] /\ freePools[i] # 0
    BY <1>1, ElementFacts DEF OwnersInv, m
  <2>9. ASSUME NEW u \in Threads PROVE \A i \in 1..m + 1 : freePools'[i] # pool'[u]
    <3>1. CASE u = t
      BY <2>1, <2>2, <2>3, <2>4, <2>8, <3>1
    <3>2. CASE u # t
      BY <2>2, <2>3, <2>4, <2>6, <2>7, <2>8, <3>2
    <3> QED BY <3>1, <3>2
  <2>10. ASSUME NEW u \in Threads
         PROVE  /\ pool'[u] <= Len(pools) /\ (pool'[u] = 0 <=> pc'[u] \in {"idle", "acquire"})
                /\ pc'[u] = "release" => AllSaved(pools[pool'[u]])
    <3>1. CASE u = t
      BY <1>1, <2>1, <3>1
    <3>2. CASE u # t
      BY <2>6, <3>2 DEF OwnersInv
    <3> QED BY <3>1, <3>2
  <2>11. \A u, v \in Threads : u # v /\ pool'[u] # 0 => pool'[u] # pool'[v]
    BY <2>1, <2>6 DEF OwnersInv
  <2>12. \A i \in 1..m + 1 : freePools'[i] <= Len(pools) /\ AllSaved(pools[freePools'[i]])
    BY <2>2, <2>3, <2>4 DEF OwnersInv, m
  <2>13. \A i, j \in 1..m + 1 : freePools'[i] = freePools'[j] => i = j
    <3>1. \A i, j \in 1..m : freePools[i] = freePools[j] => i = j
      BY DEF OwnersInv, m
    <3> QED BY <2>3, <2>4, <2>8, <3>1
  <2>14. ASSUME NEW i \in 1..Len(pools)
         PROVE  (\E u \in Threads : pool'[u] = i) \/ (\E j \in 1..m + 1 : freePools'[j] = i)
    <3>1. CASE \E j \in 1..m : freePools[j] = i
      BY <2>3, <2>5, <3>1
    <3>2. CASE \E u \in Threads : pool[u] = i
      <4>1. CASE pool[t] = i
        <5>1. m + 1 \in 1..m + 1
          BY <2>5
        <5> QED BY <2>3, <4>1, <5>1
      <4>2. CASE pool[t] # i
        BY <2>6, <3>2, <4>2
      <4> QED BY <4>1, <4>2
    <3> QED BY <3>1, <3>2 DEF OwnersInv, m
  <2> QED BY <2>1, <2>3, <2>9, <2>10, <2>11, <2>12, <2>13, <2>14 DEF OwnersInv
<1>6. CASE Acquired(t) /\ freePools = <<>>
  <2> DEFINE n == Len(pools)
  <2>1. /\ pc[t] = "acquire" /\ pc'[t] = "query" /\ freePools' = freePools /\ pool'[t] = n + 1
        /\ freePools = <<>> /\ pools' = Append(pools, NewPool)
    BY <1>1, <1>6 DEF Acquired
  <2>2. NewPool \in PoolRecords
    BY DEF NewPool, PoolRecords
  <2>3. /\ Len(pools') = n + 1 /\ \A i \in 1..n : pools'[i] = pools[i]
    BY <1>1, <2>1, <2>2, AppendFacts
  <2>4. n \in Nat /\ \A i \in 1..n + 1 : i \in 1..n \/ i = n + 1
    BY <1>1
  <2>5. \A u \in Threads : u # t => pool'[u] = pool[u] /\ pc'[u] = pc[u]
    BY <1>1 DEF Alone
  <2>6. \A u \in Threads : pool[u] <= n /\ pool[u] \in Nat
    BY <1>1 DEF OwnersInv
  <2>7. Len(freePools) = 0
    BY <2>1
  <2> HIDE DEF n
  <2>8. ASSUME NEW u \in Threads
        PROVE  /\ pool'[u] <= n + 1 /\ (pool'[u] = 0 <=> pc'[u] \in {"idle", "acquire"})
               /\ pc'[u] = "release" => AllSaved(pools'[pool'[u]])
    <3>1. CASE u = t
      BY <2>1, <2>4, <3>1
    <3>2. CASE u # t
      <4>1. pool'[u] = pool[u] /\ pc'[u] = pc[u] /\ (pool[u] = 0 <=> pc[u] \in {"idle", "acquire"})
        BY <2>5, <3>2 DEF OwnersInv
      <4>2. pool[u] <= n + 1
        BY <2>4, <2>6
      <4>3. pc[u] = "release" => pool[u] \in 1..n /\ AllSaved(pools[pool[u]])
        BY HasPool DEF OwnersInv, n
      <4> QED BY <2>3, <4>1, <4>2, <4>3
    <3> QED BY <3>1, <3>2
  <2>9. \A u, v \in Threads : u # v /\ pool'[u] # 0 => pool'[u] # pool'[v]
    <3>1. \A u \in Threads : pool[u] # n + 1
      BY <2>4, <2>6
    <3>2. \A u, v \in Threads : u # v /\ pool[u] # 0 => pool[u] # pool[v]
      BY DEF OwnersInv
    <3> QED BY <2>1, <2>5, <3>1, <3>2
  <2>10. ASSUME NEW i \in 1..n + 1 PROVE \E u \in Threads : pool'[u] = i
    <3>1. CASE i = n + 1
      BY <2>1, <3>1
    <3>2. CASE i \in 1..n
      <4>1. pool[t] = 0 /\ i # 0
        BY <1>6, <2>4, <3>2 DEF Acquired
      <4>2. PICK u \in Threads : pool[u] = i
        BY <2>7, <3>2 DEF OwnersInv, n
      <4> QED BY <2>5, <4>1, <4>2
    <3> QED BY <2>4, <3>1, <3>2
  <2>11. \A i \in 1..Len(freePools') : FALSE
    BY <2>1, <2>7
  <2> QED BY <2>3, <2>8, <2>9, <2>10, <2>11 DEF OwnersInv
<1>7. CASE Acquired(t) /\ freePools # <<>>
  <2> DEFINE m == Len(freePools)
             new == freePools[m]
  <2>1. /\ pc[t] = "acquire" /\ pc'[t] = "query" /\ pools' = pools
        /\ freePools' = Front(freePools) /\ pool' = [pool EXCEPT ![t] = Last(freePools)]
    BY <1>7 DEF Acquired
  <2>2. /\ m \in Nat \ {0} /\ new \in Nat \ {0} /\ Last(freePools) = new
        /\ Len(freePools') = m - 1 /\ \A i \in 1..m - 1 : freePools'[i] = freePools[i]
    <3> DEFINE S == Nat \ {0}
    <3>1. freePools \in Seq(S) /\ freePools # <<>>
      BY <1>1, <1>7
    <3> HIDE DEF S
    <3>2. /\ m \in Nat \ {0} /\ new \in S /\ Last(freePools) = new
          /\ Len(Front(freePools)) = m - 1 /\ \A i \in 1..m - 1 : Front(freePools)[i] = freePools[i]
      BY <3>1, FrontFacts
    <3> HIDE DEF m, new
    <3> QED BY <2>1, <3>2 DEF S
  <2>3. pool'[t] = new
    BY <1>1, <2>1, <2>2
  <2>4. /\ m \in 1..m /\ \A i \in 1..m - 1 : i \in 1..m /\ i # m
        /\ \A i \in 1..m : i = m \/ i \in 1..m - 1
    <3>1. m \in Nat \ {0}
      BY <2>2
    <3> HIDE DEF m
    <3> QED BY <3>1
  <2>5. \A u \in Threads : u # t => pool'[u] = pool[u] /\ pc'[u] = pc[u]
    BY <1>1 DEF Alone
  <2>6. new <= Len(pools) /\ (\A u \in Threads : new # pool[u])
        /\ \A i \in 1..m - 1 : freePools[i] # new
    BY <2>4 DEF OwnersInv
  <2> HIDE DEF m, new
  <2>7. ASSUME NEW u \in Threads
        PROVE  /\ pool'[u] <= Len(pools) /\ (pool'[u] = 0 <=> pc'[u] \in {"idle", "acquire"})
               /\ pc'[u] = "release" => AllSaved(pools[pool'[u]])
    <3>1. CASE u = t
      BY <2>1, <2>2, <2>3, <2>6, <3>1
    <3>2. CASE u # t
      BY <2>5, <3>2 DEF OwnersInv
    <3> QED BY <3>1, <3>2
  <2>8. \A u, v \in Threads : u # v /\ pool'[u] # 0 => pool'[u] # pool'[v]
    BY <2>2, <2>3, <2>5, <2>6 DEF OwnersInv
  <2>9. \A u \in Threads : \A i \in 1..m - 1 : freePools'[i] # pool'[u]
    <3>1. \A u \in Threads : \A i \in 1..m : freePools[i] # pool[u]
      BY DEF OwnersInv, m
    <3> QED BY <2>2, <2>3, <2>4, <2>5, <2>6, <3>1
  <2>10. \A i \in 1..m - 1 : freePools'[i] <= Len(pools) /\ AllSaved(pools[freePools'[i]])
    BY <2>2, <2>4 DEF OwnersInv, m
  <2>11. \A i, j \in 1..m - 1 : freePools'[i] = freePools'[j] => i = j
    BY <2>2, <2>4 DEF OwnersInv, m
  <2>12. ASSUME NEW i \in 1..Len(pools)
         PROVE  (\E u \in Threads : pool'[u] = i) \/ (\E j \in 1..m - 1 : freePools'[j] = i)
    <3>1. CASE \E u \in Threads : pool[u] = i
      <4>1. pool[t] = 0 /\ i # 0
        BY <1>1, <1>7 DEF Acquired
      <4> QED BY <2>5, <3>1, <4>1
    <3>2. CASE \E j \in 1..m : freePools[j] = i
      BY <2>2, <2>3, <2>4, <3>2 DEF new
    <3> QED BY <3>1, <3>2 DEF OwnersInv, m
  <2> QED BY <2>1, <2>2, <2>7, <2>8, <2>9, <2>10, <2>11, <2>12 DEF OwnersInv
<1> QED
  BY <1>2, <1>3, <1>4, <1>5, <1>6, <1>7, StoreSteps

-----------------------------------------------------------------------------
(* The file.                                                               *)

(* What Save writes are the samples from Saved on.                         *)
LEMMA UnsavedFacts ==
  ASSUME NEW p \in PoolRecords, p.nextUnsaved <= UnitSize
  PROVE  Unsaved(p) = {p.blocks[k] : k \in Saved(p) + 1..Len(p.blocks)}
<1> DEFINE U == UnitSize
           L == Len(p.blocks)
           sh == p.savedHead
           nu == p.nextUnsaved
           H == HeadOf(p)
           at(u, i) == U * (u - 1) + i + 1
<1>1. U \in Nat /\ U > 0 /\ sh \in Nat /\ nu \in Nat /\ nu <= U /\ L \in Nat /\ H \in Nat
  BY TileIdsAssumption, UnitFacts DEF PoolRecords
<1>2. NextFree(p) = L - U * (H - 1) /\ Saved(p) = U * sh + nu
  BY DEF NextFree, Saved
<1>3. L > 0 => NextFree(p) \in 1..U
  BY UnitFacts
<1>4. L = 0 => H = 0
  BY UnitFacts
<1>5. ASSUME NEW u \in sh + 1..H, NEW i \in ToSave(p, u)
      PROVE  at(u, i) \in Saved(p) + 1..L
  <2>1. /\ i \in 0..U - 1 /\ (u - 1 = sh => nu <= i) /\ (u = H => i < NextFree(p))
        /\ u \in Nat /\ u >= sh + 1 /\ u <= H
    BY <1>1 DEF ToSave
  <2>2. L > 0 /\ i \in Nat /\ i < U
    BY <1>1, <1>4, <2>1
  <2> HIDE DEF U, L, sh, nu, H
  <2>3. U * (u - 1) \in Nat /\ U * sh \in Nat /\ U * (H - 1) \in Nat
    <3>1. \A x \in Nat : U * x \in Nat
      BY <1>1
    <3>2. u - 1 \in Nat /\ H - 1 \in Nat
      BY <1>1, <2>1
    <3> QED BY <1>1, <3>1, <3>2
  <2>4. U * (u - 1) + i + 1 >= U * sh + nu + 1
    <3>1. CASE u - 1 = sh
      BY <1>1, <2>1, <2>2, <2>3, <3>1
    <3>2. CASE u - 1 # sh
      <4>1. u - 1 >= sh + 1 /\ u - 1 - sh - 1 \in Nat
        BY <1>1, <2>1, <3>2
      <4>2. U * (u - 1) >= U * (sh + 1)
        <5>1. \A d \in Nat : U * ((sh + 1) + d) = U * (sh + 1) + U * d /\ U * d >= 0
          BY <1>1
        <5>2. u - 1 = (sh + 1) + (u - 1 - sh - 1)
          BY <1>1, <2>1
        <5>3. U * (sh + 1) \in Int /\ U * (u - 1 - sh - 1) \in Int
          BY <1>1, <4>1
        <5> QED BY <2>3, <4>1, <5>1, <5>2, <5>3
      <4>3. U * (sh + 1) = U * sh + U
        BY <1>1
      <4> QED BY <1>1, <2>2, <2>3, <4>2, <4>3
    <3> QED BY <3>1, <3>2
  <2>5. U * (u - 1) + i + 1 <= L
    <3>1. CASE u = H
      <4>1. i < L - U * (H - 1)
        BY <1>2, <2>1, <3>1
      <4> QED BY <1>1, <2>2, <2>3, <3>1, <4>1
    <3>2. CASE u # H
      <4>1. H - 1 - u \in Nat
        BY <1>1, <2>1, <3>2
      <4>2. U * (H - 1) >= U * u
        <5>1. \A d \in Nat : U * (u + d) = U * u + U * d /\ U * d >= 0
          BY <1>1, <2>1
        <5>2. H - 1 = u + (H - 1 - u)
          BY <1>1, <2>1
        <5>3. U * u \in Int /\ U * (H - 1 - u) \in Int
          BY <1>1, <2>1, <4>1
        <5> QED BY <2>3, <4>1, <5>1, <5>2, <5>3
      <4>3. U * u = U * (u - 1) + U
        BY <1>1, <2>1
      <4>4. L - U * (H - 1) \in 1..U
        BY <1>2, <1>3, <2>2
      <4>5. L > U * (H - 1)
        BY <1>1, <2>3, <4>4
      <4> QED BY <1>1, <2>2, <2>3, <4>2, <4>3, <4>5
    <3> QED BY <3>1, <3>2
  <2> QED BY <1>1, <1>2, <2>1, <2>2, <2>3, <2>4, <2>5
<1>6. ASSUME NEW k \in Saved(p) + 1..L
      PROVE  \E u \in sh + 1..H : \E i \in ToSave(p, u) : k = at(u, i)
  <2> DEFINE q == (k - 1) \div U
             i == (k - 1) % U
  <2>1. U * sh \in Nat
    BY <1>1
  <2> HIDE DEF U, L, sh, nu, H
  <2>2. k \in Nat /\ k - 1 \in Nat /\ k - 1 >= U * sh + nu /\ k <= L /\ L > 0
    BY <1>1, <1>2, <2>1
  <2>3. q \in Nat /\ i \in 0..U - 1 /\ k - 1 = U * q + i
    BY <1>1, <2>2
  <2> HIDE DEF q, i
  <2>4. U * q \in Nat /\ U * (H - 1) \in Int /\ U * H \in Int /\ U * (H - 1) = U * H - U
    BY <1>1, <2>3
  <2>5. L - U * (H - 1) \in 1..U /\ L - U * (H - 1) = NextFree(p)
    BY <1>2, <1>3, <2>2
  <2>6. q >= sh
    <3> SUFFICES ASSUME q < sh PROVE FALSE
      BY <1>1, <2>3
    <3>1. sh - q - 1 \in Nat
      BY <1>1, <2>3
    <3>2. U * sh >= U * (q + 1)
      <4>1. \A d \in Nat : U * ((q + 1) + d) = U * (q + 1) + U * d /\ U * d >= 0
        BY <1>1, <2>3
      <4>2. sh = (q + 1) + (sh - q - 1)
        BY <1>1, <2>3
      <4>3. U * (q + 1) \in Int /\ U * (sh - q - 1) \in Int
        BY <1>1, <2>3, <3>1
      <4> QED BY <2>1, <3>1, <4>1, <4>2, <4>3
    <3>3. U * (q + 1) = U * q + U
      BY <1>1, <2>3
    <3> QED BY <1>1, <2>1, <2>2, <2>3, <2>4, <3>2, <3>3
  <2>7. q + 1 <= H
    <3> SUFFICES ASSUME q >= H PROVE FALSE
      BY <1>1, <2>3
    <3>1. q - H \in Nat
      BY <1>1, <2>3
    <3>2. U * q >= U * H
      <4>1. \A d \in Nat : U * (H + d) = U * H + U * d /\ U * d >= 0
        BY <1>1
      <4>2. q = H + (q - H)
        BY <1>1, <2>3
      <4>3. U * H \in Int /\ U * (q - H) \in Int
        BY <1>1, <3>1
      <4> QED BY <2>4, <3>1, <4>1, <4>2, <4>3
    <3>3. L <= U * H
      BY <1>1, <2>4, <2>5
    <3> QED BY <1>1, <2>2, <2>3, <2>4, <3>2, <3>3
  <2>8. q + 1 \in sh + 1..H /\ (q + 1) - 1 = q
    BY <1>1, <2>3, <2>6, <2>7
  <2>9. q = sh => nu <= i
    BY <1>1, <2>1, <2>2, <2>3, <2>4
  <2>10. q + 1 = H => i < NextFree(p)
    <3>1. q + 1 = H => q = H - 1
      BY <1>1, <2>3
    <3>2. q = H - 1 => i < L - U * (H - 1)
      BY <1>1, <2>2, <2>3, <2>4
    <3> QED BY <2>5, <3>1, <3>2
  <2>11. i \in ToSave(p, q + 1)
    BY <2>3, <2>8, <2>9, <2>10 DEF ToSave, U, sh, nu, H
  <2>12. k = at(q + 1, i)
    BY <1>1, <2>2, <2>3, <2>4, <2>8
  <2> HIDE DEF at
  <2> QED BY <2>8, <2>11, <2>12
<1>7. Unsaved(p) = UNION {{p.blocks[at(u, i)] : i \in ToSave(p, u)} : u \in sh + 1..H}
  BY DEF Unsaved
<1> HIDE DEF U, L, sh, nu, H, at
<1>8. Unsaved(p) = {p.blocks[k] : k \in Saved(p) + 1..L}
  BY <1>5, <1>6, <1>7
<1> QED
  BY <1>8 DEF L

LEMMA SavedTyped ==
  ASSUME NEW p \in PoolRecords
  PROVE  Saved(p) \in Nat /\ Len(p.blocks) \in Nat
<1>1. \A x \in Nat : UnitSize * x \in Nat
  BY TileIdsAssumption
<1>2. p.savedHead \in Nat /\ p.nextUnsaved \in Nat /\ Len(p.blocks) \in Nat
  BY UnitFacts DEF PoolRecords
<1>3. UnitSize * p.savedHead \in Nat
  BY <1>1, <1>2
<1> QED
  BY <1>2, <1>3 DEF Saved

(* In a pool that is saved all of its samples are.                         *)
LEMMA SavedAll ==
  ASSUME NEW p \in PoolRecords, p.nextUnsaved <= UnitSize, Saved(p) <= Len(p.blocks), AllSaved(p)
  PROVE  Saved(p) = Len(p.blocks)
<1>1. CASE p.blocks = <<>>
  BY <1>1, SavedTyped, UnitFacts
<1>2. CASE p.blocks # <<>>
  BY <1>2, UnitFacts DEF Saved, AllSaved
<1> QED
  BY <1>1, <1>2

LEMMA BagFacts ==
  ASSUME NEW f, NEW S, DOMAIN f \cap S = {}, \A b \in DOMAIN f : f[b] = 1
  PROVE  /\ DOMAIN (f (+) SetToBag(S)) = DOMAIN f \cup S
         /\ \A b \in DOMAIN f \cup S : (f (+) SetToBag(S))[b] = 1
BY DEF (+), SetToBag

(* Where samples are, and how many of a pool are saved.                    *)
Filing(ps, i) == {ps[i].blocks[k] : k \in 1..Saved(ps[i])}

LEMMA FileStep ==
  ASSUME IInv, NEW t \in Threads, Step(t)
  PROVE  FileInv'
<1> USE DEF IInv
<1>1. /\ pools \in Seq(PoolRecords) /\ Len(pools) \in Nat
      /\ \A i \in 1..Len(pools) : /\ pools[i] \in PoolRecords /\ pools[i].nextUnsaved <= UnitSize
                                  /\ Saved(pools[i]) \in Nat /\ Len(pools[i].blocks) \in Nat
                                  /\ Saved(pools[i]) <= Len(pools[i].blocks)
  BY ElementFacts, SavedTyped DEF Typed, FileInv
<1>2. DOMAIN file = UNION {Filing(pools, i) : i \in 1..Len(pools)}
  BY DEF FileInv, Filing
<1>3. \A i, j \in 1..Len(pools) :
        \A k \in 1..Len(pools[i].blocks) : \A m \in 1..Len(pools[j].blocks) :
          pools[i].blocks[k] = pools[j].blocks[m] => i = j /\ k = m
  BY DEF FileInv
<1>4. \A b \in DOMAIN file : file[b] = 1
  BY DEF FileInv
<1>5. CASE UNCHANGED <<pools, file>>
  BY <1>5 DEF FileInv, Saved
<1>6. CASE Acquired(t) /\ pools' = Append(pools, NewPool)
  <2> DEFINE n == Len(pools)
  <2>1. file' = file
    BY <1>6 DEF Acquired
  <2>2. NewPool \in PoolRecords /\ NewPool.blocks = <<>> /\ Saved(NewPool) = 0 /\ NewPool.nextUnsaved = 0
        /\ Len(NewPool.blocks) = 0
    BY TileIdsAssumption DEF NewPool, PoolRecords, Saved
  <2>3. Len(pools') = n + 1 /\ (\A i \in 1..n : pools'[i] = pools[i]) /\ pools'[n + 1] = NewPool
    BY <1>1, <1>6, <2>2, AppendFacts
  <2>4. \A i \in 1..n + 1 : i \in 1..n \/ i = n + 1
    BY <1>1
  <2>5. \A i \in 1..n : i \in 1..n + 1
    BY <1>1
  <2> HIDE DEF n
  <2>6. \A i \in 1..n : Filing(pools', i) = Filing(pools, i)
    BY <2>3 DEF Filing, Saved
  <2>7. Filing(pools', n + 1) = {}
    BY <2>2, <2>3 DEF Filing, Saved
  <2>8. DOMAIN file' = UNION {Filing(pools', i) : i \in 1..n + 1}
    BY <1>2, <2>1, <2>4, <2>5, <2>6, <2>7 DEF n
  <2>9. \A i, j \in 1..n + 1 :
        \A k \in 1..Len(pools'[i].blocks) : \A m \in 1..Len(pools'[j].blocks) :
          pools'[i].blocks[k] = pools'[j].blocks[m] => i = j /\ k = m
    <3>1. \A k \in 1..Len(pools'[n + 1].blocks) : FALSE
      BY <2>2, <2>3
    <3> QED BY <1>3, <2>3, <2>4, <3>1 DEF n
  <2>10. \A i \in 1..n + 1 : pools'[i].nextUnsaved <= UnitSize /\ Saved(pools'[i]) <= Len(pools'[i].blocks)
    BY <1>1, <2>2, <2>3, <2>4, TileIdsAssumption DEF n
  <2> QED BY <1>4, <2>1, <2>3, <2>8, <2>9, <2>10 DEF FileInv, Filing
<1>7. CASE Added(t)
  <2> DEFINE a == pool[t]
             l == Len(pools[a].blocks)
  <2>1. /\ a \in 1..Len(pools) /\ point[t] \in Blocks /\ BlockAdded(a, point[t]) /\ file' = file
        /\ pc[t] = "judge"
    BY <1>7 DEF Added
  <2>2. /\ Len(pools') = Len(pools)
        /\ \A j \in 1..Len(pools) : j # a => pools'[j] = pools[j]
        /\ pools'[a].savedHead = pools[a].savedHead /\ pools'[a].nextUnsaved = pools[a].nextUnsaved
        /\ Len(pools'[a].blocks) = l + 1
        /\ \A k \in 1..l : pools'[a].blocks[k] = pools[a].blocks[k]
        /\ pools'[a].blocks[l + 1] = point[t]
    BY <2>1, NewPooled
  <2> HIDE DEF a, l
  <2>3. l \in Nat /\ Saved(pools'[a]) = Saved(pools[a]) /\ Saved(pools[a]) <= l /\ Saved(pools[a]) \in Nat
    BY <1>1, <2>1, <2>2 DEF l, Saved
  <2>4. \A k \in 1..l + 1 : k \in 1..l \/ k = l + 1
    BY <2>3
  <2>5. \A i \in 1..Len(pools) : \A k \in 1..Len(pools[i].blocks) : pools[i].blocks[k] # point[t]
    <3> SUFFICES ASSUME NEW i \in 1..Len(pools), NEW k \in 1..Len(pools[i].blocks),
                        pools[i].blocks[k] = point[t]
                 PROVE  FALSE
      OBVIOUS
    <3>1. point[t] \in Pooled
      BY DEF Pooled, BlocksIn
    <3>2. point[t].pass = pass /\ point[t].n \in Int
      BY <2>1, AtPoint
    <3> QED BY <2>1, <3>1, <3>2 DEF PooledInv, Judged, InGetNode, Unlocked
  <2>6. \A i \in 1..Len(pools) : Filing(pools', i) = Filing(pools, i)
    <3>1. \A i \in 1..Len(pools) : i # a => Filing(pools', i) = Filing(pools, i)
      BY <2>2 DEF Filing, Saved
    <3>2. \A k \in 1..Saved(pools[a]) : k \in 1..l
      BY <2>3
    <3>3. Filing(pools', a) = Filing(pools, a)
      BY <2>2, <2>3, <3>2 DEF Filing
    <3> QED BY <3>1, <3>3
  <2>7. ASSUME NEW i \in 1..Len(pools), NEW j \in 1..Len(pools),
               NEW k \in 1..Len(pools'[i].blocks), NEW m \in 1..Len(pools'[j].blocks),
               pools'[i].blocks[k] = pools'[j].blocks[m]
        PROVE  i = j /\ k = m
    <3>1. \A h \in 1..Len(pools) : \A o \in 1..Len(pools'[h].blocks) :
             \/ h = a /\ o = l + 1 /\ pools'[h].blocks[o] = point[t]
             \/ o \in 1..Len(pools[h].blocks) /\ pools'[h].blocks[o] = pools[h].blocks[o]
      BY <2>2, <2>4 DEF l
    <3>2. CASE i = a /\ k = l + 1 /\ pools'[i].blocks[k] = point[t]
      BY <2>5, <2>7, <3>1, <3>2
    <3>3. CASE k \in 1..Len(pools[i].blocks) /\ pools'[i].blocks[k] = pools[i].blocks[k]
      <4>1. m \in 1..Len(pools[j].blocks) /\ pools'[j].blocks[m] = pools[j].blocks[m]
        BY <2>5, <2>7, <3>1, <3>3
      <4>2. pools[i].blocks[k] = pools[j].blocks[m]
        BY <2>7, <3>3, <4>1
      <4> QED BY <1>3, <3>3, <4>1, <4>2
    <3> QED BY <3>1, <3>2, <3>3
  <2>8. ASSUME NEW i \in 1..Len(pools)
        PROVE  pools'[i].nextUnsaved <= UnitSize /\ Saved(pools'[i]) <= Len(pools'[i].blocks)
    <3>1. CASE i = a
      BY <1>1, <2>1, <2>2, <2>3, <3>1
    <3>2. CASE i # a
      BY <1>1, <2>2, <3>2
    <3> QED BY <3>1, <3>2
  <2>9. DOMAIN file' = UNION {Filing(pools', i) : i \in 1..Len(pools)}
    BY <1>2, <2>1, <2>6
  <2> QED BY <1>4, <2>1, <2>2, <2>7, <2>8, <2>9 DEF FileInv, Filing
<1>8. CASE Saves(t)
  <2> DEFINE a == pool[t]
             p == pools[a]
             rest == {p.blocks[k] : k \in Saved(p) + 1..Len(p.blocks)}
  <2>1. a \in 1..Len(pools) /\ p \in PoolRecords /\ Saved(p) \in Nat /\ Len(p.blocks) \in Nat
        /\ Saved(p) <= Len(p.blocks) /\ p.nextUnsaved <= UnitSize
    BY <1>1, <1>8 DEF Saves
  <2>2. file' = file (+) SetToBag(rest)
    BY <1>8, <2>1, UnsavedFacts DEF Saves
  <2>3. /\ Len(pools') = Len(pools)
        /\ \A j \in 1..Len(pools) : j # a => pools'[j] = pools[j]
        /\ pools'[a].blocks = p.blocks /\ Saved(pools'[a]) = Len(p.blocks)
        /\ pools'[a].nextUnsaved <= UnitSize
    <3>1. CASE p.blocks = <<>> /\ pools' = pools
      <4>1. Len(p.blocks) = 0
        BY <2>1, <3>1, UnitFacts
      <4>2. Saved(p) = 0
        BY <2>1, <4>1
      <4> HIDE DEF p
      <4>3. p = pools[a]
        BY DEF p
      <4> QED BY <2>1, <3>1, <4>1, <4>2, <4>3
    <3>2. CASE p.blocks # <<>> /\ PoolSaved(a)
      <4>1. /\ Len(pools') = Len(pools)
            /\ \A j \in 1..Len(pools) : j # a => pools'[j] = pools[j]
            /\ pools'[a].blocks = p.blocks
            /\ pools'[a].savedHead = HeadOf(p) - 1 /\ pools'[a].nextUnsaved = NextFree(p)
        BY <2>1, <3>2, NewSaved
      <4>2. /\ NextFree(p) \in 1..UnitSize
            /\ UnitSize * (HeadOf(p) - 1) + NextFree(p) = Len(p.blocks)
        BY <2>1, <3>2, UnitFacts
      <4>3. Saved(pools'[a]) = UnitSize * (HeadOf(p) - 1) + NextFree(p)
        BY <4>1 DEF Saved
      <4> HIDE DEF p
      <4> QED BY <4>1, <4>2, <4>3, TileIdsAssumption
    <3> QED BY <1>8, <3>1, <3>2 DEF Saves
  <2>4. \A i \in 1..Len(pools) : i # a => Filing(pools', i) = Filing(pools, i)
    BY <2>3 DEF Filing, Saved
  <2>5. Filing(pools', a) = Filing(pools, a) \cup rest
    <3>1. Filing(pools', a) = {p.blocks[k] : k \in 1..Len(p.blocks)}
      BY <2>3 DEF Filing, Saved
    <3>2. /\ \A k \in 1..Len(p.blocks) : k \in 1..Saved(p) \/ k \in Saved(p) + 1..Len(p.blocks)
          /\ \A k \in 1..Saved(p) : k \in 1..Len(p.blocks)
          /\ \A k \in Saved(p) + 1..Len(p.blocks) : k \in 1..Len(p.blocks)
      BY <2>1
    <3>3. Filing(pools, a) = {p.blocks[k] : k \in 1..Saved(p)}
      BY DEF Filing
    <3> HIDE DEF p, a
    <3> QED BY <3>1, <3>2, <3>3
  <2>6. DOMAIN file \cap rest = {}
    <3> SUFFICES ASSUME NEW i \in 1..Len(pools), NEW k \in 1..Saved(pools[i]),
                        NEW m \in Saved(p) + 1..Len(p.blocks), pools[i].blocks[k] = p.blocks[m]
                 PROVE  FALSE
      BY <1>2 DEF Filing
    <3>1. k \in 1..Len(pools[i].blocks) /\ m \in 1..Len(p.blocks)
      BY <1>1, <2>1
    <3>2. i = a /\ k = m
      BY <1>3, <2>1, <3>1
    <3>3. k <= Saved(p) /\ m > Saved(p)
      BY <1>1, <2>1, <3>2
    <3> QED BY <2>1, <3>2, <3>3
  <2> HIDE DEF rest
  <2>7. DOMAIN file' = DOMAIN file \cup rest /\ \A b \in DOMAIN file' : file'[b] = 1
    BY <1>4, <2>2, <2>6, BagFacts
  <2>8. DOMAIN file' = UNION {Filing(pools', i) : i \in 1..Len(pools)}
    BY <1>2, <2>1, <2>4, <2>5, <2>7
  <2>9. ASSUME NEW i \in 1..Len(pools)
        PROVE  /\ pools'[i].nextUnsaved <= UnitSize /\ Saved(pools'[i]) <= Len(pools'[i].blocks)
               /\ pools'[i].blocks = pools[i].blocks
    <3>1. CASE i = a
      BY <2>1, <2>3, <3>1
    <3>2. CASE i # a
      BY <1>1, <2>3, <3>2
    <3> QED BY <3>1, <3>2
  <2>10. \A i, j \in 1..Len(pools) :
        \A k \in 1..Len(pools'[i].blocks) : \A m \in 1..Len(pools'[j].blocks) :
          pools'[i].blocks[k] = pools'[j].blocks[m] => i = j /\ k = m
    <3> SUFFICES ASSUME NEW i \in 1..Len(pools), NEW j \in 1..Len(pools),
                        NEW k \in 1..Len(pools'[i].blocks), NEW m \in 1..Len(pools'[j].blocks),
                        pools'[i].blocks[k] = pools'[j].blocks[m]
                 PROVE  i = j /\ k = m
      OBVIOUS
    <3>1. pools'[i].blocks = pools[i].blocks /\ pools'[j].blocks = pools[j].blocks
      BY <2>9
    <3>2. /\ k \in 1..Len(pools[i].blocks) /\ m \in 1..Len(pools[j].blocks)
          /\ pools[i].blocks[k] = pools[j].blocks[m]
      BY <3>1
    <3> QED BY <1>3, <3>2, ZenonT(30)
  <2>11. Len(pools') = Len(pools)
    BY <2>3
  <2> HIDE DEF p, a
  <2> QED BY <2>7, <2>8, <2>9, <2>10, <2>11 DEF FileInv, Filing
<1>9. Released(t) \/ SameStore(t) => UNCHANGED <<pools, file>>
  BY DEF Released, SameStore, store
<1>10. Acquired(t) => UNCHANGED <<pools, file>> \/ pools' = Append(pools, NewPool)
  BY DEF Acquired
<1> QED
  BY <1>5, <1>6, <1>7, <1>8, <1>9, <1>10, StoreSteps

-----------------------------------------------------------------------------
(* Samples and the points they are of.                                     *)

LEMMA PooledSame ==
  ASSUME IInv, NEW t \in Threads, Step(t)
  PROVE  \/ Added(t) /\ Pooled' = Pooled \cup {point[t]}
         \/ ~Added(t) /\ Pooled' = Pooled
<1> USE DEF IInv
<1>1. pools \in Seq(PoolRecords) /\ Len(pools) \in Nat
  BY ElementFacts DEF Typed
<1>2. Pooled = UNION {{pools[i].blocks[k] : k \in 1..Len(pools[i].blocks)} : i \in 1..Len(pools)}
      /\ Pooled' = UNION {{pools'[i].blocks[k] : k \in 1..Len(pools'[i].blocks)} : i \in 1..Len(pools')}
  BY DEF Pooled, BlocksIn
<1>9. /\ \A i \in 1..Len(pools) : \A k \in 1..Len(pools[i].blocks) : pools[i].blocks[k] \in Pooled
      /\ \A i \in 1..Len(pools') : \A k \in 1..Len(pools'[i].blocks) : pools'[i].blocks[k] \in Pooled'
  BY <1>2
<1>3. ASSUME pools' = pools PROVE Pooled' = Pooled
  BY <1>2, <1>3
<1>4. CASE Added(t)
  <2> DEFINE a == pool[t]
             l == Len(pools[a].blocks)
  <2>1. a \in 1..Len(pools) /\ point[t] \in Blocks /\ BlockAdded(a, point[t])
    BY <1>4 DEF Added
  <2>2. /\ Len(pools') = Len(pools)
        /\ \A j \in 1..Len(pools) : j # a => pools'[j] = pools[j]
        /\ Len(pools'[a].blocks) = l + 1
        /\ \A k \in 1..l : pools'[a].blocks[k] = pools[a].blocks[k]
        /\ pools'[a].blocks[l + 1] = point[t]
    BY <2>1, NewPooled
  <2>3. l \in Nat
    BY <2>1, ElementFacts, UnitFacts DEF Typed
  <2> HIDE DEF a, l
  <2>4. /\ \A k \in 1..l + 1 : k \in 1..l \/ k = l + 1
        /\ l + 1 \in 1..l + 1 /\ \A k \in 1..l : k \in 1..l + 1
    BY <2>3
  <2>5. ASSUME NEW b \in Pooled' PROVE b \in Pooled \cup {point[t]}
    <3>0. PICK i \in 1..Len(pools) : \E k \in 1..Len(pools'[i].blocks) : b = pools'[i].blocks[k]
      BY <1>2, <2>2
    <3>1. PICK k \in 1..Len(pools'[i].blocks) : b = pools'[i].blocks[k]
      BY <3>0
    <3>2. \/ k = l + 1 /\ b = point[t]
          \/ k \in 1..Len(pools[i].blocks) /\ pools'[i].blocks[k] = pools[i].blocks[k]
      <4>1. CASE i = a
        BY <2>2, <2>4, <3>1, <4>1 DEF l
      <4>2. CASE i # a
        BY <2>2, <3>1, <4>2
      <4> QED BY <4>1, <4>2
    <3> QED BY <1>2, <3>1, <3>2
  <2>6. ASSUME NEW b \in Pooled PROVE b \in Pooled'
    <3>0. PICK i \in 1..Len(pools) : \E k \in 1..Len(pools[i].blocks) : b = pools[i].blocks[k]
      BY <1>2
    <3>1. PICK k \in 1..Len(pools[i].blocks) : b = pools[i].blocks[k]
      BY <3>0
    <3>2. k \in 1..Len(pools'[i].blocks) /\ pools'[i].blocks[k] = pools[i].blocks[k]
      <4>1. CASE i = a
        BY <2>2, <2>4, <3>1, <4>1 DEF l
      <4>2. CASE i # a
        BY <2>2, <3>1, <4>2
      <4> QED BY <4>1, <4>2
    <3> QED BY <1>9, <2>2, <3>1, <3>2
  <2>7. point[t] \in Pooled'
    BY <1>2, <2>1, <2>2, <2>4
  <2> QED BY <1>4, <2>5, <2>6, <2>7
<1>5. CASE Saves(t) /\ ~Added(t)
  <2>1. \/ pools' = pools
        \/ PoolSaved(pool[t]) /\ pools[pool[t]].blocks # <<>> /\ pool[t] \in 1..Len(pools)
    BY <1>5 DEF Saves
  <2>2. CASE PoolSaved(pool[t]) /\ pools[pool[t]].blocks # <<>> /\ pool[t] \in 1..Len(pools)
    <3>1. /\ Len(pools') = Len(pools)
          /\ \A j \in 1..Len(pools) : j # pool[t] => pools'[j] = pools[j]
          /\ pools'[pool[t]].blocks = pools[pool[t]].blocks
      BY <2>2, NewSaved
    <3>2. \A j \in 1..Len(pools) : pools'[j].blocks = pools[j].blocks
      BY <3>1
    <3> QED BY <1>2, <1>5, <3>1, <3>2
  <2> QED BY <1>3, <1>5, <2>1, <2>2
<1>6. CASE Acquired(t) /\ pools' = Append(pools, NewPool)
  <2> DEFINE n == Len(pools)
  <2>1. NewPool \in PoolRecords /\ NewPool.blocks = <<>> /\ Len(NewPool.blocks) = 0
    BY DEF NewPool, PoolRecords
  <2>2. Len(pools') = n + 1 /\ (\A i \in 1..n : pools'[i] = pools[i]) /\ pools'[n + 1] = NewPool
    BY <1>1, <1>6, <2>1, AppendFacts
  <2>3. /\ \A i \in 1..n + 1 : i \in 1..n \/ i = n + 1
        /\ \A i \in 1..n : i \in 1..n + 1
    BY <1>1
  <2>4. ~Added(t)
    BY <1>6 DEF Acquired, Added
  <2> HIDE DEF n
  <2>5. ASSUME NEW b \in Pooled' PROVE b \in Pooled
    <3>0. PICK i \in 1..n + 1 : \E k \in 1..Len(pools'[i].blocks) : b = pools'[i].blocks[k]
      BY <1>2, <2>2
    <3>1. PICK k \in 1..Len(pools'[i].blocks) : b = pools'[i].blocks[k]
      BY <3>0
    <3>2. i # n + 1
      BY <2>1, <2>2, <3>1
    <3> QED BY <1>2, <2>2, <2>3, <3>1, <3>2 DEF n
  <2>6. ASSUME NEW b \in Pooled PROVE b \in Pooled'
    <3>0. PICK i \in 1..n : \E k \in 1..Len(pools[i].blocks) : b = pools[i].blocks[k]
      BY <1>2 DEF n
    <3>1. PICK k \in 1..Len(pools[i].blocks) : b = pools[i].blocks[k]
      BY <3>0
    <3>2. i \in 1..Len(pools') /\ pools'[i] = pools[i]
      BY <2>2, <2>3
    <3> QED BY <1>9, <3>1, <3>2
  <2> QED BY <2>4, <2>5, <2>6
<1>7. CASE (Released(t) \/ SameStore(t)) /\ ~Added(t)
  BY <1>3, <1>7 DEF Released, SameStore, store
<1>8. CASE Acquired(t) /\ pools' = pools
  BY <1>3, <1>8 DEF Acquired, Added
<1> QED
  BY <1>4, <1>5, <1>6, <1>7, <1>8, StoreSteps DEF Acquired

(* A step that goes to no other point, and adds no sample.                 *)
OnWay(t) == /\ UNCHANGED <<left, point>> /\ pc[t] # "idle" /\ pc'[t] # "idle"
            /\ pc[t] \in Judged <=> pc'[t] \in Judged
            /\ pc'[t] \in InGetNode <=> pc[t] \in InGetNode

LEMMA PointSteps ==
  ASSUME IInv, NEW t \in Threads, Step(t)
  PROVE  \/ TakeTile(t) \/ Reuse(t) \/ InsertBlock(t) \/ NewBlock(t) \/ OnWay(t)
         \/ ReleaseBlockPool(t)
<1>1. pc \in [Threads -> Labels]
  BY DEF IInv, Typed
<1> DEFINE Out == {"idle", "acquire", "query", "search", "judge"}
<1>2. ASSUME UNCHANGED <<left, point>>, pc[t] \in InGetNode, pc'[t] \in InGetNode PROVE OnWay(t)
  BY <1>2 DEF OnWay, InGetNode, Judged, Unlocked
<1>3. ASSUME UNCHANGED <<left, point>>, pc[t] \in Out \ {"idle"}, pc'[t] \in Out \ {"idle"} PROVE OnWay(t)
  BY <1>3 DEF OnWay, InGetNode, Judged, Unlocked
<1>4. CASE AcquireBlockPool(t) BY <1>1, <1>3, <1>4 DEF AcquireBlockPool, Goto
<1>5. CASE Save(t) BY <1>1, <1>5 DEF Save, Goto, OnWay, InGetNode, Judged, Unlocked
<1>7. CASE StartQuery(t) BY <1>1, <1>3, <1>7 DEF StartQuery, Goto
<1>8. CASE LookAtKid(t) BY <1>1, <1>3, <1>8 DEF LookAtKid
<1>9. CASE LookAtValues(t) BY <1>1, <1>3, <1>9 DEF LookAtValues, Goto
<1>10. ASSUME UNCHANGED <<point>>, Rest(t), pc[t] \in InGetNode, pc'[t] \in InGetNode PROVE OnWay(t)
  BY <1>2, <1>10 DEF Rest
<1>11. CASE LookForRoot(t) BY <1>1, <1>10, <1>11 DEF LookForRoot, Goto, InGetNode
<1>12. CASE LockRoot(t) BY <1>1, <1>10, <1>12 DEF LockRoot, Goto, InGetNode
<1>13. CASE MakeRoot(t) BY <1>1, <1>10, <1>13 DEF MakeRoot, Goto, InGetNode
<1>14. CASE FillRoot(t) BY <1>1, <1>10, <1>14 DEF FillRoot, Goto, InGetNode
<1>15. CASE CompareSize(t)
  <2>1. pc[t] = "size" /\ pc'[t] \in {"area", "grow", "lockgrow"} /\ UNCHANGED point /\ Rest(t)
    BY <1>1, <1>15 DEF CompareSize, Goto
  <2> QED BY <1>10, <2>1 DEF InGetNode, Unlocked
<1>16. CASE CompareArea(t)
  <2>1. pc[t] = "area" /\ pc'[t] \in {"enter", "widen", "lockwiden"} /\ UNCHANGED point /\ Rest(t)
    BY <1>1, <1>16 DEF CompareArea, Goto
  <2> QED BY <1>10, <2>1 DEF InGetNode, Unlocked
<1>17. CASE Lock(t) BY <1>1, <1>10, <1>17 DEF Lock, Unlocked, Goto, InGetNode
<1>18. CASE Grow(t) BY <1>1, <1>10, <1>18 DEF Grow, Goto, InGetNode
<1>19. CASE Widen(t) BY <1>1, <1>10, <1>19 DEF Widen, Goto, InGetNode
<1>20. CASE Enter(t) BY <1>1, <1>10, <1>20 DEF Enter, Goto, InGetNode
<1>21. CASE Descend(t)
  <2>1. pc[t] = "descend" /\ pc'[t] \in {"descend", "lockkid"} /\ UNCHANGED point /\ Rest(t)
    BY <1>1, <1>21 DEF Descend, Goto
  <2> QED BY <1>10, <2>1 DEF InGetNode, Unlocked
<1>22. CASE ReturnNode(t) BY <1>1, <1>10, <1>22 DEF ReturnNode, Goto, InGetNode
<1> QED
  BY <1>4, <1>5, <1>7, <1>8, <1>9, <1>11, <1>12, <1>13, <1>14, <1>15, <1>16, <1>17, <1>18,
    <1>19, <1>20, <1>21, <1>22 DEF Step

LEMMA PooledStep ==
  ASSUME IInv, NEW t \in Threads, Step(t)
  PROVE  PooledInv'
<1> USE DEF IInv
<1> DEFINE Told(b, u) == pc[u] # "idle" /\ b.pass = pass /\ b.tile = point[u].tile =>
                           b.n < point[u].n \/ (b.n = point[u].n /\ pc[u] \in Judged)
           Toldn(b, u) == pc'[u] # "idle" /\ b.pass = pass /\ b.tile = point'[u].tile =>
                           b.n < point'[u].n \/ (b.n = point'[u].n /\ pc'[u] \in Judged)
<1>1. Alone(t) /\ \A u \in Threads : u # t => pc'[u] = pc[u] /\ point'[u] = point[u]
  BY StepAlone DEF Alone
<1>2. pass' = pass /\ render' = render /\ left' \subseteq left
  <2>1. TakeTile(t) => left' \subseteq left
    BY DEF TakeTile
  <2>2. ~TakeTile(t) => left' = left
    BY PointSteps DEF Reuse, InsertBlock, NewBlock, Rest, OnWay, ReleaseBlockPool
  <2> QED BY <1>1, <2>1, <2>2 DEF Alone
<1>3. \A b \in Pooled : /\ b \in BlocksOf(render) /\ b.pass <= pass /\ (b.pass = pass => b.tile \notin left)
                        /\ \A u \in Threads : Told(b, u)
  BY DEF PooledInv
<1>4. \A b \in Pooled : b.n \in Int
  BY <1>3, BlockFacts DEF Typed
<1>5. ASSUME Pooled' = Pooled, \A b \in Pooled : Toldn(b, t),
             pc'[t] \in InGetNode => point'[t] \in Pooled
      PROVE  PooledInv'
  <2>1. \A b \in Pooled : \A u \in Threads : Toldn(b, u)
    BY <1>1, <1>3, <1>5
  <2>2. \A u \in Threads : pc'[u] \in InGetNode => point'[u] \in Pooled
    BY <1>1, <1>5 DEF PooledInv
  <2> QED BY <1>2, <1>3, <1>5, <2>1, <2>2 DEF PooledInv
<1>6. CASE TakeTile(t)
  <2> DEFINE c == CHOOSE m \in left : \A n \in left : m <= n
             b0 == [render |-> render, pass |-> pass, tile |-> c, n |-> 1]
  <2>1. left # {} /\ left \subseteq Tiles(render, pass) /\ left \in SUBSET Nat
    BY <1>6 DEF TakeTile, Typed, Tiles
  <2>2. \E m \in left : \A n \in left : m <= n
    BY <2>1, Least
  <2>3. c \in left /\ c = Min(left)
    BY <2>2 DEF Min
  <2>4. point'[t] = b0 /\ pc'[t] = "acquire" /\ b0.tile = c
    BY <1>6, <2>3 DEF TakeTile, Typed, Goto
  <2> HIDE DEF b0, c
  <2>5. \A b \in Pooled : Toldn(b, t)
    BY <1>3, <2>3, <2>4
  <2>6. pc'[t] \notin InGetNode
    BY <2>4 DEF InGetNode, Unlocked
  <2>7. ~Added(t)
    BY <1>6 DEF TakeTile, Added
  <2> QED BY <1>5, <2>5, <2>6, <2>7, PooledSame
<1>7. CASE Reuse(t) \/ InsertBlock(t)
  <2>1. pc[t] # "idle" /\ NextPoint(t) /\ pc[t] \in {"judge", "insert"}
    BY <1>7 DEF Reuse, InsertBlock
  <2>2. /\ point'[t].tile = point[t].tile /\ point[t].n \in Int
        /\ \/ pc'[t] = "query" /\ point'[t].n = point[t].n + 1
           \/ pc'[t] = "save" /\ point'[t] = point[t]
    BY <2>1, NextPointStays, AtPoint
  <2>3. ASSUME NEW b \in Pooled, pc'[t] # "idle", b.pass = pass, b.tile = point'[t].tile
        PROVE  b.n < point'[t].n \/ (b.n = point'[t].n /\ pc'[t] \in Judged)
    <3>1. b.n < point[t].n \/ b.n = point[t].n
      BY <1>3, <2>1, <2>2, <2>3
    <3>2. "save" \in Judged
      BY DEF Judged
    <3>3. b.n \in Int
      BY <1>4
    <3> QED BY <2>2, <3>1, <3>2, <3>3
  <2>4. pc'[t] \notin InGetNode
    BY <2>2 DEF InGetNode, Unlocked
  <2>5. ~Added(t)
    BY <2>2 DEF Added
  <2> QED BY <1>5, <2>3, <2>4, <2>5, PooledSame
<1>8. CASE Added(t)
  <2>1. /\ Pooled' = Pooled \cup {point[t]} /\ pc[t] = "judge" /\ pc'[t] = "root" /\ point' = point
    BY <1>8, PooledSame DEF Added
  <2>2. /\ point[t] \in BlocksOf(render) /\ point[t].pass = pass /\ point[t].tile \notin left
        /\ pass \in Int
    BY <2>1 DEF PointsInv, Typed, Passes
  <2>3. "root" \in Judged
    BY DEF Judged, InGetNode
  <2>4. \A b \in Pooled : \A u \in Threads : Toldn(b, u)
    <3>1. \A b \in Pooled : Toldn(b, t)
      BY <1>3, <2>1, <2>3
    <3> QED BY <1>1, <1>3, <3>1
  <2>5. \A u \in Threads : Toldn(point[t], u)
    <3>1. Toldn(point[t], t)
      BY <2>1, <2>3
    <3>2. \A u \in Threads : u # t /\ pc[u] # "idle" => point[u].tile # point[t].tile
      BY <2>1 DEF PointsInv
    <3> QED BY <1>1, <3>1, <3>2
  <2>6. \A u \in Threads : pc'[u] \in InGetNode => point'[u] \in Pooled'
    BY <1>1, <2>1 DEF PooledInv
  <2>7. \A b \in Pooled' : /\ b \in BlocksOf(render) /\ b.pass <= pass /\ (b.pass = pass => b.tile \notin left')
                           /\ \A u \in Threads : Toldn(b, u)
    BY <1>2, <1>3, <2>1, <2>2, <2>4, <2>5
  <2> QED BY <1>2, <2>6, <2>7 DEF PooledInv
<1>9. CASE OnWay(t) /\ ~Added(t)
  <2>1. \A b \in Pooled : Toldn(b, t)
    BY <1>3, <1>9 DEF OnWay
  <2>2. pc'[t] \in InGetNode => point'[t] \in Pooled
    BY <1>9 DEF OnWay, PooledInv
  <2> QED BY <1>5, <1>9, <2>1, <2>2, PooledSame
<1>10. CASE ReleaseBlockPool(t)
  <2>0. pc'[t] = "idle" /\ UNCHANGED <<left, point>>
    BY <1>10 DEF ReleaseBlockPool, Goto, Typed
  <2>1. ~Added(t) /\ pc'[t] \notin InGetNode
    BY <2>0 DEF Added, InGetNode, Unlocked
  <2>2. \A b \in Pooled : Toldn(b, t)
    BY <2>0
  <2> QED BY <1>5, <2>1, <2>2, PooledSame
<1>11. NewBlock(t) => Added(t) \/ OnWay(t)
  <2> SUFFICES ASSUME NewBlock(t) PROVE Added(t)
    OBVIOUS
  <2>1. pc[t] = "judge" /\ pc'[t] = "root" /\ UNCHANGED <<pool, freePools, file, point>>
        /\ pools' = [pools EXCEPT ![pool[t]].blocks = Append(@, point[t])]
    BY DEF NewBlock, Goto, Typed
  <2> QED BY <2>1, HasPool, AtPoint DEF Added, BlockAdded
<1> QED
  BY <1>6, <1>7, <1>8, <1>9, <1>10, <1>11, PointSteps

-----------------------------------------------------------------------------
(* Which samples the nodes have.                                           *)

(* Nodes keep their samples, and new ones have none.                       *)
SameValues == /\ \A i \in 1..Len(nodes) : nodes'[i].values = nodes[i].values
              /\ \A i \in 1..Len(nodes') : i \in 1..Len(nodes) \/ nodes'[i].values = {}

LEMMA Inserts ==
  ASSUME IInv, NEW t \in Threads, InsertBlock(t)
  PROVE  /\ node[t] \in 1..Len(nodes) /\ nodes[node[t]].id = IdOf[point[t]]
         /\ point[t] \in Blocks /\ Len(nodes') = Len(nodes)
         /\ \A i \in 1..Len(nodes) : nodes'[i].id = nodes[i].id
         /\ \A i \in 1..Len(nodes) : i # node[t] => nodes'[i].values = nodes[i].values
         /\ nodes'[node[t]].values = nodes[node[t]].values \cup {point[t]}
<1> USE DEF IInv
<1>1. node[t] \in 1..Len(nodes) /\ nodes[node[t]].id = IdOf[point[t]] /\ point[t] \in Blocks
  BY AtPoint DEF InsertBlock, WayInv, Id
<1>2. ValueAdded(node[t], point[t])
  BY DEF InsertBlock, ValueAdded
<1> QED
  BY <1>1, <1>2, NewValue

LEMMA ValuesStep ==
  ASSUME IInv, NEW t \in Threads, Step(t)
  PROVE  InsertBlock(t) \/ SameValues
<1> USE DEF IInv
<1>1. Len(nodes) \in Nat /\ Alone(t)
  BY StepAlone, ElementFacts DEF Typed
<1>2. CASE SameTree(t)
  <2>1. pc[t] = "insert" => InsertBlock(t)
    BY DEF Step, TakeTile, AcquireBlockPool, Save, ReleaseBlockPool, StartQuery,
      LookAtKid, LookAtValues, Reuse, NewBlock, LookForRoot, LockRoot, MakeRoot, FillRoot,
      CompareSize, CompareArea, Lock, Unlocked, Grow, Widen, Enter, Descend, ReturnNode
  <2>2. nodes' = nodes => SameValues
    BY DEF SameValues
  <2> QED BY <1>2, <2>1, <2>2 DEF SameTree
<1>3. CASE MakeRoot(t)
  <2>1. nodes = <<>> /\ Len(nodes) = 0 /\ Len(nodes') = 1
    BY <1>1, <1>3, RootMade
  <2>2. nodes' = Append(nodes, [id |-> NoId, kids |-> NoKids, values |-> {}])
    BY <1>3 DEF MakeRoot
  <2>3. nodes'[1].values = {}
    BY <2>1, <2>2, NewNode, NoKidsFacts
  <2>4. \A i \in 1..1 : i = 1
    OBVIOUS
  <2> QED BY <2>1, <2>3, <2>4 DEF SameValues
<1>4. CASE FillRoot(t)
  <2>1. nodes'[1].values = {} /\ Len(nodes) = 1 /\ Len(nodes') = 1
    BY <1>1, <1>4, RootFilled
  <2>2. nodes = <<[id |-> NoId, kids |-> NoKids, values |-> {}]>>
    BY <1>4 DEF FillRoot, TreeInv, RootInv
  <2>3. nodes[1].values = {}
    BY <2>2
  <2>4. \A i \in 1..1 : i = 1
    OBVIOUS
  <2> QED BY <2>1, <2>3, <2>4 DEF SameValues
<1> DEFINE n == Len(nodes)
<1>5. \A i \in 1..n + 1 : i \in 1..n \/ i = n + 1
  BY <1>1
<1>6. CASE Rooted(t)
  <2>1. /\ Len(nodes') = n + 1 /\ root' = n + 1 /\ nodes'[root'].values = {} /\ Kept(n)
    BY <1>1, <1>6, RootGrown
  <2> QED BY <1>5, <2>1 DEF SameValues, Kept
<1>7. CASE Hung(t)
  <2>1. /\ Len(nodes') = n + 1 /\ nodes'[n + 1].values = {}
        /\ \A i \in 1..n : nodes'[i].values = nodes[i].values
    BY <1>1, <1>7, KidHung
  <2> QED BY <1>5, <2>1 DEF SameValues
<1> QED
  BY <1>2, <1>3, <1>4, <1>6, <1>7, TreeSteps

LEMMA TakenSame ==
  ASSUME SameValues, Len(nodes) \in Nat, Len(nodes') \in Nat, Len(nodes) <= Len(nodes')
  PROVE  Taken' = Taken
<1>1. \A i \in 1..Len(nodes) : i \in 1..Len(nodes')
  OBVIOUS
<1>2. /\ Taken = UNION {nodes[i].values : i \in 1..Len(nodes)}
      /\ Taken' = UNION {nodes'[i].values : i \in 1..Len(nodes')}
  BY DEF Taken
<1>3. ASSUME NEW b \in Taken' PROVE b \in Taken
  <2>1. PICK i \in 1..Len(nodes') : b \in nodes'[i].values
    BY <1>2
  <2>2. i \in 1..Len(nodes) /\ nodes'[i].values = nodes[i].values
    BY <2>1 DEF SameValues
  <2> QED BY <1>2, <2>1, <2>2
<1>4. ASSUME NEW b \in Taken PROVE b \in Taken'
  <2>1. PICK i \in 1..Len(nodes) : b \in nodes[i].values
    BY <1>2
  <2>2. i \in 1..Len(nodes') /\ nodes'[i].values = nodes[i].values
    BY <1>1, <2>1 DEF SameValues
  <2> QED BY <1>2, <2>1, <2>2
<1> QED
  BY <1>3, <1>4

LEMMA TakenMore ==
  ASSUME IInv, NEW t \in Threads, InsertBlock(t)
  PROVE  Taken' = Taken \cup {point[t]}
<1> DEFINE n == Len(nodes)
<1>1. /\ node[t] \in 1..n /\ Len(nodes') = n
      /\ \A i \in 1..n : i # node[t] => nodes'[i].values = nodes[i].values
      /\ nodes'[node[t]].values = nodes[node[t]].values \cup {point[t]}
  BY Inserts
<1>2. /\ Taken = UNION {nodes[i].values : i \in 1..n}
      /\ Taken' = UNION {nodes'[i].values : i \in 1..n}
  BY <1>1 DEF Taken
<1> HIDE DEF n
<1>3. ASSUME NEW b \in Taken' PROVE b \in Taken \cup {point[t]}
  <2>1. PICK i \in 1..n : b \in nodes'[i].values
    BY <1>2
  <2>2. b \in nodes[i].values \/ b = point[t]
    BY <1>1, <2>1
  <2> QED BY <1>2, <2>2
<1>4. ASSUME NEW b \in Taken \cup {point[t]} PROVE b \in Taken'
  <2>1. CASE b = point[t]
    BY <1>1, <1>2, <2>1
  <2>2. CASE b \in Taken
    <3>1. PICK i \in 1..n : b \in nodes[i].values
      BY <1>2, <2>2
    <3>2. b \in nodes'[i].values
      BY <1>1, <3>1
    <3> QED BY <1>2, <3>2
  <2> QED BY <2>1, <2>2
<1> QED
  BY <1>3, <1>4

LEMMA TakenStep ==
  ASSUME IInv, NEW t \in Threads, Step(t)
  PROVE  TakenInv'
<1> USE DEF IInv
<1> DEFINE Going(u) == pc[u] \in InGetNode
           Goingn(u) == pc'[u] \in InGetNode
<1>1. Alone(t) /\ \A u \in Threads : u # t => pc'[u] = pc[u] /\ point'[u] = point[u]
  BY StepAlone DEF Alone
<1>2. Taken = {b \in Pooled : \A u \in Threads : Going(u) => point[u] # b}
  BY DEF TakenInv
<1>3. WellFiled'
  <2> SUFFICES ASSUME NEW i \in 1..Len(nodes'), NEW b, b \in nodes'[i].values
               PROVE  nodes'[i].id = IdOf[b]
    BY DEF WellFiled
  <2>1. CASE i \in 1..Len(nodes) /\ b \in nodes[i].values
    <3>1. nodes[i].id = IdOf[b] /\ b \in Blocks
      BY <2>1, NodeFacts DEF TakenInv, WellFiled
    <3>2. nodes[i].id # NoId
      BY <3>1, IdFacts, IdsTyped
    <3> QED BY <2>1, <3>1, <3>2, IdsStay
  <2>2. CASE InsertBlock(t) /\ ~(i \in 1..Len(nodes) /\ b \in nodes[i].values)
    <3>0. /\ node[t] \in 1..Len(nodes) /\ nodes[node[t]].id = IdOf[point[t]]
          /\ Len(nodes') = Len(nodes) /\ \A j \in 1..Len(nodes) : nodes'[j].id = nodes[j].id
          /\ \A j \in 1..Len(nodes) : j # node[t] => nodes'[j].values = nodes[j].values
          /\ nodes'[node[t]].values = nodes[node[t]].values \cup {point[t]}
      BY <2>2, Inserts
    <3>4. i \in 1..Len(nodes) /\ b \notin nodes[i].values
      BY <2>2, <3>0
    <3>5. i = node[t]
      BY <3>0, <3>4
    <3>1. b = point[t]
      BY <3>0, <3>4, <3>5
    <3>2. nodes'[i].id = nodes[i].id /\ nodes[i].id = IdOf[b]
      BY <3>0, <3>1, <3>4, <3>5
    <3> QED BY <3>2
  <2> QED BY <2>1, <2>2, ValuesStep DEF SameValues
<1>4. ~InsertBlock(t) => Taken' = Taken
  BY ValuesStep, TakenSame, IdsStay
<1>5. CASE InsertBlock(t)
  <2>1. pc[t] = "insert" /\ pc'[t] \in {"query", "save"}
    BY <1>5, NextPointStays DEF InsertBlock
  <2>2. Going(t) /\ ~Goingn(t)
    BY <2>1 DEF InGetNode, Unlocked
  <2>3. Pooled' = Pooled
    BY <2>1, PooledSame DEF Added
  <2>4. point[t] \in Pooled
    BY <2>2 DEF PooledInv
  <2>5. \A u \in Threads : u # t /\ Going(u) => point[u] # point[t]
    <3>1. "idle" \notin InGetNode
      BY DEF InGetNode, Unlocked
    <3> QED BY <2>2, <3>1 DEF PointsInv
  <2>6. Taken' = {b \in Pooled : \A u \in Threads : Goingn(u) => point'[u] # b}
    BY <1>1, <1>2, <1>5, <2>2, <2>4, <2>5, TakenMore
  <2> QED BY <1>3, <2>3, <2>6 DEF TakenInv
<1>6. CASE Added(t)
  <2>1. /\ Pooled' = Pooled \cup {point[t]} /\ pc[t] = "judge" /\ pc'[t] = "root" /\ point' = point
    BY <1>6, PooledSame DEF Added
  <2>2. ~Going(t) /\ Goingn(t) /\ "judge" \notin Judged
    BY <2>1 DEF InGetNode, Unlocked, Judged
  <2>3. point[t] \notin Pooled
    <3>1. pc[t] # "idle" /\ point[t].pass = pass /\ point[t].n \in Int
      BY <2>1, AtPoint
    <3> QED BY <2>1, <2>2, <3>1 DEF PooledInv
  <2>4. Taken' = Taken
    BY <1>4, <2>1 DEF InsertBlock
  <2>5. Taken' = {b \in Pooled' : \A u \in Threads : Goingn(u) => point'[u] # b}
    BY <1>1, <1>2, <2>1, <2>2, <2>3, <2>4
  <2> QED BY <1>3, <2>5 DEF TakenInv
<1>7. CASE ~InsertBlock(t) /\ ~Added(t) /\ (Going(t) <=> Goingn(t)) /\ (Going(t) => point'[t] = point[t])
  <2>1. Pooled' = Pooled
    BY <1>7, PooledSame
  <2>2. Taken' = {b \in Pooled : \A u \in Threads : Goingn(u) => point'[u] # b}
    BY <1>1, <1>2, <1>4, <1>7
  <2> QED BY <1>3, <2>1, <2>2 DEF TakenInv
<1>8. TakeTile(t) => ~Going(t) /\ ~Goingn(t)
  BY DEF TakeTile, Goto, Typed, InGetNode, Unlocked
<1>9. Reuse(t) => ~Going(t) /\ ~Goingn(t)
  <2> SUFFICES ASSUME Reuse(t) PROVE ~Going(t) /\ ~Goingn(t)
    OBVIOUS
  <2>1. pc[t] = "judge" /\ pc'[t] \in {"query", "save"}
    BY NextPointStays DEF Reuse
  <2> QED BY <2>1 DEF InGetNode, Unlocked
<1>10. ReleaseBlockPool(t) => ~Going(t) /\ ~Goingn(t)
  BY DEF ReleaseBlockPool, Goto, Typed, InGetNode, Unlocked
<1>11. OnWay(t) => (Going(t) <=> Goingn(t)) /\ (Going(t) => point'[t] = point[t])
  BY DEF OnWay
<1>12. NewBlock(t) => Added(t)
  <2> SUFFICES ASSUME NewBlock(t) PROVE Added(t)
    OBVIOUS
  <2>1. pc[t] = "judge" /\ pc'[t] = "root" /\ UNCHANGED <<pool, freePools, file, point>>
        /\ pools' = [pools EXCEPT ![pool[t]].blocks = Append(@, point[t])]
    BY DEF NewBlock, Goto, Typed
  <2> QED BY <2>1, HasPool, AtPoint DEF Added, BlockAdded
<1> QED
  BY <1>5, <1>6, <1>7, <1>8, <1>9, <1>10, <1>11, <1>12, PointSteps

-----------------------------------------------------------------------------
(* The invariant, and what follows from it.                                *)

LEMMA NextPassStep ==
  ASSUME IInv, NextPass
  PROVE  IInv'
<1> USE DEF IInv
<1>1. /\ pass + 1 \in Passes(render) /\ pass' = pass + 1 /\ left' = Tiles(render, pass + 1)
      /\ render' = render /\ pc' = pc /\ point' = point /\ todo' = todo /\ found' = found
      /\ node' = node /\ root' = root /\ nodes' = nodes /\ treeMutex' = treeMutex
      /\ pools' = pools /\ freePools' = freePools /\ file' = file /\ pool' = pool
      /\ \A t \in Threads : pc[t] = "idle"
  BY DEF NextPass, tree, store
<1>2. "idle" \notin InGetNode
  BY DEF InGetNode, Unlocked
<1>3. Typed'
  BY <1>1 DEF Typed
<1>4. PointsInv'
  BY <1>1 DEF PointsInv
<1>5. LockInv'
  BY <1>1 DEF LockInv, LockIsGivenBack
<1>6. TreeInv'
  BY <1>1 DEF TreeInv, RootInv, BelowInv, KidsInv, TreeIsOne, Filled, RootId
<1>7. WayInv'
  BY <1>1 DEF WayInv, Filled, RootId, Id
<1>8. SearchInv'
  BY <1>1 DEF SearchInv
<1>9. OwnersInv' /\ FileInv'
  BY <1>1 DEF OwnersInv, FileInv
<1>10. Pooled' = Pooled /\ Taken' = Taken
  BY <1>1 DEF Pooled, Taken
<1>11. PooledInv'
  <2>1. ASSUME NEW b \in Pooled
        PROVE  b \in BlocksOf(render) /\ b.pass <= pass + 1 /\ b.pass # pass + 1
    <3>1. b \in BlocksOf(render) /\ b.pass <= pass
      BY DEF PooledInv
    <3>2. b.pass \in Int /\ pass \in Int
      BY <3>1, BlockFacts DEF Typed, Passes
    <3> QED BY <3>1, <3>2
  <2> QED BY <1>1, <1>2, <1>10, <2>1 DEF PooledInv
<1>12. TakenInv'
  BY <1>1, <1>2, <1>10 DEF TakenInv, WellFiled
<1> QED
  BY <1>3, <1>4, <1>5, <1>6, <1>7, <1>8, <1>9, <1>11, <1>12

LEMMA StutterStep ==
  ASSUME IInv, UNCHANGED vars
  PROVE  IInv'
<1> USE DEF IInv
<1>1. /\ render' = render /\ pc' = pc /\ point' = point /\ todo' = todo /\ found' = found
      /\ node' = node /\ root' = root /\ nodes' = nodes /\ treeMutex' = treeMutex
      /\ pools' = pools /\ freePools' = freePools /\ file' = file /\ pool' = pool
      /\ pass' = pass /\ left' = left
  BY DEF vars
<1>2. Typed' /\ PointsInv'
  BY <1>1 DEF Typed, PointsInv
<1>3. LockInv'
  BY <1>1 DEF LockInv, LockIsGivenBack
<1>4. TreeInv'
  BY <1>1 DEF TreeInv, RootInv, BelowInv, KidsInv, TreeIsOne, Filled, RootId
<1>5. WayInv'
  BY <1>1 DEF WayInv, Filled, RootId, Id
<1>6. SearchInv'
  BY <1>1 DEF SearchInv
<1>7. OwnersInv' /\ FileInv'
  BY <1>1 DEF OwnersInv, FileInv
<1>8. Pooled' = Pooled /\ Taken' = Taken
  BY <1>1 DEF Pooled, Taken
<1>9. PooledInv'
  BY <1>1, <1>8 DEF PooledInv
<1>10. TakenInv'
  BY <1>1, <1>8 DEF TakenInv, WellFiled
<1> QED
  BY <1>2, <1>3, <1>4, <1>5, <1>6, <1>7, <1>9, <1>10

LEMMA InitIInv ==
  ASSUME Init
  PROVE  IInv
<1>1. /\ render \in DOMAIN Renders /\ pass = 1 /\ left = Tiles(render, 1)
      /\ pc = [t \in Threads |-> "idle"] /\ point = [t \in Threads |-> NoPoint]
      /\ todo = [t \in Threads |-> <<>>] /\ found = [t \in Threads |-> {}]
      /\ node = [t \in Threads |-> 0] /\ pool = [t \in Threads |-> 0]
      /\ root = 0 /\ nodes = <<>> /\ treeMutex = NoThread
      /\ pools = <<>> /\ freePools = <<>> /\ file = EmptyBag
  BY DEF Init
<1>2. Len(nodes) = 0 /\ Len(pools) = 0 /\ Len(freePools) = 0 /\ \A i \in 1..0 : FALSE
  BY <1>1
<1>3. "idle" \notin InGetNode /\ "idle" \notin Judged /\ "idle" \in Labels
  BY DEF InGetNode, Judged, Unlocked, Labels
<1>4. Typed
  <2>1. 1 \in Passes(render)
    BY <1>1, WorkFacts DEF Passes
  <2> QED BY <1>1, <1>3, <2>1 DEF Typed
<1>5. PointsInv /\ LockInv
  BY <1>1 DEF PointsInv, LockInv, LockIsGivenBack
<1>6. TreeInv
  BY <1>1, <1>2 DEF TreeInv, RootInv, BelowInv, KidsInv, TreeIsOne
<1>7. WayInv /\ SearchInv
  BY <1>1 DEF WayInv, SearchInv
<1>8. OwnersInv
  BY <1>1, <1>2 DEF OwnersInv
<1>9. FileInv
  <2>1. DOMAIN file = {}
    BY <1>1 DEF EmptyBag, SetToBag
  <2> QED BY <1>2, <2>1 DEF FileInv
<1>10. Pooled = {} /\ Taken = {}
  BY <1>2 DEF Pooled, Taken
<1>11. PooledInv /\ TakenInv
  BY <1>1, <1>2, <1>3, <1>10 DEF PooledInv, TakenInv, WellFiled
<1> QED
  BY <1>4, <1>5, <1>6, <1>7, <1>8, <1>9, <1>11 DEF IInv

LEMMA NextIInv ==
  ASSUME IInv, Next
  PROVE  IInv'
<1>1. ASSUME NEW t \in Threads, Step(t) PROVE IInv'
  <2>1. Typed'
    BY <1>1, TypedPools, TypedSearch, TypedNode DEF Step
  <2> QED BY <1>1, <2>1, PointsStep, LockInvStep, TreeStep, WayStep, SearchStep, OwnersStep,
            FileStep, PooledStep, TakenStep DEF IInv
<1> QED
  BY <1>1, NextPassStep DEF Next

(* The way back is not longer than the tree is high.                       *)
LEMMA TodoShort ==
  ASSUME IInv, NEW t \in Threads
  PROVE  Len(todo[t]) <= MaxSize + 1
<1> USE DEF IInv
<1> DEFINE n == Len(todo[t])
<1>1. todo[t] \in Seq(Entries) /\ n \in Nat
  BY ElementFacts DEF Typed
<1>2. CASE n > 1
  <2>1. n \in 1..n
    BY <1>1, <1>2
  <2> DEFINE s == nodes[todo[t][n].node].id.size
  <2>2. nodes[todo[t][n].node].id \in Ids /\ s <= MaxSize + 1 - n
    BY <1>2, <2>1 DEF SearchInv
  <2>3. s \in 0..MaxSize
    BY <2>2, IdsTyped
  <2>4. s <= MaxSize + 1 - n
    BY <2>2
  <2> HIDE DEF s, n
  <2>5. n <= MaxSize + 1
    BY <1>1, <2>3, <2>4, MaxSizeAssumption
  <2> QED BY <2>5 DEF n
<1> QED
  BY <1>1, <1>2, MaxSizeAssumption

LEMMA AllFiled ==
  ASSUME IInv, \A t \in Threads : pc[t] = "idle"
  PROVE  /\ DOMAIN file = Taken
         /\ \A i \in 1..Len(pools) : AllSaved(pools[i])
<1> USE DEF IInv
<1>1. \A i \in 1..Len(pools) : AllSaved(pools[i]) /\ pools[i] \in PoolRecords
  <2> SUFFICES ASSUME NEW i \in 1..Len(pools) PROVE AllSaved(pools[i]) /\ pools[i] \in PoolRecords
    OBVIOUS
  <2>1. \A t \in Threads : pool[t] # i
    BY DEF OwnersInv
  <2>2. PICK j \in 1..Len(freePools) : freePools[j] = i
    BY <2>1 DEF OwnersInv
  <2> QED BY <2>2, ElementFacts DEF OwnersInv, Typed
<1>2. \A i \in 1..Len(pools) : Saved(pools[i]) = Len(pools[i].blocks)
  BY <1>1, SavedAll DEF FileInv
<1>3. DOMAIN file = Pooled
  <2>1. ASSUME NEW b \in DOMAIN file PROVE b \in Pooled
    BY <1>2, <2>1 DEF FileInv, Pooled, BlocksIn
  <2>2. ASSUME NEW b \in Pooled PROVE b \in DOMAIN file
    BY <1>2, <2>2 DEF FileInv, Pooled, BlocksIn
  <2> QED BY <2>1, <2>2
<1>4. "idle" \notin InGetNode
  BY DEF InGetNode, Unlocked
<1>5. Taken = Pooled
  BY <1>4 DEF TakenInv
<1> QED
  BY <1>1, <1>3, <1>5

LEMMA InvCacheInv ==
  ASSUME IInv, FindsInv
  PROVE  CacheInv
<1> USE DEF IInv
<1>1. TypeOK
  <2>1. /\ Len(nodes) \in Nat /\ Len(pools) \in Nat
        /\ \A t \in Threads : /\ node[t] \in 0..Len(nodes) /\ pool[t] \in 0..Len(pools)
                              /\ found[t] \subseteq Blocks
    BY ElementFacts DEF Typed, WayInv, OwnersInv
  <2>2. node \in [Threads -> 0..Len(nodes)] /\ pool \in [Threads -> 0..Len(pools)]
    BY <2>1 DEF Typed
  <2>3. \A i \in 1..Len(nodes) : nodes[i].values \subseteq Blocks
    BY NodeFacts
  <2> QED BY <2>1, <2>2, <2>3, TodoShort DEF TypeOK, Typed, TreeInv, RootInv, LockInv, OwnersInv
<1>2. TreeIsOne /\ WellFiled /\ LockIsGivenBack
  BY DEF TreeInv, TakenInv, LockInv
<1>3. SavedOnce
  BY AllFiled DEF SavedOnce, FileInv, BagToSet, AllSaved
<1>4. SearchesFind
  BY DEF SearchesFind, FindsInv, Finds
<1> QED
  BY <1>1, <1>2, <1>3, <1>4 DEF CacheInv

-----------------------------------------------------------------------------
(* What one thread takes.  A set that is right up to b has, of the samples *)
(* up to b, those that are not found in it; there is one for every b, and  *)
(* all such sets agree.                                                    *)

LEMMA Numbers ==
  ASSUME NEW r \in DOMAIN Renders, NEW b \in BlocksOf(r)
  PROVE  b.pass \in Nat /\ b.tile \in Nat /\ b.n \in Nat
BY BlockFacts DEF Passes, Tiles

LEMMA BeforeFacts ==
  ASSUME NEW r \in DOMAIN Renders, NEW a \in BlocksOf(r), NEW b \in BlocksOf(r), NEW c \in BlocksOf(r)
  PROVE  /\ ~Before(a, a)
         /\ Before(a, b) /\ Before(b, c) => Before(a, c)
BY Numbers DEF Before

LEMMA FirstBlock ==
  ASSUME NEW r \in DOMAIN Renders, NEW X \in SUBSET BlocksOf(r), X # {}
  PROVE  \E m \in X : \A x \in X : ~Before(x, m)
<1>1. PICK p \in {b.pass : b \in X} : \A q \in {b.pass : b \in X} : p <= q
  <2>1. {b.pass : b \in X} \in SUBSET Nat /\ {b.pass : b \in X} # {}
    BY Numbers
  <2> QED BY <2>1, Least
<1>2. PICK c \in {b.tile : b \in {b \in X : b.pass = p}} :
        \A d \in {b.tile : b \in {b \in X : b.pass = p}} : c <= d
  <2>1. {b.tile : b \in {b \in X : b.pass = p}} \in SUBSET Nat
        /\ {b.tile : b \in {b \in X : b.pass = p}} # {}
    BY <1>1, Numbers
  <2> QED BY <2>1, Least
<1>3. PICK n \in {b.n : b \in {b \in X : b.pass = p /\ b.tile = c}} :
        \A m \in {b.n : b \in {b \in X : b.pass = p /\ b.tile = c}} : n <= m
  <2>1. {b.n : b \in {b \in X : b.pass = p /\ b.tile = c}} \in SUBSET Nat
        /\ {b.n : b \in {b \in X : b.pass = p /\ b.tile = c}} # {}
    BY <1>2, Numbers
  <2> QED BY <2>1, Least
<1>4. PICK m \in X : m.pass = p /\ m.tile = c /\ m.n = n
  BY <1>3
<1>5. ASSUME NEW x \in X, Before(x, m) PROVE FALSE
  <2>1. x.pass \in Nat /\ x.tile \in Nat /\ x.n \in Nat /\ p \in Nat /\ c \in Nat /\ n \in Nat
    BY <1>4, Numbers
  <2>2. p <= x.pass
    BY <1>1
  <2>3. x.pass = p => c <= x.tile
    BY <1>2
  <2>4. x.pass = p /\ x.tile = c => n <= x.n
    BY <1>3
  <2> QED BY <1>4, <1>5, <2>1, <2>2, <2>3, <2>4 DEF Before
<1> QED
  BY <1>4, <1>5

UpTo(x, b) == x = b \/ Before(x, b)
RightAt(x, S) == x \in S <=> ~\E a \in S : Before(a, x) /\ Usable(a, x)
RightUpTo(r, b, S) == S \subseteq BlocksOf(r) /\ \A x \in BlocksOf(r) : UpTo(x, b) => RightAt(x, S)

LEMMA RightSetsAgree ==
  ASSUME NEW r \in DOMAIN Renders, NEW b \in BlocksOf(r), NEW c \in BlocksOf(r), NEW S, NEW T,
         RightUpTo(r, b, S), RightUpTo(r, c, T),
         NEW x \in BlocksOf(r), UpTo(x, b), UpTo(x, c)
  PROVE  x \in S <=> x \in T
<1> DEFINE X == {y \in BlocksOf(r) : UpTo(y, b) /\ UpTo(y, c) /\ ~(y \in S <=> y \in T)}
<1> SUFFICES ASSUME X # {} PROVE FALSE
  OBVIOUS
<1>1. PICK m \in X : \A y \in X : ~Before(y, m)
  BY FirstBlock
<1>2. \A a \in BlocksOf(r) : Before(a, m) => UpTo(a, b) /\ UpTo(a, c)
  BY <1>1, BeforeFacts DEF UpTo
<1>3. \A a \in BlocksOf(r) : Before(a, m) => (a \in S <=> a \in T)
  BY <1>1, <1>2
<1>4. RightAt(m, S) /\ RightAt(m, T) /\ S \subseteq BlocksOf(r) /\ T \subseteq BlocksOf(r)
  BY <1>1 DEF RightUpTo
<1>5. m \in S <=> m \in T
  BY <1>3, <1>4 DEF RightAt
<1> QED
  BY <1>1, <1>5

(* Put together from sets that are right up to each of its samples.        *)
Together(r, D) == {x \in D : \E S \in SUBSET BlocksOf(r) : RightUpTo(r, x, S) /\ x \in S}

LEMMA TogetherRight ==
  ASSUME NEW r \in DOMAIN Renders, NEW D \in SUBSET BlocksOf(r),
         \A x \in D : \A a \in BlocksOf(r) : Before(a, x) => a \in D,
         \A x \in D : \E S \in SUBSET BlocksOf(r) : RightUpTo(r, x, S),
         NEW x \in D
  PROVE  RightAt(x, Together(r, D))
<1>1. PICK S \in SUBSET BlocksOf(r) : RightUpTo(r, x, S)
  OBVIOUS
<1>2. ASSUME NEW a \in BlocksOf(r), UpTo(a, x)
      PROVE  a \in S <=> a \in Together(r, D)
  <2>1. a \in D
    BY <1>2 DEF UpTo
  <2>2. RightUpTo(r, a, S)
    BY <1>1, <1>2, BeforeFacts DEF RightUpTo, UpTo
  <2>3. ASSUME NEW T \in SUBSET BlocksOf(r), RightUpTo(r, a, T), a \in T PROVE a \in S
    BY <2>2, <2>3, RightSetsAgree DEF UpTo
  <2> QED BY <2>1, <2>2, <2>3 DEF Together
<1>3. RightAt(x, S) /\ x \in BlocksOf(r)
  BY <1>1 DEF RightUpTo, UpTo
<1>4. \A a : Before(a, x) /\ a \in BlocksOf(r) => UpTo(a, x)
  BY DEF UpTo
<1>5. x \in S <=> x \in Together(r, D)
  BY <1>2, <1>3 DEF UpTo
<1>6. Together(r, D) \subseteq BlocksOf(r)
  BY DEF Together
<1> QED
  BY <1>2, <1>3, <1>4, <1>5, <1>6 DEF RightAt

LEMMA RightSetIs ==
  ASSUME NEW r \in DOMAIN Renders
  PROVE  \A b \in BlocksOf(r) : \E S \in SUBSET BlocksOf(r) : RightUpTo(r, b, S)
<1> DEFINE B == BlocksOf(r)
           X == {b \in B : ~\E S \in SUBSET B : RightUpTo(r, b, S)}
<1> SUFFICES ASSUME X # {} PROVE FALSE
  OBVIOUS
<1>1. PICK b \in X : \A y \in X : ~Before(y, b)
  BY FirstBlock
<1> DEFINE D == {x \in B : Before(x, b)}
           S0 == Together(r, D)
           S == IF \E a \in S0 : Usable(a, b) THEN S0 ELSE S0 \cup {b}
<1>2. \A x \in D : \A a \in B : Before(a, x) => a \in D
  BY <1>1, BeforeFacts
<1>3. \A x \in D : \E T \in SUBSET B : RightUpTo(r, x, T)
  BY <1>1
<1>4. \A x \in D : RightAt(x, S0)
  <2> HIDE DEF D
  <2>1. D \in SUBSET B
    BY DEF D
  <2> QED BY <1>2, <1>3, <2>1, TogetherRight
<1>5. S0 \subseteq D /\ S \subseteq B /\ S0 \subseteq S /\ S \subseteq S0 \cup {b}
  BY <1>1 DEF Together
<1>6. b \notin D /\ \A x \in D : ~Before(b, x)
  BY <1>1, BeforeFacts
<1>7. \A a \in S : Before(a, b) <=> a \in S0
  BY <1>5, <1>6
<1>8. b \in S <=> ~\E a \in S0 : Usable(a, b)
  BY <1>5, <1>6
<1>9. RightAt(b, S)
  BY <1>5, <1>7, <1>8 DEF RightAt
<1>10. ASSUME NEW x \in D PROVE RightAt(x, S)
  <2>1. \A a \in S : Before(a, x) => a \in S0
    BY <1>5, <1>6
  <2>2. x \in S <=> x \in S0
    BY <1>5, <1>6
  <2> QED BY <1>4, <1>5, <2>1, <2>2 DEF RightAt
<1> HIDE DEF S, S0
<1>11. RightUpTo(r, b, S)
  BY <1>5, <1>9, <1>10 DEF RightUpTo, UpTo
<1> QED
  BY <1>1, <1>5, <1>11

(* There is what one thread takes: of the samples of a render, those that  *)
(* it may not do without because of one it took before.  So Reproducible   *)
(* compares the threads with something.                                    *)
THEOREM OneThreadIs ==
  ASSUME NEW r \in DOMAIN Renders
  PROVE  /\ OneThread[r] \subseteq BlocksOf(r)
         /\ \A b \in BlocksOf(r) :
              b \in OneThread[r] <=> ~\E a \in OneThread[r] : Before(a, b) /\ Usable(a, b)
<1> DEFINE B == BlocksOf(r)
           One(S) == \A b \in B : b \in S <=> ~\E a \in S : Before(a, b) /\ Usable(a, b)
<1>1. \A b \in B : RightAt(b, Together(r, B))
  BY RightSetIs, TogetherRight
<1>2. Together(r, B) \in SUBSET B
  BY DEF Together
<1>3. \E S \in SUBSET B : One(S)
  BY <1>1, <1>2 DEF RightAt
<1>4. OneThread[r] = CHOOSE S \in SUBSET B : One(S)
  BY DEF OneThread
<1> HIDE DEF One, B
<1>5. OneThread[r] \in SUBSET B /\ One(OneThread[r])
  BY <1>3, <1>4
<1> QED
  BY <1>5 DEF One, B

-----------------------------------------------------------------------------
(* What a search finds.                                                    *)

LEMMA TakenAt ==
  ASSUME IInv, NEW b \in Taken
  PROVE  /\ Filled /\ root # 0 /\ b \in Blocks /\ b \in Pooled
         /\ \E i \in 1..Len(nodes) : nodes[i].id = IdOf[b] /\ b \in nodes[i].values
         /\ IdOf[b] \in Ids /\ IdOf[b] \in [size : Nat, x : Int] /\ IdOf[b].size \in 0..MaxSize
<1> USE DEF IInv
<1>1. PICK i \in 1..Len(nodes) : b \in nodes[i].values
  BY DEF Taken
<1>2. nodes[i].id = IdOf[b] /\ b \in Blocks
  BY <1>1, NodeFacts DEF TakenInv, WellFiled
<1>3. root # 0
  <2> SUFFICES ASSUME root = 0 PROVE FALSE
    OBVIOUS
  <2>1. nodes = <<>> /\ Len(nodes) = 0
    BY DEF TreeInv, RootInv
  <2> QED BY <2>1
<1>4. Filled
  <2> SUFFICES ASSUME NEW t \in Threads, pc[t] = "fillroot" PROVE FALSE
    BY DEF Filled
  <2>1. nodes = <<[id |-> NoId, kids |-> NoKids, values |-> {}]>>
    BY DEF TreeInv, RootInv
  <2>2. i = 1 /\ nodes[1].values = {}
    BY <2>1
  <2> QED BY <1>1, <2>2
<1>5. IdOf[b] \in Ids
  BY <1>2, IdFacts
<1>6. b \in Pooled
  BY DEF TakenInv
<1> QED
  BY <1>1, <1>2, <1>3, <1>4, <1>5, <1>6, IdsTyped

LEMMA EntriesAre ==
  ASSUME IInv, NEW t \in Threads, NEW i \in 1..Len(todo[t])
  PROVE  todo[t][i] \in Entries /\ todo[t][i].node \in 1..Len(nodes)
<1> USE DEF IInv
<1>1. todo[t] \in Seq(Entries) /\ todo[t][i].node <= Len(nodes) /\ Len(nodes) \in Nat
  BY ElementFacts DEF Typed, SearchInv
<1>2. todo[t][i] \in Entries
  BY <1>1, ElementFacts
<1> QED
  BY <1>1, <1>2 DEF Entries

(* Steps of others move no node that a search will come to.                *)
LEMMA AheadStays ==
  ASSUME IInv, NEW u \in Threads, Step(u), NEW t \in Threads, todo'[t] = todo[t],
         NEW b \in Taken, Ahead(t, b)
  PROVE  Ahead(t, b)'
<1>1. PICK i \in 1..Len(todo[t]) : Leads(todo[t][i], b)
  BY DEF Ahead
<1> DEFINE e == todo[t][i]
<1>2. e \in Entries /\ e.node \in 1..Len(nodes) /\ e = todo'[t][i]
  BY EntriesAre
<1>3. Leads(e, b)
  BY <1>1
<1> HIDE DEF e
<1>4. nodes[e.node].id # NoId
  BY <1>3, TakenAt, IdsTyped DEF Leads, NoId
<1>5. nodes'[e.node].id = nodes[e.node].id
  BY <1>2, <1>4, IdsStay
<1>6. nodes'[todo'[t][i].node].id = nodes[todo[t][i].node].id
  BY <1>2, <1>5 DEF e
<1> QED
  BY <1>1, <1>6 DEF Ahead, Leads

(* On the way to b's node there is a kid where the search looks for it.    *)
LEMMA KidOnWay ==
  ASSUME IInv, NEW b \in Taken, NEW at \in 1..Len(nodes),
         nodes[at].id.size > IdOf[b].size, AncestorAt(IdOf[b], nodes[at].id.size) = nodes[at].id
  PROVE  LET down == AncestorAt(IdOf[b], nodes[at].id.size - 1)
             kid == nodes[at].kids[KidIndex(down)]
         IN  /\ kid \in 1..Len(nodes) /\ nodes[kid].id = down /\ KidIndex(down) \in KidNumbers
             /\ down \in [size : Nat, x : Int] /\ down.size = nodes[at].id.size - 1
             /\ down.size >= IdOf[b].size
<1> USE DEF IInv
<1> DEFINE id == nodes[at].id
           s == id.size - 1
           down == AncestorAt(IdOf[b], s)
<1>1. /\ Filled /\ root # 0 /\ IdOf[b] \in [size : Nat, x : Int]
      /\ \E i \in 1..Len(nodes) : nodes[i].id = IdOf[b]
  BY TakenAt
<1>2. id \in Ids /\ id.size \in Nat /\ root \in 1..Len(nodes) /\ RootId.size \in Nat /\ id.size <= RootId.size
  <2>1. id \in Ids /\ id.size <= RootId.size
    BY <1>1 DEF TreeInv, RootInv, BelowInv
  <2> QED BY <1>1, <2>1, IdsTyped, AtRoot
<1>3. s \in Nat /\ s >= IdOf[b].size /\ s \in IdOf[b].size..RootId.size /\ s + 1 = id.size /\ s < RootId.size
  BY <1>1, <1>2
<1>4. down \in [size : {s}, x : Int] /\ ot_parent(down) = id
  BY <1>1, <1>3, AncestorFacts
<1>5. down \in [size : Nat, x : Int] /\ down.size = s
  BY <1>3, <1>4
<1>6. PICK j \in 1..Len(nodes) : nodes[j].id = down
  <2>1. PICK i \in 1..Len(nodes) : nodes[i].id = IdOf[b]
    BY <1>1
  <2>2. \A r \in nodes[i].id.size..RootId.size :
          \E j \in 1..Len(nodes) : nodes[j].id = AncestorAt(nodes[i].id, r)
    BY <1>1 DEF TreeInv, BelowInv
  <2> QED BY <1>3, <2>1, <2>2
<1>7. j # root
  BY <1>3, <1>5, <1>6 DEF RootId
<1>8. PICK m \in 1..Len(nodes) : nodes[m].kids[KidIndex(nodes[j].id)] = j
  BY <1>7 DEF TreeInv, TreeIsOne
<1>9. KidIndex(down) \in KidNumbers
  BY <1>5, ParentTyped
<1>10. nodes[m].id = ot_parent(nodes[j].id)
  BY <1>6, <1>8, <1>9 DEF TreeInv, TreeIsOne
<1>11. m = at
  BY <1>4, <1>6, <1>10 DEF TreeInv, TreeIsOne
<1> QED
  BY <1>3, <1>5, <1>6, <1>8, <1>9, <1>11

(* The nodes over that of a sample are around the point as well.           *)
LEMMA AroundAbove ==
  ASSUME NEW b \in Blocks, NEW p \in Blocks, FiledAround(b, p), NEW s \in Nat, s >= IdOf[b].size
  PROVE  InNode(Sample(p).at, AncestorAt(IdOf[b], s))
<1>1. Sample(b) \in Spots /\ Sample(p) \in Spots
  BY SampleTyped
<1>2. /\ Sample(b).at \in Int /\ Sample(p).at \in Int /\ Sample(b).radius \in Nat
  BY <1>1 DEF Spots
<1>3. InNode(Sample(p).at, IdOf[b]) /\ IdOf[b] \in [size : Nat, x : Int]
  BY <1>2, IdFacts DEF FiledAround
<1> QED
  BY <1>2, <1>3, InAncestor

LEMMA OtherFinds ==
  ASSUME IInv, NEW u \in Threads, Step(u), NEW t \in Threads, t # u, Finds(t)
  PROVE  Finds(t)'
<1> USE DEF IInv
<1>1. /\ pc'[t] = pc[t] /\ point'[t] = point[t] /\ todo'[t] = todo[t] /\ found'[t] = found[t]
      /\ pass' = pass
  BY StepAlone DEF Alone
<1> SUFFICES ASSUME pc[t] \in {"search", "judge"}
             PROVE  Finds(t)'
  BY <1>1 DEF Finds
<1>2. Taken \subseteq Taken'
  BY ValuesStep, TakenSame, TakenMore, IdsStay
<1>3. ASSUME NEW b \in Taken', Settled(t, b) PROVE b \in Taken
  <2> SUFFICES ASSUME InsertBlock(u), b = point[u] PROVE FALSE
    BY ValuesStep, TakenSame, TakenMore, IdsStay
  <2>1. pc[u] # "idle" /\ pc[t] # "idle"
    BY DEF InsertBlock
  <2>2. point[u].pass = pass /\ point[u].tile # point[t].tile /\ pass \in Nat
    BY <2>1 DEF PointsInv, Typed, Passes
  <2> QED BY <1>3, <2>2 DEF Settled
<1>4. ASSUME NEW b \in Taken', Settled(t, b)', Usable(b, point'[t]), FiledAround(b, point'[t])
      PROVE  b \in found'[t] \/ (pc'[t] = "search" /\ Ahead(t, b)')
  <2>1. Settled(t, b) /\ b \in Taken
    BY <1>1, <1>3, <1>4 DEF Settled
  <2>2. b \in found[t] \/ (pc[t] = "search" /\ Ahead(t, b))
    BY <1>1, <1>4, <2>1 DEF Finds
  <2> QED BY <1>1, <2>1, <2>2, AheadStays
<1>5. \A b \in found'[t] : b \in Taken' /\ Usable(b, point'[t])
  BY <1>1, <1>2 DEF Finds
<1> QED
  BY <1>4, <1>5 DEF Finds

LEMMA StartFinds ==
  ASSUME IInv, NEW t \in Threads, StartQuery(t)
  PROVE  Finds(t)'
<1> USE DEF IInv
<1>1. /\ found'[t] = {} /\ root' = root /\ nodes' = nodes /\ point' = point
      /\ root = 0 => pc'[t] = "judge"
      /\ root # 0 => pc'[t] = "search" /\ todo'[t] = <<[node |-> root, kid |-> 0]>>
  BY DEF StartQuery, Goto, tree, Typed
<1>2. Taken' = Taken
  BY <1>1 DEF Taken
<1>3. ASSUME NEW b \in Taken PROVE pc'[t] = "search" /\ Ahead(t, b)'
  <2>1. /\ Filled /\ root # 0 /\ IdOf[b] \in [size : Nat, x : Int]
        /\ \E i \in 1..Len(nodes) : nodes[i].id = IdOf[b]
    BY <1>3, TakenAt
  <2>2. /\ IdOf[b].size <= RootId.size /\ AncestorAt(IdOf[b], RootId.size) = RootId
        /\ RootId.size \in Nat
    BY <2>1, AtRoot DEF TreeInv, BelowInv
  <2> DEFINE e == [node |-> root, kid |-> 0]
  <2>3. Leads(e, b)
    <3>1. CASE RootId.size = IdOf[b].size
      BY <2>1, <2>2, <3>1, AncestorFacts DEF Leads, RootId
    <3>2. CASE RootId.size > IdOf[b].size
      <4>1. RootId.size - 1 \in Nat /\ RootId.size - 1 >= IdOf[b].size
        BY <2>1, <2>2, <3>2
      <4>2. AncestorAt(IdOf[b], RootId.size - 1) \in [size : {RootId.size - 1}, x : Int]
        BY <2>1, <4>1, AncestorFacts
      <4>3. AncestorAt(IdOf[b], RootId.size - 1) \in [size : Nat, x : Int]
        BY <4>1, <4>2
      <4>4. KidIndex(AncestorAt(IdOf[b], RootId.size - 1)) >= 0
        BY <4>3, ParentTyped DEF KidNumbers
      <4> QED BY <2>2, <3>2, <4>4 DEF Leads, RootId
    <3> QED BY <2>1, <2>2, <3>1, <3>2
  <2>6. todo'[t] = <<e>>
    BY <1>1, <2>1
  <2> HIDE DEF e
  <2>4. Len(todo'[t]) = 1 /\ todo'[t][1] = e /\ 1 \in 1..1
    BY <2>6
  <2>5. nodes'[todo'[t][1].node].id = nodes[e.node].id /\ todo'[t][1].kid = e.kid
    BY <1>1, <2>4
  <2> QED BY <1>1, <2>1, <2>3, <2>4, <2>5 DEF Ahead, Leads
<1> QED
  BY <1>1, <1>2, <1>3 DEF Finds

LEMMA KidFinds ==
  ASSUME IInv, NEW t \in Threads, LookAtKid(t), Finds(t)
  PROVE  Finds(t)'
<1> USE DEF IInv
<1> DEFINE n == Len(todo[t])
           at == Last(todo[t])
           kid == nodes[at.node].kids[at.kid]
           down == kid # 0 /\ InNode(Here(t).at, nodes[kid].id)
<1>1. /\ pc[t] = "search" /\ pc' = pc /\ nodes' = nodes /\ point' = point /\ found' = found
      /\ pass' = pass
  BY DEF LookAtKid, tree
<1>2. Taken' = Taken
  BY <1>1 DEF Taken
<1>3. /\ Len(todo'[t]) = IF down THEN n + 1 ELSE n
      /\ \A i \in 1..n - 1 : todo'[t][i] = todo[t][i]
      /\ todo'[t][n] = [node |-> at.node, kid |-> at.kid + 1]
      /\ down => todo'[t][n + 1] = [node |-> kid, kid |-> 0]
  BY TodoSeen
<1>4. /\ n \in Nat \ {0} /\ at \in Entries /\ at = todo[t][n] /\ at.kid \in KidNumbers
      /\ at.node \in 1..Len(nodes) /\ kid \in 0..Len(nodes)
  BY KidSeen
<1>5. point[t] \in Blocks
  BY <1>1, AtPoint
<1>6. ASSUME NEW b \in Taken, FiledAround(b, point[t]), Leads(at, b),
             ~(\E i \in 1..Len(todo'[t]) : i = n /\ Leads(todo'[t][n], b))
      PROVE  down /\ Leads([node |-> kid, kid |-> 0], b)
  <2> DEFINE id == nodes[at.node].id
             next == AncestorAt(IdOf[b], id.size - 1)
  <2>1. n \in 1..Len(todo'[t])
    <3> HIDE DEF n, down
    <3> QED BY <1>3, <1>4
  <2>2. ~Leads(todo'[t][n], b)
    BY <1>6, <2>1
  <2>3. todo'[t][n].node = at.node /\ todo'[t][n].kid = at.kid + 1
    BY <1>3
  <2>4. id # IdOf[b]
    BY <2>2, <2>3 DEF Leads
  <2>5. id.size > IdOf[b].size /\ AncestorAt(IdOf[b], id.size) = id /\ KidIndex(next) >= at.kid
    BY <1>6, <2>4 DEF Leads
  <2>6. /\ nodes[at.node].kids[KidIndex(next)] \in 1..Len(nodes)
        /\ nodes[nodes[at.node].kids[KidIndex(next)]].id = next /\ KidIndex(next) \in KidNumbers
        /\ next \in [size : Nat, x : Int] /\ next.size >= IdOf[b].size /\ next.size = id.size - 1
    BY <1>4, <2>5, KidOnWay
  <2>7. ~(KidIndex(next) >= at.kid + 1)
    BY <2>2, <2>3, <2>5 DEF Leads
  <2>8. KidIndex(next) = at.kid
    <3> DEFINE k == KidIndex(next)
               m == at.kid
    <3>1. k \in 0..1 /\ m \in 0..1 /\ k >= m /\ ~(k >= m + 1)
      BY <1>4, <2>5, <2>6, <2>7 DEF KidNumbers
    <3> HIDE DEF k, m
    <3>2. k = m
      BY <3>1
    <3> QED BY <3>2 DEF k, m
  <2>9. kid \in 1..Len(nodes) /\ nodes[kid].id = next
    BY <2>6, <2>8
  <2>10. b \in Blocks /\ IdOf[b] \in [size : Nat, x : Int]
    BY TakenAt
  <2>11. InNode(Sample(point[t]).at, next)
    BY <1>5, <1>6, <2>6, <2>10, AroundAbove
  <2>12. down
    BY <2>9, <2>11 DEF Here
  <2>15. next.size \in Nat /\ IdOf[b].size \in Nat /\ next.size >= IdOf[b].size
    BY <2>6, <2>10
  <2>16. AncestorAt(IdOf[b], next.size) = next
    BY <2>6
  <2> HIDE DEF next, id, kid, down
  <2>13. CASE next.size = IdOf[b].size
    <3>1. next = IdOf[b]
      BY <2>5, <2>16, <2>13, <2>10, AncestorFacts
    <3> QED BY <2>9, <2>12, <3>1 DEF Leads
  <2>14. CASE next.size > IdOf[b].size
    <3>1. AncestorAt(IdOf[b], next.size) = next
      BY <2>16
    <3>2. next.size - 1 \in Nat /\ next.size - 1 >= IdOf[b].size
      BY <2>14, <2>15
    <3>3. AncestorAt(IdOf[b], next.size - 1) \in [size : Nat, x : Int]
      BY <2>10, <3>2, AncestorFacts
    <3>4. KidIndex(AncestorAt(IdOf[b], next.size - 1)) >= 0
      BY <3>3, ParentTyped DEF KidNumbers
    <3> QED BY <2>9, <2>12, <2>14, <3>1, <3>4 DEF Leads
  <2> QED BY <2>13, <2>14, <2>15
<1>7. ASSUME NEW b \in Taken, Settled(t, b), Usable(b, point[t]), FiledAround(b, point[t]),
             b \notin found[t]
      PROVE  \E i \in 1..Len(todo'[t]) : Leads(todo'[t][i], b)
  <2>1. PICK i \in 1..n : Leads(todo[t][i], b)
    BY <1>1, <1>7 DEF Finds, Ahead
  <2>2. i = n \/ i \in 1..n - 1
    BY <1>4
  <2>3. CASE i \in 1..n - 1
    <3>1. i \in 1..Len(todo'[t])
      <4> HIDE DEF n, down
      <4> QED BY <1>3, <1>4, <2>3
    <3> QED BY <1>3, <2>1, <2>3, <3>1
  <2>4. CASE i = n
    <3>1. Leads(at, b)
      BY <1>4, <2>1, <2>4
    <3>2. CASE ~(\E j \in 1..Len(todo'[t]) : j = n /\ Leads(todo'[t][n], b))
      <4>1. down /\ Leads([node |-> kid, kid |-> 0], b)
        BY <1>6, <1>7, <3>1, <3>2
      <4>2. todo'[t][n + 1] = [node |-> kid, kid |-> 0] /\ Len(todo'[t]) = n + 1
        BY <1>3, <4>1
      <4>3. n + 1 \in 1..n + 1
        BY <1>4
      <4> QED BY <4>1, <4>2, <4>3
    <3> QED BY <3>2
  <2> QED BY <2>2, <2>3, <2>4
<1>8. \A b \in Taken : Settled(t, b)' => Settled(t, b)
  BY <1>1 DEF Settled
<1>9. \A b \in Taken : (\E i \in 1..Len(todo'[t]) : Leads(todo'[t][i], b)) => Ahead(t, b)'
  BY <1>1 DEF Ahead, Leads
<1> QED
  BY <1>1, <1>2, <1>7, <1>8, <1>9 DEF Finds

LEMMA ValuesFinds ==
  ASSUME IInv, NEW t \in Threads, LookAtValues(t), Finds(t)
  PROVE  Finds(t)'
<1> USE DEF IInv
<1> DEFINE n == Len(todo[t])
           at == Last(todo[t])
           new == {b \in nodes[at.node].values : Usable(b, point[t])}
<1>1. /\ pc[t] = "search" /\ nodes' = nodes /\ point' = point /\ pass' = pass
      /\ found'[t] = found[t] \cup new /\ todo'[t] = Front(todo[t]) /\ at.kid \notin KidNumbers
      /\ IF n = 1 THEN pc'[t] = "judge" ELSE pc'[t] = "search"
  BY DEF LookAtValues, tree, Typed, Goto
<1>2. Taken' = Taken
  BY <1>1 DEF Taken
<1>3. todo[t] \in Seq(Entries) /\ todo[t] # <<>>
  BY <1>1 DEF Typed, SearchInv
<1>4. /\ n \in Nat \ {0} /\ at \in Entries /\ at = todo[t][n]
      /\ Len(Front(todo[t])) = n - 1 /\ \A i \in 1..n - 1 : Front(todo[t])[i] = todo[t][i]
  BY <1>3, FrontFacts
<1>5. at.node \in 1..Len(nodes) /\ at.kid = 2
  <2>1. n \in 1..n
    BY <1>4
  <2> QED BY <1>1, <1>4, <2>1, EntriesAre DEF Entries, KidNumbers
<1>6. new \subseteq Taken
  BY <1>5 DEF Taken
<1>7. ASSUME NEW b \in Taken, Usable(b, point[t]), Leads(at, b)
      PROVE  b \in new
  <2>1. nodes[at.node].id = IdOf[b]
    <3> SUFFICES ASSUME nodes[at.node].id # IdOf[b] PROVE FALSE
      OBVIOUS
    <3>1. /\ nodes[at.node].id.size > IdOf[b].size
          /\ AncestorAt(IdOf[b], nodes[at.node].id.size) = nodes[at.node].id
          /\ KidIndex(AncestorAt(IdOf[b], nodes[at.node].id.size - 1)) >= at.kid
      BY <1>7 DEF Leads
    <3>2. KidIndex(AncestorAt(IdOf[b], nodes[at.node].id.size - 1)) \in KidNumbers
      BY <1>5, <3>1, KidOnWay
    <3> QED BY <1>5, <3>1, <3>2 DEF KidNumbers
  <2>2. PICK i \in 1..Len(nodes) : nodes[i].id = IdOf[b] /\ b \in nodes[i].values
    BY TakenAt
  <2>3. i = at.node
    BY <1>5, <2>1, <2>2 DEF TreeInv, TreeIsOne
  <2> QED BY <1>7, <2>2, <2>3
<1> HIDE DEF new
<1>8. ASSUME NEW b \in Taken, Settled(t, b), Usable(b, point[t]), FiledAround(b, point[t]),
             b \notin found'[t]
      PROVE  pc'[t] = "search" /\ \E i \in 1..Len(todo'[t]) : Leads(todo'[t][i], b)
  <2>1. PICK i \in 1..n : Leads(todo[t][i], b)
    BY <1>1, <1>8 DEF Finds, Ahead
  <2>2. i # n
    BY <1>1, <1>4, <1>7, <1>8, <2>1
  <2>3. n # 1 /\ i \in 1..n - 1
    BY <1>4, <2>1, <2>2
  <2> QED BY <1>1, <1>4, <2>1, <2>3
<1>9. \A b \in Taken : Settled(t, b)' => Settled(t, b)
  BY <1>1 DEF Settled
<1>10. \A b \in Taken : (\E i \in 1..Len(todo'[t]) : Leads(todo'[t][i], b)) => Ahead(t, b)'
  BY <1>1 DEF Ahead, Leads
<1>11. \A b \in found'[t] : b \in Taken /\ Usable(b, point[t])
  BY <1>1, <1>6 DEF Finds, new
<1> QED
  BY <1>1, <1>2, <1>8, <1>9, <1>10, <1>11 DEF Finds

LEMMA OwnFinds ==
  ASSUME IInv, NEW t \in Threads, Step(t), Finds(t)
  PROVE  Finds(t)'
<1> USE DEF IInv
<1>1. pc'[t] \in {"search", "judge"} => StartQuery(t) \/ LookAtKid(t) \/ LookAtValues(t)
  <2> DEFINE Out == pc'[t] \notin {"search", "judge"}
  <2>1. pc \in [Threads -> Labels]
    BY DEF Typed
  <2>2. TakeTile(t) \/ AcquireBlockPool(t) \/ Save(t) \/ ReleaseBlockPool(t) \/ NewBlock(t) => Out
    BY <2>1 DEF TakeTile, AcquireBlockPool, Save, ReleaseBlockPool, NewBlock, Goto
  <2>3. Reuse(t) \/ InsertBlock(t) => Out
    BY <2>1 DEF Reuse, InsertBlock, NextPoint, Goto
  <2>4. LookForRoot(t) \/ LockRoot(t) \/ MakeRoot(t) \/ FillRoot(t) => Out
    BY <2>1 DEF LookForRoot, LockRoot, MakeRoot, FillRoot, Goto
  <2>5. CompareSize(t) \/ CompareArea(t) => Out
    BY <2>1 DEF CompareSize, CompareArea, Goto
  <2>6. Lock(t) \/ Grow(t) \/ Widen(t) \/ Enter(t) \/ Descend(t) \/ ReturnNode(t) => Out
    BY <2>1 DEF Lock, Unlocked, Grow, Widen, Enter, Descend, ReturnNode, Goto
  <2> HIDE DEF Out
  <2>7. Out \/ StartQuery(t) \/ LookAtKid(t) \/ LookAtValues(t)
    BY <2>2, <2>3, <2>4, <2>5, <2>6 DEF Step
  <2> QED BY <2>7 DEF Out
<1>2. pc'[t] \notin {"search", "judge"} => Finds(t)'
  BY DEF Finds
<1> QED
  BY <1>1, <1>2, StartFinds, KidFinds, ValuesFinds

LEMMA FindsStep ==
  ASSUME IInv, FindsInv, NEW t \in Threads, Step(t)
  PROVE  FindsInv'
<1> SUFFICES ASSUME NEW u \in Threads PROVE Finds(u)'
  BY DEF FindsInv
<1>1. Finds(u)
  BY DEF FindsInv
<1>2. CASE u = t
  BY <1>1, <1>2, OwnFinds
<1>3. CASE u # t
  BY <1>1, <1>3, OtherFinds
<1> QED
  BY <1>2, <1>3

-----------------------------------------------------------------------------
(* What is decided of the samples.                                         *)

LEMMA Remainder ==
  ASSUME NEW d \in Nat \ {0}, NEW x \in 0..d - 1
  PROVE  x % d = x
OBVIOUS

(* Of the samples of a pass a tile uses its own.                           *)
LEMMA UsableOwn ==
  ASSUME NEW r \in DOMAIN Renders, Determined(r),
         NEW a \in BlocksOf(r), NEW b \in BlocksOf(r), Usable(a, b), a.pass = b.pass
  PROVE  a.tile = b.tile
<1>1. a.pass \in Passes(r) /\ a.tile \in Tiles(r, a.pass) /\ b.tile \in Nat /\ a.render = r /\ b.render = r
  BY BlockFacts, Numbers
<1>2. Len(Work(r)[a.pass]) <= TileIds /\ Len(Work(r)[a.pass]) \in Nat
  BY <1>1, WorkFacts DEF Determined
<1>3. a.tile - 1 \in 0..TileIds - 1
  BY <1>1, <1>2, TileIdsAssumption DEF Tiles
<1>4. (a.tile - 1) % TileIds = a.tile - 1
  BY <1>3, TileIdsAssumption, Remainder
<1>5. TileId(a) = a.tile - 1 /\ TileId(b) = b.tile - 1
  BY <1>1 DEF TileId, Determined
<1>6. TileId(a) % TileIds = TileId(b)
  BY DEF Usable
<1>7. a.tile \in Nat
  BY <1>1 DEF Tiles
<1> QED
  BY <1>1, <1>4, <1>5, <1>6, <1>7

LEMMA SamePoint ==
  ASSUME NEW r \in DOMAIN Renders, NEW a \in BlocksOf(r), NEW b \in BlocksOf(r),
         a.pass = b.pass, a.tile = b.tile, a.n = b.n
  PROVE  a = b
BY BlockFacts

LEMMA DecidedWhen ==
  ASSUME IInv, NEW t \in Threads, Step(t), NEW b \in BlocksOf(render), Decided(b)'
  PROVE  Decided(b) \/ ((Reuse(t) \/ Added(t)) /\ b = point[t])
<1> USE DEF IInv
<1>1. /\ pass' = pass /\ render' = render
      /\ \A u \in Threads : u # t => pc'[u] = pc[u] /\ point'[u] = point[u]
      /\ pc \in [Threads -> Labels] /\ render \in DOMAIN Renders
  BY StepAlone DEF Alone, Typed
<1>2. b.pass \in Nat /\ b.tile \in Nat /\ b.n \in Nat
  BY <1>1, Numbers
<1> DEFINE Told == pc[t] # "idle" /\ point[t].tile = b.tile =>
                     b.n < point[t].n \/ (b.n = point[t].n /\ pc[t] \in Judged)
           Toldn == pc'[t] # "idle" /\ point'[t].tile = b.tile =>
                      b.n < point'[t].n \/ (b.n = point'[t].n /\ pc'[t] \in Judged)
<1>3. ASSUME left' = left, Toldn /\ b.pass = pass /\ b.tile \notin left => Told
      PROVE  Decided(b)
  BY <1>1, <1>3 DEF Decided
<1>4. CASE TakeTile(t)
  <2> DEFINE c == CHOOSE m \in left : \A n \in left : m <= n
  <2>1. left # {} /\ left \subseteq Tiles(render, pass) /\ left \in SUBSET Nat
    BY <1>4 DEF TakeTile, Typed, Tiles
  <2>2. \E m \in left : \A n \in left : m <= n
    BY <2>1, Least
  <2>3. c \in left /\ c = Min(left)
    BY <2>2 DEF Min
  <2> HIDE DEF c
  <2>4. /\ left' = left \ {c} /\ pc[t] = "idle" /\ pc'[t] = "acquire"
        /\ point'[t].tile = c /\ point'[t].n = 1
    BY <1>1, <1>4, <2>3 DEF TakeTile, Goto, Typed
  <2>5. "acquire" \notin Judged
    BY DEF Judged, InGetNode, Unlocked
  <2>6. b.n >= 1
    BY BlockFacts, <1>1
  <2>7. ~(b.n < 1)
    BY <1>2, <2>6
  <2> QED BY <1>1, <2>4, <2>5, <2>7 DEF Decided
<1>5. CASE Reuse(t) \/ InsertBlock(t)
  <2>1. pc[t] # "idle" /\ NextPoint(t) /\ left' = left
    BY <1>5 DEF Reuse, InsertBlock, Rest
  <2>2. /\ point'[t].tile = point[t].tile /\ point[t].n \in Int
        /\ point[t] \in BlocksOf(render) /\ point[t].pass = pass
        /\ \/ pc'[t] = "query" /\ point'[t].n = point[t].n + 1
           \/ pc'[t] = "save" /\ point'[t] = point[t]
    BY <2>1, NextPointStays, AtPoint
  <2>3. InsertBlock(t) => pc[t] \in Judged
    BY DEF InsertBlock, Judged, InGetNode
  <2>4. ASSUME ~(Reuse(t) /\ b = point[t]), Toldn, b.pass = pass, pc[t] # "idle", point[t].tile = b.tile
        PROVE  b.n < point[t].n \/ (b.n = point[t].n /\ pc[t] \in Judged)
    <3>1. b.n < point'[t].n \/ b.n = point'[t].n
      BY <2>2, <2>4
    <3>2. b.n < point[t].n \/ b.n = point[t].n
      <4>1. CASE pc'[t] = "query"
        <5>1. "query" \notin Judged
          BY DEF Judged, InGetNode, Unlocked
        <5> QED BY <1>2, <2>2, <2>4, <4>1, <5>1
      <4>2. CASE pc'[t] = "save"
        BY <2>2, <3>1, <4>2
      <4> QED BY <2>2, <4>1, <4>2
    <3>3. b.n = point[t].n => b = point[t]
      BY <1>1, <2>2, <2>4, SamePoint
    <3> QED BY <1>5, <2>3, <2>4, <3>2, <3>3
  <2> QED BY <1>3, <2>1, <2>4
<1>6. CASE NewBlock(t)
  <2>1. /\ pc[t] = "judge" /\ pc'[t] = "root" /\ UNCHANGED <<left, point>>
        /\ point[t] \in BlocksOf(render) /\ point[t].pass = pass
    BY <1>1, <1>6, AtPoint DEF NewBlock, Goto
  <2>2. Added(t)
    <3>1. UNCHANGED <<pool, freePools, file, point>>
          /\ pools' = [pools EXCEPT ![pool[t]].blocks = Append(@, point[t])]
      BY <1>6 DEF NewBlock
    <3> QED BY <2>1, <3>1, HasPool, AtPoint DEF Added, BlockAdded
  <2>3. ASSUME b # point[t], Toldn, b.pass = pass PROVE Told
    <3>1. b.tile = point[t].tile => b.n # point[t].n
      BY <1>1, <2>1, <2>3, SamePoint
    <3> QED BY <2>1, <2>3, <3>1
  <2> QED BY <1>3, <2>1, <2>2, <2>3
<1>7. CASE OnWay(t)
  BY <1>3, <1>7 DEF OnWay
<1>8. CASE ReleaseBlockPool(t)
  <2>1. pc[t] = "release" /\ pc'[t] = "idle" /\ UNCHANGED <<left, point>>
    BY <1>1, <1>8 DEF ReleaseBlockPool, Goto
  <2>2. "release" \in Judged
    BY DEF Judged
  <2>3. point[t].n = Len(Work(render)[pass][point[t].tile])
    BY <2>1 DEF PointsInv
  <2>4. ASSUME b.pass = pass, point[t].tile = b.tile PROVE b.n < point[t].n \/ b.n = point[t].n
    <3>1. b.n \in 1..Len(Work(render)[pass][b.tile]) /\ Len(Work(render)[pass][b.tile]) \in Nat
      BY <1>1, <2>4, BlockFacts, WorkFacts
    <3> QED BY <2>3, <2>4, <3>1
  <2> QED BY <1>3, <2>1, <2>2, <2>4
<1> QED
  BY <1>4, <1>5, <1>6, <1>7, <1>8, PointSteps

(* A sample that a tile may use, and that is there, has been taken.        *)
LEMMA PooledTaken ==
  ASSUME IInv, NEW b \in Pooled,
         \A t \in Threads : pc[t] # "idle" => b.pass # pass \/ b.tile # point[t].tile \/ b # point[t]
  PROVE  b \in Taken
<1> USE DEF IInv
<1>1. "idle" \notin InGetNode
  BY DEF InGetNode, Unlocked
<1>2. \A t \in Threads : pc[t] # "idle" => point[t].pass = pass
  BY DEF PointsInv
<1> QED
  BY <1>1, <1>2 DEF TakenInv

(* The samples that were there when a search began, or that its tile has   *)
(* put there, are decided.                                                 *)
LEMMA EarlierDecided ==
  ASSUME IInv, Determined(render), NEW t \in Threads, pc[t] # "idle",
         NEW a \in BlocksOf(render), Usable(a, point[t]), Before(a, point[t])
  PROVE  /\ Decided(a) /\ Settled(t, a) /\ (a \in Pooled => a \in Taken)
         /\ FiledAround(a, point[t])
<1> USE DEF IInv
<1>1. /\ render \in DOMAIN Renders /\ point[t] \in BlocksOf(render) /\ point[t].pass = pass
      /\ point[t].tile \notin left
  BY AtPoint DEF PointsInv, Typed
<1>2. a.pass \in Nat /\ a.tile \in Nat /\ a.n \in Nat /\ pass \in Nat /\ point[t].tile \in Nat /\ point[t].n \in Nat
  BY <1>1, Numbers
<1>3. \A u \in Threads : pc[u] # "idle" => point[u].pass = pass
  BY DEF PointsInv
<1>4. FiledAround(a, point[t])
  BY <1>1 DEF Determined
<1>5. CASE a.pass < pass
  <2>1. Decided(a) /\ Settled(t, a)
    BY <1>5 DEF Decided, Settled
  <2>2. a.pass # pass
    BY <1>2, <1>5
  <2> QED BY <1>4, <2>1, <2>2, PooledTaken
<1>6. CASE ~(a.pass < pass)
  <2>1. a.pass = pass
    BY <1>1, <1>2, <1>6 DEF Before
  <2>2. a.tile = point[t].tile
    BY <1>1, <2>1, UsableOwn
  <2>3. a.n < point[t].n
    BY <1>1, <1>2, <2>1, <2>2 DEF Before
  <2>4. \A u \in Threads : u # t /\ pc[u] # "idle" => point[u].tile # a.tile
    BY <2>2 DEF PointsInv
  <2>5. Decided(a) /\ Settled(t, a)
    BY <1>1, <2>1, <2>2, <2>3, <2>4 DEF Decided, Settled
  <2>6. a # point[t]
    BY <1>2, <2>3
  <2> QED BY <1>4, <2>4, <2>5, <2>6, PooledTaken
<1> QED
  BY <1>5, <1>6

(* A point that has a sample it may use is not one where one thread would  *)
(* have taken a sample.                                                    *)
LEMMA ReusedDecided ==
  ASSUME IInv, FindsInv, DecidedInv, Determined(render),
         NEW t \in Threads, pc[t] = "judge", found[t] # {}
  PROVE  point[t] \notin Pooled /\ point[t] \notin OneThread[render]
<1> USE DEF IInv
<1>1. /\ render \in DOMAIN Renders /\ point[t] \in BlocksOf(render) /\ point[t].pass = pass
      /\ point[t].n \in Nat /\ pc[t] # "idle" /\ pass \in Nat
  BY AtPoint, Numbers DEF Typed
<1>2. "judge" \notin Judged
  BY DEF Judged, InGetNode, Unlocked
<1>3. point[t] \notin Pooled
  BY <1>1, <1>2 DEF PooledInv
<1>4. PICK a \in found[t] : a \in Taken /\ Usable(a, point[t])
  BY DEF FindsInv, Finds
<1>5. a \in Pooled
  BY <1>4 DEF TakenInv
<1>6. a \in BlocksOf(render) /\ a.pass <= pass /\ a.pass \in Nat
  BY <1>1, <1>5, Numbers DEF PooledInv
<1>7. Before(a, point[t])
  <2>1. CASE a.pass = pass
    <3>1. a.tile = point[t].tile
      BY <1>1, <1>4, <1>6, <2>1, UsableOwn
    <3>2. a.n < point[t].n
      BY <1>1, <1>2, <1>5, <2>1, <3>1 DEF PooledInv
    <3> QED BY <1>1, <2>1, <3>1, <3>2 DEF Before
  <2>2. CASE a.pass < pass
    BY <1>1, <2>2 DEF Before
  <2> QED BY <1>1, <1>6, <2>1, <2>2
<1>8. Decided(a)
  BY <1>1, <1>4, <1>6, <1>7, EarlierDecided
<1>9. a \in OneThread[render]
  BY <1>5, <1>6, <1>8 DEF DecidedInv
<1> QED
  BY <1>1, <1>3, <1>4, <1>7, <1>9, OneThreadIs

(* And one that has none is one.                                           *)
LEMMA AddedDecided ==
  ASSUME IInv, FindsInv, DecidedInv, Determined(render),
         NEW t \in Threads, pc[t] = "judge", found[t] = {}
  PROVE  point[t] \in OneThread[render]
<1> USE DEF IInv
<1>1. /\ render \in DOMAIN Renders /\ point[t] \in BlocksOf(render) /\ pc[t] # "idle"
  BY AtPoint DEF Typed
<1>2. ASSUME NEW a \in OneThread[render], Before(a, point[t]), Usable(a, point[t]) PROVE FALSE
  <2>1. a \in BlocksOf(render)
    BY <1>1, OneThreadIs
  <2>2. /\ Decided(a) /\ Settled(t, a) /\ (a \in Pooled => a \in Taken)
        /\ FiledAround(a, point[t])
    BY <1>1, <1>2, <2>1, EarlierDecided
  <2>3. a \in Taken
    BY <2>1, <2>2 DEF DecidedInv
  <2> QED BY <1>2, <2>2, <2>3 DEF FindsInv, Finds
<1> QED
  BY <1>1, <1>2, OneThreadIs

LEMMA DecidedStep ==
  ASSUME IInv, FindsInv, DecidedInv, NEW t \in Threads, Step(t)
  PROVE  DecidedInv'
<1> USE DEF IInv
<1>1. render' = render
  BY StepAlone DEF Alone
<1> SUFFICES ASSUME Determined(render), NEW b \in BlocksOf(render), Decided(b)'
             PROVE  b \in Pooled' <=> b \in OneThread[render]
  BY <1>1 DEF DecidedInv
<1>2. CASE Added(t) /\ b = point[t]
  <2>1. pc[t] = "judge" /\ found[t] = {}
    <3>1. pc[t] = "judge" /\ pc'[t] = "root" /\ pc \in [Threads -> Labels]
      BY <1>2 DEF Added, Typed
    <3>2. Reuse(t) \/ NewBlock(t)
      BY <3>1 DEF Step, TakeTile, AcquireBlockPool, Save, ReleaseBlockPool, StartQuery,
        LookAtKid, LookAtValues, LookForRoot, LockRoot, MakeRoot, FillRoot,
        CompareSize, CompareArea, Lock, Unlocked, Grow, Widen, Enter, Descend, ReturnNode, InsertBlock
    <3>3. ~Reuse(t)
      BY <3>1 DEF Reuse, NextPoint, Goto
    <3> QED BY <3>1, <3>2, <3>3 DEF NewBlock
  <2> QED BY <1>2, <2>1, AddedDecided, PooledSame
<1>3. CASE Reuse(t) /\ b = point[t]
  <2>1. pc[t] = "judge" /\ found[t] # {} /\ pools' = pools
    BY <1>3 DEF Reuse, store
  <2>2. Pooled' = Pooled
    BY <2>1 DEF Pooled, BlocksIn
  <2> QED BY <1>3, <2>1, <2>2, ReusedDecided
<1>4. CASE Decided(b) /\ ~(Added(t) /\ b = point[t])
  <2>1. b \in Pooled' <=> b \in Pooled
    BY <1>4, PooledSame
  <2> QED BY <1>4, <2>1 DEF DecidedInv
<1> QED
  BY <1>2, <1>3, <1>4, DecidedWhen

-----------------------------------------------------------------------------
(* High reproducibility.                                                   *)

LEMMA InitFinds ==
  ASSUME Init
  PROVE  FindsInv /\ DecidedInv
<1>1. /\ render \in DOMAIN Renders /\ pass = 1 /\ left = Tiles(render, 1)
      /\ pc = [t \in Threads |-> "idle"]
  BY DEF Init
<1>2. \A b \in BlocksOf(render) : ~Decided(b)
  <2> SUFFICES ASSUME NEW b \in BlocksOf(render) PROVE ~Decided(b)
    OBVIOUS
  <2>1. b.pass \in Passes(render) /\ b.tile \in Tiles(render, b.pass)
    BY <1>1, BlockFacts
  <2>2. b.pass >= 1 /\ b.pass \in Nat
    BY <2>1 DEF Passes
  <2>3. ~(b.pass < pass)
    BY <1>1, <2>2
  <2> QED BY <1>1, <2>1, <2>3 DEF Decided
<1> QED
  BY <1>1, <1>2 DEF FindsInv, Finds, DecidedInv

LEMMA NextPassFinds ==
  ASSUME IInv, FindsInv, DecidedInv, NextPass
  PROVE  FindsInv' /\ DecidedInv'
<1> USE DEF IInv
<1>1. /\ pass + 1 \in Passes(render) /\ pass' = pass + 1 /\ left' = Tiles(render, pass + 1)
      /\ render' = render /\ pc' = pc /\ pools' = pools /\ left = {}
      /\ \A t \in Threads : pc[t] = "idle"
  BY DEF NextPass, tree, store
<1>2. FindsInv'
  BY <1>1 DEF FindsInv, Finds
<1>3. Pooled' = Pooled
  BY <1>1 DEF Pooled, BlocksIn
<1>4. ASSUME NEW b \in BlocksOf(render), Decided(b)' PROVE Decided(b)
  <2>1. b.tile \in Tiles(render, b.pass) /\ b.pass \in Nat /\ pass \in Nat
    BY BlockFacts, Numbers DEF Typed, Passes
  <2>2. b.pass < pass + 1
    BY <1>1, <1>4, <2>1 DEF Decided
  <2>3. b.pass < pass \/ b.pass = pass
    BY <2>1, <2>2
  <2> QED BY <1>1, <2>3 DEF Decided
<1> QED
  BY <1>1, <1>2, <1>3, <1>4 DEF DecidedInv

LEMMA StutterFinds ==
  ASSUME FindsInv, DecidedInv, UNCHANGED vars
  PROVE  FindsInv' /\ DecidedInv'
<1>1. /\ render' = render /\ pc' = pc /\ point' = point /\ todo' = todo /\ found' = found
      /\ nodes' = nodes /\ pools' = pools /\ pass' = pass /\ left' = left
  BY DEF vars
<1>2. Pooled' = Pooled /\ Taken' = Taken
  BY <1>1 DEF Pooled, BlocksIn, Taken
<1>3. FindsInv'
  BY <1>1, <1>2 DEF FindsInv, Finds, Settled, Ahead, Leads
<1>4. DecidedInv'
  BY <1>1, <1>2 DEF DecidedInv, Decided
<1> QED
  BY <1>3, <1>4

LEMMA NextFinds ==
  ASSUME IInv, FindsInv, DecidedInv, Next
  PROVE  FindsInv' /\ DecidedInv'
BY FindsStep, DecidedStep, NextPassFinds DEF Next

LEMMA DecidedReproducible ==
  ASSUME IInv, DecidedInv
  PROVE  Reproducible
<1> USE DEF IInv
<1> SUFFICES ASSUME Determined(render),
                    NEW p \in Passes(render), NEW c \in Tiles(render, p), Over(p, c)
             PROVE  {b \in Taken : b.pass = p /\ b.tile = c}
                      = {b \in OneThread[render] : b.pass = p /\ b.tile = c}
  BY DEF Reproducible
<1>1. ASSUME NEW b \in BlocksOf(render), b.pass = p, b.tile = c
      PROVE  b \in Taken <=> b \in OneThread[render]
  <2>1. \A t \in Threads : pc[t] # "idle" => point[t].pass = pass /\ ~(p = pass /\ point[t].tile = c)
    BY DEF Over, PointsInv
  <2>2. Decided(b)
    BY <1>1, <2>1 DEF Decided, Over
  <2>3. b \in Pooled <=> b \in Taken
    BY <1>1, <2>1, PooledTaken DEF TakenInv
  <2> QED BY <2>2, <2>3 DEF DecidedInv
<1>2. Taken \subseteq BlocksOf(render)
  BY DEF TakenInv, PooledInv
<1>3. OneThread[render] \subseteq BlocksOf(render)
  BY OneThreadIs DEF Typed
<1> QED
  BY <1>1, <1>2, <1>3

-----------------------------------------------------------------------------
(* The invariant of both theorems.                                         *)
RInv == IInv /\ FindsInv /\ DecidedInv

LEMMA InitRInv == Init => RInv
BY InitIInv, InitFinds DEF RInv

LEMMA NextRInv == RInv /\ [Next]_vars => RInv'
BY NextIInv, StutterStep, NextFinds, StutterFinds DEF RInv

(* However the threads meet, with any error bounds and any number of       *)
(* tiles, there is one tree, in which each sample is filed where it will   *)
(* be looked for and which nobody keeps locked; a search finds the samples *)
(* around its point that were there when it began; and a file gets each    *)
(* sample once.                                                            *)
THEOREM CacheIsOne == Spec => []CacheInv
<1>1. RInv => CacheInv
  BY InvCacheInv DEF RInv
<1> QED
  BY <1>1, InitRInv, NextRInv, PTL DEF Spec

(* In a render that is determined the tiles that are over have taken the   *)
(* samples that they take when one thread does all the work, whatever the  *)
(* number of threads and their order.                                      *)
THEOREM SamplesAreReproducible == Spec => []Reproducible
<1>1. RInv => Reproducible
  BY DecidedReproducible DEF RInv
<1> QED
  BY <1>1, InitRInv, NextRInv, PTL DEF Spec

(* A sample reaches no farther than the sphere that it is filed by: then   *)
(* it lies in a node around the point that asks.                           *)
LEMMA InItsSphere ==
  ASSUME NEW b \in Blocks, NEW p \in Blocks, Reaches(b, p), Reach(b, p) <= Sample(b).radius
  PROVE  FiledAround(b, p)
<1>1. Sample(b) \in Spots /\ Sample(p) \in Spots
  BY SampleTyped
<1>2. /\ Sample(b).at \in Int /\ Sample(p).at \in Int /\ Sample(b).radius \in Nat
      /\ Sample(b).distance \in Nat /\ Sample(p).bound \in Nat
  BY <1>1 DEF Spots
<1>3. Reach(b, p) \in Int
  BY <1>2 DEF Reach
<1>4. Sample(p).at - Sample(b).at \in (-Reach(b, p) + 1)..(Reach(b, p) - 1)
  BY DEF Reaches
<1> DEFINE reach == Reach(b, p)
<1> HIDE DEF reach
<1>5. reach \in Int /\ reach <= Sample(b).radius
      /\ Sample(p).at - Sample(b).at \in (-reach + 1)..(reach - 1)
  BY <1>3, <1>4 DEF reach
<1>6. Sample(b).at - Sample(b).radius <= Sample(p).at /\ Sample(p).at <= Sample(b).at + Sample(b).radius
  BY <1>2, <1>5
<1> QED
  BY <1>2, <1>6, IdFacts DEF FiledAround

(* Renders are determined in which no tile number is cut and no query      *)
(* looks farther than samples are filed: none whose bound a low weight     *)
(* raises above that of the final trace, and none below the first level of *)
(* recursion.                                                              *)
THEOREM SpheresDetermine ==
  ASSUME NEW r \in DOMAIN Renders, Renders[r].highReproducibility,
         \A p \in Passes(r) : Len(Work(r)[p]) <= TileIds,
         \A a, b \in BlocksOf(r) : Reach(a, b) <= Sample(a).radius
  PROVE  Determined(r)
<1> SUFFICES ASSUME NEW a \in BlocksOf(r), NEW b \in BlocksOf(r), Usable(a, b)
             PROVE  FiledAround(a, b)
  BY DEF Determined
<1>1. a \in Blocks /\ b \in Blocks
  BY DEF Blocks
<1>2. Reaches(a, b)
  BY DEF Usable
<1> QED
  BY <1>1, <1>2, InItsSphere

===============================================================================
