---------------------------- MODULE RadiosityCache ----------------------------
(***************************************************************************)
(* The radiosity cache (backend/lighting/radiosity.cpp) while the tiles of *)
(* an image are traced by several threads, pass by pass.  For each point a *)
(* thread looks for samples in the octree, which takes no lock, and adds a *)
(* sample if there are none it may reuse: GetNode finds or makes the       *)
(* octree's node, looking without a lock and looking again with it, and    *)
(* InsertBlock hangs the sample on it.  Samples live in pools that threads *)
(* take from one another, and are written to a file when a pool is given   *)
(* back.                                                                   *)
(*                                                                         *)
(* One sample that is found is enough, and weights, recursion depths and   *)
(* what a sample holds are left out.  A tile is a class of blocks that     *)
(* BlockDispatch hands out one after another; passes are apart, as the     *)
(* task queue has them (AppendSync).                                       *)
(***************************************************************************)
EXTENDS Octree, SequencesExt, Bags

CONSTANTS
  Threads, NoThread,
  Renders,              \* what may be rendered, a sequence of
                        \* [highReproducibility, work]: is the +HR option set,
                        \* and per pass, per tile the points where light is
                        \* asked for, see Spots
  TileIds,              \* numbers an OT_TILE can hold
  UnitSize              \* BLOCK_POOL_UNIT_SIZE

ASSUME TileIdsAssumption == TileIds \in Nat \ {0} /\ UnitSize \in Nat \ {0}
ASSUME ThreadsAssumption == NoThread \notin Threads

(* A point where light is asked for: the error bound of the query, which a *)
(* low weight raises (radiosity.cpp:413-416), and, should a sample be      *)
(* taken there, its Harmonic_Mean_Distance and the radius that it is filed *)
(* by, that distance times octreeAddressFactor, which knows no weight.     *)
(* Tiles and passes in which no light is asked for are left out.           *)
Spots == [at : Int, bound : Nat, distance : Nat, radius : Nat]
ASSUME RendersAssumption ==
  \A r \in DOMAIN Renders :
    /\ Renders[r].highReproducibility \in BOOLEAN
    /\ Renders[r].work \in Seq(Seq(Seq(Spots) \ {<<>>}) \ {<<>>}) \ {<<>>}

NoId == [size |-> -1, x |-> 0]

Work(r) == Renders[r].work
Passes(r) == 1..Len(Work(r))
Tiles(r, p) == 1..Len(Work(r)[p])
BlocksOf(r) ==
  UNION {UNION {[render : {r}, pass : {p}, tile : {c}, n : 1..Len(Work(r)[p][c])] :
                  c \in Tiles(r, p)} : p \in Passes(r)}
Blocks == UNION {BlocksOf(r) : r \in DOMAIN Renders}
Sample(b) == Work(b.render)[b.pass][b.tile][b.n]
IdOf == [b \in Blocks |-> IndexSphere(Sample(b).at, Sample(b).radius)]

(* MaxSize is large enough for each sample, and for one node over all.     *)
ASSUME SizesAssumption ==
  /\ \A b \in Blocks : \E s \in 0..MaxSize : HoldsSphere(s, Sample(b).at, Sample(b).radius)
  /\ \A a, b \in Blocks :
       a.render = b.render => AncestorAt(IdOf[a], MaxSize) = AncestorAt(IdOf[b], MaxSize)

(* BeforeTile's id: without +HR all the tiles are tile 0.                  *)
TileId(b) == IF Renders[b.render].highReproducibility THEN b.tile - 1 ELSE 0

VARIABLES
  render,               \* the one of Renders
  pass, left,           \* the pass, and its tiles that nobody has taken yet
  pc, point,            \* of a thread: where it is, and the point it is at
  todo, found,          \* the way back in ot_dist_traverse, samples found
  node,                 \* this_node
  pool,                 \* cacheBlockPool, 0 if it has none
  root, nodes,          \* the octree: 0 or a number in nodes
  treeMutex,            \* the thread that owns it
  pools, freePools,     \* all the pools, and blockPools
  file

vars == <<render, pass, left, pc, point, todo, found, node, pool, root, nodes, treeMutex,
          pools, freePools, file>>
tree == <<root, nodes, treeMutex>>
store == <<pools, freePools, file, pool>>

NoPoint == [render |-> 0, pass |-> 0, tile |-> 0, n |-> 0]

Init ==
  /\ render \in DOMAIN Renders
  /\ pass = 1 /\ left = Tiles(render, 1)
  /\ pc = [t \in Threads |-> "idle"] /\ point = [t \in Threads |-> NoPoint]
  /\ todo = [t \in Threads |-> <<>>] /\ found = [t \in Threads |-> {}]
  /\ node = [t \in Threads |-> 0] /\ pool = [t \in Threads |-> 0]
  /\ root = 0 /\ nodes = <<>> /\ treeMutex = NoThread
  /\ pools = <<>> /\ freePools = <<>> /\ file = EmptyBag

Goto(t, label) == pc' = [pc EXCEPT ![t] = label]
Here(t) == Sample(point[t])
Id(t) == IdOf[point[t]]

-----------------------------------------------------------------------------
(* Tiles and pools.                                                        *)

TakeTile(t) ==
  /\ pc[t] = "idle" /\ left # {}
  /\ left' = left \ {Min(left)}
  /\ point' = [point EXCEPT ![t] = [render |-> render, pass |-> pass,
                                    tile |-> Min(left), n |-> 1]]
  /\ Goto(t, "acquire")
  /\ UNCHANGED <<render, pass, todo, found, node, tree, store>>

NewPool == [blocks |-> <<>>, savedHead |-> 0, nextUnsaved |-> 0]

AcquireBlockPool(t) ==
  /\ pc[t] = "acquire"
  /\ IF freePools = <<>>
     THEN /\ pools' = Append(pools, NewPool)
          /\ pool' = [pool EXCEPT ![t] = Len(pools')] /\ UNCHANGED freePools
     ELSE /\ pool' = [pool EXCEPT ![t] = Last(freePools)]
          /\ freePools' = Front(freePools) /\ UNCHANGED pools
  /\ Goto(t, "query")
  /\ UNCHANGED <<render, pass, left, point, todo, found, node, tree, file>>

(* The units of a pool, the newest is the head of the list: unit u links   *)
(* to unit u - 1, and unit 0 is NULL.                                      *)
HeadOf(p) == (Len(p.blocks) + UnitSize - 1) \div UnitSize
NextFree(p) == Len(p.blocks) - UnitSize * (HeadOf(p) - 1)

ToSave(p, u) == {i \in 0..UnitSize - 1 : /\ u - 1 = p.savedHead => p.nextUnsaved <= i
                                         /\ u = HeadOf(p) => i < NextFree(p)}
Unsaved(p) == UNION {{p.blocks[UnitSize * (u - 1) + i + 1] : i \in ToSave(p, u)} :
                       u \in p.savedHead + 1..HeadOf(p)}

Save(t) ==
  /\ pc[t] = "save"
  /\ LET p == pools[pool[t]]
     IN  /\ file' = file (+) SetToBag(Unsaved(p))
         /\ pools' = IF p.blocks = <<>> THEN pools
                     ELSE [pools EXCEPT ![pool[t]].savedHead = HeadOf(p) - 1,
                                        ![pool[t]].nextUnsaved = NextFree(p)]
  /\ Goto(t, "release")
  /\ UNCHANGED <<render, pass, left, point, todo, found, node, pool, tree, freePools>>

ReleaseBlockPool(t) ==
  /\ pc[t] = "release"
  /\ freePools' = Append(freePools, pool[t])
  /\ pool' = [pool EXCEPT ![t] = 0]
  /\ Goto(t, "idle")
  /\ UNCHANGED <<render, pass, left, point, todo, found, node, tree, pools, file>>

(* All the tasks of a pass are over before those of the next one start.    *)
NextPass ==
  /\ left = {} /\ \A t \in Threads : pc[t] = "idle"
  /\ pass + 1 \in Passes(render)
  /\ pass' = pass + 1 /\ left' = Tiles(render, pass + 1)
  /\ UNCHANGED <<render, pc, point, todo, found, node, tree, store>>

(* The next point of the tile, or its end.                                 *)
NextPoint(t) ==
  IF point[t].n < Len(Work(render)[point[t].pass][point[t].tile])
  THEN Goto(t, "query") /\ point' = [point EXCEPT ![t].n = @ + 1]
  ELSE Goto(t, "save") /\ UNCHANGED point

-----------------------------------------------------------------------------
(* FindReusableBlock: one pointer is read at a time, and no lock is held.  *)

StartQuery(t) ==
  /\ pc[t] = "query"
  /\ found' = [found EXCEPT ![t] = {}]
  /\ IF root = 0 THEN Goto(t, "judge") /\ UNCHANGED todo
     ELSE Goto(t, "search") /\ todo' = [todo EXCEPT ![t] = <<[node |-> root, kid |-> 0]>>]
  /\ UNCHANGED <<render, pass, left, point, node, tree, store>>

LookAtKid(t) ==
  /\ pc[t] = "search" /\ Last(todo[t]).kid \in KidNumbers
  /\ LET at == Last(todo[t])
         kid == nodes[at.node].kids[at.kid]
         on == [todo[t] EXCEPT ![Len(todo[t])].kid = @ + 1]
     IN  todo' = [todo EXCEPT ![t] =
                    IF kid # 0 /\ InNode(Here(t).at, nodes[kid].id)
                    THEN Append(on, [node |-> kid, kid |-> 0]) ELSE on]
  /\ UNCHANGED <<render, pass, left, pc, point, found, node, tree, store>>

(* quickcheck_rad: how far a sample reaches is a matter of who asks.       *)
Reach(b, p) == Sample(b).distance * Sample(p).bound
Reaches(b, p) == Sample(p).at - Sample(b).at \in (-Reach(b, p) + 1)..(Reach(b, p) - 1)

(* Variant: samples of other tiles are used as soon as they are there.     *)
UsableAtOnce(b, p) == Reaches(b, p)

(* AverageNearBlock: TileId was cut to an OT_TILE when the block was made, *)
(* the number of the tile that asks was not.                               *)
Usable(b, p) ==
  /\ ~(b.pass = p.pass /\ TileId(b) % TileIds # TileId(p))
  /\ Reaches(b, p)

LookAtValues(t) ==
  /\ pc[t] = "search" /\ Last(todo[t]).kid \notin KidNumbers
  /\ found' = [found EXCEPT ![t] = @ \cup {b \in nodes[Last(todo[t]).node].values :
                                             Usable(b, point[t])}]
  /\ todo' = [todo EXCEPT ![t] = Front(@)]
  /\ IF Len(todo[t]) = 1 THEN Goto(t, "judge") ELSE UNCHANGED pc
  /\ UNCHANGED <<render, pass, left, point, node, tree, store>>

Reuse(t) ==
  /\ pc[t] = "judge" /\ found[t] # {}
  /\ NextPoint(t)
  /\ UNCHANGED <<render, pass, left, todo, found, node, tree, store>>

NewBlock(t) ==          \* AddBlock, as far as the call of GetNode
  /\ pc[t] = "judge" /\ found[t] = {}
  /\ pools' = [pools EXCEPT ![pool[t]].blocks = Append(@, point[t])]
  /\ Goto(t, "root")
  /\ UNCHANGED <<render, pass, left, point, todo, found, node, tree, pool, freePools, file>>

-----------------------------------------------------------------------------
(* GetNode.                                                                *)

Rest(t) == UNCHANGED <<render, pass, left, todo, found, store>>

LookForRoot(t) ==
  /\ pc[t] = "root"
  /\ Goto(t, IF root = 0 THEN "lockroot" ELSE "size")
  /\ UNCHANGED <<point, node, tree>> /\ Rest(t)

TreeFree(t) == treeMutex = NoThread /\ treeMutex' = t

LockRoot(t) ==
  /\ pc[t] = "lockroot" /\ TreeFree(t)
  /\ Goto(t, IF root = 0 THEN "makeroot" ELSE "size")
  /\ UNCHANGED <<point, node, root, nodes>> /\ Rest(t)

NoKids == [k \in KidNumbers |-> 0]

MakeRoot(t) ==          \* it is there before its Id is
  /\ pc[t] = "makeroot"
  /\ nodes' = Append(nodes, [id |-> NoId, kids |-> NoKids, values |-> {}])
  /\ root' = Len(nodes')
  /\ Goto(t, "fillroot")
  /\ UNCHANGED <<point, node, treeMutex>> /\ Rest(t)

FillRoot(t) ==
  /\ pc[t] = "fillroot"
  /\ nodes' = [nodes EXCEPT ![root].id = Id(t)]
  /\ node' = [node EXCEPT ![t] = root]
  /\ treeMutex' = NoThread
  /\ Goto(t, "insert")
  /\ UNCHANGED <<point, root>> /\ Rest(t)

RootTooSmall(t) == nodes[root].id.size < Id(t).size
RootElsewhere(t) == AncestorAt(Id(t), nodes[root].id.size) # nodes[root].id

CompareSize(t) ==
  /\ pc[t] = "size"
  /\ Goto(t, CASE ~RootTooSmall(t) -> "area"
               [] RootTooSmall(t) /\ treeMutex = t -> "grow"
               [] OTHER -> "lockgrow")
  /\ UNCHANGED <<point, node, tree>> /\ Rest(t)

CompareArea(t) ==       \* with a temp_root that is stable
  /\ pc[t] = "area"
  /\ Goto(t, CASE ~RootElsewhere(t) -> "enter"
               [] RootElsewhere(t) /\ treeMutex = t -> "widen"
               [] OTHER -> "lockwiden")
  /\ UNCHANGED <<point, node, tree>> /\ Rest(t)

Unlocked == [lockgrow |-> "grow", lockwiden |-> "widen", lockkid |-> "descend"]

Lock(t) ==
  /\ pc[t] \in DOMAIN Unlocked /\ TreeFree(t)
  /\ Goto(t, Unlocked[pc[t]])
  /\ UNCHANGED <<point, node, root, nodes>> /\ Rest(t)

(* Variant: the old root is put where the new one will be put.             *)
NewRootKid ==
  LET up == ot_parent(nodes[root].id)
  IN  /\ nodes' = Append(nodes, [id |-> up, values |-> {},
                                 kids |-> [NoKids EXCEPT ![KidIndex(up)] = root]])
      /\ root' = Len(nodes')

ot_newroot ==
  LET up == ot_parent(nodes[root].id)
  IN  /\ nodes' = Append(nodes, [id |-> up, values |-> {},
                                 kids |-> [NoKids EXCEPT ![KidIndex(nodes[root].id)] = root]])
      /\ root' = Len(nodes')

Grow(t) ==
  /\ pc[t] = "grow"
  /\ IF RootTooSmall(t) THEN ot_newroot /\ UNCHANGED pc
                        ELSE Goto(t, "area") /\ UNCHANGED <<root, nodes>>
  /\ UNCHANGED <<point, node, treeMutex>> /\ Rest(t)

Widen(t) ==
  /\ pc[t] = "widen"
  /\ IF RootElsewhere(t) THEN ot_newroot /\ UNCHANGED pc
                         ELSE Goto(t, "enter") /\ UNCHANGED <<root, nodes>>
  /\ UNCHANGED <<point, node, treeMutex>> /\ Rest(t)

Enter(t) ==
  /\ pc[t] = "enter"
  /\ node' = [node EXCEPT ![t] = root]
  /\ Goto(t, "descend")
  /\ UNCHANGED <<point, tree>> /\ Rest(t)

Descend(t) ==
  LET this == nodes[node[t]]
      kid == AncestorAt(Id(t), this.id.size - 1)
      index == KidIndex(kid)
  IN  /\ pc[t] = "descend" /\ this.id.size > Id(t).size
      /\ \/ /\ this.kids[index] # 0
            /\ node' = [node EXCEPT ![t] = this.kids[index]]
            /\ UNCHANGED <<pc, root, nodes>>
         \/ /\ this.kids[index] = 0 /\ treeMutex # t
            /\ Goto(t, "lockkid") /\ UNCHANGED <<node, root, nodes>>
         \/ /\ this.kids[index] = 0 /\ treeMutex = t
            /\ nodes' = [Append(nodes, [id |-> kid, kids |-> NoKids, values |-> {}])
                           EXCEPT ![node[t]].kids[index] = Len(nodes) + 1]
            /\ node' = [node EXCEPT ![t] = Len(nodes')]
            /\ UNCHANGED <<pc, root>>
      /\ UNCHANGED <<point, treeMutex>> /\ Rest(t)

ReturnNode(t) ==
  /\ pc[t] = "descend" /\ nodes[node[t]].id.size <= Id(t).size
  /\ treeMutex' = IF treeMutex = t THEN NoThread ELSE treeMutex
  /\ Goto(t, "insert")
  /\ UNCHANGED <<point, node, root, nodes>> /\ Rest(t)

InsertBlock(t) ==
  /\ pc[t] = "insert"
  /\ nodes' = [nodes EXCEPT ![node[t]].values = @ \cup {point[t]}]
  /\ node' = [node EXCEPT ![t] = 0]
  /\ NextPoint(t)
  /\ UNCHANGED <<root, treeMutex>> /\ Rest(t)

-----------------------------------------------------------------------------
Step(t) ==
  \/ TakeTile(t) \/ AcquireBlockPool(t) \/ Save(t) \/ ReleaseBlockPool(t)
  \/ StartQuery(t) \/ LookAtKid(t) \/ LookAtValues(t) \/ Reuse(t) \/ NewBlock(t)
  \/ LookForRoot(t) \/ LockRoot(t) \/ MakeRoot(t) \/ FillRoot(t)
  \/ CompareSize(t) \/ CompareArea(t) \/ Lock(t) \/ Grow(t) \/ Widen(t)
  \/ Enter(t) \/ Descend(t) \/ ReturnNode(t) \/ InsertBlock(t)

Next == NextPass \/ \E t \in Threads : Step(t)

Spec == Init /\ [][Next]_vars

-----------------------------------------------------------------------------
Labels == {"idle", "acquire", "save", "release", "query", "search", "judge", "root",
           "lockroot", "makeroot", "fillroot", "size", "area", "grow", "widen", "enter",
           "descend", "insert"} \cup DOMAIN Unlocked

TypeOK ==
  /\ render \in DOMAIN Renders
  /\ pass \in Passes(render) /\ left \subseteq Tiles(render, pass)
  /\ pc \in [Threads -> Labels] /\ point \in [Threads -> Blocks \cup {NoPoint}]
  /\ \A t \in Threads : found[t] \subseteq Blocks /\ Len(todo[t]) <= MaxSize + 1
  /\ node \in [Threads -> 0..Len(nodes)] /\ pool \in [Threads -> 0..Len(pools)]
  /\ root \in 0..Len(nodes) /\ treeMutex \in Threads \cup {NoThread}
  /\ \A i \in 1..Len(nodes) : nodes[i].values \subseteq Blocks
  \* the lock is owned where the tree is changed, and a pool is nobody else's
  /\ \A t \in Threads : pc[t] \in {"makeroot", "fillroot", "grow", "widen"} => treeMutex = t
  /\ \A t, u \in Threads : t # u /\ pool[t] # 0 => pool[t] # pool[u]

(* However the threads meet, the nodes form one tree: every node but the   *)
(* root hangs on its parent, in its place, and no node is there twice.     *)
TreeIsOne ==
  /\ \A i \in 1..Len(nodes) \ {root} :
       \E j \in 1..Len(nodes) : nodes[j].kids[KidIndex(nodes[i].id)] = i
  /\ \A i, j \in 1..Len(nodes) : \A k \in KidNumbers : nodes[j].kids[k] = i =>
       /\ i # root
       /\ nodes[j].id = ot_parent(nodes[i].id) /\ k = KidIndex(nodes[i].id)
  /\ \A i, j \in 1..Len(nodes) : nodes[i].id = nodes[j].id => i = j

(* A sample is filed where those who look for it will look.                *)
WellFiled == \A i \in 1..Len(nodes) : \A b \in nodes[i].values : nodes[i].id = IdOf[b]

Taken == UNION {nodes[i].values : i \in 1..Len(nodes)}

(* The file gets every sample once, however pools go from thread to        *)
(* thread, and the destructor finds them saved.                            *)
SavedOnce ==
  /\ \A b \in BagToSet(file) : file[b] = 1
  /\ (left = {} /\ \A t \in Threads : pc[t] = "idle") =>
       /\ BagToSet(file) = Taken
       /\ \A i \in 1..Len(pools) :
            LET p == pools[i]
            IN  p.blocks # <<>> => p.savedHead = HeadOf(p) - 1 /\ p.nextUnsaved = NextFree(p)

(* Who has the lock is in GetNode, and does not ask for it again.          *)
LockIsGivenBack ==
  treeMutex # NoThread =>
    pc[treeMutex] \in {"makeroot", "fillroot", "size", "area", "grow", "widen", "enter", "descend"}

(* The samples that are there when a search begins, or put there by its    *)
(* own tile, and those that lie in a node around the point that asks.      *)
Settled(t, b) == b.pass < pass \/ b.tile = point[t].tile
FiledAround(b, p) == InNode(Sample(p).at, IdOf[b])

(* However the tree grows meanwhile, above and below the thread that goes  *)
(* through it without a lock, its search misses no such sample, and comes  *)
(* back with nothing that is not in the tree or may not be used.           *)
SearchesFind ==
  \A t \in Threads : pc[t] = "judge" =>
    /\ \A b \in Taken : Settled(t, b) /\ Usable(b, point[t]) /\ FiledAround(b, point[t]) =>
         b \in found[t]
    /\ \A b \in found[t] : b \in Taken /\ Usable(b, point[t])

(* However the threads meet, there is one tree, in which each sample is    *)
(* found and which nobody keeps locked, and a file with all of its samples.*)
(* That is so in any render: "An overflow in tileId will only impact       *)
(* reproducibility" (radiosity.cpp:1256).                                  *)
CacheInv == TypeOK /\ TreeIsOne /\ WellFiled /\ SavedOnce /\ LockIsGivenBack /\ SearchesFind

Over(p, c) == /\ p < pass \/ (p = pass /\ c \notin left)
              /\ \A t \in Threads : pc[t] # "idle" => <<point[t].pass, point[t].tile>> # <<p, c>>

Before(a, b) == \/ a.pass < b.pass
                \/ a.pass = b.pass /\ a.tile < b.tile
                \/ a.pass = b.pass /\ a.tile = b.tile /\ a.n < b.n

(* What one thread takes that does tile after tile, and for each point     *)
(* goes through the list of all the samples that it has.                   *)
OneThread == [r \in DOMAIN Renders |->
  CHOOSE S \in SUBSET BlocksOf(r) :
    \A b \in BlocksOf(r) : b \in S <=> ~\E a \in S : Before(a, b) /\ Usable(a, b)]

(* Renders in which the samples taken do not depend on the threads: tile   *)
(* numbers are not cut, and no sample reaches a point that lies outside    *)
(* its node.  From there it is found only while that node is the root,     *)
(* which a search does not test (octree.cpp:584), and another thread may   *)
(* give the tree a new root at any time.                                   *)
Determined(r) ==
  /\ Renders[r].highReproducibility
  /\ \A p \in Passes(r) : Len(Work(r)[p]) <= TileIds
  /\ \A a, b \in BlocksOf(r) : Usable(a, b) => FiledAround(a, b)

(* "POV-Ray will spend extra effort to make sure renders are deterministic *)
(* despite SMP" (r3_2.html:3341), as far as it is so: a tile takes the     *)
(* samples that it takes when one thread does all the work, and finds all  *)
(* of those in the tree.                                                   *)
Reproducible ==
  Determined(render) =>
    \A p \in Passes(render) : \A c \in Tiles(render, p) :
      Over(p, c) => {b \in Taken : b.pass = p /\ b.tile = c}
                      = {b \in OneThread[render] : b.pass = p /\ b.tile = c}

=============================================================================
