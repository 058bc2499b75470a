------------------------- MODULE BlockDispatchProofs -------------------------
(***************************************************************************)
(* Proofs about BlockDispatch for every number of blocks, every set of     *)
(* threads, every restart point, and any number of passes of each kind.    *)
(* Then about BlockPixels: areas of any size, blocks of any size, every    *)
(* pattern and step.                                                       *)
(***************************************************************************)
EXTENDS BlockPixels, FiniteSetTheorems, WellFoundedInduction, TLAPS

(* The passes that walk once through the blocks, from fs to the end.       *)
OneWalk == kind # "revisit"

StrideInv == kind = "strided" => stride # 0

(* What was handed out, or is rendered, is a block of the pass.            *)
HandedInv ==
  /\ \A t \in Threads : pc[t] = "rendering" => count[serial[t]] >= 1
  /\ \A b \in Blocks : b \notin ToDo => count[b] = 0 /\ blockInfoList[b] = 0
  /\ OneWalk => \A b \in Blocks : blockInfoList[b] = 0

(* blockSkipList forgets what a simple walk has passed.                    *)
SkipInv ==
  /\ bsl \subseteq {b \in Blocks : b >= fs}
  /\ blockSkipList = IF kind \in {"simple", "preview"}
                     THEN {b \in bsl : b >= nextBlock} ELSE bsl

PostponedInv ==
  /\ kind # "strided" => blockPostponedList = {}
  /\ \A b \in blockPostponedList : b \in ToDo /\ b < nextBlock

(* Behind the walk every block has been handed out once or is postponed.   *)
WalkInv ==
  OneWalk =>
    /\ fs <= nextBlock
    /\ \A b \in ToDo :
         count[b] = IF b >= nextBlock \/ b \in blockPostponedList THEN 0 ELSE 1

(* In the first round of a circle, as in a walk; afterwards all have been. *)
CircleInv ==
  kind = "revisit" =>
    /\ ~completedFirstPass =>
         /\ fs <= nextBlock
         /\ \A b \in ToDo : b < nextBlock <=> count[b] >= 1
    /\ completedFirstPass => \A b \in ToDo : count[b] >= 1

EndInv ==
  AllEnded =>
    /\ \A b \in ToDo : count[b] >= 1
    /\ \A b \in Blocks : blockInfoList[b] = 0
    /\ blockPostponedList = {}

IInv == /\ TypeOK /\ OneRenderer /\ StrideInv /\ HandedInv /\ SkipInv
        /\ PostponedInv /\ WalkInv /\ CircleInv /\ EndInv /\ ClassesInOrder

-----------------------------------------------------------------------------
(* Blocks and numbers.                                                     *)

LEMMA BlocksTyped ==
  /\ NumBlocks \in Nat /\ 0 \in Blocks
  /\ \A b \in Blocks : b \in Nat /\ b < NumBlocks
BY BlocksAssumption DEF Blocks

LEMMA MinExists ==
  ASSUME NEW S \in SUBSET Nat, S # {} PROVE \E x \in S : \A y \in S : x <= y
<1> DEFINE R == {p \in Nat \X Nat : p[1] < p[2]}
<1>1. IsWellFoundedOn(R, Nat)
  BY NatLessThanWellFounded DEF OpToRel
<1>2. PICK x \in S : \A y \in S : <<y, x>> \notin R
  <2> HIDE DEF R
  <2> QED
    BY <1>1, WFMin
<1>3. \A y \in S : ~(y < x)
  BY <1>2
<1> QED
  BY <1>3

LEMMA MinBlock ==
  ASSUME NEW S \in SUBSET Blocks, S # {}
  PROVE  Min(S) \in S /\ Min(S) \in Blocks /\ \A b \in S : Min(S) <= b
<1>1. S \in SUBSET Nat
  BY BlocksTyped
<1>2. \E x \in S : \A y \in S : x <= y
  BY <1>1, MinExists
<1> QED
  BY <1>2 DEF Min

LEMMA Multiples ==
  ASSUME NEW x \in Nat, NEW s \in Nat \ {0}, x % s = 0
  PROVE  \E k \in Nat : x = s * k
<1>1. x = s * (x \div s) + (x % s) /\ x \div s \in Nat
  OBVIOUS
<1> QED
  BY <1>1

LEMMA MultipleDivides == ASSUME NEW k \in Nat, NEW s \in Nat \ {0} PROVE (s * k) % s = 0
OBVIOUS

LEMMA SumDivides ==
  ASSUME NEW x \in Nat, NEW y \in Nat, NEW s \in Nat \ {0}, x % s = 0, y % s = 0
  PROVE  (x + y) % s = 0
<1>1. PICK i \in Nat : x = s * i
  BY Multiples
<1>2. PICK j \in Nat : y = s * j
  BY Multiples
<1>3. x + y = s * (i + j) /\ i + j \in Nat
  BY <1>1, <1>2
<1> QED
  BY <1>3, MultipleDivides

(* What avoids a block avoids those of its class behind it.                *)
LEMMA AvoidClass ==
  ASSUME TypeOK, stride # 0, NEW a \in Blocks, NEW b \in Blocks, a <= b,
         (b - a) % stride = 0, Avoid(a)
  PROVE  Avoid(b)
<1>1. PICK c \in blockBusyList : a >= c /\ (a - c) % stride = 0
  BY DEF Avoid
<1>2. a \in Nat /\ b \in Nat /\ c \in Nat /\ stride \in Nat \ {0}
  BY <1>1, BlocksTyped DEF TypeOK
<1>3. b - a \in Nat /\ a - c \in Nat /\ b - c = (b - a) + (a - c)
  BY <1>1, <1>2
<1>4. ((b - a) + (a - c)) % stride = 0
  BY <1>1, <1>2, <1>3, SumDivides
<1>5. b >= c /\ (b - c) % stride = 0
  BY <1>1, <1>2, <1>3, <1>4
<1> QED
  BY <1>5 DEF Avoid

(* A pass has a task.                                                      *)
LEMMA CrewNotEmpty ==
  ASSUME NEW k, NEW n \in Nat, k = "strided" => n # 0, NEW c \in Crew(k, n)
  PROVE  c \subseteq Threads /\ c # {}
<1>1. Cardinality(Threads) # 0 /\ Cardinality({}) = 0
  BY ThreadsAssumption, FS_EmptySet
<1> QED
  BY <1>1 DEF Crew

LEMMA CrewAsks ==
  ASSUME NEW c, c \subseteq Threads, c # {}, NEW p, p = Asking(c)
  PROVE  /\ p \in [Threads -> {"asking", "rendering", "ended"}]
         /\ \A t \in Threads : p[t] # "rendering"
         /\ \E t \in Threads : p[t] # "ended"
BY DEF Asking

-----------------------------------------------------------------------------
(* A block is handed out, or a task ends.                                  *)

Kept == <<fs, bsl, kind, stride, pass>>

LEMMA HandedOut ==
  ASSUME IInv, NEW t \in Threads, pc[t] = "asking", NEW b \in ToDo, HandOut(t, b),
         \A u \in Rendering : serial[u] # b
  PROVE  /\ UNCHANGED Kept /\ UNCHANGED blockInfoList
         /\ pc' \in [Threads -> {"asking", "rendering", "ended"}] /\ pc'[t] = "rendering"
         /\ serial' \in [Threads -> Blocks] /\ count' \in [Blocks -> Nat]
         /\ blockBusyList' = blockBusyList \cup {b} /\ blockBusyList' \subseteq Blocks
         /\ count'[b] = count[b] + 1 /\ \A a \in Blocks \ {b} : count'[a] = count[a]
         /\ OneRenderer' /\ HandedInv' /\ ~AllEnded'
<1>1. b \in Blocks
  BY DEF ToDo
<1>2. UNCHANGED Kept /\ UNCHANGED blockInfoList
  BY DEF HandOut, given, Kept
<1>3. /\ pc' \in [Threads -> {"asking", "rendering", "ended"}] /\ pc'[t] = "rendering"
      /\ serial' \in [Threads -> Blocks] /\ serial'[t] = b
      /\ \A u \in Threads \ {t} : pc'[u] = pc[u] /\ serial'[u] = serial[u]
  BY <1>1 DEF HandOut, IInv, TypeOK
<1>4. blockBusyList' = blockBusyList \cup {b} /\ blockBusyList' \subseteq Blocks
  BY <1>1 DEF HandOut, IInv, TypeOK
<1>5. /\ count' \in [Blocks -> Nat]
      /\ count'[b] = count[b] + 1 /\ \A a \in Blocks \ {b} : count'[a] = count[a]
  BY <1>1 DEF HandOut, IInv, TypeOK
<1>6. OneRenderer'
  <2>1. Rendering' = Rendering \cup {t}
    BY <1>3 DEF Rendering
  <2>2. {serial'[u] : u \in Rendering'} = {serial[u] : u \in Rendering \ {t}} \cup {b}
    BY <2>1, <1>3 DEF Rendering
  <2>3. t \notin Rendering
    BY DEF Rendering
  <2>4. \A u, v \in Rendering' : u # v => serial'[u] # serial'[v]
    BY <2>1, <1>3 DEF IInv, OneRenderer, Rendering
  <2> QED
    BY <2>2, <2>3, <2>4, <1>2, <1>4 DEF IInv, OneRenderer, Kept
<1>7. HandedInv'
  <2>1. ASSUME NEW u \in Threads, pc'[u] = "rendering" PROVE count'[serial'[u]] >= 1
    <3>1. count[b] \in Nat /\ \A a \in Blocks : count[a] \in Nat /\ count'[a] >= count[a]
      BY <1>1, <1>5 DEF IInv, TypeOK
    <3>2. CASE u = t
      BY <1>3, <1>5, <3>1, <3>2
    <3>3. CASE u # t
      <4>1. serial[u] \in Blocks /\ count[serial[u]] >= 1
        BY <2>1, <1>3, <3>3 DEF IInv, HandedInv, TypeOK
      <4>2. serial'[u] = serial[u]
        BY <1>3, <3>3
      <4>3. count'[serial[u]] >= count[serial[u]] /\ count[serial[u]] \in Nat
            /\ count'[serial[u]] \in Nat
        BY <1>5, <3>1, <4>1
      <4> QED
        BY <4>1, <4>2, <4>3
    <3> QED
      BY <3>2, <3>3
  <2>2. ASSUME NEW a \in Blocks, a \notin ToDo' PROVE count'[a] = 0 /\ blockInfoList'[a] = 0
    BY <2>2, <1>2, <1>5 DEF IInv, HandedInv, ToDo, Kept
  <2> QED
    BY <2>1, <2>2, <1>2 DEF HandedInv, IInv, OneWalk, Kept
<1>8. ~AllEnded'
  BY <1>3 DEF AllEnded
<1> QED
  BY <1>2, <1>3, <1>4, <1>5, <1>6, <1>7, <1>8

LEMMA TaskEnded ==
  ASSUME IInv, NEW t \in Threads, pc[t] = "asking", NoMore(t)
  PROVE  /\ UNCHANGED Kept /\ UNCHANGED <<blockInfoList, blockBusyList, serial, count>>
         /\ pc' \in [Threads -> {"asking", "rendering", "ended"}]
         /\ OneRenderer' /\ HandedInv'
         /\ AllEnded' => Rendering = {}
<1>1. UNCHANGED Kept /\ UNCHANGED <<blockInfoList, blockBusyList, serial, count>>
  BY DEF NoMore, given, Kept
<1>2. pc' \in [Threads -> {"asking", "rendering", "ended"}] /\ Rendering' = Rendering
      /\ \A u \in Threads : pc'[u] = "rendering" => pc[u] = "rendering"
  BY DEF NoMore, IInv, TypeOK, Rendering
<1>3. OneRenderer'
  BY <1>1, <1>2 DEF IInv, OneRenderer, Kept
<1>4. HandedInv'
  BY <1>1, <1>2 DEF IInv, HandedInv, ToDo, OneWalk, Kept
<1>5. AllEnded' => Rendering = {}
  BY <1>2 DEF AllEnded, Rendering
<1> QED
  BY <1>1, <1>2, <1>3, <1>4, <1>5

-----------------------------------------------------------------------------
(* The walk of the two-argument function.                                  *)

(* What it has left is what the pass has to do from nextBlock on.          *)
LEMMA LeftToDo ==
  ASSUME IInv, fs <= nextBlock, NEW b \in Blocks
  PROVE  b \in {a \in Blocks : a >= nextBlock} \ blockSkipList <=> b \in ToDo /\ b >= nextBlock
<1>1. b \in Nat /\ nextBlock \in Nat /\ fs \in Nat
  BY BlocksTyped DEF IInv, TypeOK
<1>2. b >= nextBlock => b >= fs /\ (b \in blockSkipList <=> b \in bsl)
  BY <1>1 DEF IInv, SkipInv
<1> QED
  BY <1>2 DEF ToDo

LEMMA NotRendered ==
  ASSUME IInv, NEW b \in Blocks, count[b] = 0 PROVE \A u \in Rendering : serial[u] # b
BY DEF IInv, HandedInv, Rendering

LEMMA AskSimpleInv ==
  ASSUME IInv, NEW t \in Threads, AskSimple(t) PROVE IInv'
<1> DEFINE left == {b \in Blocks : b >= nextBlock} \ blockSkipList
           stop == IF left = {} THEN NumBlocks ELSE Min(left)
<1>1. /\ pc[t] = "asking" /\ kind \in {"simple", "preview"}
      /\ UNCHANGED <<blockPostponedList, completedFirstPass>>
      /\ blockSkipList' = blockSkipList \ (nextBlock..(stop - 1))
      /\ IF left = {} THEN nextBlock' = NumBlocks /\ NoMore(t)
                      ELSE nextBlock' = stop + 1 /\ HandOut(t, stop)
  BY DEF AskSimple
<1>2. /\ OneWalk /\ kind # "strided" /\ fs <= nextBlock /\ nextBlock \in 0..NumBlocks
      /\ nextBlock \in Nat /\ fs \in Nat /\ NumBlocks \in Nat
      /\ blockPostponedList = {}
  BY <1>1, BlocksTyped DEF IInv, WalkInv, OneWalk, TypeOK, PostponedInv
<1>3. \A b \in Blocks : b \in left <=> b \in ToDo /\ b >= nextBlock
  BY <1>2, LeftToDo
<1>4. /\ stop \in Nat /\ nextBlock <= stop /\ stop <= NumBlocks
      /\ left # {} => stop \in left /\ stop \in ToDo /\ stop < NumBlocks /\ stop \in Blocks
      /\ \A b \in Blocks : b \in ToDo /\ b >= nextBlock => b >= stop
  <2>1. CASE left = {}
    BY <1>2, <1>3, <2>1, BlocksTyped
  <2>2. CASE left # {}
    <3>1. left \in SUBSET Blocks
      OBVIOUS
    <3>2. Min(left) \in left /\ Min(left) \in Blocks /\ \A b \in left : Min(left) <= b
      BY <2>2, <3>1, MinBlock
    <3> HIDE DEF left
    <3>3. stop = Min(left)
      BY <2>2
    <3> QED
      BY <1>2, <1>3, <2>2, <3>2, <3>3, BlocksTyped
  <2> QED
    BY <2>1, <2>2
<1> HIDE DEF left, stop
<1>5. left # {} => \A u \in Rendering : serial[u] # stop
  BY <1>2, <1>4, NotRendered DEF IInv, WalkInv
<1>6. /\ UNCHANGED Kept /\ UNCHANGED blockInfoList /\ ToDo' = ToDo
      /\ pc' \in [Threads -> {"asking", "rendering", "ended"}]
      /\ serial' \in [Threads -> Blocks] /\ count' \in [Blocks -> Nat]
      /\ blockBusyList' \subseteq Blocks /\ OneRenderer' /\ HandedInv'
  <2>1. CASE left = {}
    BY <1>1, <2>1, TaskEnded DEF IInv, TypeOK, ToDo, Kept
  <2>2. CASE left # {}
    BY <1>1, <1>4, <2>2, <1>5, HandedOut DEF ToDo, Kept
  <2> QED
    BY <2>1, <2>2
<1>7. /\ nextBlock' \in 0..NumBlocks /\ fs <= nextBlock'
      /\ \A b \in ToDo : count'[b] = IF b >= nextBlock' THEN 0 ELSE 1
  <2>1. CASE left = {}
    <3>1. nextBlock' = NumBlocks /\ count' = count
      BY <1>1, <2>1, TaskEnded
    <3>2. \A b \in ToDo : b \in Blocks /\ b \in Nat /\ b < NumBlocks /\ ~(b >= nextBlock)
      BY <1>3, <2>1, BlocksTyped DEF ToDo
    <3> QED
      BY <1>2, <3>1, <3>2 DEF IInv, WalkInv
  <2>2. CASE left # {}
    <3>1. /\ nextBlock' = stop + 1 /\ count'[stop] = count[stop] + 1
          /\ \A a \in Blocks \ {stop} : count'[a] = count[a]
      BY <1>1, <1>4, <2>2, <1>5, HandedOut
    <3>2. ASSUME NEW b \in ToDo PROVE count'[b] = IF b >= nextBlock' THEN 0 ELSE 1
      <4>1. b \in Blocks /\ b \in Nat /\ (b >= nextBlock => b >= stop)
        BY <1>4, BlocksTyped DEF ToDo
      <4>2. count[b] = IF b >= nextBlock THEN 0 ELSE 1
        BY <1>2 DEF IInv, WalkInv
      <4> QED
        BY <1>2, <1>4, <2>2, <3>1, <4>1, <4>2
    <3> QED
      BY <1>2, <1>4, <2>2, <3>1, <3>2
  <2> QED
    BY <2>1, <2>2
<1>8. SkipInv'
  <2>1. bsl' = bsl /\ fs' = fs /\ kind' = kind
    BY <1>6 DEF Kept
  <2>2. /\ bsl \subseteq {b \in Blocks : b >= fs}
        /\ blockSkipList = {b \in bsl : b >= nextBlock}
    BY <1>1 DEF IInv, SkipInv
  <2>3. ASSUME NEW b \in bsl
        PROVE  b \in blockSkipList' <=> b >= nextBlock'
    <3>1. b \in Nat /\ b < NumBlocks /\ b \in Blocks
      BY <2>2, BlocksTyped
    <3>2. b \in blockSkipList' <=> b >= nextBlock /\ b >= stop
      BY <1>1, <1>2, <1>4, <2>2, <3>1
    <3>3. CASE left = {}
      <4>1. stop = NumBlocks /\ nextBlock' = NumBlocks
        BY <1>1, <3>3 DEF stop
      <4> QED
        BY <3>1, <3>2, <4>1, <1>2
    <3>4. CASE left # {}
      <4>1. b # stop
        BY <1>4, <3>4 DEF ToDo
      <4> QED
        BY <1>1, <1>2, <1>4, <3>1, <3>2, <3>4, <4>1
    <3> QED
      BY <3>3, <3>4
  <2>4. blockSkipList' \subseteq bsl
    BY <1>1, <2>2
  <2>5. blockSkipList' = {b \in bsl : b >= nextBlock'}
    BY <2>3, <2>4
  <2> QED
    BY <1>1, <2>1, <2>2, <2>5 DEF SkipInv
<1>9. EndInv'
  <2> SUFFICES ASSUME AllEnded' PROVE EndInv'
    BY DEF EndInv
  <2>1. left = {}
    BY <1>1, <1>4, <1>5, HandedOut
  <2>2. nextBlock' = NumBlocks
    BY <1>1, <2>1
  <2>3. \A b \in ToDo : b \in Blocks /\ ~(b >= NumBlocks)
    BY BlocksTyped DEF ToDo
  <2>4. \A b \in ToDo : count'[b] = 1
    BY <1>7, <2>2, <2>3
  <2>5. \A b \in Blocks : blockInfoList'[b] = 0
    BY <1>2, <1>6 DEF IInv, HandedInv
  <2> QED
    BY <1>1, <1>2, <1>6, <2>4, <2>5 DEF EndInv
<1>10. TypeOK'
  BY <1>1, <1>6, <1>7 DEF IInv, TypeOK, Kept
<1>11. PostponedInv' /\ WalkInv' /\ CircleInv' /\ StrideInv' /\ ClassesInOrder'
  BY <1>1, <1>2, <1>6, <1>7 DEF PostponedInv, WalkInv, CircleInv, StrideInv, ClassesInOrder,
     Kept, OneWalk
<1> QED
  BY <1>6, <1>8, <1>9, <1>10, <1>11 DEF IInv

-----------------------------------------------------------------------------
(* The walk with a stride.  When it hands out a block, the blocks of its    *)
(* class before it have been handed out and are not rendered any more.     *)

LEMMA StridedFacts ==
  ASSUME IInv, kind = "strided"
  PROVE  /\ OneWalk /\ fs <= nextBlock /\ stride \in Nat \ {0} /\ blockSkipList = bsl
         /\ nextBlock \in Nat /\ fs \in Nat /\ NumBlocks \in Nat /\ nextBlock \in 0..NumBlocks
         /\ \A b \in Blocks : count[b] \in Nat
         /\ blockBusyList \subseteq {serial[t] : t \in Rendering}
         /\ \A b \in ToDo : count[b] = IF b >= nextBlock \/ b \in blockPostponedList
                                       THEN 0 ELSE 1
BY BlocksTyped
DEF IInv, TypeOK, StrideInv, SkipInv, WalkInv, OneWalk, OneRenderer

(* The blocks before b in its class that it would have to wait for.        *)
LEMMA StridedHandOut ==
  ASSUME IInv, NEW t \in Threads, pc[t] = "asking", kind = "strided",
         NEW b \in ToDo, count[b] = 0, ~Avoid(b), HandOut(t, b),
         \A a \in ToDo : a < b /\ count[a] = 0 => Avoid(a)
  PROVE  ClassesInOrder'
<1>1. /\ UNCHANGED Kept /\ blockBusyList' = blockBusyList \cup {b}
      /\ count'[b] = count[b] + 1 /\ \A a \in Blocks \ {b} : count'[a] = count[a]
  BY NotRendered, HandedOut DEF ToDo
<1>2. ToDo' = ToDo /\ stride' = stride /\ stride # 0
  BY <1>1 DEF ToDo, Kept, IInv, StrideInv
<1> SUFFICES ASSUME NEW a \in ToDo, NEW c \in ToDo, a < c, (c - a) % stride = 0, count'[c] > 0
             PROVE  count'[a] > 0 /\ a \notin blockBusyList'
  BY <1>2 DEF ClassesInOrder
<1>3. a \in Blocks /\ c \in Blocks /\ b \in Blocks /\ a \in Nat /\ c \in Nat /\ b \in Nat
  BY BlocksTyped DEF ToDo
<1>4. count[a] \in Nat /\ count[c] \in Nat
  BY <1>3 DEF IInv, TypeOK
<1>5. CASE c # b
  <2>1. count[a] > 0 /\ a \notin blockBusyList
    BY <1>1, <1>3, <1>5 DEF IInv, ClassesInOrder
  <2>2. a # b
    BY <2>1
  <2> QED
    BY <1>1, <1>3, <2>1, <2>2
<1>6. CASE c = b
  <2>1. a # b /\ ~Avoid(a)
    BY <1>2, <1>3, <1>6, AvoidClass DEF IInv
  <2>2. count[a] > 0
    BY <1>4, <1>6, <2>1
  <2>3. stride \in Nat \ {0}
    BY <1>2 DEF IInv, TypeOK
  <2>4. a >= a /\ (a - a) % stride = 0
    BY <1>3, <2>3
  <2>5. a \notin blockBusyList
    BY <2>1, <2>4 DEF Avoid
  <2> QED
    BY <1>1, <1>3, <2>1, <2>2, <2>5
<1> QED
  BY <1>5, <1>6

LEMMA AskPostponedInv ==
  ASSUME IInv, NEW t \in Threads, AskPostponed(t) PROVE IInv'
<1> DEFINE usable == {b \in blockPostponedList : ~Avoid(b)}
           b == Min(usable)
<1>1. /\ pc[t] = "asking" /\ kind = "strided" /\ usable # {}
      /\ blockPostponedList' = blockPostponedList \ {b} /\ HandOut(t, b)
      /\ UNCHANGED <<nextBlock, blockSkipList, completedFirstPass>>
  BY DEF AskPostponed
<1>2. b \in usable /\ b \in Blocks /\ \A a \in usable : b <= a
  <2>1. usable \in SUBSET Blocks
    BY DEF IInv, TypeOK
  <2> HIDE DEF usable
  <2> QED
    BY <1>1, <2>1, MinBlock
<1> HIDE DEF b
<1>3. b \in blockPostponedList /\ b \in ToDo /\ b < nextBlock /\ ~Avoid(b) /\ count[b] = 0
  BY <1>1, <1>2, StridedFacts DEF IInv, PostponedInv
<1>4. /\ UNCHANGED Kept /\ UNCHANGED blockInfoList
      /\ pc' \in [Threads -> {"asking", "rendering", "ended"}]
      /\ serial' \in [Threads -> Blocks] /\ count' \in [Blocks -> Nat]
      /\ blockBusyList' \subseteq Blocks
      /\ count'[b] = count[b] + 1 /\ \A a \in Blocks \ {b} : count'[a] = count[a]
      /\ OneRenderer' /\ HandedInv' /\ ~AllEnded'
  BY <1>1, <1>2, <1>3, NotRendered, HandedOut
<1>5. ToDo' = ToDo /\ kind' = "strided" /\ UNCHANGED <<fs, bsl, stride, pass>>
  BY <1>1, <1>4 DEF ToDo, Kept
<1>6. ASSUME NEW a \in ToDo, a < b, count[a] = 0 PROVE Avoid(a)
  <2>1. a \in Nat /\ b \in Nat /\ a < nextBlock
    BY <1>2, <1>3, <1>6, <1>1, StridedFacts, BlocksTyped DEF ToDo
  <2>2. a \in blockPostponedList
    BY <1>1, <1>6, <2>1, StridedFacts
  <2> QED
    BY <1>2, <1>6, <2>1, <2>2
<1>7. ClassesInOrder'
  BY <1>1, <1>3, <1>6, StridedHandOut
<1>8. WalkInv'
  <2>1. ASSUME NEW a \in ToDo
        PROVE  count'[a] = IF a >= nextBlock \/ a \in blockPostponedList' THEN 0 ELSE 1
    <3>1. a \in Blocks /\ a \in Nat /\ b \in Nat
          /\ count[a] = IF a >= nextBlock \/ a \in blockPostponedList THEN 0 ELSE 1
      BY <1>1, <1>2, StridedFacts, BlocksTyped DEF ToDo
    <3> QED
      BY <1>1, <1>3, <1>4, <3>1, StridedFacts
  <2> QED
    BY <1>1, <1>5, <2>1, StridedFacts DEF WalkInv, OneWalk
<1>9. PostponedInv'
  BY <1>1, <1>5 DEF IInv, PostponedInv
<1>10. TypeOK'
  BY <1>1, <1>4, <1>5 DEF IInv, TypeOK
<1>11. SkipInv' /\ StrideInv' /\ CircleInv' /\ EndInv'
  BY <1>1, <1>4, <1>5 DEF IInv, SkipInv, StrideInv, CircleInv, EndInv
<1> QED
  BY <1>4, <1>7, <1>8, <1>9, <1>10, <1>11 DEF IInv

LEMMA AskStridedInv ==
  ASSUME IInv, NEW t \in Threads, AskStrided(t) PROVE IInv'
<1> DEFINE left == {b \in Blocks : b >= nextBlock} \ blockSkipList
           free == {b \in left : ~Avoid(b)}
           b == Min(free)
<1>1. /\ pc[t] = "asking" /\ kind = "strided" /\ \A a \in blockPostponedList : Avoid(a)
      /\ UNCHANGED <<blockSkipList, completedFirstPass>>
  BY DEF AskStrided
<1>2. \A a \in Blocks : a \in left <=> a \in ToDo /\ a >= nextBlock
  BY <1>1, StridedFacts, LeftToDo
<1>3. CASE free = {}
  <2>1. NoMore(t) /\ UNCHANGED <<nextBlock, blockPostponedList>>
    BY <1>3 DEF AskStrided
  <2>2. /\ UNCHANGED Kept /\ UNCHANGED <<blockInfoList, blockBusyList, serial, count>>
        /\ pc' \in [Threads -> {"asking", "rendering", "ended"}]
        /\ OneRenderer' /\ HandedInv' /\ (AllEnded' => Rendering = {})
    BY <1>1, <2>1, TaskEnded
  <2>3. ToDo' = ToDo /\ UNCHANGED <<kind, fs, bsl, stride, pass>>
    BY <2>2 DEF ToDo, Kept
  <2>4. EndInv'
    <3> SUFFICES ASSUME AllEnded' PROVE EndInv'
      BY DEF EndInv
    <3>1. blockBusyList = {}
      BY <1>1, <2>2, StridedFacts
    <3>2. \A a \in Blocks : ~Avoid(a)
      BY <3>1 DEF Avoid
    <3>3. blockPostponedList = {}
      BY <1>1, <3>2 DEF IInv, TypeOK
    <3>4. \A a \in ToDo : ~(a >= nextBlock)
      BY <1>2, <1>3, <3>2 DEF ToDo
    <3>5. \A a \in ToDo : count[a] = 1
      BY <1>1, <3>3, <3>4, StridedFacts
    <3>6. \A a \in Blocks : blockInfoList[a] = 0
      BY <1>1, StridedFacts DEF IInv, HandedInv
    <3> QED
      BY <2>1, <2>2, <2>3, <3>3, <3>5, <3>6 DEF EndInv
  <2>5. TypeOK'
    BY <1>1, <2>1, <2>2, <2>3 DEF IInv, TypeOK
  <2>6. SkipInv' /\ StrideInv' /\ CircleInv' /\ PostponedInv' /\ WalkInv' /\ ClassesInOrder'
    BY <1>1, <2>1, <2>2, <2>3
    DEF IInv, SkipInv, StrideInv, CircleInv, PostponedInv, WalkInv, OneWalk, ClassesInOrder
  <2> QED
    BY <2>2, <2>4, <2>5, <2>6 DEF IInv
<1>4. CASE free # {}
  <2>1. /\ HandOut(t, b) /\ nextBlock' = b + 1
        /\ blockPostponedList' = blockPostponedList \cup {a \in left : a < b}
    BY <1>4 DEF AskStrided
  <2>2. b \in free /\ b \in Blocks /\ \A a \in free : b <= a
    <3>1. free \in SUBSET Blocks
      OBVIOUS
    <3> HIDE DEF free
    <3> QED
      BY <1>4, <3>1, MinBlock
  <2> HIDE DEF b
  <2>3. b \in left /\ b \in ToDo /\ b >= nextBlock /\ ~Avoid(b) /\ count[b] = 0
    BY <1>1, <1>2, <2>2, StridedFacts
  <2>4. /\ UNCHANGED Kept /\ UNCHANGED blockInfoList
        /\ pc' \in [Threads -> {"asking", "rendering", "ended"}]
        /\ serial' \in [Threads -> Blocks] /\ count' \in [Blocks -> Nat]
        /\ blockBusyList' \subseteq Blocks
        /\ count'[b] = count[b] + 1 /\ \A a \in Blocks \ {b} : count'[a] = count[a]
        /\ OneRenderer' /\ HandedInv' /\ ~AllEnded'
    BY <1>1, <2>1, <2>2, <2>3, NotRendered, HandedOut
  <2>5. ToDo' = ToDo /\ UNCHANGED <<kind, fs, bsl, stride, pass>>
    BY <2>4 DEF ToDo, Kept
  <2>6. b \in Nat /\ b < NumBlocks
    BY <2>2, BlocksTyped
  <2>7. ASSUME NEW a \in ToDo, a < b, count[a] = 0 PROVE Avoid(a)
    <3>1. a \in Blocks /\ a \in Nat
      BY BlocksTyped DEF ToDo
    <3>2. CASE a >= nextBlock
      BY <1>2, <2>2, <2>6, <2>7, <3>1, <3>2
    <3>3. CASE ~(a >= nextBlock)
      BY <1>1, <2>7, <3>3, StridedFacts
    <3> QED
      BY <3>2, <3>3
  <2>8. ClassesInOrder'
    BY <1>1, <2>1, <2>3, <2>7, StridedHandOut
  <2>9. WalkInv'
    <3>1. ASSUME NEW a \in ToDo
          PROVE  count'[a] = IF a >= nextBlock' \/ a \in blockPostponedList' THEN 0 ELSE 1
      <4>1. a \in Blocks /\ a \in Nat /\ nextBlock \in Nat
            /\ count[a] = IF a >= nextBlock \/ a \in blockPostponedList THEN 0 ELSE 1
        BY <1>1, StridedFacts, BlocksTyped DEF ToDo
      <4>2. a \in blockPostponedList' <=>
              a \in blockPostponedList \/ (a >= nextBlock /\ a < b)
        BY <1>2, <2>1, <4>1
      <4>3. a >= nextBlock' <=> a > b
        BY <2>1, <2>6, <4>1
      <4>4. b \notin blockPostponedList
        BY <2>3, <2>6, <4>1 DEF IInv, PostponedInv
      <4>5. CASE a = b
        BY <2>3, <2>4, <2>6, <4>2, <4>3, <4>4, <4>5
      <4>6. CASE a # b
        BY <2>3, <2>4, <2>6, <4>1, <4>2, <4>3, <4>6
      <4> QED
        BY <4>5, <4>6
    <3>2. fs <= nextBlock'
      BY <1>1, <2>1, <2>3, <2>6, StridedFacts
    <3> QED
      BY <2>5, <3>1, <3>2 DEF WalkInv
  <2>10. PostponedInv'
    <3>1. ASSUME NEW a \in blockPostponedList' PROVE a \in ToDo /\ a < nextBlock'
      <4>1. a \in Blocks /\ a \in Nat /\ nextBlock \in Nat
        BY <1>1, <2>1, <3>1, StridedFacts, BlocksTyped DEF IInv, TypeOK
      <4>2. CASE a \in blockPostponedList
        BY <2>1, <2>3, <2>6, <4>1, <4>2 DEF IInv, PostponedInv
      <4>3. CASE a \in left /\ a < b
        BY <1>2, <2>1, <2>6, <4>1, <4>3
      <4> QED
        BY <2>1, <3>1, <4>2, <4>3
    <3> QED
      BY <1>1, <2>5, <3>1 DEF PostponedInv
  <2>11. TypeOK'
    <3>1. nextBlock' \in 0..NumBlocks
      BY <2>1, <2>6, BlocksTyped
    <3>2. blockPostponedList' \subseteq Blocks
      BY <2>1 DEF IInv, TypeOK
    <3> QED
      BY <1>1, <2>4, <2>5, <3>1, <3>2 DEF IInv, TypeOK
  <2>12. SkipInv' /\ StrideInv' /\ CircleInv' /\ EndInv'
    BY <1>1, <2>4, <2>5 DEF IInv, SkipInv, StrideInv, CircleInv, EndInv
  <2> QED
    BY <2>4, <2>8, <2>9, <2>10, <2>11, <2>12 DEF IInv
<1> QED
  BY <1>3, <1>4

-----------------------------------------------------------------------------
(* The circle of the passes that come back to blocks.                      *)

LEMMA CircleFacts ==
  ASSUME IInv, kind = "revisit"
  PROVE  /\ blockSkipList = bsl /\ blockPostponedList = {} /\ ~OneWalk
         /\ nextBlock \in Nat /\ fs \in Nat /\ nextBlock \in 0..NumBlocks /\ NumBlocks \in Nat
         /\ \A b \in Blocks : count[b] \in Nat /\ blockInfoList[b] \in Nat
         /\ \A b \in Blocks : blockInfoList[b] # 0 => b \in ToDo
         /\ blockBusyList = {serial[t] : t \in Rendering}
         /\ \A b \in blockBusyList : b \in ToDo /\ count[b] >= 1
<1>1. /\ blockSkipList = bsl /\ blockPostponedList = {} /\ ~OneWalk
      /\ nextBlock \in Nat /\ fs \in Nat /\ nextBlock \in 0..NumBlocks /\ NumBlocks \in Nat
      /\ blockBusyList = {serial[t] : t \in Rendering}
  BY BlocksTyped DEF IInv, TypeOK, SkipInv, PostponedInv, OneWalk, OneRenderer
<1>2. \A b \in Blocks : count[b] \in Nat /\ blockInfoList[b] \in Nat
  BY StepsAssumption DEF IInv, TypeOK
<1>3. \A b \in Blocks : blockInfoList[b] # 0 => b \in ToDo
  BY DEF IInv, HandedInv
<1>4. ASSUME NEW b \in blockBusyList PROVE b \in ToDo /\ count[b] >= 1
  <2>1. PICK t \in Threads : pc[t] = "rendering" /\ serial[t] = b
    BY <1>1, <1>4 DEF Rendering
  <2>2. count[b] >= 1 /\ b \in Blocks
    BY <2>1 DEF IInv, HandedInv, TypeOK
  <2> QED
    BY <2>2 DEF IInv, HandedInv
<1> QED
  BY <1>1, <1>2, <1>3, <1>4

LEMMA CircleHandOut ==
  ASSUME IInv, NEW t \in Threads, pc[t] = "asking", kind = "revisit",
         NEW b \in ToDo, b \notin blockBusyList, HandOut(t, b), nextBlock' = b + 1,
         UNCHANGED <<blockSkipList, blockPostponedList>>,
         completedFirstPass' \in BOOLEAN, CircleInv'
  PROVE  IInv'
<1>1. b \in Blocks /\ b \in Nat /\ b < NumBlocks /\ NumBlocks \in Nat
  BY BlocksTyped DEF ToDo
<1>2. \A u \in Rendering : serial[u] # b
  BY CircleFacts
<1>3. /\ UNCHANGED Kept /\ UNCHANGED blockInfoList
      /\ pc' \in [Threads -> {"asking", "rendering", "ended"}]
      /\ serial' \in [Threads -> Blocks] /\ count' \in [Blocks -> Nat]
      /\ blockBusyList' \subseteq Blocks /\ OneRenderer' /\ HandedInv' /\ ~AllEnded'
  BY <1>2, HandedOut
<1>4. kind' = "revisit" /\ UNCHANGED <<fs, bsl, stride, pass>>
  BY <1>3 DEF Kept
<1>5. TypeOK'
  BY <1>1, <1>3, <1>4 DEF IInv, TypeOK
<1>6. SkipInv' /\ StrideInv' /\ PostponedInv' /\ WalkInv' /\ EndInv' /\ ClassesInOrder'
  BY <1>3, <1>4, CircleFacts
  DEF IInv, SkipInv, StrideInv, PostponedInv, WalkInv, OneWalk, EndInv, ClassesInOrder
<1> QED
  BY <1>3, <1>5, <1>6 DEF IInv

(* When nothing is ahead in the first round, everything has been visited.  *)
LEMMA NothingAhead ==
  ASSUME IInv, kind = "revisit", Ahead = {} PROVE \A b \in ToDo : count[b] >= 1
<1> SUFFICES ASSUME NEW b \in ToDo PROVE count[b] >= 1
  OBVIOUS
<1>1. b \in Blocks /\ b \in Nat /\ b \notin bsl
  BY BlocksTyped DEF ToDo
<1>2. CASE completedFirstPass
  BY <1>2 DEF IInv, CircleInv
<1>3. CASE ~completedFirstPass
  <2>1. b < nextBlock <=> count[b] >= 1
    BY <1>3 DEF IInv, CircleInv
  <2>2. CASE b \in blockBusyList
    BY <2>2, CircleFacts
  <2>3. CASE b \notin blockBusyList
    <3>1. Idle(b)
      BY <1>1, <2>3, CircleFacts DEF Idle
    <3>2. ~(b >= nextBlock)
      BY <1>1, <1>3, <3>1 DEF Ahead
    <3> QED
      BY <1>1, <2>1, <3>2, CircleFacts
  <2> QED
    BY <2>2, <2>3
<1> QED
  BY <1>2, <1>3 DEF IInv, TypeOK

LEMMA AskRevisitInv ==
  ASSUME IInv, NEW t \in Threads, AskRevisit(t) PROVE IInv'
<1>1. /\ pc[t] = "asking" /\ kind = "revisit"
      /\ UNCHANGED <<blockSkipList, blockPostponedList>>
  BY DEF AskRevisit
<1>2. Ahead \in SUBSET Blocks /\ Behind \in SUBSET Blocks
  BY DEF Ahead, Behind
<1>3. CASE Ahead # {}
  <2> DEFINE b == Min(Ahead)
  <2>1. HandOut(t, b) /\ nextBlock' = b + 1 /\ UNCHANGED completedFirstPass
    BY <1>3 DEF AskRevisit
  <2>2. b \in Ahead /\ b \in Blocks /\ \A a \in Ahead : b <= a
    BY <1>2, <1>3, MinBlock
  <2> HIDE DEF b
  <2>3. /\ b >= nextBlock /\ b \notin bsl /\ b \notin blockBusyList
        /\ ~completedFirstPass \/ blockInfoList[b] # 0
    BY <1>1, <2>2, CircleFacts DEF Ahead, Idle
  <2>4. b \in ToDo
    <3>1. CASE completedFirstPass
      BY <1>1, <2>2, <2>3, <3>1, CircleFacts
    <3>2. CASE ~completedFirstPass
      <4>1. fs <= nextBlock
        BY <1>1, <3>2 DEF IInv, CircleInv
      <4> QED
        BY <1>1, <2>2, <2>3, <4>1, CircleFacts, BlocksTyped DEF ToDo
    <3> QED
      BY <3>1, <3>2
  <2>5. /\ UNCHANGED Kept
        /\ count'[b] = count[b] + 1 /\ \A a \in Blocks \ {b} : count'[a] = count[a]
    BY <1>1, <2>1, <2>3, <2>4, CircleFacts, HandedOut
  <2>6. \A a \in ToDo : a \in Blocks /\ a \in Nat /\ count[a] \in Nat /\ b \in Nat
    BY <1>1, <2>2, CircleFacts, BlocksTyped DEF ToDo
  <2>7. CircleInv'
    <3>1. CASE completedFirstPass
      <4>1. \A a \in ToDo : count'[a] >= 1
        BY <1>1, <2>5, <2>6, <3>1 DEF IInv, CircleInv
      <4> QED
        BY <2>1, <2>5, <3>1, <4>1 DEF CircleInv, ToDo, Kept
    <3>2. CASE ~completedFirstPass
      <4>1. fs <= nextBlock /\ \A a \in ToDo : a < nextBlock <=> count[a] >= 1
        BY <1>1, <3>2 DEF IInv, CircleInv
      <4>2. ASSUME NEW a \in ToDo PROVE a < b + 1 <=> count'[a] >= 1
        <5>1. a \notin blockBusyList \/ count[a] >= 1
          BY <1>1, CircleFacts
        <5>2. a >= nextBlock /\ a \notin blockBusyList => b <= a
          BY <1>1, <2>2, <2>6, <3>2, CircleFacts DEF Ahead, Idle, ToDo
        <5>3. nextBlock \in Nat /\ a < nextBlock <=> count[a] >= 1
          BY <1>1, <4>1, CircleFacts
        <5>4. CASE a = b
          BY <2>5, <2>6, <5>4
        <5>5. CASE a # b
          BY <2>3, <2>5, <2>6, <5>1, <5>2, <5>3, <5>5, <4>1, <1>1, CircleFacts
        <5> QED
          BY <5>4, <5>5
      <4>3. fs <= b + 1
        BY <1>1, <2>3, <2>4, <2>6, <4>1, CircleFacts
      <4> QED
        BY <2>1, <2>5, <3>2, <4>2, <4>3 DEF CircleInv, ToDo, Kept
    <3> QED
      BY <3>1, <3>2 DEF IInv, TypeOK
  <2>8. completedFirstPass' \in BOOLEAN
    BY <2>1 DEF IInv, TypeOK
  <2> QED
    BY <1>1, <2>1, <2>3, <2>4, <2>7, <2>8, CircleHandOut
<1>4. CASE Ahead = {} /\ Behind # {}
  <2> DEFINE b == Min(Behind)
  <2>1. HandOut(t, b) /\ nextBlock' = b + 1 /\ completedFirstPass' = TRUE
    BY <1>4 DEF AskRevisit
  <2>2. b \in Behind /\ b \in Blocks
    BY <1>2, <1>4, MinBlock
  <2> HIDE DEF b
  <2>3. b \in ToDo /\ b \notin blockBusyList
    BY <1>1, <2>2, CircleFacts DEF Behind, Idle
  <2>4. /\ UNCHANGED Kept
        /\ count'[b] = count[b] + 1 /\ \A a \in Blocks \ {b} : count'[a] = count[a]
    BY <1>1, <2>1, <2>3, CircleFacts, HandedOut
  <2>5. \A a \in ToDo : count'[a] >= 1
    <3>1. \A a \in ToDo : a \in Blocks /\ count[a] \in Nat /\ count[a] >= 1
      BY <1>1, <1>4, NothingAhead, CircleFacts DEF ToDo
    <3> QED
      BY <2>4, <3>1
  <2>6. CircleInv'
    BY <2>1, <2>4, <2>5 DEF CircleInv, ToDo, Kept
  <2> QED
    BY <1>1, <2>1, <2>3, <2>6, CircleHandOut
<1>5. CASE Ahead = {} /\ Behind = {}
  <2>1. NoMore(t) /\ UNCHANGED nextBlock /\ completedFirstPass' = TRUE
    BY <1>5 DEF AskRevisit
  <2>2. /\ UNCHANGED Kept /\ UNCHANGED <<blockInfoList, blockBusyList, serial, count>>
        /\ pc' \in [Threads -> {"asking", "rendering", "ended"}]
        /\ OneRenderer' /\ HandedInv' /\ (AllEnded' => Rendering = {})
    BY <1>1, <2>1, TaskEnded
  <2>3. ToDo' = ToDo /\ UNCHANGED <<kind, fs, bsl, stride, pass>>
    BY <2>2 DEF ToDo, Kept
  <2>4. \A b \in ToDo : count[b] >= 1
    BY <1>1, <1>5, NothingAhead
  <2>5. EndInv'
    <3> SUFFICES ASSUME AllEnded' PROVE EndInv'
      BY DEF EndInv
    <3>1. blockBusyList = {}
      BY <1>1, <2>2, CircleFacts
    <3>2. ASSUME NEW b \in Blocks PROVE blockInfoList[b] = 0
      <4> SUFFICES ASSUME blockInfoList[b] # 0 PROVE FALSE
        OBVIOUS
      <4>1. b \in ToDo /\ b \in Nat /\ nextBlock \in Nat
        BY <1>1, CircleFacts, BlocksTyped
      <4>2. Idle(b)
        BY <1>1, <3>1, <4>1, CircleFacts DEF Idle, ToDo
      <4> QED
        BY <1>5, <4>1, <4>2 DEF Ahead, Behind
    <3> QED
      BY <1>1, <2>2, <2>3, <2>4, <3>2, CircleFacts DEF EndInv
  <2>6. TypeOK'
    BY <1>1, <2>1, <2>2, <2>3 DEF IInv, TypeOK
  <2>7. SkipInv' /\ StrideInv' /\ PostponedInv' /\ WalkInv' /\ CircleInv' /\ ClassesInOrder'
    BY <1>1, <2>1, <2>2, <2>3, <2>4
    DEF IInv, SkipInv, StrideInv, PostponedInv, WalkInv, OneWalk, CircleInv, ClassesInOrder
  <2> QED
    BY <2>2, <2>5, <2>6, <2>7 DEF IInv
<1> QED
  BY <1>3, <1>4, <1>5

-----------------------------------------------------------------------------
(* A block is done.                                                        *)

LEMMA InfosTyped ==
  ASSUME IInv, NEW t \in Threads, NEW i \in Infos(t)
  PROVE  i \in 0..(PretraceSteps - 1) /\ (OneWalk => i = 0)
<1>1. serial[t] \in Blocks /\ PretraceSteps \in Nat \ {0}
  BY StepsAssumption DEF IInv, TypeOK
<1>2. blockInfoList[serial[t]] \in Nat
  BY <1>1 DEF IInv, TypeOK
<1> QED
  BY <1>1, <1>2 DEF Infos, OneWalk

LEMMA CompletedInv ==
  ASSUME IInv, NEW t \in Threads, Completed(t) PROVE IInv'
<1> DEFINE b == serial[t]
<1>1. /\ pc[t] = "rendering" /\ pc' = [pc EXCEPT ![t] = "asking"]
      /\ blockBusyList' = blockBusyList \ {b}
      /\ UNCHANGED <<nextBlock, blockSkipList, blockPostponedList, completedFirstPass, serial,
                     count>>
  BY DEF Completed, Stored
<1>2. UNCHANGED <<fs, bsl, kind, stride, pass>> /\ ToDo' = ToDo
  BY DEF Completed, Stored, given, ToDo
<1>3. PICK i \in Infos(t) : blockInfoList' = [blockInfoList EXCEPT ![b] = i]
  BY DEF Completed, Stored
<1>4. b \in Blocks /\ count[b] >= 1 /\ b \in ToDo
  <2>1. b \in Blocks /\ count[b] >= 1
    BY <1>1 DEF IInv, HandedInv, TypeOK
  <2> QED
    BY <2>1 DEF IInv, HandedInv
<1>5. /\ pc' \in [Threads -> {"asking", "rendering", "ended"}] /\ ~AllEnded'
      /\ Rendering' = Rendering \ {t} /\ t \in Rendering
  BY <1>1 DEF IInv, TypeOK, AllEnded, Rendering
<1>6. /\ blockInfoList' \in [Blocks -> 0..(PretraceSteps - 1)]
      /\ \A a \in Blocks \ {b} : blockInfoList'[a] = blockInfoList[a]
      /\ OneWalk => blockInfoList'[b] = 0
  BY <1>3, <1>4, InfosTyped DEF IInv, TypeOK
<1> HIDE DEF b
<1>7. TypeOK'
  BY <1>1, <1>2, <1>5, <1>6 DEF IInv, TypeOK
<1>8. OneRenderer'
  <2>1. \A u \in Rendering' : serial[u] # b
    BY <1>5 DEF IInv, OneRenderer, b
  <2> QED
    BY <1>1, <1>2, <1>5, <2>1 DEF IInv, OneRenderer, b
<1>9. HandedInv'
  <2>1. \A u \in Threads : pc'[u] = "rendering" => pc[u] = "rendering"
    BY <1>1 DEF IInv, TypeOK
  <2>2. ASSUME NEW a \in Blocks, a \notin ToDo PROVE count[a] = 0 /\ blockInfoList'[a] = 0
    BY <1>4, <1>6, <2>2 DEF IInv, HandedInv
  <2>3. OneWalk => \A a \in Blocks : blockInfoList'[a] = 0
    BY <1>6 DEF IInv, HandedInv
  <2> QED
    BY <1>1, <1>2, <2>1, <2>2, <2>3 DEF IInv, HandedInv, OneWalk
<1>10. SkipInv' /\ StrideInv' /\ PostponedInv' /\ WalkInv' /\ CircleInv'
  BY <1>1, <1>2 DEF IInv, SkipInv, StrideInv, PostponedInv, WalkInv, OneWalk, CircleInv
<1>11. EndInv' /\ ClassesInOrder'
  BY <1>1, <1>2, <1>5 DEF IInv, EndInv, ClassesInOrder
<1> QED
  BY <1>7, <1>8, <1>9, <1>10, <1>11 DEF IInv

LEMMA NothingTracedInv ==
  ASSUME IInv, NEW t \in Threads, NothingTraced(t) PROVE IInv'
<1>1. /\ pc[t] = "rendering" /\ kind = "preview" /\ pc' = [pc EXCEPT ![t] = "asking"]
      /\ UNCHANGED <<nextBlock, blockSkipList, blockBusyList, blockPostponedList, blockInfoList,
                     completedFirstPass, serial, count>>
      /\ UNCHANGED <<fs, bsl, kind, stride, pass>> /\ ToDo' = ToDo
  BY DEF NothingTraced, given, ToDo
<1>2. /\ pc' \in [Threads -> {"asking", "rendering", "ended"}] /\ ~AllEnded'
      /\ Rendering' = Rendering \ {t}
      /\ \A u \in Threads : pc'[u] = "rendering" => pc[u] = "rendering"
  BY <1>1 DEF IInv, TypeOK, AllEnded, Rendering
<1>3. TypeOK'
  BY <1>1, <1>2 DEF IInv, TypeOK
<1>4. OneRenderer'
  BY <1>1, <1>2 DEF IInv, OneRenderer
<1>5. HandedInv'
  BY <1>1, <1>2 DEF IInv, HandedInv, OneWalk
<1>6. SkipInv' /\ StrideInv' /\ PostponedInv' /\ WalkInv' /\ CircleInv'
  BY <1>1 DEF IInv, SkipInv, StrideInv, PostponedInv, WalkInv, OneWalk, CircleInv
<1>7. EndInv' /\ ClassesInOrder'
  BY <1>1, <1>2 DEF IInv, EndInv, ClassesInOrder
<1> QED
  BY <1>3, <1>4, <1>5, <1>6, <1>7 DEF IInv

-----------------------------------------------------------------------------
(* The beginning of a pass, the first or a later one.                      *)

Beginning ==
  /\ TypeOK /\ StrideInv /\ bsl \subseteq {b \in Blocks : b >= fs}
  /\ nextBlock = fs /\ blockSkipList = bsl /\ completedFirstPass = FALSE
  /\ blockBusyList = {} /\ blockPostponedList = {}
  /\ blockInfoList = [b \in Blocks |-> 0] /\ count = [b \in Blocks |-> 0]
  /\ \E c \in Crew(kind, stride) : pc = Asking(c)

LEMMA PassBegins == Beginning => IInv
<1> SUFFICES ASSUME Beginning PROVE IInv
  OBVIOUS
<1> USE DEF Beginning
<1>1. (\A t \in Threads : pc[t] # "rendering") /\ ~AllEnded
  <2>1. stride \in Nat
    BY DEF TypeOK
  <2> QED
    BY <2>1, CrewNotEmpty, CrewAsks DEF AllEnded, StrideInv
<1>2. OneRenderer /\ HandedInv /\ EndInv
  BY <1>1 DEF OneRenderer, Rendering, HandedInv, EndInv
<1>3. \A b \in ToDo : b \in Blocks /\ b \in Nat /\ fs \in Nat /\ b >= fs
  BY BlocksTyped DEF ToDo, TypeOK
<1>4. SkipInv
  BY DEF SkipInv
<1>5. PostponedInv /\ WalkInv /\ CircleInv
  <2>1. fs <= nextBlock
    BY DEF TypeOK
  <2>2. \A b \in ToDo : count[b] = 0 /\ b >= nextBlock /\ ~(b < nextBlock)
    BY <1>3
  <2> QED
    BY <2>1, <2>2 DEF PostponedInv, WalkInv, CircleInv
<1>6. ClassesInOrder
  BY <1>3 DEF ClassesInOrder
<1> QED
  BY <1>2, <1>4, <1>5, <1>6 DEF IInv

LEMMA InitInv == Init => IInv
<1> SUFFICES ASSUME Init PROVE IInv
  OBVIOUS
<1>1. /\ fs \in 0..NumBlocks /\ bsl \subseteq Blocks /\ nextBlock = fs /\ blockSkipList = bsl
      /\ blockBusyList = {} /\ blockPostponedList = {} /\ completedFirstPass = FALSE
      /\ bsl \subseteq {b \in Blocks : b >= fs}
  BY DEF Init, RestartPoint
<1>2. /\ kind \in {"simple", "preview", "strided", "revisit"} /\ stride \in Nat
      /\ kind = "strided" => stride # 0
  BY DEF Init
<1>3. /\ blockInfoList = [b \in Blocks |-> 0] /\ count = [b \in Blocks |-> 0]
      /\ serial = [t \in Threads |-> 0] /\ pass = 1
  BY DEF Init
<1>4. PICK c \in Crew(kind, stride) : pc = Asking(c)
  BY DEF Init
<1>5. pc \in [Threads -> {"asking", "rendering", "ended"}]
  BY <1>2, <1>4, CrewNotEmpty, CrewAsks
<1>6. pass \in 1..MaxPasses /\ 0 \in 0..(PretraceSteps - 1)
  BY <1>3, StepsAssumption
<1>7. TypeOK
  BY <1>1, <1>2, <1>3, <1>5, <1>6, BlocksTyped DEF TypeOK
<1> QED
  BY <1>1, <1>2, <1>3, <1>4, <1>7, PassBegins DEF Beginning, StrideInv

(* What SetNextRectangle leaves, a pass can begin with.                    *)
LEMMA SetNextRectangleInv ==
  ASSUME IInv, SetNextRectangle PROVE IInv'
<1>1. /\ AllEnded /\ pass < MaxPasses /\ pass' = pass + 1 /\ count' = [b \in Blocks |-> 0]
      /\ UNCHANGED <<blockInfoList, fs, bsl, serial>>
      /\ blockSkipList' = bsl /\ blockBusyList' = {} /\ blockPostponedList' = {}
      /\ nextBlock' = fs /\ completedFirstPass' = FALSE
  BY DEF SetNextRectangle, NextPass
<1>2. PICK c \in Crew(kind', stride') : pc' = Asking(c)
  BY DEF SetNextRectangle, NextPass
<1>3. /\ kind' \in {"simple", "preview", "strided", "revisit"} /\ stride' \in Nat
      /\ kind' = "strided" => stride' # 0
  <2>1. PICK k \in Following : kind' = k[1] /\ stride' = k[2]
    BY DEF SetNextRectangle, NextPass
  <2>2. stride \in Nat /\ kind \in {"simple", "preview", "strided", "revisit"}
    BY DEF IInv, TypeOK
  <2>3. CASE kind = "strided"
    <3>1. stride # 0 /\ Following = {<<"strided", 2 * stride>>, <<"preview", 0>>, <<"simple", 0>>}
      BY <2>3 DEF Following, IInv, StrideInv
    <3> QED
      BY <2>1, <2>2, <3>1
  <2>4. CASE kind \in {"revisit", "preview"}
    <3>1. Following = {<<"preview", 0>>, <<"simple", 0>>}
      BY <2>4 DEF Following
    <3> QED
      BY <2>1, <3>1
  <2>5. CASE kind = "simple"
    <3>1. Following = {}
      BY <2>5 DEF Following
    <3> QED
      BY <2>1, <3>1
  <2> QED
    BY <2>2, <2>3, <2>4, <2>5
<1>4. blockInfoList' = [b \in Blocks |-> 0]
  <2>1. \A b \in Blocks : blockInfoList[b] = 0
    BY <1>1 DEF IInv, EndInv
  <2>2. blockInfoList \in [Blocks -> 0..(PretraceSteps - 1)]
    BY DEF IInv, TypeOK
  <2> QED
    BY <1>1, <2>1, <2>2
<1>5. pc' \in [Threads -> {"asking", "rendering", "ended"}]
  BY <1>2, <1>3, CrewNotEmpty, CrewAsks
<1>6. pass' \in 1..MaxPasses /\ 0 \in 0..(PretraceSteps - 1)
  BY <1>1, StepsAssumption DEF IInv, TypeOK
<1>7. TypeOK'
  BY <1>1, <1>3, <1>4, <1>5, <1>6, BlocksTyped DEF IInv, TypeOK
<1>8. Beginning'
  BY <1>1, <1>2, <1>3, <1>4, <1>7 DEF Beginning, StrideInv, IInv, SkipInv
<1>9. (Beginning => IInv)'
  BY PassBegins, PTL
<1> QED
  BY <1>8, <1>9

LEMMA NextInv == ASSUME IInv, [Next]_vars PROVE IInv'
<1>1. ASSUME NEW t \in Threads, ThreadStep(t) PROVE IInv'
  BY <1>1, AskSimpleInv, AskPostponedInv, AskStridedInv, AskRevisitInv, CompletedInv,
     NothingTracedInv DEF ThreadStep
<1>2. CASE UNCHANGED vars
  <2>1. /\ UNCHANGED <<nextBlock, blockSkipList, blockBusyList, blockPostponedList, blockInfoList,
                       completedFirstPass, pc, serial, count>>
        /\ UNCHANGED <<fs, bsl, kind, stride, pass>>
    BY <1>2 DEF vars, given
  <2>2. TypeOK' /\ OneRenderer' /\ HandedInv' /\ SkipInv'
    BY <2>1 DEF IInv, TypeOK, OneRenderer, Rendering, HandedInv, ToDo, OneWalk, SkipInv
  <2>3. StrideInv' /\ PostponedInv' /\ WalkInv' /\ CircleInv'
    BY <2>1 DEF IInv, StrideInv, PostponedInv, WalkInv, OneWalk, CircleInv, ToDo
  <2>4. EndInv' /\ ClassesInOrder'
    BY <2>1 DEF IInv, EndInv, AllEnded, ToDo, ClassesInOrder
  <2> QED
    BY <2>2, <2>3, <2>4 DEF IInv
<1> QED
  BY <1>1, <1>2, SetNextRectangleInv DEF Next

LEMMA Invariance == Spec => []IInv
<1>1. IInv /\ [Next]_vars => IInv'
  BY NextInv
<1> QED
  BY <1>1, InitInv, PTL DEF Spec

-----------------------------------------------------------------------------
(* No block is rendered by two threads at once, and blockBusyList is true  *)
(* of what they render.                                                    *)
THEOREM DispatchStaysSound == Spec => []DispatchInv
<1>1. IInv => DispatchInv
  BY DEF IInv, DispatchInv
<1> QED
  BY <1>1, Invariance, PTL

(* A pass whose tasks have ended has handed out each of its blocks, once    *)
(* unless the block was to be visited again, and no other block.            *)
THEOREM PassesAreComplete == Spec => []PassComplete
<1>1. IInv => PassComplete
  <2> SUFFICES ASSUME IInv, AllEnded PROVE PassComplete
    BY DEF PassComplete
  <2>1. /\ \A b \in ToDo : count[b] >= 1
        /\ \A b \in Blocks : blockInfoList[b] = 0
        /\ blockPostponedList = {}
    BY DEF IInv, EndInv
  <2>2. ASSUME NEW b \in ToDo, kind # "revisit" PROVE count[b] = 1
    BY <2>1, <2>2 DEF IInv, WalkInv, OneWalk
  <2>3. \A b \in Blocks \ ToDo : count[b] = 0
    BY DEF IInv, HandedInv
  <2> QED
    BY <2>1, <2>2, <2>3 DEF PassComplete
<1> QED
  BY <1>1, Invariance, PTL

(* Two blocks of a class are never rendered out of order or at once.       *)
THEOREM ClassesStayInOrder == Spec => []ClassesInOrder
<1>1. IInv => ClassesInOrder
  BY DEF IInv
<1> QED
  BY <1>1, Invariance, PTL

-----------------------------------------------------------------------------
(* The grids behind the serials (BlockGrid, BlockPixels), for every size of *)
(* image and block, every pattern and every step.                           *)

(* Division with remainder, and back.                                      *)
LEMMA Division ==
  ASSUME NEW a \in Nat, NEW b \in Nat \ {0}
  PROVE  a = b * (a \div b) + (a % b) /\ a \div b \in Nat /\ a % b \in 0..(b - 1)
OBVIOUS

LEMMA Quotients ==
  ASSUME NEW b \in Nat \ {0}, NEW q \in Nat, NEW r \in 0..(b - 1)
  PROVE  /\ b * q \in Nat /\ b * q + r \in Nat
         /\ (b * q + r) \div b = q /\ (b * q + r) % b = r
<1>1. b * q \in Nat /\ b * q + r \in Nat
  OBVIOUS
<1>2. (b * q + r) \div b = q
  <2> DEFINE a == b * q + r
  <2>1. a \in Nat /\ a = b * q + r
    BY <1>1
  <2> HIDE DEF a
  <2>2. a \div b = q
    BY <2>1
  <2> QED
    BY <2>2 DEF a
<1>3. (b * q + r) % b = r
  <2> DEFINE a == b * q + r
  <2>1. a \in Nat /\ a = b * q + r
    BY <1>1
  <2> HIDE DEF a
  <2>2. a % b = r
    BY <2>1
  <2> QED
    BY <2>2 DEF a
<1> QED
  BY <1>1, <1>2, <1>3

(* What a number divides, written without the bound.                       *)
LEMMA DividesMeans ==
  ASSUME NEW d \in Nat \ {0}, NEW n \in Nat
  PROVE  Divides(d, n) <=> \E q \in Nat : n = q * d
<1>1. ASSUME NEW q \in Nat, n = q * d PROVE q \in 0..n
  <2>1. d - 1 \in Nat /\ q * d = q + q * (d - 1) /\ q * (d - 1) \in Nat
    OBVIOUS
  <2> QED
    BY <1>1, <2>1
<1> QED
  BY <1>1 DEF Divides

(* The least positive t with n | t * k divides every such t.               *)
LEMMA LeastDivides ==
  ASSUME NEW n \in Nat \ {0}, NEW k \in Nat,
         NEW m \in Nat \ {0}, Divides(n, m * k),
         \A t \in Nat \ {0} : Divides(n, t * k) => m <= t,
         NEW t \in Nat, Divides(n, t * k)
  PROVE  Divides(m, t)
<1> DEFINE q == t \div m
           r == t % m
<1>1. t = m * q + r /\ q \in Nat /\ r \in 0..(m - 1)
  BY Division
<1> HIDE DEF q, r
<1>2. PICK u \in Nat : m * k = u * n
  BY DividesMeans
<1>3. PICK v \in Nat : t * k = v * n
  BY DividesMeans
<1>4. r * k = (v - u * q) * n
  <2>1. t * k = (m * k) * q + r * k
    BY <1>1
  <2>2. (u * n) * q = (u * q) * n /\ (v - u * q) * n = v * n - (u * q) * n
    BY <1>1
  <2>3. r * k \in Nat /\ (u * n) * q \in Nat /\ v * n \in Nat /\ (u * q) * n \in Nat
    BY <1>1
  <2> QED
    BY <1>2, <1>3, <2>1, <2>2, <2>3
<1>5. v - u * q \in Nat
  <2>1. v - u * q \in Int /\ r * k \in Nat
    BY <1>1
  <2>2. ASSUME v - u * q < 0 PROVE FALSE
    <3> DEFINE w == u * q - v
    <3>1. w \in Nat \ {0}
      BY <2>1, <2>2, <1>1
    <3>2. (v - u * q) * n = 0 - w * n
      BY <1>1
    <3> HIDE DEF w
    <3>3. w * n > 0
      BY <3>1
    <3> QED
      BY <1>4, <2>1, <3>1, <3>2, <3>3
  <2> QED
    BY <2>1, <2>2
<1>6. Divides(n, r * k)
  <2>1. r * k \in Nat
    BY <1>1
  <2> QED
    BY <1>4, <1>5, <2>1, DividesMeans
<1>7. r = 0
  BY <1>1, <1>6
<1> QED
  BY <1>1, <1>7, DividesMeans

(* A coprime factor can be cancelled.                                      *)
LEMMA CoprimeCancels ==
  ASSUME NEW n \in Nat \ {0}, NEW s \in Nat \ {0}, Coprime(s, n), NEW k \in Nat,
         Divides(n, s * k)
  PROVE  Divides(n, k)
<1> DEFINE T == {t \in Nat \ {0} : Divides(n, t * k)}
<1>1. s \in T
  OBVIOUS
<1>2. n \in T
  BY DividesMeans
<1>3. PICK m \in T : \A t \in T : m <= t
  BY <1>1, MinExists
<1>4. Divides(m, s) /\ Divides(m, n)
  BY <1>1, <1>2, <1>3, LeastDivides
<1>5. m <= s
  BY <1>1, <1>3
<1>6. m = 1
  BY <1>3, <1>4, <1>5 DEF Coprime
<1> QED
  BY <1>3, <1>6

(* Serials are permuted by a step coprime to their number.                 *)
LEMMA StepsApart ==
  ASSUME NEW n \in Nat \ {0}, NEW s \in Nat \ {0}, Coprime(s, n),
         NEW a \in 0..(n - 1), NEW b \in 0..(n - 1), a <= b, (a * s) % n = (b * s) % n
  PROVE  a = b
<1> DEFINE k == b - a
<1>1. k \in 0..(n - 1) /\ b = a + k
  OBVIOUS
<1> HIDE DEF k
<1>2. a * s \in Nat /\ b * s \in Nat
  OBVIOUS
<1>3. \A x \in Nat : x = n * (x \div n) + (x % n) /\ x \div n \in Nat /\ x % n \in Nat
  OBVIOUS
<1> DEFINE p == (a * s) \div n
           q == (b * s) \div n
           r == (a * s) % n
<1>4. p \in Nat /\ q \in Nat /\ r \in Nat /\ a * s = n * p + r /\ b * s = n * q + r
  <2>1. a * s = n * p + r /\ p \in Nat /\ r \in Nat
    BY <1>2, <1>3
  <2>2. b * s = n * q + ((b * s) % n) /\ q \in Nat
    BY <1>2, <1>3
  <2> QED
    BY <2>1, <2>2
<1> HIDE DEF p, q, r
<1>5. s * k = (q - p) * n
  <2>1. b * s = a * s + s * k
    BY <1>1
  <2>2. (q - p) * n = n * q - n * p /\ n * q \in Nat /\ n * p \in Nat /\ s * k \in Nat
    BY <1>1, <1>4
  <2>3. n * q + r = (n * p + r) + s * k
    BY <1>4, <2>1
  <2>4. \A x, y, z \in Nat : x + r = (y + r) + z => z = x - y
    BY <1>4
  <2>5. s * k = n * q - n * p
    BY <2>2, <2>3, <2>4
  <2> QED
    BY <2>2, <2>5
<1>6. s * k \in Nat /\ q - p \in Int
  BY <1>1, <1>4
<1>7. q - p \in Nat
  <2> DEFINE w == p - q
  <2>1. ASSUME w \in Nat \ {0} PROVE FALSE
    <3>1. (q - p) * n = 0 - w * n
      BY <1>4
    <3> HIDE DEF w
    <3>2. w * n > 0
      BY <2>1
    <3> QED
      BY <1>5, <1>6, <2>1, <3>1, <3>2
  <2> QED
    BY <1>4, <2>1
<1>8. Divides(n, s * k)
  BY <1>5, <1>6, <1>7, DividesMeans
<1>9. Divides(n, k)
  BY <1>1, <1>8, CoprimeCancels
<1>10. PICK u \in Nat : k = u * n
  BY <1>1, <1>9, DividesMeans
<1>11. u = 0
  <2>1. ASSUME u # 0 PROVE FALSE
    <3>1. u * n >= n
      BY <2>1
    <3> QED
      BY <1>1, <1>10, <3>1
  <2> QED
    BY <2>1
<1> QED
  BY <1>1, <1>10, <1>11

(* Every step that StartRender keeps is in range, and coprime to the       *)
(* number of blocks.                                                       *)
LEMMA ReducedSteps ==
  ASSUME NEW o \in Nat, NEW n \in Nat \ {0}, ReducedStep(o, n) # 0
  PROVE  ReducedStep(o, n) \in 1..n /\ Coprime(ReducedStep(o, n), n)
<1> DEFINE top == IF o % n = 0 THEN n ELSE o % n
           C   == {s \in 1..top : Coprime(s, n)}
           D   == {top - s : s \in C}
<1>1. top \in 1..n
  OBVIOUS
<1> HIDE DEF top
<1>2. 1 \in C
  BY <1>1 DEF Coprime
<1>3. D \in SUBSET Nat /\ D # {}
  BY <1>1, <1>2
<1>4. PICK d \in D : \A e \in D : d <= e
  BY <1>3, MinExists
<1>5. PICK s \in C : d = top - s
  BY <1>4
<1>6. \A r \in C : r <= s
  BY <1>1, <1>4, <1>5
<1>7. Max(C) \in C
  BY <1>6 DEF Max
<1>8. ReducedStep(o, n) = Max(C)
  BY DEF ReducedStep, top
<1> QED
  BY <1>1, <1>7, <1>8

-----------------------------------------------------------------------------
(* An operator permutes the numbers below n.                               *)
LEMMA Permutes ==
  ASSUME NEW n \in Nat, NEW f \in [0..(n - 1) -> 0..(n - 1)],
         \A a, b \in 0..(n - 1) : f[a] = f[b] => a = b
  PROVE  \A c \in 0..(n - 1) : \E a \in 0..(n - 1) : f[a] = c
<1>1. IsFiniteSet(0..(n - 1))
  BY FS_Interval
<1>2. f \in Injection(0..(n - 1), 0..(n - 1))
  BY DEF Injection, IsInjective
<1>3. f \in Surjection(0..(n - 1), 0..(n - 1))
  BY <1>1, <1>2, FS_Injection
<1> QED
  BY <1>3 DEF Surjection

(* Counting from both ends in turn meets every number once.                *)
LEMMA FoldedPermutes ==
  ASSUME NEW n \in Nat \ {0}
  PROVE  /\ \A i \in 0..(n - 1) : Folded(i, n) \in 0..(n - 1)
         /\ \A i, j \in 0..(n - 1) : Folded(i, n) = Folded(j, n) => i = j
         /\ \A k \in 0..(n - 1) : \E i \in 0..(n - 1) : Folded(i, n) = k
<1> DEFINE f == [i \in 0..(n - 1) |-> Folded(i, n)]
<1>1. ASSUME NEW i \in 0..(n - 1) PROVE Folded(i, n) \in 0..(n - 1)
  BY DEF Folded
<1>2. ASSUME NEW i \in 0..(n - 1), NEW j \in 0..(n - 1), Folded(i, n) = Folded(j, n)
      PROVE  i = j
  BY <1>2 DEF Folded
<1>3. f \in [0..(n - 1) -> 0..(n - 1)]
  BY <1>1
<1>4. \A i, j \in 0..(n - 1) : f[i] = f[j] => i = j
  BY <1>2
<1>5. \A k \in 0..(n - 1) : \E i \in 0..(n - 1) : f[i] = k
  <2> HIDE DEF f
  <2> QED
    BY <1>3, <1>4, Permutes
<1> QED
  BY <1>1, <1>2, <1>5

(* Row by row and column by column every cell has its number.              *)
LEMMA CellNumber ==
  ASSUME NEW w \in Nat \ {0}, NEW h \in Nat \ {0}, NEW x \in 0..(w - 1), NEW y \in 0..(h - 1)
  PROVE  w * y + x \in 0..(w * h - 1) /\ (w * y + x) % w = x /\ (w * y + x) \div w = y
<1>1. w * y + x \in Nat /\ (w * y + x) \div w = y /\ (w * y + x) % w = x
  BY Quotients
<1>2. w * y + w <= w * h
  <2>1. w * h = (w * y + w) + w * (h - 1 - y)
    OBVIOUS
  <2>2. w * (h - 1 - y) \in Nat /\ w * y \in Nat
    OBVIOUS
  <2> QED
    BY <2>1, <2>2
<1>3. w * y \in Nat /\ w * h \in Nat
  OBVIOUS
<1> QED
  BY <1>1, <1>2, <1>3

(* Remainder and quotient by w number the cells of w columns and h rows.   *)
LEMMA RowByRow ==
  ASSUME NEW w \in Nat \ {0}, NEW h \in Nat \ {0}
  PROVE  /\ w * h \in Nat \ {0}
         /\ \A m \in 0..(w * h - 1) : m % w \in 0..(w - 1) /\ m \div w \in 0..(h - 1)
         /\ \A m, n \in 0..(w * h - 1) : m % w = n % w /\ m \div w = n \div w => m = n
<1>1. w * h \in Nat \ {0}
  OBVIOUS
<1>2. ASSUME NEW m \in 0..(w * h - 1)
      PROVE  m % w \in 0..(w - 1) /\ m \div w \in 0..(h - 1) /\ m = w * (m \div w) + (m % w)
  <2>1. m \in Nat /\ m < w * h
    BY <1>1
  <2> DEFINE q == m \div w
             r == m % w
  <2>2. m = w * q + r /\ q \in Nat /\ r \in 0..(w - 1)
    BY <2>1, Division
  <2> HIDE DEF q, r
  <2>3. ~(q >= h)
    <3> SUFFICES ASSUME q >= h PROVE FALSE
      OBVIOUS
    <3>1. w * q >= w * h
      BY <2>2
    <3>2. w * q \in Nat
      BY <2>2
    <3> QED
      BY <1>1, <2>1, <2>2, <3>1, <3>2
  <2> QED
    BY <2>2, <2>3 DEF q, r
<1>3. ASSUME NEW m \in 0..(w * h - 1), NEW n \in 0..(w * h - 1),
             m % w = n % w, m \div w = n \div w
      PROVE  m = n
  BY <1>2, <1>3
<1> QED
  BY <1>1, <1>2, <1>3

(* Bijections compose: each pattern is a few of them after another.        *)
LEMMA Composed ==
  ASSUME NEW S, NEW T, NEW U, NEW f \in Bijection(S, T), NEW k \in Bijection(T, U)
  PROVE  [a \in S |-> k[f[a]]] \in Bijection(S, U)
<1> DEFINE c == [a \in S |-> k[f[a]]]
<1>1. /\ f \in [S -> T] /\ k \in [T -> U]
      /\ \A a, b \in S : f[a] = f[b] => a = b
      /\ \A a, b \in T : k[a] = k[b] => a = b
      /\ \A b \in T : \E a \in S : f[a] = b
      /\ \A b \in U : \E a \in T : k[a] = b
  BY DEF Bijection, Injection, Surjection, IsInjective
<1>2. c \in [S -> U]
  BY <1>1
<1>3. \A a, b \in S : c[a] = c[b] => a = b
  BY <1>1
<1>4. \A b \in U : \E a \in S : c[a] = b
  BY <1>1
<1> HIDE DEF c
<1>5. c \in Bijection(S, U)
  BY <1>2, <1>3, <1>4 DEF Bijection, Injection, Surjection, IsInjective
<1> QED
  BY <1>5 DEF c

Numbers(g) == 0..(BlocksOf(g) - 1)
Cells(g)   == (0..(g.blockWidth - 1)) \X (0..(g.blockHeight - 1))

(* What StartRender makes of the options it was given.                     *)
Laid(g) ==
  /\ g.blockWidth \in Nat \ {0} /\ g.blockHeight \in Nat \ {0}
  /\ g.renderBlockStep > 1 =>
       g.renderBlockStep \in Nat \ {0} /\ Coprime(g.renderBlockStep, BlocksOf(g))

(* A step without a factor in common with the number of blocks permutes    *)
(* the serials (getBlockXY, view.cpp).                                     *)
LEMMA Stepping ==
  ASSUME NEW g, Laid(g)
  PROVE  [nb \in Numbers(g) |-> Stepped(g, nb)] \in Bijection(Numbers(g), Numbers(g))
<1> DEFINE n == BlocksOf(g)
           s == g.renderBlockStep
           f == [nb \in Numbers(g) |-> Stepped(g, nb)]
<1>1. n \in Nat \ {0} /\ Numbers(g) = 0..(n - 1)
  BY DEF Laid, BlocksOf, Numbers
<1>2. \A nb : Stepped(g, nb) = IF s > 1 THEN (nb * s) % n ELSE nb
  BY DEF Stepped
<1>3. s > 1 => s \in Nat \ {0} /\ Coprime(s, n)
  BY DEF Laid
<1> HIDE DEF n, s
<1>4. f \in [0..(n - 1) -> 0..(n - 1)]
  <2>1. ASSUME NEW nb \in 0..(n - 1), s > 1 PROVE (nb * s) % n \in 0..(n - 1)
    <3>1. nb * s \in Nat
      BY <1>1, <1>3, <2>1
    <3> QED
      BY <1>1, <3>1, Division
  <2> QED
    BY <1>1, <1>2, <2>1
<1>5. \A a, b \in 0..(n - 1) : f[a] = f[b] => a = b
  <2>1. ASSUME NEW a \in 0..(n - 1), NEW b \in 0..(n - 1), s > 1, (a * s) % n = (b * s) % n
        PROVE  a = b
    <3>1. CASE a <= b
      BY <1>1, <1>3, <2>1, <3>1, StepsApart
    <3>2. CASE b <= a
      BY <1>1, <1>3, <2>1, <3>2, StepsApart
    <3> QED
      BY <1>1, <3>1, <3>2
  <2> QED
    BY <1>1, <1>2, <2>1
<1> HIDE DEF f
<1>6. \A c \in 0..(n - 1) : \E a \in 0..(n - 1) : f[a] = c
  BY <1>1, <1>4, <1>5, Permutes
<1>7. f \in Bijection(Numbers(g), Numbers(g))
  BY <1>1, <1>4, <1>5, <1>6 DEF Bijection, Injection, Surjection, IsInjective
<1> QED
  BY <1>7 DEF f

(* Counting backwards permutes them as well.                               *)
LEMMA Turning ==
  ASSUME NEW g, Laid(g)
  PROVE  [n \in Numbers(g) |-> BlocksOf(g) - 1 - n] \in Bijection(Numbers(g), Numbers(g))
<1> DEFINE m == BlocksOf(g)
           f == [n \in Numbers(g) |-> BlocksOf(g) - 1 - n]
<1>1. m \in Nat \ {0} /\ Numbers(g) = 0..(m - 1) /\ f = [n \in 0..(m - 1) |-> m - 1 - n]
  BY DEF Laid, BlocksOf, Numbers
<1> HIDE DEF m, f
<1>2. f \in [0..(m - 1) -> 0..(m - 1)]
  BY <1>1
<1>3. \A a, b \in 0..(m - 1) : f[a] = f[b] => a = b
  BY <1>1
<1>4. \A c \in 0..(m - 1) : \E a \in 0..(m - 1) : f[a] = c
  BY <1>1, <1>2, <1>3, Permutes
<1>5. f \in Bijection(Numbers(g), Numbers(g))
  BY <1>1, <1>2, <1>3, <1>4 DEF Bijection, Injection, Surjection, IsInjective
<1> QED
  BY <1>5 DEF f

(* The patterns by row and by column meet every cell once.                 *)
LEMMA Rows ==
  ASSUME NEW g, Laid(g)
  PROVE  [n \in Numbers(g) |-> ByRow(g, n)] \in Bijection(Numbers(g), Cells(g))
<1> DEFINE w == g.blockWidth
           h == g.blockHeight
           N == Numbers(g)
           f == [n \in N |-> ByRow(g, n)]
<1>1. w \in Nat \ {0} /\ h \in Nat \ {0} /\ N = 0..(w * h - 1)
  BY DEF Laid, BlocksOf, Numbers
<1>2. Cells(g) = (0..(w - 1)) \X (0..(h - 1)) /\ f = [n \in N |-> <<n % w, n \div w>>]
  BY DEF Cells, ByRow
<1> HIDE DEF w, h, f, N
<1>3. \A m \in N : m % w \in 0..(w - 1) /\ m \div w \in 0..(h - 1)
  BY <1>1, RowByRow
<1>4. \A m, n \in N : m % w = n % w /\ m \div w = n \div w => m = n
  BY <1>1, RowByRow
<1>5. ASSUME NEW x \in 0..(w - 1), NEW y \in 0..(h - 1)
      PROVE  \E m \in N : m % w = x /\ m \div w = y
  <2>1. /\ w * y + x \in 0..(w * h - 1)
        /\ (w * y + x) % w = x /\ (w * y + x) \div w = y
    BY <1>1, CellNumber
  <2> QED
    BY <1>1, <2>1
<1>6. f \in [N -> Cells(g)]
  BY <1>2, <1>3
<1>7. \A a, b \in N : f[a] = f[b] => a = b
  BY <1>2, <1>4
<1>8. \A c \in Cells(g) : \E a \in N : f[a] = c
  BY <1>2, <1>5
<1>9. f \in Bijection(N, Cells(g))
  BY <1>6, <1>7, <1>8 DEF Bijection, Injection, Surjection, IsInjective
<1> QED
  BY <1>9 DEF f, N

LEMMA Columns ==
  ASSUME NEW g, Laid(g)
  PROVE  [n \in Numbers(g) |-> ByColumn(g, n)] \in Bijection(Numbers(g), Cells(g))
<1> DEFINE w == g.blockWidth
           h == g.blockHeight
           N == Numbers(g)
           f == [n \in N |-> ByColumn(g, n)]
<1>1. w \in Nat \ {0} /\ h \in Nat \ {0} /\ N = 0..(h * w - 1)
  BY DEF Laid, BlocksOf, Numbers
<1>2. Cells(g) = (0..(w - 1)) \X (0..(h - 1)) /\ f = [n \in N |-> <<n \div h, n % h>>]
  BY DEF Cells, ByColumn
<1> HIDE DEF w, h, f, N
<1>3. \A m \in N : m % h \in 0..(h - 1) /\ m \div h \in 0..(w - 1)
  BY <1>1, RowByRow
<1>4. \A m, n \in N : m % h = n % h /\ m \div h = n \div h => m = n
  BY <1>1, RowByRow
<1>5. ASSUME NEW x \in 0..(h - 1), NEW y \in 0..(w - 1)
      PROVE  \E m \in N : m % h = x /\ m \div h = y
  <2>1. /\ h * y + x \in 0..(h * w - 1)
        /\ (h * y + x) % h = x /\ (h * y + x) \div h = y
    BY <1>1, CellNumber
  <2> QED
    BY <1>1, <2>1
<1>6. f \in [N -> Cells(g)]
  BY <1>2, <1>3
<1>7. \A a, b \in N : f[a] = f[b] => a = b
  BY <1>2, <1>4
<1>8. \A c \in Cells(g) : \E a \in N : f[a] = c
  BY <1>2, <1>5
<1>9. f \in Bijection(N, Cells(g))
  BY <1>6, <1>7, <1>8 DEF Bijection, Injection, Surjection, IsInjective
<1> QED
  BY <1>9 DEF f, N

(* So do those from the edges inwards, folded in both directions.          *)
LEMMA Folding ==
  ASSUME NEW g, Laid(g)
  PROVE  [p \in Cells(g) |-> FoldBoth(g, p)] \in Bijection(Cells(g), Cells(g))
<1> DEFINE w == g.blockWidth
           h == g.blockHeight
           f == [p \in Cells(g) |-> FoldBoth(g, p)]
<1>1. w \in Nat \ {0} /\ h \in Nat \ {0} /\ Cells(g) = (0..(w - 1)) \X (0..(h - 1))
      /\ f = [p \in Cells(g) |-> <<Folded(p[1], w), Folded(p[2], h)>>]
  BY DEF Laid, Cells, FoldBoth
<1> HIDE DEF w, h, f
<1>2. f \in [Cells(g) -> Cells(g)]
  BY <1>1, FoldedPermutes
<1>3. ASSUME NEW a \in Cells(g), NEW b \in Cells(g), f[a] = f[b] PROVE a = b
  <2>1. Folded(a[1], w) = Folded(b[1], w) /\ Folded(a[2], h) = Folded(b[2], h)
    BY <1>1, <1>3
  <2>2. a[1] = b[1]
    BY <1>1, <2>1, FoldedPermutes
  <2>3. a[2] = b[2]
    BY <1>1, <2>1, FoldedPermutes
  <2> QED
    BY <1>1, <2>2, <2>3
<1>4. ASSUME NEW c \in Cells(g) PROVE \E a \in Cells(g) : f[a] = c
  <2>1. PICK x \in 0..(w - 1), y \in 0..(h - 1) : c = <<x, y>>
    BY <1>1
  <2>2. PICK i \in 0..(w - 1) : Folded(i, w) = x
    BY <1>1, FoldedPermutes
  <2>3. PICK j \in 0..(h - 1) : Folded(j, h) = y
    BY <1>1, FoldedPermutes
  <2>4. <<i, j>> \in Cells(g) /\ f[<<i, j>>] = <<x, y>>
    BY <1>1, <2>2, <2>3
  <2> QED
    BY <2>1, <2>4
<1>5. f \in Bijection(Cells(g), Cells(g))
  BY <1>2, <1>3, <1>4 DEF Bijection, Injection, Surjection, IsInjective
<1> QED
  BY <1>5 DEF f

(* Whatever the pattern and the step, the serials go to the cells of the   *)
(* grid one to one.                                                        *)
LEMMA SerialsToCells ==
  ASSUME NEW g, Laid(g)
  PROVE  [nb \in Numbers(g) |-> getBlockXY(g, nb)] \in Bijection(Numbers(g), Cells(g))
<1> DEFINE N    == Numbers(g)
           C    == Cells(g)
           step == [nb \in N |-> Stepped(g, nb)]
           turn == [n \in N |-> BlocksOf(g) - 1 - n]
           row  == [n \in N |-> ByRow(g, n)]
           col  == [n \in N |-> ByColumn(g, n)]
           fold == [p \in C |-> FoldBoth(g, p)]
           xy   == [nb \in N |-> getBlockXY(g, nb)]
<1>1. /\ step \in Bijection(N, N) /\ turn \in Bijection(N, N)
      /\ row \in Bijection(N, C) /\ col \in Bijection(N, C) /\ fold \in Bijection(C, C)
  BY Stepping, Turning, Rows, Columns, Folding
<1>2. /\ step \in [N -> N] /\ turn \in [N -> N] /\ row \in [N -> C] /\ col \in [N -> C]
      /\ fold \in [C -> C]
  BY <1>1 DEF Bijection, Injection
<1>3. \A nb \in N :
        xy[nb] = CASE g.renderPattern = 1 -> col[step[nb]]
                   [] g.renderPattern = 2 -> fold[row[step[nb]]]
                   [] g.renderPattern = 3 -> fold[row[turn[step[nb]]]]
                   [] g.renderPattern = 4 -> fold[col[step[nb]]]
                   [] g.renderPattern = 5 -> fold[col[turn[step[nb]]]]
                   [] OTHER               -> row[step[nb]]
  <2> SUFFICES ASSUME NEW nb \in N
               PROVE  xy[nb] = CASE g.renderPattern = 1 -> col[step[nb]]
                                 [] g.renderPattern = 2 -> fold[row[step[nb]]]
                                 [] g.renderPattern = 3 -> fold[row[turn[step[nb]]]]
                                 [] g.renderPattern = 4 -> fold[col[step[nb]]]
                                 [] g.renderPattern = 5 -> fold[col[turn[step[nb]]]]
                                 [] OTHER               -> row[step[nb]]
    OBVIOUS
  <2>1. step[nb] \in N /\ step[nb] = Stepped(g, nb)
    BY <1>2
  <2>2. \A n \in N : /\ row[n] = ByRow(g, n) /\ col[n] = ByColumn(g, n)
                     /\ row[n] \in C /\ col[n] \in C
                     /\ turn[n] = BlocksOf(g) - 1 - n /\ turn[n] \in N
    BY <1>2
  <2>3. \A p \in C : fold[p] = FoldBoth(g, p)
    OBVIOUS
  <2>4. xy[nb] = getBlockXY(g, nb)
    OBVIOUS
  <2> HIDE DEF N, C, step, turn, row, col, fold, xy
  <2> QED
    BY <2>1, <2>2, <2>3, <2>4 DEF getBlockXY
<1>4. xy = [nb \in N |-> xy[nb]]
  OBVIOUS
<1> HIDE DEF N, C, step, turn, row, col, fold, xy
<1>5. ASSUME NEW s \in Bijection(N, N), NEW p \in Bijection(N, C)
      PROVE  /\ [nb \in N |-> p[s[nb]]] \in Bijection(N, C)
             /\ [nb \in N |-> fold[p[s[nb]]]] \in Bijection(N, C)
  <2> DEFINE f == [nb \in N |-> p[s[nb]]]
  <2>1. f \in Bijection(N, C) /\ \A nb \in N : f[nb] = p[s[nb]]
    BY Composed
  <2> HIDE DEF f
  <2>2. [nb \in N |-> fold[f[nb]]] \in Bijection(N, C)
    BY <1>1, <2>1, Composed
  <2> QED
    BY <2>1, <2>2 DEF f
<1> DEFINE back == [nb \in N |-> turn[step[nb]]]
<1>6. back \in Bijection(N, N) /\ \A nb \in N : back[nb] = turn[step[nb]]
  BY <1>1, Composed
<1> HIDE DEF back
<1>7. /\ [nb \in N |-> row[step[nb]]] \in Bijection(N, C)
      /\ [nb \in N |-> fold[row[step[nb]]]] \in Bijection(N, C)
      /\ [nb \in N |-> col[step[nb]]] \in Bijection(N, C)
      /\ [nb \in N |-> fold[col[step[nb]]]] \in Bijection(N, C)
  BY <1>1, <1>5
<1>8. /\ [nb \in N |-> fold[row[back[nb]]]] \in Bijection(N, C)
      /\ [nb \in N |-> fold[col[back[nb]]]] \in Bijection(N, C)
  BY <1>1, <1>5, <1>6
<1>9. xy \in Bijection(N, C)
  <2>1. CASE g.renderPattern = 1
    BY <1>3, <1>4, <1>7, <2>1
  <2>2. CASE g.renderPattern = 2
    BY <1>3, <1>4, <1>7, <2>2
  <2>3. CASE g.renderPattern = 3
    BY <1>3, <1>4, <1>6, <1>8, <2>3
  <2>4. CASE g.renderPattern = 4
    BY <1>3, <1>4, <1>7, <2>4
  <2>5. CASE g.renderPattern = 5
    BY <1>3, <1>4, <1>6, <1>8, <2>5
  <2>6. CASE g.renderPattern \notin 1..5
    BY <1>3, <1>4, <1>7, <2>6
  <2> QED
    BY <2>1, <2>2, <2>3, <2>4, <2>5, <2>6
<1> QED
  BY <1>9 DEF xy, N, C

-----------------------------------------------------------------------------
(* The spans of n blocks cut first..last into pieces.                      *)
Cuts(first, last, size, n) ==
  /\ n \in Nat \ {0}
  /\ \A i \in 0..(n - 1) : Span(first, last, size, i) \subseteq first..last
  /\ \A p \in first..last, i \in 0..(n - 1) :
       p \in Span(first, last, size, i) <=> i = (p - first) \div size
  /\ \A p \in first..last : (p - first) \div size \in 0..(n - 1)

(* Spans of size pixels, the last one cut, cut first..last into n pieces.  *)
LEMMA SpansCut ==
  ASSUME NEW first \in Nat, NEW last \in Nat, first <= last, NEW size \in Nat \ {0},
         NEW n, n = BlocksIn(last - first + 1, size)
  PROVE  Cuts(first, last, size, n)
<1> DEFINE len == last - first + 1
           e   == len + size - 1
<1>1. len \in Nat \ {0} /\ e \in Nat /\ n = e \div size /\ n \in Nat
  BY Division DEF BlocksIn
<1>2. e = size * n + (e % size) /\ e % size \in 0..(size - 1)
  BY <1>1, Division
<1>3. ASSUME NEW i \in Nat, NEW p \in first..last
      PROVE  p \in Span(first, last, size, i) <=> i = (p - first) \div size
  <2> DEFINE d == p - first
             q == d \div size
             r == d % size
  <2>1. d \in Nat /\ p = first + d
    OBVIOUS
  <2>2. d = size * q + r /\ q \in Nat /\ r \in 0..(size - 1)
    BY <2>1, Division
  <2>3. i * size \in Nat /\ (i + 1) * size = i * size + size
    OBVIOUS
  <2>4. p \in Span(first, last, size, i) <=> i * size <= d /\ d < i * size + size
    BY <2>1, <2>3 DEF Span, Smaller
  <2>5. ASSUME i * size <= d, d < i * size + size PROVE i = q
    <3>1. d - i * size \in 0..(size - 1) /\ d = size * i + (d - i * size)
      BY <2>1, <2>3, <2>5
    <3>2. d \div size = i
      <4> DEFINE rest == d - i * size
      <4>1. rest \in 0..(size - 1) /\ d = size * i + rest
        BY <3>1
      <4> HIDE DEF rest, d
      <4> QED
        BY <4>1, Quotients
    <3> QED
      BY <3>2
  <2>6. ASSUME i = q PROVE i * size <= d /\ d < i * size + size
    <3> HIDE DEF d, q, r
    <3>1. size * q = i * size
      BY <2>2, <2>6
    <3> QED
      BY <2>1, <2>2, <2>3, <3>1
  <2> QED
    BY <2>4, <2>5, <2>6
<1>4. ASSUME NEW p \in first..last PROVE (p - first) \div size \in 0..(n - 1)
  <2> DEFINE d == p - first
             q == d \div size
  <2>1. d \in Nat /\ d < len
    OBVIOUS
  <2>2. d = size * q + (d % size) /\ q \in Nat /\ d % size \in 0..(size - 1)
    BY <2>1, Division
  <2>3. ~(q >= n)
    <3> SUFFICES ASSUME q >= n PROVE FALSE
      OBVIOUS
    <3> HIDE DEF q
    <3>1. size * q >= size * n /\ size * q \in Nat /\ size * n \in Nat
      BY <1>1, <2>2
    <3> HIDE DEF d
    <3>2. d >= size * n
      BY <2>1, <2>2, <3>1
    <3> QED
      BY <1>1, <1>2, <2>1, <3>1, <3>2
  <2> QED
    BY <1>1, <2>2, <2>3
<1>5. n > 0
  <2>1. first \in first..last
    OBVIOUS
  <2> QED
    BY <1>1, <1>4, <2>1
<1>6. \A i \in 0..(n - 1) : Span(first, last, size, i) \subseteq first..last
  <2> SUFFICES ASSUME NEW i \in 0..(n - 1), NEW p \in Span(first, last, size, i)
               PROVE  p \in first..last
    OBVIOUS
  <2>1. i * size \in Nat /\ (i + 1) * size \in Nat
    OBVIOUS
  <2> QED
    BY <2>1 DEF Span, Smaller
<1> QED
  BY <1>1, <1>3, <1>4, <1>5, <1>6 DEF Cuts

(* The rectangles of all serials are the render area, and each pixel is    *)
(* in one of them.                                                         *)
Partitions(g) ==
  /\ \A b \in Numbers(g) : Rect(g, b) \subseteq Pixels(g.renderArea)
  /\ \A p \in Pixels(g.renderArea) : \E b \in Numbers(g) : p \in Rect(g, b)
  /\ \A a, b \in Numbers(g) : a # b => Rect(g, a) \cap Rect(g, b) = {}

(* The grid that options lead to has blocks for its whole area, and its    *)
(* step is reduced until it has no factor in common with their number.     *)
LEMMA OptionsLaid ==
  ASSUME NEW o \in Options
  PROVE  LET g == Grid(o)
         IN  /\ g.renderArea \in Areas /\ g.blockSize \in Nat \ {0} /\ Laid(g)
             /\ g.blockWidth = BlocksIn(AreaWidth(g.renderArea), g.blockSize)
             /\ g.blockHeight = BlocksIn(AreaHeight(g.renderArea), g.blockSize)
<1> DEFINE a    == o.area
           g    == Grid(o)
           size == SizeOf(o.size, a)
           w    == BlocksIn(AreaWidth(a), size)
           h    == BlocksIn(AreaHeight(a), size)
<1>1. /\ a \in Areas /\ a[1] \in Nat /\ a[2] \in Nat /\ a[3] \in Nat /\ a[4] \in Nat
      /\ a[1] <= a[3] /\ a[2] <= a[4] /\ o.size \in Nat /\ o.step \in Nat
  BY OptionsAssumption DEF Areas
<1>2. /\ g.renderArea = a /\ g.blockSize = size /\ g.blockWidth = w /\ g.blockHeight = h
      /\ g.renderBlockStep = ReducedStep(o.step, w * h)
  BY DEF Grid
<1>3. AreaWidth(a) \in Nat \ {0} /\ AreaHeight(a) \in Nat \ {0}
  BY <1>1 DEF AreaWidth, AreaHeight
<1>4. size \in Nat \ {0}
  BY <1>1, <1>3 DEF SizeOf, Smaller, Larger
<1> HIDE DEF g, a, size
<1>5. w \in Nat \ {0}
  <2>1. a[3] - a[1] + 1 = AreaWidth(a)
    BY DEF AreaWidth
  <2> QED
    BY <1>1, <1>4, <2>1, SpansCut DEF Cuts
<1>6. h \in Nat \ {0}
  <2>1. a[4] - a[2] + 1 = AreaHeight(a)
    BY DEF AreaHeight
  <2> QED
    BY <1>1, <1>4, <2>1, SpansCut DEF Cuts
<1> HIDE DEF w, h
<1>7. BlocksOf(g) = w * h /\ w * h \in Nat \ {0}
  BY <1>2, <1>5, <1>6 DEF BlocksOf
<1>8. g.renderBlockStep # 0 =>
        g.renderBlockStep \in 1..(w * h) /\ Coprime(g.renderBlockStep, w * h)
  BY <1>1, <1>2, <1>7, ReducedSteps
<1>9. Laid(g)
  BY <1>2, <1>5, <1>6, <1>7, <1>8 DEF Laid
<1> QED
  BY <1>1, <1>2, <1>4, <1>9 DEF g, w, h

(* The rectangles of all serials are the area, each pixel in one of them.  *)
LEMMA RectsPartition ==
  ASSUME NEW o \in Options
  PROVE  Partitions(Grid(o))
<1> DEFINE g == Grid(o)
           a == g.renderArea
           size == g.blockSize
           N == Numbers(g)
           xy == [nb \in N |-> getBlockXY(g, nb)]
           X(i) == Span(a[1], a[3], size, i)
           Y(i) == Span(a[2], a[4], size, i)
           C == (0..(g.blockWidth - 1)) \X (0..(g.blockHeight - 1))
           cell(p) == <<(p[1] - a[1]) \div size, (p[2] - a[2]) \div size>>
<1>1. /\ a \in Areas /\ size \in Nat \ {0} /\ Laid(g)
      /\ g.blockWidth = BlocksIn(AreaWidth(a), size)
      /\ g.blockHeight = BlocksIn(AreaHeight(a), size)
  BY OptionsLaid
<1>2. /\ a[1] \in Nat /\ a[2] \in Nat /\ a[3] \in Nat /\ a[4] \in Nat
      /\ a[1] <= a[3] /\ a[2] <= a[4]
  BY <1>1 DEF Areas
<1>3. xy \in Bijection(N, C)
  BY <1>1, SerialsToCells DEF Cells
<1>4. /\ \A nb \in N : xy[nb] \in C
      /\ \A b, c \in N : xy[b] = xy[c] => b = c
      /\ \A c \in C : \E b \in N : xy[b] = c
  BY <1>3 DEF Bijection, Injection, Surjection, IsInjective
<1>5. \A nb \in N : Rect(g, nb) = X(xy[nb][1]) \X Y(xy[nb][2])
  BY DEF Rect
<1>6. Pixels(a) = (a[1]..a[3]) \X (a[2]..a[4])
  BY DEF Pixels
<1> HIDE DEF g, a, size, N, xy
<1>7. /\ g.blockWidth \in Nat
      /\ \A i \in 0..(g.blockWidth - 1) : X(i) \subseteq a[1]..a[3]
      /\ \A p \in a[1]..a[3], i \in 0..(g.blockWidth - 1) :
           p \in X(i) <=> i = (p - a[1]) \div size
      /\ \A p \in a[1]..a[3] : (p - a[1]) \div size \in 0..(g.blockWidth - 1)
  <2> DEFINE first == a[1]
             last  == a[3]
             n     == g.blockWidth
  <2>1. first \in Nat /\ last \in Nat /\ first <= last /\ n = BlocksIn(last - first + 1, size)
    BY <1>1, <1>2 DEF AreaWidth
  <2>2. size \in Nat \ {0} /\ \A i : X(i) = Span(first, last, size, i)
    BY <1>1
  <2> HIDE DEF first, last, n, X
  <2>3. Cuts(first, last, size, n)
    BY <2>1, <2>2, SpansCut
  <2> QED
    BY <2>2, <2>3 DEF Cuts, first, last, n
<1>8. /\ g.blockHeight \in Nat
      /\ \A i \in 0..(g.blockHeight - 1) : Y(i) \subseteq a[2]..a[4]
      /\ \A p \in a[2]..a[4], i \in 0..(g.blockHeight - 1) :
           p \in Y(i) <=> i = (p - a[2]) \div size
      /\ \A p \in a[2]..a[4] : (p - a[2]) \div size \in 0..(g.blockHeight - 1)
  <2> DEFINE first == a[2]
             last  == a[4]
             n     == g.blockHeight
  <2>1. first \in Nat /\ last \in Nat /\ first <= last /\ n = BlocksIn(last - first + 1, size)
    BY <1>1, <1>2 DEF AreaHeight
  <2>2. size \in Nat \ {0} /\ \A i : Y(i) = Span(first, last, size, i)
    BY <1>1
  <2> HIDE DEF first, last, n, Y
  <2>3. Cuts(first, last, size, n)
    BY <2>1, <2>2, SpansCut
  <2> QED
    BY <2>2, <2>3 DEF Cuts, first, last, n
<1> HIDE DEF X, Y
<1>9. \A nb \in N : xy[nb][1] \in 0..(g.blockWidth - 1) /\ xy[nb][2] \in 0..(g.blockHeight - 1)
                    /\ xy[nb] = <<xy[nb][1], xy[nb][2]>>
  BY <1>4
<1>10. ASSUME NEW nb \in N PROVE Rect(g, nb) \subseteq Pixels(a)
  BY <1>5, <1>6, <1>7, <1>8, <1>9
<1>11. ASSUME NEW p \in Pixels(a), NEW nb \in N PROVE p \in Rect(g, nb) <=> xy[nb] = cell(p)
  BY <1>5, <1>6, <1>7, <1>8, <1>9
<1>12. \A p \in Pixels(a) : cell(p) \in C
  BY <1>6, <1>7, <1>8
<1> HIDE DEF C, cell
<1>13. \A p \in Pixels(a) : \E b \in N : p \in Rect(g, b)
  BY <1>4, <1>11, <1>12
<1>14. \A b, c \in N : b # c => Rect(g, b) \cap Rect(g, c) = {}
  BY <1>4, <1>10, <1>11
<1> QED
  BY <1>10, <1>13, <1>14 DEF Partitions, N, a, g

(* When a pass ends, what was handed out and what was there already are    *)
(* the render area, each pixel once, on whatever grid the options lead to. *)
THEOREM AreaStaysPartitioned == Spec => []AreaPartitioned
<1>1. ASSUME NEW g \in Grids
      PROVE  /\ UNION {RectOf[g][b] : b \in Blocks} = Pixels(g.renderArea)
             /\ \A a, b \in Blocks : a # b => RectOf[g][a] \cap RectOf[g][b] = {}
  <2>1. PICK o \in Options : g = Grid(o) /\ BlocksOf(g) = NumBlocks
    BY DEF Grids
  <2>2. Partitions(g) /\ Numbers(g) = Blocks
    BY <2>1, RectsPartition DEF Numbers, Blocks
  <2>3. \A b \in Blocks : RectOf[g][b] = Rect(g, b)
    BY DEF RectOf
  <2> QED
    BY <2>2, <2>3 DEF Partitions
<1>2. Blocks \notin NoPartition
  BY <1>1 DEF NoPartition
<1>3. IInv /\ AllEnded => {b \in Blocks : count[b] > 0} \cup (Blocks \ ToDo) = Blocks
  <2> SUFFICES ASSUME IInv, AllEnded, NEW b \in ToDo PROVE count[b] > 0
    BY DEF ToDo
  <2>1. count[b] >= 1 /\ b \in Blocks
    BY DEF IInv, EndInv, ToDo
  <2> QED
    BY <2>1 DEF IInv, TypeOK
<1>4. IInv => AreaPartitioned
  BY <1>2, <1>3 DEF AreaPartitioned
<1> QED
  BY <1>4, Invariance, PTL
=============================================================================
