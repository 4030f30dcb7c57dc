----------------------------- MODULE IndexProofs -----------------------------
(***************************************************************************)
(* Proofs about what an Index is made of.                                  *)
(*                                                                         *)
(* Arena, for any sizes, alignments, options and addresses: what makes     *)
(* NoOverlap inductive is that nothing that is still in use lies in a      *)
(* reusable block behind *top_ (LiveApart): AddBlock may take that block   *)
(* and move its tip back.                                                  *)
(*                                                                         *)
(* IndexTree, for any index: the walk with any stack of descriptors, and   *)
(* the tree that InitDirs builds.                                          *)
(***************************************************************************)
EXTENDS Arena, IndexTree, SequenceTheorems, FiniteSetTheorems, FunctionTheorems,
        WellFoundedInduction, TLAPS

Block == [start : Starts, tip : Nat, end : Nat]
Held == [p : Nat, e : Nat, alignment : Alignments]

Typed ==
    /\ blocks \in Seq(Block)
    /\ reusable \in 0..Len(blocks)
    /\ top \in 0..Len(blocks)
    /\ ask = << >> \/ ask \in AllocSizes \X Alignments
    /\ added \in BOOLEAN
    /\ live \subseteq Held

Shape ==
    /\ blocks # << >> => reusable > 0 /\ top > 0
    /\ top <= reusable \/ top = Len(blocks)
    /\ \A i \in 1..reusable : BlockSize(blocks[i]) = BlockSize(blocks[1])

BlocksApart ==
    /\ \A i \in 1..Len(blocks) :
          blocks[i].start <= blocks[i].tip /\ blocks[i].tip <= blocks[i].end
    /\ \A i, j \in 1..Len(blocks) :
          i # j => blocks[i].end <= blocks[j].start \/ blocks[j].end <= blocks[i].start

\* l lies below the tip of block i, which AddBlock does not reset.
Within(l, i) ==
    /\ blocks[i].start <= l.p /\ l.e <= blocks[i].tip
    /\ i <= top \/ i > reusable

LiveApart ==
    /\ \A l \in live : l.p < l.e /\ l.p % l.alignment = 0
    /\ \A l \in live : \E i \in 1..Len(blocks) : Within(l, i)
    /\ \A l, m \in live : l # m => l.e <= m.p \/ m.e <= l.p

\* The block AddBlock has found is empty and large enough.
AddedFits ==
    ask # << >> /\ added =>
        top > 0 /\ blocks[top].tip = blocks[top].start /\ Need <= BlockSize(blocks[top])

ArenaInv == Typed /\ Shape /\ BlocksApart /\ LiveApart /\ AddedFits

-----------------------------------------------------------------------------
LEMMA ModBounds ==
    ASSUME NEW n \in Nat, NEW m \in Nat, m > 0
    PROVE  n % m \in 0..(m - 1)
  BY Z3

LEMMA MultipleMod ==
    ASSUME NEW k \in Nat, NEW m \in Nat, m > 0
    PROVE  (m * k) % m = 0
<1> DEFINE d == (m * k) \div m
           r == (m * k) % m
<1>1. m * k = m * d + r /\ d \in Int /\ r \in 0..(m - 1) /\ m * k \in Nat
  BY Z3
<1> HIDE DEF d, r
<1>2. r = m * (k - d)
  BY <1>1, Z3
<1>3. CASE k - d >= 1
  BY <1>1, <1>2, <1>3, m * (k - d) >= m, Z3
<1>4. CASE k - d <= -1
  BY <1>1, <1>2, <1>4, m * (k - d) < 0, Z3
<1>5. CASE k - d = 0
  BY <1>1, <1>2, <1>5, Z3 DEF r
<1> QED BY <1>1, <1>3, <1>4, <1>5, Z3

\* Align returns a multiple of m, less than m bytes on.
LEMMA AlignFacts ==
    ASSUME NEW n \in Nat, NEW m \in Nat, m > 0
    PROVE  /\ Align(n, m) \in Nat /\ n <= Align(n, m) /\ Align(n, m) < n + m
           /\ Align(n, m) % m = 0
<1>1. n % m \in 0..(m - 1)
  BY ModBounds
<1>2. CASE n % m = 0
  BY <1>2 DEF Align
<1>3. CASE n % m # 0
  <2>1. Align(n, m) = n + m - (n % m)
    BY <1>3 DEF Align
  <2>2. (n + m - (n % m)) % m = 0
    <3>1. n = m * (n \div m) + (n % m) /\ n \div m \in Nat
      BY Z3
    <3>2. n + m - (n % m) = m * ((n \div m) + 1)
      BY <3>1, <1>1, Z3
    <3>3. (n \div m) + 1 \in Nat
      BY <3>1
    <3>4. (m * ((n \div m) + 1)) % m = 0
      BY <3>3, MultipleMod, Zenon
    <3> QED BY <3>2, <3>4, Zenon
  <2> QED BY <1>1, <1>3, <2>1, <2>2
<1> QED BY <1>2, <1>3

LEMMA PowersPositive ==
    /\ \A p \in Powers : p \in Nat /\ p > 0
    /\ MaxAlign \in Nat /\ \A m \in Alignments : m \in Nat /\ m > 0
  BY ArenaAssumption DEF Powers

LEMMA NextPow2Type == \A n \in Nat : NextPow2(n) \in Nat
<1> SUFFICES ASSUME NEW n \in Nat PROVE NextPow2(n) \in Nat
  OBVIOUS
<1>1. CASE \E p \in Powers : n <= p /\ p < 2 * n
  <2>1. (CHOOSE p \in Powers : n <= p /\ p < 2 * n) \in Powers
    BY <1>1
  <2> QED BY <1>1, <2>1, PowersPositive DEF NextPow2
<1> QED BY <1>1 DEF NextPow2

LEMMA SwappedFacts ==
    ASSUME NEW s \in Seq(Block), NEW b \in Block, NEW k \in 1..(Len(s) + 1)
    PROVE  LET g == Swapped(Append(s, b), Len(s) + 1, k)
           IN  /\ g \in Seq(Block) /\ Len(g) = Len(s) + 1
               /\ g[k] = b
               /\ \A i \in 1..Len(s) : i # k => g[i] = s[i]
               /\ k <= Len(s) => g[Len(s) + 1] = s[k]
<1> DEFINE a == Append(s, b)
           n == Len(s) + 1
<1>1. /\ a \in Seq(Block) /\ Len(a) = n /\ DOMAIN a = 1..n /\ n \in Nat
      /\ a[n] = b /\ \A i \in 1..Len(s) : a[i] = s[i]
  BY AppendProperties
<1>2. \A i \in 1..n : a[i] \in Block
  BY <1>1
<1> HIDE DEF a
<1>3. n \in 1..n /\ k \in 1..n
  BY <1>1
<1> DEFINE g == Swapped(a, n, k)
<1>4. /\ DOMAIN g = 1..n
      /\ \A i \in 1..n : g[i] = IF i = k THEN a[n] ELSE IF i = n THEN a[k] ELSE a[i]
  BY <1>1, <1>3 DEF Swapped
<1>5. g \in [1..n -> Block]
  <2>1. g = [i \in 1..n |-> g[i]]
    BY <1>1, <1>3 DEF Swapped
  <2> HIDE DEF g
  <2>2. \A i \in 1..n : g[i] \in Block
    BY <1>2, <1>3, <1>4
  <2> QED BY <2>1, <2>2
<1>6. g \in Seq(Block) /\ Len(g) = n
  <2> HIDE DEF g
  <2> QED BY <1>1, <1>4, <1>5, SeqDef, LenProperties
<1> QED BY <1>1, <1>3, <1>4, <1>6 DEF a

-----------------------------------------------------------------------------
LEMMA InitInv == ArenaInit => ArenaInv
<1> SUFFICES ASSUME ArenaInit PROVE ArenaInv
  OBVIOUS
<1>1. blocks \in Seq(Block) /\ Len(blocks) = 0
  BY EmptySeq DEF ArenaInit
<1>2. Typed
  <2>1. reusable \in 0..Len(blocks) /\ top \in 0..Len(blocks)
    BY <1>1 DEF ArenaInit
  <2>2. ask = << >> /\ added \in BOOLEAN /\ live \subseteq Held
    BY DEF ArenaInit
  <2> QED BY <1>1, <2>1, <2>2, Zenon DEF Typed
<1>3. Shape /\ BlocksApart
  BY <1>1 DEF ArenaInit, Shape, BlocksApart
<1>4. LiveApart /\ AddedFits
  BY DEF ArenaInit, LiveApart, AddedFits
<1> QED BY <1>2, <1>3, <1>4 DEF ArenaInv

LEMMA BlockFacts ==
    ASSUME ArenaInv, NEW i \in 1..Len(blocks)
    PROVE  /\ blocks[i] \in Block
           /\ blocks[i].start \in Starts /\ blocks[i].start \in Nat
           /\ blocks[i].tip \in Nat /\ blocks[i].end \in Nat
           /\ blocks[i].start <= blocks[i].tip /\ blocks[i].tip <= blocks[i].end
           /\ BlockSize(blocks[i]) \in Nat
<1>1. blocks[i] \in Block
  BY ElementOfSeq DEF ArenaInv, Typed
<1>2. /\ blocks[i].start \in Starts /\ blocks[i].start \in Nat
      /\ blocks[i].tip \in Nat /\ blocks[i].end \in Nat
  BY <1>1, ArenaAssumption DEF Block
<1>3. blocks[i].start <= blocks[i].tip /\ blocks[i].tip <= blocks[i].end
  BY DEF ArenaInv, BlocksApart
<1> QED BY <1>1, <1>2, <1>3 DEF BlockSize

LEMMA LenNat == ArenaInv => Len(blocks) \in Nat
  BY LenProperties DEF ArenaInv, Typed

\* What a call in progress asks for, and the size of a block that serves it.
LEMMA NeedFacts ==
    ASSUME ArenaInv, ask # << >>
    PROVE  /\ ask[1] \in Nat /\ ask[2] \in Alignments /\ ask[2] \in Nat /\ ask[2] > 0
           /\ Need \in Nat /\ NewSize \in Nat /\ Need <= NewSize
<1>1. ask[1] \in Nat /\ ask[2] \in Alignments
  BY ArenaAssumption DEF ArenaInv, Typed
<1>2. ask[2] \in Nat /\ ask[2] > 0 /\ MaxAlign \in Nat
  BY <1>1, PowersPositive
<1>3. Need \in Nat
  BY <1>1, <1>2 DEF Need, Larger
<1>4. BlockSize(Top) \in Nat
  <2>1. CASE top = 0
    BY <2>1, ArenaAssumption DEF Top, EmptyBlock, BlockSize
  <2>2. CASE top # 0
    <3>1. top \in 1..Len(blocks)
      BY <2>2, LenNat DEF ArenaInv, Typed
    <3> QED BY <2>2, <3>1, BlockFacts DEF Top
  <2> QED BY <2>1, <2>2
<1>5. NextPow2(BlockSize(Top) + 1) \in Nat
  BY <1>4, NextPow2Type
<1>6. Clamp(MinBlockSize, NextPow2(BlockSize(Top) + 1), MaxBlockSize) \in Nat
  BY <1>5, ArenaAssumption DEF Clamp, Smaller, Larger
<1>7. NewSize \in Nat /\ Need <= NewSize
  BY <1>3, <1>6 DEF NewSize, Larger
<1> QED BY <1>1, <1>2, <1>3, <1>7

LEMMA PlaceFacts ==
    ASSUME ArenaInv, ask # << >>, top > 0
    PROVE  /\ top \in 1..Len(blocks)
           /\ Place \in Nat /\ blocks[top].tip <= Place /\ Place < blocks[top].tip + ask[2]
           /\ Place % ask[2] = 0
<1>1. top \in 1..Len(blocks)
  BY LenNat DEF ArenaInv, Typed
<1>2. Place = Align(blocks[top].tip, ask[2])
  BY DEF Place, Top, ArenaInv, Typed
<1> QED BY <1>1, <1>2, NeedFacts, AlignFacts, BlockFacts

(* The block AddBlock has found is large enough: AllocateSlow calls it     *)
(* once.                                                                   *)
LEMMA AddedMeansFits == ArenaInv => (ask # << >> /\ added => Fits)
<1> SUFFICES ASSUME ArenaInv, ask # << >>, added PROVE Fits
  OBVIOUS
<1>1. top > 0 /\ blocks[top].tip = blocks[top].start /\ Need <= BlockSize(blocks[top])
  BY DEF ArenaInv, AddedFits
<1> DEFINE b == blocks[top]
<1>2. b.start \in Starts /\ b.start \in Nat /\ b.end \in Nat
  BY <1>1, PlaceFacts, BlockFacts
<1>3. Fits <=> Place + ask[1] <= b.end
  BY <1>1 DEF Fits, Top
<1>4. Place \in Nat /\ Place < b.start + ask[2]
  BY <1>1, PlaceFacts
<1>5. CASE ask[2] > MaxAlign
  <2>1. Need = ask[1] + ask[2] - 1
    BY <1>5 DEF Need
  <2>2. Need <= b.end - b.start
    BY <1>1 DEF BlockSize
  <2>3. ask[1] \in Nat /\ ask[2] \in Nat
    BY NeedFacts
  <2>4. \A p, s, e, n, a \in Nat : p < s + a /\ n + a - 1 <= e - s => p + n <= e
    OBVIOUS
  <2>5. ask[1] + ask[2] - 1 <= b.end - b.start
    BY <2>1, <2>2
  <2>6. Place + ask[1] <= b.end
    BY <1>2, <1>4, <2>3, <2>4, <2>5
  <2> QED BY <1>3, <2>6
<1>6. CASE ask[2] <= MaxAlign
  <2>1. b.start % ask[2] = 0
    BY <1>2, <1>6, NeedFacts, ArenaAssumption
  <2>2. Place = b.start
    BY <1>1, <2>1 DEF Place, Align, Top, ArenaInv, Typed
  <2>3. ask[1] <= Need
    BY <1>6, NeedFacts, PowersPositive DEF Need, Larger
  <2> QED BY <1>1, <1>2, <1>3, <2>2, <2>3, NeedFacts DEF BlockSize
<1> QED BY <1>5, <1>6, NeedFacts, PowersPositive

-----------------------------------------------------------------------------
LEMMA AllocateCallKeeps ==
    ASSUME ArenaInv, NEW size \in AllocSizes, NEW alignment \in Alignments,
           AllocateCall(size, alignment)
    PROVE  ArenaInv'
<1> USE DEF AllocateCall
<1>1. Typed'
  <2>1. ask' \in AllocSizes \X Alignments /\ added' \in BOOLEAN
    OBVIOUS
  <2>2. UNCHANGED <<blocks, reusable, top, live>>
    OBVIOUS
  <2> QED BY <2>1, <2>2, Zenon DEF ArenaInv, Typed
<1>2. Shape' /\ BlocksApart'
  BY DEF ArenaInv, Shape, BlocksApart
<1>3. LiveApart'
  BY DEF ArenaInv, LiveApart, Within
<1>4. AddedFits'
  BY DEF AddedFits
<1> QED BY <1>1, <1>2, <1>3, <1>4 DEF ArenaInv

LEMMA AllocateKeeps == ASSUME ArenaInv, Allocate PROVE ArenaInv'
<1>1. ask # << >> /\ Fits
  BY DEF Allocate
<1>2. ask' = << >> /\ UNCHANGED <<reusable, top, added>>
  BY DEF Allocate
<1>3. ask[1] \in Nat /\ ask[2] \in Alignments
  BY <1>1, NeedFacts
<1> DEFINE e == Place + ask[1]
<1>4. AddedFits'
  BY <1>2 DEF AddedFits
<1>5. CASE top = 0
  <2>1. blocks = << >> /\ Len(blocks) = 0 /\ blocks' = blocks
    BY <1>5 DEF Allocate, ArenaInv, Shape, Typed
  <2>2. Place \in Nat /\ Place >= Singularity
    BY <1>1, <1>3, <1>5, NeedFacts, AlignFacts, ArenaAssumption DEF Place, Top, EmptyBlock
  <2>3. ask[1] = 0
    BY <1>1, <1>3, <1>5, <2>2, ArenaAssumption DEF Fits, Top, EmptyBlock
  <2>4. live' = live
    BY <2>3 DEF Allocate, Handed
  <2>5. Typed'
    BY <1>2, <2>1, <2>4, Zenon DEF ArenaInv, Typed
  <2>6. Shape' /\ BlocksApart'
    BY <1>2, <2>1 DEF ArenaInv, Shape, BlocksApart
  <2>7. LiveApart'
    BY <1>2, <2>1, <2>4 DEF ArenaInv, LiveApart, Within
  <2> QED BY <1>4, <2>5, <2>6, <2>7 DEF ArenaInv
<1>6. CASE top # 0
  <2>1. /\ top > 0 /\ top \in 1..Len(blocks) /\ Len(blocks) \in Nat
        /\ Place \in Nat /\ blocks[top].tip <= Place /\ Place % ask[2] = 0
    BY <1>1, <1>6, PlaceFacts, LenNat DEF ArenaInv, Typed
  <2>2. /\ e \in Nat /\ Place <= e /\ e <= blocks[top].end
    BY <1>1, <1>3, <1>6, <2>1 DEF Fits, Top
  <2>3. blocks' = [blocks EXCEPT ![top] = [blocks[top] EXCEPT !.tip = e]]
    BY <1>6 DEF Allocate
  <2>4. [blocks[top] EXCEPT !.tip = e] \in Block
    BY <2>1, <2>2, BlockFacts DEF Block
  <2>5. /\ blocks' \in Seq(Block) /\ Len(blocks') = Len(blocks)
        /\ \A i \in 1..Len(blocks) :
              blocks'[i] = IF i = top THEN [blocks[top] EXCEPT !.tip = e] ELSE blocks[i]
    BY <2>1, <2>3, <2>4, ExceptSeq DEF ArenaInv, Typed
  <2>6. /\ \A i \in 1..Len(blocks) :
              /\ blocks'[i].start = blocks[i].start /\ blocks'[i].end = blocks[i].end
              /\ i # top => blocks'[i].tip = blocks[i].tip
        /\ blocks'[top].tip = e
    BY <2>1, <2>5, BlockFacts DEF Block
  <2>7. live' \subseteq Held
    BY <1>3, <2>1, <2>2 DEF ArenaInv, Typed, Allocate, Handed, Held
  <2>8. Typed'
    BY <1>2, <2>5, <2>7, Zenon DEF ArenaInv, Typed
  <2>9. Shape'
    <3>1. \A i \in 1..Len(blocks) : BlockSize(blocks'[i]) = BlockSize(blocks[i])
      BY <2>6 DEF BlockSize
    <3>2. blocks' # << >> => reusable > 0
      BY <1>6, <2>1, EmptySeq DEF ArenaInv, Shape, Typed
    <3>3. \A i \in 1..reusable : i \in 1..Len(blocks)
      BY <2>1 DEF ArenaInv, Typed
    <3> QED BY <1>2, <2>1, <2>5, <3>1, <3>2, <3>3 DEF ArenaInv, Shape, Typed
  <2>10. BlocksApart'
    <3>1. \A i \in 1..Len(blocks) :
             blocks'[i].start <= blocks'[i].tip /\ blocks'[i].tip <= blocks'[i].end
      <4> SUFFICES ASSUME NEW i \in 1..Len(blocks)
                   PROVE  blocks'[i].start <= blocks'[i].tip /\ blocks'[i].tip <= blocks'[i].end
        OBVIOUS
      <4>1. /\ blocks[i].start \in Nat /\ blocks[i].tip \in Nat /\ blocks[i].end \in Nat
            /\ blocks[i].start <= blocks[i].tip /\ blocks[i].tip <= blocks[i].end
        BY BlockFacts
      <4>2. CASE i = top
        BY <2>1, <2>2, <2>6, <4>1, <4>2
      <4>3. CASE i # top
        BY <2>6, <4>1, <4>3
      <4> QED BY <4>2, <4>3
    <3>2. \A i, j \in 1..Len(blocks) :
             i # j => blocks[i].end <= blocks[j].start \/ blocks[j].end <= blocks[i].start
      BY DEF ArenaInv, BlocksApart
    <3> QED BY <2>5, <2>6, <3>1, <3>2 DEF BlocksApart
  <2>11. LiveApart'
    <3>1. \A l \in live' : l \in live \/ (l = [p |-> Place, e |-> e, alignment |-> ask[2]] /\ ask[1] # 0)
      BY DEF Allocate, Handed
    <3> DEFINE Now(l, i) == /\ blocks'[i].start <= l.p /\ l.e <= blocks'[i].tip
                            /\ i <= top' \/ i > reusable'
    <3>2. \A l \in live : \E i \in 1..Len(blocks) : Within(l, i) /\ Now(l, i)
      <4> SUFFICES ASSUME NEW l \in live, NEW i \in 1..Len(blocks), Within(l, i)
                   PROVE  Now(l, i)
        BY DEF ArenaInv, LiveApart
      <4>1. l.e \in Nat
        BY DEF ArenaInv, Typed, Held
      <4>2. blocks[i].start <= l.p /\ l.e <= blocks[i].tip /\ (i <= top \/ i > reusable)
        BY DEF Within
      <4>3. blocks[i].tip \in Nat
        BY BlockFacts
      <4>4. blocks'[i].start <= l.p /\ (i <= top' \/ i > reusable')
        BY <1>2, <2>6, <4>2
      <4>5. l.e <= blocks'[i].tip
        <5>1. CASE i = top
          BY <2>1, <2>2, <2>6, <4>1, <4>2, <4>3, <5>1
        <5>2. CASE i # top
          BY <2>6, <4>2, <5>2
        <5> QED BY <5>1, <5>2
      <4> QED BY <4>4, <4>5
    <3>3. \A l \in live : l.p < l.e /\ l.p % l.alignment = 0 /\ l.p \in Nat /\ l.e \in Nat
      BY DEF ArenaInv, Typed, LiveApart, Held
    <3> DEFINE new == [p |-> Place, e |-> e, alignment |-> ask[2]]
    <3>4. ask[1] # 0 => new.p < new.e /\ new.p % new.alignment = 0 /\ Now(new, top)
      <4>1. blocks'[top].start <= Place
        BY <2>1, <2>6, BlockFacts
      <4>2. top <= top'
        BY <1>2, <2>1
      <4>3. ask[1] # 0 => Place < e
        BY <1>3, <2>1
      <4> QED BY <2>1, <2>2, <2>6, <4>1, <4>2, <4>3
    <3>5. \A l \in live : l.e <= new.p \/ new.e <= l.p
      <4> SUFFICES ASSUME NEW l \in live PROVE l.e <= Place \/ e <= l.p
        OBVIOUS
      <4>1. PICK i \in 1..Len(blocks) : Within(l, i)
        BY <3>2
      <4>2. CASE i = top
        <5>1. l.e <= blocks[top].tip
          BY <4>1, <4>2 DEF Within
        <5> QED BY <2>1, <3>3, <5>1, BlockFacts
      <4>3. CASE i # top
        <5>1. blocks[i].end <= blocks[top].start \/ blocks[top].end <= blocks[i].start
          BY <2>1, <4>3 DEF ArenaInv, BlocksApart
        <5>2. blocks[i].start <= l.p /\ l.e <= blocks[i].tip
          BY <4>1 DEF Within
        <5>3. CASE blocks[i].end <= blocks[top].start
          BY <2>1, <3>3, <5>2, <5>3, BlockFacts, SMTT(20)
        <5>4. CASE blocks[top].end <= blocks[i].start
          BY <2>1, <2>2, <3>3, <5>2, <5>4, BlockFacts, SMTT(20)
        <5> QED BY <5>1, <5>3, <5>4
      <4> QED BY <4>2, <4>3
    <3>6. \A l, m \in live : l # m => l.e <= m.p \/ m.e <= l.p
      BY DEF ArenaInv, LiveApart
    <3> HIDE DEF new
    <3>7. \A l \in live' : l \in live \/ (l = new /\ ask[1] # 0)
      BY <3>1 DEF new
    <3>8. \A l \in live' : l.p < l.e /\ l.p % l.alignment = 0
      BY <3>3, <3>4, <3>7
    <3>9. \A l \in live' : \E i \in 1..Len(blocks') : Now(l, i)
      BY <2>1, <2>5, <3>2, <3>4, <3>7
    <3>10. \A l, m \in live' : l # m => l.e <= m.p \/ m.e <= l.p
      BY <3>5, <3>6, <3>7
    <3> QED BY <3>8, <3>9, <3>10 DEF LiveApart, Within
  <2> QED BY <1>4, <2>8, <2>9, <2>10, <2>11 DEF ArenaInv
<1> QED BY <1>5, <1>6

(* The block that is taken again lies behind *top_ in the reusable front,  *)
(* so nothing in use is within it.                                         *)
LEMMA AddBlockReusedKeeps == ASSUME ArenaInv, AddBlockReused PROVE ArenaInv'
<1> DEFINE k == top + 1
<1>1. /\ ask # << >> /\ MayReuse /\ top' = k /\ added' = TRUE
      /\ UNCHANGED <<reusable, ask, live>>
      /\ blocks' = [blocks EXCEPT ![k] = [blocks[k] EXCEPT !.tip = blocks[k].start]]
  BY DEF AddBlockReused
<1>2. /\ Len(blocks) \in Nat /\ reusable \in 0..Len(blocks) /\ top \in 0..Len(blocks)
      /\ k \in 1..reusable /\ k \in 1..Len(blocks) /\ k \in 0..Len(blocks)
  BY <1>1, LenNat DEF ArenaInv, Typed, MayReuse
<1>3. top > 0
  <2>1. blocks # << >>
    BY <1>2, EmptySeq DEF ArenaInv, Typed
  <2> QED BY <2>1 DEF ArenaInv, Shape
<1>4. [blocks[k] EXCEPT !.tip = blocks[k].start] \in Block
  BY <1>2, BlockFacts DEF Block
<1>5. /\ blocks' \in Seq(Block) /\ Len(blocks') = Len(blocks)
      /\ \A i \in 1..Len(blocks) :
            blocks'[i] = IF i = k THEN [blocks[k] EXCEPT !.tip = blocks[k].start] ELSE blocks[i]
  BY <1>1, <1>2, <1>4, ExceptSeq DEF ArenaInv, Typed
<1>6. /\ \A i \in 1..Len(blocks) :
            /\ blocks'[i].start = blocks[i].start /\ blocks'[i].end = blocks[i].end
            /\ BlockSize(blocks'[i]) = BlockSize(blocks[i])
            /\ i # k => blocks'[i].tip = blocks[i].tip
      /\ blocks'[k].tip = blocks[k].start
  BY <1>2, <1>5, BlockFacts DEF Block, BlockSize
<1>7. Typed'
  <2>1. reusable' \in 0..Len(blocks') /\ top' \in 0..Len(blocks')
    BY <1>1, <1>2, <1>5
  <2> QED BY <1>1, <1>5, <2>1, Zenon DEF ArenaInv, Typed
<1>8. Shape'
  <2>1. \A i \in 1..reusable : i \in 1..Len(blocks)
    BY <1>2
  <2>2. 1 \in 1..Len(blocks)
    BY <1>2
  <2> QED BY <1>1, <1>2, <1>6, <2>1, <2>2, SMTT(20) DEF ArenaInv, Shape
<1>9. BlocksApart'
  <2>1. \A i \in 1..Len(blocks) :
           blocks'[i].start <= blocks'[i].tip /\ blocks'[i].tip <= blocks'[i].end
    <3> SUFFICES ASSUME NEW i \in 1..Len(blocks)
                 PROVE  blocks'[i].start <= blocks'[i].tip /\ blocks'[i].tip <= blocks'[i].end
      OBVIOUS
    <3>1. /\ blocks[i].start \in Nat /\ blocks[i].tip \in Nat /\ blocks[i].end \in Nat
          /\ blocks[i].start <= blocks[i].tip /\ blocks[i].tip <= blocks[i].end
      BY BlockFacts
    <3> QED BY <1>6, <3>1
  <2>2. \A i, j \in 1..Len(blocks) :
           i # j => blocks[i].end <= blocks[j].start \/ blocks[j].end <= blocks[i].start
    BY DEF ArenaInv, BlocksApart
  <2> QED BY <1>5, <1>6, <2>1, <2>2 DEF BlocksApart
<1>10. LiveApart'
  <2> DEFINE Now(l, i) == /\ blocks'[i].start <= l.p /\ l.e <= blocks'[i].tip
                          /\ i <= top' \/ i > reusable'
  <2>1. \A l \in live : \E i \in 1..Len(blocks) : Now(l, i)
    <3> SUFFICES ASSUME NEW l \in live, NEW i \in 1..Len(blocks), Within(l, i)
                 PROVE  Now(l, i)
      BY DEF ArenaInv, LiveApart
    <3>1. i # k
      BY <1>2 DEF Within
    <3>2. i <= top' \/ i > reusable'
      BY <1>1, <1>2 DEF Within
    <3> QED BY <1>6, <3>1, <3>2 DEF Within
  <2> QED BY <1>1, <1>5, <2>1 DEF ArenaInv, LiveApart, Within
<1>11. AddedFits'
  <2>1. BlockSize(blocks[k]) = BlockSize(blocks[top])
    BY <1>2, <1>3 DEF ArenaInv, Shape
  <2>2. Need <= BlockSize(blocks[top])
    BY <1>1, <1>3 DEF MayReuse, Top
  <2>3. Need' = Need
    BY <1>1 DEF Need
  <2>4. blocks'[k].tip = blocks'[k].start /\ BlockSize(blocks'[k]) = BlockSize(blocks[k])
    BY <1>2, <1>6
  <2>5. top' = k /\ k > 0
    BY <1>1, <1>2
  <2> QED BY <2>1, <2>2, <2>3, <2>4, <2>5 DEF AddedFits
<1> QED BY <1>7, <1>8, <1>9, <1>10, <1>11 DEF ArenaInv

LEMMA AddBlockNewKeeps ==
    ASSUME ArenaInv, NEW p \in Starts, AddBlockNew(p) PROVE ArenaInv'
<1> DEFINE b == [start |-> p, tip |-> p, end |-> p + NewSize]
           n == Len(blocks) + 1
           small == reusable > 0 /\ NewSize < BlockSize(blocks[1])
           k == IF small THEN n ELSE Kept(NewSize) + 1
<1>1. /\ ask # << >> /\ Apart(p, NewSize) /\ added' = TRUE /\ UNCHANGED <<ask, live>>
  BY DEF AddBlockNew
<1>2. /\ Len(blocks) \in Nat /\ reusable \in 0..Len(blocks) /\ top \in 0..Len(blocks)
  BY LenNat DEF ArenaInv, Typed
<1>3. /\ p \in Nat /\ NewSize \in Nat /\ Need \in Nat /\ Need <= NewSize
  BY <1>1, NeedFacts, ArenaAssumption
<1>4. b \in Block /\ b.start = p /\ b.tip = p /\ b.end = p + NewSize /\ BlockSize(b) = NewSize
  BY <1>3 DEF Block, BlockSize
<1>5. Kept(NewSize) \in {0, reusable} /\ Kept(NewSize) \in 0..Len(blocks)
  BY <1>2 DEF Kept
<1>6. k \in 1..n
  BY <1>2, <1>5
<1>7. /\ top' = k /\ reusable' = (IF small THEN reusable ELSE k)
  <2>1. CASE small
    <3>1. Len(Append(blocks, b)) = n
      BY <1>4, AppendProperties DEF ArenaInv, Typed
    <3> QED BY <2>1, <3>1 DEF AddBlockNew
  <2>2. CASE ~small
    BY <2>2 DEF AddBlockNew
  <2> QED BY <2>1, <2>2
<1>8. /\ blocks' \in Seq(Block) /\ Len(blocks') = n
      /\ blocks'[k] = b
      /\ \A i \in 1..Len(blocks) : i # k => blocks'[i] = blocks[i]
      /\ k <= Len(blocks) => blocks'[n] = blocks[k]
  <2>0. Len(Append(blocks, b)) = n
    BY <1>4, AppendProperties DEF ArenaInv, Typed
  <2>1. CASE small
    <3>1. blocks' = Append(blocks, b) /\ k = n
      BY <2>1 DEF AddBlockNew
    <3>2. /\ blocks' \in Seq(Block) /\ Len(blocks') = n /\ blocks'[n] = b
          /\ \A i \in 1..Len(blocks) : blocks'[i] = blocks[i]
      BY <1>4, <3>1, AppendProperties DEF ArenaInv, Typed
    <3> QED BY <1>2, <3>1, <3>2
  <2>2. CASE ~small
    <3>1. blocks' = Swapped(Append(blocks, b), n, k)
      BY <2>0, <2>2 DEF AddBlockNew
    <3>2. blocks \in Seq(Block)
      BY DEF ArenaInv, Typed
    <3> HIDE DEF b, k
    <3> QED BY <1>4, <1>6, <3>1, <3>2, SwappedFacts, SMTT(20)
  <2> QED BY <2>1, <2>2
<1> HIDE DEF b
\* Where block i has gone.
<1> DEFINE At(i) == IF i = k THEN n ELSE i
<1>9. \A i \in 1..Len(blocks) : At(i) \in 1..n /\ At(i) # k /\ blocks'[At(i)] = blocks[i]
  BY <1>2, <1>6, <1>8
<1>10. \A j \in 1..n : j = k \/ \E i \in 1..Len(blocks) : j = At(i)
  <2> SUFFICES ASSUME NEW j \in 1..n, j # k PROVE \E i \in 1..Len(blocks) : j = At(i)
    OBVIOUS
  <2>1. CASE j = n
    <3>1. k \in 1..Len(blocks)
      BY <1>2, <1>6, <2>1
    <3> QED BY <2>1, <3>1
  <2>2. CASE j # n
    BY <1>2, <2>2
  <2> QED BY <2>1, <2>2
<1>11. Typed'
  <2>1. reusable' \in 0..n /\ top' \in 0..n
    BY <1>2, <1>6, <1>7
  <2> QED BY <1>1, <1>8, <2>1, Zenon DEF ArenaInv, Typed
<1>12. Shape'
  <2>1. reusable' > 0 /\ top' > 0 /\ (top' <= reusable' \/ top' = n)
    BY <1>2, <1>5, <1>6, <1>7
  <2>2. \A i \in 1..reusable' : BlockSize(blocks'[i]) = BlockSize(blocks'[1])
    <3>1. CASE small
      <4>1. \A i \in 1..reusable : i \in 1..Len(blocks) /\ i # k /\ blocks'[i] = blocks[i]
        BY <1>2, <1>8, <3>1
      <4>2. 1 \in 1..reusable
        BY <1>2, <3>1
      <4> QED BY <1>7, <3>1, <4>1, <4>2 DEF ArenaInv, Shape
    <3>2. CASE ~small /\ Kept(NewSize) = 0
      BY <1>7, <3>2
    <3>3. CASE ~small /\ Kept(NewSize) # 0
      <4>1. Kept(NewSize) = reusable /\ reusable > 0 /\ k = reusable + 1
        BY <1>2, <1>5, <3>3
      <4>2. NewSize = BlockSize(blocks[1])
        <5>1. BlockSize(blocks[1]) \in Nat
          BY <1>2, <4>1, BlockFacts
        <5> QED BY <1>3, <3>3, <4>1, <5>1 DEF Kept
      <4>3. \A i \in 1..reusable : i \in 1..Len(blocks) /\ i # k /\ blocks'[i] = blocks[i]
        BY <1>2, <1>8, <4>1
      <4>4. 1 \in 1..reusable
        BY <1>2, <4>1
      <4>5. BlockSize(blocks'[k]) = NewSize
        BY <1>4, <1>8
      <4>6. \A i \in 1..k : i \in 1..reusable \/ i = k
        BY <1>2, <4>1
      <4> QED BY <1>7, <3>3, <4>2, <4>3, <4>4, <4>5, <4>6 DEF ArenaInv, Shape
    <3> QED BY <3>1, <3>2, <3>3
  <2> QED BY <1>8, <2>1, <2>2 DEF Shape
<1>13. BlocksApart'
  <2>1. \A i \in 1..n :
           blocks'[i].start <= blocks'[i].tip /\ blocks'[i].tip <= blocks'[i].end
    <3>1. blocks'[k].start <= blocks'[k].tip /\ blocks'[k].tip <= blocks'[k].end
      BY <1>3, <1>4, <1>8
    <3>2. \A i \in 1..Len(blocks) :
             blocks[i].start <= blocks[i].tip /\ blocks[i].tip <= blocks[i].end
      BY BlockFacts
    <3> HIDE DEF At
    <3> QED BY <1>9, <1>10, <3>1, <3>2
  <2>2. \A i \in 1..Len(blocks) : p + NewSize <= blocks[i].start \/ blocks[i].end <= p
    BY <1>1, LenProperties DEF Apart, ArenaInv, Typed
  <2>3. \A i, j \in 1..Len(blocks) :
           i # j => blocks[i].end <= blocks[j].start \/ blocks[j].end <= blocks[i].start
    BY DEF ArenaInv, BlocksApart
  <2> DEFINE Clear(x, y) == x.end <= y.start \/ y.end <= x.start
  <2>4. \A i \in 1..Len(blocks) : Clear(b, blocks[i]) /\ Clear(blocks[i], b)
    BY <1>4, <2>2
  <2>5. \A i, j \in 1..n : i # j => Clear(blocks'[i], blocks'[j])
    <3> SUFFICES ASSUME NEW i \in 1..n, NEW j \in 1..n, i # j
                 PROVE  Clear(blocks'[i], blocks'[j])
      OBVIOUS
    <3> HIDE DEF At, Clear
    <3>1. CASE i = k
      BY <1>8, <1>9, <1>10, <2>4, <3>1
    <3>2. CASE j = k
      BY <1>8, <1>9, <1>10, <2>4, <3>2
    <3>3. CASE i # k /\ j # k
      <4>1. PICK x \in 1..Len(blocks) : i = At(x)
        BY <1>10, <3>3
      <4>2. PICK y \in 1..Len(blocks) : j = At(y)
        BY <1>10, <3>3
      <4>3. x # y
        BY <4>1, <4>2
      <4> QED BY <1>9, <2>3, <4>1, <4>2, <4>3 DEF Clear
    <3> QED BY <3>1, <3>2, <3>3
  <2> QED BY <1>8, <2>1, <2>5 DEF BlocksApart
<1>14. LiveApart'
  <2> DEFINE Now(l, i) == /\ blocks'[i].start <= l.p /\ l.e <= blocks'[i].tip
                          /\ i <= top' \/ i > reusable'
  <2>1. \A i \in 1..n : i <= top' \/ i > reusable'
    BY <1>2, <1>5, <1>7
  <2>2. \A l \in live : \E i \in 1..n : Now(l, i)
    <3> SUFFICES ASSUME NEW l \in live, NEW i \in 1..Len(blocks), Within(l, i)
                 PROVE  Now(l, At(i))
      BY <1>9 DEF ArenaInv, LiveApart
    <3> QED BY <1>9, <2>1 DEF Within
  <2> QED BY <1>1, <1>8, <2>2 DEF ArenaInv, LiveApart, Within
<1>15. AddedFits'
  <2>1. Need' = Need
    BY <1>1 DEF Need
  <2>2. top' > 0
    BY <1>2, <1>6, <1>7
  <2> QED BY <1>3, <1>4, <1>7, <1>8, <2>1, <2>2 DEF AddedFits
<1> QED BY <1>11, <1>12, <1>13, <1>14, <1>15 DEF ArenaInv

LEMMA NewThrowsKeeps == ASSUME ArenaInv, NewThrows PROVE ArenaInv'
<1>1. ask' = << >> /\ UNCHANGED <<blocks, reusable, top, added, live>>
  BY DEF NewThrows
<1>2. Typed'
  BY <1>1, Zenon DEF ArenaInv, Typed
<1>3. Shape' /\ BlocksApart' /\ LiveApart'
  BY <1>1 DEF ArenaInv, Shape, BlocksApart, LiveApart, Within
<1> QED BY <1>1, <1>2, <1>3 DEF ArenaInv, AddedFits

LEMMA ReuseKeeps == ASSUME ArenaInv, NEW n \in Nat, Reuse(n) PROVE ArenaInv'
<1> DEFINE r == Smaller(reusable, n)
           rest == SubSeq(blocks, 1, r)
<1>1. ask' = << >> /\ added' = added /\ live' = {} /\ reusable' = r
  BY DEF Reuse, ArenaInv, Typed
<1>2. Len(blocks) \in Nat /\ r \in Nat /\ r <= reusable /\ r <= Len(blocks)
  BY LenNat DEF ArenaInv, Typed, Smaller
<1>3. /\ rest \in Seq(Block) /\ Len(rest) = r
      /\ \A i \in 1..r : rest[i] = blocks[i] /\ i \in 1..Len(blocks)
  <2>1. \A i \in 1..r : i \in 1..Len(blocks)
    BY <1>2
  <2>2. \A i \in 1..r : blocks[i] \in Block
    BY <2>1, BlockFacts
  <2>3. /\ rest \in Seq(Block)
        /\ Len(rest) = IF 1 <= r THEN r - 1 + 1 ELSE 0
        /\ \A i \in 1..(r - 1 + 1) : rest[i] = blocks[1 + i - 1]
    BY <1>2, <2>2, SubSeqProperties
  <2> HIDE DEF rest
  <2> QED BY <1>2, <2>1, <2>3
<1> DEFINE first == [rest[1] EXCEPT !.tip = rest[1].start]
<1>4. CASE r = 0
  <2>1. blocks' = rest /\ top' = 0
    BY <1>1, <1>4 DEF Reuse
  <2>2. rest = << >>
    BY <1>3, <1>4, EmptySeq
  <2>3. Typed'
    <3>1. reusable' \in 0..Len(blocks') /\ top' \in 0..Len(blocks')
      BY <1>1, <1>2, <1>3, <2>1
    <3> QED BY <1>1, <1>3, <2>1, <3>1, Zenon DEF ArenaInv, Typed
  <2>4. Shape' /\ BlocksApart'
    BY <1>1, <1>3, <1>4, <2>1, <2>2 DEF Shape, BlocksApart
  <2> QED BY <1>1, <2>3, <2>4 DEF ArenaInv, LiveApart, AddedFits
<1>5. CASE r # 0
  <2>1. blocks' = [rest EXCEPT ![1] = first] /\ top' = 1
    BY <1>1, <1>2, <1>5 DEF Reuse
  <2>2. 1 \in 1..r /\ 1 \in 1..Len(rest)
    BY <1>2, <1>3, <1>5
  <2>3. rest[1] \in Block /\ first \in Block /\ first.start = rest[1].start /\ first.end = rest[1].end
        /\ first.tip = rest[1].start
    BY <1>3, <2>2, BlockFacts DEF Block
  <2>4. /\ blocks' \in Seq(Block) /\ Len(blocks') = r
        /\ \A i \in 1..r : blocks'[i] = IF i = 1 THEN first ELSE rest[i]
    <3> HIDE DEF first, rest
    <3> QED BY <1>3, <2>1, <2>2, <2>3, ExceptSeq
  <2>5. \A i \in 1..r : /\ blocks'[i].start = blocks[i].start /\ blocks'[i].end = blocks[i].end
                        /\ blocks'[i].tip = blocks[i].tip \/ blocks'[i].tip = blocks[i].start
    BY <1>3, <2>3, <2>4
  <2>6. Typed'
    <3>1. reusable' \in 0..Len(blocks') /\ top' \in 0..Len(blocks')
      BY <1>1, <1>2, <1>5, <2>1, <2>4
    <3> QED BY <1>1, <2>4, <3>1, Zenon DEF ArenaInv, Typed
  <2>7. Shape'
    <3>1. \A i \in 1..r : BlockSize(blocks'[i]) = BlockSize(blocks[i]) /\ i \in 1..reusable
      BY <1>2, <2>5 DEF BlockSize, ArenaInv, Typed
    <3>2. \A i \in 1..r : BlockSize(blocks'[i]) = BlockSize(blocks'[1])
      BY <2>2, <3>1 DEF ArenaInv, Shape
    <3>3. reusable' > 0 /\ top' > 0 /\ top' <= reusable'
      BY <1>1, <1>2, <1>5, <2>1
    <3> QED BY <1>1, <3>2, <3>3, Zenon DEF Shape
  <2>8. BlocksApart'
    <3>1. \A i \in 1..r : blocks'[i].start <= blocks'[i].tip /\ blocks'[i].tip <= blocks'[i].end
      <4> SUFFICES ASSUME NEW i \in 1..r
                   PROVE  blocks'[i].start <= blocks'[i].tip /\ blocks'[i].tip <= blocks'[i].end
        OBVIOUS
      <4>1. i \in 1..Len(blocks)
        BY <1>2
      <4>2. /\ blocks[i].start \in Nat /\ blocks[i].tip \in Nat /\ blocks[i].end \in Nat
            /\ blocks[i].start <= blocks[i].tip /\ blocks[i].tip <= blocks[i].end
        BY <4>1, BlockFacts
      <4> QED BY <2>5, <4>2
    <3>2. \A i, j \in 1..r :
             i # j => blocks[i].end <= blocks[j].start \/ blocks[j].end <= blocks[i].start
      BY <1>2 DEF ArenaInv, BlocksApart
    <3> QED BY <2>4, <2>5, <3>1, <3>2 DEF BlocksApart
  <2> QED BY <1>1, <2>6, <2>7, <2>8 DEF ArenaInv, LiveApart, AddedFits
<1> QED BY <1>4, <1>5

(* The inductive invariant of the arena holds whatever is asked for.       *)
THEOREM ArenaInvariant == ArenaSpec => []ArenaInv
<1>1. ArenaInv /\ [ArenaNext]_arenaVars => ArenaInv'
  <2> SUFFICES ASSUME ArenaInv, [ArenaNext]_arenaVars PROVE ArenaInv'
    OBVIOUS
  <2>1. CASE \E size \in AllocSizes, alignment \in Alignments : AllocateCall(size, alignment)
    BY <2>1, AllocateCallKeeps
  <2>2. CASE Allocate
    BY <2>2, AllocateKeeps
  <2>3. CASE AddBlockReused
    BY <2>3, AddBlockReusedKeeps
  <2>4. CASE \E p \in Starts : AddBlockNew(p)
    BY <2>4, AddBlockNewKeeps
  <2>5. CASE NewThrows
    BY <2>5, NewThrowsKeeps
  <2>6. CASE \E n \in 0..MaxBlocks : Reuse(n)
    <3>1. PICK n \in 0..MaxBlocks : Reuse(n)
      BY <2>6
    <3>2. n \in Nat
      BY ArenaAssumption
    <3> QED BY <3>1, <3>2, ReuseKeeps
  <2>7. CASE UNCHANGED arenaVars
    <3>1. UNCHANGED <<blocks, reusable, top, ask, added, live>>
      BY <2>7 DEF arenaVars
    <3>2. Typed'
      BY <3>1, Zenon DEF ArenaInv, Typed
    <3>3. AddedFits'
      BY <3>1 DEF ArenaInv, AddedFits, Need
    <3> QED BY <3>1, <3>2, <3>3 DEF ArenaInv, Shape, BlocksApart, LiveApart, Within
  <2> QED BY <2>1, <2>2, <2>3, <2>4, <2>5, <2>6, <2>7 DEF ArenaNext
<1> QED BY InitInv, <1>1, PTL DEF ArenaSpec

(* What the comments and the asserts of the arena say of its blocks holds  *)
(* in every run: AllocateSlow never has to add a second block.             *)
THEOREM ArenaShapeAlways == ArenaSpec => []ArenaShape
<1>1. ArenaInv => ArenaShape
  <2> SUFFICES ASSUME ArenaInv PROVE ArenaShape
    OBVIOUS
  <2>1. blocks = << >> => Len(blocks) = 0
    BY EmptySeq
  <2> QED BY <2>1, AddedMeansFits, LenNat DEF ArenaInv, ArenaShape, Shape, Typed
<1> QED BY ArenaInvariant, <1>1, PTL

(* No two callers are given the same byte, and none is given one outside   *)
(* the arena's blocks, for any sequence of calls.                          *)
THEOREM NeverOverlaps == ArenaSpec => []NoOverlap
<1>1. ArenaInv => NoOverlap
  <2> SUFFICES ASSUME ArenaInv PROVE NoOverlap
    OBVIOUS
  <2>1. DOMAIN blocks = 1..Len(blocks)
    BY LenProperties DEF ArenaInv, Typed
  <2> QED BY <2>1 DEF ArenaInv, NoOverlap, LiveApart, BlocksApart, Within
<1> QED BY ArenaInvariant, <1>1, PTL

-----------------------------------------------------------------------------
(***************************************************************************)
(* The tree of an Index and the walk of a task through it.  InitDirs pops  *)
(* a directory when no entry can be below it any more, so that in dirs_,   *)
(* reversed, the parent of each directory is the one in front of it or     *)
(* above that (Follows).  The descriptors a task holds are those of the    *)
(* last directory and of the ones above it, by their distance (Held), and  *)
(* the one of the parent is therefore where ScanDirs looks for it.         *)
(***************************************************************************)
AnyName == DOMAIN Folded
Path == Seq(AnyName)

\* The first n names of two paths are the same, but for their case.
Alike(p, q, n) ==
    n <= Len(p) /\ n <= Len(q) /\ \A j \in 1..n : Folded[p[j]] = Folded[q[j]]

\* A path is a sequence of names, and is like itself.
LEMMA PathFacts ==
  ASSUME NEW p \in Path
  PROVE  /\ Len(p) \in Nat /\ \A j \in 1..Len(p) : p[j] \in AnyName
         /\ Alike(p, p, Len(p))
BY LenProperties, ElementOfSeq DEF Path, Alike

\* To be alike is symmetric and transitive, and holds of fewer names too.
LEMMA AlikeAll ==
  ASSUME NEW p \in Path, NEW q \in Path, NEW n \in Nat, Alike(p, q, n)
  PROVE  /\ Alike(q, p, n)
         /\ \A m \in Nat : m <= n => Alike(p, q, m)
         /\ \A r \in Path : Alike(q, r, n) => Alike(p, r, n)
         /\ Len(p) = n /\ Len(q) = n => SamePath(p, q)
<1>1. Len(p) \in Nat /\ Len(q) \in Nat
  BY PathFacts
<1>2. QED
  BY <1>1 DEF Alike, SamePath

\* The first n names of a path are a path.
LEMMA FrontOf ==
  ASSUME NEW p \in Path, NEW n \in 0..Len(p)
  PROVE  /\ SubSeq(p, 1, n) \in Path /\ Len(SubSeq(p, 1, n)) = n
         /\ \A j \in 1..n : SubSeq(p, 1, n)[j] = p[j]
         /\ Alike(SubSeq(p, 1, n), p, n)
<1>1. Len(p) \in Nat /\ \A j \in 1..n : p[j] \in AnyName
  BY PathFacts
<1>2. /\ SubSeq(p, 1, n) \in Path /\ Len(SubSeq(p, 1, n)) = n
      /\ \A j \in 1..n : SubSeq(p, 1, n)[j] = p[j]
  BY <1>1, SubSeqProperties DEF Path
<1>3. QED
  BY <1>1, <1>2 DEF Alike

\* Numbers have a least one.
LEMMA SmallestNat ==
    ASSUME NEW T, T \subseteq Nat, T # {}
    PROVE  \E x \in T : \A y \in T : x <= y
<1>1. PICK x \in T : \A y \in T : ~(<<y, x>> \in OpToRel(<, Nat))
  BY NatLessThanWellFounded, WFMin
<1>2. \A y \in T : y < x => <<y, x>> \in OpToRel(<, Nat)
  BY DEF OpToRel
<1>3. \A y \in T : ~(y < x)
  BY <1>1, <1>2, Zenon
<1> QED BY <1>3

\* CommonDir finds the longest directory both are in.
LEMMA CommonOf ==
  ASSUME NEW dir \in Path, NEW path \in Path, path # << >>
  PROVE  /\ CommonDir(dir, path) \in 0..Len(dir) /\ CommonDir(dir, path) < Len(path)
         /\ Alike(dir, path, CommonDir(dir, path))
         /\ CommonDir(dir, path) < Len(dir) /\ CommonDir(dir, path) + 1 < Len(path) =>
               Folded[dir[CommonDir(dir, path) + 1]] # Folded[path[CommonDir(dir, path) + 1]]
<1> DEFINE Ends(k) == k > Len(dir) \/ k >= Len(path) \/ Folded[dir[k]] # Folded[path[k]]
           Found(k) == /\ k < Len(path) /\ SamePath(SubSeq(dir, 1, k), SubSeq(path, 1, k))
                       /\ k < Len(dir) /\ k + 1 < Len(path) => Folded[dir[k + 1]] # Folded[path[k + 1]]
<1>1. Len(dir) \in Nat /\ Len(path) \in Nat \ {0}
  BY PathFacts, EmptySeq DEF Path
<1>2. PICK m \in {k \in Nat \ {0} : Ends(k)} : \A k \in {i \in Nat \ {0} : Ends(i)} : m <= k
  <2>1. Len(dir) + 1 \in {k \in Nat \ {0} : Ends(k)}
    BY <1>1
  <2> DEFINE T == {k \in Nat \ {0} : Ends(k)}
  <2>2. T \subseteq Nat /\ T # {}
    BY <2>1
  <2> HIDE DEF Ends
  <2>3. QED
    BY <2>2, SmallestNat, Zenon
<1>3. m - 1 \in Nat /\ \A k \in 1..(m - 1) : k <= Len(dir) /\ k < Len(path) /\ Folded[dir[k]] = Folded[path[k]]
  BY <1>2
<1>4. m - 1 \in 0..Len(dir) /\ m - 1 < Len(path)
  <2>1. CASE m - 1 = 0
    BY <1>1, <2>1
  <2>2. CASE m - 1 # 0
    <3>1. m - 1 \in 1..(m - 1)
      BY <1>3, <2>2
    <3>2. QED
      BY <1>1, <1>3, <3>1
  <2>3. QED
    BY <2>1, <2>2
<1>5. ASSUME NEW k \in 0..Len(dir), k < Len(path)
      PROVE  SamePath(SubSeq(dir, 1, k), SubSeq(path, 1, k)) <=> Alike(dir, path, k)
  <2>1. k \in 0..Len(path) /\ k \in Nat
    BY <1>1, <1>5
  <2>2. /\ Len(SubSeq(dir, 1, k)) = k /\ Len(SubSeq(path, 1, k)) = k
        /\ \A j \in 1..k : SubSeq(dir, 1, k)[j] = dir[j] /\ SubSeq(path, 1, k)[j] = path[j]
    BY <2>1, FrontOf
  <2>3. QED
    BY <1>1, <1>5, <2>1, <2>2 DEF SamePath, Alike
<1>6. Found(m - 1)
  <2>1. Alike(dir, path, m - 1)
    BY <1>1, <1>3, <1>4 DEF Alike
  <2>2. m - 1 < Len(dir) /\ m < Len(path) => Folded[dir[m]] # Folded[path[m]]
    BY <1>1, <1>2
  <2>3. (m - 1) + 1 = m
    BY <1>2
  <2>4. QED
    BY <1>4, <1>5, <2>1, <2>2, <2>3
<1> HIDE DEF Found
<1>7. CommonDir(dir, path) \in 0..Len(dir) /\ Found(CommonDir(dir, path))
  <2>1. CommonDir(dir, path) = CHOOSE k \in 0..Len(dir) : Found(k)
    BY DEF CommonDir, Found
  <2>2. \E k \in 0..Len(dir) : Found(k)
    BY <1>4, <1>6
  <2>3. QED
    BY <2>1, <2>2, Zenon
<1>8. QED
  BY <1>5, <1>7 DEF Found
\* A function on the first n numbers is a sequence of length n.
LEMMA CountedSeq ==
  ASSUME NEW n \in Nat, NEW f, f = [i \in 1..n |-> f[i]]
  PROVE  f \in Seq(Range(f)) /\ Len(f) = n
<1> DEFINE S == Range(f)
<1>1. f \in [1..n -> S]
  BY DEF Range
<1> HIDE DEF S
<1>2. f \in Seq(S)
  BY <1>1, SeqDef
<1>3. DOMAIN f = 1..n /\ DOMAIN f = 1..Len(f) /\ Len(f) \in Nat
  BY <1>1, <1>2, LenProperties
<1>4. QED
  BY <1>2, <1>3 DEF S

-----------------------------------------------------------------------------
IsDir(d) == {"path", "depth"} \subseteq DOMAIN d /\ d.path \in Path /\ d.depth = Len(d.path)

\* Directory b can be reached from a, which is in front of it: its parent is a
\* or has a below it.
Follows(a, b) == Len(b.path) \in 1..(Len(a.path) + 1) /\ Alike(a.path, b.path, Len(b.path) - 1)

\* Each directory on the stack is the parent of the one above it.
Stacked ==
    /\ Len(stack) \in Nat \ {0}
    /\ \A j \in 1..Len(stack) :
          /\ IsDir(stack[j]) /\ Len(stack[j].path) = j - 1
          /\ Alike(stack[j].path, stack[Len(stack)].path, j - 1)

\* dirs_ while it is filled, the directories in front last: the parent of the
\* last one is still on the stack.
Popping ==
    /\ Len(dirs_) \in Nat /\ dirs_ \in Seq(Range(dirs_))
    /\ \A n \in 1..Len(dirs_) : IsDir(dirs_[n])
    /\ \A n \in 1..(Len(dirs_) - 1) : Follows(dirs_[n + 1], dirs_[n])
    /\ Len(dirs_) > 0 => Follows(stack[Len(stack)], dirs_[Len(dirs_)])

\* PopTo leaves a sequence of directories each reached from the next.
LEMMA PopToFacts ==
  ASSUME Stacked, NEW k \in 0..Len(stack)
  PROVE  /\ PopTo(k) \in Seq(Range(PopTo(k))) /\ Len(PopTo(k)) = Len(stack) - k
         /\ \A j \in 1..(Len(stack) - k) :
               /\ IsDir(PopTo(k)[j]) /\ PopTo(k)[j].path = stack[Len(stack) + 1 - j].path
         /\ \A j \in 1..(Len(stack) - k - 1) : Follows(PopTo(k)[j + 1], PopTo(k)[j])
<1> DEFINE n == Len(stack) - k
           s == PopTo(k)
<1>1. n \in Nat /\ Len(stack) \in Nat
  BY DEF Stacked
<1>2. s = [j \in 1..n |-> Popped(stack[Len(stack) + 1 - j])]
  BY DEF PopTo
<1>3. s \in [1..n -> Range(s)]
  BY <1>2 DEF Range
<1>4. s \in Seq(Range(s)) /\ Len(s) = n
  BY <1>1, <1>3, LenProperties
<1>5. ASSUME NEW j \in 1..n
      PROVE  /\ IsDir(s[j]) /\ s[j].path = stack[Len(stack) + 1 - j].path
             /\ Len(s[j].path) = Len(stack) - j
  <2>1. PICK b \in 1..Len(stack) : b = Len(stack) + 1 - j
    BY <1>1
  <2>2. IsDir(stack[b]) /\ Len(stack[b].path) = b - 1
    BY <2>1 DEF Stacked
  <2>3. s[j] = [stack[b] EXCEPT !.subdirs = SortedNames(stack[b].subdirs)]
    BY <1>2, <2>1 DEF Popped
  <2>4. QED
    BY <1>1, <2>1, <2>2, <2>3 DEF IsDir
<1>6. ASSUME NEW j \in 1..(n - 1)
      PROVE  Follows(s[j + 1], s[j])
  <2>1. j \in 1..n /\ j + 1 \in 1..n
    BY <1>1
  <2>2. PICK b \in 1..Len(stack) : b = Len(stack) + 1 - j /\ b - 1 \in 1..Len(stack) /\ b - 1 = Len(stack) + 1 - (j + 1)
    BY <1>1, <2>1
  <2>3. s[j].path = stack[b].path /\ s[j + 1].path = stack[b - 1].path
    BY <1>5, <2>1, <2>2
  <2>4. /\ Len(stack[b].path) = b - 1 /\ Len(stack[b - 1].path) = b - 2
        /\ stack[b].path \in Path /\ stack[b - 1].path \in Path /\ stack[Len(stack)].path \in Path
        /\ Alike(stack[b].path, stack[Len(stack)].path, b - 1)
        /\ Alike(stack[b - 1].path, stack[Len(stack)].path, b - 2)
    <3>1. PICK c \in 1..Len(stack) : c = b - 1
      BY <2>2
    <3>2. (b - 1) - 1 = b - 2 /\ Len(stack) \in 1..Len(stack)
      BY <1>1, <2>2
    <3>3. IsDir(stack[b]) /\ IsDir(stack[c]) /\ IsDir(stack[Len(stack)])
      BY <3>2 DEF Stacked
    <3>4. /\ Len(stack[b].path) = b - 1 /\ Alike(stack[b].path, stack[Len(stack)].path, b - 1)
          /\ Len(stack[c].path) = c - 1 /\ Alike(stack[c].path, stack[Len(stack)].path, c - 1)
      BY DEF Stacked
    <3>5. QED
      BY <3>1, <3>2, <3>3, <3>4 DEF IsDir
  <2>5. Alike(stack[b - 1].path, stack[b].path, b - 2)
    <3>1. b - 1 \in Nat /\ b - 2 \in Nat /\ b - 2 <= b - 1
      BY <2>2
    <3>2. Alike(stack[b].path, stack[Len(stack)].path, b - 2)
      BY <2>4, <3>1, AlikeAll
    <3>3. Alike(stack[Len(stack)].path, stack[b].path, b - 2)
      BY <2>4, <3>1, <3>2, AlikeAll
    <3>4. QED
      BY <2>4, <3>1, <3>3, AlikeAll
  <2>6. QED
    BY <2>2, <2>3, <2>4, <2>5 DEF Follows
<1>7. QED
  BY <1>4, <1>5, <1>6

\* The stack is that of the directories the entry is in.
LEMMA AddEntryStack ==
  ASSUME Stacked, AddEntry, NEW path \in Path, path = entries[next + 1], path # << >>,
         NEW common, common = CommonDir(Last(stack).path, path)
  PROVE  /\ Stacked' /\ Len(stack') = Len(path)
         /\ \A j \in 1..Len(stack') : IsDir(stack'[j]) /\ Len(stack'[j].path) = j - 1
         /\ \A j \in 1..Len(path) : Alike(stack'[j].path, path, j - 1)
         /\ common \in Nat /\ common + 1 \in 1..Len(stack) /\ common + 1 \in 1..Len(stack')
         /\ Alike(stack[Len(stack)].path, stack'[Len(stack')].path, common)
         /\ dirs_' = dirs_ \o PopTo(common + 1)
<1> DEFINE deepest == stack[Len(stack)]
           depth == Len(path) - 1
           Named(dir, k) == IF k < depth THEN [dir EXCEPT !.subdirs = Append(@, path[k + 1])]
                                         ELSE [dir EXCEPT !.files = Append(@, path)]
           At(j) == IF j <= common THEN stack[j]
                    ELSE IF j = common + 1 THEN Named(stack[j], common)
                    ELSE Named(NewDir(SubSeq(path, 1, j - 1)), j - 1)
<1>1. /\ dirs_' = dirs_ \o PopTo(common + 1)
      /\ stack' = [j \in 1..(depth + 1) |-> At(j)]
  BY DEF AddEntry, Last
<1>2. Len(stack) \in Nat \ {0} /\ IsDir(deepest) /\ Len(deepest.path) = Len(stack) - 1 /\ deepest.path \in Path
  BY DEF Stacked, IsDir
<1>3. Len(path) \in Nat \ {0} /\ depth \in Nat /\ depth + 1 = Len(path)
  BY PathFacts, EmptySeq DEF Path
<1>4. common \in 0..(Len(stack) - 1) /\ common < Len(path) /\ Alike(deepest.path, path, common)
  BY <1>2, CommonOf DEF Last
<1>5. common \in Nat /\ common + 1 \in 1..Len(stack) /\ common + 1 \in 1..Len(path)
  BY <1>2, <1>3, <1>4
<1>6. Len(stack') = Len(path) /\ \A j \in 1..Len(path) : stack'[j] = At(j)
  <2> HIDE DEF At
  <2>1. stack' \in [1..Len(path) -> Range(stack')]
    BY <1>1, <1>3 DEF Range
  <2>2. stack' \in Seq(Range(stack')) /\ DOMAIN stack' = 1..Len(path)
    BY <1>3, <2>1
  <2>3. QED
    BY <1>1, <1>3, <2>1, <2>2, LenProperties
<1>7. ASSUME NEW j \in 1..Len(path)
      PROVE  IsDir(stack'[j]) /\ Len(stack'[j].path) = j - 1 /\ Alike(stack'[j].path, path, j - 1)
  <2>1. CASE j <= common + 1
    <3>1. j \in 1..Len(stack) /\ j - 1 \in Nat /\ j - 1 <= common
      BY <1>5, <2>1
    <3>2. IsDir(stack[j]) /\ Len(stack[j].path) = j - 1 /\ Alike(stack[j].path, deepest.path, j - 1)
      BY <3>1 DEF Stacked
    <3>3. Alike(deepest.path, path, j - 1) /\ stack[j].path \in Path
      BY <1>2, <1>4, <1>5, <3>1, <3>2, AlikeAll DEF IsDir
    <3>4. Alike(stack[j].path, path, j - 1)
      BY <1>2, <3>1, <3>2, <3>3, AlikeAll
    <3>5. stack'[j].path = stack[j].path /\ IsDir(stack'[j])
      <4>1. CASE j <= common
        BY <1>6, <3>2, <4>1
      <4>2. CASE j = common + 1
        <5>1. stack'[j] = Named(stack[j], common)
          <6> HIDE DEF Named
          <6>1. At(j) = Named(stack[j], common)
            BY <1>5, <4>2
          <6> HIDE DEF At
          <6>2. QED
            BY <1>6, <6>1
        <5>2. QED
          BY <3>2, <5>1 DEF IsDir
      <4>3. QED
        BY <1>5, <2>1, <4>1, <4>2
    <3>6. QED
      BY <3>2, <3>4, <3>5
  <2>2. CASE j > common + 1
    <3> DEFINE p == SubSeq(path, 1, j - 1)
    <3>1. j - 1 \in 0..Len(path)
      BY <1>3
    <3>2. p \in Path /\ Len(p) = j - 1 /\ Alike(p, path, j - 1)
      BY <3>1, FrontOf
    <3>3. stack'[j] = Named(NewDir(p), j - 1)
      <4> HIDE DEF Named
      <4>1. At(j) = Named(NewDir(p), j - 1)
        BY <1>5, <2>2
      <4> HIDE DEF At
      <4>2. QED
        BY <1>6, <4>1
    <3>4. IsDir(NewDir(p)) /\ NewDir(p).path = p
      BY <3>2 DEF IsDir, NewDir
    <3> HIDE DEF p
    <3>5. stack'[j].path = p /\ IsDir(stack'[j])
      BY <3>3, <3>4 DEF IsDir
    <3>6. QED
      BY <3>2, <3>5
  <2>3. QED
    BY <1>5, <2>1, <2>2
<1>8. PICK t \in Path : t = stack'[Len(stack')].path /\ Alike(path, t, depth)
  <2>1. Len(path) \in 1..Len(path)
    BY <1>3
  <2>2. stack'[Len(path)].path \in Path /\ Alike(stack'[Len(path)].path, path, depth)
    BY <1>7, <2>1 DEF IsDir
  <2>3. Alike(path, stack'[Len(path)].path, depth)
    BY <1>3, <2>2, AlikeAll
  <2>4. QED
    BY <1>6, <2>2, <2>3
<1>9. ASSUME NEW j \in 1..Len(path)
      PROVE  Alike(stack'[j].path, t, j - 1)
  <2>1. j - 1 \in Nat /\ j - 1 <= depth
    BY <1>3
  <2>2. PICK q \in Path : q = stack'[j].path /\ Alike(q, path, j - 1)
    BY <1>7 DEF IsDir
  <2>3. Alike(path, t, j - 1)
    BY <1>3, <1>8, <2>1, AlikeAll
  <2>4. Alike(q, t, j - 1)
    BY <2>1, <2>2, <2>3, AlikeAll
  <2>5. QED
    BY <2>2, <2>4
<1>10. Stacked'
  <2>1. Stacked' <=> /\ Len(stack') \in Nat \ {0}
                     /\ \A j \in 1..Len(stack') :
                           /\ IsDir(stack'[j]) /\ Len(stack'[j].path) = j - 1
                           /\ Alike(stack'[j].path, stack'[Len(stack')].path, j - 1)
    BY DEF Stacked, IsDir, Alike, Path, AnyName
  <2>2. QED
    BY <1>3, <1>6, <1>7, <1>8, <1>9, <2>1
<1>11. Alike(deepest.path, t, common)
  <2>1. common <= depth
    BY <1>3, <1>5
  <2>2. Alike(path, t, common)
    BY <1>3, <1>5, <1>8, <2>1, AlikeAll
  <2>3. QED
    BY <1>2, <1>4, <1>5, <1>8, <2>2, AlikeAll
<1>12. QED
  BY <1>1, <1>5, <1>6, <1>7, <1>8, <1>10, <1>11

\* What has been popped when it is popped down to depth k.
LEMMA PopsOn ==
  ASSUME Stacked, Popping, NEW k \in 0..Len(stack), NEW all, all = dirs_ \o PopTo(k)
  PROVE  /\ all \in Seq(Range(all)) /\ Len(all) = Len(dirs_) + (Len(stack) - k)
         /\ \A i \in 1..Len(all) : IsDir(all[i])
         /\ \A i \in 1..(Len(all) - 1) : Follows(all[i + 1], all[i])
         /\ k < Len(stack) => all[Len(all)].path = stack[k + 1].path
         /\ k = Len(stack) => Len(all) = Len(dirs_) /\ \A i \in 1..Len(dirs_) : all[i] = dirs_[i]
<1> DEFINE s == PopTo(k)
           n == Len(dirs_)
           m == Len(s)
<1>2. Len(stack) \in Nat \ {0}
  BY DEF Stacked
<1>3. /\ s \in Seq(Range(s)) /\ m = Len(stack) - k
      /\ \A j \in 1..m : IsDir(s[j]) /\ s[j].path = stack[Len(stack) + 1 - j].path
      /\ \A j \in 1..(m - 1) : Follows(s[j + 1], s[j])
  <2>2. /\ s \in Seq(Range(s)) /\ Len(s) = Len(stack) - k
        /\ \A j \in 1..(Len(stack) - k) : IsDir(s[j]) /\ s[j].path = stack[Len(stack) + 1 - j].path
        /\ \A j \in 1..(Len(stack) - k - 1) : Follows(s[j + 1], s[j])
    BY PopToFacts
  <2>3. QED
    BY <2>2
<1>4. n \in Nat /\ m \in Nat
  BY <1>2, <1>3 DEF Popping
<1>5. /\ Len(all) = n + m /\ all \in Seq(Range(all))
      /\ \A i \in 1..n : all[i] = dirs_[i]
      /\ \A i \in 1..m : all[n + i] = s[i]
  <2> DEFINE R == Range(dirs_) \cup Range(s)
  <2>1. dirs_ \in Seq(R) /\ s \in Seq(R)
    BY <1>3, SeqMonotonic DEF Popping
  <2> HIDE DEF R
  <2>2. /\ all \in Seq(R) /\ Len(all) = n + m
        /\ \A i \in 1..(n + m) : all[i] = IF i <= n THEN dirs_[i] ELSE s[i - n]
    BY <2>1, ConcatProperties
  <2>3. all \in [1..(n + m) -> R]
    BY <2>2, LenProperties
  <2>4. PICK L \in Nat : L = n + m
    BY <1>4
  <2>5. all = [i \in 1..L |-> all[i]]
    BY <2>3, <2>4
  <2>6. all \in Seq(Range(all))
    BY <2>5, CountedSeq
  <2>7. QED
    BY <1>4, <2>2, <2>6
<1>6. ASSUME NEW i \in 1..(n + m)
      PROVE  IsDir(all[i])
  <2>1. CASE i <= n
    BY <1>5, <2>1 DEF Popping
  <2>2. CASE i > n
    <3>1. PICK j \in 1..m : i = n + j
      <4>1. i - n \in 1..m /\ i = n + (i - n)
        BY <1>4, <2>2
      <4>2. QED
        BY <4>1
    <3>2. QED
      BY <1>3, <1>5, <3>1
  <2>3. QED
    BY <1>4, <2>1, <2>2
<1>7. \A a, b, d : Follows(a, b) /\ a.path = d.path => Follows(d, b)
  BY DEF Follows
<1>8. ASSUME NEW i \in 1..(n + m - 1)
      PROVE  Follows(all[i + 1], all[i])
  <2>1. CASE i < n
    BY <1>4, <1>5, <2>1 DEF Popping
  <2>2. CASE i = n
    <3>1. n > 0 /\ 1 \in 1..m
      BY <1>4, <2>2
    <3>2. s[1].path = stack[Len(stack)].path
      BY <1>2, <1>3, <3>1
    <3>3. Follows(stack[Len(stack)], dirs_[n])
      BY <3>1 DEF Popping
    <3>4. Follows(s[1], dirs_[n])
      BY <1>7, <3>2, <3>3
    <3>5. QED
      BY <1>4, <1>5, <2>2, <3>1, <3>4
  <2>3. CASE i > n
    <3>1. PICK j \in 1..(m - 1) : i = n + j
      <4>1. i - n \in 1..(m - 1) /\ i = n + (i - n)
        BY <1>4, <2>3
      <4>2. QED
        BY <4>1
    <3>2. i + 1 = n + (j + 1) /\ j \in 1..m /\ j + 1 \in 1..m
      BY <1>4, <3>1
    <3>3. QED
      BY <1>3, <1>5, <3>1, <3>2
  <2>4. QED
    BY <1>4, <2>1, <2>2, <2>3
<1>9. k < Len(stack) => all[n + m].path = stack[k + 1].path
  <2>1. k < Len(stack) => m \in 1..m /\ Len(stack) + 1 - m = k + 1
    BY <1>2, <1>3, <1>4
  <2>2. QED
    BY <1>3, <1>5, <2>1
<1> HIDE DEF s, n, m
<1>10. Len(all) = n + m /\ m = Len(stack) - k /\ n = Len(dirs_)
  BY <1>3, <1>5 DEF n
<1>11. k = Len(stack) => m = 0 /\ Len(all) = n
  BY <1>2, <1>4, <1>10
<1>12. /\ \A i \in 1..Len(all) : IsDir(all[i])
       /\ \A i \in 1..(Len(all) - 1) : Follows(all[i + 1], all[i])
  BY <1>6, <1>8, <1>10
<1>13. all[Len(all)] = all[n + m]
  BY <1>10
<1>14. QED
  BY <1>5, <1>9, <1>10, <1>11, <1>12, <1>13

\* What is popped can be reached from what is left.
LEMMA AddEntryPops ==
  ASSUME Stacked, Popping, AddEntry, entries[next + 1] \in Path \ {<< >>}
  PROVE  Popping'
<1>1. PICK path, common, bottom, last :
         /\ path \in Path /\ common \in Nat /\ Len(stack') = Len(path)
         /\ \A j \in 1..Len(stack') : IsDir(stack'[j]) /\ Len(stack'[j].path) = j - 1
         /\ common + 1 \in 1..Len(stack) /\ common + 1 \in 1..Len(stack')
         /\ bottom = stack[Len(stack)].path /\ last = stack'[Len(stack')].path
         /\ Alike(bottom, last, common)
         /\ dirs_' = dirs_ \o PopTo(common + 1)
  BY AddEntryStack
<1>2. /\ Len(stack) \in Nat \ {0} /\ Len(stack') \in Nat \ {0}
      /\ bottom \in Path /\ Len(bottom) = Len(stack) - 1
      /\ last \in Path /\ Len(last) = Len(stack') - 1
  <2>1. Len(stack) \in Nat \ {0} /\ Len(stack') \in Nat \ {0}
    BY <1>1 DEF Stacked
  <2>2. Len(stack) \in 1..Len(stack) /\ Len(stack') \in 1..Len(stack')
    BY <2>1
  <2>3. IsDir(stack[Len(stack)]) /\ Len(stack[Len(stack)].path) = Len(stack) - 1
    BY <2>2 DEF Stacked
  <2>4. IsDir(stack'[Len(stack')]) /\ Len(stack'[Len(stack')].path) = Len(stack') - 1
    BY <1>1, <2>2
  <2>5. QED
    BY <1>1, <2>1, <2>3, <2>4 DEF IsDir
<1>3. PICK k \in 0..Len(stack) : k = common + 1 /\ dirs_' = dirs_ \o PopTo(k)
  BY <1>1, <1>2
<1>4. /\ dirs_' \in Seq(Range(dirs_')) /\ Len(dirs_') = Len(dirs_) + (Len(stack) - k)
      /\ \A i \in 1..Len(dirs_') : IsDir(dirs_'[i])
      /\ \A i \in 1..(Len(dirs_') - 1) : Follows(dirs_'[i + 1], dirs_'[i])
      /\ k < Len(stack) => dirs_'[Len(dirs_')].path = stack[k + 1].path
      /\ k = Len(stack) => Len(dirs_') = Len(dirs_) /\ \A i \in 1..Len(dirs_) : dirs_'[i] = dirs_[i]
  BY <1>3, PopsOn
<1>5. common <= Len(bottom) /\ common <= Len(last) /\ Alike(last, bottom, common)
  BY <1>1, <1>2, AlikeAll
<1>6. Len(dirs_) \in Nat /\ Len(dirs_') \in Nat
  BY <1>2, <1>3, <1>4 DEF Popping
<1>7. ASSUME Len(dirs_') > 0
      PROVE  \E b \in Path : /\ b = dirs_'[Len(dirs_')].path
                             /\ Len(b) \in 1..(Len(last) + 1) /\ Alike(last, b, Len(b) - 1)
  <2>1. CASE k = Len(stack)
    <3>1. /\ Len(dirs_) \in 1..Len(dirs_) /\ dirs_'[Len(dirs_')] = dirs_[Len(dirs_)]
          /\ Follows(stack[Len(stack)], dirs_[Len(dirs_)]) /\ IsDir(dirs_[Len(dirs_)])
      BY <1>4, <1>6, <1>7, <2>1 DEF Popping
    <3>2. PICK b \in Path : b = dirs_[Len(dirs_)].path
      BY <3>1 DEF IsDir
    <3>3. Len(b) \in 1..(Len(bottom) + 1) /\ Alike(bottom, b, Len(b) - 1)
      BY <1>1, <3>1, <3>2 DEF Follows
    <3>4. Len(bottom) = common
      <4>1. common + 1 = Len(stack)
        BY <1>3, <2>1
      <4>2. Len(bottom) = Len(stack) - 1 /\ common \in Nat
        BY <1>1, <1>2
      <4>3. QED
        BY <4>1, <4>2
    <3>5. Len(b) - 1 \in Nat /\ Len(b) - 1 <= common /\ Len(b) \in 1..(Len(last) + 1)
      BY <1>1, <1>2, <1>5, <3>3, <3>4
    <3>6. Alike(last, bottom, Len(b) - 1)
      BY <1>1, <1>2, <1>5, <3>5, AlikeAll
    <3>7. Alike(last, b, Len(b) - 1)
      BY <1>2, <3>3, <3>5, <3>6, AlikeAll
    <3>8. QED
      BY <3>1, <3>2, <3>5, <3>7
  <2>2. CASE k < Len(stack)
    <3>1. PICK h \in 1..Len(stack) : h = k + 1 /\ h - 1 = common + 1
      BY <1>2, <1>3, <2>2
    <3>2. dirs_'[Len(dirs_')].path = stack[h].path
      BY <1>4, <2>2, <3>1
    <3>3. IsDir(stack[h]) /\ Len(stack[h].path) = h - 1 /\ Alike(stack[h].path, bottom, h - 1)
      BY <1>1 DEF Stacked
    <3>4. PICK b \in Path : b = stack[h].path
      BY <3>3 DEF IsDir
    <3>5. Len(b) = common + 1 /\ h - 1 \in Nat /\ common <= h - 1 /\ Alike(b, bottom, h - 1)
      BY <1>1, <3>1, <3>3, <3>4
    <3>6. Alike(bottom, b, common)
      <4>1. Alike(b, bottom, common)
        BY <1>1, <1>2, <3>5, AlikeAll
      <4>2. QED
        BY <1>1, <1>2, <4>1, AlikeAll
    <3>7. Alike(last, b, common)
      BY <1>1, <1>2, <1>5, <3>6, AlikeAll
    <3>8. Len(b) - 1 = common /\ Len(b) \in 1..(Len(last) + 1)
      BY <1>1, <1>2, <3>5
    <3>9. QED
      BY <3>2, <3>4, <3>7, <3>8
  <2>3. QED
    BY <1>2, <2>1, <2>2
<1>8. Len(dirs_') > 0 => Follows(stack'[Len(stack')], dirs_'[Len(dirs_')])
  BY <1>1, <1>7 DEF Follows
<1>9. Popping' <=> /\ Len(dirs_') \in Nat /\ dirs_' \in Seq(Range(dirs_'))
                   /\ \A i \in 1..Len(dirs_') : IsDir(dirs_'[i])
                   /\ \A i \in 1..(Len(dirs_') - 1) : Follows(dirs_'[i + 1], dirs_'[i])
                   /\ Len(dirs_') > 0 => Follows(stack'[Len(stack')], dirs_'[Len(dirs_')])
  BY DEF Popping, Follows, Alike, IsDir, Path, AnyName, Range
<1>10. QED
  BY <1>4, <1>6, <1>8, <1>9

\* dirs_ when it is filled: a directory comes behind its parent, and all that
\* is between the two is below the parent.
Chained ==
    /\ Len(dirs_) \in Nat
    /\ \A n \in 1..Len(dirs_) : IsDir(dirs_[n])
    /\ \A n \in 1..(Len(dirs_) - 1) : Follows(dirs_[n], dirs_[n + 1])

LEMMA BuiltChained ==
  ASSUME Stacked, Popping, Built
  PROVE  Chained' /\ dirs_' \in Seq(Range(dirs_')) /\ Len(dirs_') > 0
<1>1. Len(stack) \in Nat \ {0} /\ Len(dirs_) \in Nat /\ 0 \in 0..Len(stack)
  BY DEF Stacked, Popping
<1>2. PICK all, n : /\ all = dirs_ \o PopTo(0) /\ n = Len(all)
                    /\ n \in Nat \ {0} /\ \A i \in 1..n : IsDir(all[i])
                    /\ \A i \in 1..(n - 1) : Follows(all[i + 1], all[i])
  <2>1. PICK all : all = dirs_ \o PopTo(0)
    OBVIOUS
  <2>2. /\ Len(all) = Len(dirs_) + (Len(stack) - 0)
        /\ \A i \in 1..Len(all) : IsDir(all[i])
        /\ \A i \in 1..(Len(all) - 1) : Follows(all[i + 1], all[i])
    BY <1>1, <2>1, PopsOn
  <2>3. Len(all) \in Nat \ {0}
    BY <1>1, <2>2
  <2>4. QED
    BY <2>1, <2>2, <2>3
<1>3. dirs_' = [j \in 1..n |-> all[(n - j) + 1]]
  BY <1>2 DEF Built, Reverse
<1>4. dirs_' = [j \in 1..n |-> dirs_'[j]]
  BY <1>3
<1>5. dirs_' \in Seq(Range(dirs_')) /\ Len(dirs_') = n
  BY <1>2, <1>4, CountedSeq
<1>6. ASSUME NEW j \in 1..n
      PROVE  IsDir(dirs_'[j])
  <2>1. (n - j) + 1 \in 1..n
    BY <1>2
  <2>2. QED
    BY <1>2, <1>3, <2>1
<1>7. ASSUME NEW j \in 1..(n - 1)
      PROVE  Follows(dirs_'[j], dirs_'[j + 1])
  <2>1. PICK i \in 1..(n - 1) : i = n - j
    <3>1. n - j \in 1..(n - 1)
      BY <1>2
    <3>2. QED
      BY <3>1
  <2>2. dirs_'[j] = all[i + 1] /\ dirs_'[j + 1] = all[i]
    BY <1>2, <1>3, <2>1
  <2>3. QED
    BY <1>2, <2>2
<1>8. Chained' <=> /\ Len(dirs_') \in Nat
                   /\ \A j \in 1..Len(dirs_') : IsDir(dirs_'[j])
                   /\ \A j \in 1..(Len(dirs_') - 1) : Follows(dirs_'[j], dirs_'[j + 1])
  BY DEF Chained, Follows, Alike, IsDir, Path, AnyName
<1>9. QED
  BY <1>2, <1>5, <1>6, <1>7, <1>8

\* What InitSplits has gathered once it has seen one more directory.
Gathered(ds, dir, acc) ==
    LET w == acc.w + Weight(dir)
    IN  IF w >= ShardWeight(ds)
        THEN [n |-> acc.n + 1, w |-> 0, cuts |-> Append(acc.cuts, acc.n + 1)]
        ELSE [acc EXCEPT !.n = @ + 1, !.w = w]
NoneGathered == [n |-> 0, w |-> 0, cuts |-> <<0>>]

\* What it has gathered from the directories at some places up to k.
Gathers(g, ds, k) ==
    g = [s \in SUBSET (1..k) |->
            IF s = {} THEN NoneGathered ELSE Gathered(ds, ds[Max(s)], g[s \ {Max(s)}])]

LEMMA LastPlace ==
  ASSUME NEW k \in Nat, NEW s \in SUBSET (1..k), s # {}
  PROVE  /\ Max(s) \in s /\ Max(s) \in 1..k /\ s \ {Max(s)} \in SUBSET (1..(k - 1))
         /\ s = 1..k => Max(s) = k /\ s \ {Max(s)} = 1..(k - 1)
<1>1. \E x \in s : \A y \in s : x >= y
  <2> DEFINE T == {k - x : x \in s}
  <2>1. T \subseteq Nat /\ T # {}
    <3>1. \A x \in s : k - x \in Nat
      OBVIOUS
    <3>2. QED
      BY <3>1
  <2> HIDE DEF T
  <2>2. PICK d \in T : \A e \in T : d <= e
    BY <2>1, SmallestNat
  <2>3. PICK x \in s : d = k - x
    BY <2>2 DEF T
  <2>4. ASSUME NEW y \in s
        PROVE  x >= y
    <3>1. d <= k - y
      BY <2>2 DEF T
    <3>2. QED
      BY <2>3, <3>1
  <2>5. QED
    BY <2>4
<1>2. Max(s) \in s /\ \A y \in s : Max(s) >= y
  BY <1>1 DEF Max
<1>3. Max(s) \in 1..k
  BY <1>2
<1>4. \A x \in s \ {Max(s)} : x \in 1..(k - 1)
  <2>1. TAKE x \in s \ {Max(s)}
  <2>2. x \in 1..k /\ x <= Max(s) /\ x # Max(s)
    BY <1>2
  <2>3. QED
    BY <1>3, <2>2
<1>5. ASSUME s = 1..k
      PROVE  Max(s) = k /\ s \ {Max(s)} = 1..(k - 1)
  <2>1. k \in s
    BY <1>3, <1>5
  <2>2. Max(s) = k
    BY <1>2, <1>3, <2>1
  <2>3. QED
    BY <1>5, <2>2
<1>6. QED
  BY <1>2, <1>3, <1>4, <1>5

LEMMA GatherExists ==
  ASSUME NEW ds, NEW n \in Nat
  PROVE  \E g : Gathers(g, ds, n)
<1> DEFINE Without == {k \in Nat : ~\E g : Gathers(g, ds, k)}
<1>1. SUFFICES ASSUME Without # {} PROVE FALSE
  OBVIOUS
<1>2. PICK k \in Nat : k \in Without /\ \A i \in Without : k <= i
  <2>1. Without \subseteq Nat
    OBVIOUS
  <2> HIDE DEF Without
  <2>2. QED
    BY <1>1, <2>1, SmallestNat
<1>3. CASE k = 0
  <2> DEFINE g == [s \in SUBSET (1..k) |-> NoneGathered]
  <2>1. \A s \in SUBSET (1..k) : s = {}
    BY <1>3
  <2>2. Gathers(g, ds, k)
    BY <2>1 DEF Gathers
  <2>3. QED
    BY <1>2, <2>2
<1>4. CASE k # 0
  <2>1. k - 1 \in Nat /\ k - 1 \notin Without
    <3> HIDE DEF Without
    <3>1. QED
      BY <1>2, <1>4
  <2>2. PICK h : Gathers(h, ds, k - 1)
    BY <2>1
  <2> DEFINE g == [s \in SUBSET (1..k) |->
                      IF s = {} THEN NoneGathered ELSE Gathered(ds, ds[Max(s)], h[s \ {Max(s)}])]
  <2>3. ASSUME NEW s \in SUBSET (1..(k - 1))
        PROVE  g[s] = h[s]
    <3>1. s \in SUBSET (1..k)
      BY <2>1
    <3>2. h[s] = IF s = {} THEN NoneGathered ELSE Gathered(ds, ds[Max(s)], h[s \ {Max(s)}])
      BY <2>2 DEF Gathers
    <3>3. g[s] = IF s = {} THEN NoneGathered ELSE Gathered(ds, ds[Max(s)], h[s \ {Max(s)}])
      BY <3>1
    <3>4. QED
      BY <3>2, <3>3
  <2>4. \A s \in SUBSET (1..k) : s # {} => g[s \ {Max(s)}] = h[s \ {Max(s)}]
    <3> HIDE DEF g
    <3>1. QED
      BY <2>3, LastPlace
  <2>5. PICK u : u = g
    OBVIOUS
  <2>6. Gathers(u, ds, k)
    <3>1. u = [s \in SUBSET (1..k) |->
                  IF s = {} THEN NoneGathered ELSE Gathered(ds, ds[Max(s)], u[s \ {Max(s)}])]
      BY <2>4, <2>5
    <3>2. QED
      BY <3>1 DEF Gathers
  <2>7. QED
    BY <1>2, <2>6
<1>5. QED
  BY <1>3, <1>4

LEMMA GatherOf ==
  ASSUME NEW ds, NEW n \in Nat, DOMAIN ds = 1..n
  PROVE  \E g : Gathers(g, ds, n) /\ Gather(ds) = g[1..n].cuts
<1> DEFINE g == CHOOSE g : Gathers(g, ds, n)
<1>1. Gathers(g, ds, n)
  BY GatherExists
<1>2. Gather(ds) = g[1..n].cuts
  BY DEF Gather, FoldLeft, MapThenFoldSet, Gathers, Gathered, NoneGathered
<1>3. QED
  BY <1>1, <1>2

\* The cuts of the first n directories: from 0, at most n, and no two the same.
Cutting(acc, n) ==
    /\ {"n", "cuts"} \subseteq DOMAIN acc /\ acc.n = n
    /\ acc.cuts \in Seq(Nat) /\ Len(acc.cuts) > 0 /\ acc.cuts[1] = 0
    /\ \A i \in 1..(Len(acc.cuts) - 1) : acc.cuts[i] < acc.cuts[i + 1]
    /\ acc.cuts[Len(acc.cuts)] <= n

LEMMA AppendCut ==
  ASSUME NEW cuts \in Seq(Nat), NEW n \in Nat, Len(cuts) > 0, cuts[1] = 0, cuts[Len(cuts)] < n,
         \A i \in 1..(Len(cuts) - 1) : cuts[i] < cuts[i + 1],
         NEW all, all = Append(cuts, n)
  PROVE  /\ all \in Seq(Nat) /\ Len(all) > 1 /\ all[1] = 0 /\ all[Len(all)] = n
         /\ \A i \in 1..(Len(all) - 1) : all[i] < all[i + 1]
<1>1. /\ Len(cuts) \in Nat /\ all \in Seq(Nat) /\ Len(all) = Len(cuts) + 1
      /\ all[Len(cuts) + 1] = n /\ \A i \in 1..Len(cuts) : all[i] = cuts[i]
  BY LenProperties, AppendProperties
<1>2. ASSUME NEW i \in 1..(Len(all) - 1)
      PROVE  all[i] < all[i + 1]
  <2>1. CASE i = Len(cuts)
    BY <1>1, <2>1
  <2>2. CASE i # Len(cuts)
    <3>1. i \in 1..(Len(cuts) - 1) /\ i \in 1..Len(cuts) /\ i + 1 \in 1..Len(cuts)
      BY <1>1, <2>2
    <3>2. QED
      BY <1>1, <3>1
  <2>3. QED
    BY <2>1, <2>2
<1>3. QED
  BY <1>1, <1>2

LEMMA GatheredCuts ==
  ASSUME NEW ds, NEW dir, NEW acc, NEW n \in Nat, Cutting(acc, n)
  PROVE  Cutting(Gathered(ds, dir, acc), n + 1)
<1> DEFINE w == acc.w + Weight(dir)
<1>more. PICK more : more = Gathered(ds, dir, acc)
  OBVIOUS
<1>0. Len(acc.cuts) \in Nat /\ acc.cuts[Len(acc.cuts)] \in Nat
  <2>1. Len(acc.cuts) \in Nat /\ Len(acc.cuts) \in 1..Len(acc.cuts)
    BY LenProperties DEF Cutting
  <2>2. QED
    BY <2>1, ElementOfSeq DEF Cutting
<1>1. CASE w >= ShardWeight(ds)
  <2>1. more = [n |-> acc.n + 1, w |-> 0, cuts |-> Append(acc.cuts, acc.n + 1)]
    BY <1>1, <1>more DEF Gathered
  <2>2. PICK all : all = Append(acc.cuts, n + 1)
    OBVIOUS
  <2>3. acc.cuts[Len(acc.cuts)] < n + 1 /\ n + 1 \in Nat
    BY <1>0 DEF Cutting
  <2>4. /\ all \in Seq(Nat) /\ Len(all) > 1 /\ all[1] = 0 /\ all[Len(all)] = n + 1
        /\ \A i \in 1..(Len(all) - 1) : all[i] < all[i + 1]
    BY <2>2, <2>3, AppendCut DEF Cutting
  <2>5. more.n = n + 1 /\ more.cuts = all /\ {"n", "cuts"} \subseteq DOMAIN more
    BY <2>1, <2>2 DEF Cutting
  <2>6. Len(all) \in Nat
    BY <2>4, LenProperties
  <2>7. QED
    BY <1>more, <2>4, <2>5, <2>6 DEF Cutting
<1>2. CASE ~(w >= ShardWeight(ds))
  <2>1. more = [acc EXCEPT !.n = @ + 1, !.w = w]
    BY <1>2, <1>more DEF Gathered
  <2>2. more.n = n + 1 /\ more.cuts = acc.cuts /\ {"n", "cuts"} \subseteq DOMAIN more
    BY <2>1 DEF Cutting
  <2>3. acc.cuts[Len(acc.cuts)] <= n + 1
    BY <1>0 DEF Cutting
  <2>4. QED
    BY <1>more, <2>2, <2>3 DEF Cutting
<1>3. QED
  BY <1>1, <1>2

LEMMA GatherCuts ==
  ASSUME NEW ds, NEW n \in Nat, NEW g, Gathers(g, ds, n), NEW k \in 0..n
  PROVE  Cutting(g[1..k], k)
<1> DEFINE Wrong == {i \in 0..n : ~Cutting(g[1..i], i)}
<1>1. SUFFICES ASSUME Wrong # {} PROVE FALSE
  OBVIOUS
<1>2. PICK i \in 0..n : ~Cutting(g[1..i], i) /\ \A j \in 0..n : Cutting(g[1..j], j) \/ i <= j
  <2>1. Wrong \subseteq Nat
    OBVIOUS
  <2>2. PICK i \in Wrong : \A j \in Wrong : i <= j
    <3> HIDE DEF Wrong
    <3>1. QED
      BY <1>1, <2>1, SmallestNat
  <2>3. QED
    BY <2>2
<1>3. CASE i = 0
  <2>1. 1..i = {} /\ {} \in SUBSET (1..n)
    BY <1>3
  <2>2. g[1..i] = NoneGathered
    BY <2>1 DEF Gathers
  <2>3. Cutting(NoneGathered, 0)
    BY DEF Cutting, NoneGathered
  <2>4. QED
    BY <1>2, <1>3, <2>2, <2>3
<1>4. CASE i # 0
  <2>1. i - 1 \in 0..n /\ i - 1 \in Nat /\ ~(i <= i - 1)
    BY <1>4
  <2>2. Cutting(g[1..(i - 1)], i - 1)
    BY <1>2, <2>1
  <2>3. 1..i \in SUBSET (1..n) /\ 1..i # {} /\ 1..i \in SUBSET (1..i) /\ i \in Nat
    <3>1. i \in 1..i
      BY <1>4
    <3>2. QED
      BY <3>1
  <2>4. Max(1..i) = i /\ (1..i) \ {Max(1..i)} = 1..(i - 1)
    BY <2>3, LastPlace
  <2>5. g[1..i] = Gathered(ds, ds[i], g[1..(i - 1)])
    BY <2>3, <2>4 DEF Gathers
  <2>6. Cutting(g[1..i], (i - 1) + 1)
    BY <2>1, <2>2, <2>5, GatheredCuts
  <2>7. QED
    BY <1>2, <2>3, <2>6
<1>5. QED
  BY <1>3, <1>4

(* The cuts of InitSplits go from none of the directories to all of them,  *)
(* and each is behind the one before.                                      *)
LEMMA SplitsDivide ==
  ASSUME NEW ds, NEW n \in Nat, DOMAIN ds = 1..n, Len(ds) = n, n > 0
  PROVE  /\ Splits(ds) \in Seq(Nat) /\ Len(Splits(ds)) > 1
         /\ Splits(ds)[1] = 0 /\ Last(Splits(ds)) = n
         /\ \A i \in 1..(Len(Splits(ds)) - 1) : Splits(ds)[i] < Splits(ds)[i + 1]
<1>1. PICK g : Gathers(g, ds, n) /\ Gather(ds) = g[1..n].cuts
  BY GatherOf
<1>2. n \in 0..n /\ Cutting(g[1..n], n)
  BY <1>1, GatherCuts
<1>3. PICK cuts \in Seq(Nat) :
         /\ cuts = Gather(ds) /\ Len(cuts) > 0 /\ cuts[1] = 0 /\ cuts[Len(cuts)] <= n
         /\ \A i \in 1..(Len(cuts) - 1) : cuts[i] < cuts[i + 1]
  BY <1>1, <1>2 DEF Cutting
<1>4. Len(cuts) \in Nat /\ Len(cuts) \in 1..Len(cuts)
  BY <1>3, LenProperties
<1>5. CASE cuts[Len(cuts)] = n
  <2>1. Splits(ds) = cuts
    BY <1>3, <1>5 DEF Splits, Last
  <2>2. Len(cuts) # 1
    BY <1>3, <1>5
  <2>3. QED
    BY <1>3, <1>4, <1>5, <2>1, <2>2 DEF Last
<1>6. CASE cuts[Len(cuts)] # n
  <2>1. PICK all : all = Append(cuts, n)
    OBVIOUS
  <2>2. Splits(ds) = all
    BY <1>3, <1>6, <2>1 DEF Splits, Last
  <2>3. cuts[Len(cuts)] \in Nat /\ cuts[Len(cuts)] < n
    BY <1>3, <1>4, <1>6, ElementOfSeq
  <2>4. /\ all \in Seq(Nat) /\ Len(all) > 1 /\ all[1] = 0 /\ all[Len(all)] = n
        /\ \A i \in 1..(Len(all) - 1) : all[i] < all[i + 1]
    BY <1>3, <2>1, <2>3, AppendCut
  <2>5. QED
    BY <2>2, <2>4 DEF Last
<1>7. QED
  BY <1>5, <1>6

Slots == 0..(kDirStackSize - 1)
LiveOf(fds) == {k \in Slots : fds[k] # Closed}

\* Descriptor k is that of the directory k levels above the one that path has
\* at depth from.
Holds(fds, from, path) ==
    \A k \in Slots : fds[k] # Closed =>
       k <= from /\ Len(fds[k]) = from - k /\ Alike(fds[k], path, from - k)

LEMMA TurnOf ==
  ASSUME Up \in Slots, NEW k \in Slots
  PROVE  /\ Middle \in Slots /\ (k + Middle) % kDirStackSize \in Slots
         /\ (k + Middle) % kDirStackSize =
               IF k + Middle < kDirStackSize THEN k + Middle ELSE k + Middle - kDirStackSize
<1>1. kDirStackSize \in Nat \ {0}
  BY TreeAssumption
<1>2. Middle \in Slots
  BY <1>1 DEF Middle, Slots
<1>3. \A i, n \in Nat : i < n => i % n = i
  OBVIOUS
<1>4. \A i, n \in Nat : n <= i /\ i < n + n => i % n = i - n
  OBVIOUS
<1> HIDE DEF Middle
<1>5. k + Middle \in Nat /\ k + Middle < kDirStackSize + kDirStackSize
  BY <1>1, <1>2 DEF Slots
<1>6. CASE k + Middle < kDirStackSize
  <2>1. (k + Middle) % kDirStackSize = k + Middle
    BY <1>1, <1>3, <1>5, <1>6
  <2>2. QED
    BY <1>1, <1>2, <1>5, <1>6, <2>1 DEF Slots
<1>7. CASE ~(k + Middle < kDirStackSize)
  <2>1. (k + Middle) % kDirStackSize = k + Middle - kDirStackSize
    <3>1. PICK i \in Nat : i = k + Middle
      BY <1>5
    <3>2. kDirStackSize <= i /\ i < kDirStackSize + kDirStackSize
      BY <1>1, <1>5, <1>7, <3>1
    <3>3. i % kDirStackSize = i - kDirStackSize
      BY <1>1, <1>4, <3>2
    <3>4. k + Middle = i
      BY <3>1
    <3>5. (k + Middle) % kDirStackSize = i % kDirStackSize
      BY <3>4, Zenon
    <3>6. k + Middle - kDirStackSize = i - kDirStackSize
      BY <1>1, <1>2, <3>4 DEF Slots
    <3>7. QED
      BY <3>3, <3>5, <3>6, Zenon
  <2>2. QED
    BY <1>1, <1>2, <1>5, <1>7, <2>1 DEF Slots
<1>8. QED
  BY <1>6, <1>7

LEMMA LiveFinite ==
  ASSUME NEW fds
  PROVE  IsFiniteSet(LiveOf(fds)) /\ Live(fds) = Cardinality(LiveOf(fds)) /\ Live(fds) \in Nat
<1>1. IsFiniteSet(Slots) /\ LiveOf(fds) \subseteq Slots
  BY TreeAssumption, FS_Interval DEF Slots, LiveOf
<1>2. QED
  BY <1>1, FS_Subset, FS_CardinalityType DEF Live, LiveOf, Slots

\* To rotate the descriptors opens and closes none.
LEMMA LiveRotated ==
  ASSUME Up \in Slots, NEW fds
  PROVE  Live(Rotated(fds)) = Live(fds)
<1> DEFINE B == LiveOf(Rotated(fds))
           A == LiveOf(fds)
           turn == [k \in B |-> (k + Middle) % kDirStackSize]
<1>1. kDirStackSize \in Nat \ {0}
  BY TreeAssumption
<1>2. \A k \in Slots : Rotated(fds)[k] = fds[(k + Middle) % kDirStackSize]
  BY DEF Rotated, Slots
<1>3. turn \in [B -> A]
  BY <1>2, TurnOf DEF LiveOf
<1>4. \A j, k \in B : turn[j] = turn[k] => j = k
  <2>1. SUFFICES ASSUME NEW j \in Slots, NEW k \in Slots,
                        (j + Middle) % kDirStackSize = (k + Middle) % kDirStackSize
                 PROVE  j = k
    BY DEF LiveOf
  <2>2. PICK m \in Slots : m = Middle
    BY TurnOf
  <2>3. /\ (j + m) % kDirStackSize = IF j + m < kDirStackSize THEN j + m ELSE j + m - kDirStackSize
        /\ (k + m) % kDirStackSize = IF k + m < kDirStackSize THEN k + m ELSE k + m - kDirStackSize
    BY <2>2, TurnOf
  <2>4. (IF j + m < kDirStackSize THEN j + m ELSE j + m - kDirStackSize)
           = (IF k + m < kDirStackSize THEN k + m ELSE k + m - kDirStackSize)
    BY <2>1, <2>2, <2>3
  <2>5. QED
    BY <1>1, <2>4 DEF Slots
<1>5. \A a \in A : \E k \in B : turn[k] = a
  <2>1. SUFFICES ASSUME NEW a \in A PROVE \E k \in Slots : (k + Middle) % kDirStackSize = a
    BY <1>2 DEF LiveOf
  <2>2. a \in Slots /\ Middle \in Slots
    BY TurnOf DEF LiveOf
  <2>3. PICK m \in Slots : m = Middle
    BY <2>2
  <2>4. \E k \in Slots : k = IF a >= m THEN a - m ELSE a - m + kDirStackSize
    <3>1. (IF a >= m THEN a - m ELSE a - m + kDirStackSize) \in Slots
      BY <1>1, <2>2 DEF Slots
    <3>2. QED
      BY <3>1
  <2>5. PICK k \in Slots : k = IF a >= m THEN a - m ELSE a - m + kDirStackSize
    BY <2>4
  <2>6. (k + m) % kDirStackSize = IF k + m < kDirStackSize THEN k + m ELSE k + m - kDirStackSize
    BY <2>3, TurnOf
  <2>7. (k + m) % kDirStackSize = a
    BY <1>1, <2>2, <2>5, <2>6 DEF Slots
  <2>8. QED
    BY <2>3, <2>7
<1>7. IsFiniteSet(B)
  BY LiveFinite
<1> HIDE DEF turn, A, B
<1>6. turn \in Bijection(B, A)
  BY <1>3, <1>4, <1>5, Fun_IsBij
<1>8. Cardinality(A) = Cardinality(B)
  BY <1>6, <1>7, FS_Bijection DEF ExistsBijection
<1>9. QED
  BY <1>8, LiveFinite DEF A, B

LEMMA LiveSet ==
  ASSUME NEW fds, DOMAIN fds = Slots, NEW fd, fd # Closed
  PROVE  Live([fds EXCEPT ![0] = fd]) = Live(fds) + (IF fds[0] = Closed THEN 1 ELSE 0)
<1>1. 0 \in Slots
  BY TreeAssumption DEF Slots
<1>2. LiveOf([fds EXCEPT ![0] = fd]) = LiveOf(fds) \cup {0}
  BY <1>1 DEF LiveOf
<1>3. IsFiniteSet(LiveOf(fds)) /\ (0 \in LiveOf(fds) <=> fds[0] # Closed)
  BY <1>1, LiveFinite DEF LiveOf
<1>4. Cardinality(LiveOf(fds) \cup {0}) = Live(fds) + (IF fds[0] = Closed THEN 1 ELSE 0)
  <2>1. PICK A : A = LiveOf(fds)
    OBVIOUS
  <2>2. IsFiniteSet(A) /\ Cardinality(A) = Live(fds) /\ Live(fds) \in Nat
    BY <2>1, LiveFinite
  <2>3. Cardinality(A \cup {0}) = IF 0 \in A THEN Cardinality(A) ELSE Cardinality(A) + 1
    BY <2>2, FS_AddElement
  <2>4. QED
    BY <1>3, <2>1, <2>2, <2>3
<1>5. QED
  BY <1>2, <1>4, LiveFinite

\* None is open when all are closed.
LEMMA LiveNone == Live(AllClosed) = 0
<1>1. LiveOf(AllClosed) = {}
  BY DEF LiveOf, AllClosed, Slots
<1>2. QED
  BY <1>1, LiveFinite, FS_EmptySet

-----------------------------------------------------------------------------
\* Opened from the root, the descriptors are those of the path's ancestors.
LEMMA OpenTailHeld ==
  ASSUME NEW path \in Path
  PROVE  OpenTail(path) \in [Slots -> Path \cup {Closed}] /\ Holds(OpenTail(path), Len(path) - 1, path)
<1>1. Len(path) \in Nat
  BY PathFacts
<1>2. ASSUME NEW k \in Slots, k < Len(path)
      PROVE  /\ k <= Len(path) - 1 /\ SubSeq(path, 1, Len(path) - 1 - k) \in Path
             /\ Len(SubSeq(path, 1, Len(path) - 1 - k)) = Len(path) - 1 - k
             /\ Alike(SubSeq(path, 1, Len(path) - 1 - k), path, Len(path) - 1 - k)
  <2>1. PICK n \in 0..Len(path) : n = Len(path) - 1 - k
    <3>1. Len(path) - 1 - k \in 0..Len(path)
      BY <1>1, <1>2, TreeAssumption DEF Slots
    <3>2. QED
      BY <3>1
  <2>2. SubSeq(path, 1, n) \in Path /\ Len(SubSeq(path, 1, n)) = n /\ Alike(SubSeq(path, 1, n), path, n)
    BY FrontOf
  <2>3. k <= Len(path) - 1
    BY <1>1, <1>2, TreeAssumption DEF Slots
  <2>4. QED
    BY <2>1, <2>2, <2>3
<1>3. OpenTail(path) \in [Slots -> Path \cup {Closed}]
  BY <1>2 DEF OpenTail, Slots
<1>4. ASSUME NEW k \in Slots, OpenTail(path)[k] # Closed
      PROVE  /\ k <= Len(path) - 1 /\ Len(OpenTail(path)[k]) = Len(path) - 1 - k
             /\ Alike(OpenTail(path)[k], path, Len(path) - 1 - k)
  <2>1. k < Len(path) /\ OpenTail(path)[k] = SubSeq(path, 1, Len(path) - 1 - k)
    BY <1>4 DEF OpenTail, Slots
  <2>2. QED
    BY <1>2, <2>1
<1>5. QED
  BY <1>3, <1>4 DEF Holds

\* A file descriptor opened in a directory is that of its subdirectory.
LEMMA AppendAlike ==
  ASSUME NEW p \in Path, NEW q \in Path, Len(q) = Len(p) + 1, Alike(p, q, Len(p))
  PROVE  /\ Append(p, Last(q)) \in Path /\ Len(Append(p, Last(q))) = Len(q)
         /\ Alike(Append(p, Last(q)), q, Len(q))
<1>1. Len(p) \in Nat /\ Len(q) \in 1..Len(q) /\ Last(q) = q[Len(q)] /\ q[Len(q)] \in AnyName
  <2>1. Len(p) \in Nat /\ Len(q) \in Nat
    BY PathFacts
  <2>2. Len(q) \in 1..Len(q)
    BY <2>1
  <2>3. QED
    BY <2>1, <2>2, PathFacts DEF Last
<1>2. PICK r : r = Append(p, Last(q))
  OBVIOUS
<1>3. /\ r \in Path /\ Len(r) = Len(p) + 1 /\ r[Len(p) + 1] = q[Len(q)]
      /\ \A j \in 1..Len(p) : r[j] = p[j]
  BY <1>1, <1>2, AppendProperties DEF Path
<1>4. ASSUME NEW j \in 1..Len(q)
      PROVE  Folded[r[j]] = Folded[q[j]]
  <2>1. CASE j = Len(q)
    BY <1>3, <2>1
  <2>2. CASE j # Len(q)
    <3>1. j \in 1..Len(p)
      BY <1>1, <2>2
    <3>2. QED
      BY <1>3, <3>1 DEF Alike
  <2>3. QED
    BY <2>1, <2>2
<1>5. QED
  BY <1>1, <1>2, <1>3, <1>4 DEF Alike

(* The descriptors after a directory was opened in the one Up levels above *)
(* the last: every one is a level further from the new directory than its  *)
(* slot was, or as far as it was and the levels between are gone.          *)
LEMMA SlideHeld ==
  ASSUME NEW fds \in [Slots -> Path \cup {Closed}], NEW from \in Int, NEW p \in Path, NEW q \in Path,
         Holds(fds, from, p), Up \in Slots, fds[Up] # Closed,
         Len(q) = from + 1 - Up, Alike(p, q, Len(q) - 1),
         NEW fd, fd = Append(fds[Up], Last(q))
  PROVE  /\ fd # Closed /\ Slide(fds, fd) \in [Slots -> Path \cup {Closed}]
         /\ Holds(Slide(fds, fd), Len(q), q)
<1> DEFINE leaving == Left(fds)
           new == Slide(fds, fd)
<1>1. kDirStackSize \in Nat \ {0} /\ 0 \in Slots
  BY TreeAssumption DEF Slots
<1>2. PICK parent \in Path : /\ parent = fds[Up] /\ Len(parent) = Len(q) - 1
                             /\ Alike(parent, p, Len(parent))
  <2>1. PICK u \in Slots : u = Up
    OBVIOUS
  <2>2. fds[u] \in Path /\ Len(fds[u]) = from - u /\ Alike(fds[u], p, from - u)
    BY <2>1 DEF Holds
  <2>3. from - u = Len(q) - 1
    BY <1>1, <2>1 DEF Slots
  <2>4. QED
    BY <2>1, <2>2, <2>3
<1>3. fd \in Path /\ Len(fd) = Len(q) /\ Alike(fd, q, Len(q)) /\ Len(q) \in Nat
  <2>1. Len(parent) \in Nat /\ Len(q) \in Nat
    BY PathFacts
  <2>2. Alike(parent, q, Len(parent))
    BY <1>2, <2>1, AlikeAll
  <2>3. Len(q) = Len(parent) + 1
    BY <1>2, <2>1
  <2>4. QED
    BY <1>2, <2>1, <2>2, <2>3, AppendAlike
<1>4. fd # Closed
  BY <1>3, TreeAssumption DEF Path, AnyName
<1>5. leaving \in [Slots -> Path \cup {Closed}] /\ \A k \in Slots : leaving[k] = IF k < Up THEN Closed ELSE fds[k]
  BY DEF Left, Slots
<1>6. /\ new \in [Slots -> Path \cup {Closed}] /\ new[0] = fd
      /\ \A k \in Slots : k # 0 => new[k] = leaving[(k + Middle) % kDirStackSize]
  <2>1. Rotated(leaving) = [k \in Slots |-> leaving[(k + Middle) % kDirStackSize]]
    BY DEF Rotated, Slots
  <2>2. Rotated(leaving) \in [Slots -> Path \cup {Closed}]
    BY <1>5, <2>1, TurnOf
  <2>3. new = [Rotated(leaving) EXCEPT ![0] = fd]
    BY DEF Slide
  <2> HIDE DEF new, leaving
  <2>4. QED
    BY <1>1, <1>3, <2>1, <2>2, <2>3
<1> HIDE DEF new, leaving
<1>7. ASSUME NEW k \in Slots, new[k] # Closed
      PROVE  k <= Len(q) /\ Len(new[k]) = Len(q) - k /\ Alike(new[k], q, Len(q) - k)
  <2>1. CASE k = 0
    <3>1. Len(q) - k = Len(q) /\ k <= Len(q) /\ new[k] = fd
      BY <1>3, <1>6, <2>1
    <3>2. QED
      BY <1>3, <3>1
  <2>2. CASE k # 0
    <3>1. PICK i \in Slots : /\ i = (k + Middle) % kDirStackSize
                             /\ i = IF k + Middle < kDirStackSize THEN k + Middle ELSE k + Middle - kDirStackSize
      BY TurnOf
    <3>2. new[k] = leaving[i] /\ i >= Up /\ leaving[i] = fds[i] /\ fds[i] # Closed
      BY <1>5, <1>6, <1>7, <2>2, <3>1
    <3>3. Middle = (IF Up = 0 THEN kDirStackSize ELSE Up) - 1
      BY DEF Middle
    <3>4. i = k + Up - 1
      <4>1. PICK u \in Slots, m \in Slots : u = Up /\ m = Middle /\ m = (IF u = 0 THEN kDirStackSize ELSE u) - 1
        BY <3>3, TurnOf
      <4>2. i = (IF k + m < kDirStackSize THEN k + m ELSE k + m - kDirStackSize) /\ i >= u
        BY <3>1, <3>2, <4>1
      <4>3. i = k + u - 1
        BY <1>1, <2>2, <4>1, <4>2 DEF Slots
      <4>4. QED
        BY <4>1, <4>3
    <3>5. fds[i] \in Path /\ i <= from /\ Len(fds[i]) = from - i /\ Alike(fds[i], p, from - i)
      BY <3>2 DEF Holds
    <3>6. from - i = Len(q) - k /\ from - i \in Nat /\ from - i <= Len(q) - 1
      BY <1>1, <1>3, <2>2, <3>4, <3>5 DEF Slots
    <3>7. PICK f \in Path, n \in Nat : f = fds[i] /\ n = from - i
      BY <3>5, <3>6
    <3>8. Len(q) - 1 \in Nat /\ Alike(p, q, n)
      <4>1. Len(q) - 1 \in Nat /\ n <= Len(q) - 1
        BY <1>3, <3>6, <3>7
      <4>2. QED
        BY <4>1, AlikeAll
    <3>9. Alike(f, q, n)
      BY <3>5, <3>7, <3>8, AlikeAll
    <3>10. k <= Len(q)
      BY <1>3, <3>6 DEF Slots
    <3>11. QED
      BY <3>2, <3>5, <3>6, <3>7, <3>9, <3>10
  <2>3. QED
    BY <2>1, <2>2
<1>8. Holds(new, Len(q), q)
  BY <1>7 DEF Holds
<1>9. QED
  BY <1>4, <1>6, <1>8 DEF new

\* The cuts divide dirs_ among the tasks, at least one directory to each.
Divided ==
    /\ splits_ \in Seq(Nat) /\ Len(splits_) > 1 /\ splits_[1] = 0 /\ Last(splits_) = Len(dirs_)
    /\ \A k \in 1..(Len(splits_) - 1) : splits_[k] < splits_[k + 1]

\* A task holds descriptors of the directory it has scanned last and of those
\* above it, or at first of those above the one it begins with.
Holding ==
    /\ begin \in Nat /\ at \in Nat /\ end \in Nat
    /\ begin <= at /\ at <= end /\ begin < end /\ end <= Len(dirs_)
    /\ at = begin => Holds(dir_fd, Dir.depth - 1, Dir.path)
    /\ at # begin => Holds(dir_fd, dirs_[at].depth, dirs_[at].path)

TreeIInv ==
    /\ entries \in Seq(Files) /\ next \in Nat
    /\ tree \in {"new", "entries"} => Stacked /\ Popping
    /\ tree \in {"built", "scan"} => Chained /\ Divided
    /\ dir_fd \in [Slots -> Path \cup {Closed}] /\ opened = Live(dir_fd)
    /\ tree = "scan" => Holding
    /\ tree = "end" => opened = 0

\* Closed descriptors may be held of any path.
LEMMA AllClosedHeld ==
  /\ AllClosed \in [Slots -> Path \cup {Closed}]
  /\ \A from, path : Holds(AllClosed, from, path)
BY DEF AllClosed, Slots, Holds

\* It holds at first.
LEMMA TreeInitIInv == TreeInit => TreeIInv
<1> SUFFICES ASSUME TreeInit PROVE TreeIInv
  OBVIOUS
<1>1. entries \in Seq(Files) /\ next \in Nat
  BY EmptySeq DEF TreeInit
<1>2. dir_fd \in [Slots -> Path \cup {Closed}] /\ opened = Live(dir_fd)
  BY AllClosedHeld, LiveNone DEF TreeInit
<1>3. Stacked
  <2>1. stack = <<NewDir(<< >>)>> /\ Len(stack) = 1 /\ stack[1] = NewDir(<< >>)
    BY DEF TreeInit
  <2>2. << >> \in Path /\ Len(<< >>) = 0
    BY EmptySeq DEF Path
  <2>3. IsDir(NewDir(<< >>)) /\ NewDir(<< >>).path = << >>
    BY <2>2 DEF IsDir, NewDir
  <2>4. Alike(<< >>, << >>, 0)
    BY <2>2, PathFacts
  <2>5. QED
    BY <2>1, <2>2, <2>3, <2>4 DEF Stacked
<1>4. Popping
  <2>1. dirs_ = << >> /\ Len(dirs_) = 0 /\ dirs_ \in Seq(Range(dirs_))
    BY EmptySeq DEF TreeInit
  <2>2. QED
    BY <2>1 DEF Popping
<1>5. tree = "new"
  BY DEF TreeInit
<1>6. QED
  BY <1>1, <1>2, <1>3, <1>4, <1>5 DEF TreeIInv

\* What does not change with the variables it is about.
LEMMA StayTree ==
  /\ stack' = stack => (Stacked' <=> Stacked)
  /\ stack' = stack /\ dirs_' = dirs_ => (Popping' <=> Popping)
  /\ dirs_' = dirs_ => (Chained' <=> Chained)
  /\ dirs_' = dirs_ /\ splits_' = splits_ => (Divided' <=> Divided)
  /\ dir_fd' = dir_fd => Live(dir_fd)' = Live(dir_fd)
<1>1. stack' = stack => (Stacked' <=> Stacked)
  BY DEF Stacked, IsDir, Alike, Path, AnyName
<1>2. stack' = stack /\ dirs_' = dirs_ => (Popping' <=> Popping)
  BY DEF Popping, IsDir, Follows, Alike, Path, AnyName, Range
<1>3. dirs_' = dirs_ => (Chained' <=> Chained)
  BY DEF Chained, IsDir, Follows, Alike, Path, AnyName
<1>4. dirs_' = dirs_ /\ splits_' = splits_ => (Divided' <=> Divided)
  BY DEF Divided, Last
<1>5. dir_fd' = dir_fd => Live(dir_fd)' = Live(dir_fd)
  BY DEF Live
<1>6. QED
  BY <1>1, <1>2, <1>3, <1>4, <1>5

\* Every step keeps it, from here to TreeStutterKept.
LEMMA BuildIndexKept ==
  ASSUME TreeIInv, NEW n \in 0..MaxEntries, NEW index \in [1..n -> Files], BuildIndex(index)
  PROVE  TreeIInv'
<1>1. entries' \in Seq(Files)
  BY TreeAssumption, SeqDef DEF BuildIndex
<1>2. QED
  BY <1>1, StayTree DEF TreeIInv, BuildIndex, Path, AnyName, Slots

LEMMA AddEntryKept ==
  ASSUME TreeIInv, AddEntry
  PROVE  TreeIInv'
<1>1. /\ tree = "entries" /\ tree' = "entries" /\ Stacked /\ Popping
      /\ next \in Nat /\ next < Len(entries) /\ Len(entries) \in Nat
  BY LenProperties DEF TreeIInv, AddEntry
<1>2. entries[next + 1] \in Path \ {<< >>}
  <2>1. next + 1 \in 1..Len(entries)
    BY <1>1
  <2>2. entries[next + 1] \in Files
    BY <2>1, ElementOfSeq DEF TreeIInv
  <2>3. QED
    BY <2>2, TreeAssumption DEF Path, AnyName
<1>3. Stacked' /\ Popping'
  BY <1>1, <1>2, AddEntryStack, AddEntryPops
<1>4. QED
  BY <1>1, <1>3, StayTree DEF TreeIInv, AddEntry, Path, AnyName, Slots

LEMMA BuiltKept ==
  ASSUME TreeIInv, Built
  PROVE  TreeIInv'
<1>1. tree = "entries" /\ Stacked /\ Popping /\ tree' \in {"built", "aborted"}
  BY DEF TreeIInv, Built
<1>2. Chained' /\ dirs_' \in Seq(Range(dirs_')) /\ Len(dirs_') > 0
  BY <1>1, BuiltChained
<1>3. Divided'
  <2>0. PICK ds : ds = dirs_' /\ ds \in Seq(Range(ds)) /\ Len(ds) > 0
    BY <1>2
  <2>1. PICK n \in Nat : n = Len(ds) /\ DOMAIN ds = 1..n /\ n > 0
    BY <2>0, LenProperties
  <2>2. PICK cuts : cuts = Splits(ds)
    OBVIOUS
  <2>3. /\ cuts \in Seq(Nat) /\ Len(cuts) > 1 /\ cuts[1] = 0 /\ Last(cuts) = n
        /\ \A k \in 1..(Len(cuts) - 1) : cuts[k] < cuts[k + 1]
    BY <2>1, <2>2, SplitsDivide
  <2>4. splits_' = cuts
    BY <2>0, <2>2 DEF Built
  <2>5. QED
    BY <2>0, <2>1, <2>3, <2>4 DEF Divided, Last
<1>4. QED
  BY <1>1, <1>2, <1>3, StayTree DEF TreeIInv, Built, Path, AnyName, Slots

\* A cut is at most the number of directories.
LEMMA CutsWithin ==
  ASSUME Chained, Divided, NEW k \in 1..(Len(splits_) - 1)
  PROVE  /\ splits_[k] \in Nat /\ splits_[k + 1] \in Nat /\ splits_[k] < splits_[k + 1]
         /\ splits_[k + 1] <= Len(dirs_)
<1>1. Len(splits_) \in Nat /\ \A i \in 1..Len(splits_) : splits_[i] \in Nat
  BY LenProperties, ElementOfSeq DEF Divided
<1> DEFINE Beyond == {d \in Nat : \E i \in 1..Len(splits_) : i + d = Len(splits_) /\ splits_[i] > Len(dirs_)}
<1>2. Beyond = {}
  <2>1. SUFFICES ASSUME Beyond # {} PROVE FALSE
    OBVIOUS
  <2>2. PICK d \in Beyond : \A e \in Beyond : d <= e
    <3>1. Beyond \subseteq Nat
      OBVIOUS
    <3> HIDE DEF Beyond
    <3>2. QED
      BY <2>1, <3>1, SmallestNat
  <2>3. PICK i \in 1..Len(splits_) : i + d = Len(splits_) /\ splits_[i] > Len(dirs_)
    OBVIOUS
  <2>4. i # Len(splits_)
    BY <1>1, <2>3 DEF Divided, Last, Chained
  <2>5. splits_[i] < splits_[i + 1] /\ i + 1 \in 1..Len(splits_)
    BY <1>1, <2>4 DEF Divided
  <2>6. splits_[i + 1] > Len(dirs_)
    <3>1. splits_[i] \in Nat /\ splits_[i + 1] \in Nat /\ Len(dirs_) \in Nat
      BY <1>1, <2>5 DEF Chained
    <3>2. QED
      BY <2>3, <2>5, <3>1
  <2>7. d - 1 \in Nat /\ (i + 1) + (d - 1) = Len(splits_)
    <3>1. d \in Nat /\ i \in Nat
      OBVIOUS
    <3> HIDE DEF Beyond
    <3>2. d # 0
      BY <1>1, <2>3, <2>4, <3>1
    <3>3. d - 1 \in Nat /\ (i + 1) + (d - 1) = i + d
      BY <3>1, <3>2
    <3>4. QED
      BY <2>3, <3>3
  <2>8. d - 1 \in Beyond
    BY <2>5, <2>6, <2>7
  <2>9. QED
    BY <2>2, <2>7, <2>8
<1>3. k \in 1..Len(splits_) /\ k + 1 \in 1..Len(splits_)
  BY <1>1
<1>4. splits_[k + 1] <= Len(dirs_)
  <2>1. PICK d \in Nat : (k + 1) + d = Len(splits_)
    <3>1. Len(splits_) - (k + 1) \in Nat /\ (k + 1) + (Len(splits_) - (k + 1)) = Len(splits_)
      BY <1>1
    <3>2. QED
      BY <3>1
  <2>2. ~(splits_[k + 1] > Len(dirs_))
    BY <1>2, <1>3, <2>1
  <2>3. QED
    BY <1>1, <1>3, <2>2 DEF Chained
<1>5. QED
  BY <1>1, <1>3, <1>4 DEF Divided

LEMMA StartScanKept ==
  ASSUME TreeIInv, NEW k \in 1..(Len(splits_) - 1), StartScan(k)
  PROVE  TreeIInv'
<1>1. tree = "built" /\ tree' = "scan" /\ Chained /\ Divided
  BY DEF TreeIInv, StartScan
<1>2. /\ begin' = splits_[k] /\ at' = splits_[k] /\ end' = splits_[k + 1] /\ dirs_' = dirs_
      /\ dir_fd' \in {AllClosed, OpenTail(dirs_[splits_[k] + 1].path)} /\ opened' = Live(dir_fd')
  BY DEF StartScan
<1>3. PICK i \in 1..Len(dirs_) : i = splits_[k] + 1
  <2>1. splits_[k] + 1 \in 1..Len(dirs_)
    BY <1>1, CutsWithin DEF Chained
  <2>2. QED
    BY <2>1
<1>4. IsDir(dirs_[i])
  BY <1>1 DEF Chained
<1>5. PICK fds : /\ fds = dir_fd' /\ fds \in [Slots -> Path \cup {Closed}]
                 /\ Holds(fds, dirs_[i].depth - 1, dirs_[i].path)
  BY <1>2, <1>3, <1>4, AllClosedHeld, OpenTailHeld DEF IsDir
<1>6. Holding'
  <2>1. Holding' <=> /\ begin' \in Nat /\ at' \in Nat /\ end' \in Nat
                     /\ begin' <= at' /\ at' <= end' /\ begin' < end' /\ end' <= Len(dirs_')
                     /\ at' = begin' => Holds(dir_fd', dirs_'[at' + 1].depth - 1, dirs_'[at' + 1].path)
                     /\ at' # begin' => Holds(dir_fd', dirs_'[at'].depth, dirs_'[at'].path)
    BY DEF Holding, Dir, Holds, Slots, Alike
  <2>2. /\ splits_[k] \in Nat /\ splits_[k + 1] \in Nat /\ splits_[k] < splits_[k + 1]
        /\ splits_[k + 1] <= Len(dirs_)
    BY <1>1, CutsWithin
  <2>3. QED
    BY <1>2, <1>3, <1>5, <2>1, <2>2
<1>7. dir_fd' \in [Slots -> Path \cup {Closed}] /\ opened' = Live(dir_fd)'
  BY <1>2, <1>5 DEF Live
<1>8. QED
  BY <1>1, <1>6, <1>7, StayTree DEF TreeIInv, StartScan, Path, AnyName, Slots

\* A step of the scan leaves the task with the descriptors of the directory it
\* has scanned.
LEMMA ScannedKept ==
  ASSUME TreeIInv, Scanning, NEW fds \in [Slots -> Path \cup {Closed}],
         Holds(fds, Dir.depth, Dir.path), dir_fd' = fds, opened' = Live(fds), at' = at + 1,
         UNCHANGED <<tree, entries, next, stack, dirs_, splits_, end, begin>>
  PROVE  TreeIInv'
<1>1. tree = "scan" /\ at < end /\ Chained /\ Divided /\ Holding
  BY DEF TreeIInv, Scanning
<1>2. /\ begin \in Nat /\ at \in Nat /\ end \in Nat
      /\ begin <= at /\ at <= end /\ begin < end /\ end <= Len(dirs_)
  BY <1>1 DEF Holding
<1>3. Holding'
  <2>1. Holding' <=> /\ begin' \in Nat /\ at' \in Nat /\ end' \in Nat
                     /\ begin' <= at' /\ at' <= end' /\ begin' < end' /\ end' <= Len(dirs_')
                     /\ at' = begin' => Holds(dir_fd', dirs_'[at' + 1].depth - 1, dirs_'[at' + 1].path)
                     /\ at' # begin' => Holds(dir_fd', dirs_'[at'].depth, dirs_'[at'].path)
    BY DEF Holding, Dir, Holds, Slots, Alike
  <2>2. at' # begin' /\ begin' <= at' /\ at' <= end' /\ at' \in Nat
    BY <1>1, <1>2
  <2>3. Holds(dir_fd', dirs_'[at'].depth, dirs_'[at'].path)
    BY DEF Dir
  <2>4. QED
    BY <1>2, <2>1, <2>2, <2>3
<1>4. dir_fd' \in [Slots -> Path \cup {Closed}] /\ opened' = Live(dir_fd)'
  BY DEF Live
<1>5. QED
  BY <1>1, <1>3, <1>4, StayTree DEF TreeIInv, Path, AnyName, Slots

LEMMA OpenFromRootKept ==
  ASSUME TreeIInv, NEW ok \in BOOLEAN, OpenFromRoot(ok)
  PROVE  TreeIInv'
<1>1. Scanning /\ Holding /\ Chained /\ opened = Live(dir_fd)
  BY DEF TreeIInv, OpenFromRoot, Scanning
<1>2. IsDir(Dir)
  <2>1. at + 1 \in 1..Len(dirs_)
    BY <1>1 DEF Scanning, Holding, Chained
  <2>2. QED
    BY <1>1, <2>1 DEF Chained, Dir
<1>3. AllClosed \in [Slots -> Path \cup {Closed}] /\ Holds(AllClosed, Dir.depth, Dir.path) /\ Live(AllClosed) = 0
  BY AllClosedHeld, LiveNone
<1>4. opened - Live(dir_fd) = 0 /\ opened \in Nat
  BY <1>1, LiveFinite
<1>5. CASE ~ok
  BY <1>1, <1>3, <1>4, <1>5, ScannedKept DEF OpenFromRoot
<1>6. CASE ok
  <2>1. PICK fds : fds = [AllClosed EXCEPT ![0] = Dir.path]
    OBVIOUS
  <2>2. Dir.path \in Path /\ Dir.path # Closed /\ Dir.depth = Len(Dir.path) /\ Len(Dir.path) \in Nat
    BY <1>2, TreeAssumption, PathFacts DEF IsDir, Path, AnyName
  <2>3. 0 \in Slots /\ fds \in [Slots -> Path \cup {Closed}] /\ \A k \in Slots : fds[k] = IF k = 0 THEN Dir.path ELSE Closed
    BY <1>3, <2>1, <2>2, TreeAssumption DEF AllClosed, Slots
  <2>4. Holds(fds, Dir.depth, Dir.path)
    <3>1. Len(Dir.path) - 0 = Len(Dir.path) /\ Alike(Dir.path, Dir.path, Len(Dir.path))
      BY <2>2, PathFacts
    <3>2. QED
      BY <2>2, <2>3, <3>1 DEF Holds
  <2>5. Live(fds) = 1
    <3>1. DOMAIN AllClosed = Slots /\ AllClosed[0] = Closed
      BY <2>3 DEF AllClosed, Slots
    <3>2. PICK none : none = AllClosed
      OBVIOUS
    <3>3. Live([none EXCEPT ![0] = Dir.path]) = Live(none) + (IF none[0] = Closed THEN 1 ELSE 0)
      BY <2>2, <3>1, <3>2, LiveSet
    <3>4. QED
      BY <1>3, <2>1, <3>1, <3>2, <3>3
  <2>6. dir_fd' = fds /\ opened' = Live(fds) /\ at' = at + 1
    BY <1>4, <1>6, <2>1, <2>5 DEF OpenFromRoot
  <2>7. UNCHANGED <<tree, entries, next, stack, dirs_, splits_, end, begin>>
    BY DEF OpenFromRoot
  <2>8. QED
    BY <1>1, <2>3, <2>4, <2>6, <2>7, ScannedKept
<1>7. QED
  BY <1>5, <1>6

LEMMA OpenFromParentKept ==
  ASSUME TreeIInv, NEW ok \in BOOLEAN, OpenFromParent(ok)
  PROVE  TreeIInv'
<1>1. /\ Scanning /\ Holding /\ Chained /\ opened = Live(dir_fd) /\ Reached
      /\ dir_fd \in [Slots -> Path \cup {Closed}]
  BY DEF TreeIInv, OpenFromParent, Scanning
<1>2. /\ begin \in Nat /\ at \in Nat /\ begin <= at /\ at < end /\ end <= Len(dirs_) /\ end \in Nat
      /\ Len(dirs_) \in Nat
  BY <1>1 DEF Scanning, Holding, Chained
<1>3. IsDir(Dir) /\ Dir.path \in Path /\ Dir.depth = Len(Dir.path) /\ Len(Dir.path) \in Nat
  <2>1. at + 1 \in 1..Len(dirs_)
    BY <1>2
  <2>2. IsDir(Dir)
    BY <1>1, <2>1 DEF Chained, Dir
  <2>3. QED
    BY <2>2, PathFacts DEF IsDir
<1>4. CASE ~ok
  <2>1. AllClosed \in [Slots -> Path \cup {Closed}] /\ Holds(AllClosed, Dir.depth, Dir.path) /\ Live(AllClosed) = 0
    BY AllClosedHeld, LiveNone
  <2>2. opened - Live(dir_fd) = 0
    BY <1>1, LiveFinite
  <2>3. QED
    BY <1>1, <1>4, <2>1, <2>2, ScannedKept DEF OpenFromParent
<1>5. CASE ok
  <2>1. PICK from \in Int, p \in Path : /\ Holds(dir_fd, from, p) /\ Up \in Slots /\ dir_fd[Up] # Closed
                                        /\ Len(Dir.path) = from + 1 - Up /\ Alike(p, Dir.path, Len(Dir.path) - 1)
    <3>1. CASE at = begin
      <4>1. Up = 0 /\ 0 \in Slots /\ dir_fd[0] # Closed
        BY <1>1, <3>1, TreeAssumption DEF Up, Reached, Slots
      <4>2. Holds(dir_fd, Dir.depth - 1, Dir.path)
        BY <1>1, <3>1 DEF Holding
      <4>3. 0 <= Dir.depth - 1
        BY <4>1, <4>2 DEF Holds
      <4>4. Len(Dir.path) - 1 \in Nat /\ Len(Dir.path) = (Len(Dir.path) - 1) + 1 - 0
        BY <1>3, <4>3
      <4>5. Alike(Dir.path, Dir.path, Len(Dir.path) - 1)
        BY <1>3, <4>4, PathFacts, AlikeAll
      <4>6. QED
        BY <1>3, <4>1, <4>2, <4>4, <4>5
    <3>2. CASE at # begin
      <4>1. at \in 1..(Len(dirs_) - 1) /\ at \in 1..Len(dirs_)
        BY <1>2, <3>2
      <4>2. Follows(dirs_[at], Dir) /\ IsDir(dirs_[at])
        BY <1>1, <4>1 DEF Chained, Dir
      <4>3. PICK p \in Path, from \in Nat : p = dirs_[at].path /\ from = dirs_[at].depth /\ from = Len(p)
        BY <4>2, PathFacts DEF IsDir
      <4>4. Len(Dir.path) \in 1..(from + 1) /\ Alike(p, Dir.path, Len(Dir.path) - 1)
        BY <4>2, <4>3 DEF Follows
      <4>5. Up = from + 1 - Len(Dir.path)
        BY <1>3, <3>2, <4>3 DEF Up
      <4>6. Up \in Slots /\ dir_fd[Up] # Closed
        <5>1. Up < kDirStackSize /\ dir_fd[Up] # Closed
          BY <1>1 DEF Reached
        <5>2. PICK u \in Nat : u = Up
          <6>1. from + 1 - Len(Dir.path) \in Nat
            BY <1>3, <4>4
          <6>2. QED
            BY <4>5, <6>1
        <5>3. u \in Slots
          BY <5>1, <5>2, TreeAssumption DEF Slots
        <5>4. QED
          BY <5>1, <5>2, <5>3
      <4>7. Holds(dir_fd, from, p)
        BY <1>1, <3>2, <4>3 DEF Holding
      <4>8. Len(Dir.path) = from + 1 - Up
        BY <1>3, <4>5
      <4>9. QED
        BY <4>4, <4>6, <4>7, <4>8
    <3>3. QED
      BY <3>1, <3>2
  <2>2. PICK fd, fds : fd = Append(dir_fd[Up], Last(Dir.path)) /\ fds = Slide(dir_fd, fd)
    OBVIOUS
  <2>3. fd # Closed /\ fds \in [Slots -> Path \cup {Closed}] /\ Holds(fds, Dir.depth, Dir.path)
    BY <1>1, <1>3, <2>1, <2>2, SlideHeld
  <2>4. Live(fds) = Live(Left(dir_fd)) + (IF Rotated(Left(dir_fd))[0] = Closed THEN 1 ELSE 0)
    <3>0. PICK leaving : leaving = Left(dir_fd)
      OBVIOUS
    <3>1. PICK turned : turned = Rotated(leaving) /\ DOMAIN turned = Slots
      <4>1. DOMAIN Rotated(leaving) = Slots
        BY DEF Rotated, Slots
      <4>2. QED
        BY <4>1
    <3>2. Live(turned) = Live(Left(dir_fd))
      BY <2>1, <3>0, <3>1, LiveRotated
    <3>3. fds = [turned EXCEPT ![0] = fd]
      BY <2>2, <3>0, <3>1 DEF Slide
    <3>4. QED
      BY <2>3, <3>0, <3>1, <3>2, <3>3, LiveSet
  <2>5. opened' = Live(fds)
    <3>1. opened' = opened + 1 - (Live(dir_fd) - Live(Left(dir_fd)))
                       - (IF Rotated(Left(dir_fd))[0] = Closed THEN 0 ELSE 1)
      BY <1>5 DEF OpenFromParent
    <3>2. Live(dir_fd) \in Nat /\ Live(Left(dir_fd)) \in Nat
      BY LiveFinite
    <3>3. QED
      BY <1>1, <2>4, <3>1, <3>2
  <2>6. dir_fd' = fds /\ at' = at + 1 /\ UNCHANGED <<tree, entries, next, stack, dirs_, splits_, end, begin>>
    BY <1>5, <2>2 DEF OpenFromParent
  <2>7. QED
    BY <1>1, <2>3, <2>5, <2>6, ScannedKept
<1>6. QED
  BY <1>4, <1>5

LEMMA EndScanKept ==
  ASSUME TreeIInv, EndScan
  PROVE  TreeIInv'
<1>1. tree' = "end" /\ dir_fd' = AllClosed /\ opened' = opened - Live(dir_fd) /\ opened = Live(dir_fd)
  BY DEF TreeIInv, EndScan
<1>2. opened' = 0
  BY <1>1, LiveFinite
<1>3. dir_fd' \in [Slots -> Path \cup {Closed}] /\ opened' = Live(dir_fd)'
  <2>1. Live(dir_fd') = 0
    BY <1>1, LiveNone
  <2>2. Live(dir_fd)' = Live(dir_fd')
    BY DEF Live
  <2>3. QED
    BY <1>1, <1>2, <2>1, <2>2, AllClosedHeld
<1>4. QED
  BY <1>1, <1>2, <1>3, StayTree DEF TreeIInv, EndScan, Path, AnyName, Slots

LEMMA TreeStutterKept == TreeIInv /\ UNCHANGED treeVars => TreeIInv'
<1> SUFFICES ASSUME TreeIInv, UNCHANGED treeVars PROVE TreeIInv'
  OBVIOUS
<1>1. Holding' <=> Holding
  BY DEF treeVars, Holding, Dir, Holds, Slots, Alike
<1>2. QED
  BY <1>1, StayTree DEF treeVars, TreeIInv, Path, AnyName, Slots

\* The invariant of the tree and its walk: dirs_ can be walked with the
\* descriptors a task holds.
THEOREM TreeInvariant == TreeSpec => []TreeIInv
<1>1. TreeInit => TreeIInv
  BY TreeInitIInv
<1>2. TreeIInv /\ [TreeNext]_treeVars => TreeIInv'
  <2> SUFFICES ASSUME TreeIInv, [TreeNext]_treeVars PROVE TreeIInv'
    OBVIOUS
  <2>1. ASSUME NEW n \in 0..MaxEntries, NEW index \in [1..n -> Files], BuildIndex(index) PROVE TreeIInv'
    BY <2>1, BuildIndexKept
  <2>2. CASE AddEntry
    BY <2>2, AddEntryKept
  <2>3. CASE Built
    BY <2>3, BuiltKept
  <2>4. ASSUME NEW k \in 1..(Len(splits_) - 1), StartScan(k) PROVE TreeIInv'
    BY <2>4, StartScanKept
  <2>5. ASSUME NEW ok \in BOOLEAN, OpenFromParent(ok) PROVE TreeIInv'
    BY <2>5, OpenFromParentKept
  <2>6. ASSUME NEW ok \in BOOLEAN, OpenFromRoot(ok) PROVE TreeIInv'
    BY <2>6, OpenFromRootKept
  <2>7. CASE EndScan
    BY <2>7, EndScanKept
  <2>8. CASE UNCHANGED treeVars
    BY <2>8, TreeStutterKept
  <2>9. QED
    BY <2>1, <2>2, <2>3, <2>4, <2>5, <2>6, <2>7, <2>8 DEF TreeNext
<1>3. QED
  BY <1>1, <1>2, PTL DEF TreeSpec

\* A task reads each directory through a descriptor of it, and has no
\* descriptor open that it does not hold.
THEOREM FdsAlwaysRight == TreeSpec => []FdsRight
<1>1. TreeIInv => FdsRight
  <2> SUFFICES ASSUME TreeIInv PROVE FdsRight
    OBVIOUS
  <2>1. ASSUME tree = "scan", at > begin, dir_fd[0] # Closed
        PROVE  SamePath(dir_fd[0], dirs_[at].path)
    <3>1. Holding /\ Chained
      BY <2>1 DEF TreeIInv
    <3>2. at \in 1..Len(dirs_) /\ at # begin
      BY <2>1, <3>1 DEF Holding, Chained
    <3>3. IsDir(dirs_[at]) /\ Holds(dir_fd, dirs_[at].depth, dirs_[at].path)
      BY <3>1, <3>2 DEF Holding, Chained
    <3>4. PICK p \in Path, d \in Nat : p = dirs_[at].path /\ d = dirs_[at].depth /\ d = Len(p) /\ d - 0 = d
      BY <3>3, PathFacts DEF IsDir
    <3>5. 0 \in Slots /\ dir_fd[0] \in Path
      BY <2>1, TreeAssumption DEF TreeIInv, Slots
    <3>6. Len(dir_fd[0]) = d /\ Alike(dir_fd[0], p, d)
      BY <2>1, <3>3, <3>4, <3>5 DEF Holds
    <3>7. QED
      BY <3>4, <3>5, <3>6, AlikeAll
  <2>2. QED
    BY <2>1 DEF TreeIInv, FdsRight
<1>2. QED
  BY <1>1, TreeInvariant, PTL
-----------------------------------------------------------------------------
(* The tree itself.  The index is sorted, so that the entries of a         *)
(* directory stand together (StandTogether): a directory that is left is   *)
(* not entered again, and what a directory on the stack or in dirs_ holds  *)
(* is exact for the entries seen so far (Growing).                         *)
\* The entry is in the directory, at any depth.
Under(e, d) == Len(d) < Len(e) /\ Alike(d, e, Len(d))

\* The entry is in the subdirectory of that name.
UnderSub(e, dir, name) ==
    Under(e, dir.path) /\ dir.depth + 1 < Len(e) /\ Folded[e[dir.depth + 1]] = Folded[name]

\* The files that are in the directory itself, by their places in the index.
FilePlaces(es, dir, n) == {i \in 1..n : Under(es[i], dir.path) /\ Len(es[i]) = dir.depth + 1}

HasFiles(es, dir, n) ==
    \E place \in Bijection(DOMAIN dir.files, FilePlaces(es, dir, n)) :
       \A k \in DOMAIN dir.files :
          dir.files[k] = es[place[k]] /\ \A j \in 1..(k - 1) : place[j] < place[k]

HasSubdirs(es, dir, n) ==
    /\ \A j, k \in 1..Len(dir.subdirs) : j # k => Folded[dir.subdirs[j]] # Folded[dir.subdirs[k]]
    /\ \A k \in 1..Len(dir.subdirs) : \E i \in 1..n : UnderSub(es[i], dir, dir.subdirs[k])
    /\ \A i \in 1..n : Under(es[i], dir.path) /\ dir.depth + 1 < Len(es[i]) =>
          \E k \in 1..Len(dir.subdirs) : UnderSub(es[i], dir, dir.subdirs[k])

\* The directory holds what is in it of the first n entries of the index.
Node == [path : Path, depth : Nat, files : Seq(Path), subdirs : Seq(AnyName)]
Grown(es, dir, n) ==
    dir \in Node /\ dir.depth = Len(dir.path) /\ HasFiles(es, dir, n) /\ HasSubdirs(es, dir, n)

\* What else a popped directory has: its subdirectories in order, and entries
\* in front of the n-th but not the n-th.
InNameOrder(dir) == \A k \in 1..(Len(dir.subdirs) - 1) : NameLt(dir.subdirs[k], dir.subdirs[k + 1])
LeftBehind(es, dir, n) ==
    Len(dir.path) > 0 /\ (\E i \in 1..n : Under(es[i], dir.path)) /\ ~Under(es[n], dir.path)

\* The directory is the one of the first k names of the path.
DirOfPath(dir, e, k) == Len(dir.path) = k /\ Alike(dir.path, e, k)

IndexSorted == \A i \in 1..(Len(entries) - 1) : ~PathLt(entries[i + 1], entries[i])

\* The tree of the first next entries, those of its directories on the stack
\* in which the last entry is.
Growing ==
    /\ next <= Len(entries) /\ IndexSorted
    /\ \A j \in 1..Len(stack) : Grown(entries, stack[j], next)
    /\ \A d \in 1..Len(dirs_) :
          /\ Grown(entries, dirs_[d], next) /\ InNameOrder(dirs_[d])
          /\ LeftBehind(entries, dirs_[d], next)
    /\ \A c, d \in 1..Len(dirs_) : c # d => ~DirOfPath(dirs_[c], dirs_[d].path, Len(dirs_[d].path))
    /\ next = 0 => Len(stack) = 1 /\ Len(dirs_) = 0
    /\ next > 0 => /\ Len(stack) = Len(entries[next])
                   /\ \A j \in 1..Len(stack) : DirOfPath(stack[j], entries[next], j - 1)
    /\ \A i \in 1..next : \A k \in 0..(Len(entries[i]) - 1) :
          \/ \E d \in 1..Len(dirs_) : DirOfPath(dirs_[d], entries[i], k)
          \/ k + 1 \in 1..Len(stack) /\ DirOfPath(stack[k + 1], entries[i], k)

-----------------------------------------------------------------------------
\* An entry of the index is a path of at least one name.
LEMMA EntryPath ==
  ASSUME NEW es \in Seq(Files), NEW i \in 1..Len(es)
  PROVE  es[i] \in Path /\ Len(es[i]) \in Nat \ {0}
<1>1. es[i] \in Files
  BY ElementOfSeq
<1>2. es[i] \in Path /\ es[i] # << >>
  BY <1>1, TreeAssumption DEF Path, AnyName
<1>3. QED
  BY <1>2, PathFacts, EmptySeq DEF Path

LEMMA IsInUnder ==
  ASSUME NEW e \in Path, NEW d \in Path
  PROVE  IsIn(e, d) <=> Under(e, d)
<1>1. Len(e) \in Nat /\ Len(d) \in Nat
  BY PathFacts
<1>2. CASE Len(d) < Len(e)
  <2>1. Len(d) \in 0..Len(e)
    BY <1>1, <1>2
  <2>2. Len(SubSeq(e, 1, Len(d))) = Len(d) /\ \A j \in 1..Len(d) : SubSeq(e, 1, Len(d))[j] = e[j]
    BY <2>1, FrontOf
  <2>3. QED
    BY <1>1, <1>2, <2>2 DEF IsIn, Under, SamePath, Alike
<1>3. QED
  BY <1>2 DEF IsIn, Under

\* Ranks tell a name from another, and a directory from a file.
LEMMA RankFacts ==
  ASSUME NEW p \in Path, NEW q \in Path, NEW k \in 1..Len(p), k <= Len(q)
  PROVE  /\ RankAt(p, k) \in Nat /\ RankAt(q, k) \in Nat
         /\ RankAt(p, k) = RankAt(q, k) <=>
               Folded[p[k]] = Folded[q[k]] /\ (k = Len(p) <=> k = Len(q))
<1>1. Len(p) \in Nat /\ Len(q) \in Nat /\ k \in 1..Len(q)
  BY PathFacts
<1>2. p[k] \in AnyName /\ q[k] \in AnyName
  BY <1>1, PathFacts
<1>3. QED
  BY <1>2, TreeAssumption DEF RankAt, AnyName

\* The first place at which the paths have different ranks.
Differ(p, q, k) ==
    /\ k \in Nat \ {0} /\ k <= Len(p) /\ k <= Len(q)
    /\ \A j \in 1..(k - 1) : j < Len(p) /\ j < Len(q) /\ RankAt(p, j) = RankAt(q, j)
    /\ RankAt(p, k) # RankAt(q, k)

LEMMA DifferLt ==
  ASSUME NEW p \in Path, NEW q \in Path
  PROVE  /\ \A k : Differ(p, q, k) /\ RankAt(p, k) < RankAt(q, k) => PathLt(p, q)
         /\ Len(q) > 0 /\ Len(p) > 0 /\ PathLt(p, q) =>
               \E k : Differ(p, q, k) /\ RankAt(p, k) < RankAt(q, k)
<1>1. Len(p) \in Nat /\ Len(q) \in Nat
  BY PathFacts
<1>2. ASSUME NEW k, Differ(p, q, k), RankAt(p, k) < RankAt(q, k)
      PROVE  PathLt(p, q)
  <2>1. k \in 1..Len(q)
    BY <1>1, <1>2 DEF Differ
  <2>2. QED
    BY <1>2, <2>1 DEF Differ, PathLt
<1>3. ASSUME Len(p) > 0, Len(q) > 0, PathLt(p, q)
      PROVE  \E k : Differ(p, q, k) /\ RankAt(p, k) < RankAt(q, k)
  <2>1. PICK k \in 1..Len(q) :
           /\ \A j \in 1..(k - 1) : j < Len(p) /\ RankAt(p, j) = RankAt(q, j)
           /\ RankAt(p, k) < RankAt(q, k)
    BY <1>3 DEF PathLt
  <2>2. k <= Len(p)
    <3>1. CASE k = 1
      BY <1>1, <1>3, <3>1
    <3>2. CASE k > 1
      <4>1. k - 1 \in 1..(k - 1) /\ k - 1 < Len(p)
        BY <1>1, <2>1, <3>2
      <4>2. QED
        BY <1>1, <4>1
    <3>3. QED
      BY <3>1, <3>2
  <2>3. \A j \in 1..(k - 1) : j < Len(q)
    BY <1>1
  <2>4. RankAt(p, k) \in Nat /\ RankAt(q, k) \in Nat
    <3>1. k \in 1..Len(p) /\ k <= Len(q)
      BY <1>1, <2>2
    <3>2. QED
      BY <3>1, RankFacts
  <2>5. Differ(p, q, k)
    BY <1>1, <2>1, <2>2, <2>3, <2>4 DEF Differ
  <2>6. QED
    BY <2>1, <2>5
<1>4. QED
  BY <1>2, <1>3

\* Two paths have the same ranks up to a place, or differ at one up to it.
LEMMA SameOrDiffer ==
  ASSUME NEW p \in Path, NEW q \in Path, Len(q) > 0, NEW k \in Nat, k <= Len(p)
  PROVE  \/ k <= Len(q) /\ \A j \in 1..k : RankAt(p, j) = RankAt(q, j)
         \/ \E m \in 1..k : Differ(p, q, m)
<1>1. Len(p) \in Nat /\ Len(q) \in Nat
  BY PathFacts
<1> DEFINE T == {m \in 1..k : m > Len(q) \/ RankAt(p, m) # RankAt(q, m)}
<1>2. CASE T = {}
  <2>1. k <= Len(q)
    <3>1. k = 0 \/ k \in 1..k
      OBVIOUS
    <3>2. QED
      BY <1>1, <1>2, <3>1
  <2>2. QED
    BY <1>2, <2>1
<1>3. CASE T # {}
  <2>1. PICK m \in T : \A i \in T : m <= i
    <3>1. T \subseteq Nat
      OBVIOUS
    <3> HIDE DEF T
    <3>2. QED
      BY <1>3, <3>1, SmallestNat
  <2>2. m \in 1..k /\ \A j \in 1..(m - 1) : j \in 1..k /\ j <= Len(q) /\ RankAt(p, j) = RankAt(q, j)
    <3>1. \A j \in 1..(m - 1) : j \in 1..k /\ j \notin T
      BY <2>1
    <3>2. QED
      BY <1>1, <3>1
  <2>3. m <= Len(q)
    <3>1. SUFFICES ASSUME m > Len(q) PROVE FALSE
      BY <1>1, <2>2
    <3>2. PICK j \in 1..(m - 1) : j = Len(q)
      <4>1. m - 1 <= Len(q)
        <5>1. CASE m = 1
          BY <1>1, <5>1
        <5>2. CASE m > 1
          <6>1. m - 1 \in 1..(m - 1)
            BY <2>2, <5>2
          <6>2. QED
            BY <2>2, <6>1
        <5>3. QED
          BY <2>2, <5>1, <5>2
      <4>2. Len(q) \in 1..(m - 1)
        BY <1>1, <2>2, <3>1, <4>1
      <4>3. QED
        BY <4>2
    <3>3. j \in 1..Len(p) /\ j < Len(p) /\ RankAt(p, j) = RankAt(q, j)
      BY <1>1, <2>2, <3>2
    <3>4. QED
      BY <1>1, <3>2, <3>3, RankFacts
  <2>4. RankAt(p, m) # RankAt(q, m)
    BY <1>1, <2>1, <2>2, <2>3
  <2>5. \A j \in 1..(m - 1) : j < Len(p) /\ j < Len(q)
    BY <1>1, <2>2, <2>3
  <2>6. Differ(p, q, m)
    BY <1>1, <2>2, <2>3, <2>4, <2>5 DEF Differ
  <2>7. QED
    BY <2>2, <2>6
<1>4. QED
  BY <1>2, <1>3

\* Not to be behind is transitive.
LEMMA BehindAll ==
  ASSUME NEW p \in Path, NEW q \in Path, NEW r \in Path, Len(p) > 0, Len(q) > 0, Len(r) > 0,
         ~PathLt(q, p), ~PathLt(r, q)
  PROVE  ~PathLt(r, p)
<1>1. SUFFICES ASSUME PathLt(r, p) PROVE FALSE
  OBVIOUS
<1>2. PICK k : Differ(r, p, k) /\ RankAt(r, k) < RankAt(p, k)
  BY <1>1, DifferLt
<1>3. Len(p) \in Nat /\ Len(q) \in Nat /\ Len(r) \in Nat /\ k \in Nat \ {0} /\ k <= Len(p) /\ k <= Len(r)
  BY <1>2, PathFacts DEF Differ
<1>4. \A j \in 1..k : RankAt(p, j) \in Nat /\ RankAt(r, j) \in Nat
  <2>1. TAKE j \in 1..k
  <2>2. j \in 1..Len(p) /\ j <= Len(r)
    BY <1>3
  <2>3. QED
    BY <2>2, RankFacts
<1>5. CASE k <= Len(q) /\ \A j \in 1..k : RankAt(p, j) = RankAt(q, j)
  <2>1. \A j \in 1..(k - 1) : j < Len(q) /\ j < Len(r) /\ RankAt(r, j) = RankAt(q, j)
    BY <1>2, <1>3, <1>5 DEF Differ
  <2>2. RankAt(r, k) < RankAt(q, k) /\ RankAt(r, k) # RankAt(q, k)
    BY <1>2, <1>3, <1>4, <1>5
  <2>3. Differ(r, q, k)
    BY <1>3, <1>5, <2>1, <2>2 DEF Differ
  <2>4. QED
    BY <2>2, <2>3, DifferLt
<1>6. ASSUME NEW m \in 1..k, Differ(p, q, m)
      PROVE  FALSE
  <2>1. m \in 1..Len(p) /\ m <= Len(q) /\ m <= Len(r)
    BY <1>3, <1>6 DEF Differ
  <2>2. RankAt(q, m) \in Nat /\ RankAt(p, m) \in Nat /\ RankAt(r, m) \in Nat
    BY <1>4, <2>1, RankFacts
  <2>3. RankAt(p, m) < RankAt(q, m)
    <3>1. ~(RankAt(q, m) < RankAt(p, m))
      <4>1. Differ(q, p, m)
        BY <1>6 DEF Differ
      <4>2. QED
        BY <4>1, DifferLt
    <3>2. QED
      BY <1>6, <2>2, <3>1 DEF Differ
  <2>4. RankAt(r, m) <= RankAt(p, m)
    <3>1. m = k \/ m \in 1..(k - 1)
      BY <1>3
    <3>2. QED
      BY <1>2, <2>2, <3>1 DEF Differ
  <2>5. \A j \in 1..(m - 1) : j < Len(r) /\ j < Len(q) /\ RankAt(r, j) = RankAt(q, j)
    <3>1. \A j \in 1..(m - 1) : j \in 1..(k - 1)
      BY <1>3
    <3>2. QED
      BY <1>2, <1>6, <3>1 DEF Differ
  <2>6. RankAt(r, m) < RankAt(q, m) /\ RankAt(r, m) # RankAt(q, m)
    BY <2>2, <2>3, <2>4
  <2>7. Differ(r, q, m)
    BY <1>3, <2>1, <2>5, <2>6 DEF Differ
  <2>8. QED
    BY <2>6, <2>7, DifferLt
<1>7. QED
  BY <1>3, <1>5, <1>6, SameOrDiffer

\* An entry is behind none of those that follow.
LEMMA SortedAll ==
  ASSUME entries \in Seq(Files), IndexSorted, NEW i \in 1..Len(entries), NEW l \in 1..Len(entries), i <= l
  PROVE  ~PathLt(entries[l], entries[i])
<1>1. Len(entries) \in Nat
  BY LenProperties
<1> DEFINE T == {j \in Nat : i <= j /\ j <= Len(entries) /\ PathLt(entries[j], entries[i])}
<1>2. SUFFICES ASSUME T # {} PROVE FALSE
  BY <1>1
<1>3. PICK j \in T : \A k \in T : j <= k
  <2>1. T \subseteq Nat
    OBVIOUS
  <2> HIDE DEF T
  <2>2. QED
    BY <1>2, <2>1, SmallestNat
<1>4. j \in 1..Len(entries)
  BY <1>1
<1>5. \A k \in 1..Len(entries) : entries[k] \in Path /\ Len(entries[k]) > 0
  BY EntryPath
<1>6. CASE j = i
  <2>1. PICK k : Differ(entries[i], entries[i], k)
    BY <1>3, <1>5, <1>6, DifferLt
  <2>2. QED
    BY <2>1 DEF Differ
<1>7. CASE j > i
  <2>1. j - 1 \in 1..(Len(entries) - 1) /\ (j - 1) + 1 = j
    BY <1>1, <1>4, <1>7
  <2>2. ~PathLt(entries[j], entries[j - 1])
    BY <2>1 DEF IndexSorted
  <2>3. ~PathLt(entries[j - 1], entries[i])
    <3>1. j - 1 \notin T
      BY <1>3, <1>4
    <3>2. QED
      BY <1>1, <1>4, <1>7, <2>1, <3>1
  <2>4. j - 1 \in 1..Len(entries)
    BY <1>1, <2>1
  <2>5. ~PathLt(entries[j], entries[i])
    BY <1>4, <1>5, <2>2, <2>3, <2>4, BehindAll
  <2>6. QED
    BY <2>5
<1>8. QED
  BY <1>6, <1>7

\* Of three entries in order, the middle one is in a directory that the others
\* are in.
LEMMA Between ==
  ASSUME NEW d \in Path, NEW p \in Path, NEW q \in Path, NEW r \in Path, Len(q) > 0,
         Under(p, d), Under(r, d), ~PathLt(q, p), ~PathLt(r, q)
  PROVE  Under(q, d)
<1> DEFINE k == Len(d)
<1>1. k \in Nat /\ Len(p) \in Nat /\ Len(q) \in Nat /\ Len(r) \in Nat /\ k < Len(p) /\ k < Len(r)
  BY PathFacts DEF Under
<1>2. \A j \in 1..k : Folded[p[j]] = Folded[d[j]] /\ Folded[r[j]] = Folded[d[j]]
  BY DEF Under, Alike
<1>3. \A j \in 1..k : RankAt(p, j) \in Nat /\ RankAt(p, j) = RankAt(r, j)
  <2>1. TAKE j \in 1..k
  <2>2. j \in 1..Len(p) /\ j <= Len(r) /\ j # Len(p) /\ j # Len(r)
    BY <1>1
  <2>3. QED
    BY <1>2, <2>2, RankFacts
<1>4. CASE k <= Len(q) /\ \A j \in 1..k : RankAt(p, j) = RankAt(q, j)
  <2>1. \A j \in 1..k : Folded[p[j]] = Folded[q[j]] /\ j # Len(q)
    <3>1. TAKE j \in 1..k
    <3>2. j \in 1..Len(p) /\ j <= Len(q) /\ j # Len(p)
      BY <1>1, <1>4
    <3>3. QED
      BY <1>4, <3>2, RankFacts
  <2>2. k # Len(q)
    <3>1. k = 0 \/ k \in 1..k
      BY <1>1
    <3>2. QED
      BY <2>1, <3>1
  <2>3. QED
    BY <1>1, <1>2, <1>4, <2>1, <2>2 DEF Under, Alike
<1>5. ASSUME NEW m \in 1..k, Differ(p, q, m)
      PROVE  FALSE
  <2>1. m \in 1..Len(p) /\ m <= Len(q) /\ m <= Len(r)
    BY <1>1, <1>5 DEF Differ
  <2>2. RankAt(q, m) \in Nat /\ RankAt(p, m) \in Nat /\ RankAt(r, m) = RankAt(p, m)
    BY <1>3, <2>1, RankFacts
  <2>3. RankAt(p, m) < RankAt(q, m)
    <3>1. Differ(q, p, m)
      BY <1>5 DEF Differ
    <3>2. ~(RankAt(q, m) < RankAt(p, m))
      BY <3>1, DifferLt
    <3>3. QED
      BY <1>5, <2>2, <3>2 DEF Differ
  <2>4. \A j \in 1..(m - 1) : j < Len(r) /\ j < Len(q) /\ RankAt(r, j) = RankAt(q, j)
    <3>1. \A j \in 1..(m - 1) : j \in 1..k
      BY <1>1
    <3>2. QED
      BY <1>1, <1>3, <1>5, <3>1 DEF Differ
  <2>5. Differ(r, q, m) /\ RankAt(r, m) < RankAt(q, m)
    BY <1>1, <2>1, <2>2, <2>3, <2>4 DEF Differ
  <2>6. QED
    BY <2>5, DifferLt
<1> HIDE DEF k
<1>6. QED
  BY <1>1, <1>4, <1>5, SameOrDiffer

\* The entries of a directory stand together.
LEMMA StandTogether ==
  ASSUME entries \in Seq(Files), IndexSorted, NEW d \in Path,
         NEW i \in 1..Len(entries), NEW j \in 1..Len(entries), NEW l \in 1..Len(entries), i <= j, j <= l,
         Under(entries[i], d), Under(entries[l], d)
  PROVE  Under(entries[j], d)
<1>1. \A k \in 1..Len(entries) : entries[k] \in Path /\ Len(entries[k]) > 0
  BY EntryPath
<1>2. ~PathLt(entries[j], entries[i]) /\ ~PathLt(entries[l], entries[j])
  BY SortedAll
<1>3. QED
  BY <1>1, <1>2, Between

-----------------------------------------------------------------------------
\* What the next entry leaves of the files of a directory it is not a file of.
LEMMA FilesKept ==
  ASSUME NEW es, NEW dir, NEW dir2, NEW n \in Nat, HasFiles(es, dir, n),
         dir2.path = dir.path, dir2.depth = dir.depth, dir2.files = dir.files,
         ~(Under(es[n + 1], dir.path) /\ Len(es[n + 1]) = dir.depth + 1)
  PROVE  HasFiles(es, dir2, n) /\ HasFiles(es, dir2, n + 1)
<1>1. FilePlaces(es, dir2, n) = FilePlaces(es, dir, n)
  BY DEF FilePlaces
<1>2. FilePlaces(es, dir2, n + 1) = FilePlaces(es, dir, n)
  <2>1. \A i : i \in 1..(n + 1) <=> i \in 1..n \/ i = n + 1
    OBVIOUS
  <2>2. QED
    BY <2>1 DEF FilePlaces
<1>3. QED
  BY <1>1, <1>2 DEF HasFiles

\* A file is put behind the others.
LEMMA FileAdded ==
  ASSUME NEW es, NEW dir \in Node, NEW dir2 \in Node, NEW n \in Nat, HasFiles(es, dir, n),
         dir2.path = dir.path, dir2.depth = dir.depth, dir2.files = Append(dir.files, es[n + 1]),
         es[n + 1] \in Path, Under(es[n + 1], dir.path), Len(es[n + 1]) = dir.depth + 1
  PROVE  HasFiles(es, dir2, n + 1)
<1> DEFINE m == Len(dir.files)
           F == FilePlaces(es, dir, n)
           G == FilePlaces(es, dir2, n + 1)
           e == es[n + 1]
<1>1. /\ dir.files \in Seq(Path) /\ m \in Nat /\ DOMAIN dir.files = 1..m
      /\ DOMAIN dir2.files = 1..(m + 1) /\ dir2.files[m + 1] = e
      /\ \A k \in 1..m : dir2.files[k] = dir.files[k]
  BY LenProperties, AppendProperties DEF Node
<1>2. PICK place \in Bijection(1..m, F) :
         \A k \in 1..m : dir.files[k] = es[place[k]] /\ \A j \in 1..(k - 1) : place[j] < place[k]
  BY <1>1 DEF HasFiles
<1>3. /\ place \in [1..m -> F] /\ \A j, k \in 1..m : place[j] = place[k] => j = k
      /\ \A i \in F : \E k \in 1..m : place[k] = i
  BY <1>2, Fun_BijectionProperties
<1>4. G = F \cup {n + 1} /\ \A i \in F : i \in 1..n
  <2>1. \A i : i \in 1..(n + 1) <=> i \in 1..n \/ i = n + 1
    OBVIOUS
  <2>2. QED
    BY <2>1 DEF FilePlaces
<1> HIDE DEF F, G, m
<1> DEFINE new == [k \in 1..(m + 1) |-> IF k <= m THEN place[k] ELSE n + 1]
<1>5. /\ new \in [1..(m + 1) -> G] /\ new[m + 1] = n + 1
      /\ \A k \in 1..m : k \in 1..(m + 1) /\ new[k] = place[k] /\ place[k] \in 1..n
  <2>1. \A k \in 1..(m + 1) : k <= m => k \in 1..m
    BY <1>1
  <2>2. \A k \in 1..m : place[k] \in F
    BY <1>3
  <2>3. QED
    BY <1>1, <1>4, <2>1, <2>2
<1> HIDE DEF new
<1>6. \A k \in 1..(m + 1) : k \in 1..m \/ k = m + 1
  BY <1>1
<1>7. \A j, k \in 1..(m + 1) : new[j] = new[k] => j = k
  <2>1. TAKE j, k \in 1..(m + 1)
  <2>2. n + 1 \notin 1..n
    OBVIOUS
  <2>3. QED
    BY <1>3, <1>5, <1>6, <2>2
<1>8. \A i \in G : \E k \in 1..(m + 1) : new[k] = i
  BY <1>1, <1>3, <1>4, <1>5
<1>9. new \in Bijection(DOMAIN dir2.files, G)
  BY <1>1, <1>5, <1>7, <1>8 DEF Bijection, Injection, Surjection, IsInjective
<1>10. ASSUME NEW k \in 1..(m + 1)
       PROVE  dir2.files[k] = es[new[k]] /\ \A j \in 1..(k - 1) : new[j] < new[k]
  <2>1. CASE k \in 1..m
    <3>1. \A j \in 1..(k - 1) : j \in 1..m
      BY <1>1
    <3>2. QED
      BY <1>1, <1>2, <1>5, <2>1, <3>1
  <2>2. CASE k = m + 1
    <3>1. \A j \in 1..(k - 1) : j \in 1..m
      BY <1>1, <2>2
    <3>2. \A j \in 1..(k - 1) : new[j] \in 1..n /\ new[j] < n + 1
      BY <1>5, <3>1
    <3>3. QED
      BY <1>1, <1>5, <2>2, <3>2
  <2>3. QED
    BY <1>6, <2>1, <2>2
<1>11. QED
  BY <1>1, <1>9, <1>10 DEF HasFiles, G

\* A directory that the entry is not in.
LEMMA GrownPassed ==
  ASSUME NEW es, NEW dir, NEW n \in Nat, Grown(es, dir, n), ~Under(es[n + 1], dir.path)
  PROVE  Grown(es, dir, n + 1)
<1>1. HasFiles(es, dir, n + 1)
  BY FilesKept DEF Grown
<1>2. \A i : i \in 1..(n + 1) <=> i \in 1..n \/ i = n + 1
  OBVIOUS
<1>3. HasSubdirs(es, dir, n + 1)
  <2>1. HasSubdirs(es, dir, n)
    BY DEF Grown
  <2>2. \A k \in 1..Len(dir.subdirs) : \E i \in 1..(n + 1) : UnderSub(es[i], dir, dir.subdirs[k])
    BY <1>2, <2>1 DEF HasSubdirs
  <2>3. \A i \in 1..(n + 1) : Under(es[i], dir.path) /\ dir.depth + 1 < Len(es[i]) =>
           \E k \in 1..Len(dir.subdirs) : UnderSub(es[i], dir, dir.subdirs[k])
    BY <1>2, <2>1 DEF HasSubdirs
  <2>4. QED
    BY <2>1, <2>2, <2>3 DEF HasSubdirs
<1>4. QED
  BY <1>1, <1>3 DEF Grown

\* A directory with a subdirectory that the entry is in.
LEMMA GrownDeeper ==
  ASSUME NEW es, NEW dir, NEW n \in Nat, Grown(es, dir, n),
         NEW k \in 1..Len(dir.subdirs), UnderSub(es[n + 1], dir, dir.subdirs[k]),
         Len(es[n + 1]) \in Nat
  PROVE  Grown(es, dir, n + 1)
<1>1. HasFiles(es, dir, n + 1)
  <2>1. Len(es[n + 1]) # dir.depth + 1
    BY DEF UnderSub, Grown, Node
  <2>2. QED
    BY <2>1, FilesKept DEF Grown
<1>2. \A i : i \in 1..(n + 1) <=> i \in 1..n \/ i = n + 1
  OBVIOUS
<1>3. HasSubdirs(es, dir, n + 1)
  <2>1. HasSubdirs(es, dir, n)
    BY DEF Grown
  <2>2. \A l \in 1..Len(dir.subdirs) : \E i \in 1..(n + 1) : UnderSub(es[i], dir, dir.subdirs[l])
    BY <1>2, <2>1 DEF HasSubdirs
  <2>3. \A i \in 1..(n + 1) : Under(es[i], dir.path) /\ dir.depth + 1 < Len(es[i]) =>
           \E l \in 1..Len(dir.subdirs) : UnderSub(es[i], dir, dir.subdirs[l])
    BY <1>2, <2>1 DEF HasSubdirs
  <2>4. QED
    BY <2>1, <2>2, <2>3 DEF HasSubdirs
<1>4. QED
  BY <1>1, <1>3 DEF Grown

\* The directory once the entry is put there, as a file or by a subdirectory.
WithEntry(dir, e) ==
    IF dir.depth + 1 < Len(e) THEN [dir EXCEPT !.subdirs = Append(@, e[dir.depth + 1])]
                              ELSE [dir EXCEPT !.files = Append(@, e)]

LEMMA GrownNamed ==
  ASSUME NEW es, NEW dir, NEW n \in Nat, Grown(es, dir, n), NEW e \in Path, e = es[n + 1],
         Under(e, dir.path),
         dir.depth + 1 < Len(e) => \A i \in 1..n : ~UnderSub(es[i], dir, e[dir.depth + 1])
  PROVE  Grown(es, WithEntry(dir, e), n + 1) /\ WithEntry(dir, e).path = dir.path
<1> DEFINE dir2 == WithEntry(dir, e)
<1>1. dir \in Node /\ dir.depth \in Nat /\ dir.depth = Len(dir.path) /\ Len(e) \in Nat /\ dir.depth < Len(e)
  BY PathFacts DEF Grown, Node, Under
<1>2. HasSubdirs(es, dir, n) /\ HasFiles(es, dir, n)
  BY DEF Grown
<1>3. \A i : i \in 1..(n + 1) <=> i \in 1..n \/ i = n + 1
  OBVIOUS
<1>4. CASE dir.depth + 1 < Len(e)
  <2> DEFINE name == e[dir.depth + 1]
             m == Len(dir.subdirs)
  <2>1. name \in AnyName
    <3>1. dir.depth + 1 \in 1..Len(e)
      BY <1>1
    <3>2. QED
      BY <3>1, PathFacts
  <2>2. /\ dir.subdirs \in Seq(AnyName) /\ m \in Nat
        /\ Append(dir.subdirs, name) \in Seq(AnyName) /\ Len(Append(dir.subdirs, name)) = m + 1
        /\ Append(dir.subdirs, name)[m + 1] = name
        /\ \A k \in 1..m : Append(dir.subdirs, name)[k] = dir.subdirs[k]
    <3>1. dir.subdirs \in Seq(AnyName)
      BY <1>1 DEF Node
    <3> HIDE DEF name
    <3>2. QED
      BY <2>1, <3>1, LenProperties, AppendProperties
  <2>3. dir2 = [dir EXCEPT !.subdirs = Append(dir.subdirs, name)]
    BY <1>4 DEF WithEntry
  <2> HIDE DEF dir2, name
  <2>4. /\ dir2 \in Node /\ dir2.path = dir.path /\ dir2.depth = dir.depth /\ dir2.files = dir.files
        /\ dir2.subdirs = Append(dir.subdirs, name)
    BY <1>1, <2>2, <2>3 DEF Node
  <2>5. HasFiles(es, dir2, n + 1)
    <3>1. Len(es[n + 1]) # dir.depth + 1
      BY <1>1, <1>4
    <3>2. QED
      BY <1>2, <2>4, <3>1, FilesKept
  <2>6. /\ Len(dir2.subdirs) = m + 1 /\ dir2.subdirs[m + 1] = name
        /\ \A k \in 1..m : dir2.subdirs[k] = dir.subdirs[k]
        /\ \A x, y : UnderSub(x, dir2, y) <=> UnderSub(x, dir, y)
    BY <2>2, <2>4 DEF UnderSub
  <2> HIDE DEF m
  <2>7. /\ \A k \in 1..(m + 1) : k \in 1..m \/ k = m + 1
        /\ \A k \in 1..m : k \in 1..(m + 1)
        /\ m + 1 \in 1..(m + 1)
    BY <2>2
  <2>8. UnderSub(e, dir, name)
    BY <1>4 DEF UnderSub, name
  <2>9. \A k \in 1..m : Folded[dir.subdirs[k]] # Folded[name]
    <3>1. TAKE k \in 1..m
    <3>2. PICK i \in 1..n : UnderSub(es[i], dir, dir.subdirs[k])
      BY <1>2 DEF HasSubdirs, m
    <3>3. ~UnderSub(es[i], dir, name)
      BY <1>4 DEF name
    <3>4. QED
      BY <3>2, <3>3 DEF UnderSub
  <2>10. \A j, k \in 1..(m + 1) : j # k => Folded[dir2.subdirs[j]] # Folded[dir2.subdirs[k]]
    <3>1. TAKE j, k \in 1..(m + 1)
    <3>2. CASE j \in 1..m /\ k \in 1..m
      BY <1>2, <2>6, <3>2 DEF HasSubdirs, m
    <3>3. QED
      BY <2>6, <2>7, <2>9, <3>2
  <2>11. \A k \in 1..(m + 1) : \E i \in 1..(n + 1) : UnderSub(es[i], dir2, dir2.subdirs[k])
    <3>1. TAKE k \in 1..(m + 1)
    <3>2. CASE k \in 1..m
      <4>1. PICK i \in 1..n : UnderSub(es[i], dir, dir.subdirs[k])
        BY <1>2, <3>2 DEF HasSubdirs, m
      <4>2. QED
        BY <1>3, <2>6, <3>2, <4>1
    <3>3. CASE k = m + 1
      BY <1>3, <2>6, <2>8, <3>3
    <3>4. QED
      BY <2>7, <3>2, <3>3
  <2>12. \A i \in 1..(n + 1) : Under(es[i], dir2.path) /\ dir2.depth + 1 < Len(es[i]) =>
            \E k \in 1..(m + 1) : UnderSub(es[i], dir2, dir2.subdirs[k])
    <3>1. TAKE i \in 1..(n + 1)
    <3>2. CASE i \in 1..n
      <4>1. Under(es[i], dir.path) /\ dir.depth + 1 < Len(es[i]) =>
               \E k \in 1..m : UnderSub(es[i], dir, dir.subdirs[k])
        BY <1>2, <3>2 DEF HasSubdirs, m
      <4>2. QED
        BY <2>4, <2>6, <2>7, <4>1
    <3>3. CASE i = n + 1
      BY <2>6, <2>7, <2>8, <3>3
    <3>4. QED
      BY <1>3, <3>2, <3>3
  <2>13. HasSubdirs(es, dir2, n + 1)
    BY <2>6, <2>10, <2>11, <2>12 DEF HasSubdirs
  <2>14. QED
    BY <1>1, <2>4, <2>5, <2>13 DEF Grown, dir2
<1>5. CASE ~(dir.depth + 1 < Len(e))
  <2>1. Len(e) = dir.depth + 1
    BY <1>1, <1>5
  <2>2. dir2 = [dir EXCEPT !.files = Append(dir.files, e)]
    BY <1>5 DEF WithEntry
  <2> HIDE DEF dir2
  <2>3. Append(dir.files, e) \in Seq(Path)
    BY <1>1, AppendProperties DEF Node
  <2>4. /\ dir2 \in Node /\ dir2.path = dir.path /\ dir2.depth = dir.depth /\ dir2.subdirs = dir.subdirs
        /\ dir2.files = Append(dir.files, e)
    BY <1>1, <2>2, <2>3 DEF Node
  <2>5. HasFiles(es, dir2, n + 1)
    BY <1>1, <1>2, <2>1, <2>4, FileAdded
  <2>6. \A x, y : UnderSub(x, dir2, y) <=> UnderSub(x, dir, y)
    BY <2>4 DEF UnderSub
  <2>7. HasSubdirs(es, dir2, n + 1)
    <3>1. \A k \in 1..Len(dir.subdirs) : \E i \in 1..(n + 1) : UnderSub(es[i], dir, dir.subdirs[k])
      BY <1>2, <1>3 DEF HasSubdirs
    <3>2. \A i \in 1..(n + 1) : Under(es[i], dir.path) /\ dir.depth + 1 < Len(es[i]) =>
             \E k \in 1..Len(dir.subdirs) : UnderSub(es[i], dir, dir.subdirs[k])
      BY <1>2, <1>3, <1>5 DEF HasSubdirs
    <3>3. QED
      BY <1>2, <2>4, <2>6, <3>1, <3>2 DEF HasSubdirs
  <2>8. QED
    BY <1>1, <2>4, <2>5, <2>7 DEF Grown, dir2
<1>6. QED
  BY <1>4, <1>5

\* A directory that none of the entries so far is in.
LEMMA GrownNew ==
  ASSUME NEW es, NEW d \in Path, NEW n \in Nat, \A i \in 1..n : ~Under(es[i], d)
  PROVE  Grown(es, NewDir(d), n)
<1>1. << >> \in Seq(Path) /\ << >> \in Seq(AnyName) /\ Len(<< >>) = 0
  BY EmptySeq
<1>2. /\ NewDir(d) \in Node /\ NewDir(d).path = d /\ NewDir(d).depth = Len(d)
      /\ NewDir(d).files = << >> /\ NewDir(d).subdirs = << >>
  BY <1>1, PathFacts DEF NewDir, Node
<1>3. FilePlaces(es, NewDir(d), n) = {}
  BY <1>2 DEF FilePlaces
<1>4. DOMAIN << >> = {}
  OBVIOUS
<1>5. HasFiles(es, NewDir(d), n)
  <2>1. [k \in {} |-> k] \in Bijection({}, {})
    BY DEF Bijection, Injection, Surjection, IsInjective
  <2>2. QED
    BY <1>2, <1>3, <1>4, <2>1 DEF HasFiles
<1>6. HasSubdirs(es, NewDir(d), n)
  BY <1>1, <1>2 DEF HasSubdirs
<1>7. QED
  BY <1>2, <1>5, <1>6 DEF Grown

-----------------------------------------------------------------------------
\* Names that are different can be put in order.
LEMMA OrderExists ==
  ASSUME NEW n \in Nat, NEW r \in [1..n -> Nat], \A j, k \in 1..n : r[j] = r[k] => j = k
  PROVE  \E p \in Bijection(1..n, 1..n) : \A j, k \in 1..n : j < k => r[p[j]] < r[p[k]]
<1> DEFINE D == 1..n
           Lower(k) == {j \in D : r[j] < r[k]}
           c == [k \in D |-> Cardinality(Lower(k)) + 1]
<1>1. IsFiniteSet(D) /\ Cardinality(D) = n
  BY FS_Interval
<1>2. \A k \in D : r[k] \in Nat
  OBVIOUS
<1>3. ASSUME NEW k \in D
      PROVE  /\ IsFiniteSet(Lower(k)) /\ Cardinality(Lower(k)) \in Nat /\ Cardinality(Lower(k)) < n
             /\ \A j \in D : r[j] < r[k] => Cardinality(Lower(j)) < Cardinality(Lower(k))
  <2>1. Lower(k) \subseteq D /\ k \notin Lower(k) /\ Lower(k) # D
    BY <1>2
  <2>2. /\ IsFiniteSet(Lower(k)) /\ Cardinality(Lower(k)) \in Nat
        /\ Cardinality(Lower(k)) <= n /\ Cardinality(Lower(k)) # n
    <3> HIDE DEF D, Lower
    <3>1. QED
      BY <1>1, <2>1, FS_Subset, FS_CardinalityType
  <2>3. ASSUME NEW j \in D, r[j] < r[k]
        PROVE  Cardinality(Lower(j)) < Cardinality(Lower(k))
    <3>1. Lower(j) \subseteq Lower(k) /\ j \in Lower(k) /\ j \notin Lower(j)
      BY <1>2, <2>3
    <3>2. Lower(j) # Lower(k)
      BY <3>1
    <3> HIDE DEF Lower
    <3>3. /\ IsFiniteSet(Lower(j)) /\ Cardinality(Lower(j)) <= Cardinality(Lower(k))
          /\ Cardinality(Lower(j)) # Cardinality(Lower(k))
      BY <2>2, <3>1, <3>2, FS_Subset
    <3>4. Cardinality(Lower(j)) \in Nat
      BY <3>3, FS_CardinalityType
    <3>5. QED
      BY <2>2, <3>3, <3>4
  <2>4. QED
    BY <2>2, <2>3
<1> HIDE DEF Lower
<1>4. \A k \in D : c[k] = Cardinality(Lower(k)) + 1 /\ c[k] \in D
  BY <1>3
<1>5. \A j, k \in D : r[j] < r[k] => c[j] < c[k]
  <2>1. TAKE j, k \in D
  <2>2. Cardinality(Lower(j)) \in Nat /\ Cardinality(Lower(k)) \in Nat
    BY <1>3
  <2>3. QED
    BY <1>3, <1>4, <2>2
<1>6. c \in [D -> D]
  BY <1>4
<1> HIDE DEF c
<1>7. \A j, k \in D : c[j] = c[k] => j = k
  <2>1. TAKE j, k \in D
  <2>2. r[j] < r[k] \/ r[k] < r[j] \/ r[j] = r[k]
    BY <1>2
  <2>3. c[j] \in D /\ c[k] \in D
    BY <1>6
  <2>4. QED
    BY <1>5, <2>2, <2>3
<1>8. c \in Injection(D, D)
  BY <1>6, <1>7 DEF Injection, IsInjective
<1>9. c \in Bijection(D, D)
  <2> HIDE DEF D
  <2>1. c \in Surjection(D, D)
    BY <1>1, <1>8, FS_Injection
  <2>2. QED
    BY <1>8, <2>1 DEF Bijection
<1> DEFINE p == Inverse(c, D, D)
<1>10. p \in Bijection(D, D) /\ \A s \in D : p[c[s]] = s
  <2> HIDE DEF D
  <2>1. QED
    BY <1>9, Fun_BijInverse
<1> HIDE DEF p
<1>11. ASSUME NEW j \in D, NEW k \in D, j < k
       PROVE  r[p[j]] < r[p[k]]
  <2>1. PICK a \in D, b \in D : c[a] = j /\ c[b] = k
    BY <1>9 DEF Bijection, Surjection
  <2>2. p[j] = a /\ p[k] = b
    BY <1>10, <2>1
  <2>3. r[a] < r[b] \/ r[b] < r[a] \/ r[a] = r[b]
    BY <1>2
  <2>4. QED
    BY <1>5, <1>11, <2>1, <2>2, <2>3
<1>12. QED
  BY <1>10, <1>11

\* SortedNames finds that order.
LEMMA NamesSorted ==
  ASSUME NEW names \in Seq(AnyName),
         \A j, k \in 1..Len(names) : j # k => Folded[names[j]] # Folded[names[k]]
  PROVE  \E p \in Bijection(1..Len(names), 1..Len(names)) :
            /\ SortedNames(names) = [k \in 1..Len(names) |-> names[p[k]]]
            /\ \A j, k \in 1..Len(names) : j < k => NameLt(names[p[j]], names[p[k]])
<1> DEFINE n == Len(names)
           D == 1..n
           r == [k \in D |-> NameRank[names[k]]]
           Sorts(s) == \A j, k \in D : j < k => ~NameLt(s[k], s[j])
<1>1. n \in Nat /\ DOMAIN names = D /\ \A k \in D : names[k] \in AnyName
  BY LenProperties, ElementOfSeq
<1>2. r \in [D -> Nat] /\ \A k \in D : r[k] = NameRank[names[k]]
  BY <1>1, TreeAssumption DEF AnyName
<1>3. \A j, k \in D : r[j] = r[k] => j = k
  BY <1>1, <1>2, TreeAssumption DEF AnyName
<1> HIDE DEF r
<1>4. PICK p \in Bijection(D, D) : \A j, k \in D : j < k => r[p[j]] < r[p[k]]
  <2> HIDE DEF n
  <2>1. QED
    BY <1>1, <1>2, <1>3, OrderExists
<1> DEFINE S == {[k \in D |-> names[q[k]]] : q \in Bijection(D, D)}
<1>5. \A q \in Bijection(D, D) : q \in [D -> D]
  BY Fun_BijectionProperties
<1>6. [k \in D |-> names[p[k]]] \in S /\ Sorts([k \in D |-> names[p[k]]])
  <2>1. [k \in D |-> names[p[k]]] \in S
    OBVIOUS
  <2>2. ASSUME NEW j \in D, NEW k \in D, j < k
        PROVE  ~NameLt(names[p[k]], names[p[j]])
    <3>1. p[j] \in D /\ p[k] \in D /\ r[p[j]] < r[p[k]] /\ r[p[j]] \in Nat /\ r[p[k]] \in Nat
      BY <1>2, <1>4, <1>5, <2>2
    <3>2. QED
      BY <1>2, <3>1 DEF NameLt
  <2>3. QED
    BY <2>1, <2>2
<1>7. SortedNames(names) = CHOOSE s \in S : Sorts(s)
  BY <1>1 DEF SortedNames
<1> HIDE DEF Sorts, S
<1>8. SortedNames(names) \in S /\ Sorts(SortedNames(names))
  <2>1. \E s \in S : Sorts(s)
    BY <1>6
  <2>2. QED
    BY <1>7, <2>1, Zenon
<1>9. PICK q \in Bijection(D, D) : SortedNames(names) = [k \in D |-> names[q[k]]]
  BY <1>8 DEF S
<1>10. ASSUME NEW j \in D, NEW k \in D, j < k
       PROVE  NameLt(names[q[j]], names[q[k]])
  <2>1. q[j] \in D /\ q[k] \in D /\ q[j] # q[k]
    <3>1. \A x, y \in D : q[x] = q[y] => x = y
      BY <1>9 DEF Bijection, Injection, IsInjective
    <3>2. j # k
      BY <1>1, <1>10
    <3>3. QED
      BY <1>5, <1>9, <1>10, <3>1, <3>2
  <2>2. ~NameLt(names[q[k]], names[q[j]])
    BY <1>8, <1>9, <1>10 DEF Sorts
  <2>3. r[q[j]] \in Nat /\ r[q[k]] \in Nat /\ r[q[j]] # r[q[k]]
    BY <1>2, <1>3, <2>1
  <2>4. QED
    BY <1>2, <2>1, <2>2, <2>3 DEF NameLt
<1>11. QED
  BY <1>9, <1>10

\* Popping a directory only puts its subdirectories in order.
LEMMA GrownPopped ==
  ASSUME NEW es, NEW dir, NEW n \in Nat, Grown(es, dir, n)
  PROVE  Grown(es, Popped(dir), n) /\ InNameOrder(Popped(dir)) /\ Popped(dir).path = dir.path
<1> DEFINE names == dir.subdirs
           m == Len(names)
           dir2 == Popped(dir)
<1>1. dir \in Node /\ HasFiles(es, dir, n) /\ HasSubdirs(es, dir, n) /\ dir.depth = Len(dir.path)
  BY DEF Grown
<1>2. names \in Seq(AnyName) /\ m \in Nat /\ \A k \in 1..m : names[k] \in AnyName
  <2>1. names \in Seq(AnyName)
    BY <1>1 DEF Node
  <2>2. QED
    BY <2>1, LenProperties, ElementOfSeq
<1>3. PICK p \in Bijection(1..m, 1..m) :
         /\ SortedNames(names) = [k \in 1..m |-> names[p[k]]]
         /\ \A j, k \in 1..m : j < k => NameLt(names[p[j]], names[p[k]])
  BY <1>1, <1>2, NamesSorted DEF HasSubdirs
<1>4. /\ p \in [1..m -> 1..m] /\ \A j, k \in 1..m : p[j] = p[k] => j = k
      /\ \A i \in 1..m : \E k \in 1..m : p[k] = i
  BY DEF Bijection, Injection, Surjection, IsInjective
<1> DEFINE new == [k \in 1..m |-> names[p[k]]]
<1>5. new \in Seq(AnyName) /\ Len(new) = m /\ \A k \in 1..m : new[k] = names[p[k]]
  <2>1. new \in [1..m -> AnyName]
    BY <1>2, <1>4
  <2>2. \A k \in 1..m : new[k] = names[p[k]]
    OBVIOUS
  <2> HIDE DEF new
  <2>3. new \in Seq(AnyName)
    BY <1>2, <2>1, SeqDef
  <2>4. DOMAIN new = 1..m /\ DOMAIN new = 1..Len(new) /\ Len(new) \in Nat
    BY <2>1, <2>3, LenProperties
  <2>5. QED
    BY <1>2, <2>2, <2>3, <2>4
<1>6. dir2 = [dir EXCEPT !.subdirs = new]
  BY <1>3 DEF Popped
<1> HIDE DEF new, dir2
<1>7. /\ dir2 \in Node /\ dir2.path = dir.path /\ dir2.depth = dir.depth /\ dir2.files = dir.files
      /\ dir2.subdirs = new
  BY <1>1, <1>5, <1>6 DEF Node
<1>8. HasFiles(es, dir2, n)
  <2>1. FilePlaces(es, dir2, n) = FilePlaces(es, dir, n)
    BY <1>7 DEF FilePlaces
  <2>2. QED
    BY <1>1, <1>7, <2>1 DEF HasFiles
<1>9. \A x, y : UnderSub(x, dir2, y) <=> UnderSub(x, dir, y)
  BY <1>7 DEF UnderSub
<1>10. \A j, k \in 1..m : j # k => Folded[new[j]] # Folded[new[k]]
  <2>1. TAKE j, k \in 1..m
  <2>2. p[j] \in 1..m /\ p[k] \in 1..m
    BY <1>4
  <2>3. SUFFICES ASSUME j # k PROVE Folded[names[p[j]]] # Folded[names[p[k]]]
    BY <1>5
  <2>4. p[j] # p[k]
    BY <1>4, <2>3
  <2>5. \A x, y \in 1..m : x # y => Folded[names[x]] # Folded[names[y]]
    BY <1>1 DEF HasSubdirs
  <2>6. QED
    BY <2>2, <2>4, <2>5
<1>11. \A k \in 1..m : \E i \in 1..n : UnderSub(es[i], dir2, new[k])
  <2>1. TAKE k \in 1..m
  <2>2. p[k] \in 1..m
    BY <1>4
  <2>3. QED
    BY <1>1, <1>5, <1>9, <2>2 DEF HasSubdirs
<1>12. \A i \in 1..n : Under(es[i], dir2.path) /\ dir2.depth + 1 < Len(es[i]) =>
          \E k \in 1..m : UnderSub(es[i], dir2, new[k])
  <2>1. TAKE i \in 1..n
  <2>2. SUFFICES ASSUME Under(es[i], dir.path), dir.depth + 1 < Len(es[i])
                 PROVE  \E k \in 1..m : UnderSub(es[i], dir2, new[k])
    BY <1>7
  <2>3. PICK l \in 1..m : UnderSub(es[i], dir, names[l])
    BY <1>1, <2>2 DEF HasSubdirs
  <2>4. PICK k \in 1..m : p[k] = l
    BY <1>4
  <2>5. QED
    BY <1>5, <1>9, <2>3, <2>4
<1>13. HasSubdirs(es, dir2, n)
  BY <1>5, <1>7, <1>10, <1>11, <1>12 DEF HasSubdirs
<1>14. InNameOrder(dir2)
  <2>1. ASSUME NEW k \in 1..(m - 1)
        PROVE  NameLt(new[k], new[k + 1])
    <3>1. k \in 1..m /\ k + 1 \in 1..m /\ k < k + 1
      BY <1>2
    <3>2. QED
      BY <1>3, <1>5, <3>1
  <2>2. QED
    BY <1>5, <1>7, <2>1 DEF InNameOrder
<1>15. QED
  BY <1>1, <1>7, <1>8, <1>13, <1>14 DEF Grown, dir2

-----------------------------------------------------------------------------
\* The directories on the stack are the ones kept, the one both entries are
\* in, and new ones.
LEMMA AddEntryTop ==
  ASSUME Stacked, AddEntry, NEW path \in Path, path = entries[next + 1], path # << >>,
         NEW common, common = CommonDir(Last(stack).path, path)
  PROVE  \A j \in 1..Len(path) :
            /\ j <= common => stack'[j] = stack[j]
            /\ j = common + 1 => stack'[j] = WithEntry(stack[j], path)
            /\ j > common + 1 => stack'[j] = WithEntry(NewDir(SubSeq(path, 1, j - 1)), path)
<1> DEFINE depth == Len(path) - 1
           Named(dir, k) == IF k < depth THEN [dir EXCEPT !.subdirs = Append(@, path[k + 1])]
                                         ELSE [dir EXCEPT !.files = Append(@, path)]
           At(j) == IF j <= common THEN stack[j]
                    ELSE IF j = common + 1 THEN Named(stack[j], common)
                    ELSE Named(NewDir(SubSeq(path, 1, j - 1)), j - 1)
<1>1. Len(path) \in Nat \ {0} /\ depth + 1 = Len(path)
  BY PathFacts, EmptySeq DEF Path
<1>2. common \in Nat /\ common + 1 \in 1..Len(stack)
  BY AddEntryStack
<1>3. stack' = [j \in 1..(depth + 1) |-> At(j)]
  BY DEF AddEntry
<1>4. \A j \in 1..Len(path) : stack'[j] = At(j)
  <2> HIDE DEF At
  <2>1. QED
    BY <1>1, <1>3
<1>5. ASSUME NEW dir, NEW k \in Nat, dir.depth = k
      PROVE  Named(dir, k) = WithEntry(dir, path)
  BY <1>1, <1>5 DEF WithEntry
<1> HIDE DEF Named
<1>6. ASSUME NEW j \in 1..Len(path)
      PROVE  /\ j <= common => At(j) = stack[j]
             /\ j = common + 1 => At(j) = WithEntry(stack[j], path)
             /\ j > common + 1 => At(j) = WithEntry(NewDir(SubSeq(path, 1, j - 1)), path)
  <2>1. CASE j = common + 1
    <3>1. stack[j].depth = common
      BY <1>2, <2>1 DEF Stacked, IsDir
    <3>2. Named(stack[j], common) = WithEntry(stack[j], path)
      BY <1>2, <1>5, <3>1
    <3>3. QED
      BY <1>2, <2>1, <3>2
  <2>2. CASE j > common + 1
    <3>1. j - 1 \in 0..Len(path) /\ j - 1 \in Nat
      BY <1>1
    <3>2. NewDir(SubSeq(path, 1, j - 1)).depth = j - 1
      BY <3>1, FrontOf DEF NewDir
    <3>3. Named(NewDir(SubSeq(path, 1, j - 1)), j - 1) = WithEntry(NewDir(SubSeq(path, 1, j - 1)), path)
      BY <1>5, <3>1, <3>2
    <3>4. QED
      BY <1>2, <2>2, <3>3
  <2>3. CASE j <= common
    BY <1>2, <2>3
  <2>4. QED
    BY <1>2, <2>1, <2>2, <2>3
<1> HIDE DEF At
<1>7. QED
  BY <1>4, <1>6

\* What is in dirs_ once the stack is popped down to depth k, and where on the
\* stack the i-th of them was.
PlaceOf(i) == Len(dirs_) + Len(stack) + 1 - i
LEMMA PopsAre ==
  ASSUME Stacked, Popping, NEW k \in 0..Len(stack), NEW all, all = dirs_ \o PopTo(k)
  PROVE  /\ Len(all) = Len(dirs_) + (Len(stack) - k) /\ Len(all) \in Nat
         /\ \A i \in 1..Len(dirs_) : i \in 1..Len(all) /\ all[i] = dirs_[i]
         /\ \A h \in (k + 1)..Len(stack) : \E i \in 1..Len(all) :
               i \notin 1..Len(dirs_) /\ h = PlaceOf(i) /\ all[i] = Popped(stack[h])
         /\ \A i \in 1..Len(all) : i \notin 1..Len(dirs_) =>
               PlaceOf(i) \in (k + 1)..Len(stack) /\ all[i] = Popped(stack[PlaceOf(i)])
<1> DEFINE s == PopTo(k)
           n == Len(dirs_)
           m == Len(stack) - k
<1>1. Len(stack) \in Nat /\ n \in Nat /\ m \in Nat
  BY DEF Stacked, Popping
<1>2. s \in Seq(Range(s)) /\ Len(s) = m
  BY PopToFacts
<1>3. s = [j \in 1..m |-> Popped(stack[Len(stack) + 1 - j])]
  BY DEF PopTo
<1> DEFINE R == Range(dirs_) \cup Range(s)
<1>4. dirs_ \in Seq(R) /\ s \in Seq(R)
  BY <1>2, SeqMonotonic DEF Popping
<1> HIDE DEF R, s
<1>5. /\ Len(all) = n + m
      /\ \A i \in 1..(n + m) : all[i] = IF i <= n THEN dirs_[i] ELSE s[i - n]
  BY <1>2, <1>4, ConcatProperties DEF s
<1>6. \A i \in 1..n : i \in 1..(n + m) /\ all[i] = dirs_[i]
  BY <1>1, <1>5
<1>7. ASSUME NEW i \in (n + 1)..(n + m)
      PROVE  all[i] = Popped(stack[n + Len(stack) + 1 - i])
  <2>1. i \in 1..(n + m) /\ ~(i <= n) /\ i - n \in 1..m
    BY <1>1
  <2>2. all[i] = s[i - n]
    BY <1>5, <2>1
  <2>3. Len(stack) + 1 - (i - n) = n + Len(stack) + 1 - i
    BY <1>1
  <2>4. s[i - n] = Popped(stack[Len(stack) + 1 - (i - n)])
    BY <1>3, <2>1
  <2>5. QED
    BY <2>2, <2>3, <2>4
<1>8. ASSUME NEW h \in (k + 1)..Len(stack)
      PROVE  \E i \in 1..(n + m) : i \notin 1..n /\ h = PlaceOf(i) /\ all[i] = Popped(stack[h])
  <2>1. PICK i \in (n + 1)..(n + m) : i = n + Len(stack) + 1 - h
    <3>1. n + Len(stack) + 1 - h \in (n + 1)..(n + m)
      BY <1>1
    <3>2. QED
      BY <3>1
  <2>2. i \in 1..(n + m) /\ i \notin 1..n /\ h = n + Len(stack) + 1 - i
    BY <1>1, <2>1
  <2>3. QED
    BY <1>7, <2>2 DEF PlaceOf
<1>9. ASSUME NEW i \in 1..(n + m), i \notin 1..n
      PROVE  PlaceOf(i) \in (k + 1)..Len(stack) /\ all[i] = Popped(stack[PlaceOf(i)])
  <2>1. i \in (n + 1)..(n + m)
    BY <1>1, <1>9
  <2>2. n + Len(stack) + 1 - i \in (k + 1)..Len(stack)
    BY <1>1, <2>1
  <2>3. QED
    BY <1>7, <2>1, <2>2 DEF PlaceOf
<1>10. Len(all) = n + m /\ n + m \in Nat
  BY <1>1, <1>5
<1> HIDE DEF n, m
<1>11. QED
  BY <1>6, <1>8, <1>9, <1>10 DEF n, m

LEMMA PoppedFrom ==
  ASSUME Stacked, Popping, NEW k \in 0..Len(stack), NEW all, all = dirs_ \o PopTo(k)
  PROVE  \A i \in 1..Len(all) : i \notin 1..Len(dirs_) =>
            PlaceOf(i) \in (k + 1)..Len(stack) /\ all[i] = Popped(stack[PlaceOf(i)])
BY PopsAre

LEMMA PoppedTo ==
  ASSUME Stacked, Popping, NEW k \in 0..Len(stack), NEW all, all = dirs_ \o PopTo(k),
         NEW h \in (k + 1)..Len(stack)
  PROVE  \E i \in 1..Len(all) : all[i] = Popped(stack[h])
<1> DEFINE i == Len(dirs_) + Len(stack) + 1 - h
<1>1. Len(stack) \in Nat /\ Len(dirs_) \in Nat /\ Len(all) = Len(dirs_) + (Len(stack) - k)
  BY PopsAre DEF Stacked, Popping
<1>2. i \in 1..Len(all) /\ i \notin 1..Len(dirs_) /\ PlaceOf(i) = h
  BY <1>1 DEF PlaceOf
<1>3. all[i] = Popped(stack[PlaceOf(i)])
  BY <1>2, PoppedFrom
<1>4. QED
  BY <1>2, <1>3

\* The same entries are in directories of the same name.
LEMMA SameUnder ==
  ASSUME NEW d \in Path, NEW d2 \in Path, NEW e \in Path, Len(d2) = Len(d), Alike(d, d2, Len(d))
  PROVE  Under(e, d) <=> Under(e, d2)
<1>1. Len(d) \in Nat /\ Alike(d2, d, Len(d))
  BY PathFacts, AlikeAll
<1>2. ASSUME Under(e, d) PROVE Under(e, d2)
  BY <1>1, <1>2, AlikeAll DEF Under
<1>3. ASSUME Under(e, d2) PROVE Under(e, d)
  BY <1>1, <1>3, AlikeAll DEF Under
<1>4. QED
  BY <1>2, <1>3

\* No entry so far is in a directory that is new, and the next one is in none
\* that is popped.
LEMMA NextApart ==
  ASSUME Stacked, Growing, entries \in Seq(Files), next \in Nat, next < Len(entries),
         NEW e, e = entries[next + 1], NEW common, common = CommonDir(Last(stack).path, e)
  PROVE  /\ e \in Path \ {<< >>} /\ common \in Nat /\ common + 1 <= Len(stack) /\ common < Len(e)
         /\ \A j \in 1..Len(stack) : j <= common + 1 => Alike(stack[j].path, e, j - 1)
         /\ \A j \in 1..Len(stack) : j > common + 1 => ~Under(e, stack[j].path)
         /\ \A d \in Path : common < Len(d) /\ Len(d) < Len(e) /\ Alike(d, e, Len(d)) =>
               \A i \in 1..next : ~Under(entries[i], d)
         /\ \A d \in 1..Len(dirs_) : ~Under(e, dirs_[d].path)
         /\ common > 0 => /\ next \in 1..Len(entries) /\ common < Len(entries[next])
                          /\ Alike(entries[next], e, common)
<1> DEFINE bottom == stack[Len(stack)].path
<1>1. Len(entries) \in Nat /\ next + 1 \in 1..Len(entries)
  BY LenProperties
<1>2. e \in Path /\ Len(e) \in Nat \ {0} /\ e # << >>
  BY <1>1, EntryPath, EmptySeq
<1>3. Len(stack) \in Nat \ {0} /\ bottom \in Path /\ Len(bottom) = Len(stack) - 1 /\ bottom = Last(stack).path
  BY DEF Stacked, IsDir, Last
<1> HIDE DEF bottom
<1>4. /\ common \in 0..Len(bottom) /\ common < Len(e) /\ Alike(bottom, e, common)
      /\ common < Len(bottom) /\ common + 1 < Len(e) => Folded[bottom[common + 1]] # Folded[e[common + 1]]
  BY <1>2, <1>3, CommonOf
<1>5. common \in Nat /\ common + 1 <= Len(stack)
  BY <1>3, <1>4
<1>6. ASSUME NEW j \in 1..Len(stack)
      PROVE  /\ stack[j].path \in Path /\ Len(stack[j].path) = j - 1
             /\ Alike(stack[j].path, bottom, j - 1) /\ j - 1 \in Nat
  BY <1>3 DEF Stacked, IsDir, bottom
<1>7. ASSUME NEW j \in 1..Len(stack), j <= common + 1
      PROVE  Alike(stack[j].path, e, j - 1)
  <2>1. j - 1 <= common
    BY <1>5, <1>7
  <2>2. PICK k \in Nat, p \in Path : k = j - 1 /\ p = stack[j].path /\ Alike(p, bottom, k)
    BY <1>6
  <2>3. Alike(bottom, e, k)
    BY <1>2, <1>3, <1>4, <1>5, <2>1, <2>2, AlikeAll
  <2>4. Alike(p, e, k)
    BY <1>2, <1>3, <2>2, <2>3, AlikeAll
  <2>5. QED
    BY <2>2, <2>4
<1>8. ASSUME NEW k \in Nat, common < k, k <= Len(bottom), k < Len(e), Alike(bottom, e, k)
      PROVE  FALSE
  <2>1. common + 1 \in 1..k /\ common < Len(bottom) /\ common + 1 < Len(e)
    BY <1>2, <1>3, <1>5, <1>8
  <2>2. Folded[bottom[common + 1]] = Folded[e[common + 1]]
    BY <1>8, <2>1 DEF Alike
  <2>3. QED
    BY <1>4, <2>1, <2>2
<1>9. ASSUME NEW j \in 1..Len(stack), j > common + 1, Under(e, stack[j].path)
      PROVE  FALSE
  <2>1. PICK k \in Nat, p \in Path : k = j - 1 /\ p = stack[j].path /\ Len(p) = k /\ Alike(p, bottom, k)
    BY <1>6
  <2>2. common < k /\ k <= Len(bottom)
    BY <1>3, <1>5, <1>9, <2>1
  <2>3. k < Len(e) /\ Alike(p, e, k)
    BY <1>9, <2>1 DEF Under
  <2>4. Alike(bottom, p, k)
    BY <1>3, <2>1, AlikeAll
  <2>5. Alike(bottom, e, k)
    BY <1>2, <1>3, <2>1, <2>3, <2>4, AlikeAll
  <2>6. QED
    BY <1>8, <2>2, <2>3, <2>5
<1>10. ASSUME next > 0
       PROVE  /\ next \in 1..Len(entries) /\ entries[next] \in Path
              /\ Len(entries[next]) = Len(stack) /\ Alike(bottom, entries[next], Len(bottom))
  <2>1. next \in 1..Len(entries)
    BY <1>1, <1>10
  <2>2. Len(stack) = Len(entries[next]) /\ DirOfPath(stack[Len(stack)], entries[next], Len(stack) - 1)
    BY <1>3, <1>10 DEF Growing
  <2>3. QED
    BY <1>3, <2>1, <2>2, EntryPath DEF DirOfPath, bottom
<1>11. ASSUME NEW d \in Path, common < Len(d), Len(d) < Len(e), Alike(d, e, Len(d)),
              NEW i \in 1..next, Under(entries[i], d)
       PROVE  FALSE
  <2>1. next > 0 /\ i \in 1..Len(entries) /\ next \in 1..Len(entries) /\ i <= next /\ next <= next + 1
    BY <1>1
  <2>2. Under(e, d)
    BY <1>11 DEF Under
  <2>3. Under(entries[next], d)
    BY <1>1, <1>11, <2>1, <2>2, StandTogether DEF Growing
  <2>4. Len(d) \in Nat /\ Len(d) <= Len(bottom) /\ Alike(d, entries[next], Len(d))
    BY <1>3, <1>10, <2>1, <2>3, PathFacts DEF Under
  <2>5. Alike(bottom, entries[next], Len(d))
    BY <1>3, <1>10, <2>1, <2>4, AlikeAll
  <2>6. Alike(entries[next], d, Len(d))
    BY <1>10, <2>1, <2>4, AlikeAll
  <2>7. Alike(bottom, d, Len(d))
    BY <1>3, <1>10, <2>1, <2>4, <2>5, <2>6, AlikeAll
  <2>8. Alike(bottom, e, Len(d))
    BY <1>2, <1>3, <1>11, <2>4, <2>7, AlikeAll
  <2>9. QED
    BY <1>8, <1>11, <2>4, <2>8
<1>12. ASSUME NEW d \in 1..Len(dirs_), Under(e, dirs_[d].path)
       PROVE  FALSE
  <2>1. Grown(entries, dirs_[d], next) /\ LeftBehind(entries, dirs_[d], next)
    BY DEF Growing
  <2>2. dirs_[d].path \in Path
    BY <2>1 DEF Grown, Node
  <2>3. PICK i \in 1..next : Under(entries[i], dirs_[d].path)
    BY <2>1 DEF LeftBehind
  <2>4. i \in 1..Len(entries) /\ next \in 1..Len(entries) /\ i <= next /\ next <= next + 1
    BY <1>1
  <2>5. Under(entries[next], dirs_[d].path)
    BY <1>1, <1>12, <2>2, <2>3, <2>4, StandTogether DEF Growing
  <2>6. QED
    BY <2>1, <2>5 DEF LeftBehind
<1>13. ASSUME common > 0
       PROVE  /\ next \in 1..Len(entries) /\ common < Len(entries[next])
              /\ Alike(entries[next], e, common)
  <2>1. next > 0
    <3>1. PICK c \in Nat, m \in Nat : c = common /\ m = Len(stack) /\ c > 0 /\ c + 1 <= m
      BY <1>3, <1>5, <1>13
    <3>2. m # 1
      BY <3>1
    <3>3. QED
      BY <3>1, <3>2 DEF Growing
  <2>2. common < Len(entries[next]) /\ common <= Len(bottom)
    BY <1>3, <1>5, <1>10, <2>1
  <2>3. Alike(bottom, entries[next], common)
    BY <1>3, <1>5, <1>10, <2>1, <2>2, AlikeAll
  <2>4. Alike(entries[next], bottom, common)
    BY <1>3, <1>5, <1>10, <2>1, <2>3, AlikeAll
  <2>5. Alike(entries[next], e, common)
    BY <1>2, <1>3, <1>4, <1>5, <1>10, <2>1, <2>4, AlikeAll
  <2>6. QED
    BY <1>10, <2>1, <2>2, <2>5
<1>14. \A j \in 1..Len(stack) : j > common + 1 => ~Under(e, stack[j].path)
  BY <1>9
<1>15. \A d \in Path : common < Len(d) /\ Len(d) < Len(e) /\ Alike(d, e, Len(d)) =>
          \A i \in 1..next : ~Under(entries[i], d)
  BY <1>11
<1>16. \A d \in 1..Len(dirs_) : ~Under(e, dirs_[d].path)
  BY <1>12
<1>17. \A j \in 1..Len(stack) : j <= common + 1 => Alike(stack[j].path, e, j - 1)
  BY <1>7
<1>18. common > 0 => /\ next \in 1..Len(entries) /\ common < Len(entries[next])
                     /\ Alike(entries[next], e, common)
  BY <1>13
<1>19. e \in Path \ {<< >>} /\ common \in Nat /\ common + 1 <= Len(stack) /\ common < Len(e)
  BY <1>2, <1>4, <1>5
<1>20. QED
  BY <1>14, <1>15, <1>16, <1>17, <1>18, <1>19

\* What the directories on the stack hold once the next entry is there.
LEMMA StackGrows ==
  ASSUME Stacked, Growing, AddEntry, entries \in Seq(Files), next \in Nat
  PROVE  \A j \in 1..Len(stack') : Grown(entries, stack'[j], next + 1)
<1> DEFINE e == entries[next + 1]
           n == next
<1>1. PICK common : common = CommonDir(Last(stack).path, e)
  OBVIOUS
<1>2. next < Len(entries)
  BY DEF AddEntry
<1>3. e \in Path \ {<< >>} /\ common \in Nat /\ common + 1 <= Len(stack) /\ common < Len(e)
  BY <1>1, <1>2, NextApart
<1>4. \A d \in Path : common < Len(d) /\ Len(d) < Len(e) /\ Alike(d, e, Len(d)) =>
         \A i \in 1..n : ~Under(entries[i], d)
  BY <1>1, <1>2, NextApart
<1>5. \A j \in 1..Len(stack) : j <= common + 1 => Alike(stack[j].path, e, j - 1)
  BY <1>1, <1>2, NextApart
<1>6. common > 0 => n \in 1..Len(entries) /\ common < Len(entries[n]) /\ Alike(entries[n], e, common)
  BY <1>1, <1>2, NextApart
<1>7. Len(stack') = Len(e)
  BY <1>1, <1>3, AddEntryStack
<1>8. \A j \in 1..Len(e) :
         /\ j <= common => stack'[j] = stack[j]
         /\ j = common + 1 => stack'[j] = WithEntry(stack[j], e)
         /\ j > common + 1 => stack'[j] = WithEntry(NewDir(SubSeq(e, 1, j - 1)), e)
  BY <1>1, <1>3, AddEntryTop
<1>9. Len(e) \in Nat /\ Len(stack) \in Nat /\ e = entries[n + 1]
  BY <1>3, PathFacts DEF Stacked
<1> HIDE DEF e
<1>10. ASSUME NEW j \in 1..Len(stack)
       PROVE  /\ Grown(entries, stack[j], n) /\ stack[j].depth = j - 1 /\ Len(stack[j].path) = j - 1
              /\ stack[j].path \in Path
  BY DEF Growing, Stacked, IsDir
<1>11. ASSUME NEW j \in 1..Len(e), j <= common
       PROVE  Grown(entries, stack[j], n + 1)
  <2>1. j \in 1..Len(stack) /\ j <= common + 1 /\ common > 0 /\ j - 1 \in Nat /\ j - 1 <= common
    BY <1>3, <1>9, <1>11
  <2>2. PICK p \in Path, q \in Path : p = stack[j].path /\ q = entries[n]
    BY <1>6, <1>10, <2>1, EntryPath
  <2>3. Len(p) = j - 1 /\ Alike(p, e, j - 1) /\ common < Len(q) /\ Alike(q, e, common) /\ stack[j].depth = j - 1
    BY <1>5, <1>6, <1>10, <2>1, <2>2
  <2>4. Alike(e, q, j - 1)
    <3>1. Alike(q, e, j - 1)
      BY <1>3, <2>1, <2>3, AlikeAll
    <3>2. QED
      BY <1>3, <2>1, <3>1, AlikeAll
  <2>5. Alike(p, q, j - 1)
    BY <1>3, <2>1, <2>3, <2>4, AlikeAll
  <2>6. Len(q) \in Nat /\ j < Len(q) /\ j < Len(e) /\ Folded[q[j]] = Folded[e[j]]
    <3>1. j \in 1..common
      BY <1>3, <1>11
    <3>2. QED
      BY <1>3, <1>9, <2>3, <3>1, PathFacts DEF Alike
  <2>7. Under(q, p) /\ Under(e, p) /\ (j - 1) + 1 = j
    BY <1>9, <2>3, <2>5, <2>6 DEF Under
  <2>8. n \in 1..n
    BY <1>6, <2>1
  <2>9. PICK k \in 1..Len(stack[j].subdirs) : UnderSub(q, stack[j], stack[j].subdirs[k])
    <3>1. HasSubdirs(entries, stack[j], n)
      BY <1>10, <2>1 DEF Grown
    <3>2. Under(entries[n], stack[j].path) /\ stack[j].depth + 1 < Len(entries[n])
      BY <2>2, <2>3, <2>6, <2>7
    <3>3. QED
      BY <2>2, <2>8, <3>1, <3>2 DEF HasSubdirs
  <2>10. UnderSub(e, stack[j], stack[j].subdirs[k])
    BY <2>2, <2>3, <2>6, <2>7, <2>9 DEF UnderSub
  <2>11. QED
    BY <1>9, <1>10, <2>1, <2>10, GrownDeeper
<1>12. ASSUME NEW dir, NEW k \in Nat, common <= k, k < Len(e), Grown(entries, dir, n),
              Len(dir.path) = k, dir.path \in Path, Alike(dir.path, e, k)
       PROVE  Grown(entries, WithEntry(dir, e), n + 1)
  <2>1. Under(e, dir.path) /\ dir.depth = k
    BY <1>12 DEF Under, Grown
  <2>2. ASSUME dir.depth + 1 < Len(e), NEW i \in 1..n, UnderSub(entries[i], dir, e[k + 1])
        PROVE  FALSE
    <3>1. k + 1 \in 0..Len(e) /\ k + 1 \in Nat
      BY <1>9, <2>1, <2>2
    <3>2. PICK d \in Path : /\ d = SubSeq(e, 1, k + 1) /\ Len(d) = k + 1 /\ Alike(d, e, k + 1)
                            /\ \A l \in 1..(k + 1) : d[l] = e[l]
      BY <1>3, <3>1, FrontOf
    <3>3. ~Under(entries[i], d)
      <4>1. common < Len(d)
        BY <1>3, <1>12, <3>2
      <4>2. Len(d) < Len(e)
        BY <2>1, <2>2, <3>2
      <4>3. QED
        BY <1>4, <3>2, <4>1, <4>2
    <3>4. PICK q \in Path : q = entries[i] /\ Len(q) \in Nat
      <4>1. i \in 1..Len(entries)
        <5>1. Len(entries) \in Nat
          BY LenProperties
        <5>2. QED
          BY <1>2, <5>1
      <4>2. QED
        BY <4>1, EntryPath
    <3>5. Alike(dir.path, q, k) /\ k + 1 < Len(q) /\ Folded[q[k + 1]] = Folded[e[k + 1]]
      BY <1>12, <2>1, <2>2, <3>4 DEF UnderSub, Under
    <3>6. \A l \in 1..k : Folded[dir.path[l]] = Folded[q[l]] /\ Folded[dir.path[l]] = Folded[e[l]]
      BY <1>12, <3>5 DEF Alike
    <3>7. \A l \in 1..(k + 1) : Folded[d[l]] = Folded[q[l]]
      <4>1. TAKE l \in 1..(k + 1)
      <4>2. l \in 1..k \/ l = k + 1
        OBVIOUS
      <4>3. QED
        BY <3>2, <3>5, <3>6, <4>2
    <3>8. Under(q, d)
      BY <3>2, <3>4, <3>5, <3>7 DEF Under, Alike
    <3>9. QED
      BY <3>3, <3>4, <3>8
  <2>3. QED
    BY <1>3, <1>9, <1>12, <2>1, <2>2, GrownNamed
<1>13. ASSUME NEW j \in 1..Len(e)
       PROVE  Grown(entries, stack'[j], n + 1)
  <2>1. CASE j <= common
    BY <1>8, <1>11, <2>1
  <2>2. CASE j = common + 1
    <3>1. j \in 1..Len(stack) /\ j <= common + 1 /\ common <= j - 1 /\ j - 1 \in Nat /\ j - 1 < Len(e)
      BY <1>3, <1>9, <2>2
    <3>2. Grown(entries, WithEntry(stack[j], e), n + 1)
      BY <1>5, <1>10, <1>12, <3>1
    <3>3. QED
      BY <1>8, <2>2, <3>2
  <2>3. CASE j > common + 1
    <3>1. j - 1 \in 0..Len(e) /\ common < j - 1 /\ common <= j - 1 /\ j - 1 \in Nat /\ j - 1 < Len(e)
      BY <1>3, <1>9, <2>3
    <3>2. PICK d \in Path : d = SubSeq(e, 1, j - 1) /\ Len(d) = j - 1 /\ Alike(d, e, j - 1)
      BY <1>3, <3>1, FrontOf
    <3>3. \A i \in 1..n : ~Under(entries[i], d)
      BY <1>4, <3>1, <3>2
    <3>4. Grown(entries, NewDir(d), n) /\ NewDir(d).path = d
      BY <3>3, GrownNew DEF NewDir
    <3>5. Grown(entries, WithEntry(NewDir(d), e), n + 1)
      BY <1>12, <3>1, <3>2, <3>4
    <3>6. QED
      BY <1>8, <2>3, <3>2, <3>5
  <2>4. QED
    BY <1>3, <2>1, <2>2, <2>3
<1>14. QED
  BY <1>7, <1>13

\* What the popped directories hold then.
LEMMA DirsGrow ==
  ASSUME Stacked, Popping, Growing, AddEntry, entries \in Seq(Files), next \in Nat
  PROVE  \A d \in 1..Len(dirs_') :
            /\ Grown(entries, dirs_'[d], next + 1) /\ InNameOrder(dirs_'[d])
            /\ LeftBehind(entries, dirs_'[d], next + 1)
<1> DEFINE e == entries[next + 1]
           n == next
           Right(dir) == Grown(entries, dir, n + 1) /\ InNameOrder(dir) /\ LeftBehind(entries, dir, n + 1)
<1>1. PICK common : common = CommonDir(Last(stack).path, e)
  OBVIOUS
<1>2. next < Len(entries)
  BY DEF AddEntry
<1>3. e \in Path \ {<< >>} /\ common \in Nat /\ common + 1 <= Len(stack) /\ common < Len(e)
  BY <1>1, <1>2, NextApart
<1>4. \A j \in 1..Len(stack) : j > common + 1 => ~Under(e, stack[j].path)
  BY <1>1, <1>2, NextApart
<1>5. \A d \in 1..Len(dirs_) : ~Under(e, dirs_[d].path)
  BY <1>1, <1>2, NextApart
<1>6. dirs_' = dirs_ \o PopTo(common + 1)
  BY <1>1, <1>3, AddEntryStack
<1>7. Len(stack) \in Nat /\ e = entries[n + 1] /\ common + 1 \in 0..Len(stack)
  BY <1>3 DEF Stacked
<1> HIDE DEF e
<1>8. ASSUME NEW d \in 1..Len(dirs_)
      PROVE  Right(dirs_[d])
  <2>1. Grown(entries, dirs_[d], n) /\ InNameOrder(dirs_[d]) /\ LeftBehind(entries, dirs_[d], n)
    BY DEF Growing
  <2>2. Grown(entries, dirs_[d], n + 1)
    BY <1>5, <1>7, <2>1, GrownPassed
  <2>3. \A i \in 1..n : i \in 1..(n + 1)
    OBVIOUS
  <2>4. LeftBehind(entries, dirs_[d], n + 1)
    BY <1>5, <1>7, <2>1, <2>3 DEF LeftBehind
  <2>5. QED
    BY <2>1, <2>2, <2>4
<1>9. ASSUME NEW h \in (common + 2)..Len(stack)
      PROVE  Right(Popped(stack[h]))
  <2>1. h \in 1..Len(stack) /\ h > common + 1 /\ h > 1
    BY <1>3, <1>7
  <2>2. Grown(entries, stack[h], n) /\ Len(stack[h].path) = h - 1 /\ ~Under(e, stack[h].path)
    BY <1>4, <2>1 DEF Growing, Stacked
  <2>3. Grown(entries, stack[h], n + 1)
    BY <1>7, <2>2, GrownPassed
  <2>4. /\ Grown(entries, Popped(stack[h]), n + 1) /\ InNameOrder(Popped(stack[h]))
        /\ Popped(stack[h]).path = stack[h].path
    <3>1. n + 1 \in Nat
      OBVIOUS
    <3>2. QED
      BY <2>3, <3>1, GrownPopped
  <2>5. n > 0
    <3>1. PICK m \in Nat : m = Len(stack)
      BY <1>7
    <3>2. m # 1
      BY <2>1, <3>1
    <3>3. QED
      BY <3>1, <3>2 DEF Growing
  <2>6. Under(entries[n], stack[h].path)
    <3>1. Len(stack) = Len(entries[n]) /\ DirOfPath(stack[h], entries[n], h - 1)
      BY <2>1, <2>5 DEF Growing
    <3>2. QED
      BY <1>7, <2>1, <3>1 DEF DirOfPath, Under
  <2>7. n \in 1..(n + 1)
    BY <2>5
  <2>8. LeftBehind(entries, Popped(stack[h]), n + 1)
    BY <1>7, <2>1, <2>2, <2>4, <2>6, <2>7 DEF LeftBehind
  <2>9. QED
    BY <2>4, <2>8
<1> HIDE DEF Right
<1>10. PICK k \in 0..Len(stack) : k = common + 1 /\ dirs_' = dirs_ \o PopTo(k) /\ k + 1 = common + 2
  BY <1>3, <1>6, <1>7
<1>11. \A i \in 1..Len(dirs_') : (i \in 1..Len(dirs_) /\ dirs_'[i] = dirs_[i]) \/
          \E h \in (k + 1)..Len(stack) : dirs_'[i] = Popped(stack[h])
  <2>1. PICK all : all = dirs_ \o PopTo(k)
    OBVIOUS
  <2>2. \A i \in 1..Len(dirs_) : i \in 1..Len(all) /\ all[i] = dirs_[i]
    BY <2>1, PopsAre
  <2>3. \A i \in 1..Len(all) : i \notin 1..Len(dirs_) =>
           PlaceOf(i) \in (k + 1)..Len(stack) /\ all[i] = Popped(stack[PlaceOf(i)])
    BY <2>1, PoppedFrom
  <2>4. all = dirs_'
    BY <1>10, <2>1
  <2>5. QED
    BY <2>2, <2>3, <2>4
<1>12. \A i \in 1..Len(dirs_') : Right(dirs_'[i])
  BY <1>8, <1>9, <1>10, <1>11
<1>13. QED
  BY <1>12 DEF Right

\* What dirs_ would hold were the stack popped down to depth k now.
LEMMA AllRight ==
  ASSUME Stacked, Popping, Growing, entries \in Seq(Files), next \in Nat,
         NEW k \in 0..Len(stack), NEW all, all = dirs_ \o PopTo(k), NEW i \in 1..Len(all)
  PROVE  /\ Grown(entries, all[i], next) /\ InNameOrder(all[i])
         /\ all[i].path # << >> => \E j \in 1..next : Under(entries[j], all[i].path)
<1>1. CASE i \in 1..Len(dirs_)
  <2>1. all[i] = dirs_[i]
    BY <1>1, PopsAre
  <2>2. QED
    BY <1>1, <2>1 DEF Growing, LeftBehind
<1>2. CASE i \notin 1..Len(dirs_)
  <2>1. PICK h \in 1..Len(stack) : all[i] = Popped(stack[h])
    <3>1. PlaceOf(i) \in (k + 1)..Len(stack) /\ all[i] = Popped(stack[PlaceOf(i)])
      BY <1>2, PoppedFrom
    <3>2. \A h \in (k + 1)..Len(stack) : h \in 1..Len(stack)
      BY DEF Stacked
    <3>3. QED
      BY <3>1, <3>2
  <2>2. Grown(entries, all[i], next) /\ InNameOrder(all[i]) /\ all[i].path = stack[h].path
    BY <2>1, GrownPopped DEF Growing
  <2>3. ASSUME all[i].path # << >>
        PROVE  next \in 1..next /\ Under(entries[next], all[i].path)
    <3>1. PICK m \in Nat : m = Len(stack)
      BY DEF Stacked
    <3>2. stack[h].path \in Path /\ Len(stack[h].path) = h - 1
      BY DEF Stacked, IsDir
    <3>3. h - 1 # 0
      BY <2>2, <2>3, <3>2, EmptySeq DEF Path
    <3>4. m # 1
      BY <3>1, <3>3
    <3>5. next > 0
      BY <3>1, <3>4 DEF Growing
    <3>6. Len(stack) = Len(entries[next]) /\ DirOfPath(stack[h], entries[next], h - 1)
      BY <3>5 DEF Growing
    <3>7. QED
      BY <2>2, <3>1, <3>5, <3>6 DEF DirOfPath, Under
  <2>4. QED
    BY <2>2, <2>3
<1>3. QED
  BY <1>1, <1>2

\* No directory is there twice.
LEMMA StaysApart ==
  ASSUME Stacked, Popping, Growing, entries \in Seq(Files), next \in Nat,
         NEW k \in 0..Len(stack), NEW all, all = dirs_ \o PopTo(k)
  PROVE  \A c, d \in 1..Len(all) : c # d => ~DirOfPath(all[c], all[d].path, Len(all[d].path))
<1> DEFINE last == entries[next]
<1>1. ASSUME NEW d \in 1..Len(dirs_)
      PROVE  dirs_[d].path \in Path /\ next > 0 /\ ~Under(last, dirs_[d].path)
  <2>1. Len(dirs_) # 0
    BY DEF Popping
  <2>2. QED
    BY <2>1 DEF Growing, Grown, Node, LeftBehind
<1>2. ASSUME NEW h \in 1..Len(stack)
      PROVE  /\ stack[h].path \in Path /\ Len(stack[h].path) = h - 1
             /\ Popped(stack[h]).path = stack[h].path
             /\ next > 0 => Under(last, stack[h].path)
  <2>1. stack[h].path \in Path /\ Len(stack[h].path) = h - 1 /\ Grown(entries, stack[h], next)
    BY DEF Stacked, IsDir, Growing
  <2>2. ASSUME next > 0 PROVE Under(last, stack[h].path)
    <3>1. Len(stack) = Len(last) /\ DirOfPath(stack[h], last, h - 1)
      BY <2>2 DEF Growing
    <3>2. QED
      BY <3>1 DEF DirOfPath, Under, Stacked
  <2>3. QED
    BY <2>1, <2>2, GrownPopped
<1>3. next > 0 => last \in Path
  <2>1. next > 0 => next \in 1..Len(entries)
    BY LenProperties DEF Growing
  <2>2. QED
    BY <2>1, EntryPath
<1> HIDE DEF last
<1>4. ASSUME NEW d \in 1..Len(dirs_), NEW h \in 1..Len(stack), NEW p, NEW q,
             p = dirs_[d].path, q = stack[h].path
      PROVE  ~(Len(p) = Len(q) /\ Alike(p, q, Len(q))) /\ ~(Len(q) = Len(p) /\ Alike(q, p, Len(p)))
  <2>1. p \in Path /\ q \in Path /\ last \in Path /\ ~Under(last, p) /\ Under(last, q)
    BY <1>1, <1>2, <1>3, <1>4
  <2>2. QED
    BY <2>1, SameUnder
<1>5. \A c \in 1..Len(all) : c \in 1..Len(dirs_) => all[c] = dirs_[c]
  BY PopsAre
<1>6. ASSUME NEW c \in 1..Len(all), c \notin 1..Len(dirs_)
      PROVE  PlaceOf(c) \in 1..Len(stack) /\ all[c].path = stack[PlaceOf(c)].path
  <2>1. PlaceOf(c) \in (k + 1)..Len(stack) /\ all[c] = Popped(stack[PlaceOf(c)])
    BY <1>6, PoppedFrom
  <2>2. PlaceOf(c) \in 1..Len(stack)
    BY <2>1 DEF Stacked
  <2>3. QED
    BY <1>2, <2>1, <2>2
<1>7. \A c, d \in 1..Len(all) : c # d => PlaceOf(c) # PlaceOf(d)
  BY PopsAre DEF PlaceOf, Stacked, Popping
<1>8. ASSUME NEW c \in 1..Len(all), NEW d \in 1..Len(all), c # d,
             Len(all[c].path) = Len(all[d].path), Alike(all[c].path, all[d].path, Len(all[d].path))
      PROVE  FALSE
  <2>1. CASE c \in 1..Len(dirs_) /\ d \in 1..Len(dirs_)
    BY <1>5, <1>8, <2>1 DEF Growing, DirOfPath
  <2>2. CASE c \in 1..Len(dirs_) /\ d \notin 1..Len(dirs_)
    BY <1>4, <1>5, <1>6, <1>8, <2>2
  <2>3. CASE c \notin 1..Len(dirs_) /\ d \in 1..Len(dirs_)
    BY <1>4, <1>5, <1>6, <1>8, <2>3
  <2>4. CASE c \notin 1..Len(dirs_) /\ d \notin 1..Len(dirs_)
    <3>1. /\ PlaceOf(c) \in 1..Len(stack) /\ PlaceOf(d) \in 1..Len(stack) /\ PlaceOf(c) # PlaceOf(d)
          /\ Len(all[c].path) = PlaceOf(c) - 1 /\ Len(all[d].path) = PlaceOf(d) - 1
      BY <1>2, <1>6, <1>7, <1>8, <2>4
    <3>2. PICK a \in 1..Len(stack), b \in 1..Len(stack) : a = PlaceOf(c) /\ b = PlaceOf(d)
      BY <3>1
    <3>3. a - 1 = b - 1 /\ a # b
      BY <1>8, <3>1, <3>2
    <3>4. QED
      BY <3>3
  <2>5. QED
    BY <2>1, <2>2, <2>3, <2>4
<1>9. QED
  BY <1>8 DEF DirOfPath

\* Each directory of an entry so far is there or still on the stack.
LEMMA StaysCovered ==
  ASSUME Stacked, Popping, Growing, next \in Nat,
         NEW k \in 0..Len(stack), NEW all, all = dirs_ \o PopTo(k),
         NEW i \in 1..next, NEW m \in 0..(Len(entries[i]) - 1)
  PROVE  \/ \E d \in 1..Len(all) : DirOfPath(all[d], entries[i], m)
         \/ m + 1 \in 1..k /\ DirOfPath(stack[m + 1], entries[i], m)
<1>1. CASE \E d \in 1..Len(dirs_) : DirOfPath(dirs_[d], entries[i], m)
  BY <1>1, PopsAre
<1>2. CASE m + 1 \in 1..Len(stack) /\ DirOfPath(stack[m + 1], entries[i], m)
  <2>1. CASE m + 1 \in (k + 1)..Len(stack)
    <3>1. PICK h \in (k + 1)..Len(stack) : h = m + 1 /\ h \in 1..Len(stack) /\ DirOfPath(stack[h], entries[i], m)
      BY <1>2, <2>1
    <3>2. PICK d \in 1..Len(all) : all[d] = Popped(stack[h])
      BY PoppedTo
    <3>3. all[d].path = stack[h].path
      BY <3>1, <3>2, GrownPopped DEF Growing
    <3>4. DirOfPath(all[d], entries[i], m)
      BY <3>1, <3>3 DEF DirOfPath
    <3>5. QED
      BY <3>4
  <2>2. CASE m + 1 \in 1..k
    BY <1>2, <2>2
  <2>3. m + 1 \in (k + 1)..Len(stack) \/ m + 1 \in 1..k
    BY <1>2 DEF Stacked
  <2>4. QED
    BY <2>1, <2>2, <2>3
<1>3. QED
  BY <1>1, <1>2 DEF Growing

\* The next entry leaves the tree exact for it too.
LEMMA AddEntryGrows ==
  ASSUME Stacked, Popping, Growing, AddEntry, entries \in Seq(Files), next \in Nat
  PROVE  Growing'
<1> DEFINE e == entries[next + 1]
<1>1. PICK common : common = CommonDir(Last(stack).path, e)
  OBVIOUS
<1>2. next < Len(entries) /\ entries' = entries /\ next' = next + 1
  BY DEF AddEntry
<1>3. e \in Path \ {<< >>} /\ common \in Nat /\ common + 1 <= Len(stack) /\ common < Len(e)
  BY <1>1, <1>2, NextApart
<1>4. /\ Len(stack') = Len(e) /\ dirs_' = dirs_ \o PopTo(common + 1)
      /\ \A j \in 1..Len(stack') : Len(stack'[j].path) = j - 1
      /\ \A j \in 1..Len(e) : Alike(stack'[j].path, e, j - 1)
  BY <1>1, <1>3, AddEntryStack
<1>5. \A j \in 1..Len(e) :
         /\ j <= common => stack'[j] = stack[j]
         /\ j = common + 1 => stack'[j] = WithEntry(stack[j], e)
  BY <1>1, <1>3, AddEntryTop
<1>6. e = entries[next + 1] /\ Len(e) \in Nat
  BY <1>3, PathFacts
<1>7. PICK k \in 0..Len(stack) : k = common + 1
  BY <1>3 DEF Stacked
<1>8. next' <= Len(entries') /\ IndexSorted'
  BY <1>2, LenProperties DEF Growing, IndexSorted
<1> HIDE DEF e
<1>9. \A j \in 1..Len(stack') : Grown(entries', stack'[j], next')
  BY <1>2, StackGrows
<1>10. \A d \in 1..Len(dirs_') :
          /\ Grown(entries', dirs_'[d], next') /\ InNameOrder(dirs_'[d])
          /\ LeftBehind(entries', dirs_'[d], next')
  BY <1>2, DirsGrow
<1>11. PICK all : all = dirs_ \o PopTo(k) /\ all = dirs_'
  BY <1>4, <1>7
<1>12. \A c, d \in 1..Len(dirs_') : c # d => ~DirOfPath(dirs_'[c], dirs_'[d].path, Len(dirs_'[d].path))
  <2>1. \A c, d \in 1..Len(all) : c # d => ~DirOfPath(all[c], all[d].path, Len(all[d].path))
    BY <1>11, StaysApart
  <2>2. QED
    BY <1>11, <2>1
<1>13. next' # 0 /\ next' > 0
  BY <1>2
<1>14. /\ Len(stack') = Len(entries'[next'])
       /\ \A j \in 1..Len(stack') : DirOfPath(stack'[j], entries'[next'], j - 1)
  BY <1>2, <1>4, <1>6 DEF DirOfPath
<1>15. ASSUME NEW j \in 1..k
       PROVE  j \in 1..Len(stack') /\ stack'[j].path = stack[j].path
  <2>1. j \in 1..Len(e) /\ j \in 1..Len(stack) /\ (j <= common \/ j = common + 1)
    BY <1>3, <1>6, <1>7 DEF Stacked
  <2>2. WithEntry(stack[j], e).path = stack[j].path
    BY <2>1 DEF WithEntry, Stacked, IsDir
  <2>3. QED
    BY <1>4, <1>5, <2>1, <2>2
<1>16. ASSUME NEW i \in 1..next', NEW m \in 0..(Len(entries'[i]) - 1)
       PROVE  \/ \E d \in 1..Len(dirs_') : DirOfPath(dirs_'[d], entries'[i], m)
              \/ m + 1 \in 1..Len(stack') /\ DirOfPath(stack'[m + 1], entries'[i], m)
  <2>1. CASE i \in 1..next
    <3>1. \/ \E d \in 1..Len(all) : DirOfPath(all[d], entries[i], m)
          \/ m + 1 \in 1..k /\ DirOfPath(stack[m + 1], entries[i], m)
      BY <1>2, <1>11, <2>1, StaysCovered
    <3>2. CASE m + 1 \in 1..k /\ DirOfPath(stack[m + 1], entries[i], m)
      BY <1>2, <1>15, <3>2 DEF DirOfPath
    <3>3. QED
      BY <1>2, <1>11, <3>1, <3>2
  <2>2. CASE i = next + 1
    <3>1. m + 1 \in 1..Len(stack') /\ m = (m + 1) - 1
      BY <1>2, <1>4, <1>6, <2>2
    <3>2. DirOfPath(stack'[m + 1], entries'[next'], m)
      BY <1>14, <3>1
    <3>3. QED
      BY <1>2, <2>2, <3>1, <3>2
  <2>3. QED
    BY <1>2, <2>1, <2>2
<1>17. QED
  BY <1>8, <1>9, <1>10, <1>12, <1>13, <1>14, <1>16 DEF Growing

\* What there is before there is an index.
Beginning == next = 0 /\ stack = <<NewDir(<< >>)>> /\ dirs_ = << >>

LEMMA BuildIndexGrows ==
  ASSUME Beginning, NEW index, BuildIndex(index)
  PROVE  Growing'
<1>1. entries' = index /\ next' = 0 /\ stack' = <<NewDir(<< >>)>> /\ dirs_' = << >>
  BY DEF BuildIndex, Beginning
<1>2. Len(stack') = 1 /\ stack'[1] = NewDir(<< >>) /\ Len(dirs_') = 0
  BY <1>1
<1>3. Grown(index, NewDir(<< >>), 0)
  <2>1. << >> \in Path /\ \A i \in 1..0 : ~Under(index[i], << >>)
    BY EmptySeq DEF Path
  <2>2. QED
    BY <2>1, GrownNew
<1>4. IndexSorted'
  BY <1>1 DEF IndexSorted, BuildIndex
<1>5. \A j \in 1..Len(stack') : Grown(entries', stack'[j], next')
  <2>1. \A j \in 1..Len(stack') : j = 1
    BY <1>2
  <2>2. QED
    BY <1>1, <1>2, <1>3, <2>1
<1>6. QED
  BY <1>1, <1>2, <1>4, <1>5 DEF Growing

\* What TreeExact says of one directory, and of all of them.
DirRight(es, dir) ==
    LET FilesOf == {n \in 1..Len(es) : IsIn(es[n], dir.path) /\ Len(es[n]) = dir.depth + 1}
    IN
    /\ dir.path # << >> => \E n \in 1..Len(es) : IsIn(es[n], dir.path)
    /\ \E place \in Bijection(DOMAIN dir.files, FilesOf) :
          \A k \in DOMAIN dir.files :
             /\ dir.files[k] = es[place[k]]
             /\ \A j \in 1..(k - 1) : place[j] < place[k]
    /\ \A k \in 1..(Len(dir.subdirs) - 1) : NameLt(dir.subdirs[k], dir.subdirs[k + 1])
    /\ \A n \in 1..Len(es) :
          IsIn(es[n], dir.path) /\ Len(es[n]) > dir.depth + 1 =>
             \E k \in 1..Len(dir.subdirs) : Folded[dir.subdirs[k]] = Folded[es[n][dir.depth + 1]]

DirsRight(es, ds) ==
    /\ \A d \in 1..Len(ds) : DirRight(es, ds[d])
    /\ \A n \in 1..Len(es) : \A k \in 0..(Len(es[n]) - 1) :
          Cardinality({d \in 1..Len(ds) : SamePath(ds[d].path, SubSeq(es[n], 1, k))}) = 1
    /\ \E d \in 1..Len(ds) : ds[d].path = << >>

LEMMA GrownRight ==
  ASSUME NEW es \in Seq(Files), NEW dir, Grown(es, dir, Len(es)), InNameOrder(dir),
         dir.path # << >> => \E j \in 1..Len(es) : Under(es[j], dir.path)
  PROVE  DirRight(es, dir)
<1>1. dir.path \in Path /\ dir.depth \in Nat
  BY DEF Grown, Node
<1>2. \A n \in 1..Len(es) : es[n] \in Path /\ Len(es[n]) \in Nat
  BY EntryPath
<1>3. \A n \in 1..Len(es) : IsIn(es[n], dir.path) <=> Under(es[n], dir.path)
  BY <1>1, <1>2, IsInUnder
<1>4. dir.path # << >> => \E n \in 1..Len(es) : IsIn(es[n], dir.path)
  BY <1>3
<1>5. {n \in 1..Len(es) : IsIn(es[n], dir.path) /\ Len(es[n]) = dir.depth + 1} = FilePlaces(es, dir, Len(es))
  BY <1>3 DEF FilePlaces
<1>6. \E place \in Bijection(DOMAIN dir.files, FilePlaces(es, dir, Len(es))) :
         \A k \in DOMAIN dir.files :
            dir.files[k] = es[place[k]] /\ \A j \in 1..(k - 1) : place[j] < place[k]
  BY DEF Grown, HasFiles
<1>7. ASSUME NEW n \in 1..Len(es), IsIn(es[n], dir.path), Len(es[n]) > dir.depth + 1
      PROVE  \E k \in 1..Len(dir.subdirs) : Folded[dir.subdirs[k]] = Folded[es[n][dir.depth + 1]]
  <2>1. Under(es[n], dir.path) /\ dir.depth + 1 < Len(es[n])
    BY <1>1, <1>2, <1>3, <1>7
  <2>2. \E k \in 1..Len(dir.subdirs) : UnderSub(es[n], dir, dir.subdirs[k])
    BY <2>1 DEF Grown, HasSubdirs
  <2>3. QED
    BY <2>2 DEF UnderSub
<1>8. QED
  BY <1>4, <1>5, <1>6, <1>7 DEF DirRight, InNameOrder

\* To be the directory of the first k names is to have the same path.
LEMMA FrontSame ==
  ASSUME NEW e \in Path, NEW k \in 0..Len(e), NEW dir, dir.path \in Path
  PROVE  SamePath(dir.path, SubSeq(e, 1, k)) <=> DirOfPath(dir, e, k)
<1>1. Len(SubSeq(e, 1, k)) = k /\ \A j \in 1..k : SubSeq(e, 1, k)[j] = e[j]
  BY FrontOf
<1>2. Len(e) \in Nat /\ Len(dir.path) \in Nat
  BY PathFacts
<1>3. QED
  BY <1>1, <1>2 DEF SamePath, DirOfPath, Alike

\* Two directories of the same names are the same.
LEMMA FrontApart ==
  ASSUME NEW e \in Path, NEW k \in Nat, NEW a, NEW b, a.path \in Path, b.path \in Path,
         DirOfPath(a, e, k), DirOfPath(b, e, k)
  PROVE  DirOfPath(a, b.path, Len(b.path))
<1>1. PICK p \in Path, q \in Path : p = a.path /\ q = b.path
  OBVIOUS
<1>2. Len(p) = k /\ Len(q) = k /\ Alike(p, e, k) /\ Alike(q, e, k)
  BY <1>1 DEF DirOfPath
<1>3. Alike(e, q, k)
  BY <1>2, AlikeAll
<1>4. Alike(p, q, k)
  BY <1>2, <1>3, AlikeAll
<1>5. QED
  BY <1>1, <1>2, <1>4 DEF DirOfPath

\* Once all entries are there, so is every directory, exactly once.
LEMMA AllDirsRight ==
  ASSUME Stacked, Popping, Growing, entries \in Seq(Files), next = Len(entries),
         NEW ds, ds = Reverse(dirs_ \o PopTo(0))
  PROVE  DirsRight(entries, ds)
<1>1. PICK k \in 0..Len(stack) : k = 0
  BY DEF Stacked
<1>2. PICK all : all = dirs_ \o PopTo(k)
  OBVIOUS
<1>3. PICK n \in Nat : n = Len(all)
  BY <1>2, PopsAre
<1>4. next \in Nat
  BY LenProperties
<1>5. ds = [j \in 1..n |-> all[(n - j) + 1]]
  BY <1>1, <1>2, <1>3 DEF Reverse
<1>6. Len(ds) = n
  BY <1>5
<1>7. \A j \in 1..n : (n - j) + 1 \in 1..n /\ ds[j] = all[(n - j) + 1]
  BY <1>5
<1>8. \A i \in 1..n : \E j \in 1..n : ds[j] = all[i]
  <2>1. TAKE i \in 1..n
  <2>2. (n - i) + 1 \in 1..n /\ (n - ((n - i) + 1)) + 1 = i
    OBVIOUS
  <2>3. QED
    BY <1>7, <2>2
<1>9. ASSUME NEW i \in 1..n
      PROVE  all[i].path \in Path /\ DirRight(entries, all[i])
  <2>1. /\ Grown(entries, all[i], Len(entries)) /\ InNameOrder(all[i])
        /\ all[i].path # << >> => \E j \in 1..Len(entries) : Under(entries[j], all[i].path)
    BY <1>2, <1>3, <1>4, AllRight
  <2>2. QED
    BY <2>1, GrownRight DEF Grown, Node
<1>10. \A c, d \in 1..n : c # d => ~DirOfPath(all[c], all[d].path, Len(all[d].path))
  BY <1>2, <1>3, <1>4, StaysApart
<1>11. \A d \in 1..n : ds[d].path \in Path /\ DirRight(entries, ds[d])
  BY <1>7, <1>9
<1>12. ASSUME NEW i \in 1..Len(entries), NEW m \in 0..(Len(entries[i]) - 1)
       PROVE  Cardinality({d \in 1..n : SamePath(ds[d].path, SubSeq(entries[i], 1, m))}) = 1
  <2>1. PICK e \in Path : e = entries[i] /\ m \in Nat /\ m \in 0..Len(e)
    BY EntryPath
  <2>2. PICK c \in 1..n : DirOfPath(all[c], e, m)
    <3>1. \/ \E d \in 1..Len(all) : DirOfPath(all[d], entries[i], m)
          \/ m + 1 \in 1..k /\ DirOfPath(stack[m + 1], entries[i], m)
      BY <1>2, <1>4, StaysCovered
    <3>2. m + 1 \notin 1..k
      BY <1>1, <2>1
    <3>3. QED
      BY <1>3, <2>1, <3>1, <3>2
  <2>3. PICK d \in 1..n : DirOfPath(ds[d], e, m)
    BY <1>8, <2>2
  <2>4. ASSUME NEW d2 \in 1..n, DirOfPath(ds[d2], e, m)
        PROVE  d2 = d
    <3>1. PICK a \in 1..n, b \in 1..n : a = (n - d2) + 1 /\ b = (n - d) + 1 /\ ds[d2] = all[a] /\ ds[d] = all[b]
      BY <1>7
    <3>2. DirOfPath(all[a], all[b].path, Len(all[b].path))
      BY <1>9, <2>1, <2>3, <2>4, <3>1, FrontApart
    <3>3. a = b
      BY <1>10, <3>2
    <3>4. QED
      BY <3>1, <3>3
  <2>5. \A x \in 1..n : SamePath(ds[x].path, SubSeq(entries[i], 1, m)) <=> x = d
    BY <1>11, <2>1, <2>3, <2>4, FrontSame
  <2>6. {x \in 1..n : SamePath(ds[x].path, SubSeq(entries[i], 1, m))} = {d}
    BY <2>5
  <2>7. QED
    BY <2>6, FS_Singleton
<1>13. \E d \in 1..n : ds[d].path = << >>
  <2>1. PICK h \in (k + 1)..Len(stack) : h = 1 /\ h \in 1..Len(stack)
    BY <1>1 DEF Stacked
  <2>2. PICK i \in 1..n : all[i] = Popped(stack[h])
    BY <1>2, <1>3, PoppedTo
  <2>3. all[i].path = stack[h].path
    BY <1>4, <2>1, <2>2, GrownPopped DEF Growing
  <2>4. stack[h].path \in Path /\ Len(stack[h].path) = 0
    BY <2>1 DEF Stacked, IsDir
  <2>5. all[i].path = << >>
    BY <2>3, <2>4, EmptySeq DEF Path
  <2>6. QED
    BY <1>8, <2>5
<1>14. QED
  BY <1>6, <1>11, <1>12, <1>13 DEF DirsRight

\* The inductive invariant of the tree.
TreeGrows ==
    /\ tree = "new" => Beginning
    /\ tree = "entries" => Growing
    /\ TreeExact

LEMMA BuiltExact ==
  ASSUME TreeIInv, TreeGrows, Built
  PROVE  TreeGrows'
<1>1. Stacked /\ Popping /\ Growing /\ entries \in Seq(Files) /\ next = Len(entries)
  BY DEF TreeIInv, TreeGrows, Built
<1>2. dirs_' = Reverse(dirs_ \o PopTo(0)) /\ entries' = entries /\ tree' \in {"built", "aborted"}
  BY DEF Built
<1>3. DirsRight(entries', dirs_')
  BY <1>1, <1>2, AllDirsRight
<1>4. tree' = "built" => Divided'
  BY BuiltKept DEF TreeIInv
<1>5. TreeExact'
  BY <1>2, <1>3, <1>4 DEF TreeExact, Divided, DirsRight, DirRight, Last
<1>6. QED
  BY <1>2, <1>5 DEF TreeGrows

\* The other steps leave the tree alone, but for its phase.
LEMMA SameTree ==
  ASSUME TreeGrows, UNCHANGED <<entries, next, stack, dirs_, splits_>>,
         \/ tree' = tree
         \/ tree \in {"built", "scan"} /\ tree' \in {"scan", "end"}
  PROVE  TreeGrows'
<1>1. (Beginning' <=> Beginning) /\ (Growing' <=> Growing)
  BY DEF Beginning, Growing, IndexSorted
<1>2. TreeExact'
  <2>1. CASE tree \notin {"built", "scan", "end"}
    BY <2>1 DEF TreeExact
  <2>2. CASE tree \in {"built", "scan", "end"}
    <3>1. /\ splits_[1] = 0 /\ Last(splits_) = Len(dirs_)
          /\ \A k \in 1..(Len(splits_) - 1) : splits_[k] < splits_[k + 1]
          /\ DirsRight(entries, dirs_)
      BY <2>2 DEF TreeGrows, TreeExact, DirsRight, DirRight
    <3>2. /\ splits_'[1] = 0 /\ Last(splits_') = Len(dirs_')
          /\ \A k \in 1..(Len(splits_') - 1) : splits_'[k] < splits_'[k + 1]
          /\ DirsRight(entries', dirs_')
      BY <3>1
    <3>3. QED
      BY <3>2 DEF TreeExact, DirsRight, DirRight
  <2>3. QED
    BY <2>1, <2>2
<1>3. QED
  BY <1>1, <1>2 DEF TreeGrows

\* The invariant holds at first and every step keeps it.
THEOREM GrowingInvariant == TreeSpec => [](TreeIInv /\ TreeGrows)
<1>1. TreeInit => TreeGrows
  BY DEF TreeInit, TreeGrows, Beginning, TreeExact
<1>2. TreeIInv /\ TreeGrows /\ [TreeNext]_treeVars => TreeGrows'
  <2> SUFFICES ASSUME TreeIInv, TreeGrows, [TreeNext]_treeVars PROVE TreeGrows'
    OBVIOUS
  <2>1. ASSUME NEW n \in 0..MaxEntries, NEW index \in [1..n -> Files], BuildIndex(index)
        PROVE  TreeGrows'
    <3>1. Beginning /\ tree' = "entries"
      BY <2>1 DEF TreeGrows, BuildIndex
    <3>2. Growing'
      BY <2>1, <3>1, BuildIndexGrows
    <3>3. QED
      BY <3>1, <3>2 DEF TreeGrows, TreeExact
  <2>2. CASE AddEntry
    <3>1. Growing' /\ tree' = "entries"
      BY <2>2, AddEntryGrows DEF AddEntry, TreeIInv, TreeGrows
    <3>2. QED
      BY <3>1 DEF TreeGrows, TreeExact
  <2>3. CASE Built
    BY <2>3, BuiltExact
  <2>4. ASSUME NEW k \in 1..(Len(splits_) - 1), StartScan(k) PROVE TreeGrows'
    BY <2>4, SameTree DEF StartScan
  <2>5. ASSUME NEW ok \in BOOLEAN, OpenFromParent(ok) \/ OpenFromRoot(ok) PROVE TreeGrows'
    BY <2>5, SameTree DEF OpenFromParent, OpenFromRoot
  <2>6. CASE EndScan
    BY <2>6, SameTree DEF EndScan
  <2>7. CASE UNCHANGED treeVars
    BY <2>7, SameTree DEF treeVars
  <2>8. QED
    BY <2>1, <2>2, <2>3, <2>4, <2>5, <2>6, <2>7 DEF TreeNext
<1>3. QED
  BY <1>1, <1>2, TreeInvariant, PTL DEF TreeSpec

\* The tree is that of the index, and the shards take all of it.
THEOREM TreeAlwaysExact == TreeSpec => []TreeExact
<1>1. TreeGrows => TreeExact
  BY DEF TreeGrows
<1>2. QED
  BY <1>1, GrowingInvariant, PTL
=============================================================================
