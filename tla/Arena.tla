-------------------------------- MODULE Arena --------------------------------
(***************************************************************************)
(* The arena allocator (arena.h, arena.cc, bits.h): the strings and the    *)
(* vectors of the index tree, of the untracked cache and of the tag        *)
(* database live in arenas, which hand out parts of a block by moving its  *)
(* tip, and keep blocks of one size to use them again after Reuse.         *)
(*                                                                         *)
(* An address is a number.  A block is counted from 1, and top = 0 stands  *)
(* for g_empty_block.  A call of Allocate that does not fit takes two      *)
(* steps: AddBlock, and Allocate again.                                    *)
(***************************************************************************)
EXTENDS Integers, Sequences, FiniteSets

CONSTANTS
    Width,           \* bits of size_t
    MaxAlign,        \* alignof(std::max_align_t)
    MinBlockSize, MaxBlockSize, MaxAllocThreshold,   \* Arena::Options
    Starts,          \* addresses operator new may return
    Singularity,     \* the address of kSingularity
    AllocSizes, Alignments,   \* what callers ask for
    MaxLive, MaxBlocks        \* bounds of a run

Powers == {p \in 1..(2 ^ Width - 1) : \E k \in 0..(Width - 1) : p = 2 ^ k}

ASSUME ArenaAssumption ==
    /\ Width \in Nat
    /\ MinBlockSize \in Nat /\ MaxBlockSize \in Nat /\ MinBlockSize <= MaxBlockSize
    /\ MaxAllocThreshold \in Nat
    /\ MaxAlign \in Powers /\ Alignments \subseteq Powers
    \* operator new aligns for max_align_t, hence for every smaller power of 2
    /\ Starts \subseteq Nat
    /\ \A p \in Starts, m \in Alignments : m <= MaxAlign => p % m = 0
    /\ Singularity \in Nat /\ AllocSizes \subseteq Nat
    /\ MaxLive \in Nat /\ MaxBlocks \in Nat

VARIABLES
    blocks,     \* blocks_
    reusable,   \* reusable_: so many blocks at the front may be used again
    top,        \* the index of *top_ in blocks_, 0 for g_empty_block
    ask,        \* the call of Allocate in progress, <<>> if there is none
    added,      \* its AllocateSlow has added a block
    live        \* history: what callers got and may still use

arenaVars == <<blocks, reusable, top, ask, added, live>>

Larger(x, y) == IF x > y THEN x ELSE y
Smaller(x, y) == IF x < y THEN x ELSE y

\* The bit shifted out at the top leaves 0.
NextPow2(n) ==
    IF n < 2 THEN 1
    ELSE IF \E p \in Powers : n <= p /\ p < 2 * n
         THEN CHOOSE p \in Powers : n <= p /\ p < 2 * n
         ELSE 0

Clamp(min, val, max) == Smaller(max, Larger(min, val))

\* The first multiple of m from n on.
Align(n, m) == IF n % m = 0 THEN n ELSE n + m - (n % m)

EmptyBlock == [start |-> Singularity, tip |-> Singularity, end |-> Singularity]
Top == IF top = 0 THEN EmptyBlock ELSE blocks[top]
BlockSize(b) == b.end - b.start

ArenaInit ==
    /\ blocks = << >> /\ reusable = 0 /\ top = 0
    /\ ask = << >> /\ added = FALSE
    /\ live = {}

-----------------------------------------------------------------------------
\* Allocate.

\* A caller asks for size bytes.
AllocateCall(size, alignment) ==
    /\ ask = << >> /\ Cardinality(live) < MaxLive
    /\ ask' = <<size, alignment>> /\ added' = FALSE
    /\ UNCHANGED <<blocks, reusable, top, live>>

Place == Align(Top.tip, ask[2])
Fits == Place + ask[1] <= Top.end

\* What the caller may use from now on; no bytes need no place.
Handed == IF ask[1] = 0 THEN {} ELSE {[p |-> Place, e |-> Place + ask[1], alignment |-> ask[2]]}

\* The tip of the top block moves.
Allocate ==
    /\ ask # << >> /\ Fits
    /\ blocks' = IF top = 0 THEN blocks ELSE [blocks EXCEPT ![top].tip = Place + ask[1]]
    /\ live' = live \cup Handed
    /\ ask' = << >>
    /\ UNCHANGED <<reusable, top, added>>

\* The bytes a block must have, wherever it starts.
Need ==
    IF ask[2] > MaxAlign THEN ask[1] + ask[2] - 1 ELSE Larger(ask[1], ask[2])

MayReuse_PastFront == Need <= BlockSize(Top) /\ top < Len(blocks)

\* The next block is reusable, hence empty and as large as the top one.
MayReuse == Need <= BlockSize(Top) /\ top < reusable

AddBlockReused ==
    /\ ask # << >> /\ ~Fits /\ ~added /\ MayReuse
    /\ top' = top + 1
    /\ blocks' = [blocks EXCEPT ![top + 1].tip = blocks[top + 1].start]
    /\ added' = TRUE
    /\ UNCHANGED <<reusable, ask, live>>

\* Small requests get blocks that grow.
NewSize ==
    IF Need <= MaxAllocThreshold
    THEN Larger(Need, Clamp(MinBlockSize, NextPow2(BlockSize(Top) + 1), MaxBlockSize))
    ELSE Need

\* operator new returns memory that nobody has.
Apart(p, size) == \A i \in DOMAIN blocks : p + size <= blocks[i].start \/ blocks[i].end <= p

Swapped(s, i, j) == [s EXCEPT ![i] = s[j], ![j] = s[i]]

\* How many blocks at the front remain reusable before a block of this size
\* joins them: a larger block makes all of them useless.
Kept(size) == IF reusable > 0 /\ size > BlockSize(blocks[1]) THEN 0 ELSE reusable

AddBlockNew(p) ==
    /\ ask # << >> /\ ~Fits /\ ~added /\ ~MayReuse
    /\ Len(blocks) < MaxBlocks /\ Apart(p, NewSize)
    /\ LET grown == Append(blocks, [start |-> p, tip |-> p, end |-> p + NewSize])
       IN  IF reusable > 0 /\ NewSize < BlockSize(blocks[1])
           THEN /\ blocks' = grown /\ top' = Len(grown)
                /\ UNCHANGED reusable
           ELSE /\ blocks' = Swapped(grown, Len(grown), Kept(NewSize) + 1)
                /\ top' = Kept(NewSize) + 1
                /\ reusable' = Kept(NewSize) + 1
    /\ added' = TRUE
    /\ UNCHANGED <<ask, live>>

\* operator new throws before anything has been changed.
NewThrows ==
    /\ ask # << >> /\ ~Fits /\ ~added /\ ~MayReuse
    /\ ask' = << >>
    /\ UNCHANGED <<blocks, reusable, top, added, live>>

-----------------------------------------------------------------------------
\* Reuse frees the blocks from n on; what was handed out is no longer used.
Reuse(n) ==
    /\ ask = << >>
    /\ reusable' = Smaller(reusable, n)
    /\ LET rest == SubSeq(blocks, 1, Smaller(reusable, n))
       IN  IF reusable' > 0
           THEN /\ top' = 1
                /\ blocks' = [rest EXCEPT ![1].tip = rest[1].start]
           ELSE /\ top' = 0
                /\ blocks' = rest
    /\ live' = {}
    /\ UNCHANGED <<ask, added>>

ArenaNext ==
    \/ \E size \in AllocSizes, alignment \in Alignments : AllocateCall(size, alignment)
    \/ Allocate
    \/ AddBlockReused
    \/ \E p \in Starts : AddBlockNew(p)
    \/ NewThrows
    \/ \E n \in 0..MaxBlocks : Reuse(n)

ArenaSpec == ArenaInit /\ [][ArenaNext]_arenaVars

-----------------------------------------------------------------------------
(* The blocks an arena has, and what its fields say of them, are as the    *)
(* comments at the fields and the asserts of AddBlock and AllocateSlow     *)
(* have it: reusable blocks are alike, *top_ is one of them or the last    *)
(* block, and the block AddBlock has found is large enough for the call.   *)
ArenaShape ==
    /\ reusable \in 0..Len(blocks) /\ (blocks # << >> => reusable > 0)
    /\ top \in 0..Len(blocks)
    /\ (top = 0 <=> blocks = << >>) /\ (top \in {0, Len(blocks)} \/ top <= reusable)
    /\ \A i \in 1..reusable : BlockSize(blocks[i]) = BlockSize(blocks[1])
    /\ ask # << >> /\ added => Fits

(* What callers hold is aligned, lies within a block that has not been     *)
(* freed, below its tip, and nobody else holds a byte of it.               *)
NoOverlap ==
    /\ \A l \in live :
          /\ l.p % l.alignment = 0
          /\ \E i \in DOMAIN blocks : blocks[i].start <= l.p /\ l.e <= blocks[i].tip
    /\ \A l, m \in live : l # m => l.e <= m.p \/ m.e <= l.p
    /\ \A i \in DOMAIN blocks : blocks[i].start <= blocks[i].tip /\ blocks[i].tip <= blocks[i].end
=============================================================================
