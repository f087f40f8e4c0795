-------------------------------- MODULE Arena --------------------------------
(***************************************************************************)
(* The bump allocator of yacul/memory/arena.{h,cc}: a chain of malloc'd    *)
(* blocks, newest first, and marks that rewind it.  An arena is used by    *)
(* one thread, so a call is one action.                                    *)
(*                                                                         *)
(* The caller's side of the contract is in the guards: marks of one arena  *)
(* are rewound newest first (they are scoped objects), and an arena with   *)
(* outstanding marks is neither reset, moved nor destroyed.                *)
(***************************************************************************)
EXTENDS Integers, Sequences, FiniteSets

CONSTANTS Arenas,        \* Arena objects
          MarkSlots,     \* ArenaMark objects
          InitialSize,   \* initial_block_size_
          Factors,       \* what set_growth_factor is called with
          Header,        \* AlignUp(sizeof(Block), alignof(max_align_t))
          MallocAlign,   \* what malloc guarantees: alignof(max_align_t)
          Requests,      \* <<size, align>> of the allocations
          MaxBlocks,     \* bound: blocks alive at one time
          MaxLive        \* bound: allocations in use at one time

BlockIds == 1..MaxBlocks

VARIABLES chain,      \* current_ and the next pointers: newest block first
          block,      \* the malloc'd blocks: capacity, used, address of data()
          factor,     \* block_growth_factor_
          mark,       \* the ArenaMark objects
          live,       \* ghost: the allocations their users still rely on
          checkFailed \* a CHECK has failed

arenaVars == <<chain, block, factor, mark, live, checkFailed>>

Larger(m, n) == IF m > n THEN m ELSE n

AlignUp(value, align) == ((value + align - 1) \div align) * align

Alignments == {r[2] : r \in Requests}

\* The constructor checks the size, AllocBytes returns early for no bytes.
ASSUME ArenaAssumption ==
  /\ MaxBlocks \in Nat
  /\ IsFiniteSet(MarkSlots)
  /\ InitialSize \in Nat \ {0} /\ Header \in Nat /\ MallocAlign \in Nat \ {0}
  /\ Factors \subseteq Nat
  /\ Requests \subseteq (Nat \ {0}) \X (Nat \ {0})
  /\ \E a \in Alignments : \A b \in Alignments : b <= a

\* Only an address modulo the largest alignment matters.
Addresses ==
  LET largest == CHOOSE a \in Alignments : \A b \in Alignments : b <= a
  IN  {a \in 0..(largest - 1) : a % MallocAlign = 0}

NoBlock == [capacity |-> 0, used |-> 0, data |-> 0]
NoMark == [valid |-> FALSE]

ArenaInit ==
  /\ chain = [a \in Arenas |-> <<>>]
  /\ block = [b \in BlockIds |-> NoBlock]
  /\ factor = [a \in Arenas |-> 2]
  /\ mark = [m \in MarkSlots |-> NoMark]
  /\ live = {}
  /\ checkFailed = FALSE

BlocksOf(a) == {chain[a][i] : i \in DOMAIN chain[a]}

\* malloc, as a set that is empty when MaxBlocks blocks are alive and none of
\* those in `freed` is among them.  The identity of a block is of no interest.
Malloc(freed) ==
  LET unused == freed \cup {b \in BlockIds : block[b] = NoBlock}
  IN  {b \in unused : \A c \in unused : b <= c}

Free(blocks) == [b \in BlockIds |-> IF b \in blocks THEN NoBlock ELSE block[b]]

\* The valid marks of an arena; m is the youngest of its own.
Marks(a) == {m \in MarkSlots : mark[m].valid /\ mark[m].arena = a}
Newest(m) == \A n \in Marks(mark[m].arena) : mark[n].age <= mark[m].age

\* An arena that may be taken down: constructed, not moved from, no marks.
Settled(a) == chain[a] # <<>> /\ Marks(a) = {}

-----------------------------------------------------------------------------
(* Allocation *)

\* Arena(initial_size), or Reset() of an arena whose blocks are in `old`.
FreshArena(a, old) ==
  \E b \in Malloc(old), address \in Addresses :
    /\ chain' = [chain EXCEPT ![a] = <<b>>]
    /\ block' = [Free(old) EXCEPT
         ![b] = [capacity |-> InitialSize, used |-> 0, data |-> address]]
    /\ live' = {x \in live : x.block \notin old}

Construct(a) ==
  /\ chain[a] = <<>>
  /\ FreshArena(a, {})
  /\ factor' = [factor EXCEPT ![a] = 2]
  /\ UNCHANGED <<mark, checkFailed>>

Reset(a) ==
  /\ Settled(a)
  /\ FreshArena(a, BlocksOf(a))
  /\ UNCHANGED <<factor, mark, checkFailed>>

SetGrowthFactor(a, f) ==
  /\ chain[a] # <<>>
  /\ factor' = [factor EXCEPT ![a] = Larger(f, 1)]
  /\ UNCHANGED <<chain, block, mark, live, checkFailed>>

\* Mutant: the address of the block is taken for aligned.
Padding_OffsetOnly(blk, align) == AlignUp(blk.used, align) - blk.used

\* Block::TryAlloc: the bytes skipped to align the next allocation.
Padding(blk, align) ==
  AlignUp(blk.data + blk.used, align) - (blk.data + blk.used)

Fits(blk, size, align) ==
  Padding(blk, align) + size <= blk.capacity - blk.used

\* The capacity of the block made when the current one is exhausted.
NewCapacity(a, size, align) ==
  Larger(block[Head(chain[a])].capacity * factor[a],
         AlignUp(size + Header, align) + align)

\* blk, put at b, serves the request; where it cannot the CHECK fails.
Serve(b, blk, size, align) ==
  LET start == blk.used + Padding(blk, align) IN
    IF Fits(blk, size, align)
      THEN /\ block' = [block EXCEPT ![b] = [blk EXCEPT !.used = start + size]]
           /\ live' = live \cup
                {[block |-> b, from |-> start, to |-> start + size,
                  align |-> align]}
           /\ UNCHANGED checkFailed
      ELSE /\ block' = [block EXCEPT ![b] = blk]
           /\ checkFailed' = TRUE
           /\ UNCHANGED live

\* AllocBytes, and with it Alloc, AllocArray and ArenaAllocator::allocate.
AllocBytes(a, size, align) ==
  /\ chain[a] # <<>>
  /\ Cardinality(live) < MaxLive
  /\ LET current == Head(chain[a]) IN
       \/ /\ Fits(block[current], size, align)
          /\ Serve(current, block[current], size, align)
          /\ UNCHANGED chain
       \/ /\ ~Fits(block[current], size, align)
          /\ \E b \in Malloc({}), address \in Addresses :
               /\ Serve(b, [capacity |-> NewCapacity(a, size, align),
                            used |-> 0, data |-> address], size, align)
               /\ chain' = [chain EXCEPT ![a] = <<b>> \o @]
  /\ UNCHANGED <<factor, mark>>

-----------------------------------------------------------------------------
(* Moving and destroying arenas *)

\* Arena(Arena &&) and operator=(Arena &&): what dst owned is freed.
Move(dst, src) ==
  /\ dst # src
  /\ Settled(src)
  /\ Marks(dst) = {}
  /\ block' = Free(BlocksOf(dst))
  /\ live' = {x \in live : x.block \notin BlocksOf(dst)}
  /\ chain' = [chain EXCEPT ![dst] = chain[src], ![src] = <<>>]
  /\ factor' = [factor EXCEPT ![dst] = factor[src]]
  /\ UNCHANGED <<mark, checkFailed>>

\* ~Arena
Destroy(a) ==
  /\ Settled(a)
  /\ block' = Free(BlocksOf(a))
  /\ live' = {x \in live : x.block \notin BlocksOf(a)}
  /\ chain' = [chain EXCEPT ![a] = <<>>]
  /\ UNCHANGED <<factor, mark, checkFailed>>

-----------------------------------------------------------------------------
(* Marks.  The ghost fields remember the arena as it was: age counts the   *)
(* older marks, keep holds the allocations made before, saved the blocks.  *)

MarkArena(m, a) ==
  /\ ~mark[m].valid
  /\ chain[a] # <<>>
  /\ mark' = [mark EXCEPT ![m] =
       [valid |-> TRUE, arena |-> a, block |-> Head(chain[a]),
        used |-> block[Head(chain[a])].used,
        age |-> Cardinality(Marks(a)),
        keep |-> {x \in live : x.block \in BlocksOf(a)},
        saved |-> [i \in DOMAIN chain[a] |-> block[chain[a][i]]]]]
  /\ UNCHANGED <<chain, block, factor, live, checkFailed>>

\* Mutant: the offset is restored only in the block that was current.
RewindTo_KeepsOffset(a, target, used) ==
  LET at == CHOOSE i \in DOMAIN chain[a] : chain[a][i] = target
      dropped == {chain[a][i] : i \in 1..(at - 1)}
  IN  /\ chain' = [chain EXCEPT ![a] = SubSeq(@, at, Len(@))]
      /\ block' = IF at > 1 THEN Free(dropped)
                            ELSE [block EXCEPT ![target].used = used]

\* RewindTo: pop and free blocks until the one that was current is.
RewindTo(a, target, used) ==
  LET at == CHOOSE i \in DOMAIN chain[a] : chain[a][i] = target
      dropped == {chain[a][i] : i \in 1..(at - 1)}
  IN  /\ chain' = [chain EXCEPT ![a] = SubSeq(@, at, Len(@))]
      /\ block' = [Free(dropped) EXCEPT ![target].used = used]

RewindMark(m) ==
  LET a == mark[m].arena IN
    /\ RewindTo(a, mark[m].block, mark[m].used)
    /\ live' = {x \in live : x.block \notin BlocksOf(a)} \cup mark[m].keep

\* Rewind() or the destructor of a valid mark.
Rewind(m) ==
  /\ mark[m].valid
  /\ Newest(m)
  /\ RewindMark(m)
  /\ mark' = [mark EXCEPT ![m] = NoMark]
  /\ UNCHANGED <<factor, checkFailed>>

\* ArenaMark(ArenaMark &&) and operator=: a valid target is rewound first.
MoveMark(dst, src) ==
  /\ dst # src
  /\ mark[src].valid
  /\ mark' = [mark EXCEPT ![dst] = mark[src], ![src] = NoMark]
  /\ \/ ~mark[dst].valid /\ UNCHANGED <<chain, block, live>>
     \/ mark[dst].valid /\ Newest(dst) /\ RewindMark(dst)
  /\ UNCHANGED <<factor, checkFailed>>

ArenaNext ==
  /\ ~checkFailed
  /\ \/ \E a \in Arenas :
          \/ Construct(a)
          \/ Reset(a)
          \/ \E f \in Factors : SetGrowthFactor(a, f)
          \/ \E r \in Requests : AllocBytes(a, r[1], r[2])
          \/ \E src \in Arenas : Move(a, src)
          \/ Destroy(a)
     \/ \E m \in MarkSlots :
          \/ \E a \in Arenas : MarkArena(m, a)
          \/ Rewind(m)
          \/ \E src \in MarkSlots : MoveMark(m, src)

ArenaSpec == ArenaInit /\ [][ArenaNext]_arenaVars

-----------------------------------------------------------------------------
(* Properties *)

\* The state has its types; a block never hands out more than it has.
ArenaTypeOK ==
  /\ chain \in [Arenas -> Seq(BlockIds)]
  /\ \A b \in BlockIds : block[b].used \in 0..block[b].capacity
  /\ \A a \in Arenas : factor[a] >= 1
  /\ \A m \in MarkSlots : mark[m].valid => mark[m].arena \in Arenas
  /\ checkFailed \in BOOLEAN

\* The CHECK of AllocBytes (arena.cc:73) never fails: whatever address malloc
\* returned, a new block has room for the bytes and for aligning them.
FreshBlockFits == ~checkFailed

\* What users hold is theirs: an allocation in use lies in a block that is
\* not freed, below the block's fill level, aligned as asked, and overlaps no
\* other one, through growth, moves of the arena and rewinds to older marks.
LiveAllocationsIntact ==
  /\ \A x \in live :
       /\ block[x.block] # NoBlock
       /\ x.to <= block[x.block].used
       /\ (block[x.block].data + x.from) % x.align = 0
  /\ \A x, y \in live :
       x # y /\ x.block = y.block => x.to <= y.from \/ y.to <= x.from

\* Every malloc'd block is in the chain of exactly one arena, once: nothing
\* is leaked and nothing is freed twice.
BlocksOwnedOnce ==
  /\ \A b \in BlockIds :
       block[b] # NoBlock <=> \E a \in Arenas : b \in BlocksOf(a)
  /\ \A a, c \in Arenas : \A i \in DOMAIN chain[a], j \in DOMAIN chain[c] :
       chain[a][i] = chain[c][j] => a = c /\ i = j

\* What users and the chains rely on, through growth, marks and moves.
ArenaIntact ==
  ArenaTypeOK /\ FreshBlockFits /\ LiveAllocationsIntact /\ BlocksOwnedOnce

\* A mark that is rewound puts its arena back exactly as it was when the
\* mark was taken, however many blocks and older marks there are.
RewindRestores ==
  [][\A m \in MarkSlots :
       mark[m].valid /\ (\A n \in MarkSlots : mark'[n] # mark[m]) =>
         LET c == chain'[mark[m].arena] IN
           [i \in DOMAIN c |-> block'[c[i]]] = mark[m].saved]_arenaVars
=============================================================================
