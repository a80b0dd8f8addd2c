----------------------------- MODULE MemBlocks ------------------------------
(***************************************************************************)
(* The pool of memory blocks (utils/memblocks): categories of blocks of    *)
(* one size each, every one with a stack of free blocks, and malloc for    *)
(* what the pool does not have.  A block <<c, n>> is the n-th block of     *)
(* category c, <<0, n>> one from malloc.                                   *)
(***************************************************************************)
EXTENDS Integers, Sequences, FiniteSets, Functions

CONSTANTS
  Base,      \* m_mem_base_size, the size of the first category
  Counts     \* blocks of each category, mblklist

ASSUME PoolAssumption == Base \in Nat \ {0} /\ Counts \in Seq(Nat \ {0})

VARIABLES
  stack,  \* memlisthead of each category, the top first
  extra   \* blocks from malloc that are in use

Cats == DOMAIN Counts
SizeOf(c) == Base * 2^(c - 1)
PoolBlocks == UNION {{<<c, n>> : n \in 1..Counts[c]} : c \in Cats}

\* The constructor: the last block of a category is on top.
PoolInit ==
  /\ stack = [c \in Cats |-> [n \in 1..Counts[c] |-> <<c, Counts[c] - n + 1>>]]
  /\ extra = {}

\* The category an allocation comes from: the size must be the very same.
From(size) == {c \in Cats : SizeOf(c) = size /\ stack[c] # <<>>}

\* The block that AllocMem(size) returns.
Allocated(size) ==
  IF From(size) # {}
    THEN Head(stack[CHOOSE c \in From(size) : TRUE])
    ELSE <<0, CHOOSE n \in 1..Cardinality(extra) + 1 : <<0, n>> \notin extra>>

\* Mutant: a block from malloc is taken for one of the pool.
BelongsToPool(b, c) == b[1] = c \/ (b[1] = 0 /\ c = 1)

\* FreeMem knows the category of a block by its address.
BelongsTo(b, c) == b[1] = c

\* FreeMem(x) of a block of the pool: it is the top of its category's stack.
Pushed(st, x) == [c \in Cats |-> IF BelongsTo(x, c) THEN <<x>> \o st[c] ELSE st[c]]

\* The stacks after FreeMem of the blocks of freed, the first one first.
PushedAll(st, freed) ==
  LET free[i \in 0..Len(freed)] == IF i = 0 THEN st ELSE Pushed(free[i - 1], freed[i])
  IN free[Len(freed)]

\* AllocMem(size), if the size is not 0, then FreeMem of the blocks of freed.
PoolStep(size, freed) ==
  LET b == IF size = 0 THEN <<>> ELSE Allocated(size)
      left == [c \in Cats |-> IF b # <<>> /\ b[1] = c THEN Tail(stack[c]) ELSE stack[c]]
  IN /\ stack' = PushedAll(left, freed)
     /\ extra' = (IF b # <<>> /\ b[1] = 0 THEN extra \cup {b} ELSE extra)
                   \ {x \in Range(freed) : \A c \in Cats : ~BelongsTo(x, c)}
=============================================================================
