---------------------------- MODULE BumpAllocator ---------------------------
(* pvm_bump_allocator::BumpAllocator as the global allocator of one        *)
(* contract execution: what `alloc`, `alloc_zeroed`, `dealloc` and the     *)
(* default `realloc` of GlobalAlloc hand out, and what their callers write *)
(* there.                                                                  *)
EXTENDS Integers

CONSTANTS
  HeapSize,     \* HEAP_SIZE
  HeapBase,     \* address the linker gives `heap`
  WordAlign,    \* alignment of usize, which the static and so `heap` have
  UsizeLimit,   \* usize::MAX + 1
  Layouts       \* the [size, align] callers ask for

Aligns == {l.align : l \in Layouts}

\* Rust bounds: an object is at most isize::MAX bytes, and so is a Layout
\* after its size is rounded up to its alignment.
ASSUME AllocatorAssumption ==
  /\ HeapSize \in Nat /\ HeapBase \in Nat /\ WordAlign \in Nat \ {0}
  /\ HeapBase % WordAlign = 0
  /\ UsizeLimit \in Nat
  /\ 2 * HeapSize < UsizeLimit
  /\ Layouts \subseteq [size : Nat \ {0}, align : Nat \ {0}]
  /\ \A l \in Layouts : 2 * (l.size + l.align - 1) < UsizeLimit

VARIABLES
  offset,    \* Cell<usize>
  blocks,    \* regions handed out and not yet deallocated
  dirty,     \* heap bytes that hold something else than zero
  status     \* "running", or "panicked" with "exhausted heap limit"

heapVars == <<offset, blocks, dirty, status>>

Block == [at : Nat, size : Nat \ {0}, align : Nat \ {0}]
Bytes(b) == b.at .. (b.at + b.size - 1)
Unpanicked == status = "running"

-----------------------------------------------------------------------------
(* alloc                                                                   *)

\* (current + align - 1) & !(align - 1), in usize arithmetic: the alignment is
\* a power of two, so the mask rounds down to a multiple of it.
RoundUp_Down(n, a) == n - (n % a)   \* mutant: the addend is forgotten
RoundUp_None(n, a) == n             \* mutant: the alignment is ignored
RoundUp(n, a) == LET sum == (n + a - 1) % UsizeLimit IN sum - (sum % a)

Aligned(l) == RoundUp(offset, l.align)

\* checked_add, then the limit; the mutant has `>=` for `>`.
Fits_Short(l) == Aligned(l) + l.size < HeapSize
Fits(l) == Aligned(l) + l.size < UsizeLimit /\ Aligned(l) + l.size <= HeapSize

Placed(l) == [at |-> Aligned(l), size |-> l.size, align |-> l.align]

Alloc(l) ==
  /\ Unpanicked
  /\ Fits(l)
  /\ offset' = Aligned(l) + l.size
  /\ blocks' = blocks \union {Placed(l)}
  /\ UNCHANGED <<dirty, status>>

\* alloc_zeroed is alloc: it clears nothing.
AllocZeroed(l) == Alloc(l)

\* The panic aborts the execution; the offset is not moved.
Exhausted(l) ==
  /\ Unpanicked
  /\ ~Fits(l)
  /\ status' = "panicked"
  /\ UNCHANGED <<offset, blocks, dirty>>

\* Mutant: the space is taken back.
Dealloc_Reclaims(b) ==
  /\ Unpanicked
  /\ blocks' = blocks \ {b}
  /\ offset' = IF offset = b.at + b.size THEN b.at ELSE offset
  /\ UNCHANGED <<dirty, status>>

\* dealloc is a no-op: the caller gives the region up, the allocator keeps it.
Dealloc(b) ==
  /\ Unpanicked
  /\ blocks' = blocks \ {b}
  /\ UNCHANGED <<offset, dirty, status>>

\* The default realloc: alloc with the old alignment, copy, dealloc.
Realloc(b, l) ==
  /\ Unpanicked
  /\ l.align = b.align
  /\ Fits(l)
  /\ offset' = Aligned(l) + l.size
  /\ blocks' = (blocks \ {b}) \union {Placed(l)}
  /\ dirty' = (dirty \ Bytes(Placed(l))) \union
       {k \in Bytes(Placed(l)) : k - Aligned(l) < b.size /\ k - Aligned(l) + b.at \in dirty}
  /\ UNCHANGED status

\* The owner of a region stores a byte.
Store(b, k) ==
  /\ Unpanicked
  /\ k \in Bytes(b)
  /\ dirty' = dirty \union {k}
  /\ UNCHANGED <<offset, blocks, status>>

-----------------------------------------------------------------------------
HeapInit ==
  /\ offset = 0
  /\ blocks = {}
  /\ dirty = {}
  /\ status = "running"

HeapNext ==
  \/ \E l \in Layouts : Alloc(l) \/ AllocZeroed(l) \/ Exhausted(l)
  \/ \E b \in blocks : Dealloc(b)
  \/ \E b \in blocks, l \in Layouts : Realloc(b, l)
  \/ \E b \in blocks, k \in 0..(HeapSize - 1) : Store(b, k)

HeapSpec == HeapInit /\ [][HeapNext]_heapVars

-----------------------------------------------------------------------------
(* Properties                                                              *)

HeapTypeOK ==
  /\ offset \in 0..HeapSize
  /\ blocks \subseteq Block
  /\ dirty \subseteq 0..(HeapSize - 1)
  /\ status \in {"running", "panicked"}

\* Regions lie in the heap and no two of them share a byte, however aligned,
\* reallocated or freed: nothing one owner writes is seen by another.
Disjoint ==
  /\ \A b \in blocks : Bytes(b) \subseteq 0..(HeapSize - 1)
  /\ \A b, c \in blocks : b # c => Bytes(b) \intersect Bytes(c) = {}

\* "memory is never reused, so every region returned by `alloc` is already
\* zeroed" (lib.rs:72): a region alloc_zeroed hands out holds no stray byte.
ZeroedIsZero ==
  [][\A l \in Layouts : AllocZeroed(l) => Bytes(Placed(l)) \intersect dirty = {}]_heapVars

\* A pointer honours its layout's alignment up to that of the heap itself.
PointersAligned ==
  \A b \in blocks : WordAlign % b.align = 0 => (HeapBase + b.at) % b.align = 0

\* The heap is only refused when no aligned region of that size is left above
\* the last one.
RefusedOnlyWhenFull ==
  [][\A l \in Layouts : Exhausted(l) =>
       ~\E at \in offset..HeapSize : at % l.align = 0 /\ at + l.size <= HeapSize]_heapVars
=============================================================================
