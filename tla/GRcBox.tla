------------------------------- MODULE GRcBox -------------------------------
(***************************************************************************)
(* GLib's reference-counted boxes (src/glib-main/glib/grcbox.c).           *)
(*                                                                         *)
(* g_rc_box_alloc_full() places a GRcBox header in front of the caller's   *)
(* block, padding the header to the requested alignment, and returns the   *)
(* address just past the padded header.  Every later call finds the header *)
(* again with G_RC_BOX(p) == p - G_RC_BOX_SIZE.                            *)
(*                                                                         *)
(* Addresses are offsets from the start of the g_malloc'd block, and gsize *)
(* arithmetic wraps at 2^GSIZE_BITS.  One box is tracked at a time: the    *)
(* header written by the allocation, the layout the allocation computed,  *)
(* and, as a history variable, how many references the callers hold.      *)
(***************************************************************************)
EXTENDS Naturals

CONSTANTS
    G_RC_BOX_SIZE,     \* sizeof (GRcBox) (grcboxprivate.h is not in src/)
    STRUCT_ALIGNMENT,  \* the alignment g_rc_box_alloc, _alloc0 and _dup pass
    GSIZE_BITS,        \* the width of gsize
    G_DISABLE_ASSERT,  \* TRUE when g_assert and the magic checks compile out
    Alignments,        \* alignments a caller may pass to g_rc_box_alloc_full
    BlockSizes,        \* block sizes callers request
    MaxRefs            \* bound on the references held at once

ASSUME G_DISABLE_ASSERT \in BOOLEAN
ASSUME Alignments \subseteq Nat \ {0} /\ BlockSizes \subseteq Nat

VARIABLES
    box,    \* "none", "live" or "freed"
    lay,    \* what g_rc_box_alloc_full computed for the live box
    hdr,    \* the GRcBox header it wrote: where, and its fields
    refs    \* references the callers hold (history)

vars == <<box, lay, hdr, refs>>

G_MAXSIZE == 2^GSIZE_BITS - 1

\* gsize addition: wraps modulo 2^GSIZE_BITS.
Add(a, b) == (a + b) % 2^GSIZE_BITS

-----------------------------------------------------------------------------
(* g_rc_box_alloc_full: the layout.                                        *)

\* Mutant: private_offset left at its initial 0.
PrivateOffsetZero(alignment) == 0

\* The header is padded up to a multiple of the alignment; the header's
\* size modulo the alignment is remembered as private_offset.
PrivateOffset(alignment) ==
    IF G_RC_BOX_SIZE % alignment # 0 THEN G_RC_BOX_SIZE % alignment ELSE 0

PrivateSize(alignment) ==
    IF G_RC_BOX_SIZE % alignment # 0
    THEN G_RC_BOX_SIZE + (alignment - (G_RC_BOX_SIZE % alignment))
    ELSE G_RC_BOX_SIZE

\* The unpadded real size, and its rounding up to the alignment.
RealSize(block_size, alignment) == Add(PrivateSize(alignment), block_size)

PaddedSize(real_size, alignment) ==
    IF real_size % alignment # 0
    THEN Add(real_size, alignment - (real_size % alignment))
    ELSE real_size

\* The two g_asserts that keep the sizes from wrapping.
SizeAssert(block_size, alignment) ==
    block_size < G_MAXSIZE - PrivateSize(alignment)

\* Mutant: the padding assertion left out.
PadAssertDropped(block_size, alignment) == TRUE

PadAssert(block_size, alignment) ==
    LET rs == RealSize(block_size, alignment) IN
    rs % alignment # 0 => rs < G_MAXSIZE - (alignment - (rs % alignment))

AssertsHold(block_size, alignment) ==
    G_DISABLE_ASSERT \/ (SizeAssert(block_size, alignment) /\ PadAssert(block_size, alignment))

Layout(block_size, alignment) ==
    [alignment      |-> alignment,
     private_offset |-> PrivateOffset(alignment),
     private_size   |-> PrivateSize(alignment),
     real_size      |-> PaddedSize(RealSize(block_size, alignment), alignment),
     block_size     |-> block_size,
     mem            |-> PrivateSize(alignment)]

-----------------------------------------------------------------------------
(* Finding the header again.                                               *)

\* G_RC_BOX(mem_block) lands on the header the allocation wrote.  When it
\* misses, the magic check reads other bytes and fails (or, without
\* asserts, the access goes to those bytes): the header is not touched.
HeaderHit == lay.mem - G_RC_BOX_SIZE = hdr.at

\* g_rc_box_get_size
GetSize == IF HeaderHit THEN hdr.mem_size ELSE 0

-----------------------------------------------------------------------------
(* Operations.                                                             *)

\* Mutant: the header's ref_count left as g_malloc found it (zero).
AllocFullNoInit(block_size, alignment) ==
    /\ box # "live"
    /\ AssertsHold(block_size, alignment)
    /\ box' = "live"
    /\ lay' = Layout(block_size, alignment)
    /\ hdr' = [at             |-> PrivateOffset(alignment),
               mem_size       |-> block_size,
               private_offset |-> PrivateOffset(alignment),
               ref_count      |-> 0]
    /\ refs' = 1

\* g_rc_box_alloc_full(block_size, alignment, atomic, clear): the header
\* goes at allocated + private_offset with ref_count 1, and the caller
\* gets allocated + private_size.  A failing g_assert aborts: no step.
AllocFull(block_size, alignment) ==
    /\ box # "live"
    /\ AssertsHold(block_size, alignment)
    /\ box' = "live"
    /\ lay' = Layout(block_size, alignment)
    /\ hdr' = [at             |-> PrivateOffset(alignment),
               mem_size       |-> block_size,
               private_offset |-> PrivateOffset(alignment),
               ref_count      |-> 1]
    /\ refs' = 1

\* g_rc_box_dup (and g_rc_box_alloc, g_rc_box_alloc0 alike): a zero size
\* returns NULL (a step that changes nothing); otherwise the default
\* alignment.  The contents dup copies and alloc0 clears are not modelled.
Alloc(block_size) ==
    /\ block_size > 0
    /\ AllocFull(block_size, STRUCT_ALIGNMENT)

\* g_rc_box_acquire by a caller holding a reference.
Acquire ==
    /\ box = "live"
    /\ refs \in 1..(MaxRefs - 1)
    /\ refs' = refs + 1
    /\ hdr' = IF HeaderHit THEN [hdr EXCEPT !.ref_count = @ + 1] ELSE hdr
    /\ UNCHANGED <<box, lay>>

\* Mutant: the block freed one release early.
ReleaseEarly ==
    /\ box = "live"
    /\ refs > 0
    /\ refs' = refs - 1
    /\ IF HeaderHit
       THEN /\ hdr' = [hdr EXCEPT !.ref_count = @ - 1]
            /\ box' = IF hdr.ref_count <= 2 THEN "freed" ELSE box
       ELSE UNCHANGED <<hdr, box>>
    /\ UNCHANGED lay

\* g_rc_box_release / g_rc_box_release_full by a caller dropping its
\* reference: the last one frees allocated = real_box - private_offset.
Release ==
    /\ box = "live"
    /\ refs > 0
    /\ refs' = refs - 1
    /\ IF HeaderHit
       THEN /\ hdr' = [hdr EXCEPT !.ref_count = @ - 1]
            /\ box' = IF hdr.ref_count = 1 THEN "freed" ELSE box
       ELSE UNCHANGED <<hdr, box>>
    /\ UNCHANGED lay

-----------------------------------------------------------------------------

Init ==
    /\ box = "none"
    /\ lay = Layout(0, STRUCT_ALIGNMENT)
    /\ hdr = [at |-> 0, mem_size |-> 0, private_offset |-> 0, ref_count |-> 0]
    /\ refs = 0

Next ==
    \/ \E b \in BlockSizes : Alloc(b)
    \/ \E b \in BlockSizes, a \in Alignments : AllocFull(b, a)
    \/ Acquire
    \/ Release

Spec == Init /\ [][Next]_vars

-----------------------------------------------------------------------------
(* Properties.                                                             *)

\* A live box's header holds a count in 1..MaxRefs (g_ref_count_init
\* starts it at one), however acquires and releases interleave with
\* reallocation.
TypeOK ==
    /\ box \in {"none", "live", "freed"}
    /\ refs \in 0..MaxRefs
    /\ hdr.ref_count \in 0..MaxRefs
    /\ box = "live" => hdr.ref_count \in 1..MaxRefs

\* The layout the comment at lines 113-117 draws,
\* |[ offset ][ sizeof(GRcBox) ]||[ block_size ]|: the header ends where
\* the block starts, so G_RC_BOX finds it, g_rc_box_get_size answers the
\* requested size, and release frees the address malloc returned.
HeaderFoundByMacro ==
    box = "live" =>
        /\ HeaderHit
        /\ hdr.at - hdr.private_offset = 0
        /\ GetSize = lay.block_size

\* The allocation covers the header and the whole block, and its size is
\* a multiple of the alignment (the comment at lines 70-72), for every
\* block size the asserts let through.
BlockFitsAllocation ==
    box = "live" =>
        /\ lay.mem + lay.block_size <= lay.real_size
        /\ lay.real_size % lay.alignment = 0

\* The count in the header is the number of references callers hold, and
\* the block is freed exactly when the last one is released.
RefCountTracksReferences ==
    /\ box = "live" => hdr.ref_count = refs /\ refs > 0
    /\ box = "freed" => refs = 0

=============================================================================
