------------------------------ MODULE MC_GRcBox ------------------------------
(* GRcBox for the repository's 32-bit glibconfig.h (GLIB_SIZEOF_VOID_P 4): *)
(* four 4-byte header fields, STRUCT_ALIGNMENT 2 * sizeof (gsize) = 8.     *)
(* gsize is scaled down to 8 bits so that sizes next to G_MAXSIZE can be   *)
(* enumerated; the asserts' arithmetic does not depend on the width.       *)
EXTENDS GRcBox

\* With the magic field (asserts on) and without it (G_DISABLE_ASSERT).
MC_BoxSizeAsserts   == 16
MC_BoxSizeNoAsserts == 12

\* Small blocks, and the sizes at which each assert starts to fire for
\* the 16-byte private size: 238 passes the first and fails the second,
\* 239 fails the first.
MC_BlockSizes == {0, 1, 5, 8, 16, 100, 200, 231, 232, 238, 239}

MC_Alignments      == {8, 16, 32}
MC_LargeAlignments == {8, 16, 32, 64}
=============================================================================
