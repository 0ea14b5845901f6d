--------------------------- MODULE MC_Snapshot64 ---------------------------
(* Snapshot64 instantiated for TLC: three ROM images, two stored values.  *)
EXTENDS Snapshot64, TLC

MC_Images == {\h00, \hA9, \h4C}
MC_StoreValues == {\h00, \hFF}
=============================================================================
