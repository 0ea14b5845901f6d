---------------------------- MODULE MC_Pagefox -----------------------------
(* Model-checking instance of Pagefox.                                     *)
EXTENDS Pagefox, TLC

\* Every combination of the decoded bits 1-4, plus $FF (the value the
\* header suggests for really disabling the cart, with the don't-care bits
\* set).
MC_RegValues == {\h00, \h02, \h04, \h08, \h0A, \h0C, \h10, \hFF}

MC_RamValues == {0, 255}
\* A power-up pattern holding both RAM values (ram.c's pattern is not
\* part of the modelled sources).
MC_RamPattern == 0 :> 255 @@ \h2000 :> 0 @@ \h4000 :> 255 @@ \h6000 :> 0
=============================================================================
