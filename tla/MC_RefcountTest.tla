--------------------------- MODULE MC_RefcountTest ---------------------------
(* RefcountTest with three workers per object instead of the test's five. *)
(* Two workers on one object already give every order of one worker's    *)
(* ref/unref against another's and against the main thread's final unref; *)
(* the third makes joins wait on workers that are still looping.  Five    *)
(* workers per object (1.49M states) check in about four and a half       *)
(* minutes with the same result.                                          *)
EXTENDS RefcountTest
=============================================================================
