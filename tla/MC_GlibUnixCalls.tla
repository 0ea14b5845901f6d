-------------------------- MODULE MC_GlibUnixCalls --------------------------
(* sysconf failing (64 is used), a typical answer, and one already past  *)
(* the 32K cap; entries that fit at once, after some doublings, and never *)
(* (larger than the last size tried).  One errno a system call fails    *)
(* with (which errno does not change any branch), one source slot (enough *)
(* for each helper to attach and for its dispatch to destroy it), and a    *)
(* watched and an unwatched signal.                                        *)
EXTENDS GlibUnixCalls, Integers

MC_SysconfResults == {-1, 1024, 40000}
MC_Needed == {100, 20000, 100000}
MC_Errnos == {"EIO"}
MC_Signals == {"SIGTERM", "SIGPIPE"}

\* PasswdEntry: no buffer passed to getpwnam_r exceeds the start size or 64K.
BufferBounded == PE!BufferBounded

\* PasswdEntry: the call returns the one live block holding the entry, or
\* NULL with an error and nothing allocated.
ReturnsEntryOrError == PE!ReturnsEntryOrError

OnlyNonblockChanges == GU!OnlyNonblockChanges
=============================================================================
