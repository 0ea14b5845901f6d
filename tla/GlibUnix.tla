------------------------------- MODULE GlibUnix -------------------------------
(***************************************************************************)
(* The file-descriptor, pipe and source helpers of glib-unix.c, as one    *)
(* thread calls them in any order, with the main loop it iterates         *)
(* dispatching the sources they attached.                                  *)
(*                                                                         *)
(* The system calls and GLib's main context are the environment: pipe2,   *)
(* fcntl and g_unix_open_pipe_internal succeed or fail with an errno;     *)
(* g_set_error_literal and g_strerror may themselves change errno; a      *)
(* source attached to the context gets the next id (ids are not reused)   *)
(* and the context holds the only reference once the helper drops its     *)
(* own; a dispatch whose callback returns FALSE destroys the source.  A   *)
(* g_return_val_if_fail that fails logs a critical and returns.           *)
(* A file's status flags are the set of the flags set in the bit mask.    *)
(***************************************************************************)
EXTENDS Naturals, FiniteSets

CONSTANTS
    Errnos,      \* errnos a failing system call may leave
    MaxSources,  \* bound on the sources attached in one behaviour
    Signals      \* signal numbers callers pass

\* The flags g_unix_open_pipe supports, and one it does not.
PipeFlags == {"O_CLOEXEC", "FD_CLOEXEC", "O_NONBLOCK"}
Requests  == SUBSET (PipeFlags \cup {"O_APPEND"})

\* g_unix_signal_source_new's accepted signals.
WatchedSignals == {"SIGHUP", "SIGINT", "SIGTERM", "SIGUSR1", "SIGUSR2", "SIGWINCH"}

VARIABLES
    fd_flags,   \* the status flags of the descriptor the thread works on
    pipe,       \* the descriptor flags of the last pipe created
    errno,
    error,      \* the errno the last GError was made from, or "none"
    ret,        \* the last call and what it returned
    sources,    \* each id's source: "none", "fd", "fd-nocb", "signal", "destroyed"
    next_id

vars == <<fd_flags, pipe, errno, error, ret, sources, next_id>>

Ids == 1..MaxSources
Ret(call, ok, critical) == [call |-> call, ok |-> ok, critical |-> critical]

-----------------------------------------------------------------------------

\* g_unix_set_error_from_errno: build the GError from saved_errno, then
\* put saved_errno back into errno, whatever the GError calls did to it.
g_unix_set_error_from_errno(e) ==
    /\ error' = e
    /\ errno' = e

\* g_unix_open_pipe: unsupported flags fail the precondition; otherwise
\* the pipe gets close-on-exec for O_CLOEXEC or FD_CLOEXEC and O_NONBLOCK
\* for O_NONBLOCK, or the internal call fails and sets the error.
g_unix_open_pipe ==
    \E flags \in Requests :
        IF ~(flags \subseteq PipeFlags)
        THEN /\ ret' = Ret("open_pipe", FALSE, TRUE)
             /\ UNCHANGED <<fd_flags, pipe, errno, error, sources, next_id>>
        ELSE /\ \/ /\ pipe' = [created |-> TRUE,
                               cloexec |-> flags \cap {"O_CLOEXEC", "FD_CLOEXEC"} # {},
                               nonblock |-> "O_NONBLOCK" \in flags]
                   /\ ret' = Ret("open_pipe", TRUE, FALSE)
                   /\ UNCHANGED <<errno, error>>
                \/ \E e \in Errnos :
                   /\ g_unix_set_error_from_errno(e)
                   /\ ret' = Ret("open_pipe", FALSE, FALSE)
                   /\ UNCHANGED pipe
             /\ UNCHANGED <<fd_flags, sources, next_id>>

\* Mutant: the flags read by F_GETFL dropped; only O_NONBLOCK is written.
NewFlagsOnlyNonblock(flags, nonblock) ==
    IF nonblock THEN {"O_NONBLOCK"} ELSE {}

\* fcntl_flags |= O_NONBLOCK, or &= ~O_NONBLOCK.
NewFlags(flags, nonblock) ==
    IF nonblock THEN flags \cup {"O_NONBLOCK"} ELSE flags \ {"O_NONBLOCK"}

\* g_unix_set_fd_nonblocking: F_GETFL, then F_SETFL with O_NONBLOCK set or
\* cleared; either fcntl failing sets the error and returns FALSE.
g_unix_set_fd_nonblocking ==
    \E nonblock \in BOOLEAN :
        /\ \/ \E e \in Errnos :                       \* F_GETFL or F_SETFL fails
                /\ g_unix_set_error_from_errno(e)
                /\ ret' = Ret("set_fd_nonblocking", FALSE, FALSE)
                /\ UNCHANGED fd_flags
           \/ /\ fd_flags' = NewFlags(fd_flags, nonblock)
              /\ ret' = Ret("set_fd_nonblocking", TRUE, FALSE)
              /\ UNCHANGED <<errno, error>>
        /\ UNCHANGED <<pipe, sources, next_id>>

\* Attach a new source of the given kind: it gets the next id.
Attach(kind) ==
    /\ next_id <= MaxSources
    /\ sources' = [sources EXCEPT ![next_id] = kind]
    /\ next_id' = next_id + 1

\* g_unix_fd_add_full (and g_unix_fd_add): a NULL function fails the
\* precondition and returns 0; otherwise g_unix_fd_source_new, the
\* callback, g_source_attach, g_source_unref, and the id is returned.
g_unix_fd_add_full ==
    \E function \in {"NULL", "func"} :
        /\ IF function = "NULL"
           THEN /\ ret' = Ret("fd_add", FALSE, TRUE)
                /\ UNCHANGED <<sources, next_id>>
           ELSE /\ Attach("fd")
                /\ ret' = Ret("fd_add", TRUE, FALSE)
        /\ UNCHANGED <<fd_flags, pipe, errno, error>>

\* g_unix_fd_source_new attached by the caller without
\* g_source_set_callback.
g_unix_fd_source_new ==
    /\ Attach("fd-nocb")
    /\ ret' = Ret("fd_source_new", TRUE, FALSE)
    /\ UNCHANGED <<fd_flags, pipe, errno, error>>

\* g_unix_signal_add_full (and g_unix_signal_add): a signal
\* g_unix_signal_source_new refuses gives a NULL source, which
\* g_source_set_callback, g_source_attach (returning 0) and
\* g_source_unref each refuse in turn.
g_unix_signal_add_full ==
    \E signum \in Signals :
        /\ IF signum \in WatchedSignals
           THEN Attach("signal") /\ ret' = Ret("signal_add", TRUE, FALSE)
           ELSE ret' = Ret("signal_add", FALSE, TRUE) /\ UNCHANGED <<sources, next_id>>
        /\ UNCHANGED <<fd_flags, pipe, errno, error>>

\* A main-loop dispatch of a ready source.  g_unix_fd_source_dispatch
\* with no callback warns and returns FALSE; otherwise it returns what
\* the callback returns, as the signal source does.  FALSE destroys it.
g_unix_fd_source_dispatch ==
    \E id \in Ids :
        /\ sources[id] \in {"fd", "fd-nocb", "signal"}
        /\ \E keep \in IF sources[id] = "fd-nocb" THEN {FALSE} ELSE BOOLEAN :
              sources' = [sources EXCEPT ![id] = IF keep THEN @ ELSE "destroyed"]
        /\ UNCHANGED <<fd_flags, pipe, errno, error, ret, next_id>>

-----------------------------------------------------------------------------

Init ==
    /\ fd_flags \in {{}, {"O_APPEND"}}
    /\ pipe = [created |-> FALSE, cloexec |-> FALSE, nonblock |-> FALSE]
    /\ errno = "0"
    /\ error = "none"
    /\ ret = Ret("none", TRUE, FALSE)
    /\ sources = [id \in Ids |-> "none"]
    /\ next_id = 1

Next ==
    \/ g_unix_open_pipe \/ g_unix_set_fd_nonblocking
    \/ g_unix_fd_add_full \/ g_unix_fd_source_new \/ g_unix_signal_add_full
    \/ g_unix_fd_source_dispatch

Spec == Init /\ [][Next]_vars

-----------------------------------------------------------------------------
(* Properties.                                                             *)

\* g_unix_set_fd_nonblocking changes only O_NONBLOCK of the descriptor's
\* status flags (O_APPEND and the others read back by F_GETFL survive),
\* and changes nothing when it reports failure.
OnlyNonblockChanges ==
    [][fd_flags' # fd_flags =>
          /\ fd_flags' \ {"O_NONBLOCK"} = fd_flags \ {"O_NONBLOCK"}
          /\ ret'.ok]_vars

=============================================================================
