---------------------------- MODULE GlibUnixCalls ----------------------------
(***************************************************************************)
(* One thread calling the glib-unix.c helpers: g_unix_get_passwd_entry     *)
(* (PasswdEntry) and the pipe, fd and source helpers (GlibUnix).  They     *)
(* share errno and the GError the caller last received: the passwd loop's *)
(* failures go through the same g_unix_set_error_from_errno as the fcntl   *)
(* and pipe failures.  A call runs to its end before the thread makes the  *)
(* next one, so the helpers never start while g_unix_get_passwd_entry is  *)
(* between its first and last step.                                        *)
(***************************************************************************)
EXTENDS Naturals

CONSTANTS SysconfResults, Needed, NotFound, Errnos, MaxSources, Signals

VARIABLES
    pc, needed, start_size, string_buffer_size, buffer, live_blocks,
    passwd_file_entry, local_error, result,
    fd_flags, pipe, errno, error, ret, sources, next_id

pe_vars == <<pc, needed, start_size, string_buffer_size, buffer, live_blocks,
             passwd_file_entry, local_error, result>>
gu_vars == <<fd_flags, pipe, errno, error, ret, sources, next_id>>
vars    == <<pe_vars, gu_vars>>

PE == INSTANCE PasswdEntry
GU == INSTANCE GlibUnix

\* g_unix_get_passwd_entry's loop leaves by an error: the Call step that
\* sets local_error calls g_unix_set_error_from_errno (retval).
PasswdFails == PE!Call /\ local_error' # "none"

\* A step of g_unix_get_passwd_entry; its error paths set errno and the
\* error, and a NULL return is the thread's last call's result.
PEStep ==
    /\ PE!Next
    /\ IF PasswdFails THEN GU!g_unix_set_error_from_errno(local_error')
                      ELSE UNCHANGED <<errno, error>>
    /\ ret' = IF PE!Finish THEN GU!Ret("get_passwd_entry", result' = "buffer", FALSE)
                           ELSE ret
    /\ UNCHANGED <<fd_flags, pipe, sources, next_id>>

\* A helper call, or a main-loop dispatch, while no passwd lookup is under way.
GUStep ==
    /\ pc = "start" \/ PE!Returned
    /\ GU!Next
    /\ UNCHANGED pe_vars

Init == PE!Init /\ GU!Init

Next == PEStep \/ GUStep

Spec == Init /\ [][Next]_vars
             /\ WF_pe_vars(PE!Begin \/ PE!Allocate \/ PE!Call \/ PE!Finish)

-----------------------------------------------------------------------------

TypeOK ==
    /\ PE!TypeOK
    /\ fd_flags \subseteq {"O_APPEND", "O_NONBLOCK"}
    /\ errno \in Errnos \cup PE!NotFoundErrnos \cup {"ERANGE", PE!OtherErrno}
    /\ sources \in [GU!Ids -> {"none", "fd", "fd-nocb", "signal", "destroyed"}]
    /\ next_id \in 1..MaxSources + 1

=============================================================================
