----------------------------- MODULE PasswdEntry -----------------------------
(***************************************************************************)
(* g_unix_get_passwd_entry (src/glib-main/glib/glib-unix.c, 433-524).      *)
(*                                                                         *)
(* The buffer for getpwnam_r starts at sysconf (_SC_GETPW_R_SIZE_MAX), or  *)
(* 64 when that gives nothing, and the loop frees the old buffer,          *)
(* allocates a zeroed one and calls getpwnam_r until it finds the entry,   *)
(* the name is not found, an error other than ERANGE comes back, or the    *)
(* buffer has grown past 32K.  getpwnam_r is the environment: it needs     *)
(* `needed` bytes of strings for the user (NotFound when there is no such  *)
(* user), and may fail with another errno at any call.                     *)
(***************************************************************************)
EXTENDS Naturals

CONSTANTS
    SysconfResults,  \* what sysconf (_SC_GETPW_R_SIZE_MAX) may return
    Needed,          \* string bytes each possible user's entry takes
    NotFound         \* the user does not exist

\* The errnos the loop tells apart.
NotFoundErrnos == {"0", "ENOENT", "ESRCH", "EBADF", "EPERM"}
OtherErrno == "EIO"   \* any other failure (EIO, EMFILE, ENFILE, EINTR ...)

VARIABLES
    pc,                   \* "start", "loop", "call" or "done"
    needed,               \* the user looked up (chosen by the caller)
    start_size,           \* the size the loop started with
    string_buffer_size,
    buffer,               \* 0 (NULL), or the size of the live g_malloc0 block
    live_blocks,          \* g_malloc'd blocks not yet freed (history)
    passwd_file_entry,    \* TRUE once getpwnam_r has filled the entry
    local_error,          \* "none" or the errno it was set from
    result                \* what the call returned: "none", "NULL" or "buffer"

vars == <<pc, needed, start_size, string_buffer_size, buffer, live_blocks,
          passwd_file_entry, local_error, result>>

\* The cap on growth: string_buffer_size > 32 * 1024 ends the loop.
ERANGE_CAP == 32 * 1024

-----------------------------------------------------------------------------

\* The sysconf probe and the default starting size (lines 445-459).
Begin ==
    /\ pc = "start"
    /\ \E n \in Needed \cup {NotFound}, s \in SysconfResults :
         /\ needed' = n
         /\ string_buffer_size' = IF s > 0 THEN s ELSE 64
         /\ start_size' = string_buffer_size'
    /\ pc' = "loop"
    /\ UNCHANGED <<buffer, live_blocks, passwd_file_entry, local_error, result>>

\* What getpwnam_r may return for a buffer of the given size.
GetpwnamResults(size) ==
    IF needed = NotFound THEN NotFoundErrnos \cup {OtherErrno}
    ELSE IF needed > size THEN {"ERANGE", OtherErrno}
    ELSE {"found", OtherErrno}

Grow2(size) == size * 2

\* Mutant: the cap raised to 64K.
RangeExhaustedLate(size) == size > 2 * ERANGE_CAP

\* ERANGE with a buffer already past the cap gives up.
RangeExhausted(size) == size > ERANGE_CAP

\* Mutant: the g_free of the previous buffer left out.
AllocateNoFree ==
    /\ pc = "loop"
    /\ buffer' = string_buffer_size
    /\ live_blocks' = live_blocks + 1
    /\ pc' = "call"
    /\ UNCHANGED <<needed, start_size, string_buffer_size, passwd_file_entry,
                   local_error, result>>

\* The top of the do-while (lines 461-471): g_free (buffer); buffer =
\* g_malloc0 (sizeof (*buffer) + string_buffer_size + 6).
Allocate ==
    /\ pc = "loop"
    /\ buffer' = string_buffer_size
    /\ live_blocks' = live_blocks - (IF buffer = 0 THEN 0 ELSE 1) + 1
    /\ pc' = "call"
    /\ UNCHANGED <<needed, start_size, string_buffer_size, passwd_file_entry,
                   local_error, result>>

\* getpwnam_r and the four ways out of the loop, or round again (lines
\* 473-511).
Call ==
    /\ pc = "call"
    /\ \E r \in GetpwnamResults(string_buffer_size) :
         /\ passwd_file_entry' = (r = "found")
         /\ IF r = "ERANGE" /\ ~RangeExhausted(string_buffer_size)
            THEN /\ string_buffer_size' = Grow2(string_buffer_size)
                 /\ pc' = "loop"
                 /\ UNCHANGED local_error
            ELSE /\ pc' = "done"
                 /\ local_error' = IF r = "found" THEN "none" ELSE r
                 /\ UNCHANGED string_buffer_size
    /\ UNCHANGED <<needed, start_size, buffer, live_blocks, result>>

\* Mutant: the error path returns NULL without freeing the buffer.
FinishNoFree ==
    /\ pc = "done"
    /\ result = "none"
    /\ result' = IF local_error # "none" THEN "NULL" ELSE "buffer"
    /\ UNCHANGED <<pc, needed, start_size, string_buffer_size, buffer,
                   live_blocks, passwd_file_entry, local_error>>

\* After the loop (lines 513-524): on error the buffer is freed and the
\* error propagated; the buffer (or NULL) is returned.
Finish ==
    /\ pc = "done"
    /\ result = "none"
    /\ IF local_error # "none"
       THEN /\ buffer' = 0
            /\ live_blocks' = live_blocks - 1
            /\ result' = "NULL"
       ELSE /\ result' = "buffer"
            /\ UNCHANGED <<buffer, live_blocks>>
    /\ UNCHANGED <<pc, needed, start_size, string_buffer_size,
                   passwd_file_entry, local_error>>

-----------------------------------------------------------------------------

Init ==
    /\ pc = "start"
    /\ needed = NotFound
    /\ start_size = 0
    /\ string_buffer_size = 0
    /\ buffer = 0
    /\ live_blocks = 0
    /\ passwd_file_entry = FALSE
    /\ local_error = "none"
    /\ result = "none"

\* The caller's thread runs the function to its end.
Returned == pc = "done" /\ result # "none"

Next == Begin \/ Allocate \/ Call \/ Finish \/ (Returned /\ UNCHANGED vars)

\* Weak fairness: the calling thread keeps running.  Nothing forces
\* getpwnam_r to answer one way rather than another.
Spec == Init /\ [][Next]_vars /\ WF_vars(Begin \/ Allocate \/ Call \/ Finish)

-----------------------------------------------------------------------------
(* Properties.                                                             *)

TypeOK ==
    /\ pc \in {"start", "loop", "call", "done"}
    /\ live_blocks \in 0..1
    /\ local_error \in {"none", "ERANGE", OtherErrno} \cup NotFoundErrnos
    /\ result \in {"none", "NULL", "buffer"}

\* No buffer ever passed to getpwnam_r is larger than the start size or
\* 64K, whichever is more: the doubling stops at the 32K cap.
BufferBounded ==
    buffer # 0 =>
        buffer <= IF start_size > 2 * ERANGE_CAP THEN start_size ELSE 2 * ERANGE_CAP

\* On return exactly one of these holds: an entry that fits in the
\* returned block, which is the only live block; or NULL with an error
\* set and no block left allocated.
ReturnsEntryOrError ==
    result # "none" =>
        \/ /\ result = "buffer" /\ passwd_file_entry /\ local_error = "none"
           /\ needed # NotFound /\ needed <= buffer /\ live_blocks = 1
        \/ /\ result = "NULL" /\ local_error # "none" /\ live_blocks = 0

=============================================================================
