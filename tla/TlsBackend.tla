------------------------------ MODULE TlsBackend ------------------------------
(***************************************************************************)
(* The default database of GTlsBackend (src/glib-main/gio/gtlsbackend.c)   *)
(* as threads really run it: default_database is guarded by               *)
(* default_database_lock, and g_tls_backend_get_default_database takes    *)
(* the lock, creates the database lazily through the backend's vfunc,     *)
(* takes a reference for the caller and unlocks, one step at a time.      *)
(* g_tls_backend_set_default_database does g_set_object under the lock.   *)
(* Callers also create databases of their own and drop references, with   *)
(* no lock.  Reference counts are atomic, so each ref or unref is a step; *)
(* the last unref finalizes the database.                                 *)
(*                                                                         *)
(* A caller first gets the backend: g_tls_backend_get_default creates the *)
(* process's singleton once, through g_once_init_enter/leave (GLib's      *)
(* once-initialization, outside these sources: the first caller to enter  *)
(* initializes, later ones wait until it leaves, then all read the value). *)
(***************************************************************************)
EXTENDS Naturals, Sequences, FiniteSets

CONSTANTS
    Callers,    \* threads using the backend
    Databases,  \* GTlsDatabase objects that may be created
    Backends,   \* the TLS backends _g_io_module_get_default may pick
    DummyBackend, \* GIO's GDummyTlsBackend, picked when no module is found
    VTable,     \* the optional GTlsBackendInterface vfuncs each backend sets
    NULL,
    NoOwner

ASSUME NULL \notin Databases /\ NoOwner \notin Callers /\ DummyBackend \in Backends

VARIABLES
    lock,              \* default_database_lock: its owner, or NoOwner
    default_database,  \* the static default_database
    refcount,          \* each database's reference count
    status,            \* "unused", "live" or "finalized"
    pc,                \* <<call, step>> of each caller, <<"idle", 0>> between calls
    arg,               \* the database a call is working on (db, or the set argument)
    held,              \* the reference each caller holds, or NULL
    once,              \* the GOnce state of tls_backend_default_singleton
    singleton,         \* tls_backend_default_singleton
    backend,           \* the backend each caller got, or NULL
    answer             \* the last interface query and what it returned

vars == <<lock, default_database, refcount, status, pc, arg, held, once, singleton, backend, answer>>

db_vars == <<lock, default_database, refcount, status, arg, held>>

Idle == <<"idle", 0>>

\* Mutant: the lock released before the caller's reference is taken.
GetOrderUnlockFirst == <<"lock", "init", "unlock", "ref">>

\* The steps of g_tls_backend_get_default_database, in program order.
GetOrder == <<"lock", "init", "ref", "unlock">>

SetOrder == <<"lock", "set", "unlock">>

\* g_tls_backend_get_default: g_once_init_enter, then the initializer's
\* _g_io_module_get_default and g_once_init_leave.
DefaultOrder == <<"enter", "leave">>

Order(call) == CASE call = "get" -> GetOrder
               []   call = "set" -> SetOrder
               []   OTHER        -> DefaultOrder

\* Caller c is at the given step of a call.
At(c, call, step) ==
    /\ pc[c][1] = call
    /\ Order(call)[pc[c][2]] = step

\* Caller c moves on to the next step of its call, or returns.
Advance(c) ==
    pc' = [pc EXCEPT ![c] = IF @[2] = Len(Order(@[1])) THEN Idle
                            ELSE <<@[1], @[2] + 1>>]

\* Reference-count changes by one: +1 for x = up, -1 for x = down; a
\* count that reaches zero finalizes the database.
Counted(up, down) ==
    [x \in Databases |-> refcount[x] + (IF x = up THEN 1 ELSE 0)
                                      - (IF x = down THEN 1 ELSE 0)]

Finalized(rc) ==
    [x \in Databases |-> IF status[x] = "live" /\ rc[x] = 0 THEN "finalized"
                         ELSE status[x]]

-----------------------------------------------------------------------------
(* g_tls_backend_get_default (lines 110-126).                              *)

\* A caller that has no backend yet asks for it.
CallGetDefault(c) ==
    /\ pc[c] = Idle
    /\ backend[c] = NULL
    /\ pc' = [pc EXCEPT ![c] = <<"default", 1>>]
    /\ UNCHANGED <<db_vars, once, singleton, backend, answer>>

\* Mutant: a plain "if (!singleton)" test in place of g_once_init_enter:
\* nothing marks the initialization as under way.
OnceEnterUnguarded(c) ==
    /\ At(c, "default", "enter")
    /\ IF singleton # NULL
       THEN /\ backend' = [backend EXCEPT ![c] = singleton]
            /\ pc' = [pc EXCEPT ![c] = Idle]
       ELSE /\ Advance(c) /\ UNCHANGED backend
    /\ UNCHANGED <<db_vars, once, singleton, answer>>

\* g_once_init_enter_pointer: TRUE for the first caller, which goes on to
\* initialize; a caller arriving during the initialization waits; once it
\* is done the call returns the singleton.
OnceEnter(c) ==
    /\ At(c, "default", "enter")
    /\ once # "busy"
    /\ IF once = "done"
       THEN /\ backend' = [backend EXCEPT ![c] = singleton]
            /\ pc' = [pc EXCEPT ![c] = Idle]
            /\ UNCHANGED once
       ELSE /\ once' = "busy"
            /\ Advance(c)
            /\ UNCHANGED backend
    /\ UNCHANGED <<db_vars, singleton, answer>>

\* Mutant: the singleton published without g_once_init_leave marking the
\* initialization done.
OnceLeaveNoDone(c) ==
    /\ At(c, "default", "leave")
    /\ \E b \in Backends :
         /\ singleton' = b
         /\ backend' = [backend EXCEPT ![c] = b]
    /\ Advance(c)
    /\ UNCHANGED <<db_vars, once, answer>>

\* singleton = _g_io_module_get_default (...); g_once_init_leave_pointer
\* publishes it, and the call returns it.
OnceLeave(c) ==
    /\ At(c, "default", "leave")
    /\ \E b \in Backends :
         /\ singleton' = b
         /\ backend' = [backend EXCEPT ![c] = b]
    /\ once' = "done"
    /\ Advance(c)
    /\ UNCHANGED <<db_vars, answer>>

-----------------------------------------------------------------------------
(* g_tls_backend_get_default_database (lines 180-199).                     *)

\* The call begins (the vfunc exists: the early return is not taken) on
\* the backend the caller got; a caller asks only while it holds no
\* reference.
CallGet(c) ==
    /\ pc[c] = Idle
    /\ backend[c] # NULL
    /\ held[c] = NULL
    /\ pc' = [pc EXCEPT ![c] = <<"get", 1>>]
    /\ UNCHANGED <<lock, default_database, refcount, status, arg, held, once, singleton, backend, answer>>

\* Mutant: the G_LOCK left out; the step goes on whoever holds the lock.
TakeLockUnguarded(c, call) ==
    /\ At(c, call, "lock")
    /\ lock' = c
    /\ Advance(c)
    /\ UNCHANGED <<default_database, refcount, status, arg, held, once, singleton, backend, answer>>

\* G_LOCK (default_database_lock); also the set's lock step.
TakeLock(c, call) ==
    /\ At(c, call, "lock")
    /\ lock = NoOwner
    /\ lock' = c
    /\ Advance(c)
    /\ UNCHANGED <<default_database, refcount, status, arg, held, once, singleton, backend, answer>>

\* if (!default_database) default_database = iface->get_default_database
\* (backend): the vfunc returns a new database (transfer full) or NULL.
\* Then db is read from default_database.
LazyInit(c) ==
    /\ At(c, "get", "init")
    /\ IF default_database = NULL
       THEN \/ \E d \in Databases :
                 /\ status[d] = "unused"
                 /\ default_database' = d
                 /\ status' = [status EXCEPT ![d] = "live"]
                 /\ refcount' = [refcount EXCEPT ![d] = 1]
                 /\ arg' = [arg EXCEPT ![c] = d]
            \/ /\ arg' = [arg EXCEPT ![c] = NULL]
               /\ UNCHANGED <<default_database, refcount, status>>
       ELSE /\ arg' = [arg EXCEPT ![c] = default_database]
            /\ UNCHANGED <<default_database, refcount, status>>
    /\ Advance(c)
    /\ UNCHANGED <<lock, held, once, singleton, backend, answer>>

\* db = default_database ? g_object_ref (default_database) : NULL, which
\* the call returns to the caller.
RefForCaller(c) ==
    /\ At(c, "get", "ref")
    /\ refcount' = Counted(arg[c], NULL)
    /\ held' = [held EXCEPT ![c] = arg[c]]
    /\ Advance(c)
    /\ UNCHANGED <<lock, default_database, status, arg, once, singleton, backend, answer>>

\* G_UNLOCK (default_database_lock); also the set's unlock step.
ReleaseLock(c, call) ==
    /\ At(c, call, "unlock")
    /\ lock' = NoOwner
    /\ Advance(c)
    /\ UNCHANGED <<default_database, refcount, status, arg, held, once, singleton, backend, answer>>

-----------------------------------------------------------------------------
(* g_tls_backend_set_default_database (lines 217-227).                     *)

\* The call begins with NULL or a database the caller holds.
CallSet(c) ==
    /\ pc[c] = Idle
    /\ \E d \in {NULL, held[c]} : arg' = [arg EXCEPT ![c] = d]
    /\ pc' = [pc EXCEPT ![c] = <<"set", 1>>]
    /\ UNCHANGED <<lock, default_database, refcount, status, held, once, singleton, backend, answer>>

\* Mutant: a plain assignment and an unref of the old value in place of
\* g_set_object; the new value gets no reference of its own.
SetObjectNoRef(c) ==
    /\ At(c, "set", "set")
    /\ IF arg[c] = default_database
       THEN UNCHANGED <<default_database, refcount, status>>
       ELSE LET rc == Counted(NULL, default_database)
            IN /\ default_database' = arg[c]
               /\ refcount' = rc
               /\ status' = Finalized(rc)
    /\ Advance(c)
    /\ UNCHANGED <<lock, arg, held, once, singleton, backend, answer>>

\* g_set_object (&default_database, database): nothing if it is already
\* the default; otherwise ref the new one, store it, unref the old one.
SetObject(c) ==
    /\ At(c, "set", "set")
    /\ IF arg[c] = default_database
       THEN UNCHANGED <<default_database, refcount, status>>
       ELSE LET rc == Counted(arg[c], default_database)
            IN /\ default_database' = arg[c]
               /\ refcount' = rc
               /\ status' = Finalized(rc)
    /\ Advance(c)
    /\ UNCHANGED <<lock, arg, held, once, singleton, backend, answer>>

-----------------------------------------------------------------------------
(* The callers' own use of databases, with no lock.                        *)

\* A caller creates a database (e.g. g_tls_file_database_new).
NewDatabase(c) ==
    /\ pc[c] = Idle
    /\ held[c] = NULL
    /\ \E d \in Databases :
         /\ status[d] = "unused"
         /\ status' = [status EXCEPT ![d] = "live"]
         /\ refcount' = [refcount EXCEPT ![d] = 1]
         /\ held' = [held EXCEPT ![c] = d]
    /\ UNCHANGED <<lock, default_database, pc, arg, once, singleton, backend, answer>>

\* g_object_unref of the caller's reference.
Drop(c) ==
    /\ pc[c] = Idle
    /\ held[c] # NULL
    /\ LET rc == Counted(NULL, held[c])
       IN /\ refcount' = rc
          /\ status' = Finalized(rc)
    /\ held' = [held EXCEPT ![c] = NULL]
    /\ UNCHANGED <<lock, default_database, pc, arg, once, singleton, backend, answer>>

-----------------------------------------------------------------------------
(* The interface wrappers (lines 138-167, 240-350): each reads the        *)
(* backend's vtable and forwards the call, with defaults for the vfuncs   *)
(* added after the interface was first published.  Values are strings:    *)
(* "TRUE"/"FALSE", a GType ("type"), "G_TYPE_INVALID" or "0".            *)

\* The vfuncs every backend sets; the wrappers call them unchecked.
RequiredVfuncs == {"get_certificate_type", "get_client_connection_type",
                   "get_server_connection_type"}

Wrappers == RequiredVfuncs \cup
            {"supports_tls", "supports_dtls", "get_dtls_client_connection_type",
             "get_dtls_server_connection_type", "get_file_database_type"}

\* An implemented vfunc: supports_* say yes, a type getter gives its GType.
Vfunc(f) == IF f \in {"supports_tls", "supports_dtls"} THEN "TRUE" ELSE "type"

\* g_tls_backend_supports_tls: the vfunc if set; else FALSE for the dummy
\* backend and TRUE for any other.
g_tls_backend_supports_tls(b) ==
    IF "supports_tls" \in VTable[b] THEN Vfunc("supports_tls")
    ELSE IF b = DummyBackend THEN "FALSE" ELSE "TRUE"

\* g_tls_backend_supports_dtls: the vfunc if set, else FALSE.
g_tls_backend_supports_dtls(b) ==
    IF "supports_dtls" \in VTable[b] THEN Vfunc("supports_dtls") ELSE "FALSE"

\* What wrapper f returns for backend b: the required type getters call
\* the vfunc; an unset DTLS connection type gives G_TYPE_INVALID, an
\* unset file database type 0.
Wrapper(b, f) ==
    CASE f = "supports_tls" -> g_tls_backend_supports_tls(b)
    []   f = "supports_dtls" -> g_tls_backend_supports_dtls(b)
    []   f \in RequiredVfuncs \/ f \in VTable[b] -> Vfunc(f)
    []   f = "get_file_database_type" -> "0"
    []   OTHER -> "G_TYPE_INVALID"

\* A caller that has its backend queries it.
Query(c) ==
    /\ pc[c] = Idle
    /\ backend[c] # NULL
    /\ \E f \in Wrappers : answer' = [call |-> f, value |-> Wrapper(backend[c], f)]
    /\ UNCHANGED <<db_vars, pc, once, singleton, backend>>

-----------------------------------------------------------------------------

Init ==
    /\ lock = NoOwner
    /\ default_database = NULL
    /\ refcount = [d \in Databases |-> 0]
    /\ status = [d \in Databases |-> "unused"]
    /\ pc = [c \in Callers |-> Idle]
    /\ arg = [c \in Callers |-> NULL]
    /\ held = [c \in Callers |-> NULL]
    /\ once = "uninit"
    /\ singleton = NULL
    /\ backend = [c \in Callers |-> NULL]
    /\ answer = [call |-> "none", value |-> "none"]

Next ==
    \E c \in Callers :
        \/ CallGet(c) \/ LazyInit(c) \/ RefForCaller(c)
        \/ CallSet(c) \/ SetObject(c)
        \/ \E call \in {"get", "set"} : TakeLock(c, call) \/ ReleaseLock(c, call)
        \/ NewDatabase(c) \/ Drop(c)
        \/ CallGetDefault(c) \/ OnceEnter(c) \/ OnceLeave(c)
        \/ Query(c)

Spec == Init /\ [][Next]_vars

\* Each caller is an OS thread, scheduled whenever it can run: a thread
\* inside g_tls_backend_get_default keeps taking its steps.
FairSpec ==
    /\ Spec
    /\ \A c \in Callers : WF_vars(OnceEnter(c)) /\ WF_vars(OnceLeave(c))

-----------------------------------------------------------------------------
(* Properties.                                                             *)

\* Every live database's count is exactly the number of pointers that own
\* a reference to it (the default and the callers' handles), and a
\* finalized one has none: no reference is leaked or dropped twice by any
\* interleaving of gets, sets and drops.
Owners(d) == {c \in Callers : held[c] = d} \cup (IF default_database = d THEN {"default"} ELSE {})

RefcountIsReferences ==
    \A d \in Databases :
        status[d] = "live" => refcount[d] = Cardinality(Owners(d))

\* Every g_tls_backend_get_default returns the published singleton, and
\* the singleton, once published, never changes: however the first
\* callers' g_once_init_enter and the initializer interleave, the module
\* is picked once.
OneDefaultBackend ==
    [][/\ singleton # NULL => singleton' = singleton
       /\ \A c \in Callers : backend'[c] # backend[c] => backend'[c] = singleton']_vars

\* Every g_tls_backend_get_default returns: a thread that finds another
\* thread initializing the singleton waits in g_once_init_enter only
\* until the initializer's g_once_init_leave, and then gets the backend.
GetDefaultReturns ==
    \A c \in Callers : pc[c][1] = "default" ~> backend[c] # NULL

\* The locked implementation behaves as if every get and set were atomic:
\* a get hands out the database that is the default when it returns, and
\* a database is finalized exactly when the last pointer owning it lets
\* go: none is used after it was finalized, none is leaked.
Abstract == INSTANCE TlsDefaultDatabase
    WITH alive <- {d \in Databases : status[d] = "live"}
AbstractSpec == Abstract!Spec

=============================================================================
