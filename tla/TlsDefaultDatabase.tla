------------------------- MODULE TlsDefaultDatabase -------------------------
(***************************************************************************)
(* What GTlsBackend promises its callers about the default database       *)
(* (src/glib-main/gio/gtlsbackend.c), with every call atomic:              *)
(*   - g_tls_backend_get_default_database hands the caller a reference to  *)
(*     the current default database, creating it first if there is none;   *)
(*   - g_tls_backend_set_default_database replaces the default;            *)
(*   - a caller creates databases of its own and drops its references.    *)
(* A database is identified by a model value.  One that nobody references *)
(* any more is finalized at once, one still referenced is never           *)
(* finalized, and a new one is never one still alive.                     *)
(***************************************************************************)
CONSTANTS
    Callers,    \* threads using the backend
    Databases,  \* GTlsDatabase objects that may exist
    NULL

VARIABLES
    default_database,  \* the backend's default, or NULL
    held,              \* the database reference each caller holds, or NULL
    alive              \* the databases not yet finalized

\* Databases still referenced by the backend or a caller.
Referenced == ({default_database} \cup {held[c] : c \in Callers}) \ {NULL}

\* After every call exactly the referenced databases are alive.
Finalize == alive' = Referenced'

Init ==
    /\ default_database = NULL
    /\ held = [c \in Callers |-> NULL]
    /\ alive = {}

\* A get that finds no default: the backend creates one.
LazyInit ==
    /\ default_database = NULL
    /\ \E d \in Databases \ alive : default_database' = d
    /\ UNCHANGED held
    /\ Finalize

\* A get returns the current default database to the caller.
Obtain(c) ==
    /\ held[c] = NULL
    /\ default_database # NULL
    /\ held' = [held EXCEPT ![c] = default_database]
    /\ UNCHANGED <<default_database, alive>>

\* A set installs the caller's database, or NULL, as the default.
Publish(c) ==
    /\ \E d \in {NULL, held[c]} :
         /\ d # default_database
         /\ default_database' = d
    /\ UNCHANGED held
    /\ Finalize

\* A caller creates a database of its own.
Create(c) ==
    /\ held[c] = NULL
    /\ \E d \in Databases \ alive : held' = [held EXCEPT ![c] = d]
    /\ UNCHANGED default_database
    /\ Finalize

\* A caller drops its reference.
Drop(c) ==
    /\ held[c] # NULL
    /\ held' = [held EXCEPT ![c] = NULL]
    /\ UNCHANGED default_database
    /\ Finalize

Next ==
    \/ LazyInit
    \/ \E c \in Callers : Obtain(c) \/ Publish(c) \/ Create(c) \/ Drop(c)

Spec == Init /\ [][Next]_<<default_database, held, alive>>

=============================================================================
