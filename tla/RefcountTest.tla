---------------------------- MODULE RefcountTest ----------------------------
(***************************************************************************)
(* The GObject reference-count stress test                                 *)
(* (src/glib-main/gobject/tests/objects-refcount1.c).                      *)
(*                                                                         *)
(* The main thread creates two objects, starts n_threads threads on each,  *)
(* sleeps, raises the atomic stopping flag, joins every thread in the      *)
(* order it was started, and drops its own reference to both objects.      *)
(* Each worker loops: read stopping; if clear, g_object_ref then           *)
(* g_object_unref its object.  Every read and write of stopping and of a   *)
(* reference count is atomic (g_atomic_int_*, and the atomic count inside  *)
(* g_object_ref/unref), so one step does one of them.  The unref that     *)
(* drops a count to zero disposes the object (my_test_dispose chains to    *)
(* the parent class's dispose) and finalizes it.                           *)
(***************************************************************************)
EXTENDS Naturals

CONSTANT n_threads   \* threads started per object

Objects == {1, 2}                \* test1, test2
Threads == 0..(2 * n_threads - 1)  \* indexes into test_threads

\* The spawn loop appends a thread on test1, then one on test2.
Obj(t) == IF t % 2 = 0 THEN 1 ELSE 2

VARIABLES
    stopping,   \* the (atomic) flag
    refcount,   \* each object's reference count
    pc,         \* each worker's place in run_thread
    main_pc,    \* the main thread's place in test_refcount_object_basics
    i,          \* the main thread's loop index
    test_type,  \* my_test_get_type's static: the type is registered
    parent_class, \* set by my_test_class_init: GObject's class, referenced
    disposed    \* each object's my_test_dispose has run

vars == <<stopping, refcount, pc, main_pc, i, test_type, parent_class, disposed>>

-----------------------------------------------------------------------------
(* The GTest type.                                                         *)

\* my_test_get_type: registers GTest on its first call (test_type is a
\* plain static, read and set by the main thread only).
my_test_get_type == TRUE

\* my_test_class_init, run by GObject when the first GTest is created:
\* parent_class = g_type_class_ref (G_TYPE_OBJECT), dispose overridden.
my_test_class_init == TRUE

\* g_object_unref of one reference to object o: the last one runs
\* my_test_dispose, which chains up through parent_class, then finalizes.
\* Dispose reads parent_class, so it must have been set.
Release(o) ==
    /\ refcount' = [refcount EXCEPT ![o] = @ - 1]
    /\ disposed' = IF refcount[o] = 1
                   THEN [disposed EXCEPT ![o] = parent_class]
                   ELSE disposed

-----------------------------------------------------------------------------
(* The main thread.                                                        *)

\* g_object_new (G_TYPE_TEST) twice (the first registers the type and
\* initializes its class; my_test_init only logs), then
\* g_atomic_int_set (&stopping, 0).
NewObjects ==
    /\ main_pc = "new"
    /\ test_type' = my_test_get_type
    /\ parent_class' = my_test_class_init
    /\ refcount' = [o \in Objects |-> 1]
    /\ disposed' = [o \in Objects |-> FALSE]
    /\ stopping' = 0
    /\ main_pc' = "spawn"
    /\ i' = 0
    /\ UNCHANGED pc

\* One g_thread_new of the spawn loop (two per iteration).
Spawn ==
    /\ main_pc = "spawn"
    /\ i < 2 * n_threads
    /\ pc' = [pc EXCEPT ![i] = "check"]
    /\ i' = i + 1
    /\ UNCHANGED <<stopping, refcount, main_pc, test_type, parent_class, disposed>>

\* g_usleep, then g_atomic_int_set (&stopping, 1).
Stop ==
    /\ main_pc = "spawn"
    /\ i = 2 * n_threads
    /\ stopping' = 1
    /\ main_pc' = "join"
    /\ i' = 0
    /\ UNCHANGED <<refcount, pc, test_type, parent_class, disposed>>

\* Mutant: the join loop bounded by n_threads instead of 2 * n_threads.
JoinCountHalf == n_threads

\* How many threads the join loop waits for.
JoinCount == 2 * n_threads

\* g_thread_join of thread i: blocks until it has returned.
Join ==
    /\ main_pc = "join"
    /\ i < JoinCount
    /\ pc[i] = "done"
    /\ pc' = [pc EXCEPT ![i] = "joined"]
    /\ i' = i + 1
    /\ UNCHANGED <<stopping, refcount, main_pc, test_type, parent_class, disposed>>

\* g_object_unref (test1) after the join loop ...
UnrefTest1 ==
    /\ main_pc = "join"
    /\ i >= JoinCount
    /\ Release(1)
    /\ main_pc' = "unref2"
    /\ UNCHANGED <<stopping, pc, i, test_type, parent_class>>

\* ... then g_object_unref (test2).
UnrefTest2 ==
    /\ main_pc = "unref2"
    /\ Release(2)
    /\ main_pc' = "done"
    /\ UNCHANGED <<stopping, pc, i, test_type, parent_class>>

-----------------------------------------------------------------------------
(* A worker: run_thread (test) and my_test_do_refcount.                   *)

\* Mutant: the flag read hoisted out of the loop (a plain int read the
\* compiler may cache), so the thread never sees it change.
CheckHoisted(t) ==
    /\ pc[t] = "check"
    /\ pc' = [pc EXCEPT ![t] = "ref"]
    /\ UNCHANGED <<stopping, refcount, main_pc, i, test_type, parent_class, disposed>>

\* while (!g_atomic_int_get (&stopping))
Check(t) ==
    /\ pc[t] = "check"
    /\ pc' = [pc EXCEPT ![t] = IF stopping = 1 THEN "done" ELSE "ref"]
    /\ UNCHANGED <<stopping, refcount, main_pc, i, test_type, parent_class, disposed>>

\* g_object_ref (test)
Ref(t) ==
    /\ pc[t] = "ref"
    /\ refcount' = [refcount EXCEPT ![Obj(t)] = @ + 1]
    /\ pc' = [pc EXCEPT ![t] = "unref"]
    /\ UNCHANGED <<stopping, main_pc, i, test_type, parent_class, disposed>>

\* Mutant: my_test_do_refcount's unref dropped; the count only grows.
UnrefMissing(t) ==
    /\ pc[t] = "unref"
    /\ pc' = [pc EXCEPT ![t] = "check"]
    /\ UNCHANGED <<stopping, refcount, main_pc, i, test_type, parent_class, disposed>>

\* g_object_unref (test)
Unref(t) ==
    /\ pc[t] = "unref"
    /\ Release(Obj(t))
    /\ pc' = [pc EXCEPT ![t] = "check"]
    /\ UNCHANGED <<stopping, main_pc, i, test_type, parent_class>>

Thread(t) == Check(t) \/ Ref(t) \/ Unref(t)
Main == NewObjects \/ Spawn \/ Stop \/ Join \/ UnrefTest1 \/ UnrefTest2

-----------------------------------------------------------------------------

Init ==
    /\ stopping = 0
    /\ refcount = [o \in Objects |-> 0]
    /\ pc = [t \in Threads |-> "unborn"]
    /\ main_pc = "new"
    /\ i = 0
    /\ test_type = FALSE
    /\ parent_class = FALSE
    /\ disposed = [o \in Objects |-> FALSE]

Next == Main \/ \E t \in Threads : Thread(t)

\* The scheduler runs every runnable thread: weak fairness for the main
\* thread and for each worker.  A blocked g_thread_join is simply not
\* enabled until its thread has returned.
Spec ==
    /\ Init /\ [][Next]_vars
    /\ WF_vars(Main)
    /\ \A t \in Threads : WF_vars(Thread(t))

-----------------------------------------------------------------------------
(* Properties.                                                             *)

\* The counts stay within one reference per running worker plus the
\* test's own, whatever the interleaving.
TypeOK ==
    /\ stopping \in {0, 1}
    /\ refcount \in [Objects -> 0..(n_threads + 1)]
    /\ pc \in [Threads -> {"unborn", "check", "ref", "unref", "done", "joined"}]
    /\ main_pc \in {"new", "spawn", "join", "unref2", "done"}
    /\ {test_type, parent_class} \subseteq BOOLEAN
    /\ disposed \in [Objects -> BOOLEAN]

\* No worker refs or unrefs an object that was already disposed and
\* finalized: the main thread's final g_object_unref comes after every
\* worker on that object has been joined.
NoUseAfterFree ==
    \A t \in Threads : pc[t] \in {"ref", "unref"} => ~disposed[Obj(t)]

\* The test ends: every worker sees stopping, returns and is joined, and
\* both objects are disposed (through the parent class my_test_class_init
\* looked up) and finalized.
Termination ==
    <>(main_pc = "done" /\ refcount = [o \in Objects |-> 0] /\ \A o \in Objects : disposed[o])

=============================================================================
