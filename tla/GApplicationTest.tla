--------------------------- MODULE GApplicationTest ---------------------------
(***************************************************************************)
(* The GApplication test program (gio/tests/gapplication.c): main runs    *)
(* its tests one after another in one process; test_replace spawns a      *)
(* second process that competes for the application's bus name.           *)
(*                                                                         *)
(* GApplication itself is outside these sources and is the environment:   *)
(* g_application_run registers (taking the bus name), emits startup and   *)
(* the local activation, then iterates the main context while the use     *)
(* count or the inactivity timeout is set and quit was not asked for,     *)
(* then emits shutdown and unregisters (releasing the name and notifying  *)
(* is-registered).  hold cancels a pending inactivity timeout; release    *)
(* to a use count of zero arms it when inactivity_timeout is non-zero.    *)
(*                                                                         *)
(* The parent's main context is the set `pending` of sources and incoming *)
(* messages ready or armed for it; one loop iteration dispatches one.     *)
(* Timers fire in any order: the code does not bound how long the child   *)
(* takes to start, so 500 ms and 1 s deadlines do not order anything.     *)
(* An assertion or a fatal critical that fails is recorded in `failures`   *)
(* as <<test, what>> instead of aborting the process.                     *)
(***************************************************************************)
EXTENDS Integers, Sequences

CONSTANT Tests   \* the test paths main registers, in registration order

VARIABLES
    t,         \* index in Tests of the running test
    pc,        \* "setup", "loop" (inside g_application_run), "after", "iter", "done"
    i,         \* index of the message a D-Bus test is trying
    app,       \* the GApplication the test created
    pending,   \* sources and messages the parent's main context may dispatch
    data,      \* the test's own variables
    owner,     \* the bus name and whether its owner allows replacement
    child,     \* the subprocess test_replace spawns
    bus,       \* a session bus is up
    failures   \* assertions that failed, as <<test, what>>

vars == <<t, pc, i, app, pending, data, owner, child, bus, failures>>

Test == Tests[t]

Check(what, cond) == IF cond THEN {} ELSE {<<Test, what>>}

IdleTests    == {"no-dbus", "no-appid"}
ReplaceTests == {"replace", "no-replace"}
OptionTests  == {"handle-local-options1", "handle-local-options2", "handle-local-options3"}
DBusTests    == {"dbus/activate", "dbus/open", "dbus/command-line", "dbus/activate-action"}

NewApp == [use |-> 0, quit |-> FALSE, registered |-> FALSE, timeout |-> 0, refs |-> 1]
NoData == [n |-> 0, flag |-> FALSE, timeout_id |-> FALSE, subprocess |-> FALSE]

-----------------------------------------------------------------------------
(* GApplication's use count, as the test's handlers call it.              *)

Hold(a) == [a EXCEPT !.use = @ + 1]

\* g_application_release: at zero, a non-zero inactivity_timeout arms the
\* inactivity source.
Release(a, p) ==
    /\ app' = [a EXCEPT !.use = @ - 1]
    /\ pending' = IF app'.use = 0 /\ a.timeout > 0 THEN p \cup {"inactivity"} ELSE p

\* g_application_run keeps iterating while this holds.
LoopRuns == (app.use > 0 \/ "inactivity" \in pending) /\ ~app.quit

\* A dispatch of source `s` by one g_main_context_iteration of run's loop.
Dispatch(s) == pc = "loop" /\ LoopRuns /\ s \in pending

\* The next test, or "done" when g_test_run returns.
NextTest ==
    /\ t' = t + 1
    /\ pc' = IF t < Len(Tests) THEN "setup" ELSE "done"
    /\ i' = 0

-----------------------------------------------------------------------------
(* /gapplication/no-dbus, /no-appid and /quit: the activate handler holds *)
(* the application and leaves an idle that releases or quits it.          *)

\* test_nodbus / test_noappid up to the run loop: no session bus (main
\* unset it), register, startup, then nodbus_activate / noappid_activate:
\* set the flag, hold, assert there is no connection, add release_app.
test_idle_begin ==
    /\ pc = "setup" /\ Test \in IdleTests
    /\ app' = [Hold(NewApp) EXCEPT !.registered = TRUE]
    /\ data' = [NoData EXCEPT !.n = 1]
    /\ failures' = failures \cup Check("connection", Test = "no-dbus" => ~bus)
    /\ pending' = pending \cup {"release_app"}
    /\ pc' = "loop"
    /\ UNCHANGED <<t, i, owner, child, bus>>

\* release_app: an idle callback releasing the application.
release_app ==
    /\ Dispatch("release_app")
    /\ Release(app, pending \ {"release_app"})
    /\ UNCHANGED <<t, pc, i, data, owner, child, bus, failures>>

\* test_quit up to the run loop: session_bus_up, then quit_activate: set
\* activated, hold, assert the connection exists, add quit_app.
test_quit_begin ==
    /\ pc = "setup" /\ Test = "quit"
    /\ bus' = TRUE
    /\ app' = [Hold(NewApp) EXCEPT !.registered = TRUE]
    /\ data' = [NoData EXCEPT !.n = 1]
    /\ failures' = failures \cup Check("connection", bus')
    /\ pending' = pending \cup {"quit_app"}
    /\ pc' = "loop"
    /\ UNCHANGED <<t, i, owner, child>>

\* quit_app: set quitted and g_application_quit, with the hold still taken.
quit_app ==
    /\ Dispatch("quit_app")
    /\ data' = [data EXCEPT !.flag = TRUE]
    /\ app' = [app EXCEPT !.quit = TRUE]
    /\ pending' = pending \ {"quit_app"}
    /\ UNCHANGED <<t, pc, i, owner, child, bus, failures>>

\* After run: unref the application, assert activated (and quitted), and
\* for /quit take the session bus down.
test_idle_end ==
    /\ pc = "after" /\ Test \in IdleTests \cup {"quit"}
    /\ app' = [app EXCEPT !.refs = @ - 1]
    /\ failures' = failures \cup Check("activated", data.n = 1)
                            \cup Check("quitted", Test = "quit" => data.flag)
    /\ bus' = (bus /\ Test # "quit")
    /\ NextTest
    /\ UNCHANGED <<pending, data, owner, child>>

-----------------------------------------------------------------------------
(* /gapplication/registered: register by hand, run, register again.       *)

\* on_registered_notify: with the application registered shutdown must not
\* have run yet; unregistered, it must have.
on_registered_notify(registered, shutdown) ==
    Check("notify", IF registered THEN ~shutdown ELSE shutdown)

\* test_registered up to the run loop: g_application_register notifies
\* is-registered and emits startup; run finds it registered and activates
\* noappid_activate, which holds and adds release_app.
test_registered_begin ==
    /\ pc = "setup" /\ Test = "registered"
    /\ app' = [Hold(NewApp) EXCEPT !.registered = TRUE]
    /\ data' = [NoData EXCEPT !.n = 1]
    /\ failures' = failures \cup on_registered_notify(TRUE, data'.flag)
                            \cup Check("no shutdown", ~data'.flag)
    /\ pending' = pending \cup {"release_app"}
    /\ pc' = "loop"
    /\ UNCHANGED <<t, i, owner, child, bus>>

\* After run: shutdown ran and the application is unregistered; reset the
\* shutdown flag, then register again: the notify and the last assert see
\* the flag as the reset left it.
test_registered_end ==
    /\ pc = "after" /\ Test = "registered"
    /\ data' = [data EXCEPT !.flag = FALSE]
    /\ failures' = failures \cup Check("shutdown", data.flag)
                            \cup Check("unregistered", ~app.registered)
                            \cup on_registered_notify(TRUE, data'.flag)
                            \cup Check("no shutdown", ~data'.flag)
    /\ app' = [app EXCEPT !.registered = TRUE, !.refs = @ - 1]
    /\ NextTest
    /\ UNCHANGED <<pending, owner, child, bus>>

-----------------------------------------------------------------------------
(* /gapplication/local-command-line: a subclass whose local_command_line  *)
(* returns TRUE, and whose startup and shutdown are g_assert_not_reached.  *)

test_loc_cmd_app_local_command_line == TRUE

\* run: a TRUE local_command_line returns before g_application_register,
\* so startup (and, in run_end, shutdown) is never emitted.
test_local_command_line ==
    /\ pc = "setup" /\ Test = "local-command-line"
    /\ app' = [NewApp EXCEPT !.registered = ~test_loc_cmd_app_local_command_line]
    /\ failures' = failures \cup Check("startup", ~app'.registered)
    /\ pc' = "loop"
    /\ UNCHANGED <<t, i, pending, data, owner, child, bus>>

\* After run: g_object_unref.
test_local_command_line_end ==
    /\ pc = "after" /\ Test = "local-command-line"
    /\ app' = [app EXCEPT !.refs = @ - 1]
    /\ NextTest
    /\ UNCHANGED <<pending, data, owner, child, bus, failures>>

-----------------------------------------------------------------------------
(* /gapplication/test-handle-local-options1..3: in a g_test_trap_subprocess *)
(* child, two handle-local-options handlers and the status run returns.   *)

Options == {"success", "failure", "none"}

\* test_local_options: 0 for --success, 1 for --failure, else -1.
test_local_options == [o \in Options |-> CASE o = "success" -> 0
                                          []  o = "failure" -> 1
                                          []  OTHER         -> -1]

\* second_handler always returns 2.
second_handler == [o \in Options |-> 2]

\* The handlers in connection order.
LocalOptionHandlers == <<test_local_options, second_handler>>

\* Emission of handle-local-options: GApplication's accumulator stops at
\* the first handler returning a non-negative status; -1 when all decline.
\* The result is that status and how many handlers were called.
RECURSIVE EmitLocalOptions(_, _)
EmitLocalOptions(hs, o) ==
    IF hs = <<>> THEN [status |-> -1, called |-> 0]
    ELSE IF Head(hs)[o] >= 0 THEN [status |-> Head(hs)[o], called |-> 1]
    ELSE LET r == EmitLocalOptions(Tail(hs), o)
         IN  [r EXCEPT !.called = @ + 1]

\* Each test's argv option and its assertions: called2 and the status.
LocalOptionsCase ==
    [x \in OptionTests |->
        CASE x = "handle-local-options1" -> [arg |-> "success", called2 |-> FALSE, status |-> 0]
        []   x = "handle-local-options2" -> [arg |-> "failure", called2 |-> FALSE, status |-> 1]
        []   x = "handle-local-options3" -> [arg |-> "none",    called2 |-> TRUE,  status |-> 2]]

\* The child runs the application (a status of 0 or more returns at once),
\* asserts called, called2 and the status; the parent's
\* g_test_trap_assert_passed fails with it.
test_handle_local_options ==
    /\ pc = "setup" /\ Test \in OptionTests
    /\ LET c == LocalOptionsCase[Test]
           r == EmitLocalOptions(LocalOptionHandlers, c.arg)
       IN  failures' = failures \cup Check("called", r.called >= 1)
                                \cup Check("called2", (r.called >= 2) = c.called2)
                                \cup Check("status", r.status = c.status)
    /\ NextTest
    /\ UNCHANGED <<app, pending, data, owner, child, bus>>

-----------------------------------------------------------------------------
(* Tests that run no main loop of their own: each is one step.            *)

\* properties: on a session bus, a new application reports its id, the
\* default flags, not registered and a zero inactivity timeout; after
\* g_application_register it is registered and, the name being free, not
\* remote.  It then sets inactivity-timeout, quits, and is unreffed (which
\* unregisters it) and the bus goes down.
properties ==
    /\ pc = "setup" /\ Test = "properties"
    /\ LET a == NewApp
           r == [a EXCEPT !.registered = TRUE]
       IN  failures' = failures \cup Check("properties", ~a.registered /\ a.timeout = 0)
                                \cup Check("registered", r.registered)
                                \cup Check("remote", owner.name = "none")
    /\ NextTest
    /\ UNCHANGED <<app, pending, data, owner, child, bus>>

\* An application id as the characters g_application_id_is_valid tells
\* apart: "a" is any letter, "0" any digit, and "/" and "\n" stand for the
\* characters an id may not hold.
Letters(n) == [k \in 1..n |-> "a"]
Digits(n)  == [k \in 1..n |-> "0"]

\* g_application_id_is_valid, as GIO documents it: at most 255
\* characters, at least two non-empty elements separated by ".", of
\* letters, digits, "_" and "-", no element starting with a digit.
IdIsValid(s) ==
    /\ 0 < Len(s) /\ Len(s) <= 255
    /\ \A k \in 1..Len(s) : s[k] \notin {"/", "\n"}
    /\ s[1] # "." /\ s[Len(s)] # "."
    /\ \E k \in 1..Len(s) : s[k] = "."
    /\ \A k \in 1..Len(s) - 1 : ~(s[k] = "." /\ s[k + 1] = ".")
    /\ \A k \in 1..Len(s) : s[k] = "0" => k > 1 /\ s[k - 1] # "."

\* appid's table: each id and whether the test asserts it valid.
AppIds ==
    << <<<<>>, FALSE>>,                                              \* ""
       <<<<".">>, FALSE>>,
       <<Letters(1), FALSE>>,
       <<Letters(3), FALSE>>,
       <<<<".">> \o Letters(3), FALSE>>,
       <<Letters(3) \o <<".">>, FALSE>>,
       <<Letters(1) \o <<".", ".">> \o Letters(1), FALSE>>,         \* a..b
       <<Letters(1) \o <<"/">> \o Letters(1), FALSE>>,
       <<Letters(1) \o <<"\n">> \o Letters(1), FALSE>>,
       <<Letters(1) \o <<"\n">> \o Letters(1), FALSE>>,
       <<Letters(5) \o <<"_">> \o Letters(6), FALSE>>,              \* emoji_picker
       <<Letters(5) \o <<"-">> \o Letters(6), FALSE>>,
       <<Letters(11), FALSE>>,
       <<Letters(2) \o <<".">> \o Letters(8) \o <<".">> \o Digits(4), FALSE>>,
       <<Letters(1) \o <<".">> \o Letters(258), FALSE>>,            \* 260 characters
       <<Letters(1) \o <<".">> \o Letters(1), TRUE>>,               \* a.b, A.B
       <<Letters(1) \o <<".">> \o Letters(1), TRUE>>,
       <<Letters(1) \o <<"-", ".">> \o Letters(1), TRUE>>,
       <<Letters(1) \o <<"_">> \o Letters(1) \o <<".">> \o Letters(1)
                   \o <<"-">> \o Letters(1), TRUE>>,
       <<<<"_">> \o Letters(1) \o <<".">> \o Letters(1), TRUE>>,
       <<<<"-">> \o Letters(1) \o <<".">> \o Letters(1), TRUE>>,
       <<Letters(3) \o <<".">> \o Letters(5) \o <<".">> \o Letters(14), TRUE>>,
       <<Letters(2) \o <<".">> \o Letters(8) \o <<".", "_">> \o Digits(4), TRUE>>,
       <<Letters(3) \o <<".">> \o Letters(7) \o <<".">> \o Letters(5), TRUE>>,
       <<Letters(3) \o <<".">> \o Letters(7) \o <<".">> \o Letters(8) \o <<"_">>
                   \o Letters(4) \o <<".">> \o Letters(10), TRUE>>,
       <<Letters(3) \o <<".", "_">> \o Digits(1) \o <<"_">> \o Letters(3)
                   \o <<".">> \o Letters(8), TRUE>> >>

\* appid: every assertion of the table.
appid ==
    /\ pc = "setup" /\ Test = "app-id"
    /\ failures' = failures \cup
          {<<Test, <<"id", k>> >> : k \in {k \in 1..Len(AppIds) : IdIsValid(AppIds[k][1]) # AppIds[k][2]}}
    /\ NextTest
    /\ UNCHANGED <<app, pending, data, owner, child, bus>>

\* on_activate, over the application's action map (action name to state):
\* not remote, no actions; add the stateful "test" (FALSE): one action;
\* change its state to TRUE and read it back; look it up; remove it: none.
on_activate(a) ==
    LET m0 == [x \in {} |-> FALSE]
        m1 == [x \in {"test"} |-> FALSE]
        m2 == [m1 EXCEPT !["test"] = TRUE]
        m3 == [x \in DOMAIN m2 \ {"test"} |-> m2[x]]
    IN  Check("remote", owner.name = "none")
        \cup Check("actions", DOMAIN m0 = {} /\ DOMAIN m1 = {"test"} /\ DOMAIN m3 = {})
        \cup Check("state", m2["test"] = TRUE /\ "test" \in DOMAIN m2)

\* test_local_actions: run without a bus; startup and the local activation
\* call on_activate, which takes no hold, so run returns at once; unref.
test_local_actions ==
    /\ pc = "setup" /\ Test = "local-actions"
    /\ failures' = failures \cup on_activate(NewApp)
    /\ NextTest
    /\ UNCHANGED <<app, pending, data, owner, child, bus>>

\* GApplication's resource base path: "/" and the id with "." turned into
\* "/", set when the application is constructed unless the construct
\* property gives one; "null" stands for NULL.
BasePath(id) == <<"/">> \o [k \in 1..Len(id) |-> IF id[k] = "." THEN "/" ELSE id[k]]

\* test_resource_path: "x.y.z" gives "/x/y/z"; set_application_id
\* ("a.b.c") keeps it; set_resource_base_path ("/x", then NULL) replaces
\* it; a construct-time "/a" or NULL overrides the derived one.
test_resource_path ==
    /\ pc = "setup" /\ Test = "resource-path"
    /\ LET xyz == <<"x", ".", "y", ".", "z">>
           p1  == BasePath(xyz)
           p2  == p1                        \* the id changes to a.b.c
           p3  == <<"/", "x">>
           p4  == "null"
           p5  == <<"/", "a">>
           p6  == "null"
       IN  failures' = failures
                \cup Check("derived", p1 = <<"/", "x", "/", "y", "/", "z">>)
                \cup Check("set-id", p2 = <<"/", "x", "/", "y", "/", "z">>)
                \cup Check("set-path", p3 = <<"/", "x">> /\ p4 = "null")
                \cup Check("construct", p5 = <<"/", "a">> /\ p6 = "null")
    /\ NextTest
    /\ UNCHANGED <<app, pending, data, owner, child, bus>>

\* test_busy's calls in order: mark and unmark busy, create, bind, enable
\* or disable, unref and unbind action 1 or 2, and each is_busy assertion.
BusyScript ==
    << [op |-> "is", busy |-> FALSE], [op |-> "mark"], [op |-> "is", busy |-> TRUE],
       [op |-> "unmark"], [op |-> "is", busy |-> FALSE],
       [op |-> "new", a |-> 1], [op |-> "bind", a |-> 1], [op |-> "is", busy |-> TRUE],
       [op |-> "set", a |-> 1, v |-> FALSE], [op |-> "is", busy |-> FALSE],
       [op |-> "mark"], [op |-> "is", busy |-> TRUE],
       [op |-> "new", a |-> 2], [op |-> "bind", a |-> 2], [op |-> "is", busy |-> TRUE],
       [op |-> "unmark"], [op |-> "is", busy |-> TRUE],
       [op |-> "unref", a |-> 2], [op |-> "is", busy |-> FALSE],
       [op |-> "set", a |-> 1, v |-> TRUE], [op |-> "is", busy |-> TRUE],
       [op |-> "mark"], [op |-> "is", busy |-> TRUE],
       [op |-> "unbind", a |-> 1], [op |-> "is", busy |-> TRUE],
       [op |-> "unmark"], [op |-> "is", busy |-> FALSE] >>

\* GApplication's busy count: is_busy while it is positive.  A bound
\* property counts as a mark while it is TRUE: binding a TRUE property,
\* or its turning TRUE, marks; its turning FALSE, an unbind or the
\* object's finalization while TRUE unmarks.  GSimpleAction's "enabled"
\* starts TRUE and notifies only on a change.  A failed assertion records
\* its index.
BusyStep(s, k) ==
    LET o == BusyScript[k]
        counted(x) == x \in s.bound /\ s.enabled[x]
    IN  CASE o.op = "mark"   -> [s EXCEPT !.count = @ + 1]
        []   o.op = "unmark" -> [s EXCEPT !.count = @ - 1]
        []   o.op = "is"     -> IF (s.count > 0) = o.busy THEN s
                                ELSE [s EXCEPT !.failed = @ \cup {k}]
        []   o.op = "new"    -> [s EXCEPT !.enabled[o.a] = TRUE]
        []   o.op = "bind"   -> [s EXCEPT !.bound = @ \cup {o.a},
                                          !.count = @ + (IF s.enabled[o.a] THEN 1 ELSE 0)]
        []   o.op = "set"    -> [s EXCEPT !.enabled[o.a] = o.v,
                                          !.count = @ + (IF o.a \in s.bound /\ o.v # s.enabled[o.a]
                                                         THEN (IF o.v THEN 1 ELSE -1) ELSE 0)]
        []   OTHER           -> [s EXCEPT !.bound = @ \ {o.a},
                                          !.count = @ - (IF counted(o.a) THEN 1 ELSE 0)]

\* The state after the script's first k calls.
RECURSIVE RunBusy(_)
RunBusy(k) ==
    IF k = 0 THEN [count |-> 0, enabled |-> [x \in 1..2 |-> FALSE], bound |-> {}, failed |-> {}]
    ELSE LET before == RunBusy(k - 1) IN BusyStep(before, k)

BusyRun == RunBusy(Len(BusyScript))

\* test_busy: on a session bus, register a NON_UNIQUE application and
\* play the script; every is_busy assertion must hold.
test_busy ==
    /\ pc = "setup" /\ Test = "test-busy"
    /\ failures' = failures \cup {<<Test, <<"busy", k>> >> : k \in BusyRun.failed}
    /\ NextTest
    /\ UNCHANGED <<app, pending, data, owner, child, bus>>

\* GApplication's local option parsing (environment): --help is handled
\* locally unless the application handles the command line and has added
\* no main options; handled, it prints the help, with an "Application
\* options" group for the main options, and exits the process with 0
\* inside g_application_run.  Otherwise the primary's command-line handler
\* runs and its return value is the status.
RunWithHelp(handles_command_line, main_options, handler_status) ==
    IF main_options # {} \/ ~handles_command_line
    THEN [stdout |-> main_options # {}, exit |-> 0, returned |-> FALSE, called |-> FALSE]
    ELSE [stdout |-> FALSE, exit |-> handler_status, returned |-> TRUE, called |-> TRUE]

\* test_help: the child runs an application with HANDLES_COMMAND_LINE, the
\* main option "foo" and test_help_command_line (returns 0) on "--help";
\* if run returns it asserts called and status 0.  The parent asserts the
\* child passed and printed "*Application options*".
test_help ==
    /\ pc = "setup" /\ Test = "test-help"
    /\ LET r == RunWithHelp(TRUE, {"foo"}, 0)
       IN  failures' = failures
                       \cup Check("passed", r.exit = 0 /\ (r.returned => r.called))
                       \cup Check("stdout", r.stdout)
    /\ NextTest
    /\ UNCHANGED <<app, pending, data, owner, child, bus>>

\* test_api: g_simple_action_new (NULL, NULL) fails its precondition and
\* returns NULL; adding a GSimpleAction without a name is refused with
\* "action has no name".  Both criticals are the expected messages.
test_api ==
    /\ pc = "setup" /\ Test = "api"
    /\ LET new_action(name) == IF name = "null" THEN "null" ELSE name
           add_action(name) == IF name = "null" THEN "no-name" ELSE "added"
       IN  failures' = failures \cup Check("expected", new_action("null") = "null")
                                \cup Check("expected", add_action("null") = "no-name")
    /\ NextTest
    /\ UNCHANGED <<app, pending, data, owner, child, bus>>

-----------------------------------------------------------------------------
(* /gapplication/replace and /no-replace: the primary instance spawns a   *)
(* second instance with --gapplication-replace on a private test bus.     *)

\* Mutant: startup_cb releasing whether or not replacement is allowed.
startup_cb_always_releases(a, p, allow) ==
    /\ child' = [pc |-> "spawned", failed |-> FALSE]
    /\ Release([Hold(a) EXCEPT !.timeout = 500], p)

\* startup_cb: hold, spawn the subprocess and, without replacement, set the
\* inactivity timeout and release (arming it).
startup_cb(a, p, allow) ==
    /\ child' = [pc |-> "spawned", failed |-> FALSE]
    /\ IF allow THEN app' = Hold(a) /\ pending' = p
                ELSE Release([Hold(a) EXCEPT !.timeout = 500], p)

\* test_replace in the parent, up to the run loop: a new test bus, the
\* application with inactivity_timeout 500 and, without replacement, the
\* 1 s quit_already timeout; run takes the free name (allowing replacement
\* as the flags say) and emits startup; activate is a no-op.
test_replace_begin ==
    /\ pc = "setup" /\ Test \in ReplaceTests
    /\ LET allow == Test = "replace"
       IN  /\ bus' = TRUE
           /\ owner' = [name |-> "parent", allows |-> allow]
           /\ data' = [NoData EXCEPT !.timeout_id = ~allow, !.subprocess = TRUE]
           /\ startup_cb([NewApp EXCEPT !.timeout = 500, !.registered = TRUE],
                         IF allow THEN {} ELSE {"quit_timer"}, allow)
    /\ pc' = "loop"
    /\ UNCHANGED <<t, i, failures>>

\* The inactivity timeout expires: GApplication clears its id.
inactivity_timeout_expired ==
    /\ Dispatch("inactivity")
    /\ pending' = pending \ {"inactivity"}
    /\ UNCHANGED <<t, pc, i, app, data, owner, child, bus, failures>>

\* Mutant: quit_already leaving data->timeout_id set.
quit_already_keeps_id ==
    /\ Dispatch("quit_timer")
    /\ app' = [app EXCEPT !.quit = TRUE]
    /\ pending' = pending \ {"quit_timer"}
    /\ UNCHANGED <<t, pc, i, data, owner, child, bus, failures>>

\* quit_already: the once-timeout quits and forgets its (now destroyed) id.
quit_already ==
    /\ Dispatch("quit_timer")
    /\ app' = [app EXCEPT !.quit = TRUE]
    /\ data' = [data EXCEPT !.timeout_id = FALSE]
    /\ pending' = pending \ {"quit_timer"}
    /\ UNCHANGED <<t, pc, i, owner, child, bus, failures>>

\* Mutant: name_was_lost without g_application_quit.
name_was_lost_no_quit ==
    /\ Dispatch("name_lost")
    /\ data' = [data EXCEPT !.flag = TRUE]
    /\ pending' = pending \ {"name_lost"}
    /\ UNCHANGED <<t, pc, i, app, owner, child, bus, failures>>

\* name_was_lost: the NameLost signal arrives; note it and quit.
name_was_lost ==
    /\ Dispatch("name_lost")
    /\ data' = [data EXCEPT !.flag = TRUE]
    /\ app' = [app EXCEPT !.quit = TRUE]
    /\ pending' = pending \ {"name_lost"}
    /\ UNCHANGED <<t, pc, i, owner, child, bus, failures>>

\* The subprocess's Activate call reaches the primary: activate is a no-op.
remote_activate ==
    /\ Dispatch("remote_activate")
    /\ pending' = pending \ {"remote_activate"}
    /\ UNCHANGED <<t, pc, i, app, data, owner, child, bus, failures>>

\* The subprocess's whole run.  RequestName (replace existing, allow
\* replacement, do not queue) makes it primary when the name is free or its
\* owner allows replacement; the old owner then gets NameLost.  A primary
\* emits startup (startup_in_subprocess sets startup), shuts down and
\* releases the name; otherwise it forwards Activate to the owner.  It then
\* asserts startup exactly when replacement was allowed.
test_replace_subprocess ==
    /\ child.pc = "spawned"
    /\ LET allow   == Test = "replace"
           primary == owner.name = "none" \/ owner.allows
       IN  /\ owner' = IF primary THEN [name |-> "none", allows |-> FALSE] ELSE owner
           /\ pending' = pending \cup
                 (IF ~primary THEN {"remote_activate"}
                  ELSE IF owner.name = "parent" THEN {"name_lost"} ELSE {})
           /\ child' = [pc |-> "exited", failed |-> primary # allow]
    /\ UNCHANGED <<t, pc, i, app, data, bus, failures>>

\* After run: assert the subprocess was spawned and name_lost equals
\* allow; g_clear_handle_id removes the quit timeout if its id is still set
\* (g_source_remove of a destroyed source is a fatal critical); unref;
\* g_subprocess_wait for the child, whose exit status is not looked at; take
\* the test bus down.
test_replace_end ==
    /\ pc = "after" /\ Test \in ReplaceTests
    /\ child.pc = "exited"
    /\ failures' = failures \cup Check("subprocess", data.subprocess)
                            \cup Check("name_lost", data.flag = (Test = "replace"))
                            \cup Check("source-not-found",
                                       data.timeout_id => "quit_timer" \in pending)
    /\ app' = [app EXCEPT !.refs = @ - 1]
    /\ pending' = {}
    /\ bus' = FALSE
    /\ owner' = [name |-> "none", allows |-> FALSE]
    /\ NextTest
    /\ UNCHANGED <<data, child>>

-----------------------------------------------------------------------------
(* /gapplication/dbus/*: for each message of a table, a new application   *)
(* that holds itself, runs, and in startup sends the message to its own   *)
(* name; the reply's idle callback releases it.                           *)

\* test_dbus_activate_action's messages: the action, the parameter's type
\* ("none" for an empty av) and n_expected_activations.
ActionMessages ==
    << [action |-> "undo",        param |-> "none", expected |-> 1],
       [action |-> "lang",        param |-> "s",    expected |-> 1],
       [action |-> "undo",        param |-> "s",    expected |-> 0],
       [action |-> "lang",        param |-> "none", expected |-> 0],
       [action |-> "lang",        param |-> "u",    expected |-> 0],
       [action |-> "nonexistent", param |-> "none", expected |-> 0] >>

\* The entries it exports: undo takes no parameter, lang a string.
ActionEntries == [undo |-> "none", lang |-> "s"]

\* GApplication's ActivateAction handler activates an exported action only
\* with a parameter of the action's type.
ActivatesAction(m) ==
    m.action \in DOMAIN ActionEntries /\ ActionEntries[m.action] = m.param

MessageCount ==
    [x \in DBusTests |-> CASE x = "dbus/activate"     -> 3
                         []   x = "dbus/open"         -> 4
                         []   x = "dbus/command-line" -> 3
                         []   OTHER                   -> Len(ActionMessages)]

\* run with no arguments emits command-line (HANDLES_COMMAND_LINE) or
\* activate; dbus_command_line_cb and dbus_activate_cb count it.
LocalCount == IF Test \in {"dbus/activate", "dbus/command-line"} THEN 1 ELSE 0

\* The count the D-Bus call adds: every Activate, Open and CommandLine
\* reaches its handler; ActivateAction only a matching action.
CallCount(k) ==
    IF Test = "dbus/activate-action"
    THEN IF ActivatesAction(ActionMessages[k + 1]) THEN 1 ELSE 0
    ELSE 1

\* The count each test asserts after run.
Expected(k) ==
    CASE Test = "dbus/activate"     -> 2
    []   Test = "dbus/open"         -> 1
    []   Test = "dbus/command-line" -> 2
    []   OTHER                      -> ActionMessages[k + 1].expected

\* Mutant: the message sent without g_object_ref (app) for the callback.
dbus_startup_cb_no_ref(a, p) ==
    /\ app' = a
    /\ pending' = p \cup {"call"}

\* dbus_startup_cb: send the message with a reply callback holding a
\* reference to the application.
dbus_startup_cb(a, p) ==
    /\ app' = [a EXCEPT !.refs = @ + 1]
    /\ pending' = p \cup {"call"}

\* Mutant: the counter not reset for each message (declared outside the loop).
test_dbus_begin_keeps_count ==
    /\ pc \in {"setup", "iter"} /\ Test \in DBusTests
    /\ bus' = TRUE
    /\ data' = [NoData EXCEPT !.n = data.n + LocalCount]
    /\ dbus_startup_cb([Hold(NewApp) EXCEPT !.registered = TRUE], pending)
    /\ pc' = "loop"
    /\ UNCHANGED <<t, i, owner, child, failures>>

\* One iteration up to the run loop (the first brings the test bus up):
\* g_application_new, connect the handlers, hold, run: register, startup,
\* the local activation.
test_dbus_begin ==
    /\ pc \in {"setup", "iter"} /\ Test \in DBusTests
    /\ bus' = TRUE
    /\ data' = [NoData EXCEPT !.n = LocalCount]
    /\ dbus_startup_cb([Hold(NewApp) EXCEPT !.registered = TRUE], pending)
    /\ pc' = "loop"
    /\ UNCHANGED <<t, i, owner, child, failures>>

\* The message reaches the application's exported object: the handler
\* (dbus_activate_cb, dbus_open_cb, dbus_command_line_cb or
\* dbus_activate_action_cb) counts, and GApplication replies.
dbus_activate_cb ==
    /\ Dispatch("call")
    /\ data' = [data EXCEPT !.n = @ + CallCount(i)]
    /\ pending' = (pending \ {"call"}) \cup {"reply"}
    /\ UNCHANGED <<t, pc, i, app, owner, child, bus, failures>>

\* dbus_startup_reply_cb: the reply needs no checking; add a low-priority
\* idle owning the reference, with g_object_unref as its destroy notify.
dbus_startup_reply_cb ==
    /\ Dispatch("reply")
    /\ pending' = (pending \ {"reply"}) \cup {"reply_idle"}
    /\ UNCHANGED <<t, pc, i, app, data, owner, child, bus, failures>>

\* Sources of default priority that are ready as soon as they are added.
ReadyDefault == {"release_app", "quit_app", "call", "reply", "name_lost", "remote_activate"}

\* dbus_startup_reply_idle_cb, at G_PRIORITY_LOW only when no default
\* source is ready: release, then the destroy notify drops the reference.
dbus_startup_reply_idle_cb ==
    /\ Dispatch("reply_idle")
    /\ pending \cap ReadyDefault = {}
    /\ Release([app EXCEPT !.refs = @ - 1], pending \ {"reply_idle"})
    /\ UNCHANGED <<t, pc, i, data, owner, child, bus, failures>>

\* After run: assert the count, disconnect, g_clear_object; the next
\* message, or the test bus down after the last.
test_dbus_end ==
    /\ pc = "after" /\ Test \in DBusTests
    /\ failures' = failures \cup Check(<<"count", i>>, data.n = Expected(i))
    /\ app' = [app EXCEPT !.refs = @ - 1]
    /\ IF i + 1 < MessageCount[Test]
       THEN i' = i + 1 /\ pc' = "iter" /\ UNCHANGED <<t, bus>>
       ELSE NextTest /\ bus' = FALSE
    /\ UNCHANGED <<pending, data, owner, child>>

-----------------------------------------------------------------------------

\* The end of g_application_run: a registered primary emits shutdown
\* (on_registered_shutdown sets its flag; TestLocCmdApp's asserts not
\* reached), then unregisters, notifying is-registered and releasing the
\* bus name.
run_end ==
    /\ pc = "loop" /\ ~LoopRuns
    /\ LET shutdown == app.registered
       IN  /\ data' = IF shutdown /\ Test = "registered"
                      THEN [data EXCEPT !.flag = TRUE] ELSE data
           /\ failures' = failures
                \cup (IF shutdown /\ Test = "local-command-line" THEN {<<Test, "shutdown">>} ELSE {})
                \cup (IF shutdown /\ Test = "registered"
                      THEN on_registered_notify(FALSE, data'.flag) ELSE {})
    /\ app' = [app EXCEPT !.registered = FALSE]
    /\ owner' = IF owner.name = "parent" THEN [name |-> "none", allows |-> FALSE] ELSE owner
    /\ pc' = "after"
    /\ UNCHANGED <<t, i, pending, child, bus>>

Init ==
    /\ t = 1
    /\ pc = "setup"
    /\ i = 0
    /\ app = [NewApp EXCEPT !.refs = 0]
    /\ pending = {}
    /\ data = NoData
    /\ owner = [name |-> "none", allows |-> FALSE]
    /\ child = [pc |-> "none", failed |-> FALSE]
    /\ bus = FALSE
    /\ failures = {}

\* The parent process: one step of the running test.
Parent ==
    \/ test_idle_begin \/ release_app \/ test_quit_begin \/ quit_app \/ test_idle_end
    \/ test_registered_begin \/ test_registered_end
    \/ test_local_command_line \/ test_local_command_line_end
    \/ test_handle_local_options
    \/ properties \/ appid \/ test_local_actions \/ test_resource_path
    \/ test_help \/ test_busy \/ test_api
    \/ test_replace_begin \/ inactivity_timeout_expired \/ quit_already
    \/ name_was_lost \/ remote_activate \/ test_replace_end
    \/ test_dbus_begin \/ dbus_activate_cb \/ dbus_startup_reply_cb
    \/ dbus_startup_reply_idle_cb \/ test_dbus_end
    \/ run_end

Next ==
    \/ test_idle_begin \/ release_app \/ test_quit_begin \/ quit_app \/ test_idle_end
    \/ test_registered_begin \/ test_registered_end
    \/ test_local_command_line \/ test_local_command_line_end
    \/ test_handle_local_options
    \/ properties \/ appid \/ test_local_actions \/ test_resource_path
    \/ test_help \/ test_busy \/ test_api
    \/ test_replace_begin \/ inactivity_timeout_expired \/ quit_already
    \/ name_was_lost \/ remote_activate \/ test_replace_end
    \/ test_dbus_begin \/ dbus_activate_cb \/ dbus_startup_reply_cb
    \/ dbus_startup_reply_idle_cb \/ test_dbus_end
    \/ run_end
    \/ test_replace_subprocess

\* Both processes keep running, and a main loop with a source pending
\* dispatches one: weak fairness for each process.  Expired timers are
\* pending sources, so time passing is part of the parent's fairness.
Spec == Init /\ [][Next]_vars /\ WF_vars(Parent) /\ WF_vars(test_replace_subprocess)

-----------------------------------------------------------------------------
(* Properties.                                                             *)

Events == {"release_app", "quit_app", "call", "reply", "reply_idle",
           "inactivity", "quit_timer", "name_lost", "remote_activate"}

\* The use count, the references and the counters stay small naturals.
TypeOK ==
    /\ t \in 1..Len(Tests) + 1
    /\ pc \in {"setup", "loop", "after", "iter", "done"}
    /\ app \in [use : 0..2, quit : BOOLEAN, registered : BOOLEAN,
                timeout : {0, 500}, refs : 0..2]
    /\ pending \subseteq Events
    /\ data \in [n : 0..2, flag : BOOLEAN, timeout_id : BOOLEAN, subprocess : BOOLEAN]
    /\ owner \in [name : {"none", "parent"}, allows : BOOLEAN]
    /\ child \in [pc : {"none", "spawned", "exited"}, failed : BOOLEAN]

\* Every assertion of the parent process holds whichever order its main
\* loop dispatches the idles, replies, timeouts and the subprocess's
\* NameLost or Activate: the D-Bus tests count each call once (the hold
\* is released only after the reply), test_replace sees name-lost exactly
\* when replacement is allowed, the registered test's notify sees
\* shutdown in order; appid's table agrees with the id rule and
\* test_busy's is_busy assertions with the busy count.
TestAssertionsHold == \A f \in failures : f[2] = "source-not-found"

\* test_replace's g_clear_handle_id never removes a quit timeout that
\* already fired: quit_already forgets its id, whether it or the
\* inactivity timeout ended the run.
NoStaleSourceRemoval == \A f \in failures : f[2] # "source-not-found"

\* The application outlives every use: while its run loop, or after run
\* the test, uses it, a reference is held (the reply callback's own one
\* included), and the test's last unref frees it before the next test.
AppRefsBalanced ==
    /\ pc \in {"loop", "after"} => app.refs >= 1
    /\ pc \in {"setup", "iter"} => app.refs = 0

\* Every test returns: no run loop waits forever for a release, a quit,
\* a NameLost or a timeout, and g_subprocess_wait returns.
Termination == <>(pc = "done")

\* The subprocess's own assertion: it starts up (becomes primary) exactly
\* when the parent allowed replacement.
ChildAssertionsHold == ~child.failed

=============================================================================
