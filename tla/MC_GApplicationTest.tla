------------------------- MODULE MC_GApplicationTest -------------------------
(* GApplicationTest with the tests main registers that this model covers, *)
(* in main's order.                                                       *)
EXTENDS GApplicationTest

MC_Tests ==
    << "no-dbus", "no-appid", "properties", "app-id", "quit", "registered", "local-actions",
       "local-command-line", "resource-path", "test-help", "test-busy",
       "handle-local-options1", "handle-local-options2", "handle-local-options3", "api",
       "replace", "no-replace",
       "dbus/activate", "dbus/open", "dbus/command-line", "dbus/activate-action" >>
=============================================================================
