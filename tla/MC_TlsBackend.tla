---------------------------- MODULE MC_TlsBackend ----------------------------
(* Two threads and three databases: enough for one thread to replace or   *)
(* reset the default while the other is inside a get, with a database of  *)
(* each thread's own and the lazily created one.  Three backends let two  *)
(* initializations of the singleton differ and cover every default of the *)
(* interface wrappers: a current real backend (glib-networking's OpenSSL  *)
(* one: DTLS and the file database, no supports_tls), a backend written   *)
(* before those vfuncs existed (none of them), and GIO's dummy backend    *)
(* (the DTLS connection and file database types, neither supports vfunc). *)
EXTENDS TlsBackend, TLC

CONSTANTS openssl, legacy, dummy

MC_VTable ==
    (openssl :> {"supports_dtls", "get_dtls_client_connection_type",
                 "get_dtls_server_connection_type", "get_file_database_type"})
    @@ (legacy :> {})
    @@ (dummy :> {"get_dtls_client_connection_type",
                  "get_dtls_server_connection_type", "get_file_database_type"})
=============================================================================
