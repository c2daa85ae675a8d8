----------------------------- MODULE MCSocketServer -----------------------------
(* Two clients on two descriptors.  Either each calls an API, one after a   *)
(* request too short to parse; or one calls an API and the other sends a    *)
(* command that does not exist.                                             *)
EXTENDS SocketServer

MCRequests == <<<<"short", "api1">>, <<"api2">>>>
MCReuse    == <<<<"api1">>, <<"other">>>>
===============================================================================
