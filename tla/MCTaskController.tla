---------------------------- MODULE MCTaskController ----------------------------
(***************************************************************************)
(* Two descriptors and three connections, so that a descriptor is used     *)
(* again.  Requests of 4 to 7 bytes of two values, receive buffer of 8: a   *)
(* chunk can hold two requests and part of a third.                         *)
(***************************************************************************)
EXTENDS TaskController

Request4 == <<0, 0, 1, 0>>
Request5 == <<1, 0, 1, 0, 1>>
Request7 == <<1, 1, 1, 0, 1, 0, 1>>

MCStream == << Request5 \o Request4 \o Request7, Request7 \o Request4, Request5 >>
MCEnd    == << <<5, 9, 16>>, <<7, 11>>, <<5>> >>
===============================================================================
