------------------------------- MODULE MCClient -------------------------------
(* Requests of one byte, answers of two. *)
EXTENDS Client

MCCmdData == <<1>>
MCAnswer  == <<2, 1>>
===============================================================================
