-------------------------------- MODULE Logging --------------------------------
(***************************************************************************)
(* The counting macros of the bundled glog headers, as operators: whether  *)
(* an execution of a log site logs its message.                            *)
(*                                                                         *)
(* A site is its two static counters and the occurrences (the value of     *)
(* COUNTER) it has logged so far; each operator is one execution.          *)
(***************************************************************************)
EXTENDS Integers, Sequences, SequencesExt

Site == [occurrences |-> 0, mod_n |-> 0, logged |-> <<>>]

Logs(site) == [site EXCEPT !.logged = Append(@, site.occurrences)]

Wraps_Early(k, n) == k >= n
Wraps(k, n)       == k > n

LOG_EVERY_N(site, n) ==
    LET k == site.mod_n + 1
        s == [site EXCEPT !.occurrences = @ + 1, !.mod_n = IF Wraps(k, n) THEN k - n ELSE k]
    IN  IF s.mod_n = 1 THEN Logs(s) ELSE s

LOG_IF_EVERY_N(site, condition, n) ==
    LET s == [site EXCEPT !.occurrences = @ + 1, !.mod_n = IF condition THEN (@ + 1) % n ELSE @]
    IN  IF condition /\ s.mod_n = 1 % n THEN Logs(s) ELSE s

LOG_FIRST_N(site, n) ==
    LET s == IF site.occurrences <= n THEN [site EXCEPT !.occurrences = @ + 1] ELSE site
    IN  IF s.occurrences <= n THEN Logs(s) ELSE s

(* What a site has logged after it was executed once for each condition. *)
EveryN(conditions, n)   == FoldLeft(LAMBDA s, c : LOG_EVERY_N(s, n), Site, conditions).logged
IfEveryN(conditions, n) == FoldLeft(LAMBDA s, c : LOG_IF_EVERY_N(s, c, n), Site, conditions).logged
FirstN(conditions, n)   == FoldLeft(LAMBDA s, c : LOG_FIRST_N(s, n), Site, conditions).logged
===============================================================================
