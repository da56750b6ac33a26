------------------------------ MODULE MCService ------------------------------
(* Service for TLC, alone: a public host of a port, and this machine's own. *)
EXTENDS Service
CONSTANTS p, q

Public == [port |-> 8080, keys |-> {"secret"}, allow |-> FALSE, host |-> "192.0.2.1", lang |-> "",
           cacheTTL |-> "", models |-> 0, retry |-> 0, interval |-> 0,
           proxy |-> [scheme |-> "none", host |-> ""], fallback |-> FALSE, env |-> {},
           logToFile |-> FALSE, panel |-> FALSE, journalDays |-> 7]
Keyless == [Public EXCEPT !.keys = {}, !.allow = TRUE, !.host = "127.0.0.1"]
TwoHosts == {Public, Keyless}
=============================================================================
