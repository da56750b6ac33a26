---------------------------- MODULE MCEarlyFlush ----------------------------
(***************************************************************************)
(* EarlyFlush on one request.  200 stands for every success, 500 and 429   *)
(* for the failures a handler writes; three writer calls let a handler     *)
(* open, write and fail in any order.                                      *)
(***************************************************************************)
EXTENDS EarlyFlush

MCCodes    == {200, 429, 500}
MCFailures == {429, 500}
=============================================================================
