----------------------------- MODULE MCTerminal -----------------------------
(* Two repositories whose names differ in width, next to requests of no    *)
(* repository; texts get longer and shorter as the scan goes on.           *)
EXTENDS Terminal

CONSTANTS app, lib, none

MCRepository == {app, lib}
MCWide == [s \in MCRepository \cup {none} |-> IF s = none THEN 2 ELSE IF s = app THEN 5 ELSE 3]
MCMaxRequests == [s \in MCRepository \cup {none} |-> IF s = lib THEN 2 ELSE 1]

(* A log with narration and without, the status line, and narration alone;  *)
(* where neither is shown, nothing is.                                     *)
MCSettings ==
  {[terminal |-> TRUE, verbose |-> TRUE, progress |-> "compact"],
   [terminal |-> TRUE, verbose |-> FALSE, progress |-> "full"],
   [terminal |-> TRUE, verbose |-> FALSE, progress |-> "compact"],
   [terminal |-> FALSE, verbose |-> TRUE, progress |-> "full"]}
=============================================================================
