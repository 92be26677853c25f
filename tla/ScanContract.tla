---------------------------- MODULE ScanContract ----------------------------
(***************************************************************************)
(* What a network scan promises the command that started it, with none of  *)
(* the goroutines that keep the promise: it ends in one snapshot or in one *)
(* failure, the snapshot holds every repository in scope except those of   *)
(* the projects it names as unlisted, and a failure has one of four causes.*)
(* FetchScan implements this specification.                                *)
(***************************************************************************)
EXTENDS ScanScope

VARIABLES
  cancelled, \* Ctrl-C, or scan.maxDuration has run out
  unlisted,  \* projects whose repositories could not be listed
  outcome,   \* "pending", "snapshot", or what the scan failed with
  snapshot   \* the repositories handed back
vars == <<cancelled, unlisted, outcome, snapshot>>

Init ==
  /\ cancelled = FALSE
  /\ unlisted = {}
  /\ outcome = "pending"
  /\ snapshot = {}

Interrupt ==
  /\ ~cancelled
  /\ cancelled' = TRUE
  /\ UNCHANGED <<unlisted, outcome, snapshot>>

(* A project that will not list is set aside by name; an interruption is   *)
(* never mistaken for that.                                                *)
SetAside(p) ==
  /\ outcome = "pending" /\ ~cancelled
  /\ unlisted' = unlisted \cup {p}
  /\ UNCHANGED <<cancelled, outcome, snapshot>>

Deliver ==
  /\ outcome = "pending"
  /\ Missing(Coverage(unlisted), unlisted) = {}
  /\ outcome' = "snapshot"
  /\ snapshot' = Coverage(unlisted)
  /\ UNCHANGED <<cancelled, unlisted>>

Fail(why) ==
  /\ outcome = "pending"
  /\ why = "cancelled" => cancelled
  /\ why = "missing" => Missing(Coverage(unlisted), unlisted) # {}
  /\ outcome' = why
  /\ UNCHANGED <<cancelled, unlisted, snapshot>>

Next ==
  \/ Interrupt
  \/ \E p \in Visited : SetAside(p)
  \/ Deliver
  \/ \E why \in Failures : Fail(why)

Spec == Init /\ [][Next]_vars
=============================================================================
