----------------------------- MODULE MCFetchScan -----------------------------
(* Small instances of FetchScan: three projects, the first with two        *)
(* repositories, and a name no project has.                                *)
EXTENDS FetchScan, TLC

CONSTANTS p1, p2, p3, r1, r2, r3, r4, gone

MCProjectOf == (r1 :> p1) @@ (r2 :> p1) @@ (r3 :> p2) @@ (r4 :> p3) @@ (gone :> p2)
==============================================================================
