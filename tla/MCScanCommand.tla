---------------------------- MODULE MCScanCommand ----------------------------
(* An invocation that is told what to scan, one that asks, and one that relies on
   what they left behind. *)
EXTENDS ScanCommand, TLC

CONSTANTS r1, r2, r3, u1, u2, h1, h2

MCRuns == {r1, r2, r3}
MCUrls == {u1, u2}
MCHosts == {h1, h2}
MCHostOf == u1 :> h1 @@ u2 :> h2

Plain == [NoCommand EXCEPT !.cache = TRUE]
At(url, token) == [url |-> url, token |-> token]

Enter(url, token) == [choice |-> "enter", url |-> url, token |-> token, save |-> TRUE]

TellingOrAsking ==
    {[Plain EXCEPT !.typed = At(u1, None), !.env = At(u2, u1), !.out = TRUE],
     [Plain EXCEPT !.answers = {Enter(u2, u2)}, !.cache = FALSE]}

Asking ==
    {[Plain EXCEPT !.narrowed = TRUE,
                   !.answers = {[Enter(None, None) EXCEPT !.choice = "quit"],
                                [Enter(None, None) EXCEPT !.choice = "demo"],
                                Enter(u1, None), Enter(u1, Bad), Enter(u2, u2)}]}

Relying ==
    {[Plain EXCEPT !.last = TRUE, !.env = At(u1, u1)],
     [Plain EXCEPT !.last = TRUE, !.narrowed = TRUE],
     [Plain EXCEPT !.demo = TRUE, !.in = TRUE],
     [Plain EXCEPT !.in = TRUE, !.env = At(u2, u2), !.file = TRUE, !.allow = TRUE],
     [Plain EXCEPT !.in = TRUE, !.narrowed = TRUE],
     [Plain EXCEPT !.env = At(None, u2), !.cache = FALSE],
     [Plain EXCEPT !.cache = FALSE]}

MCCommands == r1 :> TellingOrAsking @@ r2 :> Asking @@ r3 :> Relying

\* Two instances behind one host, told apart by the path.
MCTwoRuns == {r1, r2}
MCOneHost == {h1}
MCBehindOneHost == u1 :> h1 @@ u2 :> h1
MCAlternating ==
    r1 :> {[Plain EXCEPT !.typed = At(u1, u1)]} @@ r2 :> {[Plain EXCEPT !.typed = At(u2, u2)]}
=============================================================================
