--------------------------- MODULE MCAccessAudit ---------------------------
(* Three accounts and two repositories, the second of them archived.  The  *)
(* instances are two families that no control looks at together: who may    *)
(* do what, and who signed in when.  Within a family the accounts are       *)
(* interchangeable, so that one order of them stands for all.              *)
EXTENDS AccessAudit, TLC

CONSTANTS ann, bob, eve, app, old

MCAccount == {ann, bob, eve}
MCRepository == {app, old}
MCRank == 1 :> 1 @@ 2 :> 2

(* What one account may be: who it is, and what it may do with app. *)
Person ==
  {p \in [active : BOOLEAN, licensed : BOOLEAN, admin : BOOLEAN, may : 0..3] :
     /\ p.admin => p.licensed /\ p.may = 3
     /\ ~p.active => p.may # 1}
Weight(p) == (IF p.active THEN 1 ELSE 0) + (IF p.licensed THEN 2 ELSE 0)
               + (IF p.admin THEN 4 ELSE 0) + 8 * p.may

Permitted(a, b, e, lists) ==
  LET person == ann :> a @@ bob :> b @@ eve :> e
      may == [u \in MCAccount |-> person[u].may]
  IN [active |-> {u \in MCAccount : person[u].active},
      licensed |-> {u \in MCAccount : person[u].licensed},
      admins |-> {u \in MCAccount : person[u].admin},
      never |-> {}, idle |-> [u \in MCAccount |-> 0], age |-> [u \in MCAccount |-> 0],
      times |-> TRUE, ages |-> TRUE, lists |-> lists,
      grant |-> app :> may @@ old :> may,
      public |-> IF a.active THEN {} ELSE {app}, archived |-> {old}]

MCPermitted ==
  {Permitted(a, b, e, lists) : <<a, b, e, lists>> \in
     {t \in Person \X Person \X Person \X BOOLEAN :
        Weight(t[1]) <= Weight(t[2]) /\ Weight(t[2]) <= Weight(t[3])}}

(* When one account last signed in, if ever, and whether it is new.  Two    *)
(* days are too long.                                                      *)
Habit == [never : BOOLEAN, idle : {-1, 1, 2}, age : {-1, 1, 2}, active : BOOLEAN, licensed : BOOLEAN]

Visited(b, e, times, ages) ==
  LET habit == bob :> b @@ eve :> e
      only == {bob, eve}
      none == [u \in MCAccount |-> 0]
  IN [active |-> {ann} \cup {u \in only : habit[u].active},
      licensed |-> {u \in only : habit[u].licensed},
      admins |-> {},
      never |-> {ann} \cup {u \in only : habit[u].never},
      idle |-> [u \in MCAccount |-> IF u \in only THEN habit[u].idle ELSE 0],
      age |-> [u \in MCAccount |-> IF u \in only THEN habit[u].age ELSE 2],
      times |-> times, ages |-> ages, lists |-> TRUE,
      grant |-> app :> none @@ old :> none,
      public |-> {}, archived |-> {app, old}]

MCVisited ==
  {Visited(b, e, times, ages) : b \in Habit, e \in {h \in Habit : h.active /\ h.licensed},
                                times \in BOOLEAN, ages \in BOOLEAN}

MCWorlds == MCPermitted \cup MCVisited
=============================================================================
