--------------------------- MODULE MCChangeAudit ---------------------------
(* Two branches; a restriction of every way to match, one of them through  *)
(* a group; two conditions, one of them exempted.                          *)
EXTENDS ChangeAudit, TLC

CONSTANTS main, dev, none, ro, pro, ff, c1, c2, ann, bob, key, team

MCBranch == {main, dev}
MCRestriction == {ro, pro, ff}
MCTypeOf == ro :> "read-only" @@ pro :> "pull-request-only" @@ ff :> "fast-forward-only"
MCExempt == ro :> {team} @@ pro :> {key, team} @@ ff :> {bob}
MCPrincipal == {ann, bob, key}
MCGroup == {team}
MCMembers == team :> {ann, bob}
MCCondition == {c1, c2}
MCExemption == {c1}
MCMatcher == ro :> "model" @@ pro :> "name" @@ ff :> "unknown" @@ c1 :> "name" @@ c2 :> "model"
MCExemptMatcher == c1 :> "model"
MCHooks == {"signature", "force push"}
MCAllowed == {ann}

Plain ==
  [archived |-> FALSE, branches |-> {main}, configured |-> main, stale |-> {},
   restrictions |-> {}, covering |-> {}, conditions |-> {}, gating |-> {}, exempting |-> {},
   hooks |-> {}, policy |-> FALSE, pr |-> {}]

Branches(w) == {[w EXCEPT !.branches = b] : b \in SUBSET MCBranch}

(* The repositories that differ from a plain one in their restrictions and  *)
(* the hook; in their builds; and in the rest.                             *)
MCWorlds ==
  {w \in
     UNION {Branches([Plain EXCEPT !.restrictions = r, !.covering = c, !.hooks = h])
              : r \in SUBSET MCRestriction, c \in SUBSET MCRestriction,
                h \in {{}, {"force push"}}}
     \cup
     UNION {Branches([Plain EXCEPT !.conditions = cs, !.gating = g, !.exempting = e, !.pr = p])
              : cs \in SUBSET MCCondition, g \in SUBSET MCCondition, e \in SUBSET MCExemption,
                p \in {{}, {"builds"}}}
     \cup
     UNION {Branches([Plain EXCEPT !.archived = a, !.stale = s, !.hooks = h, !.policy = f, !.pr = p])
              : a \in BOOLEAN, s \in {{}, {dev}}, h \in {{}, {"signature"}}, f \in BOOLEAN,
                p \in {{}, {"approvals", "tasks"}, {"reset", "linear"}}}
   : Consistent(w)}
=============================================================================
