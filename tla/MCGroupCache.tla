----------------------------- MODULE MCGroupCache -----------------------------
(* Three goroutines, four restrictions and two groups; the first goroutine *)
(* meets one group in both of its restrictions.                            *)
EXTENDS GroupCache, TLC

CONSTANTS a, b, c, g, h, k1, k2, k3, k4

MCExempt ==
  (a :> <<<<k1, g>>, <<k2, h>>, <<k2, g>>>>)
    @@ (b :> <<<<k3, h>>, <<k3, g>>>>)
    @@ (c :> <<<<k4, g>>>>)
===============================================================================
