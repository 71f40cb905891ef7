----------------------------- MODULE MCServices -----------------------------
(***************************************************************************)
(* The instance of Services that is checked.                               *)
(***************************************************************************)
EXTENDS Services, TLC

CONSTANTS
    g1, g2, d1,         \* reads, a download
    m1, m2, w1, w2, w3, \* markets, requests for settings
    o1, o2, o3,         \* orders
    p1, p2              \* notification settings

MCWants == (g1 :> <<1, 3>>) @@ (g2 :> <<2, 2>>) @@ (d1 :> <<1, 3>>)
MCMarket == (w1 :> m1) @@ (w2 :> m2) @@ (w3 :> m1)
MCQty == (o1 :> 2) @@ (o2 :> 1) @@ (o3 :> 1)
MCSym == (o1 :> "A") @@ (o2 :> "A") @@ (o3 :> "B")
MCSide == (o1 :> 1) @@ (o2 :> -1) @@ (o3 :> 1)
MCSecret == (p1 :> "k1") @@ (p2 :> Empty)
=============================================================================
