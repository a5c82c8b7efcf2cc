------------------------------ MODULE MCDataPages ------------------------------
(* Two bases and a file of one; two tabs, one with two requests that recover side *)
(* by side, the other with a logout.                                             *)
EXTENDS DataPages, TLC
CONSTANTS f1, f2, f3, b1, b2, t1, t2, c1, c2, c3
MCHome == f1 :> b1
MCTabOf == (c1 :> t1) @@ (c2 :> t1) @@ (c3 :> t2)
MCKind == (c1 :> "api") @@ (c2 :> "api") @@ (c3 :> "logout")
=============================================================================
