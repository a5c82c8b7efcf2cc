--------------------------- MODULE MCBusinessImport ---------------------------
(* Small instances of BusinessImport: which proposal belongs to which job,  *)
(* and which job analyses which file.                                       *)
EXTENDS BusinessImport, TLC

CONSTANTS f1, f2, j1, j2, p1, p2, p3

\* One job with three proposals.
OneFile == j1 :> f1
AllOfOne == (p1 :> j1) @@ (p2 :> j1) @@ (p3 :> j1)

\* Two jobs of two files, a proposal each.
TwoFiles == (j1 :> f1) @@ (j2 :> f2)
OneEach == (p1 :> j1) @@ (p2 :> j2)

=============================================================================
