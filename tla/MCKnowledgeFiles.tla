-------------------------- MODULE MCKnowledgeFiles --------------------------
(* Small instances of KnowledgeFiles for TLC. *)
EXTENDS KnowledgeFiles, TLC

CONSTANTS t1, t2, f1, f2, h

\* Both file ids carry the same content, so the second upload is a duplicate
\* while the first one is stored.
SameContent == [f \in Files |-> h]
=============================================================================
