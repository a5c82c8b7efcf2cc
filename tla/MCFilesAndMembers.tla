-------------------------- MODULE MCFilesAndMembers --------------------------
(* The files of a knowledge base and the members of the workspace, for TLC. *)
(* A request for a file checks its caller's permission when it begins, and  *)
(* then touches no row that a request for a member touches: nothing goes    *)
(* from one to the other.  So one of them is at work in a behaviour.        *)
EXTENDS MCKnowledgeFiles, WorkspaceMembers

VARIABLE part

\* One list that every role may have, and one that an employee may not.
EitherList == {{"members.manage"}, {"knowledge.manage"}}

WorkspaceInit == part \in {"files", "members"} /\ Init /\ MembersInit

WorkspaceNext ==
    \/ part = "files" /\ Next /\ UNCHANGED <<part, memberVars>>
    \/ part = "members" /\ MembersNext /\ UNCHANGED <<part, vars>>

WorkspaceSpec == WorkspaceInit /\ [][WorkspaceNext]_<<part, vars, memberVars>>

\* The transactions have the names of the tasks, so that one symmetry, of names
\* that nothing depends on, serves whichever part is at work.
Symmetry == Permutations(Tasks \cup Tx)
=============================================================================
