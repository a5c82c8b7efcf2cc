----------------------------- MODULE ImportReview -----------------------------
(***************************************************************************)
(* What an import promises its reviewers, without requests, transactions,  *)
(* locks and cancellations: each job proposes once; a proposal becomes a   *)
(* product, once, by being approved first; a job is settled when nothing   *)
(* is left to decide or to apply; what belongs to a file goes with it.     *)
(***************************************************************************)
EXTENDS Naturals

CONSTANTS
    Jobs,       \* import jobs
    Proposals,  \* what they propose
    JobOf       \* the job of a proposal

VARIABLES
    state,     \* where a proposal is
    products,  \* the products made of a proposal
    settled    \* the jobs that count as completed

review == <<state, products, settled>>

Undecided == {"pending", "approved"}

Init ==
    /\ state = [p \in Proposals |-> "none"]
    /\ products = [p \in Proposals |-> 0]
    /\ settled = {}

\* The proposals of a job appear at once, out of scope ones among them.
Propose(j, ps, out) ==
    /\ j \notin settled /\ out \subseteq ps
    /\ \A p \in Proposals : p \in ps => JobOf[p] = j
    /\ \A p \in Proposals : JobOf[p] = j => state[p] = "none"
    /\ state' = [p \in Proposals |-> IF p \in out THEN "schema_review_required"
                                     ELSE IF p \in ps THEN "pending"
                                     ELSE state[p]]
    /\ UNCHANGED <<products, settled>>

\* A reviewer decides, once.
Judge(p, decision) ==
    /\ state[p] = "pending"
    /\ state' = [state EXCEPT ![p] = decision]
    /\ UNCHANGED <<products, settled>>

\* Approved proposals of one job become products at once.  The job is settled
\* by it only if nothing else of it is undecided.
Publish(j, ps) ==
    /\ \A p \in ps : JobOf[p] = j /\ state[p] = "approved"
    /\ state' = [p \in Proposals |-> IF p \in ps THEN "applied" ELSE state[p]]
    /\ products' = [p \in Proposals |-> IF p \in ps THEN products[p] + 1 ELSE products[p]]
    /\ \/ settled' = settled \ {j}
       \/ /\ settled' = settled \cup {j}
          /\ \A p \in Proposals \ ps : JobOf[p] = j => state[p] \notin Undecided

\* A client that leaves late turns a job from completed to failed.
Unsettle(j) == settled' = settled \ {j} /\ UNCHANGED <<state, products>>

\* The jobs of a deleted file go, and all that came from them.
Withdraw(js) ==
    /\ state' = [p \in Proposals |-> IF JobOf[p] \in js THEN "none" ELSE state[p]]
    /\ products' = [p \in Proposals |-> IF JobOf[p] \in js THEN 0 ELSE products[p]]
    /\ settled' = settled \ js

Next ==
    \/ \E j \in Jobs, ps, out \in SUBSET Proposals : Propose(j, ps, out)
    \/ \E p \in Proposals, d \in {"approved", "rejected"} : Judge(p, d)
    \/ \E j \in Jobs, ps \in SUBSET Proposals : Publish(j, ps)
    \/ \E j \in Jobs : Unsettle(j)
    \/ \E js \in SUBSET Jobs : Withdraw(js)

Spec == Init /\ [][Next]_review
=============================================================================
