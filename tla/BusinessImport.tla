---------------------------- MODULE BusinessImport ----------------------------
(***************************************************************************)
(* Product imports reviewed by people: routes/business_imports.py and      *)
(* services/business_import_application.py.                                *)
(*                                                                         *)
(* A streaming request asks the provider for proposals and stores them     *)
(* under an import job; reviewers decide on each; an apply request writes  *)
(* the approved ones as products in one READ COMMITTED transaction.        *)
(* Deleting the source file cascades to jobs, proposals and products.      *)
(***************************************************************************)
EXTENDS Naturals

CONSTANTS
    Files,      \* source files, with a parsed document each
    Jobs,       \* import jobs
    Proposals,  \* rows of ImportProposal
    Applies,    \* apply requests in flight
    Names,      \* product names, in lower case
    FileOf,     \* the file that a job analyses
    JobOf,      \* the job that a proposal belongs to
    Catalog,    \* names of the workspace's products that no import made
    None        \* no name, no job

ASSUME ImportAssumption ==
    /\ FileOf \in [Jobs -> Files]
    /\ JobOf \in [Proposals -> Jobs]
    /\ Catalog \subseteq Names
    /\ None \notin Names \cup Jobs

VARIABLES
    file,      \* "live", "deleting" (its row locked by a DELETE) or "gone"
    job,       \* ImportJob.status
    stream,    \* where the analysis request of a job is
    prop,      \* rows of ImportProposal: status and product name
    products,  \* how many products were written for a proposal
    apply      \* the transaction of an apply request

vars == <<file, job, stream, prop, products, apply>>

-----------------------------------------------------------------------------
JobStatus == {"none", "analyzing", "awaiting_review", "failed", "completed"}
PropStatus == {"none", "pending", "schema_review_required", "approved",
               "rejected", "applied"}
StreamState == {"none", "analyzing", "persisting", "persisted", "failing", "ended"}
ApplyState == {"idle", "lock", "write", "count", "commit"}

NoProposal == [st |-> "none", name |-> None]
IdleApply == [pc |-> "idle", job |-> None, todo |-> {}, done |-> {}, rest |-> FALSE]

ProposalsOf(j) == {p \in Proposals : JobOf[p] = j}
JobsOf(f) == {j \in Jobs : FileOf[j] = f}
Open == {"pending", "approved"}

\* SELECT ... FOR UPDATE of the job, held until the transaction ends.
Holds(a, j) == apply[a].job = j /\ apply[a].pc \in {"write", "count", "commit"}
JobLocked(j) == \E a \in Applies : Holds(a, j)

\* A product row's foreign key keeps its source file from being deleted.
FilePinned(f) ==
    \E a \in Applies : apply[a].done # {} /\ \E j \in JobsOf(f) : Holds(a, j)

-----------------------------------------------------------------------------
(* stream_business_import_analysis.                                         *)

\* The job is committed before the first byte is sent.  The foreign key waits
\* for a DELETE of the file, and then fails.
CreateJob(j) ==
    /\ stream[j] = "none" /\ file[FileOf[j]] = "live"
    /\ job' = [job EXCEPT ![j] = "analyzing"]
    /\ stream' = [stream EXCEPT ![j] = "analyzing"]
    /\ UNCHANGED <<file, prop, products, apply>>

\* stream_provider_completion and parse_and_validate_agent_output
ProviderAnswers(j, ok) ==
    /\ stream[j] = "analyzing"
    /\ stream' = [stream EXCEPT ![j] = IF ok THEN "persisting" ELSE "failing"]
    /\ UNCHANGED <<file, job, prop, products, apply>>

\* _persist_analysis_result commits: ps are the proposals, with their names,
\* out those that are out of scope.  A job that is gone takes no proposal, but
\* the update of its row finds nothing to do and does not fail.
Persist(j, ps, out, names) ==
    /\ stream[j] = "persisting"
    /\ job[j] = "none" => ps = {}
    /\ prop' = [p \in Proposals |->
                  IF p \in ps
                  THEN [st |-> IF p \in out THEN "schema_review_required" ELSE "pending",
                        name |-> names[p]]
                  ELSE prop[p]]
    /\ job' = [job EXCEPT ![j] = IF @ = "none" THEN @ ELSE "awaiting_review"]
    /\ stream' = [stream EXCEPT ![j] = "persisted"]
    /\ UNCHANGED <<file, products, apply>>

\* A database error rolls the proposals back and becomes a validation error.
PersistFails(j) ==
    /\ stream[j] = "persisting"
    /\ stream' = [stream EXCEPT ![j] = "failing"]
    /\ UNCHANGED <<file, job, prop, products, apply>>

\* The UPDATE of _mark_job_failed, whatever the job's status is.
SetFailed(j) == job' = [job EXCEPT ![j] = IF @ = "none" THEN @ ELSE "failed"]

\* _mark_job_failed after an error; an error of its own is swallowed.
MarkFailed(j) ==
    /\ stream[j] = "failing"
    /\ \/ ~JobLocked(j) /\ SetFailed(j)
       \/ UNCHANGED job
    /\ stream' = [stream EXCEPT ![j] = "ended"]
    /\ UNCHANGED <<file, prop, products, apply>>

\* The browser goes away or the process dies.  The cancelled request tries to
\* mark the job, and may be cancelled again, or die, before that commits; the
\* result may have been committed already.
Disconnect(j) ==
    /\ stream[j] \in {"analyzing", "persisting", "persisted", "failing"}
    /\ \/ ~JobLocked(j) /\ SetFailed(j)
       \/ UNCHANGED job
    /\ stream' = [stream EXCEPT ![j] = "ended"]
    /\ UNCHANGED <<file, prop, products, apply>>

StreamEnds(j) ==
    /\ stream[j] = "persisted"
    /\ stream' = [stream EXCEPT ![j] = "ended"]
    /\ UNCHANGED <<file, job, prop, products, apply>>

Analysis(j) ==
    \/ \E ok \in BOOLEAN : ProviderAnswers(j, ok)
    \/ \E ps \in SUBSET ProposalsOf(j) : \E out \in SUBSET ps, names \in [ps -> Names] :
         Persist(j, ps, out, names)
    \/ PersistFails(j) \/ MarkFailed(j) \/ Disconnect(j) \/ StreamEnds(j)

-----------------------------------------------------------------------------
\* Fault injected: a proposal that is out of scope can be approved.
Decide_OutOfScope(p, decision) ==
    /\ prop[p].st \in {"pending", "schema_review_required"}
    /\ prop' = [prop EXCEPT ![p].st = decision]
    /\ UNCHANGED <<file, job, stream, products, apply>>

\* decide_business_import_proposal: one statement, and 409 when no row matches.
Decide(p, decision) ==
    /\ prop[p].st = "pending"
    /\ prop' = [prop EXCEPT ![p].st = decision]
    /\ UNCHANGED <<file, job, stream, products, apply>>

-----------------------------------------------------------------------------
(* apply_business_import_job and apply_approved_import_job.                 *)

BeginApply(a, j) ==
    /\ apply[a].pc = "idle" /\ job[j] # "none"
    /\ apply' = [apply EXCEPT ![a] = [IdleApply EXCEPT !.pc = "lock", !.job = j]]
    /\ UNCHANGED <<file, job, stream, prop, products>>

\* Fault injected: everything that is not decided yet counts as approved.
Approved_Undecided(j) == {p \in ProposalsOf(j) : prop[p].st \in Open}

Approved(j) == {p \in ProposalsOf(j) : prop[p].st = "approved"}

\* Fault injected: the two SELECTs without FOR UPDATE.
LockJob_NoLock(a) ==
    LET j == apply[a].job IN
    /\ apply[a].pc = "lock"
    /\ apply' = [apply EXCEPT ![a] =
         IF job[j] \in {"awaiting_review", "completed"} /\ Approved(j) # {}
         THEN [@ EXCEPT !.pc = "write", !.todo = Approved(j)]
         ELSE IdleApply]
    /\ UNCHANGED <<file, job, stream, prop, products>>

\* Fault injected: the request waits for an approved proposal instead of failing.
LockJob_Waits(a) ==
    LET j == apply[a].job IN
    /\ apply[a].pc = "lock"
    /\ ~JobLocked(j)
    /\ Approved(j) # {}
    /\ apply' = [apply EXCEPT ![a] =
         IF job[j] \in {"awaiting_review", "completed"}
         THEN [@ EXCEPT !.pc = "write", !.todo = Approved(j)]
         ELSE IdleApply]
    /\ UNCHANGED <<file, job, stream, prop, products>>

\* The row lock of the job, its status, and the approved proposals.
LockJob(a) ==
    LET j == apply[a].job IN
    /\ apply[a].pc = "lock"
    /\ ~JobLocked(j)
    /\ apply' = [apply EXCEPT ![a] =
         IF job[j] \in {"awaiting_review", "completed"} /\ Approved(j) # {}
         THEN [@ EXCEPT !.pc = "write", !.todo = Approved(j)]
         ELSE IdleApply]
    /\ UNCHANGED <<file, job, stream, prop, products>>

\* Fault injected: the duplicate check runs on a connection of its own.
NamesSeen_Committed(a) ==
    Catalog \cup {prop[p].name : p \in {q \in Proposals : products[q] > 0}}

\* The names that the transaction's SELECT sees: committed ones and its own.
NamesSeen(a) ==
    Catalog \cup {prop[p].name : p \in {q \in Proposals : products[q] > 0} \cup apply[a].done}

\* _apply_product_proposal.  The rows of one job have one creation time, so the
\* order of the SELECT is that of their random ids.
WriteProduct(a, p) ==
    /\ apply[a].pc = "write" /\ p \in apply[a].todo
    /\ prop[p].name \notin NamesSeen(a)
    /\ file[FileOf[apply[a].job]] = "live"
    /\ apply' = [apply EXCEPT ![a].todo = @ \ {p}, ![a].done = @ \cup {p},
                              ![a].pc = IF apply[a].todo = {p} THEN "count" ELSE @]
    /\ UNCHANGED <<file, job, stream, prop, products>>

\* BusinessImportConflictError: the transaction is rolled back.
Conflict(a, p) ==
    /\ apply[a].pc = "write" /\ p \in apply[a].todo
    /\ prop[p].name \in NamesSeen(a)
    /\ apply' = [apply EXCEPT ![a] = IdleApply]
    /\ UNCHANGED <<file, job, stream, prop, products>>

\* Fault injected: only pending proposals are counted.
Remaining_Pending(a) ==
    {p \in ProposalsOf(apply[a].job) \ apply[a].done : prop[p].st = "pending"}

\* PENDING_PROPOSAL_COUNT_QUERY, after the transaction's own updates.
Remaining(a) == {p \in ProposalsOf(apply[a].job) \ apply[a].done : prop[p].st \in Open}

CountRest(a) ==
    /\ apply[a].pc = "count"
    /\ apply' = [apply EXCEPT ![a].pc = "commit", ![a].rest = Remaining(a) # {}]
    /\ UNCHANGED <<file, job, stream, prop, products>>

\* Fault injected: FINISH_JOB_QUERY is missing, SET_JOB_APPLYING_QUERY's status stays.
CommitApply_NotFinished(a) ==
    LET done == apply[a].done IN
    /\ apply[a].pc = "commit"
    /\ prop' = [p \in Proposals |->
                  IF p \in done THEN [prop[p] EXCEPT !.st = "applied"] ELSE prop[p]]
    /\ products' = [p \in Proposals |-> IF p \in done THEN products[p] + 1 ELSE products[p]]
    /\ job' = [job EXCEPT ![apply[a].job] = "applying"]
    /\ apply' = [apply EXCEPT ![a] = IdleApply]
    /\ UNCHANGED <<file, stream>>

CommitApply(a) ==
    LET done == apply[a].done IN
    /\ apply[a].pc = "commit"
    /\ prop' = [p \in Proposals |->
                  IF p \in done THEN [prop[p] EXCEPT !.st = "applied"] ELSE prop[p]]
    /\ products' = [p \in Proposals |-> IF p \in done THEN products[p] + 1 ELSE products[p]]
    /\ job' = [job EXCEPT ![apply[a].job] =
                 IF apply[a].rest THEN "awaiting_review" ELSE "completed"]
    /\ apply' = [apply EXCEPT ![a] = IdleApply]
    /\ UNCHANGED <<file, stream>>

\* A database error, a stored proposal that no longer validates, a cancelled
\* request or a crash: the transaction is rolled back.
AbortApply(a) ==
    /\ apply[a].pc # "idle"
    /\ apply' = [apply EXCEPT ![a] = IdleApply]
    /\ UNCHANGED <<file, job, stream, prop, products>>

ApplyStep(a) ==
    \/ LockJob(a) \/ CountRest(a) \/ CommitApply(a)
    \/ \E p \in Proposals : WriteProduct(a, p) \/ Conflict(a, p)

-----------------------------------------------------------------------------
(* The DELETE of a KnowledgeFile row (delete_knowledge_file), as far as the *)
(* imports are concerned.                                                   *)

LockFile(f) ==
    /\ file[f] = "live" /\ ~FilePinned(f)
    /\ file' = [file EXCEPT ![f] = "deleting"]
    /\ UNCHANGED <<job, stream, prop, products, apply>>

\* ON DELETE CASCADE, which waits for the locks of the job rows.
Cascade(f) ==
    /\ file[f] = "deleting"
    /\ \A j \in JobsOf(f) : ~JobLocked(j)
    /\ file' = [file EXCEPT ![f] = "gone"]
    /\ job' = [j \in Jobs |-> IF FileOf[j] = f THEN "none" ELSE job[j]]
    /\ prop' = [p \in Proposals |-> IF FileOf[JobOf[p]] = f THEN NoProposal ELSE prop[p]]
    /\ products' = [p \in Proposals |-> IF FileOf[JobOf[p]] = f THEN 0 ELSE products[p]]
    /\ UNCHANGED <<stream, apply>>

AbortDelete(f) ==
    /\ file[f] = "deleting"
    /\ file' = [file EXCEPT ![f] = "live"]
    /\ UNCHANGED <<job, stream, prop, products, apply>>

\* The apply waits for the file's row, the DELETE for the job's row: the
\* database ends the deadlock by failing one of the two.
Deadlocked(a, f) ==
    /\ file[f] = "deleting" /\ apply[a].pc = "write"
    /\ FileOf[apply[a].job] = f
BreakDeadlock(a, f) == Deadlocked(a, f) /\ (AbortApply(a) \/ AbortDelete(f))

-----------------------------------------------------------------------------
Init ==
    /\ file = [f \in Files |-> "live"]
    /\ job = [j \in Jobs |-> "none"]
    /\ stream = [j \in Jobs |-> "none"]
    /\ prop = [p \in Proposals |-> NoProposal]
    /\ products = [p \in Proposals |-> 0]
    /\ apply = [a \in Applies |-> IdleApply]

Next ==
    \/ \E j \in Jobs : CreateJob(j) \/ Analysis(j)
    \/ \E p \in Proposals, d \in {"approved", "rejected"} : Decide(p, d)
    \/ \E a \in Applies, j \in Jobs : BeginApply(a, j)
    \/ \E a \in Applies : ApplyStep(a) \/ AbortApply(a)
    \/ \E f \in Files : LockFile(f) \/ Cascade(f) \/ AbortDelete(f)

Spec == Init /\ [][Next]_vars

\* A transaction that can take its next statement takes it, locks are granted
\* in the order of the queue, and the database breaks deadlocks.
Fairness ==
    /\ \A a \in Applies : SF_vars(ApplyStep(a))
    /\ \A a \in Applies, f \in Files : WF_vars(BreakDeadlock(a, f))

FairSpec == Spec /\ Fairness

-----------------------------------------------------------------------------
\* Every variable keeps its type.
TypeOK ==
    /\ file \in [Files -> {"live", "deleting", "gone"}]
    /\ job \in [Jobs -> JobStatus]
    /\ stream \in [Jobs -> StreamState]
    /\ prop \in [Proposals -> [st: PropStatus, name: Names \cup {None}]]
    /\ products \in [Proposals -> Nat]
    /\ apply \in [Applies -> [pc: ApplyState, job: Jobs \cup {None},
                              todo: SUBSET Proposals, done: SUBSET Proposals,
                              rest: BOOLEAN]]

\* Proposals are the idempotency boundary (0016_business_import_review.sql):
\* however often and by however many requests a job is applied, a proposal
\* marked as applied has exactly one product and any other has none.
OneProductEach ==
    \A p \in Proposals : products[p] = IF prop[p].st = "applied" THEN 1 ELSE 0

\* A job that FINISH_JOB_QUERY completed has no proposal left to decide or to
\* apply, although reviewers decide while the transaction runs.
CompletedIsSettled ==
    \A p \in Proposals : job[JobOf[p]] = "completed" => prop[p].st \notin Open

\* A product is written for a proposal only while a reviewer's approval of it
\* stands: never for one that is undecided, rejected or out of scope.
OnlyApproved ==
    [][\A p \in Proposals : products'[p] > products[p] => prop[p].st = "approved"]_vars

\* The products of one job have different names, and none has a name that the
\* workspace had before, although several requests apply the job in turn and a
\* transaction does not see what the others have not committed.
NamesDiffer ==
    \A p, q \in Proposals :
        /\ products[p] > 0 => prop[p].name \notin Catalog
        /\ products[p] > 0 /\ products[q] > 0 /\ JobOf[p] = JobOf[q] /\ p # q
              => prop[p].name # prop[q].name

\* BusinessImportConflictError is "raised instead of silently creating or
\* overwriting a duplicate product": no two products share a name.
NoDuplicateProduct ==
    \A p \in Proposals : products[p] > 0 =>
        /\ prop[p].name \notin Catalog
        /\ \A q \in Proposals \ {p} : products[q] > 0 => prop[q].name # prop[p].name

\* The whole of it, seen by the reviewers, is ImportReview: no interleaving of
\* requests, and no rollback, disconnect or deletion, shows through.
Review == INSTANCE ImportReview
            WITH state <- [p \in Proposals |-> prop[p].st],
                 settled <- {j \in Jobs : job[j] = "completed"}
ImplementsReview == Review!Spec

\* Every apply request is answered: it waits neither for another one nor for
\* the deletion of its file for ever.
ApplyEnds == \A a \in Applies : apply[a].pc # "idle" ~> apply[a].pc = "idle"

=============================================================================
