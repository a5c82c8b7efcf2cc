------------------------ MODULE BusinessImport_proofs ------------------------
(***************************************************************************)
(* Proofs about BusinessImport, for every number of files, jobs, proposals *)
(* and apply requests.  OneProductEach and CompletedIsSettled are not      *)
(* inductive alone: what carries them is that a job has one apply at a     *)
(* time, which works on approved proposals of that job, and that a job is  *)
(* reviewed only once its analysis has stored everything it will store.    *)
(***************************************************************************)
EXTENDS BusinessImport, TLAPS

\* While an analysis has not stored its result, the job is not under review
\* and has no proposals.
Unstored == {"none", "analyzing", "persisting", "failing"}
AnalysisFirst ==
    /\ \A j \in Jobs : stream[j] \in Unstored => job[j] \in {"none", "analyzing"}
    /\ \A p \in Proposals : stream[JobOf[p]] \in Unstored => prop[p].st = "none"

\* An apply that has locked its job works on approved proposals of that job.
HolderOK(a) ==
    /\ apply[a].job \in Jobs
    /\ job[apply[a].job] \in {"awaiting_review", "completed"}
    /\ \A p \in apply[a].todo \cup apply[a].done :
         JobOf[p] = apply[a].job /\ prop[p].st = "approved"

Holding == {"write", "count", "commit"}
HoldersOK == \A a \in Applies : apply[a].pc \in Holding => HolderOK(a)

\* A job has one holder.
OneHolder == \A a, b \in Applies : \A j \in Jobs : Holds(a, j) /\ Holds(b, j) => a = b

\* An apply that has no lock has written nothing, and one that waits has a job.
Waiting ==
    \A a \in Applies :
        /\ apply[a].pc \in {"idle", "lock"} => apply[a].done = {}
        /\ apply[a].pc # "idle" => apply[a].job \in Jobs

\* What an apply counted as settled stays settled until it commits.
CountHolds ==
    \A a \in Applies : apply[a].pc = "commit" /\ ~apply[a].rest =>
        \A p \in ProposalsOf(apply[a].job) \ apply[a].done : prop[p].st \notin Open

IInv == /\ TypeOK /\ AnalysisFirst /\ HoldersOK /\ OneHolder /\ Waiting /\ CountHolds
        /\ OneProductEach /\ CompletedIsSettled

-----------------------------------------------------------------------------
ApplyType == [pc: ApplyState, job: Jobs \cup {None}, todo: SUBSET Proposals,
              done: SUBSET Proposals, rest: BOOLEAN]

\* The idle record of an apply request has the type of one.
LEMMA IdleType == IdleApply \in ApplyType
  BY DEF IdleApply, ApplyType, ApplyState

\* A job that is locked is under review.
LEMMA LockedIsReviewed ==
  ASSUME IInv, NEW j \in Jobs, JobLocked(j)
  PROVE  job[j] \in {"awaiting_review", "completed"}
  BY DEF IInv, HoldersOK, HolderOK, Holding, JobLocked, Holds

\* In the initial state nothing has happened.
LEMMA InitInv == ASSUME Init PROVE IInv
<1>1. TypeOK
  BY IdleType DEF Init, TypeOK, JobStatus, StreamState, PropStatus, NoProposal, ApplyType
<1> QED
  BY <1>1, ImportAssumption DEF Init, IInv, AnalysisFirst, HoldersOK, HolderOK, Holding,
     OneHolder, Holds, Waiting, CountHolds, OneProductEach, CompletedIsSettled,
     NoProposal, IdleApply, Open

-----------------------------------------------------------------------------
(* Steps that change one apply request and nothing in the database.         *)

\* A rollback returns the request to the idle state and changes nothing else.
LEMMA RollbackInv ==
  ASSUME IInv, NEW a \in Applies, apply' = [apply EXCEPT ![a] = IdleApply],
         UNCHANGED <<file, job, stream, prop, products>>
  PROVE  IInv'
<1>1. TypeOK'
  BY IdleType DEF IInv, TypeOK, ApplyType
<1>2. apply'[a] = IdleApply /\ \A b \in Applies \ {a} : apply'[b] = apply[b]
  BY DEF IInv, TypeOK
<1>3. IdleApply.pc = "idle" /\ IdleApply.done = {}
  BY DEF IdleApply
<1> QED
  BY <1>1, <1>2, <1>3 DEF IInv, AnalysisFirst, HoldersOK, HolderOK, Holding, OneHolder,
     Holds, Waiting, CountHolds, OneProductEach, CompletedIsSettled, ProposalsOf

\* A request that begins waits for its job, and has written nothing.
LEMMA BeginInv ==
  ASSUME IInv, NEW a \in Applies, NEW j \in Jobs, BeginApply(a, j)
  PROVE  IInv'
<1> DEFINE r == [IdleApply EXCEPT !.pc = "lock", !.job = j]
<1>1. r \in ApplyType /\ r.pc = "lock" /\ r.done = {} /\ r.job = j
  BY DEF IdleApply, ApplyType, ApplyState
<1>2. apply'[a] = r /\ \A b \in Applies \ {a} : apply'[b] = apply[b]
  BY DEF BeginApply, IInv, TypeOK
<1>3. UNCHANGED <<file, job, stream, prop, products>>
  BY DEF BeginApply
<1>4. TypeOK'
  BY <1>1, <1>3 DEF BeginApply, IInv, TypeOK, ApplyType
<1> HIDE DEF r
<1> QED
  BY <1>1, <1>2, <1>3, <1>4 DEF IInv, AnalysisFirst, HoldersOK, HolderOK, Holding,
     OneHolder, Holds, Waiting, CountHolds, OneProductEach, CompletedIsSettled, ProposalsOf

\* A request that gets the lock is the only holder and takes approved proposals.
LEMMA LockInv == ASSUME IInv, NEW a \in Applies, LockJob(a) PROVE IInv'
<1> DEFINE j == apply[a].job
           r == [apply[a] EXCEPT !.pc = "write", !.todo = Approved(j)]
<1>1. CASE apply' = [apply EXCEPT ![a] = IdleApply]
  BY <1>1, RollbackInv DEF LockJob
<1>2. CASE apply' = [apply EXCEPT ![a] = r] /\ job[j] \in {"awaiting_review", "completed"}
  <2>1. apply[a] \in ApplyType /\ j \in Jobs /\ apply[a].done = {} /\ ~JobLocked(j)
    BY DEF LockJob, IInv, TypeOK, Waiting, ApplyType
  <2>2. Approved(j) \subseteq Proposals /\ \A p \in Approved(j) : JobOf[p] = j /\ prop[p].st = "approved"
    BY DEF Approved, ProposalsOf
  <2>3. r \in ApplyType /\ r.pc = "write" /\ r.done = {} /\ r.job = j /\ r.todo = Approved(j)
    BY <2>1, <2>2 DEF ApplyType, ApplyState
  <2>4. apply'[a] = r /\ \A b \in Applies \ {a} : apply'[b] = apply[b]
    BY <1>2 DEF IInv, TypeOK
  <2>5. UNCHANGED <<file, job, stream, prop, products>>
    BY DEF LockJob
  <2> HIDE DEF r
  <2>6. TypeOK'
    BY <1>2, <2>3, <2>5 DEF IInv, TypeOK, ApplyType
  <2>7. HoldersOK'
    BY <1>2, <2>1, <2>2, <2>3, <2>4, <2>5 DEF IInv, HoldersOK, HolderOK, Holding
  <2>8. OneHolder'
    BY <2>1, <2>3, <2>4 DEF IInv, OneHolder, Holds, JobLocked
  <2> QED
    BY <2>1, <2>3, <2>4, <2>5, <2>6, <2>7, <2>8 DEF IInv, AnalysisFirst, Waiting, CountHolds,
       OneProductEach, CompletedIsSettled, ProposalsOf
<1> QED BY <1>1, <1>2, Zenon DEF LockJob

\* Writing a product moves a proposal of the request from one set to the other.
LEMMA WriteInv ==
  ASSUME IInv, NEW a \in Applies, NEW p \in Proposals, WriteProduct(a, p)
  PROVE  IInv'
<1>1. apply[a] \in ApplyType
  BY DEF IInv, TypeOK, ApplyType
<1>2. PICK pc \in {"write", "count"} :
        apply' = [apply EXCEPT ![a] = [apply[a] EXCEPT !.todo = @ \ {p},
                    !.done = @ \cup {p}, !.pc = pc]]
  BY <1>1 DEF WriteProduct, IInv, TypeOK, ApplyType
<1> DEFINE r == [apply[a] EXCEPT !.todo = @ \ {p}, !.done = @ \cup {p}, !.pc = pc]
<1>3. /\ r \in ApplyType /\ r.pc = pc /\ r.job = apply[a].job /\ p \in apply[a].todo
      /\ r.todo \cup r.done = apply[a].todo \cup apply[a].done
  BY <1>1, <1>2 DEF WriteProduct, ApplyType, ApplyState
<1>4. apply'[a] = r /\ \A b \in Applies \ {a} : apply'[b] = apply[b]
  BY <1>2 DEF IInv, TypeOK
<1>5. apply[a].pc = "write" /\ UNCHANGED <<file, job, stream, prop, products>>
  BY DEF WriteProduct
<1>6. TypeOK'
  BY <1>2, <1>3, <1>5 DEF IInv, TypeOK, ApplyType
<1> HIDE DEF r
<1> QED
  BY <1>2, <1>3, <1>4, <1>5, <1>6 DEF IInv, AnalysisFirst, HoldersOK, HolderOK, Holding,
     OneHolder, Holds, Waiting, CountHolds, OneProductEach, CompletedIsSettled, ProposalsOf

\* The count establishes what it says.
LEMMA CountInv == ASSUME IInv, NEW a \in Applies, CountRest(a) PROVE IInv'
<1> DEFINE b0 == Remaining(a) # {}
           r == [apply[a] EXCEPT !.pc = "commit", !.rest = b0]
<1>1. apply[a] \in ApplyType /\ b0 \in BOOLEAN
  BY DEF IInv, TypeOK, ApplyType
<1>2. ~b0 => \A p \in ProposalsOf(apply[a].job) \ apply[a].done : prop[p].st \notin Open
  BY DEF Remaining
<1>3. apply[a].pc = "count" /\ UNCHANGED <<file, job, stream, prop, products>>
  BY DEF CountRest
<1>4. apply' = [apply EXCEPT ![a] = r]
  BY DEF CountRest
<1> HIDE DEF b0
<1>5. /\ r \in ApplyType /\ r.pc = "commit" /\ r.job = apply[a].job /\ r.rest = b0
      /\ r.todo = apply[a].todo /\ r.done = apply[a].done
  BY <1>1 DEF ApplyType, ApplyState
<1>6. apply'[a] = r /\ \A b \in Applies \ {a} : apply'[b] = apply[b]
  BY <1>4 DEF IInv, TypeOK
<1>7. TypeOK'
  BY <1>3, <1>4, <1>5 DEF IInv, TypeOK, ApplyType
<1> HIDE DEF r
<1> QED
  BY <1>2, <1>3, <1>5, <1>6, <1>7 DEF IInv, AnalysisFirst, HoldersOK, HolderOK, Holding,
     OneHolder, Holds, Waiting, CountHolds, OneProductEach, CompletedIsSettled, ProposalsOf

-----------------------------------------------------------------------------
(* Steps of the analysis and of the reviewers: no apply request changes.    *)

\* A job that no apply has locked may fail, or become known, without
\* disturbing anything: st is its new status.
LEMMA JobStepInv ==
  ASSUME IInv, NEW j \in Jobs, NEW st \in JobStatus \ {"completed"},
         NEW s \in StreamState, ~JobLocked(j),
         s \in Unstored => stream[j] \in Unstored /\ st \in {"none", "analyzing"},
         job' = [job EXCEPT ![j] = st], stream' = [stream EXCEPT ![j] = s],
         UNCHANGED <<file, prop, products, apply>>
  PROVE  IInv'
<1>1. TypeOK'
  BY DEF IInv, TypeOK
<1>2. AnalysisFirst'
  BY ImportAssumption DEF IInv, TypeOK, AnalysisFirst
<1>3. HoldersOK'
  BY DEF IInv, TypeOK, HoldersOK, HolderOK, Holding, JobLocked, Holds
<1>4. CompletedIsSettled'
  BY ImportAssumption DEF IInv, TypeOK, CompletedIsSettled
<1> QED
  BY <1>1, <1>2, <1>3, <1>4 DEF IInv, OneHolder, Holds, Waiting, CountHolds, OneProductEach,
     ProposalsOf

\* The stream of a job moves on, and the job stays as it is.
LEMMA StreamStepInv ==
  ASSUME IInv, NEW j \in Jobs, NEW s \in StreamState, stream[j] # "none",
         s \in Unstored => stream[j] \in Unstored,
         stream' = [stream EXCEPT ![j] = s],
         UNCHANGED <<file, job, prop, products, apply>>
  PROVE  IInv'
<1>1. TypeOK'
  BY DEF IInv, TypeOK
<1>2. AnalysisFirst'
  BY ImportAssumption DEF IInv, TypeOK, AnalysisFirst
<1> QED
  BY <1>1, <1>2 DEF IInv, HoldersOK, HolderOK, Holding, OneHolder, Holds, Waiting,
     CountHolds, OneProductEach, CompletedIsSettled, ProposalsOf

\* A job is created for an analysis that has not begun.
LEMMA CreateInv == ASSUME IInv, NEW j \in Jobs, CreateJob(j) PROVE IInv'
<1>1. job[j] = "none" \/ job[j] = "analyzing"
  BY DEF CreateJob, IInv, AnalysisFirst, Unstored
<1>2. ~JobLocked(j)
  BY <1>1, LockedIsReviewed
<1>3. "analyzing" \in JobStatus \ {"completed"} /\ "analyzing" \in StreamState
  BY DEF JobStatus, StreamState
<1>4. stream[j] \in Unstored
  BY DEF CreateJob, Unstored
<1> QED BY <1>2, <1>3, <1>4, JobStepInv DEF CreateJob

\* An analysis that ends marks its job as failed, or leaves it.
LEMMA EndInv ==
  ASSUME IInv, NEW j \in Jobs, stream[j] # "none",
         (~JobLocked(j) /\ SetFailed(j)) \/ UNCHANGED job,
         stream' = [stream EXCEPT ![j] = "ended"],
         UNCHANGED <<file, prop, products, apply>>
  PROVE  IInv'
<1>1. "ended" \in StreamState /\ "ended" \notin Unstored
  BY DEF StreamState, Unstored
<1>2. CASE UNCHANGED job
  BY <1>1, <1>2, StreamStepInv
<1>3. CASE ~JobLocked(j) /\ SetFailed(j)
  <2>1. PICK st \in {"none", "failed"} : job' = [job EXCEPT ![j] = st]
    BY <1>3 DEF SetFailed
  <2>2. st \in JobStatus \ {"completed"}
    BY DEF JobStatus
  <2> QED BY <1>1, <1>3, <2>1, <2>2, JobStepInv
<1> QED BY <1>2, <1>3

\* Proposals are stored for a job that was not under review until then.
LEMMA PersistInv ==
  ASSUME IInv, NEW j \in Jobs, NEW ps \in SUBSET ProposalsOf(j), NEW out \in SUBSET ps,
         NEW names \in [ps -> Names], Persist(j, ps, out, names)
  PROVE  IInv'
<1>1. /\ stream[j] = "persisting" /\ job[j] \in {"none", "analyzing"}
      /\ \A p \in ps : p \in Proposals /\ JobOf[p] = j /\ prop[p].st = "none"
  BY DEF Persist, IInv, AnalysisFirst, Unstored, ProposalsOf
<1>2. ~JobLocked(j)
  BY <1>1, LockedIsReviewed
<1>3. \A p \in Proposals :
        /\ p \notin ps => prop'[p] = prop[p]
        /\ p \in ps => prop'[p].st \in {"pending", "schema_review_required"}
        /\ prop'[p] \in [st: PropStatus, name: Names \cup {None}]
  BY DEF Persist, IInv, TypeOK, PropStatus
<1>4. PICK st \in {"none", "awaiting_review"} : job' = [job EXCEPT ![j] = st]
  BY DEF Persist
<1>5. stream' = [stream EXCEPT ![j] = "persisted"] /\ UNCHANGED <<file, products, apply>>
  BY DEF Persist
<1>6. "persisted" \in StreamState /\ "persisted" \notin Unstored
  BY DEF StreamState, Unstored
<1>7. TypeOK'
  <2>1. prop' \in [Proposals -> [st: PropStatus, name: Names \cup {None}]]
    BY <1>3 DEF Persist
  <2> QED BY <1>4, <1>5, <1>6, <2>1 DEF IInv, TypeOK, JobStatus
<1>8. AnalysisFirst'
  BY <1>1, <1>3, <1>4, <1>5, <1>6, ImportAssumption DEF IInv, TypeOK, AnalysisFirst
<1>9. \A a \in Applies : apply[a].pc \in Holding => apply[a].job # j
  BY <1>1 DEF IInv, HoldersOK, HolderOK
<1>10. HoldersOK'
  BY <1>1, <1>3, <1>4, <1>5, <1>9 DEF IInv, TypeOK, HoldersOK, HolderOK
<1>11. CountHolds'
  BY <1>1, <1>3, <1>5, <1>9 DEF IInv, CountHolds, ProposalsOf, Holding
<1>12. OneProductEach'
  BY <1>1, <1>3, <1>5 DEF IInv, OneProductEach
<1>13. CompletedIsSettled'
  BY <1>1, <1>3, <1>4, ImportAssumption DEF IInv, TypeOK, CompletedIsSettled
<1> QED
  BY <1>5, <1>7, <1>8, <1>10, <1>11, <1>12, <1>13 DEF IInv, OneHolder, Holds, Waiting

\* Every step of an analysis.
LEMMA AnalysisInv == ASSUME IInv, NEW j \in Jobs, Analysis(j) PROVE IInv'
<1>1. ASSUME NEW ok \in BOOLEAN, ProviderAnswers(j, ok) PROVE IInv'
  <2>1. PICK s \in {"persisting", "failing"} : stream' = [stream EXCEPT ![j] = s]
    BY <1>1 DEF ProviderAnswers
  <2>2. s \in StreamState /\ stream[j] \in Unstored /\ stream[j] # "none"
    BY <1>1 DEF ProviderAnswers, StreamState, Unstored
  <2> QED BY <1>1, <2>1, <2>2, StreamStepInv DEF ProviderAnswers
<1>2. CASE PersistFails(j)
  <2>1. "failing" \in StreamState /\ stream[j] \in Unstored /\ stream[j] # "none"
    BY <1>2 DEF PersistFails, StreamState, Unstored
  <2> QED BY <1>2, <2>1, StreamStepInv DEF PersistFails
<1>3. CASE MarkFailed(j)
  BY <1>3, EndInv DEF MarkFailed
<1>4. CASE Disconnect(j)
  BY <1>4, EndInv DEF Disconnect
<1>5. CASE StreamEnds(j)
  BY <1>5, EndInv DEF StreamEnds
<1> QED BY <1>1, <1>2, <1>3, <1>4, <1>5, PersistInv DEF Analysis

\* A decision changes a pending proposal, which no apply works on.
LEMMA DecideInv ==
  ASSUME IInv, NEW p \in Proposals, NEW d \in {"approved", "rejected"}, Decide(p, d)
  PROVE  IInv'
<1>1. /\ prop[p].st = "pending" /\ prop'[p].st = d
      /\ \A q \in Proposals \ {p} : prop'[q] = prop[q]
      /\ UNCHANGED <<file, job, stream, products, apply>>
  BY DEF Decide, IInv, TypeOK
<1>2. TypeOK'
  BY <1>1 DEF Decide, IInv, TypeOK, PropStatus
<1>3. AnalysisFirst'
  BY <1>1 DEF IInv, AnalysisFirst
<1>4. HoldersOK'
  <2>1. \A a \in Applies : apply[a].todo \cup apply[a].done \subseteq Proposals
    BY DEF IInv, TypeOK
  <2> QED BY <1>1, <2>1 DEF IInv, HoldersOK, HolderOK
<1>5. CountHolds'
  BY <1>1 DEF IInv, CountHolds, Open, ProposalsOf
<1>6. OneProductEach' /\ CompletedIsSettled'
  BY <1>1 DEF IInv, OneProductEach, CompletedIsSettled, Open
<1> QED
  BY <1>1, <1>2, <1>3, <1>4, <1>5, <1>6 DEF IInv, OneHolder, Holds, Waiting

-----------------------------------------------------------------------------
(* The commit of an apply, and the deletion of a file.                      *)

\* The commit: what was approved becomes applied, with a product each.
LEMMA CommitInv == ASSUME IInv, NEW a \in Applies, CommitApply(a) PROVE IInv'
<1> DEFINE j == apply[a].job
           done == apply[a].done
<1>1. /\ apply[a].pc = "commit" /\ j \in Jobs /\ done \subseteq Proposals
      /\ job[j] \in {"awaiting_review", "completed"}
      /\ \A p \in done : JobOf[p] = j /\ prop[p].st = "approved"
  BY DEF CommitApply, IInv, TypeOK, HoldersOK, HolderOK, Holding
<1>2. /\ apply'[a] = IdleApply /\ apply' = [apply EXCEPT ![a] = IdleApply]
      /\ \A b \in Applies \ {a} : apply'[b] = apply[b]
      /\ UNCHANGED <<file, stream>>
  BY DEF CommitApply, IInv, TypeOK
<1>3. IdleApply.pc = "idle" /\ IdleApply.done = {} /\ IdleApply \in ApplyType
  BY IdleType DEF IdleApply
<1>4. \A p \in Proposals :
        /\ p \in done => prop'[p].st = "applied" /\ products'[p] = products[p] + 1
        /\ p \notin done => prop'[p] = prop[p] /\ products'[p] = products[p]
        /\ prop'[p] \in [st: PropStatus, name: Names \cup {None}] /\ products'[p] \in Nat
  <2> SUFFICES ASSUME NEW p \in Proposals
               PROVE  /\ p \in done => prop'[p].st = "applied" /\ products'[p] = products[p] + 1
                      /\ p \notin done => prop'[p] = prop[p] /\ products'[p] = products[p]
                      /\ prop'[p] \in [st: PropStatus, name: Names \cup {None}]
                      /\ products'[p] \in Nat
    OBVIOUS
  <2>1. prop[p] \in [st: PropStatus, name: Names \cup {None}] /\ products[p] \in Nat
    BY DEF IInv, TypeOK
  <2>2. /\ p \in done => prop'[p] = [prop[p] EXCEPT !.st = "applied"]
                         /\ products'[p] = products[p] + 1
        /\ p \notin done => prop'[p] = prop[p] /\ products'[p] = products[p]
    BY DEF CommitApply
  <2> QED BY <2>1, <2>2 DEF PropStatus
<1>5. PICK st \in {"awaiting_review", "completed"} :
        /\ job' = [job EXCEPT ![j] = st]
        /\ st = "completed" => ~apply[a].rest
  BY <1>1 DEF CommitApply, IInv, TypeOK
<1>6. TypeOK'
  <2>1. /\ prop' \in [Proposals -> [st: PropStatus, name: Names \cup {None}]]
        /\ products' \in [Proposals -> Nat]
    BY <1>4 DEF CommitApply
  <2>2. job' \in [Jobs -> JobStatus]
    BY <1>5 DEF IInv, TypeOK, JobStatus
  <2> QED BY <1>2, <1>3, <2>1, <2>2 DEF IInv, TypeOK, ApplyType
<1>7. AnalysisFirst'
  <2>1. stream[j] \notin Unstored
    BY <1>1 DEF IInv, AnalysisFirst
  <2> QED
    BY <1>1, <1>2, <1>4, <1>5, <2>1, ImportAssumption DEF IInv, TypeOK, AnalysisFirst
<1>8. \A b \in Applies \ {a} : apply[b].pc \in Holding => apply[b].job # j
  BY <1>1 DEF IInv, OneHolder, Holds, Holding
<1>9. HoldersOK'
  <2>1. \A b \in Applies : apply[b].todo \cup apply[b].done \subseteq Proposals
    BY DEF IInv, TypeOK
  <2> QED
    BY <1>1, <1>2, <1>3, <1>4, <1>5, <1>8, <2>1
       DEF IInv, TypeOK, HoldersOK, HolderOK, Holding
<1>10. OneHolder' /\ Waiting'
  BY <1>2, <1>3 DEF IInv, OneHolder, Holds, Waiting
<1>11. CountHolds'
  BY <1>1, <1>2, <1>3, <1>4, <1>8 DEF IInv, CountHolds, ProposalsOf, Holding
<1>12. OneProductEach'
  BY <1>1, <1>4 DEF IInv, TypeOK, OneProductEach
<1>13. CompletedIsSettled'
  <2> SUFFICES ASSUME NEW p \in Proposals, job'[JobOf[p]] = "completed"
               PROVE  prop'[p].st \notin Open
    BY DEF CompletedIsSettled
  <2>1. CASE p \in done
    BY <1>4, <2>1 DEF Open
  <2>2. CASE p \notin done /\ JobOf[p] = j
    BY <1>1, <1>4, <1>5, <2>2 DEF IInv, TypeOK, CountHolds, ProposalsOf
  <2>3. CASE p \notin done /\ JobOf[p] # j
    BY <1>4, <1>5, <2>3, ImportAssumption DEF IInv, TypeOK, CompletedIsSettled
  <2> QED BY <2>1, <2>2, <2>3
<1> QED
  BY <1>6, <1>7, <1>9, <1>10, <1>11, <1>12, <1>13 DEF IInv

\* A deletion takes jobs, proposals and products together, and no job that is
\* locked.
LEMMA CascadeInv == ASSUME IInv, NEW f \in Files, Cascade(f) PROVE IInv'
<1>1. /\ UNCHANGED <<stream, apply>>
      /\ \A j \in Jobs : job'[j] = IF FileOf[j] = f THEN "none" ELSE job[j]
      /\ \A p \in Proposals :
           /\ FileOf[JobOf[p]] = f => prop'[p] = NoProposal /\ products'[p] = 0
           /\ FileOf[JobOf[p]] # f => prop'[p] = prop[p] /\ products'[p] = products[p]
  BY DEF Cascade
<1>2. NoProposal.st = "none" /\ NoProposal \in [st: PropStatus, name: Names \cup {None}]
  BY DEF NoProposal, PropStatus
<1>3. TypeOK'
  <2>1. job' \in [Jobs -> JobStatus]
    BY DEF Cascade, IInv, TypeOK, JobStatus
  <2>2. prop' \in [Proposals -> [st: PropStatus, name: Names \cup {None}]]
    BY <1>2 DEF Cascade, IInv, TypeOK
  <2>3. file' \in [Files -> {"live", "deleting", "gone"}] /\ products' \in [Proposals -> Nat]
    BY DEF Cascade, IInv, TypeOK
  <2> QED BY <1>1, <2>1, <2>2, <2>3 DEF IInv, TypeOK
<1>4. \A a \in Applies : apply[a].pc \in Holding => FileOf[apply[a].job] # f
  BY DEF Cascade, JobsOf, JobLocked, Holds, Holding, IInv, HoldersOK, HolderOK
<1>5. HoldersOK'
  <2>1. \A a \in Applies : apply[a].todo \cup apply[a].done \subseteq Proposals
    BY DEF IInv, TypeOK
  <2> QED BY <1>1, <1>4, <2>1 DEF IInv, HoldersOK, HolderOK
<1>6. AnalysisFirst'
  BY <1>1, <1>2, ImportAssumption DEF IInv, AnalysisFirst
<1>7. CountHolds'
  BY <1>1, <1>2 DEF IInv, CountHolds, ProposalsOf, Open
<1>8. OneProductEach'
  BY <1>1, <1>2 DEF IInv, OneProductEach
<1>9. CompletedIsSettled'
  BY <1>1, <1>2, ImportAssumption DEF IInv, CompletedIsSettled, Open
<1> QED
  BY <1>1, <1>3, <1>5, <1>6, <1>7, <1>8, <1>9 DEF IInv, OneHolder, Holds, Waiting

\* Locking a file row, or giving it up, leaves the imports alone.
LEMMA FileInv ==
  ASSUME IInv, NEW f \in Files, NEW s \in {"live", "deleting"},
         file' = [file EXCEPT ![f] = s], UNCHANGED <<job, stream, prop, products, apply>>
  PROVE  IInv'
<1>1. TypeOK'
  BY DEF IInv, TypeOK
<1> QED
  BY <1>1 DEF IInv, AnalysisFirst, HoldersOK, HolderOK, OneHolder, Holds, Waiting,
     CountHolds, OneProductEach, CompletedIsSettled, ProposalsOf

-----------------------------------------------------------------------------
\* The strengthened invariant is inductive.
LEMMA StepInv == ASSUME IInv, [Next]_vars PROVE IInv'
<1>1. ASSUME NEW a \in Applies, ApplyStep(a) \/ AbortApply(a) PROVE IInv'
  <2>1. ASSUME NEW p \in Proposals, Conflict(a, p) PROVE IInv'
    BY <2>1, RollbackInv DEF Conflict
  <2>2. CASE AbortApply(a)
    BY <2>2, RollbackInv DEF AbortApply
  <2> QED BY <1>1, <2>1, <2>2, LockInv, CountInv, CommitInv, WriteInv DEF ApplyStep
<1>2. ASSUME NEW f \in Files, LockFile(f) \/ Cascade(f) \/ AbortDelete(f) PROVE IInv'
  BY <1>2, CascadeInv, FileInv DEF LockFile, AbortDelete
<1>3. CASE UNCHANGED vars
  BY <1>3 DEF vars, IInv, TypeOK, AnalysisFirst, HoldersOK, HolderOK, OneHolder, Holds,
     Waiting, CountHolds, OneProductEach, CompletedIsSettled, ProposalsOf
<1> QED
  BY <1>1, <1>2, <1>3, CreateInv, AnalysisInv, DecideInv, BeginInv DEF Next

\* The strengthened invariant holds in every reachable state.
THEOREM Invariant == Spec => []IInv
<1>1. Init => IInv
  BY InitInv
<1>2. IInv /\ [Next]_vars => IInv'
  BY StepInv
<1> QED BY <1>1, <1>2, PTL DEF Spec

\* Every variable keeps its type, for any number of jobs and requests.
THEOREM TypeCorrect == Spec => []TypeOK
<1>1. IInv => TypeOK
  BY DEF IInv
<1> QED BY <1>1, Invariant, PTL

\* A proposal has one product if it is applied and none otherwise, however
\* many requests apply its job.
THEOREM ProductPerProposal == Spec => []OneProductEach
<1>1. IInv => OneProductEach
  BY DEF IInv
<1> QED BY <1>1, Invariant, PTL

\* A completed job has nothing left to decide or to apply.
THEOREM CompletedSettled == Spec => []CompletedIsSettled
<1>1. IInv => CompletedIsSettled
  BY DEF IInv
<1> QED BY <1>1, Invariant, PTL

\* Products are written only for proposals whose approval stands.
THEOREM ApprovedOnly == Spec => OnlyApproved
<1> DEFINE A == \A p \in Proposals : products'[p] > products[p] => prop[p].st = "approved"
<1>1. IInv /\ [Next]_vars => [A]_vars
  <2> SUFFICES ASSUME IInv, Next, NEW p \in Proposals, products'[p] > products[p]
               PROVE  prop[p].st = "approved"
    OBVIOUS
  <2>1. products[p] \in Nat
    BY DEF IInv, TypeOK
  <2>2. CASE UNCHANGED products
    BY <2>1, <2>2
  <2>3. ASSUME NEW f \in Files, Cascade(f) PROVE FALSE
    <3>1. products'[p] \in {0, products[p]}
      BY <2>3 DEF Cascade
    <3> QED BY <2>1, <3>1
  <2>4. ASSUME NEW a \in Applies, CommitApply(a) PROVE prop[p].st = "approved"
    <3>1. p \in apply[a].done
      BY <2>1, <2>4 DEF CommitApply
    <3> QED BY <2>4, <3>1 DEF CommitApply, IInv, HoldersOK, HolderOK, Holding
  <2>5. \/ UNCHANGED products
        \/ \E f \in Files : Cascade(f)
        \/ \E a \in Applies : CommitApply(a)
    BY DEF Next, CreateJob, Analysis, ProviderAnswers, Persist, PersistFails, MarkFailed,
       Disconnect, StreamEnds, Decide, BeginApply, ApplyStep, LockJob, CountRest,
       WriteProduct, Conflict, AbortApply, LockFile, AbortDelete
  <2> QED BY <2>2, <2>3, <2>4, <2>5
<1> QED BY <1>1, Invariant, PTL DEF Spec, OnlyApproved

-----------------------------------------------------------------------------
(* The names of the products.                                               *)

\* What an apply has written, and not committed, fits the products of its job
\* and the catalog, and its own writes differ from each other.
NamesFit(a) ==
    \A p \in apply[a].done :
        /\ prop[p].name \notin Catalog
        /\ \A q \in Proposals \ {p} :
             JobOf[q] = apply[a].job /\ (products[q] > 0 \/ q \in apply[a].done)
                => prop[q].name # prop[p].name

NamesInv == NamesDiffer /\ \A a \in Applies : NamesFit(a)

\* Nothing that an apply has written belongs to a file that is gone, or is
\* still to be stored.
LEMMA WrittenIsApproved ==
  ASSUME IInv, NEW a \in Applies, NEW p \in apply[a].done
  PROVE  /\ apply[a].pc \in Holding /\ p \in Proposals
         /\ JobOf[p] = apply[a].job /\ prop[p].st = "approved" /\ products[p] = 0
<1>1. p \in Proposals /\ apply[a].pc \in Holding
  BY DEF IInv, TypeOK, Waiting, ApplyState, Holding
<1> QED BY <1>1 DEF IInv, HoldersOK, HolderOK, OneProductEach

\* A step that adds no product and no write, and renames only what has neither,
\* keeps the names apart.
LEMMA NamesStay ==
  ASSUME IInv, NamesInv,
         \A p \in Proposals : products'[p] > 0 => products[p] > 0,
         \A a \in Applies :
            \/ apply'[a].done = {}
            \/ apply'[a].done = apply[a].done /\ apply'[a].job = apply[a].job,
         \A p \in Proposals :
            \/ prop'[p].name = prop[p].name
            \/ ~(products'[p] > 0) /\ \A a \in Applies : p \notin apply'[a].done
  PROVE  NamesInv'
<1>1. NamesDiffer'
  BY DEF NamesInv, NamesDiffer
<1>2. ASSUME NEW a \in Applies PROVE NamesFit(a)'
  <2>1. apply[a].done \subseteq Proposals
    BY DEF IInv, TypeOK
  <2> QED BY <2>1 DEF NamesInv, NamesFit
<1> QED BY <1>1, <1>2 DEF NamesInv

\* A write has looked for its name among the products and the writes of its
\* own transaction.
LEMMA NamesWrite ==
  ASSUME IInv, NamesInv, NEW a \in Applies, NEW p \in Proposals, WriteProduct(a, p)
  PROVE  NamesInv'
<1>1. /\ p \in apply[a].todo /\ prop[p].name \notin NamesSeen(a)
      /\ UNCHANGED <<prop, products>> /\ apply[a].done \subseteq Proposals
  BY DEF WriteProduct, IInv, TypeOK
<1>2. /\ apply'[a].done = apply[a].done \cup {p} /\ apply'[a].job = apply[a].job
      /\ \A b \in Applies \ {a} : apply'[b] = apply[b]
  BY DEF WriteProduct, IInv, TypeOK
<1>3. /\ prop[p].name \notin Catalog
      /\ \A q \in Proposals : products[q] > 0 \/ q \in apply[a].done =>
            prop[q].name # prop[p].name
  BY <1>1 DEF NamesSeen
<1>4. NamesDiffer'
  BY <1>1 DEF NamesInv, NamesDiffer
<1>5. NamesFit(a)'
  BY <1>1, <1>2, <1>3 DEF NamesInv, NamesFit
<1>6. ASSUME NEW b \in Applies \ {a} PROVE NamesFit(b)'
  BY <1>1, <1>2 DEF NamesInv, NamesFit
<1> QED BY <1>4, <1>5, <1>6 DEF NamesInv

\* A commit makes products of the writes of the only holder of the job.
LEMMA NamesCommit ==
  ASSUME IInv, NamesInv, NEW a \in Applies, CommitApply(a)
  PROVE  NamesInv'
<1> DEFINE done == apply[a].done
<1>1. /\ apply[a].pc = "commit" /\ apply'[a].done = {}
      /\ \A b \in Applies \ {a} : apply'[b] = apply[b]
  BY DEF CommitApply, IInv, TypeOK, IdleApply
<1>2. ASSUME NEW p \in Proposals
      PROVE  /\ prop'[p].name = prop[p].name
             /\ products'[p] > 0 => products[p] > 0 \/ p \in done
  BY DEF CommitApply, IInv, TypeOK
<1>3. \A p \in done : p \in Proposals /\ JobOf[p] = apply[a].job
  BY WrittenIsApproved
<1>4. NamesDiffer'
  <2>1. ASSUME NEW p \in Proposals, products'[p] > 0 PROVE prop'[p].name \notin Catalog
    BY <1>2, <2>1 DEF NamesInv, NamesDiffer, NamesFit
  <2>2. ASSUME NEW p \in Proposals, NEW q \in Proposals, products'[p] > 0,
               products'[q] > 0, JobOf[p] = JobOf[q], p # q
        PROVE  prop'[p].name # prop'[q].name
    <3>1. CASE p \in done
      BY <1>2, <1>3, <2>2, <3>1 DEF NamesInv, NamesFit
    <3>2. CASE q \in done
      BY <1>2, <1>3, <2>2, <3>2 DEF NamesInv, NamesFit
    <3>3. CASE p \notin done /\ q \notin done
      BY <1>2, <2>2, <3>3 DEF NamesInv, NamesDiffer
    <3> QED BY <3>1, <3>2, <3>3
  <2> QED BY <2>1, <2>2 DEF NamesDiffer
<1>5. ASSUME NEW b \in Applies \ {a} PROVE NamesFit(b)'
  <2> SUFFICES ASSUME NEW p \in apply[b].done PROVE NamesFit(b)'
    BY <1>1 DEF NamesFit
  <2>1. apply[b].pc \in Holding /\ apply[b].job \in Jobs
    BY WrittenIsApproved DEF IInv, HoldersOK, HolderOK
  <2>2. apply[b].job # apply[a].job
    BY <1>1, <2>1 DEF IInv, OneHolder, Holds, Holding
  <2>3. apply[b].done \subseteq Proposals
    BY DEF IInv, TypeOK
  <2> QED BY <1>1, <1>2, <1>3, <2>2, <2>3 DEF NamesInv, NamesFit
<1>6. NamesFit(a)'
  BY <1>1 DEF NamesFit
<1> QED BY <1>4, <1>5, <1>6 DEF NamesInv

\* Steps of an analysis name only proposals that nobody has approved.
LEMMA NamesAnalysis ==
  ASSUME IInv, NamesInv, NEW j \in Jobs, CreateJob(j) \/ Analysis(j)
  PROVE  NamesInv'
<1>1. UNCHANGED <<products, apply>>
  BY DEF CreateJob, Analysis, ProviderAnswers, Persist, PersistFails, MarkFailed,
     Disconnect, StreamEnds
<1>2. ASSUME NEW p \in Proposals, prop'[p].name # prop[p].name PROVE prop[p].st = "none"
  <2>1. PICK ps \in SUBSET ProposalsOf(j) : \E out \in SUBSET ps, names \in [ps -> Names] :
          Persist(j, ps, out, names)
    BY <1>2 DEF CreateJob, Analysis, ProviderAnswers, PersistFails, MarkFailed,
       Disconnect, StreamEnds
  <2>2. stream[j] = "persisting" /\ (p \in ps \/ prop'[p] = prop[p])
    BY <2>1 DEF Persist
  <2>3. JobOf[p] = j
    BY <1>2, <2>1, <2>2 DEF ProposalsOf
  <2> QED BY <2>2, <2>3 DEF IInv, AnalysisFirst, Unstored
<1>3. ASSUME NEW p \in Proposals, prop'[p].name # prop[p].name
      PROVE  ~(products[p] > 0) /\ \A a \in Applies : p \notin apply[a].done
  BY <1>2, <1>3, WrittenIsApproved DEF IInv, OneProductEach
<1> QED BY <1>1, <1>3, NamesStay

\* A cascade takes products with their names, and none that an apply is
\* writing.
LEMMA NamesCascade ==
  ASSUME IInv, NamesInv, NEW f \in Files, Cascade(f)
  PROVE  NamesInv'
<1>1. ASSUME NEW p \in Proposals
      PROVE  /\ products'[p] > 0 => products[p] > 0
             /\ FileOf[JobOf[p]] = f \/ prop'[p] = prop[p]
             /\ FileOf[JobOf[p]] = f => ~(products'[p] > 0)
  BY DEF Cascade
<1>2. ASSUME NEW a \in Applies, NEW p \in apply[a].done PROVE FileOf[JobOf[p]] # f
  <2>1. /\ apply[a].pc \in Holding /\ JobOf[p] = apply[a].job /\ apply[a].job \in Jobs
    BY WrittenIsApproved DEF IInv, HoldersOK, HolderOK
  <2> QED BY <2>1 DEF Cascade, JobsOf, JobLocked, Holds, Holding
<1>3. apply' = apply
  BY DEF Cascade
<1> QED BY <1>1, <1>2, <1>3, NamesStay

\* Every step keeps the names apart.
LEMMA NamesStep == ASSUME IInv, NamesInv, [Next]_vars PROVE NamesInv'
<1>1. ASSUME UNCHANGED <<prop, products>>,
             \A a \in Applies : \/ apply'[a].done = {}
                                \/ /\ apply'[a].done = apply[a].done
                                   /\ apply'[a].job = apply[a].job
      PROVE  NamesInv'
  BY <1>1, NamesStay
<1>2. ASSUME NEW a \in Applies, NEW j \in Jobs, BeginApply(a, j) PROVE NamesInv'
  BY <1>1, <1>2 DEF BeginApply, IdleApply, IInv, TypeOK
<1>3. ASSUME NEW a \in Applies, ApplyStep(a) \/ AbortApply(a) PROVE NamesInv'
  <2>1. CASE LockJob(a) \/ CountRest(a) \/ AbortApply(a)
    <3>1. apply[a] \in ApplyType /\ IdleApply.done = {}
      BY DEF IInv, TypeOK, ApplyType, IdleApply
    <3>2. \/ apply' = [apply EXCEPT ![a] = IdleApply]
          \/ \E todo \in SUBSET Proposals :
               apply' = [apply EXCEPT ![a] = [@ EXCEPT !.pc = "write", !.todo = todo]]
          \/ \E rest \in BOOLEAN :
               apply' = [apply EXCEPT ![a] = [@ EXCEPT !.pc = "commit", !.rest = rest]]
      BY <2>1 DEF LockJob, CountRest, AbortApply, Approved, ProposalsOf
    <3>3. \A b \in Applies \ {a} : apply'[b] = apply[b]
      BY <3>2 DEF IInv, TypeOK
    <3>4. \/ apply'[a].done = {}
          \/ apply'[a].done = apply[a].done /\ apply'[a].job = apply[a].job
      <4>1. ASSUME NEW todo, apply' = [apply EXCEPT ![a] = [@ EXCEPT !.pc = "write", !.todo = todo]]
            PROVE  apply'[a].done = apply[a].done /\ apply'[a].job = apply[a].job
        BY <3>1, <4>1 DEF IInv, TypeOK, ApplyType
      <4>2. ASSUME NEW rest, apply' = [apply EXCEPT ![a] = [@ EXCEPT !.pc = "commit", !.rest = rest]]
            PROVE  apply'[a].done = apply[a].done /\ apply'[a].job = apply[a].job
        BY <3>1, <4>2 DEF IInv, TypeOK, ApplyType
      <4>3. apply' = [apply EXCEPT ![a] = IdleApply] => apply'[a].done = {}
        BY <3>1 DEF IInv, TypeOK
      <4> QED BY <3>2, <4>1, <4>2, <4>3
    <3>5. UNCHANGED <<prop, products>>
      BY <2>1 DEF LockJob, CountRest, AbortApply
    <3> QED BY <1>1, <3>3, <3>4, <3>5
  <2>2. ASSUME NEW p \in Proposals, Conflict(a, p) PROVE NamesInv'
    BY <1>1, <2>2 DEF Conflict, IdleApply, IInv, TypeOK
  <2> QED BY <1>3, <2>1, <2>2, NamesWrite, NamesCommit DEF ApplyStep
<1>4. ASSUME NEW p \in Proposals, NEW d \in {"approved", "rejected"}, Decide(p, d)
      PROVE  NamesInv'
  <2>1. /\ UNCHANGED <<products, apply>>
        /\ \A q \in Proposals : prop'[q].name = prop[q].name
    BY <1>4 DEF Decide, IInv, TypeOK
  <2> QED BY <2>1, NamesStay
<1>5. ASSUME NEW f \in Files, LockFile(f) \/ Cascade(f) \/ AbortDelete(f) PROVE NamesInv'
  BY <1>1, <1>5, NamesCascade DEF LockFile, AbortDelete
<1>6. CASE UNCHANGED vars
  BY <1>1, <1>6 DEF vars
<1> QED BY <1>2, <1>3, <1>4, <1>5, <1>6, NamesAnalysis DEF Next

\* The products of a job have different names, and none that the workspace had
\* before, although every transaction sees only what is committed and its own.
THEOREM NamesKept == Spec => []NamesDiffer
<1>1. Init => NamesInv
  BY DEF Init, IdleApply, NamesInv, NamesDiffer, NamesFit
<1>2. IInv /\ NamesInv /\ [Next]_vars => NamesInv'
  BY NamesStep
<1>3. NamesInv => NamesDiffer
  BY DEF NamesInv
<1> QED BY <1>1, <1>2, <1>3, Invariant, PTL DEF Spec

-----------------------------------------------------------------------------
(* BusinessImport implements ImportReview.                                  *)

\* What the reviewers see of the state.
Shown == [p \in Proposals |-> prop[p].st]
Settled == {j \in Jobs : job[j] = "completed"}

\* A step that shows the reviewers nothing is a stutter.
LEMMA HiddenStep ==
  ASSUME UNCHANGED <<prop, products>>, Settled' = Settled
  PROVE  UNCHANGED Review!review
  BY DEF Review!review, Settled

\* The proposals of an analysis are shown at once.
LEMMA PersistShown ==
  ASSUME IInv, NEW j \in Jobs, NEW ps \in SUBSET ProposalsOf(j), NEW out \in SUBSET ps,
         NEW names \in [ps -> Names], Persist(j, ps, out, names)
  PROVE  Review!Next
<1>1. /\ stream[j] = "persisting" /\ job[j] \in {"none", "analyzing"}
      /\ \A p \in Proposals : JobOf[p] = j => prop[p].st = "none"
      /\ UNCHANGED products
  BY DEF Persist, IInv, AnalysisFirst, Unstored
<1>2. Settled' = Settled
  <2>1. job'[j] # "completed" /\ \A k \in Jobs \ {j} : job'[k] = job[k]
    BY <1>1 DEF Persist, IInv, TypeOK
  <2> QED BY <1>1, <2>1 DEF Settled
<1>3. Shown' = [p \in Proposals |-> IF p \in out THEN "schema_review_required"
                                     ELSE IF p \in ps THEN "pending" ELSE Shown[p]]
  <2>1. \A p \in Proposals : prop'[p].st =
          IF p \in out THEN "schema_review_required"
          ELSE IF p \in ps THEN "pending" ELSE prop[p].st
    BY DEF Persist
  <2> QED BY <2>1 DEF Shown
<1>4. Review!Propose(j, ps, out)
  BY <1>1, <1>2, <1>3 DEF Review!Propose, Shown, Settled, ProposalsOf
<1>5. ps \in SUBSET Proposals /\ out \in SUBSET Proposals
  BY DEF ProposalsOf
<1> QED BY <1>4, <1>5 DEF Review!Next

\* A decision is shown as one.
LEMMA DecideShown ==
  ASSUME IInv, NEW p \in Proposals, NEW d \in {"approved", "rejected"}, Decide(p, d)
  PROVE  Review!Next
<1>1. /\ prop[p].st = "pending" /\ UNCHANGED <<job, products>>
      /\ prop'[p].st = d /\ \A q \in Proposals \ {p} : prop'[q].st = prop[q].st
  BY DEF Decide, IInv, TypeOK
<1>2. Shown' = [Shown EXCEPT ![p] = d] /\ Settled' = Settled
  BY <1>1 DEF Shown, Settled
<1>3. Review!Judge(p, d)
  BY <1>1, <1>2 DEF Review!Judge, Shown, Settled
<1> QED BY <1>3 DEF Review!Next

\* A commit publishes what the request was approved to write, and settles its
\* job only if the count it took still holds.
LEMMA CommitShown == ASSUME IInv, NEW a \in Applies, CommitApply(a) PROVE Review!Next
<1> SUFFICES ASSUME NEW j \in Jobs, NEW done \in SUBSET Proposals,
                    j = apply[a].job, done = apply[a].done
             PROVE  Review!Next
  BY DEF CommitApply, IInv, TypeOK, HoldersOK, HolderOK, Holding
<1>1. /\ apply[a].pc = "commit"
      /\ \A p \in done : JobOf[p] = j /\ prop[p].st = "approved"
  BY DEF CommitApply, IInv, TypeOK, HoldersOK, HolderOK, Holding
<1>2. Shown' = [p \in Proposals |-> IF p \in done THEN "applied" ELSE Shown[p]]
  <2>1. \A p \in Proposals : prop'[p].st = IF p \in done THEN "applied" ELSE prop[p].st
    BY DEF CommitApply, IInv, TypeOK
  <2> QED BY <2>1 DEF Shown
<1>3. products' = [p \in Proposals |-> IF p \in done THEN products[p] + 1 ELSE products[p]]
  BY DEF CommitApply
<1>4. \/ Settled' = Settled \ {j}
      \/ /\ Settled' = Settled \cup {j}
         /\ \A p \in Proposals \ done : JobOf[p] = j => prop[p].st \notin Open
  <2>1. CASE apply[a].rest
    <3>1. job'[j] = "awaiting_review" /\ \A k \in Jobs \ {j} : job'[k] = job[k]
      BY <1>1, <2>1 DEF CommitApply, IInv, TypeOK
    <3> QED BY <3>1 DEF Settled
  <2>2. CASE ~apply[a].rest
    <3>1. job'[j] = "completed" /\ \A k \in Jobs \ {j} : job'[k] = job[k]
      BY <1>1, <2>2 DEF CommitApply, IInv, TypeOK
    <3>2. Settled' = Settled \cup {j}
      BY <1>1, <3>1 DEF Settled
    <3> QED BY <1>1, <2>2, <3>2 DEF IInv, CountHolds, ProposalsOf
  <2> QED BY <2>1, <2>2
<1>5. Review!Publish(j, done)
  BY <1>1, <1>2, <1>3, <1>4 DEF Review!Publish, Review!Undecided, Shown, Settled, Open
<1> QED BY <1>5 DEF Review!Next

\* A cascade withdraws the jobs of its file.
LEMMA CascadeShown == ASSUME IInv, NEW f \in Files, Cascade(f) PROVE Review!Next
<1> DEFINE js == JobsOf(f)
<1>1. js \in SUBSET Jobs /\ \A p \in Proposals : JobOf[p] \in js <=> FileOf[JobOf[p]] = f
  BY ImportAssumption DEF JobsOf
<1>2. Settled' = Settled \ js
  BY DEF Cascade, Settled, JobsOf
<1>3. Shown' = [p \in Proposals |-> IF JobOf[p] \in js THEN "none" ELSE Shown[p]]
  <2>1. \A p \in Proposals : prop'[p].st = IF JobOf[p] \in js THEN "none" ELSE prop[p].st
    BY <1>1 DEF Cascade, NoProposal
  <2> QED BY <2>1 DEF Shown
<1>4. products' = [p \in Proposals |-> IF JobOf[p] \in js THEN 0 ELSE products[p]]
  BY <1>1 DEF Cascade
<1>5. Review!Withdraw(js)
  BY <1>2, <1>3, <1>4 DEF Review!Withdraw, Shown, Settled
<1> HIDE DEF js
<1>6. \E k \in SUBSET Jobs : Review!Withdraw(k)
  BY <1>1, <1>5, Zenon
<1> QED BY <1>6 DEF Review!Next

\* A job that fails may have been settled.
LEMMA FailShown ==
  ASSUME IInv, NEW j \in Jobs, SetFailed(j), UNCHANGED <<prop, products>>
  PROVE  Review!Next
<1>1. job'[j] # "completed" /\ \A k \in Jobs \ {j} : job'[k] = job[k]
  BY DEF SetFailed, IInv, TypeOK
<1>2. Settled' = Settled \ {j}
  BY <1>1 DEF Settled
<1>3. Review!Unsettle(j)
  BY <1>2 DEF Review!Unsettle, Settled
<1> QED BY <1>3 DEF Review!Next

\* Every step is one that the reviewers know, or none to them.
LEMMA StepShown == ASSUME IInv, [Next]_vars PROVE [Review!Next]_(Review!review)
<1>1. ASSUME UNCHANGED <<job, prop, products>> PROVE UNCHANGED Review!review
  BY <1>1, HiddenStep DEF Settled
<1>2. ASSUME NEW j \in Jobs, CreateJob(j) PROVE [Review!Next]_(Review!review)
  <2>1. job[j] # "completed" /\ UNCHANGED <<prop, products>>
    BY <1>2 DEF CreateJob, IInv, AnalysisFirst, Unstored
  <2>2. job'[j] # "completed" /\ \A k \in Jobs \ {j} : job'[k] = job[k]
    BY <1>2 DEF CreateJob, IInv, TypeOK
  <2> QED BY <2>1, <2>2, HiddenStep DEF Settled
<1>3. ASSUME NEW j \in Jobs, Analysis(j) PROVE [Review!Next]_(Review!review)
  BY <1>1, <1>3, PersistShown, FailShown
     DEF Analysis, ProviderAnswers, PersistFails, MarkFailed, Disconnect, StreamEnds
<1>4. ASSUME NEW a \in Applies, ApplyStep(a) \/ AbortApply(a)
      PROVE  [Review!Next]_(Review!review)
  BY <1>1, <1>4, CommitShown
     DEF ApplyStep, AbortApply, LockJob, CountRest, WriteProduct, Conflict
<1>5. ASSUME NEW f \in Files, LockFile(f) \/ Cascade(f) \/ AbortDelete(f)
      PROVE  [Review!Next]_(Review!review)
  BY <1>1, <1>5, CascadeShown DEF LockFile, AbortDelete
<1>6. ASSUME NEW a \in Applies, NEW j \in Jobs, BeginApply(a, j)
      PROVE  [Review!Next]_(Review!review)
  BY <1>1, <1>6 DEF BeginApply
<1>7. CASE UNCHANGED vars
  BY <1>1, <1>7 DEF vars
<1> QED BY <1>2, <1>3, <1>4, <1>5, <1>6, <1>7, DecideShown DEF Next

\* The import, with its transactions, cancellations and deletions, does what
\* ImportReview says and nothing else.
THEOREM ReviewImplemented == Spec => ImplementsReview
<1>1. Init => Review!Init
  <2> SUFFICES ASSUME Init PROVE Review!Init
    OBVIOUS
  <2>1. Shown = [p \in Proposals |-> "none"] /\ Settled = {}
    BY DEF Init, Shown, Settled, NoProposal
  <2> QED BY <2>1 DEF Init, Review!Init, Shown, Settled
<1>2. IInv /\ [Next]_vars => [Review!Next]_(Review!review)
  BY StepShown
<1> QED BY <1>1, <1>2, Invariant, PTL DEF Spec, ImplementsReview, Review!Spec
=============================================================================
