------------------------------ MODULE ImportPanel ------------------------------
(***************************************************************************)
(* The dialog in which a reviewer has a document analysed, decides on the  *)
(* proposals of its latest job and applies the approved ones.  Every       *)
(* request ends with a load of the jobs; loads are neither numbered nor    *)
(* aborted, and the last one that is answered is shown.  Other reviewers   *)
(* work on the same job (BusinessImport has the server's side).            *)
(***************************************************************************)
EXTENDS Naturals, FiniteSets

CONSTANTS
    Proposals,
    MaxJobs,    \* bound: analyses of one document
    MaxLoads    \* bound: loads under way at once

VARIABLES
    panel,  \* the component's state
    loads,  \* per caller of loadJobs: the request, and the answer once it is read
    srv,    \* the latest job and its proposals
    mine,   \* history: what this reviewer has been told is done
    behind  \* history: the last load failed, overlapped another, or was not made

pvars == <<panel, loads, srv, mine, behind>>

Callers == {"look", "analyze", "decide", "apply"}
Status == {"pending", "approved", "rejected", "applied"}
NoJob == [job |-> 0, status |-> [p \in Proposals |-> "pending"]]
NoLoad == [pc |-> "none", answer |-> NoJob]
Nobody == "nobody"

Init ==
    /\ panel = [open |-> FALSE, shown |-> NoJob, loading |-> FALSE, analyzing |-> FALSE,
                text |-> 0, deciding |-> Nobody, decision |-> "approved", applying |-> FALSE,
                decided |-> 0, applied |-> 0]
    /\ loads = [c \in Callers |-> NoLoad]
    /\ srv = NoJob
    /\ mine = {}
    /\ behind = FALSE

Loading == {c \in Callers : loads[c].pc # "none"}
HasApproved(job) == \E p \in Proposals : job.status[p] = "approved"

\* visibleReport: the text of the stream there was, or that of the latest job.
Report == IF panel.text # 0 THEN panel.text ELSE panel.shown.job

\* TechnicalDetails: the data of the latest job, above the stages of the stream.
Details == [job |-> panel.shown.job, stages |-> Report]

-----------------------------------------------------------------------------
(* loadJobs                                                                 *)

\* Fault injected: what a decision has done is not loaded.
LoadJobs_Not(c, u) ==
    /\ panel' = IF c = "decide" THEN [u EXCEPT !.deciding = Nobody] ELSE [u EXCEPT !.loading = TRUE]
    /\ loads' = IF c = "decide" THEN loads ELSE [loads EXCEPT ![c].pc = "sent"]
    /\ behind' = (Loading # {})

\* Fault injected: the buttons are released when a request is answered, and not when the
\* jobs have been loaded.
LoadJobs_Early(c, u) ==
    /\ panel' = [u EXCEPT !.loading = TRUE, !.analyzing = FALSE, !.deciding = Nobody, !.applying = FALSE]
    /\ loads' = [loads EXCEPT ![c].pc = "sent"]
    /\ behind' = (Loading # {})

LoadJobs(c, u) ==
    /\ Cardinality(Loading) < MaxLoads
    /\ panel' = [u EXCEPT !.loading = TRUE]
    /\ loads' = [loads EXCEPT ![c].pc = "sent"]
    /\ behind' = (Loading # {})

\* The server reads the jobs.
Serve(c) ==
    /\ loads[c].pc = "sent"
    /\ loads' = [loads EXCEPT ![c] = [pc |-> "answered", answer |-> srv]]
    /\ UNCHANGED <<panel, srv, mine, behind>>

Undecided(u) == [u EXCEPT !.deciding = Nobody, !.decision = "approved", !.decided = 0]
Unapplied(u) == [u EXCEPT !.applying = FALSE, !.applied = 0]

\* What the caller does after its load, whether it was answered or not.
Released(c, u) ==
    CASE c = "analyze" -> [u EXCEPT !.analyzing = FALSE]
      [] c = "decide" -> Undecided(u)
      [] c = "apply" -> Unapplied(u)
      [] OTHER -> u

Deliver(c) ==
    /\ loads[c].pc = "answered"
    /\ panel' = Released(c, [panel EXCEPT !.shown = loads[c].answer, !.loading = FALSE])
    /\ loads' = [loads EXCEPT ![c] = NoLoad]
    /\ UNCHANGED <<srv, mine, behind>>

LoadFails(c) ==
    /\ loads[c].pc # "none"
    /\ panel' = Released(c, [panel EXCEPT !.loading = FALSE])
    /\ loads' = [loads EXCEPT ![c] = NoLoad]
    /\ behind' = TRUE
    /\ UNCHANGED <<srv, mine>>

-----------------------------------------------------------------------------
(* The dialog                                                               *)

\* Opening loads.  Bound: not while the load of the last opening is under way.
Open ==
    /\ ~panel.open /\ loads["look"].pc = "none"
    /\ LoadJobs("look", [panel EXCEPT !.open = TRUE])
    /\ UNCHANGED <<srv, mine>>

\* What is under way goes on.
Close ==
    /\ panel.open
    /\ panel' = [panel EXCEPT !.open = FALSE]
    /\ UNCHANGED <<loads, srv, mine, behind>>

Refresh ==
    /\ panel.open /\ ~panel.loading /\ ~panel.analyzing
    /\ loads["look"].pc = "none"
    /\ LoadJobs("look", panel)
    /\ UNCHANGED <<srv, mine>>

\* analyze: the text of the stream replaces the report that is shown.
Analyze ==
    /\ panel.open /\ ~panel.analyzing /\ srv.job < MaxJobs
    /\ panel' = [panel EXCEPT !.analyzing = TRUE, !.text = 0]
    /\ UNCHANGED <<loads, srv, mine, behind>>

\* The stream has ended, with a result or with an error event.
Analyzed ==
    /\ panel.analyzing /\ loads["analyze"].pc = "none" /\ srv.job < MaxJobs
    /\ srv' = [NoJob EXCEPT !.job = srv.job + 1]
    /\ LoadJobs("analyze", [panel EXCEPT !.text = srv.job + 1])
    /\ UNCHANGED mine

\* It has broken off: nothing is loaded, although there may be a new job.
AnalyzeFails ==
    /\ panel.analyzing /\ loads["analyze"].pc = "none"
    /\ panel' = [panel EXCEPT !.analyzing = FALSE]
    /\ behind' = TRUE
    /\ \/ UNCHANGED srv
       \/ srv.job < MaxJobs /\ srv' = [NoJob EXCEPT !.job = srv.job + 1]
    /\ UNCHANGED <<loads, mine>>

\* The buttons of a proposal, and decideProposal's own guard: one at a time.
CanDecide(p) ==
    /\ panel.open /\ panel.deciding = Nobody
    /\ panel.shown.job # 0 /\ panel.shown.status[p] = "pending"

Decide(p, d) ==
    /\ CanDecide(p)
    /\ panel' = [panel EXCEPT !.deciding = p, !.decision = d, !.decided = panel.shown.job]
    /\ UNCHANGED <<loads, srv, mine, behind>>

\* The server takes a decision on a proposal of the job that was shown; only the
\* latest job is kept here.  A decision that has been taken already is refused.
Decided ==
    LET p == panel.deciding IN
    /\ p # Nobody /\ loads["decide"].pc = "none"
    /\ IF panel.decided = srv.job
       THEN /\ srv.status[p] = "pending"
            /\ srv' = [srv EXCEPT !.status[p] = panel.decision]
            /\ mine' = mine \cup {<<srv.job, p, "decided">>}
       ELSE UNCHANGED <<srv, mine>>
    /\ LoadJobs("decide", panel)

DecideFails ==
    /\ panel.deciding # Nobody /\ loads["decide"].pc = "none"
    /\ panel' = Undecided(panel)
    /\ UNCHANGED <<loads, srv, mine, behind>>

CanApply == panel.open /\ HasApproved(panel.shown) /\ ~panel.applying

Apply ==
    /\ CanApply
    /\ panel' = [panel EXCEPT !.applying = TRUE, !.applied = panel.shown.job]
    /\ UNCHANGED <<loads, srv, mine, behind>>

AllApplied == [srv EXCEPT !.status = [p \in Proposals |-> IF @[p] = "approved" THEN "applied" ELSE @[p]]]

Applied ==
    /\ panel.applying /\ loads["apply"].pc = "none"
    /\ IF panel.applied = srv.job
       THEN /\ srv' = AllApplied
            /\ mine' = mine \cup {<<srv.job, p, "applied">> : p \in {q \in Proposals : srv.status[q] = "approved"}}
       ELSE UNCHANGED <<srv, mine>>
    /\ LoadJobs("apply", panel)

ApplyFails ==
    /\ panel.applying /\ loads["apply"].pc = "none"
    /\ panel' = Unapplied(panel)
    /\ UNCHANGED <<loads, srv, mine, behind>>

\* Another reviewer analyses, decides or applies.
Others ==
    /\ \/ srv.job < MaxJobs /\ srv' = [NoJob EXCEPT !.job = srv.job + 1]
       \/ \E p \in Proposals, d \in {"approved", "rejected"} :
            srv.job # 0 /\ srv.status[p] = "pending" /\ srv' = [srv EXCEPT !.status[p] = d]
       \/ HasApproved(srv) /\ srv' = AllApplied
    /\ UNCHANGED <<panel, loads, mine, behind>>

-----------------------------------------------------------------------------
Answers == Analyzed \/ AnalyzeFails \/ Decided \/ DecideFails \/ Applied \/ ApplyFails
LoadEnds(c) == Serve(c) \/ Deliver(c) \/ LoadFails(c)

Next ==
    \/ Open \/ Close \/ Refresh \/ Analyze \/ Apply \/ Others \/ Answers
    \/ \E p \in Proposals, d \in {"approved", "rejected"} : Decide(p, d)
    \/ \E c \in Callers : LoadEnds(c)

Spec == Init /\ [][Next]_pvars

-----------------------------------------------------------------------------
TypeOK ==
    /\ panel.shown.job \in 0..srv.job /\ panel.text \in 0..srv.job
    /\ panel.shown.status \in [Proposals -> Status] /\ srv.status \in [Proposals -> Status]
    /\ panel.deciding \in Proposals \cup {Nobody}
    /\ \A c \in Callers : loads[c].pc \in {"none", "sent", "answered"}
    /\ \A c \in Callers \ {"look"} : c \in Loading =>
         (CASE c = "analyze" -> panel.analyzing [] c = "decide" -> panel.deciding # Nobody
            [] c = "apply" -> panel.applying)

AtRest == Loading = {} /\ ~panel.analyzing /\ panel.deciding = Nobody /\ ~panel.applying

\* At rest the dialog shows what this reviewer has been told is done, on top of
\* whatever others did: a decision is not shown as pending, nor an applied proposal
\* as approved, nor a job that is older than the text beside it.  That fails only
\* after a load that failed or that overlapped another one, whose older answer may
\* come last.
ShowsOwnWork ==
    AtRest /\ ~behind =>
      /\ Details.stages <= Details.job
      /\ \A p \in Proposals :
           /\ <<panel.shown.job, p, "decided">> \in mine => panel.shown.status[p] # "pending"
           /\ <<panel.shown.job, p, "applied">> \in mine => panel.shown.status[p] = "applied"
=============================================================================
