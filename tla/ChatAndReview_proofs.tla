------------------------- MODULE ChatAndReview_proofs -------------------------
(***************************************************************************)
(* What the review of an import and the chat page show is so, for any      *)
(* number of proposals, jobs, chats, pages, turns, images and requests     *)
(* under way.  One inductive invariant per part; they meet in PartsInv.    *)
(***************************************************************************)
EXTENDS ChatAndReview, Sequences, WellFoundedInduction, FiniteSetTheorems, TLAPS

-----------------------------------------------------------------------------
(* The review of an import                                                  *)

JobType == [job: Nat, status: [Proposals -> Import!Status]]
PanelType == [open: BOOLEAN, shown: JobType, loading: BOOLEAN, analyzing: BOOLEAN, text: Nat,
              deciding: Proposals \cup {Import!Nobody}, decision: {"approved", "rejected"},
              applying: BOOLEAN, decided: Nat, applied: Nat]
LoadType == [pc: {"none", "sent", "answered"}, answer: JobType]
Deeds == {"decided", "applied"}

ImportTypes ==
    /\ impPanel \in PanelType /\ impLoads \in [Import!Callers -> LoadType] /\ impSrv \in JobType
    /\ impMine \in SUBSET (Nat \X Proposals \X Deeds) /\ impBehind \in BOOLEAN

\* Nothing is known of a job that there has not been.
JobsKnown ==
    /\ impPanel.shown.job <= impSrv.job /\ impPanel.text <= impSrv.job
    /\ \A c \in Import!Callers : impLoads[c].answer.job <= impSrv.job
    /\ \A j \in Nat, p \in Proposals, w \in Deeds : <<j, p, w>> \in impMine => j <= impSrv.job

\* A state of a job that holds what this reviewer has been told is done.
Owns(v) ==
    \A p \in Proposals :
      /\ <<v.job, p, "decided">> \in impMine => v.status[p] # "pending"
      /\ <<v.job, p, "applied">> \in impMine => v.status[p] = "applied"

\* The load at the end of a request belongs to it.
LoadsBelong ==
    /\ impLoads["analyze"].pc # "none" => impPanel.analyzing
    /\ impLoads["decide"].pc # "none" => impPanel.deciding # Import!Nobody
    /\ impLoads["apply"].pc # "none" => impPanel.applying

\* The load that is under way is the only one, and was begun after all that is done.
Fresh ==
    ~impBehind =>
      /\ \A c, d \in Import!Callers : impLoads[c].pc # "none" /\ impLoads[d].pc # "none" => c = d
      /\ \A c \in Import!Callers :
           impLoads[c].pc = "answered" => Owns(impLoads[c].answer) /\ impPanel.text <= impLoads[c].answer.job
      /\ (\A c \in Import!Callers : impLoads[c].pc = "none")
           => Owns(impPanel.shown) /\ impPanel.text <= impPanel.shown.job

ImportInv == ImportTypes /\ JobsKnown /\ Owns(impSrv) /\ LoadsBelong /\ Fresh

LEMMA NoJobOK == Import!NoJob \in JobType /\ Import!NoJob.job = 0
BY DEF Import!NoJob, JobType, Import!Status

LEMMA ImportInit == Import!Init => ImportInv
<1> SUFFICES ASSUME Import!Init PROVE ImportInv
  OBVIOUS
<1>1. impPanel \in PanelType /\ impPanel.shown = Import!NoJob /\ impPanel.text = 0
  BY NoJobOK DEF Import!Init, PanelType, Import!Nobody
<1>2. \A c \in Import!Callers : impLoads[c] = Import!NoLoad
  BY DEF Import!Init
<1>3. Import!NoLoad \in LoadType /\ Import!NoLoad.pc = "none" /\ Import!NoLoad.answer = Import!NoJob
  BY NoJobOK DEF Import!NoLoad, LoadType
<1>4. impLoads \in [Import!Callers -> LoadType]
  BY <1>2, <1>3 DEF Import!Init
<1>5. impSrv = Import!NoJob /\ impMine = {} /\ impBehind = FALSE
  BY DEF Import!Init
<1>6. ImportTypes
  BY <1>1, <1>4, <1>5, NoJobOK DEF ImportTypes
<1>7. JobsKnown
  BY <1>1, <1>2, <1>3, <1>5, NoJobOK DEF JobsKnown
<1>8. Owns(impSrv) /\ Owns(impPanel.shown)
  BY <1>5 DEF Owns
<1>9. LoadsBelong /\ Fresh
  BY <1>1, <1>2, <1>3, <1>8, NoJobOK DEF LoadsBelong, Fresh, Import!Callers
<1> QED BY <1>6, <1>7, <1>8, <1>9 DEF ImportInv

LEMMA ImportStays == ImportInv /\ UNCHANGED impVars => ImportInv'
BY DEF impVars, ImportInv, ImportTypes, JobsKnown, Owns, LoadsBelong, Fresh

\* A load begins: if it is the only one, nothing is known yet of what it will bring.
LEMMA LoadBegins ==
  ASSUME ImportInv, NEW c \in Import!Callers, impLoads[c].pc = "none", NEW u \in PanelType,
         Import!LoadJobs(c, u),
         impSrv' \in JobType, impSrv.job <= impSrv'.job, Owns(impSrv)',
         impMine' \in SUBSET (Nat \X Proposals \X Deeds),
         \A j \in Nat, p \in Proposals, w \in Deeds : <<j, p, w>> \in impMine' => j <= impSrv'.job,
         u.shown = impPanel.shown, u.text <= impSrv'.job, u.analyzing = impPanel.analyzing,
         u.deciding = impPanel.deciding, u.applying = impPanel.applying,
         c = "analyze" => u.analyzing, c = "decide" => u.deciding # Import!Nobody, c = "apply" => u.applying
  PROVE  ImportInv'
<1>0. ImportTypes /\ impPanel.shown.job \in Nat /\ impSrv.job \in Nat /\ impSrv'.job \in Nat
  BY DEF ImportInv, ImportTypes, PanelType, JobType
<1>1. /\ impPanel' \in PanelType /\ impPanel'.shown = u.shown /\ impPanel'.text = u.text
      /\ impPanel'.analyzing = u.analyzing /\ impPanel'.deciding = u.deciding /\ impPanel'.applying = u.applying
  <2>1. impPanel' = [u EXCEPT !.loading = TRUE]
    BY DEF Import!LoadJobs
  <2> QED BY <2>1 DEF PanelType
<1>2. /\ impLoads' \in [Import!Callers -> LoadType]
      /\ \A d \in Import!Callers : /\ impLoads'[d].answer = impLoads[d].answer
                                   /\ impLoads'[d].pc = IF d = c THEN "sent" ELSE impLoads[d].pc
  <2>1. PICK l \in LoadType : l = [impLoads[c] EXCEPT !.pc = "sent"]
    BY <1>0 DEF ImportTypes, LoadType
  <2>2. l.pc = "sent" /\ l.answer = impLoads[c].answer
    BY <1>0, <2>1 DEF ImportTypes, LoadType
  <2>3. impLoads' = [impLoads EXCEPT ![c] = l]
    BY <2>1 DEF Import!LoadJobs
  <2> QED BY <1>0, <2>2, <2>3 DEF ImportTypes
<1>3. impBehind' = (Import!Loading # {})
  BY DEF Import!LoadJobs
<1>4. impBehind' \in BOOLEAN
  BY <1>3
<1>5. ImportTypes'
  BY <1>1, <1>2, <1>4 DEF ImportTypes
<1>6. JobsKnown'
  <2>1. impPanel'.shown.job <= impSrv'.job
    BY <1>0, <1>1 DEF ImportInv, JobsKnown
  <2>2. \A d \in Import!Callers : impLoads'[d].answer.job <= impSrv'.job
    <3>1. \A d \in Import!Callers : impLoads[d].answer.job \in Nat
      BY <1>0 DEF ImportTypes, LoadType, JobType
    <3> QED BY <1>0, <1>2, <3>1 DEF ImportInv, JobsKnown
  <2> QED BY <1>1, <2>1, <2>2 DEF JobsKnown
<1>7. LoadsBelong'
  BY <1>1, <1>2 DEF ImportInv, LoadsBelong, Import!Callers
<1>8. Fresh'
  <2>1. ~impBehind' => \A d \in Import!Callers : impLoads[d].pc = "none"
    BY <1>3 DEF Import!Loading
  <2> QED BY <1>2, <2>1 DEF Fresh
<1> QED BY <1>5, <1>6, <1>7, <1>8 DEF ImportInv

\* The state of the latest job after an apply, and after a new job.
LEMMA AllAppliedOK ==
  ASSUME impSrv \in JobType
  PROVE  /\ Import!AllApplied \in JobType /\ Import!AllApplied.job = impSrv.job
         /\ \A p \in Proposals :
              Import!AllApplied.status[p] = IF impSrv.status[p] = "approved" THEN "applied" ELSE impSrv.status[p]
<1>1. PICK s \in [Proposals -> Import!Status] :
        s = [p \in Proposals |-> IF impSrv.status[p] = "approved" THEN "applied" ELSE impSrv.status[p]]
  BY DEF JobType, Import!Status
<1>2. Import!AllApplied = [impSrv EXCEPT !.status = s]
  BY <1>1 DEF Import!AllApplied
<1> QED BY <1>1, <1>2 DEF JobType

LEMMA NextJobOK ==
  ASSUME ImportInv
  PROVE  LET v == [Import!NoJob EXCEPT !.job = impSrv.job + 1] IN
         /\ v \in JobType /\ v.job = impSrv.job + 1 /\ Owns(v)
<1> DEFINE v == [Import!NoJob EXCEPT !.job = impSrv.job + 1]
<1>1. impSrv.job \in Nat
  BY DEF ImportInv, ImportTypes, JobType
<1>2. PICK n \in Nat : n = impSrv.job + 1
  BY <1>1
<1>3. v \in JobType /\ v.job = n
  BY <1>2, NoJobOK DEF JobType
<1>4. \A p \in Proposals, w \in Deeds : <<n, p, w>> \notin impMine
  BY <1>1, <1>2 DEF ImportInv, JobsKnown
<1>5. Owns(v)
  BY <1>3, <1>4 DEF Owns, Deeds
<1> QED BY <1>2, <1>3, <1>5

\* The dialog is opened or refreshed, or a request ends and loads.
LEMMA ImportLoadStep ==
  ASSUME ImportInv, Import!Open \/ Import!Refresh \/ Import!Analyzed \/ Import!Decided \/ Import!Applied
  PROVE  ImportInv'
<1>0. /\ ImportTypes /\ impPanel \in PanelType /\ impSrv \in JobType /\ impSrv.job \in Nat
      /\ impPanel.text <= impSrv.job /\ impPanel.text \in Nat
      /\ {"look", "analyze", "decide", "apply"} = Import!Callers
      /\ \A j \in Nat, p \in Proposals, w \in Deeds : <<j, p, w>> \in impMine => j <= impSrv.job
      /\ impMine \in SUBSET (Nat \X Proposals \X Deeds) /\ Owns(impSrv)
  BY DEF ImportInv, ImportTypes, PanelType, JobType, JobsKnown, Import!Callers
<1>1. CASE Import!Open \/ Import!Refresh
  <2>1. PICK o \in BOOLEAN : Import!LoadJobs("look", [impPanel EXCEPT !.open = o])
    <3>1. impPanel.open \in BOOLEAN /\ impPanel = [impPanel EXCEPT !.open = impPanel.open]
      BY <1>0 DEF PanelType
    <3> QED BY <1>1, <3>1 DEF Import!Open, Import!Refresh
  <2>2. PICK u \in PanelType : u = [impPanel EXCEPT !.open = o]
    BY <1>0 DEF PanelType
  <2>3. /\ u.shown = impPanel.shown /\ u.text = impPanel.text /\ u.analyzing = impPanel.analyzing
        /\ u.deciding = impPanel.deciding /\ u.applying = impPanel.applying
    BY <1>0, <2>2 DEF PanelType
  <2>4. UNCHANGED <<impSrv, impMine>> /\ impLoads["look"].pc = "none"
    BY <1>1 DEF Import!Open, Import!Refresh
  <2>5. Owns(impSrv)'
    BY <1>0, <2>4 DEF Owns
  <2>6. "look" \in Import!Callers /\ Import!LoadJobs("look", u) /\ impSrv' \in JobType
        /\ impSrv.job <= impSrv'.job /\ u.text <= impSrv'.job /\ impMine' \in SUBSET (Nat \X Proposals \X Deeds)
        /\ \A j \in Nat, p \in Proposals, w \in Deeds : <<j, p, w>> \in impMine' => j <= impSrv'.job
    BY <1>0, <2>1, <2>2, <2>3, <2>4
  <2> QED BY <2>3, <2>4, <2>5, <2>6, LoadBegins
<1>2. CASE Import!Analyzed
  <2>1. PICK n \in Nat : n = impSrv.job + 1
    BY <1>0
  <2>2. PICK u \in PanelType : u = [impPanel EXCEPT !.text = n]
    BY <1>0 DEF PanelType
  <2>3. /\ u.shown = impPanel.shown /\ u.text = n /\ u.analyzing = impPanel.analyzing
        /\ u.deciding = impPanel.deciding /\ u.applying = impPanel.applying
    BY <1>0, <2>2 DEF PanelType
  <2>4. /\ Import!LoadJobs("analyze", u) /\ impLoads["analyze"].pc = "none" /\ UNCHANGED impMine
        /\ impSrv' = [Import!NoJob EXCEPT !.job = impSrv.job + 1] /\ impPanel.analyzing
    BY <1>2, <2>1, <2>2 DEF Import!Analyzed
  <2>5. impSrv' \in JobType /\ impSrv'.job = n /\ Owns(impSrv')
    BY <2>1, <2>4, NextJobOK
  <2>6. Owns(impSrv)' /\ impSrv.job <= n
    BY <1>0, <2>1, <2>4, <2>5 DEF Owns
  <2>7. \A j \in Nat, p \in Proposals, w \in Deeds : <<j, p, w>> \in impMine' => j <= impSrv'.job
    BY <1>0, <2>1, <2>4, <2>5
  <2>8. impMine' \in SUBSET (Nat \X Proposals \X Deeds)
    BY <1>0, <2>4
  <2>9. "analyze" \in Import!Callers /\ impSrv.job <= impSrv'.job /\ u.text <= impSrv'.job
    BY <1>0, <2>1, <2>3, <2>5
  <2> QED BY <2>3, <2>4, <2>5, <2>6, <2>7, <2>8, <2>9, LoadBegins
<1>3. CASE Import!Decided
  <2>0. /\ impPanel.deciding # Import!Nobody /\ impLoads["decide"].pc = "none" /\ Import!LoadJobs("decide", impPanel)
        /\ impPanel.deciding \in Proposals /\ impPanel.decision \in {"approved", "rejected"}
    BY <1>0, <1>3 DEF Import!Decided, PanelType
  <2>1. /\ impSrv' \in JobType /\ impSrv'.job = impSrv.job /\ Owns(impSrv)'
        /\ impMine' \in SUBSET (Nat \X Proposals \X Deeds)
        /\ \A j \in Nat, p \in Proposals, w \in Deeds : <<j, p, w>> \in impMine' => j <= impSrv'.job
    <3>1. CASE UNCHANGED <<impSrv, impMine>>
      BY <1>0, <3>1 DEF Owns
    <3>2. CASE /\ impSrv.status[impPanel.deciding] = "pending"
               /\ impSrv' = [impSrv EXCEPT !.status[impPanel.deciding] = impPanel.decision]
               /\ impMine' = impMine \cup {<<impSrv.job, impPanel.deciding, "decided">>}
      <4>1. PICK s \in [Proposals -> Import!Status] : s = [impSrv.status EXCEPT ![impPanel.deciding] = impPanel.decision]
        BY <1>0, <2>0 DEF JobType, Import!Status
      <4>2. \A p \in Proposals : s[p] = IF p = impPanel.deciding THEN impPanel.decision ELSE impSrv.status[p]
        BY <1>0, <4>1 DEF JobType
      <4>3. impSrv' = [impSrv EXCEPT !.status = s]
        BY <3>2, <4>1
      <4>4. impSrv' \in JobType /\ impSrv'.job = impSrv.job /\ impSrv'.status = s
        BY <1>0, <4>3 DEF JobType
      <4>5. Owns(impSrv)'
        BY <1>0, <2>0, <3>2, <4>2, <4>4 DEF Owns
      <4>6. impMine' \in SUBSET (Nat \X Proposals \X Deeds)
        BY <1>0, <2>0, <3>2 DEF Deeds
      <4>7. \A j \in Nat, p \in Proposals, w \in Deeds : <<j, p, w>> \in impMine' => j <= impSrv'.job
        BY <1>0, <3>2, <4>4
      <4> QED BY <4>4, <4>5, <4>6, <4>7
    <3> QED BY <1>3, <3>1, <3>2 DEF Import!Decided
  <2> QED BY <1>0, <2>0, <2>1, LoadBegins
<1>4. CASE Import!Applied
  <2>0. impPanel.applying /\ impLoads["apply"].pc = "none" /\ Import!LoadJobs("apply", impPanel)
    BY <1>4 DEF Import!Applied
  <2>1. /\ impSrv' \in JobType /\ impSrv'.job = impSrv.job /\ Owns(impSrv)'
        /\ impMine' \in SUBSET (Nat \X Proposals \X Deeds)
        /\ \A j \in Nat, p \in Proposals, w \in Deeds : <<j, p, w>> \in impMine' => j <= impSrv'.job
    <3>1. CASE UNCHANGED <<impSrv, impMine>>
      BY <1>0, <3>1 DEF Owns
    <3>2. CASE /\ impSrv' = Import!AllApplied
               /\ impMine' = impMine \cup {<<impSrv.job, p, "applied">> : p \in {q \in Proposals : impSrv.status[q] = "approved"}}
      <4>1. /\ impSrv' \in JobType /\ impSrv'.job = impSrv.job
            /\ \A p \in Proposals :
                 impSrv'.status[p] = IF impSrv.status[p] = "approved" THEN "applied" ELSE impSrv.status[p]
        BY <1>0, <3>2, AllAppliedOK
      <4>2. \A j \in Nat, p \in Proposals, w \in Deeds : <<j, p, w>> \in impMine' =>
              <<j, p, w>> \in impMine \/ (j = impSrv.job /\ w = "applied" /\ impSrv.status[p] = "approved")
        BY <3>2
      <4>3. Owns(impSrv)'
        BY <1>0, <4>1, <4>2 DEF Owns, Deeds
      <4>4. impMine' \in SUBSET (Nat \X Proposals \X Deeds)
        BY <1>0, <3>2 DEF Deeds
      <4>5. \A j \in Nat, p \in Proposals, w \in Deeds : <<j, p, w>> \in impMine' => j <= impSrv'.job
        BY <1>0, <4>1, <4>2
      <4> QED BY <4>1, <4>3, <4>4, <4>5
    <3> QED BY <1>4, <3>1, <3>2 DEF Import!Applied
  <2>2. "apply" \in Import!Callers /\ impSrv.job <= impSrv'.job /\ impPanel.text <= impSrv'.job
    BY <1>0, <2>1
  <2> QED BY <1>0, <2>0, <2>1, <2>2, LoadBegins
<1> QED BY <1>1, <1>2, <1>3, <1>4

\* The dialog changes nothing that is loaded, decided or applied.
LEMMA PanelMoves ==
  ASSUME ImportInv, UNCHANGED <<impLoads, impSrv, impMine>>, impBehind' \in {impBehind, TRUE},
         impPanel' \in PanelType, impPanel'.shown = impPanel.shown, impPanel'.text \in {impPanel.text, 0},
         LoadsBelong'
  PROVE  ImportInv'
<1>0. /\ impPanel.text \in Nat /\ impPanel.shown.job \in Nat /\ impSrv.job \in Nat
      /\ \A c \in Import!Callers : impLoads[c].answer.job \in Nat
  BY DEF ImportInv, ImportTypes, PanelType, JobType, LoadType
<1>1. ImportTypes'
  BY DEF ImportInv, ImportTypes
<1>2. JobsKnown'
  BY <1>0 DEF ImportInv, JobsKnown
<1>3. Owns(impSrv)'
  BY DEF ImportInv, Owns
<1>4. Fresh'
  <2>1. impPanel'.text <= impPanel.text
    BY <1>0
  <2>2. ~impBehind' => ~impBehind
    BY DEF ImportInv, ImportTypes
  <2>3. \A c \in Import!Callers : Owns(impLoads[c].answer)' <=> Owns(impLoads[c].answer)
    BY DEF Owns
  <2>4. Owns(impPanel.shown)' <=> Owns(impPanel.shown)
    BY DEF Owns
  <2>5. \A c \in Import!Callers : impPanel.text <= impLoads[c].answer.job => impPanel'.text <= impLoads[c].answer.job
    BY <1>0, <2>1
  <2>6. impPanel.text <= impPanel.shown.job => impPanel'.text <= impPanel.shown.job
    BY <1>0, <2>1
  <2> QED BY <2>2, <2>3, <2>4, <2>5, <2>6 DEF ImportInv, Fresh
<1> QED BY <1>1, <1>2, <1>3, <1>4 DEF ImportInv

LEMMA ImportPanelStep ==
  ASSUME ImportInv,
         \/ Import!Close \/ Import!Analyze \/ Import!Apply \/ Import!DecideFails \/ Import!ApplyFails
         \/ \E p \in Proposals, d \in {"approved", "rejected"} : Import!Decide(p, d)
  PROVE  ImportInv'
<1>0. impPanel \in PanelType /\ LoadsBelong /\ impPanel.shown.job \in Nat
  BY SMTT(30) DEF ImportInv, ImportTypes, PanelType, JobType
<1>1. UNCHANGED <<impLoads, impSrv, impMine>> /\ impBehind' = impBehind
  BY DEF Import!Close, Import!Analyze, Import!Apply, Import!DecideFails, Import!ApplyFails, Import!Decide
<1>2. CASE Import!Close
  <2>1. impPanel' = [impPanel EXCEPT !.open = FALSE]
    BY <1>2 DEF Import!Close
  <2>2. impPanel' \in PanelType /\ impPanel'.shown = impPanel.shown /\ impPanel'.text \in {impPanel.text, 0}
    BY <1>0, <2>1 DEF PanelType
  <2>3. LoadsBelong'
    BY <1>0, <1>1, <2>1 DEF PanelType, LoadsBelong
  <2> QED BY <1>1, <2>2, <2>3, PanelMoves
<1>3. CASE Import!Analyze
  <2>1. impPanel' = [impPanel EXCEPT !.analyzing = TRUE, !.text = 0]
    BY <1>3 DEF Import!Analyze
  <2>2. impPanel' \in PanelType /\ impPanel'.shown = impPanel.shown /\ impPanel'.text \in {impPanel.text, 0}
    BY <1>0, <2>1 DEF PanelType
  <2>3. LoadsBelong'
    BY <1>0, <1>1, <2>1 DEF PanelType, LoadsBelong
  <2> QED BY <1>1, <2>2, <2>3, PanelMoves
<1>4. CASE Import!Apply
  <2>1. impPanel' = [impPanel EXCEPT !.applying = TRUE, !.applied = impPanel.shown.job]
    BY <1>4 DEF Import!Apply
  <2>2. impPanel' \in PanelType /\ impPanel'.shown = impPanel.shown /\ impPanel'.text \in {impPanel.text, 0}
    BY <1>0, <2>1 DEF PanelType
  <2>3. LoadsBelong'
    BY <1>0, <1>1, <2>1 DEF PanelType, LoadsBelong
  <2> QED BY <1>1, <2>2, <2>3, PanelMoves
<1>5. CASE Import!DecideFails
  <2>1. impPanel' = [impPanel EXCEPT !.deciding = Import!Nobody, !.decision = "approved", !.decided = 0]
        /\ impLoads["decide"].pc = "none"
    BY <1>5 DEF Import!DecideFails, Import!Undecided
  <2>2. impPanel' \in PanelType /\ impPanel'.shown = impPanel.shown /\ impPanel'.text \in {impPanel.text, 0}
    BY <1>0, <2>1 DEF PanelType
  <2>3. LoadsBelong'
    BY <1>0, <1>1, <2>1 DEF PanelType, LoadsBelong
  <2> QED BY <1>1, <2>2, <2>3, PanelMoves
<1>6. CASE Import!ApplyFails
  <2>1. impPanel' = [impPanel EXCEPT !.applying = FALSE, !.applied = 0] /\ impLoads["apply"].pc = "none"
    BY <1>6 DEF Import!ApplyFails, Import!Unapplied
  <2>2. impPanel' \in PanelType /\ impPanel'.shown = impPanel.shown /\ impPanel'.text \in {impPanel.text, 0}
    BY <1>0, <2>1 DEF PanelType
  <2>3. LoadsBelong'
    BY <1>0, <1>1, <2>1 DEF PanelType, LoadsBelong
  <2> QED BY <1>1, <2>2, <2>3, PanelMoves
<1>7. ASSUME NEW p \in Proposals, NEW d \in {"approved", "rejected"}, Import!Decide(p, d) PROVE ImportInv'
  <2>1. impPanel' = [impPanel EXCEPT !.deciding = p, !.decision = d, !.decided = impPanel.shown.job]
        /\ impPanel.deciding = Import!Nobody
    BY <1>7 DEF Import!Decide, Import!CanDecide
  <2>2. impPanel' \in PanelType /\ impPanel'.shown = impPanel.shown /\ impPanel'.text \in {impPanel.text, 0}
    BY <1>0, <2>1 DEF PanelType
  <2>3. LoadsBelong'
    BY <1>0, <1>1, <2>1 DEF PanelType, LoadsBelong
  <2> QED BY <1>1, <2>2, <2>3, PanelMoves
<1> QED BY <1>2, <1>3, <1>4, <1>5, <1>6, <1>7

\* The server's job changes, or there is a new one.
LEMMA JobMoves ==
  ASSUME ImportInv, UNCHANGED <<impLoads, impMine>>, impPanel' \in PanelType,
         impPanel'.shown = impPanel.shown, impPanel'.text = impPanel.text,
         impBehind' \in {impBehind, TRUE}, LoadsBelong',
         impSrv' \in JobType, impSrv.job <= impSrv'.job, Owns(impSrv)'
  PROVE  ImportInv'
<1>0. /\ impPanel.text \in Nat /\ impPanel.shown.job \in Nat /\ impSrv.job \in Nat /\ impSrv'.job \in Nat
      /\ \A c \in Import!Callers : impLoads[c].answer.job \in Nat
  BY DEF ImportInv, ImportTypes, PanelType, JobType, LoadType
<1>1. ImportTypes'
  BY DEF ImportInv, ImportTypes
<1>2. JobsKnown'
  BY <1>0 DEF ImportInv, JobsKnown
<1>3. Fresh'
  <2>1. ~impBehind' => ~impBehind
    BY DEF ImportInv, ImportTypes
  <2>2. \A c \in Import!Callers : Owns(impLoads[c].answer)' <=> Owns(impLoads[c].answer)
    BY DEF Owns
  <2>3. Owns(impPanel.shown)' <=> Owns(impPanel.shown)
    BY DEF Owns
  <2> QED BY <2>1, <2>2, <2>3 DEF ImportInv, Fresh
<1> QED BY <1>1, <1>2, <1>3 DEF ImportInv

\* An analysis breaks off, or somebody else works on the job.
LEMMA ImportServerStep ==
  ASSUME ImportInv, Import!AnalyzeFails \/ Import!Others
  PROVE  ImportInv'
<1>0. /\ impPanel \in PanelType /\ LoadsBelong /\ impSrv \in JobType /\ impSrv.job \in Nat /\ Owns(impSrv)
      /\ impBehind \in BOOLEAN
  BY DEF ImportInv, ImportTypes, JobType
<1>1. UNCHANGED <<impLoads, impMine>>
  BY DEF Import!AnalyzeFails, Import!Others
<1>2. PICK u \in PanelType : u = [impPanel EXCEPT !.analyzing = FALSE]
  BY <1>0 DEF PanelType
<1>3. /\ u.shown = impPanel.shown /\ u.text = impPanel.text /\ u.analyzing = FALSE
      /\ u.deciding = impPanel.deciding /\ u.applying = impPanel.applying
  BY <1>0, <1>2 DEF PanelType
<1>4. /\ impPanel' = impPanel \/ (impPanel' = u /\ impLoads["analyze"].pc = "none")
      /\ impBehind' \in {impBehind, TRUE}
  BY <1>2 DEF Import!AnalyzeFails, Import!Others
<1>5. /\ impPanel' \in PanelType /\ impPanel'.shown = impPanel.shown /\ impPanel'.text = impPanel.text
      /\ LoadsBelong'
  BY <1>0, <1>1, <1>3, <1>4 DEF LoadsBelong
<1>6. PICK v : /\ v \in JobType /\ v.job \in {impSrv.job, impSrv.job + 1} /\ impSrv' = v
               /\ Owns(v)
  <2>1. CASE impSrv' = impSrv
    BY <1>0, <2>1
  <2>2. CASE impSrv' = [Import!NoJob EXCEPT !.job = impSrv.job + 1]
    BY <2>2, NextJobOK
  <2>3. ASSUME NEW p \in Proposals, NEW d \in {"approved", "rejected"},
               impSrv.status[p] = "pending", impSrv' = [impSrv EXCEPT !.status[p] = d]
        PROVE  impSrv' \in JobType /\ impSrv'.job = impSrv.job /\ Owns(impSrv')
    <3>1. PICK s \in [Proposals -> Import!Status] : s = [impSrv.status EXCEPT ![p] = d]
      BY <1>0, <2>3 DEF JobType, Import!Status
    <3>2. \A q \in Proposals : s[q] = IF q = p THEN d ELSE impSrv.status[q]
      BY <1>0, <3>1 DEF JobType
    <3>3. impSrv' = [impSrv EXCEPT !.status = s]
      BY <2>3, <3>1
    <3>4. impSrv' \in JobType /\ impSrv'.job = impSrv.job /\ impSrv'.status = s
      BY <1>0, <3>3 DEF JobType
    <3> QED BY <1>0, <2>3, <3>2, <3>4 DEF Owns
  <2>4. CASE impSrv' = Import!AllApplied
    <3>1. /\ impSrv' \in JobType /\ impSrv'.job = impSrv.job
          /\ \A p \in Proposals :
               impSrv'.status[p] = IF impSrv.status[p] = "approved" THEN "applied" ELSE impSrv.status[p]
      BY <1>0, <2>4, AllAppliedOK
    <3> QED BY <1>0, <3>1 DEF Owns
  <2> QED BY <2>1, <2>2, <2>3, <2>4 DEF Import!AnalyzeFails, Import!Others
<1>7. impSrv' \in JobType /\ impSrv.job <= impSrv'.job /\ Owns(impSrv)'
  BY <1>0, <1>1, <1>6 DEF Owns
<1> QED BY <1>1, <1>4, <1>5, <1>7, JobMoves

\* A load is answered, delivered, or fails.
LEMMA LoadEndsStep ==
  ASSUME ImportInv, NEW c \in Import!Callers, Import!LoadEnds(c)
  PROVE  ImportInv'
<1>0. /\ impPanel \in PanelType /\ impLoads \in [Import!Callers -> LoadType] /\ impLoads[c] \in LoadType
      /\ impSrv \in JobType /\ Owns(impSrv) /\ impSrv.job \in Nat /\ impPanel.text <= impSrv.job
      /\ Import!NoLoad \in LoadType /\ Import!NoLoad.pc = "none" /\ Import!NoLoad.answer.job = 0
      /\ {"look", "analyze", "decide", "apply"} = Import!Callers
  BY NoJobOK DEF ImportInv, ImportTypes, JobType, JobsKnown, Import!NoLoad, LoadType, Import!Callers
<1>1. UNCHANGED <<impSrv, impMine>>
  BY DEF Import!LoadEnds, Import!Serve, Import!Deliver, Import!LoadFails
<1>2. Owns(impSrv)' /\ (\A c2 \in Import!Callers : Owns(impLoads[c2].answer)' <=> Owns(impLoads'[c2].answer))
      /\ (Owns(impPanel.shown)' <=> Owns(impPanel'.shown))
  BY <1>0, <1>1 DEF Owns
<1>3. CASE Import!Serve(c)
  <2>1. PICK l \in LoadType : l = [pc |-> "answered", answer |-> impSrv]
    BY <1>0 DEF LoadType
  <2>2. /\ impLoads' = [impLoads EXCEPT ![c] = l] /\ impPanel' = impPanel /\ impBehind' = impBehind
        /\ impLoads[c].pc = "sent"
    BY <1>3, <2>1 DEF Import!Serve
  <2>3. /\ impLoads' \in [Import!Callers -> LoadType]
        /\ \A d \in Import!Callers : impLoads'[d] = IF d = c THEN l ELSE impLoads[d]
    BY <1>0, <2>2
  <2>4. ImportTypes'
    BY <1>1, <2>2, <2>3 DEF ImportInv, ImportTypes
  <2>5. JobsKnown'
    BY <1>0, <1>1, <2>1, <2>2, <2>3 DEF ImportInv, JobsKnown
  <2>6. LoadsBelong'
    BY <1>0, <2>1, <2>2, <2>3 DEF ImportInv, LoadsBelong
  <2>7. Fresh'
    BY <1>0, <1>1, <1>2, <2>1, <2>2, <2>3 DEF ImportInv, Fresh
  <2> QED BY <1>2, <2>4, <2>5, <2>6, <2>7 DEF ImportInv
<1>4. ASSUME NEW v, Import!Released(c, [impPanel EXCEPT !.shown = v, !.loading = FALSE]) = impPanel', v \in JobType,
             impLoads' = [impLoads EXCEPT ![c] = Import!NoLoad], v.job <= impSrv.job, impBehind' \in BOOLEAN,
             Fresh'
      PROVE  ImportInv'
  <2>1. /\ impLoads' \in [Import!Callers -> LoadType]
        /\ \A d \in Import!Callers : impLoads'[d] = IF d = c THEN Import!NoLoad ELSE impLoads[d]
    BY <1>0, <1>4
  <2>2. /\ impPanel' \in PanelType /\ impPanel'.shown = v /\ impPanel'.text = impPanel.text
        /\ c # "analyze" => impPanel'.analyzing = impPanel.analyzing
        /\ c # "decide" => impPanel'.deciding = impPanel.deciding
        /\ c # "apply" => impPanel'.applying = impPanel.applying
    <3>1. PICK u \in PanelType : u = [impPanel EXCEPT !.shown = v, !.loading = FALSE]
      BY <1>0, <1>4 DEF PanelType
    <3>2. /\ u.shown = v /\ u.text = impPanel.text /\ u.analyzing = impPanel.analyzing
          /\ u.deciding = impPanel.deciding /\ u.applying = impPanel.applying
      BY <1>0, <3>1 DEF PanelType
    <3>3. impPanel' = Import!Released(c, u)
      BY <1>4, <3>1
    <3>4. CASE c = "analyze"
      BY <3>2, <3>3, <3>4 DEF Import!Released, PanelType
    <3>5. CASE c = "decide"
      <4>1. impPanel' = [u EXCEPT !.deciding = Import!Nobody, !.decision = "approved", !.decided = 0]
        BY <3>3, <3>5 DEF Import!Released, Import!Undecided
      <4> QED BY <3>2, <3>5, <4>1 DEF PanelType
    <3>6. CASE c = "apply"
      <4>1. impPanel' = [u EXCEPT !.applying = FALSE, !.applied = 0]
        BY <3>3, <3>6 DEF Import!Released, Import!Unapplied
      <4> QED BY <3>2, <3>6, <4>1 DEF PanelType
    <3>7. CASE c = "look"
      BY <3>2, <3>3, <3>7 DEF Import!Released
    <3> QED BY <1>0, <3>4, <3>5, <3>6, <3>7
  <2>3. ImportTypes'
    BY <1>1, <1>4, <2>1, <2>2 DEF ImportInv, ImportTypes
  <2>4. JobsKnown'
    BY <1>0, <1>1, <1>4, <2>1, <2>2 DEF ImportInv, JobsKnown
  <2>5. LoadsBelong'
    BY <1>0, <2>1, <2>2 DEF ImportInv, LoadsBelong
  <2> QED BY <1>2, <1>4, <2>3, <2>4, <2>5 DEF ImportInv
<1>5. CASE Import!Deliver(c)
  <2>1. PICK v \in JobType : v = impLoads[c].answer
    BY <1>0 DEF LoadType
  <2>2. /\ Import!Released(c, [impPanel EXCEPT !.shown = v, !.loading = FALSE]) = impPanel'
        /\ impLoads' = [impLoads EXCEPT ![c] = Import!NoLoad] /\ impBehind' = impBehind /\ impLoads[c].pc = "answered"
    BY <1>5, <2>1 DEF Import!Deliver
  <2>3. v.job <= impSrv.job /\ impBehind \in BOOLEAN
    BY <2>1 DEF ImportInv, ImportTypes, JobsKnown
  <2>4. impPanel'.shown = v /\ impPanel'.text = impPanel.text
    <3>1. PICK u \in PanelType : u = [impPanel EXCEPT !.shown = v, !.loading = FALSE]
      BY <1>0, <2>1 DEF PanelType
    <3>2. u.shown = v /\ u.text = impPanel.text /\ impPanel' = Import!Released(c, u)
      BY <1>0, <2>2, <3>1 DEF PanelType
    <3> QED BY <1>0, <3>2 DEF Import!Released, Import!Undecided, Import!Unapplied, PanelType
  <2>5. \A d \in Import!Callers : impLoads'[d] = IF d = c THEN Import!NoLoad ELSE impLoads[d]
    BY <1>0, <2>2
  <2>6. ~impBehind => Owns(v) /\ impPanel.text <= v.job /\ \A d \in Import!Callers : d # c => impLoads[d].pc = "none"
    BY <2>1, <2>2 DEF ImportInv, Fresh
  <2>7. Fresh'
    BY <1>0, <1>2, <2>2, <2>4, <2>5, <2>6 DEF Fresh
  <2> QED BY <1>4, <2>1, <2>2, <2>3, <2>7
<1>6. CASE Import!LoadFails(c)
  <2>1. impPanel.shown \in JobType /\ impPanel.shown.job <= impSrv.job
    BY <1>0 DEF PanelType, ImportInv, JobsKnown
  <2>2. [impPanel EXCEPT !.loading = FALSE] = [impPanel EXCEPT !.shown = impPanel.shown, !.loading = FALSE]
    BY <1>0 DEF PanelType
  <2>3. /\ Import!Released(c, [impPanel EXCEPT !.shown = impPanel.shown, !.loading = FALSE]) = impPanel'
        /\ impLoads' = [impLoads EXCEPT ![c] = Import!NoLoad] /\ impBehind' = TRUE
    BY <1>6, <2>2 DEF Import!LoadFails
  <2>4. Fresh'
    BY <2>3 DEF Fresh
  <2> QED BY <1>4, <2>1, <2>3, <2>4
<1> QED BY <1>3, <1>5, <1>6 DEF Import!LoadEnds

LEMMA ImportNext == ImportInv /\ Import!Next => ImportInv'
<1> SUFFICES ASSUME ImportInv, Import!Next PROVE ImportInv'
  OBVIOUS
<1>1. CASE Import!Open \/ Import!Refresh \/ Import!Analyzed \/ Import!Decided \/ Import!Applied
  BY <1>1, ImportLoadStep
<1>2. CASE \/ Import!Close \/ Import!Analyze \/ Import!Apply \/ Import!DecideFails \/ Import!ApplyFails
           \/ \E p \in Proposals, d \in {"approved", "rejected"} : Import!Decide(p, d)
  BY <1>2, ImportPanelStep
<1>3. CASE Import!AnalyzeFails \/ Import!Others
  BY <1>3, ImportServerStep
<1>4. CASE \E c \in Import!Callers : Import!LoadEnds(c)
  BY <1>4, LoadEndsStep
<1> QED BY <1>1, <1>2, <1>3, <1>4 DEF Import!Next, Import!Answers

\* What the dialog promises, and its types.
LEMMA ImportTells ==
  ASSUME ImportInv
  PROVE  Import!TypeOK /\ Import!ShowsOwnWork
<1>0. /\ impPanel \in PanelType /\ impPanel.shown \in JobType /\ impSrv \in JobType
      /\ impPanel.shown.job \in Nat /\ impSrv.job \in Nat /\ impPanel.text \in Nat
      /\ \A c \in Import!Callers : impLoads[c] \in LoadType
      /\ {"look", "analyze", "decide", "apply"} = Import!Callers
  BY DEF ImportInv, ImportTypes, PanelType, JobType, Import!Callers
<1>1. Import!TypeOK
  <2>1. impPanel.shown.job \in 0..impSrv.job /\ impPanel.text \in 0..impSrv.job
    BY <1>0 DEF ImportInv, JobsKnown
  <2>2. impPanel.shown.status \in [Proposals -> Import!Status] /\ impSrv.status \in [Proposals -> Import!Status]
    BY <1>0 DEF JobType
  <2>3. impPanel.deciding \in Proposals \cup {Import!Nobody}
    BY <1>0 DEF PanelType
  <2>4. \A c \in Import!Callers : impLoads[c].pc \in {"none", "sent", "answered"}
    BY <1>0 DEF LoadType
  <2>5. ASSUME NEW c \in Import!Callers \ {"look"}, c \in Import!Loading
        PROVE  CASE c = "analyze" -> impPanel.analyzing [] c = "decide" -> impPanel.deciding # Import!Nobody
                 [] c = "apply" -> impPanel.applying
    BY <1>0, <2>5 DEF ImportInv, LoadsBelong, Import!Loading
  <2> QED BY <2>1, <2>2, <2>3, <2>4, <2>5 DEF Import!TypeOK
<1>2. ASSUME Import!AtRest, ~impBehind
      PROVE  /\ Import!Details.stages <= Import!Details.job
             /\ \A p \in Proposals :
                  /\ <<impPanel.shown.job, p, "decided">> \in impMine => impPanel.shown.status[p] # "pending"
                  /\ <<impPanel.shown.job, p, "applied">> \in impMine => impPanel.shown.status[p] = "applied"
  <2>1. Owns(impPanel.shown) /\ impPanel.text <= impPanel.shown.job
    <3>1. \A c \in Import!Callers : impLoads[c].pc = "none"
      BY <1>2 DEF Import!AtRest, Import!Loading
    <3> QED BY <1>2, <3>1 DEF ImportInv, Fresh
  <2>2. Import!Details.stages <= Import!Details.job
    BY <1>0, <2>1 DEF Import!Details, Import!Report
  <2> QED BY <2>1, <2>2 DEF Owns
<1> QED BY <1>1, <1>2 DEF Import!ShowsOwnWork

-----------------------------------------------------------------------------
(* The answer that is drawn, and the list it is drawn in                     *)

ToolCallType == [tool: Tools, out: {"none", "data", "error"},
                 state: {"none", "input-streaming", "input-available", "output-available"}]
AnswerType == [status: {"ready", "error", "submitted", "streaming"}, text: BOOLEAN, calls: Seq(ToolCallType),
               phase: {"none", "start", "batch", "run", "output"}, used: Nat, end: {"none", "finish", "broken"},
               asked: 0..MaxAsked]
ScrollType == [gap: 0..2, atBottom: BOOLEAN, busy: BOOLEAN, event: BOOLEAN, frame: BOOLEAN]
ReaderType == [away: BOOLEAN, raced: BOOLEAN, missed: BOOLEAN]

\* A call is finished if and only if it is one of those that have been used; the next
\* one may have its input, and the others have at most been begun.
CallsFollow(a) ==
    \A i \in 1..Len(a.calls) :
      /\ i <= a.used => a.calls[i].state = "output-available" /\ a.calls[i].out \in {"data", "error"}
      /\ i > a.used => a.calls[i].state # "output-available" /\ a.calls[i].out = "none"

AnswerOK(a) ==
    /\ a \in AnswerType /\ CallsFollow(a)
    /\ a.status \in {"ready", "error"} <=> a.phase = "none"
    /\ a.used <= Len(a.calls) /\ a.used <= MaxSteps /\ Len(a.calls) <= MaxCalls
    /\ a.phase = "output" => a.used < Len(a.calls) /\ a.used < MaxSteps
    /\ a.end # "none" => a.phase = "none"
    /\ a.end = "finish" => a.used = Len(a.calls) \/ a.used = MaxSteps

\* A reader who is away misses nothing and is only moved by a frame that raced with
\* him; one who stays is near the end or has a frame to come.
ListOK(s, r) ==
    /\ s \in ScrollType /\ r \in ReaderType
    /\ r.away => s.gap = 2 /\ ~r.missed
    /\ r.away /\ s.frame => r.raced
    /\ r.away /\ ~s.event /\ ~s.frame => ~s.atBottom
    /\ ~r.away /\ ~s.frame /\ ~r.missed => s.gap < 2

AnswerInv == AnswerOK(ansAnswer) /\ ListOK(ansScroll, ansReader)

LEMMA AnswerBounds == /\ MaxSteps \in Nat /\ MaxCalls \in Nat /\ MaxAsked \in Nat
                      /\ Tools \subseteq {"searchProductsTool", "searchContentTool", "searchKnowledgeBaseTool", "other"}
BY ChatAssumption

LEMMA QuietOK == AnswerOK(Answer!Quiet) /\ Answer!Quiet.asked = 0
<1>1. <<>> \in Seq(ToolCallType) /\ Len(<<>>) = 0
  OBVIOUS
<1>2. Answer!Quiet \in AnswerType
  BY <1>1, AnswerBounds DEF Answer!Quiet, AnswerType
<1> QED BY <1>1, <1>2, AnswerBounds DEF Answer!Quiet, AnswerOK, CallsFollow

LEMMA AnswerInit == Answer!Init => AnswerInv
BY QuietOK DEF Answer!Init, AnswerInv, ListOK, ScrollType, ReaderType

LEMMA AnswerStays == AnswerInv /\ UNCHANGED ansVars => AnswerInv'
BY DEF AnswerInv, ansVars

\* Whatever grows: a change that is not followed is missed, and one that is followed
\* under the eyes of a reader who is away has met a scroll nobody has heard of.
LEMMA GrowsOK ==
  ASSUME ListOK(ansScroll, ansReader), Answer!Grows
  PROVE  ListOK(ansScroll', ansReader')
<1>0. ansScroll \in ScrollType /\ ansReader \in ReaderType
  BY DEF ListOK
<1>1. PICK g \in ansScroll.gap..2 : ansScroll' = Answer!Follow([ansScroll EXCEPT !.gap = g])
  BY DEF Answer!Grows
<1>2. g \in 0..2 /\ ansScroll.gap <= g
  BY <1>0, <1>1 DEF ScrollType
<1>3. PICK f \in BOOLEAN : f = (ansScroll.frame \/ (ansScroll.atBottom /\ ~ansScroll.busy))
  OBVIOUS
<1>4. ansScroll' = [ansScroll EXCEPT !.gap = g, !.frame = f]
  BY <1>0, <1>1, <1>2, <1>3 DEF Answer!Follow, ScrollType
<1>5. /\ ansScroll' \in ScrollType /\ ansScroll'.gap = g /\ ansScroll'.frame = f
      /\ ansScroll'.event = ansScroll.event /\ ansScroll'.atBottom = ansScroll.atBottom
  BY <1>0, <1>2, <1>4 DEF ScrollType
<1>6. PICK m \in BOOLEAN : m = (ansReader.missed \/ (~ansReader.away /\ ~ansScroll'.frame))
  OBVIOUS
<1>7. PICK r \in BOOLEAN : r = (ansReader.raced \/ (ansReader.away /\ ansScroll.event /\ ansScroll'.frame))
  OBVIOUS
<1>8. ansReader' = [ansReader EXCEPT !.missed = m, !.raced = r]
  BY <1>6, <1>7 DEF Answer!Grows
<1>9. ansReader' \in ReaderType /\ ansReader'.away = ansReader.away /\ ansReader'.missed = m /\ ansReader'.raced = r
  BY <1>0, <1>8 DEF ReaderType
<1> QED BY <1>0, <1>2, <1>3, <1>5, <1>6, <1>7, <1>9 DEF ListOK, ScrollType, ReaderType

LEMMA ScrollSteps ==
  ASSUME AnswerInv,
         Answer!UserScrolls \/ Answer!HandleScroll \/ Answer!ScrollTimeout \/ Answer!Frame \/ Answer!ScrollToBottom
  PROVE  AnswerInv'
<1>0. ansScroll \in ScrollType /\ ansReader \in ReaderType /\ ListOK(ansScroll, ansReader) /\ AnswerOK(ansAnswer)
  BY SMTT(30) DEF AnswerInv, ListOK
<1>1. ansAnswer' = ansAnswer
  BY DEF Answer!UserScrolls, Answer!HandleScroll, Answer!ScrollTimeout, Answer!Frame, Answer!ScrollToBottom
<1>2. CASE Answer!UserScrolls
  <2>1. PICK g \in 0..2 : /\ ansScroll' = [ansScroll EXCEPT !.gap = g, !.event = TRUE]
                          /\ ansReader' = [ansReader EXCEPT !.away = g = 2, !.missed = FALSE,
                                                            !.raced = ansScroll.frame /\ g = 2]
    BY <1>2 DEF Answer!UserScrolls
  <2>2. PICK a \in BOOLEAN : a = (g = 2)
    OBVIOUS
  <2>3. PICK r \in BOOLEAN : r = (ansScroll.frame /\ g = 2)
    OBVIOUS
  <2>4. ansReader' = [ansReader EXCEPT !.away = a, !.missed = FALSE, !.raced = r]
    BY <2>1, <2>2, <2>3
  <2>5. ansReader' \in ReaderType /\ ansReader'.away = a /\ ansReader'.raced = r /\ ~ansReader'.missed
    BY <1>0, <2>4 DEF ReaderType
  <2>6. ansScroll' \in ScrollType /\ ansScroll'.gap = g /\ ansScroll'.event /\ ansScroll'.frame = ansScroll.frame
    BY <1>0, <2>1 DEF ScrollType
  <2>7. (a => g = 2) /\ (~a => g < 2) /\ (a /\ ansScroll.frame => r)
    <3>1. g = 2 \/ g < 2
      BY <2>1
    <3>2. CASE g = 2
      BY <2>2, <2>3, <3>2
    <3>3. CASE g # 2
      BY <2>2, <2>3, <3>1, <3>3
    <3> QED BY <3>2, <3>3
  <2>8. ListOK(ansScroll', ansReader')
    BY <2>5, <2>6, <2>7 DEF ListOK
  <2> QED BY <1>0, <1>1, <2>8 DEF AnswerInv
<1>3. CASE Answer!HandleScroll
  <2>1. PICK b \in BOOLEAN : b = (ansScroll.gap < 2)
    <3>1. (ansScroll.gap < 2) \in BOOLEAN
      OBVIOUS
    <3> QED BY <3>1
  <2>2. ansScroll' = [ansScroll EXCEPT !.event = FALSE, !.busy = TRUE, !.atBottom = b] /\ ansReader' = ansReader
    BY <1>3, <2>1 DEF Answer!HandleScroll
  <2>3. /\ ansScroll' \in ScrollType /\ ansScroll'.gap = ansScroll.gap /\ ansScroll'.atBottom = b
        /\ ansScroll'.frame = ansScroll.frame
    BY <1>0, <2>2 DEF ScrollType
  <2>4. ListOK(ansScroll', ansReader')
    BY <1>0, <2>1, <2>2, <2>3 DEF ListOK, ScrollType
  <2> QED BY <1>0, <1>1, <2>4 DEF AnswerInv
<1>4. CASE Answer!ScrollTimeout
  <2>1. ansScroll' = [ansScroll EXCEPT !.busy = FALSE] /\ ansReader' = ansReader
    BY <1>4 DEF Answer!ScrollTimeout
  <2>2. /\ ansScroll' \in ScrollType /\ ansScroll'.gap = ansScroll.gap /\ ansScroll'.atBottom = ansScroll.atBottom
        /\ ansScroll'.frame = ansScroll.frame /\ ansScroll'.event = ansScroll.event
    BY <1>0, <2>1 DEF ScrollType
  <2> QED BY <1>0, <1>1, <2>1, <2>2 DEF AnswerInv, ListOK
<1>5. CASE Answer!Frame
  <2>1. PICK e \in BOOLEAN : e = (ansScroll.gap # 0)
    OBVIOUS
  <2>2. PICK a \in BOOLEAN : a = (ansReader.away /\ ~ansReader.raced)
    OBVIOUS
  <2>3. /\ ansScroll.frame
        /\ ansScroll' = [ansScroll EXCEPT !.frame = FALSE, !.gap = 0, !.event = e, !.atBottom = TRUE]
        /\ ansReader' = [away |-> a, raced |-> FALSE, missed |-> FALSE]
    BY <1>5, <2>1, <2>2 DEF Answer!Frame
  <2>4. ~a
    BY <1>0, <2>2, <2>3 DEF ListOK
  <2>5. ansScroll' \in ScrollType /\ ansScroll'.gap = 0
    <3>1. 0 \in 0..2
      OBVIOUS
    <3> QED BY <1>0, <2>3, <3>1 DEF ScrollType
  <2>6. ansReader' \in ReaderType /\ ~ansReader'.away
    BY <2>3, <2>4 DEF ReaderType
  <2>7. ListOK(ansScroll', ansReader')
    BY <2>5, <2>6 DEF ListOK
  <2> QED BY <1>0, <1>1, <2>7 DEF AnswerInv
<1>6. CASE Answer!ScrollToBottom
  <2>1. PICK e \in BOOLEAN : e = (ansScroll.gap # 0 \/ ansScroll.event)
    OBVIOUS
  <2>2. /\ ansScroll' = [ansScroll EXCEPT !.gap = 0, !.event = e]
        /\ ansReader' = [ansReader EXCEPT !.away = FALSE, !.missed = FALSE]
    BY <1>0, <1>6, <2>1 DEF Answer!ScrollToBottom, ScrollType
  <2>3. ansScroll' \in ScrollType /\ ansScroll'.gap = 0
    <3>1. 0 \in 0..2
      OBVIOUS
    <3> QED BY <1>0, <2>2, <3>1 DEF ScrollType
  <2>4. ansReader' \in ReaderType /\ ~ansReader'.away
    BY <1>0, <2>2 DEF ReaderType
  <2>5. ListOK(ansScroll', ansReader')
    BY <2>3, <2>4 DEF ListOK
  <2> QED BY <1>0, <1>1, <2>5 DEF AnswerInv
<1> QED BY <1>2, <1>3, <1>4, <1>5, <1>6

LEMMA AnswerOpens ==
  ASSUME AnswerInv, Answer!OpenChat
  PROVE  AnswerInv'
<1>0. ansScroll \in ScrollType /\ AnswerOK(ansAnswer)
  BY DEF AnswerInv, ListOK
<1>1. PICK n \in 0..MaxAsked : n = ansAnswer.asked + 1
  BY <1>0, AnswerBounds DEF Answer!OpenChat, AnswerOK, AnswerType
<1>2. ansAnswer' = [Answer!Quiet EXCEPT !.asked = n]
  BY <1>1 DEF Answer!OpenChat
<1>3. AnswerOK(ansAnswer')
  BY <1>2, QuietOK DEF AnswerOK, AnswerType, CallsFollow
<1>4. PICK g \in 0..2, before \in BOOLEAN :
        LET reset(s) == [s EXCEPT !.atBottom = TRUE, !.busy = FALSE]
            drawn == [ansScroll EXCEPT !.gap = g]
        IN  /\ ansScroll' = IF before THEN Answer!Follow(reset(drawn)) ELSE reset(Answer!Follow(drawn))
            /\ ansReader' = [away |-> FALSE, raced |-> FALSE, missed |-> ~ansScroll'.frame]
  BY DEF Answer!OpenChat
<1>5. PICK f \in BOOLEAN : f = (before \/ ansScroll.frame \/ (ansScroll.atBottom /\ ~ansScroll.busy))
  OBVIOUS
<1>6. ansScroll' = [ansScroll EXCEPT !.gap = g, !.atBottom = TRUE, !.busy = FALSE, !.frame = f]
  BY <1>0, <1>4, <1>5 DEF Answer!Follow, ScrollType
<1>7. ansScroll' \in ScrollType /\ ansScroll'.frame = f /\ ansScroll'.gap = g
  BY <1>0, <1>6 DEF ScrollType
<1>8. PICK m \in BOOLEAN : m = ~ansScroll'.frame
  OBVIOUS
<1>9. ansReader' = [away |-> FALSE, raced |-> FALSE, missed |-> m]
  BY <1>4, <1>8
<1>10. ListOK(ansScroll', ansReader')
  BY <1>7, <1>8, <1>9 DEF ListOK, ReaderType
<1> QED BY <1>3, <1>10 DEF AnswerInv

\* Steps that touch no call.
LEMMA AnswerGoesOn ==
  ASSUME AnswerOK(ansAnswer),
         \/ Answer!Ask \/ Answer!Start \/ Answer!TextDelta \/ Answer!Step \/ Answer!StepEnds \/ Answer!Finish
         \/ \E s \in Answer!Ended : Answer!BreakOff(s)
  PROVE  AnswerOK(ansAnswer')
<1>0. ansAnswer \in AnswerType /\ CallsFollow(ansAnswer)
  BY DEF AnswerOK
<1>1. CASE Answer!Ask
  <2>1. PICK n \in 0..MaxAsked : n = ansAnswer.asked + 1
    BY <1>0, <1>1, AnswerBounds DEF Answer!Ask, AnswerType
  <2>2. ansAnswer' = [Answer!Quiet EXCEPT !.status = "submitted", !.phase = "start", !.asked = n]
    BY <1>1, <2>1 DEF Answer!Ask
  <2>3. Answer!Quiet \in AnswerType /\ Answer!Quiet.end = "none" /\ Answer!Quiet.calls = <<>> /\ Answer!Quiet.used = 0
    BY QuietOK DEF AnswerOK, Answer!Quiet
  <2>4. ansAnswer' \in AnswerType
    BY <2>1, <2>2, <2>3 DEF AnswerType
  <2>5. /\ ansAnswer'.status = "submitted" /\ ansAnswer'.phase = "start" /\ ansAnswer'.end = "none"
        /\ ansAnswer'.calls = <<>> /\ ansAnswer'.used = 0
    BY <2>2, <2>3 DEF AnswerType
  <2>6. Len(<<>>) = 0
    OBVIOUS
  <2>7. CallsFollow(ansAnswer')
    BY <2>5, <2>6 DEF CallsFollow
  <2> QED BY <2>4, <2>5, <2>6, <2>7, AnswerBounds DEF AnswerOK
<1>2. CASE Answer!Start
  <2>1. ansAnswer.phase = "start" /\ ansAnswer' = [ansAnswer EXCEPT !.status = "streaming", !.phase = "batch"]
    BY <1>2 DEF Answer!Start
  <2> QED BY <1>0, <2>1 DEF AnswerOK, AnswerType, CallsFollow
<1>3. CASE Answer!TextDelta
  <2>1. ansAnswer' = [ansAnswer EXCEPT !.text = TRUE]
    BY <1>3 DEF Answer!TextDelta
  <2> QED BY <1>0, <2>1 DEF AnswerOK, AnswerType, CallsFollow
<1>4. CASE Answer!Step
  <2>1. ansAnswer.phase = "batch" /\ ansAnswer' = [ansAnswer EXCEPT !.phase = "run"]
    BY <1>4 DEF Answer!Step
  <2> QED BY <1>0, <2>1 DEF AnswerOK, AnswerType, CallsFollow
<1>5. CASE Answer!StepEnds
  <2>1. ansAnswer.phase = "run" /\ ansAnswer' = [ansAnswer EXCEPT !.phase = "batch"]
    BY <1>5 DEF Answer!StepEnds
  <2> QED BY <1>0, <2>1 DEF AnswerOK, AnswerType, CallsFollow
<1>6. CASE Answer!Finish
  <2>1. /\ ansAnswer.used = Len(ansAnswer.calls) \/ ansAnswer.used = MaxSteps
        /\ ansAnswer' = [ansAnswer EXCEPT !.status = "ready", !.phase = "none", !.end = "finish"]
    BY <1>6 DEF Answer!Finish
  <2> QED BY <1>0, <2>1 DEF AnswerOK, AnswerType, CallsFollow
<1>7. ASSUME NEW s \in Answer!Ended, Answer!BreakOff(s) PROVE AnswerOK(ansAnswer')
  <2>1. s \in {"ready", "error"} /\ ansAnswer' = [ansAnswer EXCEPT !.status = s, !.phase = "none", !.end = "broken"]
    BY <1>7 DEF Answer!BreakOff, Answer!Ended
  <2> QED BY <1>0, <2>1 DEF AnswerOK, AnswerType, CallsFollow
<1> QED BY <1>1, <1>2, <1>3, <1>4, <1>5, <1>6, <1>7

\* Steps of a call: it is begun, has its input, or its output.
LEMMA CallSteps ==
  ASSUME AnswerOK(ansAnswer),
         \/ Answer!ToolInput \/ Answer!ToolOutput
         \/ \E tool \in Tools, dsml, announced \in BOOLEAN : Answer!ToolInputStart(tool, dsml, announced)
  PROVE  AnswerOK(ansAnswer')
<1>0. /\ ansAnswer \in AnswerType /\ ansAnswer.calls \in Seq(ToolCallType) /\ ansAnswer.used \in Nat
      /\ Len(ansAnswer.calls) \in Nat
  BY DEF AnswerOK, AnswerType
<1>1. ASSUME NEW tool \in Tools, NEW dsml \in BOOLEAN, NEW announced \in BOOLEAN,
             Answer!ToolInputStart(tool, dsml, announced)
      PROVE  AnswerOK(ansAnswer')
  <2> DEFINE c == [tool |-> tool, out |-> "none", state |-> IF announced THEN "input-streaming" ELSE "none"]
  <2>1. c \in ToolCallType /\ c.state # "output-available" /\ c.out = "none"
    BY DEF ToolCallType
  <2> HIDE DEF c
  <2>2. ansAnswer' = [ansAnswer EXCEPT !.calls = Append(ansAnswer.calls, c)]
    BY <1>1 DEF Answer!ToolInputStart, c
  <2>3. /\ Append(ansAnswer.calls, c) \in Seq(ToolCallType)
        /\ Len(Append(ansAnswer.calls, c)) = Len(ansAnswer.calls) + 1
        /\ \A i \in 1..Len(ansAnswer.calls) : Append(ansAnswer.calls, c)[i] = ansAnswer.calls[i]
        /\ Append(ansAnswer.calls, c)[Len(ansAnswer.calls) + 1] = c
    BY <1>0, <2>1
  <2>4. /\ ansAnswer' \in AnswerType /\ ansAnswer'.calls = Append(ansAnswer.calls, c)
        /\ ansAnswer'.used = ansAnswer.used /\ ansAnswer'.phase = ansAnswer.phase
        /\ ansAnswer'.status = ansAnswer.status /\ ansAnswer'.end = ansAnswer.end
    BY <1>0, <2>2, <2>3 DEF AnswerType
  <2>5. ansAnswer.phase = "batch" /\ Len(ansAnswer.calls) < MaxCalls
    BY <1>1 DEF Answer!ToolInputStart
  <2>6. CallsFollow(ansAnswer')
    <3> SUFFICES ASSUME NEW i \in 1..(Len(ansAnswer.calls) + 1)
                 PROVE  /\ i <= ansAnswer.used => /\ ansAnswer'.calls[i].state = "output-available"
                                                  /\ ansAnswer'.calls[i].out \in {"data", "error"}
                        /\ i > ansAnswer.used => /\ ansAnswer'.calls[i].state # "output-available"
                                                 /\ ansAnswer'.calls[i].out = "none"
      BY <2>3, <2>4 DEF CallsFollow
    <3>1. CASE i \in 1..Len(ansAnswer.calls)
      BY <2>3, <2>4, <3>1 DEF AnswerOK, CallsFollow
    <3>2. CASE i = Len(ansAnswer.calls) + 1
      BY <1>0, <2>1, <2>3, <2>4, <3>2 DEF AnswerOK
    <3> QED BY <1>0, <3>1, <3>2
  <2> QED BY <1>0, <2>3, <2>4, <2>5, <2>6, AnswerBounds DEF AnswerOK
<1>2. CASE Answer!ToolInput
  <2> DEFINE k == ansAnswer.used + 1
             c == [ansAnswer.calls[k] EXCEPT !.state = "input-available"]
  <2>1. /\ ansAnswer.phase = "run" /\ ansAnswer.used < Len(ansAnswer.calls) /\ ansAnswer.used < MaxSteps
        /\ k \in 1..Len(ansAnswer.calls)
        /\ ansAnswer' = [ansAnswer EXCEPT !.calls = [ansAnswer.calls EXCEPT ![k] = c], !.phase = "output"]
    BY <1>0, <1>2 DEF Answer!ToolInput
  <2>2. ansAnswer.calls[k] \in ToolCallType /\ ansAnswer.calls[k].out = "none"
    BY <1>0, <2>1 DEF AnswerOK, CallsFollow
  <2>3. c \in ToolCallType /\ c.state # "output-available" /\ c.out = "none"
    BY <2>2 DEF ToolCallType
  <2> HIDE DEF c, k
  <2>4. /\ [ansAnswer.calls EXCEPT ![k] = c] \in Seq(ToolCallType)
        /\ Len([ansAnswer.calls EXCEPT ![k] = c]) = Len(ansAnswer.calls)
        /\ \A i \in 1..Len(ansAnswer.calls) :
             [ansAnswer.calls EXCEPT ![k] = c][i] = IF i = k THEN c ELSE ansAnswer.calls[i]
    BY <1>0, <2>1, <2>3
  <2>5. /\ ansAnswer' \in AnswerType /\ ansAnswer'.calls = [ansAnswer.calls EXCEPT ![k] = c]
        /\ ansAnswer'.used = ansAnswer.used /\ ansAnswer'.phase = "output"
        /\ ansAnswer'.status = ansAnswer.status /\ ansAnswer'.end = ansAnswer.end
    BY <1>0, <2>1, <2>4 DEF AnswerType
  <2>6. CallsFollow(ansAnswer')
    BY <1>0, <2>1, <2>3, <2>4, <2>5 DEF AnswerOK, CallsFollow, k
  <2> QED BY <1>0, <2>1, <2>4, <2>5, <2>6, AnswerBounds DEF AnswerOK
<1>3. CASE Answer!ToolOutput
  <2> DEFINE k == ansAnswer.used + 1
  <2>1. PICK out \in {"data", "error"} :
          ansAnswer' = [ansAnswer EXCEPT !.calls[k] = [@ EXCEPT !.state = "output-available", !.out = out],
                                         !.used = @ + 1, !.phase = "run"]
    BY <1>3 DEF Answer!ToolOutput
  <2>2. /\ ansAnswer.phase = "output" /\ ansAnswer.used < Len(ansAnswer.calls) /\ ansAnswer.used < MaxSteps
        /\ k \in 1..Len(ansAnswer.calls) /\ k \in Nat
    BY <1>0, <1>3 DEF Answer!ToolOutput, AnswerOK
  <2>3. ansAnswer.calls[k] \in ToolCallType
    BY <1>0, <2>2
  <2> DEFINE c == [ansAnswer.calls[k] EXCEPT !.state = "output-available", !.out = out]
  <2>4. c \in ToolCallType /\ c.state = "output-available" /\ c.out \in {"data", "error"}
    BY <2>1, <2>3 DEF ToolCallType
  <2>5. ansAnswer' = [ansAnswer EXCEPT !.calls = [ansAnswer.calls EXCEPT ![k] = c], !.used = k, !.phase = "run"]
    BY <1>0, <2>1, <2>2, <2>3 DEF AnswerType, ToolCallType
  <2> HIDE DEF c, k
  <2>6. /\ [ansAnswer.calls EXCEPT ![k] = c] \in Seq(ToolCallType)
        /\ Len([ansAnswer.calls EXCEPT ![k] = c]) = Len(ansAnswer.calls)
        /\ \A i \in 1..Len(ansAnswer.calls) :
             [ansAnswer.calls EXCEPT ![k] = c][i] = IF i = k THEN c ELSE ansAnswer.calls[i]
    BY <1>0, <2>2, <2>4
  <2>7. /\ ansAnswer' \in AnswerType /\ ansAnswer'.calls = [ansAnswer.calls EXCEPT ![k] = c]
        /\ ansAnswer'.used = k /\ ansAnswer'.phase = "run"
        /\ ansAnswer'.status = ansAnswer.status /\ ansAnswer'.end = ansAnswer.end
    BY <1>0, <2>2, <2>5, <2>6 DEF AnswerType
  <2>8. k = ansAnswer.used + 1
    BY DEF k
  <2>9. CallsFollow(ansAnswer')
    BY <1>0, <2>2, <2>4, <2>6, <2>7, <2>8 DEF AnswerOK, CallsFollow
  <2> QED BY <1>0, <2>2, <2>6, <2>7, <2>8, <2>9, AnswerBounds DEF AnswerOK
<1> QED BY <1>1, <1>2, <1>3

LEMMA AnswerNext == AnswerInv /\ Answer!Next => AnswerInv'
<1> SUFFICES ASSUME AnswerInv, Answer!Next PROVE AnswerInv'
  OBVIOUS
<1>0. AnswerOK(ansAnswer) /\ ListOK(ansScroll, ansReader)
  BY DEF AnswerInv
<1>1. CASE Answer!UserScrolls \/ Answer!HandleScroll \/ Answer!ScrollTimeout \/ Answer!Frame \/ Answer!ScrollToBottom
  BY <1>1, ScrollSteps
<1>2. CASE Answer!OpenChat
  BY <1>2, AnswerOpens
<1>3. CASE \/ Answer!Ask \/ Answer!Start \/ Answer!TextDelta \/ Answer!Finish
           \/ \E s \in Answer!Ended : Answer!BreakOff(s)
  <2>1. Answer!Grows
    BY <1>3 DEF Answer!Ask, Answer!Start, Answer!TextDelta, Answer!Finish, Answer!BreakOff
  <2> QED BY <1>0, <1>3, <2>1, GrowsOK, AnswerGoesOn DEF AnswerInv
<1>4. CASE Answer!Step \/ Answer!StepEnds
  <2>1. ansScroll' = ansScroll /\ ansReader' = ansReader
    BY <1>4 DEF Answer!Step, Answer!StepEnds
  <2> QED BY <1>0, <1>4, <2>1, AnswerGoesOn DEF AnswerInv
<1>5. CASE \/ Answer!ToolInput \/ Answer!ToolOutput
           \/ \E tool \in Tools, dsml, announced \in BOOLEAN : Answer!ToolInputStart(tool, dsml, announced)
  <2>1. Answer!Grows
    BY <1>5 DEF Answer!ToolInput, Answer!ToolOutput, Answer!ToolInputStart
  <2> QED BY <1>0, <1>5, <2>1, GrowsOK, CallSteps DEF AnswerInv
<1> QED BY <1>1, <1>2, <1>3, <1>4, <1>5 DEF Answer!Next

LEMMA AnswerShown == AnswerInv => Answer!TypeOK /\ Answer!AnswerTells /\ Answer!ReaderKept
<1> SUFFICES ASSUME AnswerInv PROVE Answer!TypeOK /\ Answer!AnswerTells /\ Answer!ReaderKept
  OBVIOUS
<1>0. /\ AnswerOK(ansAnswer) /\ ListOK(ansScroll, ansReader) /\ ansAnswer \in AnswerType /\ ansScroll \in ScrollType
      /\ ansAnswer.calls \in Seq(ToolCallType) /\ CallsFollow(ansAnswer)
  BY DEF AnswerInv, AnswerOK, ListOK, AnswerType
<1>1. Answer!TypeOK
  BY <1>0 DEF AnswerOK, AnswerType, ScrollType, Answer!TypeOK, Answer!Ended
<1>2. ansAnswer.status \in Answer!Ended => ~Answer!Waiting /\ Answer!Cards = Answer!Shown
  BY DEF Answer!Ended, Answer!Waiting, Answer!IsThinking, Answer!Cards
<1>3. Answer!CanCopy => ~Answer!Waiting
  BY <1>2 DEF Answer!CanCopy
<1>4. ASSUME NEW i \in Answer!Shown
      PROVE  LET c == ansAnswer.calls[i] IN
         /\ Answer!IsActive(c) <=> i > ansAnswer.used
         /\ Answer!IsActive(c) <=> Answer!Badge(c) # "completed"
         /\ ansAnswer.end = "finish" /\ Answer!IsActive(c) => i > MaxSteps
         /\ Answer!Told(c) = "failure" => c.out = "error"
         /\ c.out = "error" /\ c.tool \notin {"searchProductsTool", "searchContentTool"} => Answer!Told(c) = "failure"
  <2> DEFINE c == ansAnswer.calls[i]
  <2>1. /\ i \in 1..Len(ansAnswer.calls) /\ c \in ToolCallType
        /\ c.state \in {"input-streaming", "input-available", "output-available"}
    <3>1. i \in 1..Len(ansAnswer.calls) /\ c.state # "none"
      BY <1>0, <1>4 DEF Answer!Shown
    <3>2. c \in ToolCallType
      BY <1>0, <3>1
    <3> QED BY <3>1, <3>2 DEF ToolCallType
  <2>2. i <= ansAnswer.used <=> c.state = "output-available"
    BY <1>0, <2>1 DEF CallsFollow, AnswerOK, AnswerType
  <2>3. c.out # "none" => c.state = "output-available"
    BY <1>0, <2>1 DEF CallsFollow, AnswerOK, AnswerType
  <2>4. Answer!IsActive(c) <=> c.state # "output-available"
    BY <2>1 DEF Answer!IsActive
  <2>5. Answer!Badge(c) = "completed" <=> c.state = "output-available"
    BY <2>1 DEF Answer!Badge
  <2>6. ansAnswer.end = "finish" /\ Answer!IsActive(c) => i > MaxSteps
    BY <1>0, <2>1, <2>2, <2>4, AnswerBounds DEF AnswerOK, AnswerType
  <2>7. Answer!IsActive(c) <=> i > ansAnswer.used
    BY <1>0, <2>1, <2>2, <2>4 DEF AnswerType
  <2>8. c.tool \in {"searchProductsTool", "searchContentTool", "searchKnowledgeBaseTool", "other"}
    BY <2>1, AnswerBounds DEF ToolCallType
  <2>9. Answer!Told(c) = CASE c.tool = "searchProductsTool" -> Answer!ProductsCard(c)
                           [] c.tool = "searchContentTool" -> Answer!ProductsCard(c)
                           [] c.tool = "searchKnowledgeBaseTool" -> Answer!KnowledgeCard(c)
                           [] c.tool = "other" -> Answer!AgentCard(c)
    BY DEF Answer!Told, Answer!ContentCard
  <2>10. Answer!Told(c) = "failure" <=> c.tool \in {"searchKnowledgeBaseTool", "other"} /\ c.state = "output-available" /\ c.out = "error"
    BY <2>8, <2>9 DEF Answer!ProductsCard, Answer!KnowledgeCard, Answer!AgentCard
  <2> QED BY <2>3, <2>4, <2>5, <2>6, <2>7, <2>8, <2>10
<1>5. Answer!AnswerTells
  BY <1>2, <1>3, <1>4 DEF Answer!AnswerTells
<1>6. Answer!ReaderKept
  BY <1>0 DEF ListOK, Answer!ReaderKept, Answer!CanJump
<1> QED BY <1>1, <1>5, <1>6

-----------------------------------------------------------------------------
(* The message box                                                           *)

BoxScreenType == [chat: Chats, mounted: BOOLEAN, busy: BOOLEAN, editing: BOOLEAN, empty: BOOLEAN]
BoxType == [text: 0..Box!Slash, attachments: SUBSET Box!Files, queue: SUBSET Box!Files, items: BOOLEAN]
ImageType == [chat: Chats \cup {0}, pc: {"none", "uploads", "uploaded", "failed"}]
SubmitType == [chat: Chats, text: 0..Box!Slash, attachments: SUBSET Box!Files, busy: BOOLEAN, editing: BOOLEAN,
             left: SUBSET Box!Files]
ScopeType == [of: [Chats -> Scopes \cup {"none"}], inited: Chats \cup {0}, has: BOOLEAN, list: SUBSET Scopes,
              pc: {"none", "asks"}]
SentType == [files: SUBSET Box!Files, texts: SUBSET (0..Box!Slash), wrong: BOOLEAN]
BoxHistType == [carried: SUBSET Box!Files, overlap: BOOLEAN, crossed: BOOLEAN, moved: BOOLEAN, drafts: 0..MaxDrafts,
                inputs: Nat, picked: [Chats -> Scopes \cup {"none"}]]

BoxTypes ==
    /\ boxScreen \in BoxScreenType /\ boxBox \in BoxType /\ boxFiles \in [Box!Files -> ImageType]
    /\ boxForms \in Seq(SubmitType) /\ boxScope \in ScopeType /\ boxSent \in SentType /\ boxHist \in BoxHistType

\* What is attached in a chat, or on its way, belongs to it or was carried into it.
OwnImages(attached, chat, files, carried) ==
    \A f \in attached : files[f].pc = "uploaded" /\ (files[f].chat = chat \/ f \in carried)
ImagesBelong(screen, box, files, forms, carried) ==
    /\ OwnImages(box.attachments, screen.chat, files, carried)
    /\ \A f \in Box!Files : files[f].pc = "uploads" => files[f].chat = screen.chat \/ f \in carried
    /\ \A i \in 1..Len(forms) : OwnImages(forms[i].attachments, forms[i].chat, files, carried)

\* A text is a draft that there has been, or a command.
DraftOK(text, drafts) == text \in (0..drafts) \cup {Box!Slash}

\* As long as nothing was submitted or opened while a form was converted, there is one
\* form at most, of the chat on screen, and neither it nor the box has what was sent.
SentOnce(screen, box, files, forms, sent, hist) ==
    /\ DraftOK(box.text, hist.drafts) /\ \A i \in 1..Len(forms) : DraftOK(forms[i].text, hist.drafts)
    /\ sent.texts \subseteq 1..hist.drafts /\ \A f \in sent.files : files[f].pc = "uploaded"
    /\ ~hist.crossed =>
         /\ Len(forms) <= 1 /\ box.attachments \cap sent.files = {} /\ box.text \notin sent.texts
         /\ \A i \in 1..Len(forms) : /\ forms[i].chat = screen.chat /\ screen.mounted
                                     /\ forms[i].attachments \cap sent.files = {} /\ forms[i].text \notin sent.texts

\* An image that is on its way alone keeps the button disabled.
Queued(queue, files, forms, hist) ==
    ~hist.overlap =>
      /\ \A f, k \in Box!Files : files[f].pc = "uploads" /\ files[k].pc = "uploads" => f = k
      /\ \A f \in Box!Files : files[f].pc = "uploads" => f \in queue \cup hist.carried
      /\ \A i \in 1..Len(forms) : forms[i].busy \/ forms[i].left \subseteq hist.carried

\* The base of the chat on screen is settled once the list is there, or has failed; it is
\* in the list, and the one that was picked, unless it was lost.
ScopeFollows(screen, scope, hist) ==
    /\ screen.mounted /\ (scope.has \/ scope.pc = "none") => scope.inited = screen.chat
    /\ ~scope.has /\ scope.inited # 0 => scope.of[scope.inited] = "none"
    /\ ~hist.moved =>
         /\ scope.has /\ screen.mounted => scope.of[screen.chat] \in scope.list \cup {"none"}
         /\ \A c \in Chats : hist.picked[c] \in {"none", scope.of[c]}

BoxInv ==
    /\ BoxTypes
    /\ ImagesBelong(boxScreen, boxBox, boxFiles, boxForms, boxHist.carried)
    /\ SentOnce(boxScreen, boxBox, boxFiles, boxForms, boxSent, boxHist)
    /\ Queued(boxBox.queue, boxFiles, boxForms, boxHist)
    /\ ScopeFollows(boxScreen, boxScope, boxHist)
    /\ ~boxSent.wrong

LEMMA BoxBounds == /\ MaxDrafts \in Nat /\ MaxFiles \in Nat /\ MaxInputs \in Nat /\ "none" \notin Scopes
                   /\ Box!Slash = MaxDrafts + 1 /\ Box!Slash \in Nat /\ 0 \notin Chats /\ 1 \in Chats
                   /\ 0 \in 0..Box!Slash /\ 0 \in 0..MaxDrafts /\ Box!NoText = 0 /\ Box!NoBase = "none"
BY ChatAssumption DEF Box!Slash, Box!NoText, Box!NoBase

LEMMA FormsTyped == BoxTypes => Len(boxForms) \in Nat /\ \A i \in 1..Len(boxForms) : boxForms[i] \in SubmitType
<1> SUFFICES ASSUME BoxTypes PROVE Len(boxForms) \in Nat /\ \A i \in 1..Len(boxForms) : boxForms[i] \in SubmitType
  OBVIOUS
<1>1. boxForms \in Seq(SubmitType)
  BY DEF BoxTypes
<1> QED BY <1>1

LEMMA BoxInit == Box!Init => BoxInv
<1> SUFFICES ASSUME Box!Init PROVE BoxInv
  OBVIOUS
<1>1. /\ boxScreen = [chat |-> 1, mounted |-> TRUE, busy |-> FALSE, editing |-> FALSE, empty |-> TRUE]
      /\ boxBox = [text |-> 0, attachments |-> {}, queue |-> {}, items |-> FALSE]
      /\ boxFiles = [f \in Box!Files |-> [chat |-> 0, pc |-> "none"]]
      /\ boxForms = <<>>
      /\ boxSent = [files |-> {}, texts |-> {}, wrong |-> FALSE]
      /\ boxHist = [carried |-> {}, overlap |-> FALSE, crossed |-> FALSE, moved |-> FALSE, drafts |-> 0, inputs |-> 0,
                    picked |-> [c \in Chats |-> "none"]]
  BY BoxBounds DEF Box!Init
<1>2. PICK stored \in Scopes \cup {"none"} :
        boxScope = [of |-> [c \in Chats |-> IF c = 1 THEN "none" ELSE stored], inited |-> 0, has |-> FALSE,
                    list |-> {}, pc |-> "asks"]
  BY BoxBounds DEF Box!Init
<1>3. boxForms \in Seq(SubmitType) /\ Len(boxForms) = 0
  BY <1>1
<1>4. boxScope \in ScopeType
  BY <1>2 DEF ScopeType
<1>5. BoxTypes
  BY <1>1, <1>3, <1>4, BoxBounds DEF BoxTypes, BoxScreenType, BoxType, ImageType, SentType, BoxHistType
<1>6. ImagesBelong(boxScreen, boxBox, boxFiles, boxForms, boxHist.carried)
  BY <1>1, <1>3 DEF ImagesBelong, OwnImages
<1>7. SentOnce(boxScreen, boxBox, boxFiles, boxForms, boxSent, boxHist)
  BY <1>1, <1>3, BoxBounds DEF SentOnce, DraftOK
<1>8. Queued(boxBox.queue, boxFiles, boxForms, boxHist)
  BY <1>1, <1>3 DEF Queued
<1>9. ScopeFollows(boxScreen, boxScope, boxHist)
  BY <1>1, <1>2 DEF ScopeFollows
<1> QED BY <1>1, <1>5, <1>6, <1>7, <1>8, <1>9 DEF BoxInv

LEMMA BoxStays == BoxInv /\ UNCHANGED boxVars => BoxInv'
BY DEF BoxInv, BoxTypes, boxVars

\* Whatever the user does is counted, and what it is counted with stays.
LEMMA InputCounts ==
  ASSUME NEW h \in BoxHistType, Box!Input(h)
  PROVE  /\ boxHist' \in BoxHistType
         /\ boxHist'.carried = h.carried /\ boxHist'.overlap = h.overlap /\ boxHist'.crossed = h.crossed
         /\ boxHist'.moved = h.moved /\ boxHist'.drafts = h.drafts /\ boxHist'.picked = h.picked
<1>1. PICK n \in Nat : n = h.inputs + 1
  BY DEF BoxHistType
<1>2. boxHist' = [h EXCEPT !.inputs = n]
  BY <1>1 DEF Box!Input
<1> QED BY <1>2 DEF BoxHistType

\* What the effect makes of the base of a chat.
LEMMA SettledOK ==
  ASSUME NEW s \in ScopeType, NEW chat \in Chats, NEW mounted \in BOOLEAN
  PROVE  LET t == Box!Settled(s, chat, mounted) IN
         /\ t \in ScopeType /\ t.has = s.has /\ t.list = s.list /\ t.pc = s.pc
         /\ \A c \in Chats : c # chat => t.of[c] = s.of[c]
         /\ mounted /\ (s.has \/ s.pc = "none") => t.inited = chat
         /\ t = s \/ (t.inited = chat /\ (~s.has => t.of[chat] = "none"))
<1> DEFINE t == Box!Settled(s, chat, mounted)
           stored == s.of[chat]
           list == IF s.has THEN s.list ELSE {}
           b == Box!Resolved(list, stored)
<1>0. s.of \in [Chats -> Scopes \cup {"none"}] /\ stored \in Scopes \cup {"none"} /\ list \in SUBSET Scopes
  BY DEF ScopeType
<1>1. b \in Scopes \cup {"none"} /\ (~s.has => b = "none")
  <2>1. CASE stored \in list
    BY <1>0, <2>1 DEF Box!Resolved
  <2>2. CASE stored \notin list /\ \E x \in list : list = {x}
    BY <1>0, <2>2 DEF Box!Resolved
  <2>3. CASE stored \notin list /\ ~\E x \in list : list = {x}
    BY <1>0, <2>3, BoxBounds DEF Box!Resolved
  <2> QED BY <2>1, <2>2, <2>3
<1>2. CASE mounted /\ (s.has \/ s.pc = "none") /\ s.inited # chat
  <2>1. t = [s EXCEPT !.inited = chat, !.of[chat] = b]
    BY <1>2 DEF Box!Settled, Box!ListLoaded
  <2>2. t = [s EXCEPT !.inited = chat, !.of = [s.of EXCEPT ![chat] = b]]
    BY <2>1 DEF ScopeType
  <2> HIDE DEF b, t
  <2>3. /\ [s.of EXCEPT ![chat] = b] \in [Chats -> Scopes \cup {"none"}]
        /\ \A c \in Chats : [s.of EXCEPT ![chat] = b][c] = IF c = chat THEN b ELSE s.of[c]
    BY <1>0, <1>1
  <2>4. t \in ScopeType /\ t.inited = chat /\ t.of = [s.of EXCEPT ![chat] = b] /\ t.has = s.has /\ t.list = s.list /\ t.pc = s.pc
    BY <2>2, <2>3 DEF ScopeType
  <2> QED BY <1>1, <2>3, <2>4 DEF t
<1>3. CASE ~(mounted /\ (s.has \/ s.pc = "none") /\ s.inited # chat)
  <2>1. t = s
    BY <1>3 DEF Box!Settled, Box!ListLoaded
  <2> QED BY <1>3, <2>1
<1> QED BY <1>2, <1>3

\* The effect that settles a base records a base that is lost by it.
LEMMA ScopeSettles ==
  ASSUME NEW screen \in BoxScreenType, NEW s \in ScopeType, NEW h \in BoxHistType,
         ScopeFollows(boxScreen, boxScope, boxHist), boxScope \in ScopeType, boxHist \in BoxHistType,
         s.of = boxScope.of, ~s.has /\ s.inited # 0 => s.of[s.inited] = "none",
         h.picked = boxHist.picked,
         h.moved = (boxHist.moved \/ Box!Lost(Box!Settled(s, screen.chat, screen.mounted), screen.chat))
  PROVE  ScopeFollows(screen, Box!Settled(s, screen.chat, screen.mounted), h)
<1> DEFINE t == Box!Settled(s, screen.chat, screen.mounted)
           c == screen.chat
<1>0. c \in Chats /\ screen.mounted \in BOOLEAN
  BY DEF BoxScreenType
<1>1. /\ t \in ScopeType /\ t.has = s.has /\ t.list = s.list /\ t.pc = s.pc
      /\ \A d \in Chats : d # c => t.of[d] = s.of[d]
      /\ screen.mounted /\ (s.has \/ s.pc = "none") => t.inited = c
      /\ t = s \/ (t.inited = c /\ (~s.has => t.of[c] = "none"))
  BY <1>0, SettledOK
<1> HIDE DEF t
<1>2. ~t.has /\ t.inited # 0 => t.of[t.inited] = "none"
  BY <1>1
<1>3. ASSUME ~h.moved
      PROVE  /\ t.has /\ screen.mounted => t.of[c] \in t.list \cup {"none"}
             /\ \A d \in Chats : h.picked[d] \in {"none", t.of[d]}
  <2>1. ~boxHist.moved /\ ~Box!Lost(t, c)
    BY <1>3 DEF t
  <2>2. /\ ~(t.of[c] # boxScope.of[c] /\ boxHist.picked[c] # "none")
        /\ ~(t.has /\ t.of[c] \notin t.list \cup {"none"})
    BY <2>1, BoxBounds DEF Box!Lost
  <2>3. \A d \in Chats : boxHist.picked[d] \in {"none", boxScope.of[d]}
    BY <2>1 DEF ScopeFollows
  <2>4. ASSUME NEW d \in Chats PROVE h.picked[d] \in {"none", t.of[d]}
    <3>1. CASE d = c
      BY <2>2, <2>3, <3>1
    <3>2. CASE d # c
      BY <1>1, <2>3, <3>2
    <3> QED BY <3>1, <3>2
  <2> QED BY <2>2, <2>4
<1> QED BY <1>1, <1>2, <1>3 DEF ScopeFollows, t

\* The selector, the list of bases, and the effect.
LEMMA ScopeSteps ==
  ASSUME BoxInv,
         \/ \E b \in Scopes \cup {Box!NoBase} : Box!ChooseBase(b)
         \/ Box!BasesLoaded \/ Box!BasesFail \/ Box!RefetchBases
  PROVE  BoxInv'
<1>0. /\ boxScreen \in BoxScreenType /\ boxScope \in ScopeType /\ boxHist \in BoxHistType
      /\ boxScreen.chat \in Chats /\ boxScreen.mounted \in BOOLEAN
      /\ ScopeFollows(boxScreen, boxScope, boxHist)
  BY DEF BoxInv, BoxTypes, BoxScreenType
<1>1. UNCHANGED <<boxScreen, boxBox, boxFiles, boxForms, boxSent>>
  BY DEF Box!ChooseBase, Box!BasesLoaded, Box!BasesFail, Box!RefetchBases
<1>2. SUFFICES /\ boxScope' \in ScopeType /\ boxHist' \in BoxHistType
               /\ boxHist'.carried = boxHist.carried /\ boxHist'.overlap = boxHist.overlap
               /\ boxHist'.crossed = boxHist.crossed /\ boxHist'.drafts = boxHist.drafts
               /\ ScopeFollows(boxScreen, boxScope', boxHist')
  BY <1>1 DEF BoxInv, BoxTypes, SentOnce, Queued
<1>3. ASSUME NEW b \in Scopes \cup {Box!NoBase}, Box!ChooseBase(b)
      PROVE  /\ boxScope' \in ScopeType /\ boxHist' \in BoxHistType
             /\ boxHist'.carried = boxHist.carried /\ boxHist'.overlap = boxHist.overlap
             /\ boxHist'.crossed = boxHist.crossed /\ boxHist'.drafts = boxHist.drafts
             /\ ScopeFollows(boxScreen, boxScope', boxHist')
  <2> DEFINE c == boxScreen.chat
             h == [boxHist EXCEPT !.picked = [boxHist.picked EXCEPT ![c] = b]]
  <2>1. b \in Scopes \cup {"none"} /\ b \in Box!List \cup {"none"} /\ boxScreen.mounted /\ (boxScope.has \/ boxScope.pc = "none")
    BY <1>3, BoxBounds DEF Box!ChooseBase, Box!ListLoaded
  <2>2. boxScope' = [boxScope EXCEPT !.of = [boxScope.of EXCEPT ![c] = b]]
    BY <1>0, <1>3 DEF Box!ChooseBase, Box!Stored, ScopeType
  <2>3. /\ [boxScope.of EXCEPT ![c] = b] \in [Chats -> Scopes \cup {"none"}]
        /\ \A d \in Chats : [boxScope.of EXCEPT ![c] = b][d] = IF d = c THEN b ELSE boxScope.of[d]
    BY <1>0, <2>1 DEF ScopeType
  <2>4. /\ boxScope' \in ScopeType /\ boxScope'.of = [boxScope.of EXCEPT ![c] = b] /\ boxScope'.has = boxScope.has
        /\ boxScope'.list = boxScope.list /\ boxScope'.pc = boxScope.pc /\ boxScope'.inited = boxScope.inited
    BY <1>0, <2>2, <2>3 DEF ScopeType
  <2>5. /\ [boxHist.picked EXCEPT ![c] = b] \in [Chats -> Scopes \cup {"none"}]
        /\ \A d \in Chats : [boxHist.picked EXCEPT ![c] = b][d] = IF d = c THEN b ELSE boxHist.picked[d]
    BY <1>0, <2>1 DEF BoxHistType
  <2>6. Box!Input(h)
    BY <1>0, <1>3 DEF Box!ChooseBase, BoxHistType
  <2>7. /\ h \in BoxHistType /\ h.picked = [boxHist.picked EXCEPT ![c] = b] /\ h.carried = boxHist.carried
        /\ h.overlap = boxHist.overlap /\ h.crossed = boxHist.crossed /\ h.moved = boxHist.moved /\ h.drafts = boxHist.drafts
    BY <1>0, <2>5 DEF BoxHistType
  <2> HIDE DEF h
  <2>8. /\ boxHist' \in BoxHistType /\ boxHist'.picked = [boxHist.picked EXCEPT ![c] = b]
        /\ boxHist'.carried = boxHist.carried /\ boxHist'.overlap = boxHist.overlap
        /\ boxHist'.crossed = boxHist.crossed /\ boxHist'.moved = boxHist.moved /\ boxHist'.drafts = boxHist.drafts
    BY <2>6, <2>7, InputCounts
  <2>9. boxScope.has => b \in boxScope.list \cup {"none"}
    BY <2>1 DEF Box!List
  <2>10. ~boxScope.has => b = "none"
    BY <2>1 DEF Box!List
  <2>11. ScopeFollows(boxScreen, boxScope', boxHist')
    <3>1. ~boxScope'.has /\ boxScope'.inited # 0 => boxScope'.of[boxScope'.inited] = "none"
      BY <1>0, <2>3, <2>4, <2>10 DEF ScopeFollows, ScopeType
    <3>2. ~boxHist'.moved => \A d \in Chats : boxHist'.picked[d] \in {"none", boxScope'.of[d]}
      BY <1>0, <2>3, <2>4, <2>5, <2>8 DEF ScopeFollows
    <3> QED BY <1>0, <2>3, <2>4, <2>9, <3>1, <3>2 DEF ScopeFollows
  <2> QED BY <2>4, <2>8, <2>11
<1>4. ASSUME NEW s \in ScopeType, Box!Settles(s, boxScreen.chat, boxScreen.mounted), s.of = boxScope.of,
             ~s.has /\ s.inited # 0 => s.of[s.inited] = "none"
      PROVE  /\ boxScope' \in ScopeType /\ boxHist' \in BoxHistType
             /\ boxHist'.carried = boxHist.carried /\ boxHist'.overlap = boxHist.overlap
             /\ boxHist'.crossed = boxHist.crossed /\ boxHist'.drafts = boxHist.drafts
             /\ ScopeFollows(boxScreen, boxScope', boxHist')
  <2>1. PICK m \in BOOLEAN : m = (boxHist.moved \/ Box!Lost(boxScope', boxScreen.chat))
    OBVIOUS
  <2>2. boxScope' = Box!Settled(s, boxScreen.chat, boxScreen.mounted) /\ boxHist' = [boxHist EXCEPT !.moved = m]
    BY <1>4, <2>1 DEF Box!Settles
  <2>3. boxScope' \in ScopeType
    BY <1>0, <2>2, SettledOK
  <2>4. /\ boxHist' \in BoxHistType /\ boxHist'.moved = m /\ boxHist'.picked = boxHist.picked
        /\ boxHist'.carried = boxHist.carried /\ boxHist'.overlap = boxHist.overlap
        /\ boxHist'.crossed = boxHist.crossed /\ boxHist'.drafts = boxHist.drafts
    BY <1>0, <2>2 DEF BoxHistType
  <2>5. ScopeFollows(boxScreen, boxScope', boxHist')
    <3> DEFINE h == [boxHist EXCEPT !.moved = m]
    <3>1. h \in BoxHistType /\ h.picked = boxHist.picked
      BY <1>0 DEF BoxHistType
    <3>2. h.moved = (boxHist.moved \/ Box!Lost(Box!Settled(s, boxScreen.chat, boxScreen.mounted), boxScreen.chat))
      BY <1>0, <2>1, <2>2, <2>4
    <3> HIDE DEF h
    <3>3. ScopeFollows(boxScreen, Box!Settled(s, boxScreen.chat, boxScreen.mounted), h)
      BY <1>0, <1>4, <3>1, <3>2, ScopeSettles
    <3> QED BY <2>2, <3>3 DEF h
  <2> QED BY <2>3, <2>4, <2>5
<1>5. CASE Box!BasesLoaded
  <2>1. PICK list \in SUBSET Scopes :
          Box!Settles([boxScope EXCEPT !.pc = "none", !.has = TRUE, !.list = list], boxScreen.chat, boxScreen.mounted)
    BY <1>5 DEF Box!BasesLoaded
  <2> DEFINE s == [boxScope EXCEPT !.pc = "none", !.has = TRUE, !.list = list]
  <2>2. s \in ScopeType /\ s.of = boxScope.of /\ s.has
    BY <1>0, <2>1 DEF ScopeType
  <2> HIDE DEF s
  <2>3. Box!Settles(s, boxScreen.chat, boxScreen.mounted)
    BY <2>1 DEF s
  <2> QED BY <1>4, <2>2, <2>3
<1>6. CASE Box!BasesFail
  <2> DEFINE s == [boxScope EXCEPT !.pc = "none"]
  <2>1. s \in ScopeType /\ s.of = boxScope.of /\ s.has = boxScope.has /\ s.inited = boxScope.inited
    BY <1>0 DEF ScopeType
  <2>2. ~s.has /\ s.inited # 0 => s.of[s.inited] = "none"
    BY <1>0, <2>1 DEF ScopeFollows
  <2> HIDE DEF s
  <2>3. Box!Settles(s, boxScreen.chat, boxScreen.mounted)
    BY <1>6 DEF Box!BasesFail, s
  <2> QED BY <1>4, <2>1, <2>2, <2>3
<1>7. CASE Box!RefetchBases
  <2>1. boxScope.pc = "none" /\ boxScope' = [boxScope EXCEPT !.pc = "asks"] /\ Box!Input(boxHist)
    BY <1>7 DEF Box!RefetchBases
  <2>2. /\ boxScope' \in ScopeType /\ boxScope'.has = boxScope.has /\ boxScope'.list = boxScope.list
        /\ boxScope'.of = boxScope.of /\ boxScope'.inited = boxScope.inited
    BY <1>0, <2>1 DEF ScopeType
  <2>3. ScopeFollows(boxScreen, boxScope', boxHist')
    BY <1>0, <2>1, <2>2, InputCounts DEF ScopeFollows
  <2> QED BY <1>0, <2>1, <2>2, <2>3, InputCounts
<1> QED BY <1>3, <1>5, <1>6, <1>7

\* A step that edits the box: nothing is attached, queued or sent by it, and its text is
\* one that was not there before.
LEMMA BoxEdited ==
  ASSUME BoxInv, boxScreen' \in BoxScreenType, boxScreen'.chat = boxScreen.chat, boxScreen'.mounted = boxScreen.mounted,
         boxBox' \in BoxType, boxBox'.attachments \subseteq boxBox.attachments, boxBox'.queue = boxBox.queue,
         boxHist' \in BoxHistType, boxHist'.carried = boxHist.carried, boxHist'.overlap = boxHist.overlap,
         boxHist'.crossed = boxHist.crossed, boxHist'.moved = boxHist.moved, boxHist'.picked = boxHist.picked,
         boxHist.drafts <= boxHist'.drafts,
         boxBox'.text \in {boxBox.text, 0, Box!Slash} \/ (boxBox'.text = boxHist'.drafts /\ boxHist'.drafts = boxHist.drafts + 1),
         UNCHANGED <<boxFiles, boxForms, boxScope, boxSent>>
  PROVE  BoxInv'
<1>0. /\ BoxTypes /\ boxHist.drafts \in Nat /\ boxHist'.drafts \in Nat /\ boxHist'.drafts <= MaxDrafts
      /\ SentOnce(boxScreen, boxBox, boxFiles, boxForms, boxSent, boxHist)
  BY BoxBounds DEF BoxInv, BoxTypes, BoxHistType
<1>1. BoxTypes'
  BY <1>0 DEF BoxTypes
<1>2. ImagesBelong(boxScreen', boxBox', boxFiles', boxForms', boxHist'.carried)
  BY DEF BoxInv, ImagesBelong, OwnImages
<1>3. SentOnce(boxScreen', boxBox', boxFiles', boxForms', boxSent', boxHist')
  <2>1. \A t : DraftOK(t, boxHist.drafts) => DraftOK(t, boxHist'.drafts)
    BY <1>0 DEF DraftOK
  <2>2. DraftOK(boxBox'.text, boxHist'.drafts)
    BY <1>0, <2>1, BoxBounds DEF SentOnce, DraftOK
  <2>3. boxSent.texts \subseteq 1..boxHist'.drafts /\ Box!Slash \notin boxSent.texts /\ 0 \notin boxSent.texts
    BY <1>0, BoxBounds DEF SentOnce
  <2>4. boxHist'.drafts = boxHist.drafts + 1 => boxHist'.drafts \notin boxSent.texts
    BY <1>0 DEF SentOnce
  <2>5. ~boxHist'.crossed => boxBox'.text \notin boxSent.texts
    BY <1>0, <2>3, <2>4 DEF SentOnce
  <2> QED BY <1>0, <2>1, <2>2, <2>3, <2>5 DEF SentOnce
<1>4. Queued(boxBox'.queue, boxFiles', boxForms', boxHist')
  BY DEF BoxInv, Queued
<1>5. ScopeFollows(boxScreen', boxScope', boxHist')
  BY DEF BoxInv, ScopeFollows
<1> QED BY <1>1, <1>2, <1>3, <1>4, <1>5 DEF BoxInv

LEMMA BoxEdits ==
  ASSUME BoxInv,
         \/ Box!OnDrop \/ Box!RemoveItem \/ Box!TypeSlash \/ Box!HandleCancelEdit \/ Box!AnswerEnds
         \/ \E id \in Box!Models : Box!ChooseModel(id)
         \/ \E n \in Box!Drafts : Box!HandleInput(n) \/ Box!HandleEditMessage(n)
         \/ \E f \in Box!Files : Box!HandleRemove(f)
  PROVE  BoxInv'
<1>0. /\ boxScreen \in BoxScreenType /\ boxBox \in BoxType /\ boxHist \in BoxHistType /\ boxHist.drafts \in Nat
      /\ boxHist.drafts <= MaxDrafts
  BY BoxBounds DEF BoxInv, BoxTypes, BoxHistType
<1>1. CASE Box!OnDrop \/ Box!RemoveItem
  <2>1. PICK more \in BOOLEAN : boxBox' = [boxBox EXCEPT !.items = more]
    BY <1>1 DEF Box!OnDrop, Box!RemoveItem
  <2>2. Box!Input(boxHist) /\ UNCHANGED <<boxScreen, boxFiles, boxForms, boxScope, boxSent>>
    BY <1>1 DEF Box!OnDrop, Box!RemoveItem
  <2>3. boxBox' \in BoxType /\ boxBox'.attachments = boxBox.attachments /\ boxBox'.queue = boxBox.queue /\ boxBox'.text = boxBox.text
    BY <1>0, <2>1 DEF BoxType
  <2> QED BY <1>0, <2>2, <2>3, InputCounts, BoxEdited
<1>2. CASE Box!TypeSlash
  <2>1. PICK n \in 0..MaxDrafts : n = boxHist.drafts + 1
    BY <1>0, <1>2, BoxBounds DEF Box!TypeSlash
  <2> DEFINE h == [boxHist EXCEPT !.drafts = n]
  <2>2. h \in BoxHistType /\ h.carried = boxHist.carried /\ h.overlap = boxHist.overlap /\ h.crossed = boxHist.crossed
        /\ h.moved = boxHist.moved /\ h.drafts = n /\ h.picked = boxHist.picked
    BY <1>0 DEF BoxHistType
  <2>3. /\ Box!Input(h) /\ boxBox' = [boxBox EXCEPT !.text = Box!Slash]
        /\ UNCHANGED <<boxScreen, boxFiles, boxForms, boxScope, boxSent>>
    BY <1>0, <1>2, <2>1 DEF Box!TypeSlash, BoxHistType
  <2> HIDE DEF h
  <2>4. boxBox' \in BoxType /\ boxBox'.attachments = boxBox.attachments /\ boxBox'.queue = boxBox.queue /\ boxBox'.text = Box!Slash
    BY <1>0, <2>3, BoxBounds DEF BoxType
  <2>5. boxHist.drafts <= n
    BY <1>0, <2>1
  <2> QED BY <1>0, <2>2, <2>3, <2>4, <2>5, InputCounts, BoxEdited
<1>3. CASE Box!HandleCancelEdit
  <2>1. /\ Box!Input(boxHist) /\ boxBox' = [boxBox EXCEPT !.text = 0] /\ boxScreen' = [boxScreen EXCEPT !.editing = FALSE]
        /\ UNCHANGED <<boxFiles, boxForms, boxScope, boxSent>>
    BY <1>3, BoxBounds DEF Box!HandleCancelEdit
  <2>2. boxBox' \in BoxType /\ boxBox'.attachments = boxBox.attachments /\ boxBox'.queue = boxBox.queue /\ boxBox'.text = 0
    BY <1>0, <2>1, BoxBounds DEF BoxType
  <2>3. boxScreen' \in BoxScreenType /\ boxScreen'.chat = boxScreen.chat /\ boxScreen'.mounted = boxScreen.mounted
    BY <1>0, <2>1 DEF BoxScreenType
  <2> QED BY <1>0, <2>1, <2>2, <2>3, InputCounts, BoxEdited
<1>4. CASE Box!AnswerEnds
  <2>1. /\ boxScreen' = [boxScreen EXCEPT !.busy = FALSE]
        /\ UNCHANGED <<boxBox, boxFiles, boxForms, boxScope, boxSent, boxHist>>
    BY <1>4 DEF Box!AnswerEnds
  <2>2. boxScreen' \in BoxScreenType /\ boxScreen'.chat = boxScreen.chat /\ boxScreen'.mounted = boxScreen.mounted
    BY <1>0, <2>1 DEF BoxScreenType
  <2> QED BY <1>0, <2>1, <2>2, BoxEdited
<1>5. ASSUME NEW id \in Box!Models, Box!ChooseModel(id) PROVE BoxInv'
  <2>1. Box!Input(boxHist) /\ UNCHANGED <<boxScreen, boxBox, boxFiles, boxForms, boxScope, boxSent>>
    BY <1>5 DEF Box!ChooseModel
  <2> QED BY <1>0, <2>1, InputCounts, BoxEdited
<1>6. ASSUME NEW n \in Box!Drafts, Box!HandleInput(n) \/ Box!HandleEditMessage(n) PROVE BoxInv'
  <2>1. n \in 0..MaxDrafts /\ n \in 0..Box!Slash /\ n = boxHist.drafts + 1
    BY <1>0, <1>6, BoxBounds DEF Box!HandleInput, Box!HandleEditMessage, Box!Drafts
  <2> DEFINE h == [boxHist EXCEPT !.drafts = n]
  <2>2. h \in BoxHistType /\ h.carried = boxHist.carried /\ h.overlap = boxHist.overlap /\ h.crossed = boxHist.crossed
        /\ h.moved = boxHist.moved /\ h.drafts = n /\ h.picked = boxHist.picked
    BY <1>0, <2>1 DEF BoxHistType
  <2>3. /\ Box!Input(h) /\ boxBox' = [boxBox EXCEPT !.text = n]
        /\ boxScreen' = boxScreen \/ boxScreen' = [boxScreen EXCEPT !.editing = TRUE]
        /\ UNCHANGED <<boxFiles, boxForms, boxScope, boxSent>>
    BY <1>6 DEF Box!HandleInput, Box!HandleEditMessage
  <2> HIDE DEF h
  <2>4. boxBox' \in BoxType /\ boxBox'.attachments = boxBox.attachments /\ boxBox'.queue = boxBox.queue /\ boxBox'.text = n
    BY <1>0, <2>1, <2>3 DEF BoxType
  <2>5. boxScreen' \in BoxScreenType /\ boxScreen'.chat = boxScreen.chat /\ boxScreen'.mounted = boxScreen.mounted
    BY <1>0, <2>3 DEF BoxScreenType
  <2>6. boxHist.drafts <= n
    BY <1>0, <2>1
  <2> QED BY <1>0, <2>1, <2>2, <2>3, <2>4, <2>5, <2>6, InputCounts, BoxEdited
<1>7. ASSUME NEW f \in Box!Files, Box!HandleRemove(f) PROVE BoxInv'
  <2>1. /\ Box!Input(boxHist) /\ boxBox' = [boxBox EXCEPT !.attachments = boxBox.attachments \ {f}]
        /\ UNCHANGED <<boxScreen, boxFiles, boxForms, boxScope, boxSent>>
    BY <1>7 DEF Box!HandleRemove
  <2>2. /\ boxBox' \in BoxType /\ boxBox'.attachments \subseteq boxBox.attachments
        /\ boxBox'.queue = boxBox.queue /\ boxBox'.text = boxBox.text
    BY <1>0, <2>1 DEF BoxType
  <2> QED BY <1>0, <2>1, <2>2, InputCounts, BoxEdited
<1> QED BY <1>1, <1>2, <1>3, <1>4, <1>5, <1>6, <1>7

\* An image is pasted, and its upload ends.
LEMMA BoxPastes ==
  ASSUME BoxInv, NEW f \in Box!Files, Box!HandlePaste(f)
  PROVE  BoxInv'
<1>0. /\ BoxTypes /\ boxScreen \in BoxScreenType /\ boxBox \in BoxType /\ boxHist \in BoxHistType
      /\ boxFiles \in [Box!Files -> ImageType] /\ boxScreen.chat \in Chats
  BY DEF BoxInv, BoxTypes, BoxScreenType
<1>1. PICK o \in BOOLEAN : o = (boxHist.overlap \/ \E k \in Box!Files : boxFiles[k].pc = "uploads")
  OBVIOUS
<1> DEFINE h == [boxHist EXCEPT !.overlap = o]
           x == [chat |-> boxScreen.chat, pc |-> "uploads"]
<1>2. h \in BoxHistType /\ h.carried = boxHist.carried /\ h.overlap = o /\ h.crossed = boxHist.crossed
      /\ h.moved = boxHist.moved /\ h.drafts = boxHist.drafts /\ h.picked = boxHist.picked
  BY <1>0 DEF BoxHistType
<1>3. /\ Box!Input(h) /\ boxFiles[f].pc = "none" /\ boxFiles' = [boxFiles EXCEPT ![f] = x]
      /\ boxBox' = [boxBox EXCEPT !.queue = boxBox.queue \cup {f}, !.items = TRUE]
      /\ UNCHANGED <<boxScreen, boxForms, boxScope, boxSent>>
  BY <1>1 DEF Box!HandlePaste, Box!FreshFile
<1> HIDE DEF h
<1>4. x \in ImageType /\ x.chat = boxScreen.chat /\ x.pc = "uploads"
  BY <1>0 DEF ImageType
<1>5. boxFiles' \in [Box!Files -> ImageType] /\ \A k \in Box!Files : boxFiles'[k] = IF k = f THEN x ELSE boxFiles[k]
  BY <1>0, <1>3, <1>4
<1> HIDE DEF x
<1>6. /\ boxBox' \in BoxType /\ boxBox'.queue = boxBox.queue \cup {f}
      /\ boxBox'.attachments = boxBox.attachments /\ boxBox'.text = boxBox.text
  BY <1>0, <1>3 DEF BoxType
<1>7. /\ boxHist' \in BoxHistType /\ boxHist'.carried = boxHist.carried /\ boxHist'.overlap = o
      /\ boxHist'.crossed = boxHist.crossed /\ boxHist'.moved = boxHist.moved /\ boxHist'.drafts = boxHist.drafts
      /\ boxHist'.picked = boxHist.picked
  BY <1>2, <1>3, InputCounts
<1>8. BoxTypes'
  BY <1>0, <1>3, <1>5, <1>6, <1>7 DEF BoxTypes
<1>9. ImagesBelong(boxScreen', boxBox', boxFiles', boxForms', boxHist'.carried)
  <2>1. \A S \in SUBSET Box!Files, c \in Chats : OwnImages(S, c, boxFiles, boxHist.carried) => OwnImages(S, c, boxFiles', boxHist.carried)
    BY <1>3, <1>5 DEF OwnImages
  <2>2. /\ boxBox.attachments \in SUBSET Box!Files /\ boxScreen.chat \in Chats
        /\ \A i \in 1..Len(boxForms) : boxForms[i].attachments \in SUBSET Box!Files /\ boxForms[i].chat \in Chats
    BY <1>0, FormsTyped DEF BoxTypes, BoxType, BoxScreenType, SubmitType
  <2> QED BY <1>3, <1>4, <1>5, <1>6, <1>7, <2>1, <2>2 DEF BoxInv, ImagesBelong
<1>10. SentOnce(boxScreen', boxBox', boxFiles', boxForms', boxSent', boxHist')
  <2>1. \A g \in boxSent.files : g \in Box!Files
    BY <1>0 DEF BoxTypes, SentType
  <2> QED BY <1>3, <1>5, <1>6, <1>7, <2>1 DEF BoxInv, SentOnce
<1>11. Queued(boxBox'.queue, boxFiles', boxForms', boxHist')
  BY <1>1, <1>3, <1>4, <1>5, <1>6, <1>7 DEF BoxInv, Queued
<1>12. ScopeFollows(boxScreen', boxScope', boxHist')
  BY <1>3, <1>7 DEF BoxInv, ScopeFollows
<1> QED BY <1>3, <1>8, <1>9, <1>10, <1>11, <1>12 DEF BoxInv

LEMMA BoxUploads ==
  ASSUME BoxInv, NEW f \in Box!Files, Box!UploadFile(f)
  PROVE  BoxInv'
<1>0. /\ BoxTypes /\ boxBox \in BoxType /\ boxFiles \in [Box!Files -> ImageType]
  BY DEF BoxInv, BoxTypes
<1>1. PICK pc \in {"uploaded", "failed"} :
        /\ boxFiles' = [boxFiles EXCEPT ![f].pc = pc]
        /\ boxBox' = IF pc = "uploaded" THEN [boxBox EXCEPT !.attachments = boxBox.attachments \cup {f}, !.queue = {}]
                                        ELSE [boxBox EXCEPT !.queue = {}]
  BY DEF Box!UploadFile, Box!Unqueued
<1>2. boxFiles[f].pc = "uploads" /\ UNCHANGED <<boxScreen, boxForms, boxScope, boxSent, boxHist>>
  BY DEF Box!UploadFile
<1> DEFINE x == [boxFiles[f] EXCEPT !.pc = pc]
<1>3. x \in ImageType /\ x.chat = boxFiles[f].chat /\ x.pc = pc
  BY <1>0, <1>1 DEF ImageType
<1>4. boxFiles' \in [Box!Files -> ImageType] /\ \A k \in Box!Files : boxFiles'[k] = IF k = f THEN x ELSE boxFiles[k]
  BY <1>0, <1>1, <1>3
<1> HIDE DEF x
<1>5. /\ boxBox' \in BoxType /\ boxBox'.queue = {} /\ boxBox'.text = boxBox.text
      /\ boxBox'.attachments = IF pc = "uploaded" THEN boxBox.attachments \cup {f} ELSE boxBox.attachments
  BY <1>0, <1>1 DEF BoxType
<1>6. BoxTypes'
  BY <1>0, <1>2, <1>4, <1>5 DEF BoxTypes
<1>7. ImagesBelong(boxScreen', boxBox', boxFiles', boxForms', boxHist'.carried)
  <2>1. \A S \in SUBSET Box!Files, c \in Chats : OwnImages(S, c, boxFiles, boxHist.carried) => OwnImages(S, c, boxFiles', boxHist.carried)
    BY <1>2, <1>4 DEF OwnImages
  <2>2. /\ boxBox.attachments \in SUBSET Box!Files /\ boxScreen.chat \in Chats
        /\ \A i \in 1..Len(boxForms) : boxForms[i].attachments \in SUBSET Box!Files /\ boxForms[i].chat \in Chats
    BY <1>0, FormsTyped DEF BoxTypes, BoxType, BoxScreenType, SubmitType
  <2>3. OwnImages(boxBox'.attachments, boxScreen.chat, boxFiles', boxHist.carried)
    <3>1. boxFiles[f].chat = boxScreen.chat \/ f \in boxHist.carried
      BY <1>2 DEF BoxInv, ImagesBelong
    <3>2. OwnImages(boxBox.attachments, boxScreen.chat, boxFiles', boxHist.carried)
      BY <2>1, <2>2 DEF BoxInv, ImagesBelong
    <3> QED BY <1>3, <1>4, <1>5, <3>1, <3>2 DEF OwnImages
  <2> QED BY <1>1, <1>2, <1>3, <1>4, <2>1, <2>2, <2>3 DEF BoxInv, ImagesBelong
<1>8. SentOnce(boxScreen', boxBox', boxFiles', boxForms', boxSent', boxHist')
  <2>1. \A g \in boxSent.files : g \in Box!Files
    BY <1>0 DEF BoxTypes, SentType
  <2> QED BY <1>2, <1>4, <1>5, <2>1 DEF BoxInv, SentOnce
<1>9. Queued(boxBox'.queue, boxFiles', boxForms', boxHist')
  BY <1>1, <1>2, <1>3, <1>4, <1>5 DEF BoxInv, Queued
<1>10. ScopeFollows(boxScreen', boxScope', boxHist')
  BY <1>2 DEF BoxInv, ScopeFollows
<1> QED BY <1>2, <1>6, <1>7, <1>8, <1>9, <1>10 DEF BoxInv

\* A message that is composed of a form of this chat is right.
LEMMA MessageRight ==
  ASSUME BoxInv, NEW form \in SubmitType, NEW at \in SUBSET Box!Files,
         OwnImages(at, form.chat, boxFiles, boxHist.carried),
         ~boxHist.crossed => /\ form.chat = boxScreen.chat /\ boxScreen.mounted
                             /\ at \cap boxSent.files = {} /\ form.text \notin boxSent.texts,
         ~boxHist.overlap => form.left \subseteq boxHist.carried
  PROVE  Box!Sent(Box!Message(form, at)) =
           [files |-> boxSent.files \cup at, texts |-> boxSent.texts \cup ({form.text} \ {0}), wrong |-> FALSE]
<1> DEFINE m == Box!Message(form, at)
<1>1. /\ m.chat = form.chat /\ m.text = form.text /\ m.files = at /\ m.left = form.left
      /\ m.scope = boxScope.of[boxScreen.chat]
  BY DEF Box!Message
<1> HIDE DEF m
<1>2. ~Box!Strays(m)
  BY <1>1 DEF Box!Strays, OwnImages
<1>3. ~Box!Repeats(m)
  BY <1>1 DEF Box!Repeats
<1>4. ~Box!Leaves(m)
  BY <1>1 DEF Box!Leaves
<1>5. ~Box!Widens(m)
  <2> SUFFICES ASSUME ~boxHist.moved, ~boxHist.crossed, boxScope.has \/ boxScope.pc = "none"
               PROVE  m.scope = Box!ScopeShown /\ boxHist.picked[m.chat] \in {Box!NoBase, m.scope}
    BY DEF Box!Widens, Box!ListLoaded
  <2>1. boxScreen.mounted /\ form.chat = boxScreen.chat /\ boxScreen.chat \in Chats
    BY DEF BoxInv, BoxTypes, BoxScreenType
  <2>2. /\ boxScope.inited = boxScreen.chat /\ boxScreen.chat # 0
        /\ ~boxScope.has => boxScope.of[boxScreen.chat] = "none"
        /\ boxScope.has => boxScope.of[boxScreen.chat] \in boxScope.list \cup {"none"}
        /\ boxHist.picked[boxScreen.chat] \in {"none", boxScope.of[boxScreen.chat]}
    BY <2>1, BoxBounds DEF BoxInv, ScopeFollows
  <2> QED BY <1>1, <2>1, <2>2, BoxBounds DEF Box!ScopeShown, Box!List
<1>6. ~boxSent.wrong
  BY DEF BoxInv
<1> QED BY <1>1, <1>2, <1>3, <1>4, <1>5, <1>6, BoxBounds DEF Box!Sent, m

\* A submitted form is sent, and the box emptied; or it is dropped, and nothing sent.
LEMMA FormSubmitted ==
  ASSUME BoxInv, NEW form \in SubmitType, Box!Submitted(form), DraftOK(form.text, boxHist.drafts),
         OwnImages(form.attachments, form.chat, boxFiles, boxHist.carried),
         ~boxHist.crossed => /\ form.chat = boxScreen.chat /\ boxScreen.mounted
                             /\ form.attachments \cap boxSent.files = {} /\ form.text \notin boxSent.texts,
         ~boxHist.overlap => form.busy \/ form.left \subseteq boxHist.carried
  PROVE  /\ boxScreen' \in BoxScreenType /\ boxScreen'.chat = boxScreen.chat /\ boxScreen'.mounted = boxScreen.mounted
         /\ boxBox' \in BoxType /\ boxBox'.queue = boxBox.queue
         /\ boxSent' \in SentType /\ ~boxSent'.wrong
         /\ \/ boxBox'.attachments = {} /\ boxBox'.text = 0
            \/ boxSent' = boxSent /\ boxBox'.attachments = boxBox.attachments /\ boxBox'.text \in {boxBox.text, 0}
         /\ boxSent'.files \subseteq boxSent.files \cup form.attachments
         /\ boxSent'.texts \subseteq boxSent.texts \cup ({form.text} \cap (1..boxHist.drafts))
<1>0. /\ boxScreen \in BoxScreenType /\ boxBox \in BoxType /\ boxSent \in SentType /\ ~boxSent.wrong
      /\ boxHist.drafts \in Nat /\ boxHist.drafts <= MaxDrafts /\ form.text \in 0..Box!Slash
      /\ form.attachments \in SUBSET Box!Files
  BY BoxBounds DEF BoxInv, BoxTypes, BoxHistType, SubmitType
<1> DEFINE clean == [boxBox EXCEPT !.items = FALSE]
<1>1. /\ clean \in BoxType /\ clean.attachments = boxBox.attachments /\ clean.queue = boxBox.queue
      /\ clean.text = boxBox.text
  BY <1>0 DEF BoxType
<1>2. CASE form.text = Box!Slash
  <2>1. boxBox' \in {clean, [clean EXCEPT !.text = 0]} /\ UNCHANGED <<boxScreen, boxSent>>
    BY <1>2, BoxBounds DEF Box!Submitted
  <2> HIDE DEF clean
  <2>2. /\ boxBox' \in BoxType /\ boxBox'.queue = boxBox.queue /\ boxBox'.attachments = boxBox.attachments
        /\ boxBox'.text \in {boxBox.text, 0}
    <3>1. CASE boxBox' = clean
      BY <1>1, <3>1
    <3>2. CASE boxBox' = [clean EXCEPT !.text = 0]
      BY <1>1, <3>2, BoxBounds DEF BoxType
    <3> QED BY <2>1, <3>1, <3>2
  <2> QED BY <1>0, <2>1, <2>2
<1>3. CASE form.text # Box!Slash /\ form.busy
  <2>1. boxBox' = clean /\ UNCHANGED <<boxScreen, boxSent>>
    BY <1>3 DEF Box!Submitted
  <2> HIDE DEF clean
  <2> QED BY <1>0, <1>1, <2>1
<1>4. CASE form.text # Box!Slash /\ ~form.busy
  <2> DEFINE at == IF form.editing THEN {} ELSE form.attachments
  <2>1. /\ boxBox' = Box!Emptied(clean) /\ boxSent' = Box!Sent(Box!Message(form, at))
        /\ \/ boxScreen' = boxScreen
           \/ boxScreen' = [boxScreen EXCEPT !.busy = TRUE, !.editing = FALSE, !.empty = FALSE]
    BY <1>4 DEF Box!Submitted
  <2>2. /\ at \in SUBSET form.attachments /\ at \in SUBSET Box!Files
        /\ OwnImages(at, form.chat, boxFiles, boxHist.carried)
    BY <1>0 DEF OwnImages
  <2> HIDE DEF at, clean
  <2>3. boxSent' = [files |-> boxSent.files \cup at, texts |-> boxSent.texts \cup ({form.text} \ {0}), wrong |-> FALSE]
    BY <1>4, <2>1, <2>2, MessageRight
  <2>4. boxSent' \in SentType /\ boxSent'.files = boxSent.files \cup at /\ boxSent'.texts = boxSent.texts \cup ({form.text} \ {0})
    BY <1>0, <2>2, <2>3 DEF SentType
  <2>5. {form.text} \ {0} \subseteq {form.text} \cap (1..boxHist.drafts)
    BY <1>0, <1>4 DEF DraftOK
  <2>6. boxScreen' \in BoxScreenType /\ boxScreen'.chat = boxScreen.chat /\ boxScreen'.mounted = boxScreen.mounted
    BY <1>0, <2>1 DEF BoxScreenType
  <2>7. boxBox' = [clean EXCEPT !.text = 0, !.attachments = {}]
    BY <2>1, BoxBounds DEF Box!Emptied
  <2>8. boxBox' \in BoxType /\ boxBox'.queue = boxBox.queue /\ boxBox'.attachments = {} /\ boxBox'.text = 0
    BY <1>1, <2>7, BoxBounds DEF BoxType
  <2> QED BY <2>2, <2>3, <2>4, <2>5, <2>6, <2>8
<1> QED BY <1>2, <1>3, <1>4

\* A sequence without one of its elements.
LEMMA RemovedAt ==
  ASSUME NEW s \in Seq(SubmitType), NEW i \in 1..Len(s)
  PROVE  /\ Box!RemoveAt(s, i) \in Seq(SubmitType) /\ Len(Box!RemoveAt(s, i)) = Len(s) - 1
         /\ \A j \in 1..(Len(s) - 1) : \E k \in 1..Len(s) : Box!RemoveAt(s, i)[j] = s[k]
<1> DEFINE a == SubSeq(s, 1, i - 1)
           b == SubSeq(s, i + 1, Len(s))
<1>1. i \in Nat /\ Len(s) \in Nat /\ 1 <= i /\ i <= Len(s)
  OBVIOUS
<1>2. a \in Seq(SubmitType) /\ Len(a) = i - 1 /\ \A j \in 1..(i - 1) : a[j] = s[j]
  BY <1>1
<1>3. b \in Seq(SubmitType) /\ Len(b) = Len(s) - i /\ \A j \in 1..(Len(s) - i) : b[j] = s[i + j]
  BY <1>1
<1> HIDE DEF a, b
<1>4. a \o b \in Seq(SubmitType) /\ Len(a \o b) = Len(s) - 1
  <2>1. a \in Seq(SubmitType) /\ b \in Seq(SubmitType)
    BY <1>2, <1>3
  <2>2. a \o b \in Seq(SubmitType) /\ Len(a \o b) = Len(a) + Len(b)
    BY <2>1
  <2> QED BY <1>1, <1>2, <1>3, <2>2
<1>5. ASSUME NEW j \in 1..(Len(s) - 1) PROVE \E k \in 1..Len(s) : (a \o b)[j] = s[k]
  <2>1. CASE j <= i - 1
    BY <1>1, <1>2, <1>3, <2>1
  <2>2. CASE ~(j <= i - 1)
    <3>1. (a \o b)[j] = b[j - (i - 1)] /\ j - (i - 1) \in 1..(Len(s) - i)
      BY <1>1, <1>2, <1>3, <2>2, SMTT(20)
    <3>2. (a \o b)[j] = s[i + (j - (i - 1))] /\ i + (j - (i - 1)) \in 1..Len(s)
      BY <1>1, <1>3, <3>1
    <3> QED BY <3>2
  <2> QED BY <2>1, <2>2
<1> QED BY <1>4, <1>5 DEF Box!RemoveAt, a, b

\* The box after a form has been submitted that was not kept.
LEMMA BoxSubmitted ==
  ASSUME BoxInv, NEW form \in SubmitType, Box!Submitted(form), DraftOK(form.text, boxHist.drafts),
         OwnImages(form.attachments, form.chat, boxFiles, boxHist.carried),
         ~boxHist.crossed => /\ form.chat = boxScreen.chat /\ boxScreen.mounted
                             /\ form.attachments \cap boxSent.files = {} /\ form.text \notin boxSent.texts,
         ~boxHist.overlap => form.busy \/ form.left \subseteq boxHist.carried,
         boxForms' \in Seq(SubmitType), \A j \in 1..Len(boxForms') : \E k \in 1..Len(boxForms) : boxForms'[j] = boxForms[k],
         boxHist' \in BoxHistType, boxHist'.carried = boxHist.carried, boxHist'.overlap = boxHist.overlap,
         boxHist'.moved = boxHist.moved, boxHist'.drafts = boxHist.drafts, boxHist'.picked = boxHist.picked,
         ~boxHist'.crossed => ~boxHist.crossed /\ Len(boxForms') = 0,
         UNCHANGED <<boxFiles, boxScope>>
  PROVE  BoxInv'
<1>0. BoxTypes /\ boxHist.drafts \in Nat /\ boxHist.drafts <= MaxDrafts
  BY BoxBounds DEF BoxInv, BoxTypes, BoxHistType
<1>1. /\ boxScreen' \in BoxScreenType /\ boxScreen'.chat = boxScreen.chat /\ boxScreen'.mounted = boxScreen.mounted
      /\ boxBox' \in BoxType /\ boxBox'.queue = boxBox.queue
      /\ boxSent' \in SentType /\ ~boxSent'.wrong
      /\ \/ boxBox'.attachments = {} /\ boxBox'.text = 0
         \/ boxSent' = boxSent /\ boxBox'.attachments = boxBox.attachments /\ boxBox'.text \in {boxBox.text, 0}
      /\ boxSent'.files \subseteq boxSent.files \cup form.attachments
      /\ boxSent'.texts \subseteq boxSent.texts \cup ({form.text} \cap (1..boxHist.drafts))
  BY FormSubmitted
<1>2. BoxTypes'
  BY <1>0, <1>1 DEF BoxTypes
<1>3. ImagesBelong(boxScreen', boxBox', boxFiles', boxForms', boxHist'.carried)
  <2>1. ImagesBelong(boxScreen, boxBox, boxFiles, boxForms, boxHist.carried)
    BY DEF BoxInv
  <2>2. OwnImages(boxBox'.attachments, boxScreen'.chat, boxFiles', boxHist'.carried)
    BY <1>1, <2>1 DEF ImagesBelong, OwnImages
  <2>3. \A j \in 1..Len(boxForms') : OwnImages(boxForms'[j].attachments, boxForms'[j].chat, boxFiles', boxHist'.carried)
    BY <2>1 DEF ImagesBelong
  <2> QED BY <1>1, <2>1, <2>2, <2>3 DEF ImagesBelong
<1>4. SentOnce(boxScreen', boxBox', boxFiles', boxForms', boxSent', boxHist')
  <2>1. SentOnce(boxScreen, boxBox, boxFiles, boxForms, boxSent, boxHist)
    BY DEF BoxInv
  <2>2. DraftOK(boxBox'.text, boxHist'.drafts)
    BY <1>0, <1>1, <2>1 DEF SentOnce, DraftOK
  <2>3. \A j \in 1..Len(boxForms') : DraftOK(boxForms'[j].text, boxHist'.drafts)
    BY <2>1 DEF SentOnce
  <2>4. boxSent'.texts \subseteq 1..boxHist'.drafts
    BY <1>1, <2>1 DEF SentOnce
  <2>5. \A f \in boxSent'.files : boxFiles'[f].pc = "uploaded"
    BY <1>1, <2>1 DEF SentOnce, OwnImages
  <2>6. ~boxHist'.crossed => boxBox'.attachments \cap boxSent'.files = {} /\ boxBox'.text \notin boxSent'.texts
    BY <1>0, <1>1, <2>1, <2>4 DEF SentOnce
  <2> QED BY <2>2, <2>3, <2>4, <2>5, <2>6 DEF SentOnce
<1>5. Queued(boxBox'.queue, boxFiles', boxForms', boxHist')
  BY <1>1 DEF BoxInv, Queued
<1>6. ScopeFollows(boxScreen', boxScope', boxHist')
  BY <1>1 DEF BoxInv, ScopeFollows
<1> QED BY <1>1, <1>2, <1>3, <1>4, <1>5, <1>6 DEF BoxInv

\* What is in the box belongs to the chat on screen, and no image stays behind when the
\* button is enabled.
LEMMA FormRight ==
  ASSUME BoxInv
  PROVE  /\ Box!Form \in SubmitType /\ DraftOK(Box!Form.text, boxHist.drafts)
         /\ Box!Form.chat = boxScreen.chat
         /\ OwnImages(Box!Form.attachments, Box!Form.chat, boxFiles, boxHist.carried)
         /\ ~boxHist.crossed => Box!Form.attachments \cap boxSent.files = {} /\ Box!Form.text \notin boxSent.texts
         /\ ~boxHist.overlap /\ (Box!Form.busy \/ boxBox.queue = {})
              => Box!Form.busy \/ Box!Form.left \subseteq boxHist.carried
         /\ ~boxHist.overlap /\ boxBox.queue = {} => Box!Form.left \subseteq boxHist.carried
<1>0. boxScreen \in BoxScreenType /\ boxBox \in BoxType
  BY DEF BoxInv, BoxTypes
<1>1. Box!Uploading(boxScreen.chat) \in SUBSET Box!Files
  BY DEF Box!Uploading
<1>2. /\ Box!Form \in SubmitType
      /\ Box!Form.chat = boxScreen.chat /\ Box!Form.text = boxBox.text /\ Box!Form.attachments = boxBox.attachments
      /\ Box!Form.busy = boxScreen.busy /\ Box!Form.left = Box!Uploading(boxScreen.chat)
  BY <1>0, <1>1 DEF Box!Form, SubmitType, BoxScreenType, BoxType
<1>3. ~boxHist.overlap /\ boxBox.queue = {} => Box!Uploading(boxScreen.chat) \subseteq boxHist.carried
  BY DEF BoxInv, Queued, Box!Uploading
<1> QED BY <1>2, <1>3 DEF BoxInv, ImagesBelong, SentOnce

LEMMA BoxSubmits == ASSUME BoxInv, Box!HandleSubmit PROVE BoxInv'
<1>0. /\ BoxTypes /\ boxHist \in BoxHistType /\ boxForms \in Seq(SubmitType) /\ Len(boxForms) \in Nat
      /\ boxScreen.busy \in BOOLEAN
  BY FormsTyped DEF BoxInv, BoxTypes, BoxScreenType
<1>1. boxScreen.mounted /\ (Box!Form.busy \/ boxBox.queue = {}) /\ UNCHANGED <<boxFiles, boxScope>>
  BY DEF Box!HandleSubmit, Box!CanSubmit, Box!Disabled, Box!Form
<1>2. PICK o \in BOOLEAN : o = (boxHist.crossed \/ boxForms # <<>>)
  OBVIOUS
<1> DEFINE h == [boxHist EXCEPT !.crossed = o]
<1>3. h \in BoxHistType /\ h.carried = boxHist.carried /\ h.overlap = boxHist.overlap /\ h.crossed = o
      /\ h.moved = boxHist.moved /\ h.drafts = boxHist.drafts /\ h.picked = boxHist.picked
  BY <1>0 DEF BoxHistType
<1>4. Box!Input(h)
  BY <1>2 DEF Box!HandleSubmit
<1> HIDE DEF h
<1>5. /\ boxHist' \in BoxHistType /\ boxHist'.carried = boxHist.carried /\ boxHist'.overlap = boxHist.overlap
      /\ boxHist'.crossed = o /\ boxHist'.moved = boxHist.moved /\ boxHist'.drafts = boxHist.drafts
      /\ boxHist'.picked = boxHist.picked
  BY <1>3, <1>4, InputCounts
<1>6. ~boxHist'.crossed => ~boxHist.crossed /\ boxForms = <<>> /\ Len(boxForms) = 0
  <2>1. ~boxHist'.crossed => ~boxHist.crossed /\ boxForms = <<>>
    BY <1>2, <1>5
  <2>2. Len(<<>>) = 0
    OBVIOUS
  <2> QED BY <2>1, <2>2
<1>7. CASE ~boxBox.items
  <2>1. Box!Submitted(Box!Form) /\ boxForms' = boxForms
    BY <1>7 DEF Box!HandleSubmit
  <2>2. /\ boxForms' \in Seq(SubmitType)
        /\ \A j \in 1..Len(boxForms') : \E k \in 1..Len(boxForms) : boxForms'[j] = boxForms[k]
        /\ ~boxHist'.crossed => ~boxHist.crossed /\ Len(boxForms') = 0
    BY <1>0, <1>6, <2>1
  <2> QED BY <1>1, <1>5, <2>1, <2>2, FormRight, BoxSubmitted
<1>8. CASE boxBox.items
  <2>1. boxForms' = Append(boxForms, Box!Form) /\ UNCHANGED <<boxScreen, boxBox, boxSent>>
    BY <1>8 DEF Box!HandleSubmit
  <2>2. /\ boxForms' \in Seq(SubmitType) /\ Len(boxForms') = Len(boxForms) + 1
        /\ \A i \in 1..Len(boxForms') : boxForms'[i] = IF i = Len(boxForms') THEN Box!Form ELSE boxForms[i]
        /\ \A i \in 1..Len(boxForms') : i = Len(boxForms') \/ i \in 1..Len(boxForms)
    BY <1>0, <2>1, FormRight
  <2>3. BoxTypes'
    BY <1>0, <1>1, <1>5, <2>1, <2>2 DEF BoxTypes
  <2>4. ImagesBelong(boxScreen', boxBox', boxFiles', boxForms', boxHist'.carried)
    BY <1>1, <1>5, <2>1, <2>2, FormRight DEF BoxInv, ImagesBelong
  <2>5. SentOnce(boxScreen', boxBox', boxFiles', boxForms', boxSent', boxHist')
    BY <1>0, <1>1, <1>5, <1>6, <2>1, <2>2, FormRight DEF BoxInv, SentOnce
  <2>6. Queued(boxBox'.queue, boxFiles', boxForms', boxHist')
    BY <1>1, <1>5, <2>1, <2>2, FormRight DEF BoxInv, Queued
  <2>7. ScopeFollows(boxScreen', boxScope', boxHist')
    BY <1>1, <1>5, <2>1 DEF BoxInv, ScopeFollows
  <2> QED BY <2>1, <2>3, <2>4, <2>5, <2>6, <2>7 DEF BoxInv
<1> QED BY <1>7, <1>8

LEMMA BoxConverted == ASSUME BoxInv, NEW i \in DOMAIN boxForms, Box!Converted(i) PROVE BoxInv'
<1>0. /\ BoxTypes /\ boxHist \in BoxHistType /\ boxForms \in Seq(SubmitType) /\ Len(boxForms) \in Nat
      /\ i \in 1..Len(boxForms) /\ boxForms[i] \in SubmitType
  BY FormsTyped DEF BoxInv, BoxTypes
<1>1. /\ boxForms' = Box!RemoveAt(boxForms, i) /\ Box!Submitted(boxForms[i])
      /\ UNCHANGED <<boxFiles, boxScope, boxHist>>
  BY DEF Box!Converted
<1>2. /\ boxForms' \in Seq(SubmitType) /\ Len(boxForms') = Len(boxForms) - 1
      /\ \A j \in 1..Len(boxForms') : \E k \in 1..Len(boxForms) : boxForms'[j] = boxForms[k]
  <2> DEFINE s == Box!RemoveAt(boxForms, i)
  <2>1. /\ s \in Seq(SubmitType) /\ Len(s) = Len(boxForms) - 1
        /\ \A j \in 1..(Len(boxForms) - 1) : \E k \in 1..Len(boxForms) : s[j] = boxForms[k]
    <3>1. boxForms \in Seq(SubmitType) /\ i \in 1..Len(boxForms)
      BY <1>0
    <3> QED BY <3>1, RemovedAt
  <2>2. boxForms' = s
    BY <1>1
  <2> HIDE DEF s
  <2> QED BY <2>1, <2>2
<1>3. ~boxHist.crossed => Len(boxForms') = 0
  BY <1>0, <1>2 DEF BoxInv, SentOnce
<1>4. /\ DraftOK(boxForms[i].text, boxHist.drafts)
      /\ OwnImages(boxForms[i].attachments, boxForms[i].chat, boxFiles, boxHist.carried)
      /\ ~boxHist.crossed => /\ boxForms[i].chat = boxScreen.chat /\ boxScreen.mounted
                             /\ boxForms[i].attachments \cap boxSent.files = {} /\ boxForms[i].text \notin boxSent.texts
      /\ ~boxHist.overlap => boxForms[i].busy \/ boxForms[i].left \subseteq boxHist.carried
  BY <1>0 DEF BoxInv, ImagesBelong, SentOnce, Queued
<1> QED BY <1>0, <1>1, <1>2, <1>3, <1>4, BoxSubmitted

LEMMA BoxSuggests == ASSUME BoxInv, Box!HandleSuggestionClick PROVE BoxInv'
<1>0. BoxTypes /\ boxScreen \in BoxScreenType /\ boxHist \in BoxHistType /\ boxSent \in SentType
  BY DEF BoxInv, BoxTypes
<1> DEFINE form == [Box!Form EXCEPT !.text = 0]
<1>1. /\ boxScreen.mounted /\ boxBox.queue = {} /\ boxSent' = Box!Sent(Box!Message(form, {}))
      /\ boxScreen' = [boxScreen EXCEPT !.busy = TRUE, !.empty = FALSE] /\ Box!Input(boxHist)
      /\ UNCHANGED <<boxBox, boxFiles, boxForms, boxScope>>
  BY BoxBounds DEF Box!HandleSuggestionClick, Box!Suggests
<1>2. /\ form \in SubmitType /\ form.chat = boxScreen.chat /\ form.text = 0
      /\ ~boxHist.overlap => form.left \subseteq boxHist.carried
  BY <1>1, FormRight, BoxBounds DEF SubmitType
<1> HIDE DEF form
<1>3. 0 \notin boxSent.texts /\ {} \in SUBSET Box!Files /\ OwnImages({}, form.chat, boxFiles, boxHist.carried)
  BY DEF BoxInv, SentOnce, OwnImages
<1>4. boxSent' = [files |-> boxSent.files \cup {}, texts |-> boxSent.texts \cup ({form.text} \ {0}), wrong |-> FALSE]
  BY <1>1, <1>2, <1>3, MessageRight
<1>5. boxSent' \in SentType /\ boxSent'.files = boxSent.files /\ boxSent'.texts = boxSent.texts /\ ~boxSent'.wrong
  BY <1>0, <1>2, <1>4 DEF SentType
<1>6. boxScreen' \in BoxScreenType /\ boxScreen'.chat = boxScreen.chat /\ boxScreen'.mounted = boxScreen.mounted
  BY <1>0, <1>1 DEF BoxScreenType
<1>7. /\ boxHist' \in BoxHistType /\ boxHist'.carried = boxHist.carried /\ boxHist'.overlap = boxHist.overlap
      /\ boxHist'.crossed = boxHist.crossed /\ boxHist'.moved = boxHist.moved /\ boxHist'.drafts = boxHist.drafts
      /\ boxHist'.picked = boxHist.picked
  BY <1>0, <1>1, InputCounts
<1> QED BY <1>0, <1>1, <1>5, <1>6, <1>7 DEF BoxInv, BoxTypes, ImagesBelong, SentOnce, Queued, ScopeFollows

\* Another chat is opened, and its messages are there.
LEMMA BoxOpens == ASSUME BoxInv, NEW c \in Chats, Box!OpenChat(c) PROVE BoxInv'
<1>0. /\ BoxTypes /\ boxBox \in BoxType /\ boxScope \in ScopeType /\ boxHist \in BoxHistType /\ boxForms \in Seq(SubmitType)
      /\ ScopeFollows(boxScreen, boxScope, boxHist)
  BY DEF BoxInv, BoxTypes
<1>1. PICK loads \in BOOLEAN, empty \in BOOLEAN :
        /\ boxScreen' = [chat |-> c, mounted |-> ~loads, busy |-> FALSE, editing |-> FALSE, empty |-> empty]
        /\ boxBox' = IF loads THEN [Box!Left(boxBox) EXCEPT !.queue = {}, !.items = FALSE] ELSE Box!Left(boxBox)
        /\ boxScope' = Box!Settled(IF loads THEN [boxScope EXCEPT !.inited = 0] ELSE boxScope, c, ~loads)
        /\ Box!Input([boxHist EXCEPT !.carried = @ \cup {f \in Box!Files : boxFiles[f].pc = "uploads"},
                                     !.crossed = @ \/ boxForms # <<>>,
                                     !.moved = @ \/ Box!Lost(boxScope', c)])
  BY DEF Box!OpenChat
<1>2. UNCHANGED <<boxFiles, boxForms, boxSent>>
  BY DEF Box!OpenChat
<1> DEFINE s == IF loads THEN [boxScope EXCEPT !.inited = 0] ELSE boxScope
           up == {f \in Box!Files : boxFiles[f].pc = "uploads"}
<1>3. /\ s \in ScopeType /\ s.of = boxScope.of /\ (~s.has /\ s.inited # 0 => s.of[s.inited] = "none")
      /\ boxScope' = Box!Settled(s, c, ~loads)
  BY <1>0, <1>1 DEF ScopeType, ScopeFollows
<1>4. /\ boxScreen' \in BoxScreenType /\ boxScreen'.chat = c /\ boxScreen'.mounted = ~loads
  BY <1>1 DEF BoxScreenType
<1> HIDE DEF s
<1>5. PICK o \in BOOLEAN : o = (boxHist.crossed \/ boxForms # <<>>)
  OBVIOUS
<1>6. PICK m \in BOOLEAN : m = (boxHist.moved \/ Box!Lost(boxScope', c))
  OBVIOUS
<1> DEFINE h == [boxHist EXCEPT !.carried = boxHist.carried \cup up, !.crossed = o, !.moved = m]
<1>7. /\ h \in BoxHistType /\ h.carried = boxHist.carried \cup up /\ h.overlap = boxHist.overlap /\ h.crossed = o
      /\ h.moved = m /\ h.drafts = boxHist.drafts /\ h.picked = boxHist.picked
  <2>1. boxHist.carried \cup up \in SUBSET Box!Files
    BY <1>0 DEF BoxHistType
  <2> HIDE DEF up
  <2> QED BY <1>0, <2>1 DEF BoxHistType
<1>8. Box!Input(h)
  BY <1>1, <1>5, <1>6
<1> HIDE DEF h
<1>9. /\ boxHist' \in BoxHistType /\ boxHist'.carried = boxHist.carried \cup up /\ boxHist'.overlap = boxHist.overlap
      /\ boxHist'.crossed = o /\ boxHist'.moved = m /\ boxHist'.drafts = boxHist.drafts
      /\ boxHist'.picked = boxHist.picked
  BY <1>7, <1>8, InputCounts
<1>10. ~boxHist'.crossed => ~boxHist.crossed /\ Len(boxForms) = 0
  <2>1. ~boxHist'.crossed => ~boxHist.crossed /\ boxForms = <<>>
    BY <1>5, <1>9
  <2>2. Len(<<>>) = 0
    OBVIOUS
  <2> QED BY <2>1, <2>2
<1>11. boxBox' \in BoxType /\ boxBox'.attachments = {} /\ boxBox'.text = boxBox.text
  BY <1>0, <1>1 DEF Box!Left, BoxType
<1>12. boxScope' \in ScopeType
  BY <1>3, SettledOK
<1>13. BoxTypes'
  BY <1>0, <1>2, <1>4, <1>9, <1>11, <1>12 DEF BoxTypes
<1>14. ImagesBelong(boxScreen', boxBox', boxFiles', boxForms', boxHist'.carried)
  BY <1>2, <1>9, <1>11 DEF BoxInv, ImagesBelong, OwnImages
<1>15. SentOnce(boxScreen', boxBox', boxFiles', boxForms', boxSent', boxHist')
  BY <1>2, <1>9, <1>10, <1>11 DEF BoxInv, SentOnce
<1>16. Queued(boxBox'.queue, boxFiles', boxForms', boxHist')
  BY <1>2, <1>9 DEF BoxInv, Queued
<1>17. ScopeFollows(boxScreen', boxScope', boxHist')
  <2>1. boxScope' = Box!Settled(s, boxScreen'.chat, boxScreen'.mounted)
    BY <1>3, <1>4
  <2>2. boxHist'.moved = (boxHist.moved \/ Box!Lost(Box!Settled(s, boxScreen'.chat, boxScreen'.mounted), boxScreen'.chat))
    BY <1>4, <1>6, <1>9, <2>1
  <2> QED BY <1>0, <1>3, <1>4, <1>9, <2>1, <2>2, ScopeSettles
<1> QED BY <1>2, <1>13, <1>14, <1>15, <1>16, <1>17 DEF BoxInv

LEMMA BoxLoaded == ASSUME BoxInv, Box!LoadingEnds PROVE BoxInv'
<1>0. /\ BoxTypes /\ boxScreen \in BoxScreenType /\ boxScreen.chat \in Chats /\ boxScope \in ScopeType
      /\ boxHist \in BoxHistType /\ ScopeFollows(boxScreen, boxScope, boxHist)
  BY DEF BoxInv, BoxTypes, BoxScreenType
<1>1. /\ boxScreen' = [boxScreen EXCEPT !.mounted = TRUE]
      /\ boxScope' = Box!Settled(boxScope, boxScreen.chat, TRUE)
      /\ boxHist' = [boxHist EXCEPT !.moved = @ \/ Box!Lost(boxScope', boxScreen.chat)]
      /\ UNCHANGED <<boxBox, boxFiles, boxForms, boxSent>>
  BY DEF Box!LoadingEnds, Box!Settles
<1>2. boxScreen' \in BoxScreenType /\ boxScreen'.chat = boxScreen.chat /\ boxScreen'.mounted
  BY <1>0, <1>1 DEF BoxScreenType
<1>3. PICK m \in BOOLEAN : m = (boxHist.moved \/ Box!Lost(boxScope', boxScreen.chat))
  OBVIOUS
<1>4. /\ boxHist' \in BoxHistType /\ boxHist'.carried = boxHist.carried /\ boxHist'.overlap = boxHist.overlap
      /\ boxHist'.crossed = boxHist.crossed /\ boxHist'.moved = m /\ boxHist'.drafts = boxHist.drafts
      /\ boxHist'.picked = boxHist.picked
  BY <1>0, <1>1, <1>3 DEF BoxHistType
<1>5. boxScope' \in ScopeType
  BY <1>0, <1>1, SettledOK
<1>6. ScopeFollows(boxScreen', boxScope', boxHist')
  <2>1. boxScreen'.mounted = TRUE
    BY <1>1, <1>0 DEF BoxScreenType
  <2>2. boxScope' = Box!Settled(boxScope, boxScreen'.chat, boxScreen'.mounted)
    BY <1>1, <1>2, <2>1
  <2>3. boxHist'.moved = (boxHist.moved \/ Box!Lost(Box!Settled(boxScope, boxScreen'.chat, boxScreen'.mounted), boxScreen'.chat))
    BY <1>2, <1>3, <1>4, <2>2
  <2>4. ~boxScope.has /\ boxScope.inited # 0 => boxScope.of[boxScope.inited] = "none"
    BY <1>0 DEF ScopeFollows
  <2> QED BY <1>0, <1>2, <1>4, <2>2, <2>3, <2>4, ScopeSettles
<1> QED BY <1>0, <1>1, <1>2, <1>4, <1>5, <1>6 DEF BoxInv, BoxTypes, ImagesBelong, SentOnce, Queued

LEMMA BoxNext == BoxInv /\ Box!Next => BoxInv'
<1> SUFFICES ASSUME BoxInv, Box!Next PROVE BoxInv'
  OBVIOUS
<1>1. CASE \E b \in Scopes \cup {Box!NoBase} : Box!ChooseBase(b)
  BY <1>1, ScopeSteps
<1>2. CASE Box!BasesLoaded \/ Box!BasesFail \/ Box!RefetchBases
  BY <1>2, ScopeSteps
<1>3. CASE \E f \in Box!Files : Box!HandlePaste(f) \/ Box!UploadFile(f)
  BY <1>3, BoxPastes, BoxUploads
<1>4. CASE \/ Box!OnDrop \/ Box!RemoveItem \/ Box!TypeSlash \/ Box!HandleCancelEdit \/ Box!AnswerEnds
           \/ \E id \in Box!Models : Box!ChooseModel(id)
           \/ \E n \in Box!Drafts : Box!HandleInput(n) \/ Box!HandleEditMessage(n)
           \/ \E f \in Box!Files : Box!HandleRemove(f)
  BY <1>4, BoxEdits
<1>5. CASE Box!HandleSubmit \/ Box!HandleSuggestionClick \/ \E i \in DOMAIN boxForms : Box!Converted(i)
  BY <1>5, BoxSubmits, BoxSuggests, BoxConverted
<1>6. CASE Box!LoadingEnds \/ \E c \in Chats : Box!OpenChat(c)
  BY <1>6, BoxOpens, BoxLoaded
<1> QED BY <1>1, <1>2, <1>3, <1>4, <1>5, <1>6 DEF Box!Next

LEMMA BoxTells == BoxInv => Box!TypeOK /\ Box!SentIsComposed
<1> SUFFICES ASSUME BoxInv PROVE Box!TypeOK /\ Box!SentIsComposed
  OBVIOUS
<1>1. Box!TypeOK
  BY BoxBounds DEF BoxInv, BoxTypes, BoxScreenType, BoxType, ImageType, ScopeType, Box!TypeOK
<1> QED BY <1>1 DEF BoxInv, Box!SentIsComposed

-----------------------------------------------------------------------------
(* The conversation on screen                                                *)

MessageType == [role: {"user", "assistant"}, turn: Screen!Turns]
TurnType == [chat: Chats \cup {0}, edits: Screen!Turns \cup {0}, pc: {"none", "sent", "streaming", "closing", "done"}]
ViewType == [chat: Chats, route: {"new", "chat"}, messages: Seq(MessageType),
             status: {"ready", "submitted", "streaming", "error"}, conn: Screen!Turns \cup {0},
             also: SUBSET Screen!Turns, editing: Screen!Turns \cup {0}]
QueryType == [has: BOOLEAN, data: Seq(MessageType), pc: {"none", "asks", "answered"}, got: Seq(MessageType)]
ViewHistType == [odd: BOOLEAN, again: BOOLEAN, visits: Nat, used: SUBSET Chats]

ViewTypes ==
    /\ scrStored \in [Chats -> Seq(MessageType)] /\ scrTurn \in [Screen!Turns -> TurnType] /\ scrView \in ViewType
    /\ scrQuery \in [Chats -> QueryType] /\ scrLoaded \in SUBSET Chats /\ scrHist \in ViewHistType

\* A message is one of the chat it is shown, stored or fetched for.
Belong(messages, c, turn) == \A i \in 1..Len(messages) : turn[messages[i].turn].chat = c
AllBelong(stored, turn, view, query) ==
    /\ \A c \in Chats : Belong(stored[c], c, turn) /\ Belong(query[c].data, c, turn) /\ Belong(query[c].got, c, turn)
    /\ Belong(view.messages, view.chat, turn)
    /\ view.conn # 0 => turn[view.conn].chat = view.chat
    /\ \A n \in view.also : turn[n].chat = view.chat
    /\ \A n \in Screen!Turns : turn[n].pc # "none" => turn[n].chat \in Chats

\* An answer is stored before its stream is closed.
AnswersStored(stored, turn) ==
    \A n \in Screen!Turns : turn[n].pc = "closing" => Screen!Contains(stored[turn[n].chat], Screen!Assistant(n))

\* A chat that has been loaded shows what is stored, but for the question that was just
\* sent; the stream that is read is one whose answer is not stored yet.
Shows(s, turn, view) ==
    \/ view.conn = 0 /\ view.messages = s
    \/ /\ view.conn # 0 /\ turn[view.conn].pc = "sent" /\ turn[view.conn].edits = 0
       /\ view.messages = Append(s, Screen!User(view.conn))
    \/ view.conn # 0 /\ turn[view.conn].pc = "streaming" /\ view.messages = s

\* One that has not been loaded shows nothing, and waits for what is stored.
Waits(s, view, q) ==
    /\ view.conn = 0 /\ view.messages = <<>> /\ view.route = "chat"
    /\ ~q.has /\ q.pc \in {"asks", "answered"} /\ (q.pc = "answered" => q.got = s)

ViewFollows(stored, turn, view, query, loaded, hist) ==
    /\ view.route = "new" => view.chat \in loaded
    /\ view.conn # 0 => view.status \in {"submitted", "streaming"}
    /\ ~hist.odd => view.also = {}
    /\ ~hist.odd /\ ~hist.again =>
         IF view.chat \in loaded THEN Shows(stored[view.chat], turn, view)
                                 ELSE Waits(stored[view.chat], view, query[view.chat])

ScreenInv ==
    /\ ViewTypes
    /\ AllBelong(scrStored, scrTurn, scrView, scrQuery)
    /\ AnswersStored(scrStored, scrTurn)
    /\ ViewFollows(scrStored, scrTurn, scrView, scrQuery, scrLoaded, scrHist)

LEMMA ScreenBounds == /\ MaxTurns \in Nat /\ MaxVisits \in Nat /\ 0 \notin Chats /\ 1 \in Chats /\ 2 \in Chats
                      /\ 1 \in Screen!Turns /\ 0 \notin Screen!Turns /\ Screen!Turns = 1..MaxTurns /\ Screen!NoTurn = 0
BY ChatAssumption DEF Screen!Turns, Screen!NoTurn

LEMMA MessagesOK ==
    \A n \in Screen!Turns : /\ Screen!User(n) \in MessageType /\ Screen!Assistant(n) \in MessageType
                            /\ Screen!User(n).turn = n /\ Screen!Assistant(n).turn = n
BY DEF MessageType, Screen!User, Screen!Assistant

LEMMA NoMessages == /\ <<>> \in Seq(MessageType) /\ Len(<<>>) = 0
                    /\ \A c, turn : Belong(<<>>, c, turn)
<1>1. <<>> \in Seq(MessageType) /\ Len(<<>>) = 0
  OBVIOUS
<1> QED BY <1>1 DEF Belong

\* A set of naturals that is not empty has a least element, ...
LEMMA Least == ASSUME NEW T, T \subseteq Nat, T # {} PROVE \E x \in T : \A y \in T : x <= y
<1>1. PICK x \in T : \A y \in T : ~(<<y, x>> \in OpToRel(<, Nat))
  BY NatLessThanWellFounded, WFMin
<1>2. ASSUME NEW y \in T PROVE x <= y
  <2>1. x \in Nat /\ y \in Nat
    OBVIOUS
  <2>2. ~(y < x)
    BY <1>1, <2>1 DEF OpToRel
  <2> QED BY <2>1, <2>2
<1> QED BY <1>2

\* ... and one that is bounded has a greatest.
LEMMA Greatest == ASSUME NEW m \in Nat, NEW T, T \subseteq 0..m, T # {} PROVE \E x \in T : \A y \in T : y <= x
<1> DEFINE U == {m - x : x \in T}
<1>1. U \subseteq Nat /\ U # {}
  <2>1. \A x \in T : x \in 0..m
    OBVIOUS
  <2>2. \A x \in T : m - x \in Nat
    BY <2>1
  <2> QED BY <2>2
<1>2. PICK u \in U : \A v \in U : u <= v
  <2> HIDE DEF U
  <2> QED BY <1>1, Least
<1>3. PICK x \in T : u = m - x
  BY <1>2
<1>4. ASSUME NEW y \in T PROVE y <= x
  <2>1. m - y \in U
    OBVIOUS
  <2>2. m - x <= m - y
    BY <1>2, <1>3, <2>1
  <2>3. x \in 0..m /\ y \in 0..m
    OBVIOUS
  <2> QED BY <2>2, <2>3
<1> QED BY <1>4

\* The stream that is resumed is one of the chat.
LEMMA ActiveOK ==
  ASSUME ScreenInv, NEW c \in Chats
  PROVE  \/ Screen!Active(c) = 0
         \/ /\ Screen!Active(c) \in Screen!Turns /\ scrTurn[Screen!Active(c)].chat = c
            /\ scrTurn[Screen!Active(c)].pc \in {"streaming", "closing"}
<1> DEFINE S == Screen!Streaming(c)
<1>1. S \subseteq Screen!Turns /\ \A n \in S : scrTurn[n].chat = c /\ scrTurn[n].pc \in {"streaming", "closing"}
  BY DEF Screen!Streaming
<1>2. CASE S = {}
  BY <1>2, ScreenBounds DEF Screen!Active
<1>3. CASE S # {}
  <2>1. \E n \in S : \A k \in S : k <= n
    <3>1. S \subseteq 0..MaxTurns /\ MaxTurns \in Nat
      BY <1>1, ScreenBounds
    <3> HIDE DEF S
    <3> QED BY <1>3, <3>1, Greatest
  <2>2. Screen!Active(c) = CHOOSE n \in S : \A k \in S : k <= n
    BY <1>3 DEF Screen!Active
  <2> HIDE DEF S
  <2>3. Screen!Active(c) \in S
    BY <2>1, <2>2
  <2> QED BY <1>1, <2>3
<1> QED BY <1>2, <1>3

LEMMA ScreenInit == Screen!Init => ScreenInv
<1> SUFFICES ASSUME Screen!Init PROVE ScreenInv
  OBVIOUS
<1>1. PICK done \in BOOLEAN :
        /\ scrStored = [c \in Chats |-> IF c # 1 THEN <<>> ELSE IF done THEN <<Screen!User(1), Screen!Assistant(1)>>
                                        ELSE <<Screen!User(1)>>]
        /\ scrTurn = [n \in Screen!Turns |->
                        IF n = 1 THEN [Screen!Unused EXCEPT !.chat = 1, !.pc = IF done THEN "done" ELSE "streaming"]
                        ELSE Screen!Unused]
  BY DEF Screen!Init
<1>2. /\ scrView = [chat |-> 2, route |-> "new", messages |-> <<>>, status |-> "ready", conn |-> 0, also |-> {},
                   editing |-> 0]
      /\ scrQuery = [c \in Chats |-> [has |-> FALSE, data |-> <<>>, pc |-> "none", got |-> <<>>]]
      /\ scrLoaded = {2} /\ scrHist = [odd |-> FALSE, again |-> FALSE, visits |-> 0, used |-> {2}]
  BY ScreenBounds DEF Screen!Init, Screen!Empty, Screen!NoQuery
<1> DEFINE s == IF done THEN <<Screen!User(1), Screen!Assistant(1)>> ELSE <<Screen!User(1)>>
           p == IF done THEN "done" ELSE "streaming"
           u == Screen!Unused
           x == [u EXCEPT !.chat = 1, !.pc = p]
<1>3. s \in Seq(MessageType) /\ \A i \in 1..Len(s) : s[i].turn = 1
  <2>1. CASE done
    <3> DEFINE a == Screen!User(1)
               b == Screen!Assistant(1)
    <3>1. a \in MessageType /\ b \in MessageType /\ a.turn = 1 /\ b.turn = 1
      BY ScreenBounds, MessagesOK
    <3>2. s = <<a, b>>
      BY <2>1
    <3> HIDE DEF a, b, s
    <3>3. <<a, b>> \in Seq(MessageType) /\ Len(<<a, b>>) = 2 /\ <<a, b>>[1] = a /\ <<a, b>>[2] = b
      BY <3>1
    <3> QED BY <3>1, <3>2, <3>3
  <2>2. CASE ~done
    <3> DEFINE a == Screen!User(1)
    <3>1. a \in MessageType /\ a.turn = 1
      BY ScreenBounds, MessagesOK
    <3>2. s = <<a>>
      BY <2>2
    <3> HIDE DEF a, s
    <3>3. <<a>> \in Seq(MessageType) /\ Len(<<a>>) = 1 /\ <<a>>[1] = a
      BY <3>1
    <3> QED BY <3>1, <3>2, <3>3
  <2> QED BY <2>1, <2>2
<1>4. scrTurn = [n \in Screen!Turns |-> IF n = 1 THEN x ELSE u] /\ x \in TurnType /\ u \in TurnType /\ x.chat = 1 /\ u.pc = "none"
      /\ x.pc # "closing"
  <2>1. p \in {"done", "streaming"}
    OBVIOUS
  <2>2. scrTurn = [n \in Screen!Turns |-> IF n = 1 THEN x ELSE u]
    BY <1>1
  <2>3. u \in TurnType /\ u.pc = "none"
    BY ScreenBounds DEF Screen!Unused, TurnType
  <2> HIDE DEF p, u
  <2>4. x \in TurnType /\ x.chat = 1 /\ x.pc = p
    BY <2>1, <2>3, ScreenBounds DEF TurnType
  <2> HIDE DEF x
  <2> QED BY <2>1, <2>2, <2>3, <2>4
<1>5. scrStored = [c \in Chats |-> IF c # 1 THEN <<>> ELSE s]
  BY <1>1
<1> HIDE DEF s, x, u
<1>6. ViewTypes
  <2>1. scrStored \in [Chats -> Seq(MessageType)] /\ scrTurn \in [Screen!Turns -> TurnType]
    BY <1>3, <1>4, <1>5, NoMessages
  <2>2. scrView \in ViewType /\ scrQuery \in [Chats -> QueryType] /\ scrLoaded \in SUBSET Chats /\ scrHist \in ViewHistType
    BY <1>2, NoMessages, ScreenBounds DEF ViewType, QueryType, ViewHistType
  <2> QED BY <2>1, <2>2 DEF ViewTypes
<1>7. AllBelong(scrStored, scrTurn, scrView, scrQuery)
  <2>1. Belong(s, 1, scrTurn)
    BY <1>3, <1>4, ScreenBounds DEF Belong
  <2>2. \A c \in Chats : Belong(scrStored[c], c, scrTurn)
    BY <1>5, <2>1, NoMessages
  <2>3. \A n \in Screen!Turns : scrTurn[n].pc # "none" => scrTurn[n].chat \in Chats
    BY <1>4, ScreenBounds
  <2> QED BY <1>2, <2>2, <2>3, NoMessages DEF AllBelong
<1>8. AnswersStored(scrStored, scrTurn)
  BY <1>4 DEF AnswersStored
<1>9. ViewFollows(scrStored, scrTurn, scrView, scrQuery, scrLoaded, scrHist)
  BY <1>2, <1>5, ScreenBounds DEF ViewFollows, Shows
<1> QED BY <1>6, <1>7, <1>8, <1>9 DEF ScreenInv

LEMMA ScreenStays == ScreenInv /\ UNCHANGED scrVars => ScreenInv'
BY DEF ScreenInv, ViewTypes, scrVars

\* Messages that are added, and those before one of them.
LEMMA AddedOK ==
  ASSUME NEW ms \in Seq(MessageType), NEW m \in MessageType
  PROVE  /\ Append(ms, m) \in Seq(MessageType)
         /\ \A c, turn : Belong(ms, c, turn) /\ turn[m.turn].chat = c => Belong(Append(ms, m), c, turn)
         /\ Screen!Contains(Append(ms, m), m)
         /\ \A x : Screen!Contains(ms, x) => Screen!Contains(Append(ms, m), x)
<1>1. /\ Append(ms, m) \in Seq(MessageType) /\ Len(ms) \in Nat /\ Len(Append(ms, m)) = Len(ms) + 1
      /\ \A i \in 1..Len(ms) : Append(ms, m)[i] = ms[i]
      /\ Append(ms, m)[Len(ms) + 1] = m
  OBVIOUS
<1> DEFINE s == Append(ms, m)
<1> HIDE DEF s
<1>2. \A c, turn : Belong(ms, c, turn) /\ turn[m.turn].chat = c => Belong(s, c, turn)
  <2> SUFFICES ASSUME NEW c, NEW turn, Belong(ms, c, turn), turn[m.turn].chat = c, NEW i \in 1..Len(s)
               PROVE  turn[s[i].turn].chat = c
    BY DEF Belong
  <2>1. i \in 1..Len(ms) \/ i = Len(ms) + 1
    BY <1>1 DEF s
  <2> QED BY <1>1, <2>1 DEF Belong, s
<1>3. Len(ms) + 1 \in 1..Len(s) /\ \A i \in 1..Len(ms) : i \in 1..Len(s)
  BY <1>1 DEF s
<1>4. Screen!Contains(s, m) /\ \A x : Screen!Contains(ms, x) => Screen!Contains(s, x)
  BY <1>1, <1>3 DEF Screen!Contains, s
<1> QED BY <1>1, <1>2, <1>4 DEF s

LEMMA PrefixOK ==
  ASSUME NEW ms \in Seq(MessageType), NEW k \in 0..Len(ms)
  PROVE  /\ SubSeq(ms, 1, k) \in Seq(MessageType) /\ Len(SubSeq(ms, 1, k)) = k
         /\ \A c, turn : Belong(ms, c, turn) => Belong(SubSeq(ms, 1, k), c, turn)
<1>1. Len(ms) \in Nat /\ k \in Nat /\ k <= Len(ms)
  OBVIOUS
<1> DEFINE s == SubSeq(ms, 1, k)
<1>2. s \in Seq(MessageType) /\ Len(s) = k /\ \A i \in 1..k : s[i] = ms[i]
  BY <1>1
<1> HIDE DEF s
<1>3. \A c, turn : Belong(ms, c, turn) => Belong(s, c, turn)
  BY <1>1, <1>2 DEF Belong
<1> QED BY <1>2, <1>3 DEF s

\* A turn goes on, and a new one begins: what belonged to a chat still does.
TurnTo(n, p) == scrTurn' = [scrTurn EXCEPT ![n].pc = p]

LEMMA TurnMoves ==
  ASSUME ScreenInv, NEW n \in Screen!Turns, NEW p \in {"sent", "streaming", "closing", "done"}, TurnTo(n, p)
  PROVE  /\ scrTurn' \in [Screen!Turns -> TurnType]
         /\ \A k \in Screen!Turns : /\ scrTurn'[k].chat = scrTurn[k].chat /\ scrTurn'[k].edits = scrTurn[k].edits
                                    /\ scrTurn'[k].pc = IF k = n THEN p ELSE scrTurn[k].pc
<1> DEFINE x == [scrTurn[n] EXCEPT !.pc = p]
<1>1. scrTurn \in [Screen!Turns -> TurnType] /\ scrTurn[n] \in TurnType
  BY DEF ScreenInv, ViewTypes
<1>2. x \in TurnType /\ x.chat = scrTurn[n].chat /\ x.edits = scrTurn[n].edits /\ x.pc = p
  BY <1>1 DEF TurnType
<1>3. scrTurn' = [scrTurn EXCEPT ![n] = x]
  BY <1>1 DEF TurnTo
<1> HIDE DEF x
<1>4. scrTurn' \in [Screen!Turns -> TurnType] /\ \A k \in Screen!Turns : scrTurn'[k] = IF k = n THEN x ELSE scrTurn[k]
  BY <1>1, <1>2, <1>3
<1> QED BY <1>2, <1>4

LEMMA BelongKeeps ==
  ASSUME \A k \in Screen!Turns : scrTurn'[k].chat = scrTurn[k].chat,
         NEW ms \in Seq(MessageType), NEW c \in Chats, Belong(ms, c, scrTurn)
  PROVE  Belong(ms, c, scrTurn')
<1>1. \A i \in 1..Len(ms) : ms[i] \in MessageType
  OBVIOUS
<1>2. \A i \in 1..Len(ms) : ms[i].turn \in Screen!Turns
  BY <1>1 DEF MessageType
<1> QED BY <1>2 DEF Belong

TurnIs(n, x) == scrTurn' = [scrTurn EXCEPT ![n] = x]

LEMMA TurnBegins ==
  ASSUME ScreenInv, NEW n \in Screen!Turns, NEW x \in TurnType, TurnIs(n, x)
  PROVE  /\ scrTurn' \in [Screen!Turns -> TurnType]
         /\ \A k \in Screen!Turns : scrTurn'[k] = IF k = n THEN x ELSE scrTurn[k]
BY DEF ScreenInv, ViewTypes, TurnIs

LEMMA BelongBegins ==
  ASSUME ScreenInv, NEW n \in Screen!Turns, scrTurn[n] = Screen!Unused,
         \A k \in Screen!Turns : k # n => scrTurn'[k] = scrTurn[k],
         NEW ms \in Seq(MessageType), NEW c \in Chats, Belong(ms, c, scrTurn)
  PROVE  Belong(ms, c, scrTurn')
<1>1. \A i \in 1..Len(ms) : ms[i] \in MessageType
  OBVIOUS
<1>2. \A i \in 1..Len(ms) : ms[i].turn \in Screen!Turns
  BY <1>1 DEF MessageType
<1>3. scrTurn[n].chat = 0 /\ c # 0
  BY ScreenBounds DEF Screen!Unused
<1> QED BY <1>2, <1>3 DEF Belong

\* The query of one chat goes on: what waits for it still does, unless that is recorded.
LEMMA QueryChanges ==
  ASSUME ScreenInv, NEW c \in Chats, NEW x \in QueryType, scrQuery' = [scrQuery EXCEPT ![c] = x],
         Belong(x.data, c, scrTurn), Belong(x.got, c, scrTurn),
         scrHist' \in ViewHistType, scrHist'.again = scrHist.again, scrHist.odd => scrHist'.odd,
         \/ scrHist'.odd \/ scrView.chat # c \/ c \in scrLoaded
         \/ Waits(scrStored[c], scrView, scrQuery[c]) => Waits(scrStored[c], scrView, x),
         UNCHANGED <<scrStored, scrTurn, scrView, scrLoaded>>
  PROVE  ScreenInv'
<1>0. scrQuery \in [Chats -> QueryType]
  BY DEF ScreenInv, ViewTypes
<1>1. scrQuery' \in [Chats -> QueryType] /\ \A k \in Chats : scrQuery'[k] = IF k = c THEN x ELSE scrQuery[k]
  BY <1>0
<1>2. ViewTypes'
  BY <1>1 DEF ScreenInv, ViewTypes
<1>3. AllBelong(scrStored', scrTurn', scrView', scrQuery')
  BY <1>1 DEF ScreenInv, AllBelong
<1>4. ViewFollows(scrStored', scrTurn', scrView', scrQuery', scrLoaded', scrHist')
  <2>1. scrView.chat \in Chats
    BY DEF ScreenInv, ViewTypes, ViewType
  <2> QED BY <1>1, <2>1 DEF ScreenInv, ViewFollows
<1> QED BY <1>2, <1>3, <1>4 DEF ScreenInv

LEMMA QuerySteps ==
  ASSUME ScreenInv, Screen!Refetch \/ \E c \in Chats : Screen!ListMessages(c) \/ Screen!LoadFails(c)
  PROVE  ScreenInv'
<1>0. /\ scrQuery \in [Chats -> QueryType] /\ scrHist \in ViewHistType /\ scrView.chat \in Chats
      /\ scrStored \in [Chats -> Seq(MessageType)]
      /\ \A c \in Chats : Belong(scrStored[c], c, scrTurn) /\ Belong(scrQuery[c].data, c, scrTurn) /\ Belong(scrQuery[c].got, c, scrTurn)
  BY DEF ScreenInv, ViewTypes, ViewType, AllBelong
<1>1. CASE Screen!Refetch
  <2> DEFINE c == scrView.chat
             x == [scrQuery[c] EXCEPT !.pc = "asks"]
  <2>1. PICK v \in Nat : v = scrHist.visits + 1
    BY <1>0 DEF ViewHistType
  <2>2. /\ scrQuery[c].pc = "none" /\ scrQuery' = [scrQuery EXCEPT ![c] = x] /\ scrHist' = [scrHist EXCEPT !.visits = v]
        /\ UNCHANGED <<scrStored, scrTurn, scrView, scrLoaded>>
    BY <1>0, <1>1, <2>1 DEF Screen!Refetch
  <2>3. x \in QueryType /\ x.data = scrQuery[c].data /\ x.got = scrQuery[c].got
    BY <1>0 DEF QueryType
  <2> HIDE DEF x
  <2>4. scrHist' \in ViewHistType /\ scrHist'.again = scrHist.again /\ scrHist'.odd = scrHist.odd
    BY <1>0, <2>2 DEF ViewHistType
  <2>5. ~Waits(scrStored[c], scrView, scrQuery[c])
    BY <2>2 DEF Waits
  <2> QED BY <1>0, <2>2, <2>3, <2>4, <2>5, QueryChanges
<1>2. ASSUME NEW c \in Chats, Screen!ListMessages(c) PROVE ScreenInv'
  <2> DEFINE x == [scrQuery[c] EXCEPT !.pc = "answered", !.got = scrStored[c]]
  <2>1. scrQuery' = [scrQuery EXCEPT ![c] = x] /\ UNCHANGED <<scrStored, scrTurn, scrView, scrLoaded, scrHist>>
    BY <1>2 DEF Screen!ListMessages
  <2>2. x \in QueryType /\ x.data = scrQuery[c].data /\ x.got = scrStored[c] /\ x.has = scrQuery[c].has /\ x.pc = "answered"
    BY <1>0 DEF QueryType
  <2> HIDE DEF x
  <2>3. Waits(scrStored[c], scrView, scrQuery[c]) => Waits(scrStored[c], scrView, x)
    BY <2>2 DEF Waits
  <2> QED BY <1>0, <2>1, <2>2, <2>3, QueryChanges
<1>3. ASSUME NEW c \in Chats, Screen!LoadFails(c) PROVE ScreenInv'
  <2> DEFINE x == [scrQuery[c] EXCEPT !.pc = "none", !.got = <<>>]
  <2>1. PICK o \in BOOLEAN : o = (scrHist.odd \/ (scrView.chat = c /\ scrView.route = "chat" /\ ~scrQuery[c].has))
    OBVIOUS
  <2>2. /\ scrQuery' = [scrQuery EXCEPT ![c] = x] /\ UNCHANGED <<scrStored, scrTurn, scrView, scrLoaded>>
        /\ scrHist' = [scrHist EXCEPT !.odd = o]
    BY <1>0, <1>3, <2>1 DEF Screen!LoadFails
  <2>3. x \in QueryType /\ x.data = scrQuery[c].data /\ x.got = <<>>
    BY <1>0, NoMessages DEF QueryType
  <2> HIDE DEF x
  <2>4. scrHist' \in ViewHistType /\ scrHist'.again = scrHist.again /\ scrHist'.odd = o
    BY <1>0, <2>2 DEF ViewHistType
  <2>5. scrHist.odd => scrHist'.odd
    BY <2>1, <2>4
  <2>6. scrHist'.odd \/ scrView.chat # c \/ ~Waits(scrStored[c], scrView, scrQuery[c])
    BY <2>1, <2>4 DEF Waits
  <2>7. Belong(x.data, c, scrTurn) /\ Belong(x.got, c, scrTurn)
    BY <1>0, <2>3, NoMessages
  <2> QED BY <2>2, <2>3, <2>4, <2>5, <2>6, <2>7, QueryChanges
<1> QED BY <1>1, <1>2, <1>3

\* What the user does to the messages on screen is recorded, or changes none of them.
LEMMA EditSteps ==
  ASSUME ScreenInv,
         Screen!HandleCancelEdit \/ Screen!Clear \/ Screen!Stop \/ \E n \in Screen!Turns : Screen!HandleEditMessage(n)
  PROVE  ScreenInv'
<1>0. /\ scrView \in ViewType /\ scrHist \in ViewHistType /\ Belong(scrView.messages, scrView.chat, scrTurn)
      /\ scrView.messages \in Seq(MessageType) /\ scrView.conn \in Screen!Turns \cup {0}
      /\ scrView.conn # 0 => scrTurn[scrView.conn].chat = scrView.chat
  BY DEF ScreenInv, ViewTypes, ViewType, AllBelong
<1>1. UNCHANGED <<scrStored, scrTurn, scrQuery, scrLoaded>> /\ scrView'.also = scrView.also
  BY <1>0 DEF ViewType, Screen!HandleCancelEdit, Screen!Clear, Screen!Stop, Screen!HandleEditMessage
<1>2. ASSUME \E e \in Screen!Turns \cup {0} : scrView' = [scrView EXCEPT !.editing = e], UNCHANGED scrHist
      PROVE  ScreenInv'
  <2>1. /\ scrView' \in ViewType /\ scrView'.chat = scrView.chat /\ scrView'.route = scrView.route
        /\ scrView'.messages = scrView.messages /\ scrView'.status = scrView.status /\ scrView'.conn = scrView.conn
        /\ scrView'.also = scrView.also
    BY <1>0, <1>2 DEF ViewType
  <2> QED BY <1>1, <1>2, <2>1 DEF ScreenInv, ViewTypes, AllBelong, ViewFollows, Shows, Waits
<1>3. ASSUME NEW ms \in Seq(MessageType), Belong(ms, scrView.chat, scrTurn), scrHist' = [scrHist EXCEPT !.odd = TRUE],
             \/ scrView' = [scrView EXCEPT !.messages = ms]
             \/ scrView' = [scrView EXCEPT !.status = "ready", !.conn = 0, !.messages = ms]
      PROVE  ScreenInv'
  <2>1. /\ scrView' \in ViewType /\ scrView'.chat = scrView.chat /\ scrView'.route = scrView.route
        /\ scrView'.messages = ms
        /\ scrView'.conn = 0 \/ (scrView'.conn = scrView.conn /\ scrView'.status = scrView.status)
    BY <1>0, <1>3 DEF ViewType
  <2>2. scrHist' \in ViewHistType /\ scrHist'.odd = TRUE
    BY <1>0, <1>3 DEF ViewHistType
  <2> QED BY <1>1, <1>3, <2>1, <2>2 DEF ScreenInv, ViewTypes, AllBelong, ViewFollows
<1>4. CASE Screen!HandleCancelEdit \/ \E n \in Screen!Turns : Screen!HandleEditMessage(n)
  BY <1>2, <1>4, ScreenBounds DEF Screen!HandleCancelEdit, Screen!HandleEditMessage
<1>5. CASE Screen!Clear
  BY <1>3, <1>5, NoMessages DEF Screen!Clear
<1>6. CASE Screen!Stop
  <2> DEFINE a == Append(scrView.messages, Screen!Assistant(scrView.conn))
  <2>1. PICK ms \in {scrView.messages, a} :
          scrView' = [scrView EXCEPT !.status = "ready", !.conn = 0, !.messages = ms]
    BY <1>6, ScreenBounds DEF Screen!Stop
  <2>2. scrView.conn \in Screen!Turns /\ scrHist' = [scrHist EXCEPT !.odd = TRUE]
    BY <1>0, <1>6, ScreenBounds DEF Screen!Stop
  <2>3. a \in Seq(MessageType) /\ Belong(a, scrView.chat, scrTurn)
    BY <1>0, <2>2, AddedOK, MessagesOK, ScreenBounds
  <2> HIDE DEF a
  <2> QED BY <1>0, <1>3, <2>1, <2>2, <2>3
<1> QED BY <1>4, <1>5, <1>6

\* A message is stored.
LEMMA StoredOK ==
  ASSUME ScreenInv, NEW c \in Chats, NEW m \in MessageType, scrTurn[m.turn].chat = c,
         scrStored' = [scrStored EXCEPT ![c] = Append(@, m)]
  PROVE  /\ scrStored' \in [Chats -> Seq(MessageType)] /\ scrStored'[c] = Append(scrStored[c], m)
         /\ \A k \in Chats : k # c => scrStored'[k] = scrStored[k]
         /\ \A k \in Chats : Belong(scrStored'[k], k, scrTurn)
         /\ \A k \in Chats : \A x : Screen!Contains(scrStored[k], x) => Screen!Contains(scrStored'[k], x)
         /\ Screen!Contains(scrStored'[c], m)
<1> DEFINE s == Append(scrStored[c], m)
<1>1. scrStored \in [Chats -> Seq(MessageType)] /\ \A k \in Chats : Belong(scrStored[k], k, scrTurn)
  BY DEF ScreenInv, ViewTypes, AllBelong
<1>2. /\ s \in Seq(MessageType) /\ Belong(s, c, scrTurn) /\ Screen!Contains(s, m)
      /\ \A x : Screen!Contains(scrStored[c], x) => Screen!Contains(s, x)
  BY <1>1, AddedOK
<1> HIDE DEF s
<1>3. \A k \in Chats : scrStored'[k] = IF k = c THEN s ELSE scrStored[k]
  BY <1>1 DEF s
<1>4. scrStored' \in [Chats -> Seq(MessageType)]
  BY <1>1, <1>2 DEF s
<1> QED BY <1>1, <1>2, <1>3, <1>4 DEF s

\* A turn that goes on changes its chat only.
LEMMA TurnGoesOn ==
  ASSUME ScreenInv, NEW n \in Screen!Turns, NEW p \in {"sent", "streaming", "closing", "done"}, TurnTo(n, p), scrTurn[n].pc # "none",
         scrStored' \in [Chats -> Seq(MessageType)], \A k \in Chats : Belong(scrStored'[k], k, scrTurn),
         \A k \in Chats : \A x : Screen!Contains(scrStored[k], x) => Screen!Contains(scrStored'[k], x),
         \A k \in Chats : k # scrTurn[n].chat => scrStored'[k] = scrStored[k],
         p = "closing" => Screen!Contains(scrStored'[scrTurn[n].chat], Screen!Assistant(n)),
         scrView' \in ViewType, scrView'.chat = scrView.chat, scrView'.route = scrView.route,
         Belong(scrView'.messages, scrView.chat, scrTurn), scrView'.also \subseteq scrView.also,
         scrView.conn # n => scrView'.conn = scrView.conn /\ scrView'.status = scrView.status,
         scrView.conn # n /\ n \notin scrView.also => scrView' = scrView,
         scrView.conn = n /\ scrView'.conn # 0 => scrView'.conn = n /\ scrView'.status \in {"submitted", "streaming"},
         scrHist' \in ViewHistType, scrHist'.again = scrHist.again, scrHist.odd => scrHist'.odd,
         scrView.chat = scrTurn[n].chat /\ ~scrHist'.odd =>
           /\ Shows(scrStored[scrView.chat], scrTurn, scrView) => Shows(scrStored'[scrView.chat], scrTurn', scrView')
           /\ Waits(scrStored[scrView.chat], scrView, scrQuery[scrView.chat])
                => Waits(scrStored'[scrView.chat], scrView', scrQuery[scrView.chat]),
         UNCHANGED <<scrQuery, scrLoaded>>
  PROVE  ScreenInv'
<1>0. /\ scrView \in ViewType /\ scrView.chat \in Chats /\ scrView.conn \in Screen!Turns \cup {0}
      /\ scrView.conn # 0 => scrTurn[scrView.conn].chat = scrView.chat
      /\ scrTurn[n].chat \in Chats /\ scrView'.messages \in Seq(MessageType) /\ scrQuery \in [Chats -> QueryType]
  BY DEF ScreenInv, ViewTypes, ViewType, AllBelong
<1>1. /\ scrTurn' \in [Screen!Turns -> TurnType]
      /\ \A k \in Screen!Turns : /\ scrTurn'[k].chat = scrTurn[k].chat /\ scrTurn'[k].edits = scrTurn[k].edits
                                 /\ scrTurn'[k].pc = IF k = n THEN p ELSE scrTurn[k].pc
  BY TurnMoves
<1>2. ViewTypes'
  BY <1>1 DEF ScreenInv, ViewTypes
<1>3. AllBelong(scrStored', scrTurn', scrView', scrQuery')
  <2>1. \A c \in Chats : Belong(scrStored'[c], c, scrTurn')
    BY <1>1, BelongKeeps
  <2>2. \A c \in Chats : Belong(scrQuery[c].data, c, scrTurn') /\ Belong(scrQuery[c].got, c, scrTurn')
    <3>1. \A c \in Chats : scrQuery[c].data \in Seq(MessageType) /\ scrQuery[c].got \in Seq(MessageType)
      BY <1>0 DEF QueryType
    <3>2. \A c \in Chats : Belong(scrQuery[c].data, c, scrTurn) /\ Belong(scrQuery[c].got, c, scrTurn)
      BY DEF ScreenInv, AllBelong
    <3> QED BY <1>1, <3>1, <3>2, BelongKeeps
  <2>3. Belong(scrView'.messages, scrView'.chat, scrTurn')
    BY <1>0, <1>1, BelongKeeps
  <2>4. /\ scrView'.conn # 0 => scrTurn'[scrView'.conn].chat = scrView'.chat
        /\ \A k \in scrView'.also : scrTurn'[k].chat = scrView'.chat
    <3>1. \A k \in scrView.also : k \in Screen!Turns /\ scrTurn[k].chat = scrView.chat
      BY <1>0 DEF ScreenInv, AllBelong, ViewType
    <3> QED BY <1>0, <1>1, <3>1
  <2>5. \A k \in Screen!Turns : scrTurn'[k].pc # "none" => scrTurn'[k].chat \in Chats
    BY <1>0, <1>1 DEF ScreenInv, AllBelong
  <2> QED BY <2>1, <2>2, <2>3, <2>4, <2>5 DEF AllBelong
<1>4. AnswersStored(scrStored', scrTurn')
  <2> SUFFICES ASSUME NEW k \in Screen!Turns, scrTurn'[k].pc = "closing"
               PROVE  Screen!Contains(scrStored'[scrTurn[k].chat], Screen!Assistant(k))
    BY <1>1 DEF AnswersStored
  <2>1. CASE k = n
    BY <1>1, <2>1
  <2>2. CASE k # n
    <3>1. scrTurn[k].pc = "closing" /\ scrTurn[k].chat \in Chats
      BY <1>1, <2>2 DEF ScreenInv, AllBelong
    <3> QED BY <3>1 DEF ScreenInv, AnswersStored
  <2> QED BY <2>1, <2>2
<1>5. ViewFollows(scrStored', scrTurn', scrView', scrQuery', scrLoaded', scrHist')
  <2>1. scrView'.route = "new" => scrView'.chat \in scrLoaded'
    BY DEF ScreenInv, ViewFollows
  <2>2. scrView'.conn # 0 => scrView'.status \in {"submitted", "streaming"}
    BY DEF ScreenInv, ViewFollows
  <2>3. ASSUME ~scrHist'.odd, ~scrHist'.again
        PROVE  IF scrView'.chat \in scrLoaded' THEN Shows(scrStored'[scrView'.chat], scrTurn', scrView')
               ELSE Waits(scrStored'[scrView'.chat], scrView', scrQuery'[scrView'.chat])
    <3>1. IF scrView.chat \in scrLoaded THEN Shows(scrStored[scrView.chat], scrTurn, scrView)
          ELSE Waits(scrStored[scrView.chat], scrView, scrQuery[scrView.chat])
      BY <2>3 DEF ScreenInv, ViewFollows
    <3>2. CASE scrView.chat = scrTurn[n].chat
      BY <2>3, <3>1, <3>2
    <3>3. CASE scrView.chat # scrTurn[n].chat
      <4>1. scrView.conn # n /\ scrView' = scrView /\ scrStored'[scrView.chat] = scrStored[scrView.chat]
        <5>1. n \notin scrView.also
          BY <3>3 DEF ScreenInv, AllBelong
        <5> QED BY <1>0, <3>3, <5>1, ScreenBounds
      <4>2. scrView.conn # 0 => /\ scrTurn'[scrView.conn].pc = scrTurn[scrView.conn].pc
                                /\ scrTurn'[scrView.conn].edits = scrTurn[scrView.conn].edits
        BY <1>0, <1>1, <4>1
      <4> QED BY <3>1, <4>1, <4>2 DEF Shows
    <3> QED BY <3>2, <3>3
  <2>4. ~scrHist'.odd => scrView'.also = {}
    BY DEF ScreenInv, ViewFollows
  <2> QED BY <2>1, <2>2, <2>3, <2>4 DEF ViewFollows
<1> QED BY <1>2, <1>3, <1>4, <1>5 DEF ScreenInv

\* Whoever reads a stream to its end has the answer.
LEMMA ReadOK ==
  ASSUME ScreenInv, NEW n \in Screen!Turns
  PROVE  LET v == Screen!Read(n) IN
         /\ v \in ViewType /\ v.chat = scrView.chat /\ v.route = scrView.route
         /\ Belong(v.messages, scrView.chat, scrTurn) /\ v.also \subseteq scrView.also
         /\ scrView.conn # n => v.conn = scrView.conn /\ v.status = scrView.status
         /\ scrView.conn # n /\ n \notin scrView.also => v = scrView
         /\ scrView.conn = n => v.conn = 0 /\ v.messages = Append(scrView.messages, Screen!Assistant(n))
<1> DEFINE a == Append(scrView.messages, Screen!Assistant(n))
<1>1. /\ scrView \in ViewType /\ scrView.messages \in Seq(MessageType) /\ Belong(scrView.messages, scrView.chat, scrTurn)
      /\ scrView.conn # 0 => scrTurn[scrView.conn].chat = scrView.chat
      /\ \A k \in scrView.also : scrTurn[k].chat = scrView.chat
  BY DEF ScreenInv, ViewTypes, ViewType, AllBelong
<1>2. CASE scrView.conn # n /\ n \notin scrView.also
  BY <1>1, <1>2 DEF Screen!Read
<1>4. CASE scrView.conn # n /\ n \in scrView.also
  <2>1. a \in Seq(MessageType) /\ Belong(a, scrView.chat, scrTurn)
    BY <1>1, <1>4, AddedOK, MessagesOK, ScreenBounds
  <2>2. Screen!Read(n) = [scrView EXCEPT !.messages = a, !.also = scrView.also \ {n}]
    BY <1>4 DEF Screen!Read
  <2> HIDE DEF a
  <2>3. /\ Screen!Read(n) \in ViewType /\ Screen!Read(n).chat = scrView.chat /\ Screen!Read(n).route = scrView.route
        /\ Screen!Read(n).messages = a /\ Screen!Read(n).conn = scrView.conn /\ Screen!Read(n).status = scrView.status
        /\ Screen!Read(n).also \subseteq scrView.also
    BY <1>1, <2>1, <2>2 DEF ViewType
  <2> QED BY <1>4, <2>1, <2>3
<1>3. CASE scrView.conn = n
  <2>1. a \in Seq(MessageType) /\ Belong(a, scrView.chat, scrTurn)
    BY <1>1, <1>3, AddedOK, MessagesOK, ScreenBounds
  <2>2. Screen!Read(n) = [scrView EXCEPT !.messages = a, !.status = "ready", !.conn = 0]
    BY <1>3, ScreenBounds DEF Screen!Read
  <2> HIDE DEF a
  <2>3. /\ Screen!Read(n) \in ViewType /\ Screen!Read(n).chat = scrView.chat /\ Screen!Read(n).route = scrView.route
        /\ Screen!Read(n).messages = a /\ Screen!Read(n).conn = 0 /\ Screen!Read(n).also \subseteq scrView.also
    BY <1>1, <2>1, <2>2, ScreenBounds DEF ViewType
  <2> QED BY <1>3, <2>1, <2>3 DEF a
<1> QED BY <1>2, <1>3, <1>4

LEMMA TurnSteps ==
  ASSUME ScreenInv, NEW n \in Screen!Turns,
         Screen!Begin(n) \/ Screen!StreamEnds(n) \/ Screen!StreamCloses(n) \/ Screen!TurnFails(n)
  PROVE  ScreenInv'
<1> DEFINE c == scrTurn[n].chat
<1>0. /\ scrView \in ViewType /\ scrHist \in ViewHistType /\ scrTurn[n].pc # "none" /\ c \in Chats
      /\ scrStored \in [Chats -> Seq(MessageType)] /\ \A k \in Chats : Belong(scrStored[k], k, scrTurn)
      /\ scrView.messages \in Seq(MessageType) /\ Belong(scrView.messages, scrView.chat, scrTurn)
      /\ scrView.conn # 0 => scrTurn[scrView.conn].chat = scrView.chat
      /\ Screen!User(n) \in MessageType /\ Screen!Assistant(n) \in MessageType
      /\ Screen!User(n).turn = n /\ Screen!Assistant(n).turn = n /\ n # 0
  BY MessagesOK, ScreenBounds
     DEF ScreenInv, ViewTypes, ViewType, AllBelong, Screen!Begin, Screen!StreamEnds, Screen!StreamCloses, Screen!TurnFails
<1>1. UNCHANGED <<scrQuery, scrLoaded>>
  BY DEF Screen!Begin, Screen!StreamEnds, Screen!StreamCloses, Screen!TurnFails
<1>2. PICK u \in BOOLEAN : u = (scrHist.odd \/ Screen!Unread(n))
  OBVIOUS
<1>3. PICK o \in BOOLEAN : o = (scrHist.odd \/ Screen!OnScreen(n))
  OBVIOUS
<1>4. ASSUME NEW q \in BOOLEAN, scrHist' = [scrHist EXCEPT !.odd = q], scrHist.odd => q
      PROVE  /\ scrHist' \in ViewHistType /\ scrHist'.again = scrHist.again /\ scrHist'.odd = q
             /\ scrHist.odd => scrHist'.odd
  BY <1>0, <1>4 DEF ViewHistType
<1>5. CASE Screen!Begin(n)
  <2>1. /\ scrTurn[n].pc = "sent" /\ TurnTo(n, "streaming")
        /\ scrHist' = [scrHist EXCEPT !.odd = u]
    BY <1>2, <1>5 DEF Screen!Begin, TurnTo
  <2>2. /\ scrStored' \in [Chats -> Seq(MessageType)] /\ \A k \in Chats : Belong(scrStored'[k], k, scrTurn)
        /\ \A k \in Chats : \A x : Screen!Contains(scrStored[k], x) => Screen!Contains(scrStored'[k], x)
        /\ \A k \in Chats : k # c => scrStored'[k] = scrStored[k]
        /\ scrTurn[n].edits = 0 => scrStored'[c] = Append(scrStored[c], Screen!User(n))
    <3>1. CASE scrTurn[n].edits = 0
      <4>1. scrStored' = [scrStored EXCEPT ![c] = Append(@, Screen!User(n))]
        BY <1>5, <3>1, ScreenBounds DEF Screen!Begin
      <4> QED BY <1>0, <4>1, StoredOK
    <3>2. CASE scrTurn[n].edits # 0
      BY <1>0, <1>5, <3>2, ScreenBounds DEF Screen!Begin
    <3> QED BY <3>1, <3>2
  <2>3. scrView' = IF scrView.conn = n THEN [scrView EXCEPT !.status = "streaming"] ELSE scrView
    BY <1>5 DEF Screen!Begin
  <2>4. /\ scrView' \in ViewType /\ scrView'.chat = scrView.chat /\ scrView'.route = scrView.route
        /\ scrView'.messages = scrView.messages /\ scrView'.conn = scrView.conn /\ scrView'.also = scrView.also
        /\ scrView.conn = n => scrView'.status = "streaming"
    BY <1>0, <2>3 DEF ViewType
  <2>5. scrHist' \in ViewHistType /\ scrHist'.again = scrHist.again /\ scrHist'.odd = u /\ (scrHist.odd => scrHist'.odd)
    BY <1>2, <1>4, <2>1
  <2>6. ASSUME scrView.chat = c, ~scrHist'.odd
        PROVE  /\ Shows(scrStored[scrView.chat], scrTurn, scrView) => Shows(scrStored'[scrView.chat], scrTurn', scrView')
               /\ ~Waits(scrStored[scrView.chat], scrView, scrQuery[scrView.chat])
    <3>1. scrView.conn = n
      BY <1>2, <2>5, <2>6 DEF Screen!Unread, Screen!OnScreen
    <3>2. scrTurn'[n].pc = "streaming"
      BY <2>1, TurnMoves
    <3> QED BY <1>0, <2>1, <2>2, <2>4, <2>6, <3>1, <3>2 DEF Shows, Waits
  <2> QED BY <1>0, <1>1, <2>1, <2>2, <2>3, <2>4, <2>5, <2>6, TurnGoesOn
<1>6. CASE Screen!StreamEnds(n)
  <2>1. /\ scrTurn[n].pc = "streaming" /\ TurnTo(n, "closing")
        /\ scrHist' = [scrHist EXCEPT !.odd = u] /\ scrView' = Screen!Read(n)
        /\ scrStored' = [scrStored EXCEPT ![c] = Append(@, Screen!Assistant(n))]
    BY <1>2, <1>6 DEF Screen!StreamEnds, TurnTo
  <2>2. /\ scrStored' \in [Chats -> Seq(MessageType)] /\ \A k \in Chats : Belong(scrStored'[k], k, scrTurn)
        /\ \A k \in Chats : \A x : Screen!Contains(scrStored[k], x) => Screen!Contains(scrStored'[k], x)
        /\ \A k \in Chats : k # c => scrStored'[k] = scrStored[k]
        /\ scrStored'[c] = Append(scrStored[c], Screen!Assistant(n))
        /\ Screen!Contains(scrStored'[c], Screen!Assistant(n))
    BY <1>0, <2>1, StoredOK
  <2>3. /\ scrView' \in ViewType /\ scrView'.chat = scrView.chat /\ scrView'.route = scrView.route
        /\ Belong(scrView'.messages, scrView.chat, scrTurn) /\ scrView'.also \subseteq scrView.also
        /\ scrView.conn # n => scrView'.conn = scrView.conn /\ scrView'.status = scrView.status
        /\ scrView.conn # n /\ n \notin scrView.also => scrView' = scrView
        /\ scrView.conn = n => scrView'.conn = 0 /\ scrView'.messages = Append(scrView.messages, Screen!Assistant(n))
    BY <2>1, ReadOK
  <2>4. scrHist' \in ViewHistType /\ scrHist'.again = scrHist.again /\ scrHist'.odd = u /\ (scrHist.odd => scrHist'.odd)
    BY <1>2, <1>4, <2>1
  <2>5. ASSUME scrView.chat = c, ~scrHist'.odd
        PROVE  /\ Shows(scrStored[scrView.chat], scrTurn, scrView) => Shows(scrStored'[scrView.chat], scrTurn', scrView')
               /\ ~Waits(scrStored[scrView.chat], scrView, scrQuery[scrView.chat])
    <3>1. scrView.conn = n
      BY <1>2, <2>4, <2>5 DEF Screen!Unread, Screen!OnScreen
    <3> QED BY <1>0, <2>1, <2>2, <2>3, <2>5, <3>1 DEF Shows, Waits
  <2> QED BY <1>0, <1>1, <2>1, <2>2, <2>3, <2>4, <2>5, TurnGoesOn
<1>7. CASE Screen!StreamCloses(n)
  <2>1. /\ scrTurn[n].pc = "closing" /\ TurnTo(n, "done")
        /\ scrView' = Screen!Read(n) /\ UNCHANGED <<scrStored, scrHist>>
    BY <1>7 DEF Screen!StreamCloses, TurnTo
  <2>2. /\ scrView' \in ViewType /\ scrView'.chat = scrView.chat /\ scrView'.route = scrView.route
        /\ Belong(scrView'.messages, scrView.chat, scrTurn) /\ scrView'.also \subseteq scrView.also
        /\ scrView.conn # n => scrView'.conn = scrView.conn /\ scrView'.status = scrView.status
        /\ scrView.conn # n /\ n \notin scrView.also => scrView' = scrView
        /\ scrView.conn = n => scrView'.conn = 0
        /\ ~scrHist'.odd => n \notin scrView.also
    BY <2>1, ReadOK DEF ScreenInv, ViewFollows
  <2>3. ~scrHist'.odd /\ Shows(scrStored[scrView.chat], scrTurn, scrView) => Shows(scrStored'[scrView.chat], scrTurn', scrView')
    <3> SUFFICES ASSUME ~scrHist'.odd, Shows(scrStored[scrView.chat], scrTurn, scrView)
                 PROVE  Shows(scrStored'[scrView.chat], scrTurn', scrView')
      OBVIOUS
    <3>1. scrView.conn # n
      BY <1>0, <2>1 DEF Shows
    <3>2. scrView.conn # 0 => /\ scrTurn'[scrView.conn].pc = scrTurn[scrView.conn].pc
                              /\ scrTurn'[scrView.conn].edits = scrTurn[scrView.conn].edits
      <4>1. scrView.conn # 0 => scrView.conn \in Screen!Turns
        BY <1>0 DEF ViewType
      <4> QED BY <2>1, <3>1, <4>1, TurnMoves
    <3> QED BY <2>1, <2>2, <3>1, <3>2 DEF Shows
  <2>4. ~scrHist'.odd /\ Waits(scrStored[scrView.chat], scrView, scrQuery[scrView.chat])
          => Waits(scrStored'[scrView.chat], scrView', scrQuery[scrView.chat])
    BY <1>0, <2>1, <2>2 DEF Waits
  <2> QED BY <1>0, <1>1, <2>1, <2>2, <2>3, <2>4, TurnGoesOn
<1>8. CASE Screen!TurnFails(n)
  <2>1. /\ TurnTo(n, "done") /\ UNCHANGED scrStored
        /\ scrHist' = [scrHist EXCEPT !.odd = o]
        /\ scrView' = IF scrView.conn = n THEN [scrView EXCEPT !.status = "error", !.conn = 0]
                      ELSE [scrView EXCEPT !.also = @ \ {n}]
    BY <1>3, <1>8, ScreenBounds DEF Screen!TurnFails, TurnTo
  <2>2. /\ scrView' \in ViewType /\ scrView'.chat = scrView.chat /\ scrView'.route = scrView.route
        /\ scrView'.messages = scrView.messages /\ (scrView.conn = n => scrView'.conn = 0)
        /\ scrView'.also \subseteq scrView.also
        /\ scrView.conn # n => scrView'.conn = scrView.conn /\ scrView'.status = scrView.status
        /\ scrView.conn # n /\ n \notin scrView.also => scrView' = scrView
    <3>1. CASE scrView.conn = n
      BY <1>0, <2>1, <3>1 DEF ViewType
    <3>2. CASE scrView.conn # n
      BY <1>0, <2>1, <3>2 DEF ViewType
    <3> QED BY <3>1, <3>2
  <2>3. scrHist' \in ViewHistType /\ scrHist'.again = scrHist.again /\ scrHist'.odd = o /\ (scrHist.odd => scrHist'.odd)
    BY <1>3, <1>4, <2>1
  <2>4. scrView.chat = c => scrHist'.odd
    BY <1>3, <2>3 DEF Screen!OnScreen
  <2> QED BY <1>0, <1>1, <2>1, <2>2, <2>3, <2>4, TurnGoesOn
<1> QED BY <1>5, <1>6, <1>7, <1>8

\* A question begins a turn.
LEMMA TurnSent ==
  ASSUME ScreenInv, NEW n \in Screen!Turns, NEW x \in TurnType, scrTurn[n] = Screen!Unused, TurnIs(n, x),
         x.chat = scrView.chat, x.pc = "sent",
         scrView' \in ViewType, scrView'.chat = scrView.chat, scrView'.route = scrView.route, scrView'.conn = n,
         scrView'.status = "submitted", Belong(scrView'.messages, scrView.chat, scrTurn'),
         \A k \in scrView'.also : k \in scrView.also \/ (k = scrView.conn /\ k # 0),
         scrHist' \in ViewHistType, ~scrHist'.odd => scrView'.also = {},
         ~scrHist'.odd /\ ~scrHist'.again =>
           scrView.chat \in scrLoaded /\ Shows(scrStored[scrView.chat], scrTurn', scrView'),
         UNCHANGED <<scrStored, scrQuery, scrLoaded>>
  PROVE  ScreenInv'
<1>0. /\ scrStored \in [Chats -> Seq(MessageType)] /\ scrQuery \in [Chats -> QueryType] /\ scrView.chat \in Chats
      /\ scrTurn[n].pc = "none"
  BY DEF ScreenInv, ViewTypes, ViewType, Screen!Unused
<1>1. /\ scrTurn' \in [Screen!Turns -> TurnType]
      /\ \A k \in Screen!Turns : scrTurn'[k] = IF k = n THEN x ELSE scrTurn[k]
  BY TurnBegins
<1>2. ViewTypes'
  BY <1>1 DEF ScreenInv, ViewTypes
<1>3. AllBelong(scrStored', scrTurn', scrView', scrQuery')
  <2>1. \A c \in Chats : Belong(scrStored[c], c, scrTurn')
    BY <1>0, <1>1, BelongBegins DEF ScreenInv, AllBelong
  <2>2. \A c \in Chats : Belong(scrQuery[c].data, c, scrTurn') /\ Belong(scrQuery[c].got, c, scrTurn')
    <3>1. \A c \in Chats : scrQuery[c].data \in Seq(MessageType) /\ scrQuery[c].got \in Seq(MessageType)
      BY <1>0 DEF QueryType
    <3>2. \A c \in Chats : Belong(scrQuery[c].data, c, scrTurn) /\ Belong(scrQuery[c].got, c, scrTurn)
      BY DEF ScreenInv, AllBelong
    <3> QED BY <1>1, <3>1, <3>2, BelongBegins
  <2>3. \A k \in Screen!Turns : scrTurn'[k].pc # "none" => scrTurn'[k].chat \in Chats
    BY <1>0, <1>1 DEF ScreenInv, AllBelong
  <2>4. \A k \in scrView'.also : scrTurn'[k].chat = scrView.chat
    <3>1. \A k \in scrView'.also : scrTurn[k].chat = scrView.chat /\ k \in Screen!Turns
      BY DEF ScreenInv, ViewTypes, ViewType, AllBelong
    <3> QED BY <1>1, <3>1
  <2> QED BY <1>1, <2>1, <2>2, <2>3, <2>4 DEF AllBelong
<1>4. AnswersStored(scrStored', scrTurn')
  BY <1>1 DEF ScreenInv, AnswersStored
<1>5. ViewFollows(scrStored', scrTurn', scrView', scrQuery', scrLoaded', scrHist')
  BY DEF ScreenInv, ViewFollows
<1> QED BY <1>2, <1>3, <1>4, <1>5 DEF ScreenInv

LEMMA ScreenSubmits == ASSUME ScreenInv, NEW n \in Screen!Turns, Screen!Submit(n) PROVE ScreenInv'
<1> DEFINE x == [chat |-> scrView.chat, edits |-> 0, pc |-> "sent"]
           a == Append(scrView.messages, Screen!User(n))
<1>0. /\ scrView \in ViewType /\ scrView.chat \in Chats /\ scrHist \in ViewHistType /\ scrTurn[n] = Screen!Unused
      /\ scrView.messages \in Seq(MessageType) /\ Belong(scrView.messages, scrView.chat, scrTurn) /\ n # 0
  BY ScreenBounds DEF ScreenInv, ViewTypes, ViewType, AllBelong, Screen!Submit, Screen!Fresh
<1> DEFINE l == scrView.also \cup ({scrView.conn} \ {0})
<1>8. PICK o \in BOOLEAN : o = (scrHist.odd \/ scrView.conn # 0)
  OBVIOUS
<1>1. /\ TurnIs(n, x) /\ scrView' = [scrView EXCEPT !.messages = a, !.status = "submitted", !.conn = n, !.also = l]
      /\ scrHist' = [scrHist EXCEPT !.odd = o] /\ UNCHANGED <<scrStored, scrQuery, scrLoaded>>
  BY <1>8, ScreenBounds DEF Screen!Submit, TurnIs
<1>9. l \in SUBSET Screen!Turns
  BY <1>0 DEF ViewType
<1>2. x \in TurnType /\ x.chat = scrView.chat /\ x.pc = "sent" /\ x.edits = 0
  BY <1>0 DEF TurnType
<1> HIDE DEF x
<1>3. /\ scrTurn' \in [Screen!Turns -> TurnType]
      /\ \A k \in Screen!Turns : scrTurn'[k] = IF k = n THEN x ELSE scrTurn[k]
  BY <1>1, <1>2, TurnBegins
<1>4. a \in Seq(MessageType) /\ Belong(a, scrView.chat, scrTurn')
  <2>1. Belong(scrView.messages, scrView.chat, scrTurn')
    BY <1>0, <1>3, BelongBegins
  <2>2. scrTurn'[Screen!User(n).turn].chat = scrView.chat
    BY <1>2, <1>3, MessagesOK
  <2> QED BY <1>0, <2>1, <2>2, AddedOK, MessagesOK
<1>5. /\ scrView' \in ViewType /\ scrView'.chat = scrView.chat /\ scrView'.route = scrView.route /\ scrView'.messages = a
      /\ scrView'.conn = n /\ scrView'.status = "submitted" /\ scrView'.also = l
  <2> HIDE DEF a, l
  <2> QED BY <1>0, <1>1, <1>4, <1>9 DEF ViewType
<1>7. scrHist' \in ViewHistType /\ scrHist'.odd = o /\ scrHist'.again = scrHist.again
  BY <1>0, <1>1 DEF ViewHistType
<1>10. ~scrHist'.odd => ~scrHist.odd /\ scrView.conn = 0 /\ l = {}
  BY <1>7, <1>8 DEF ScreenInv, ViewFollows
<1>6. ASSUME ~scrHist'.odd, ~scrHist'.again
      PROVE  scrView.chat \in scrLoaded /\ Shows(scrStored[scrView.chat], scrTurn', scrView')
  <2>1. scrView.conn = 0 /\ ~Screen!IsLoading
    BY <1>6, <1>10 DEF Screen!Submit, Screen!CanSend, Screen!Suggests
  <2>2. ~Waits(scrStored[scrView.chat], scrView, scrQuery[scrView.chat])
    BY <2>1 DEF Waits, Screen!IsLoading
  <2>3. scrView.chat \in scrLoaded /\ Shows(scrStored[scrView.chat], scrTurn, scrView)
    BY <1>6, <1>7, <1>10, <2>2 DEF ScreenInv, ViewFollows
  <2>4. scrView.messages = scrStored[scrView.chat]
    BY <2>1, <2>3 DEF Shows
  <2> QED BY <1>0, <1>2, <1>3, <1>5, <2>3, <2>4 DEF Shows
<1>11. \A k \in scrView'.also : k \in scrView.also \/ (k = scrView.conn /\ k # 0)
  BY <1>5
<1> HIDE DEF l, a
<1> QED BY <1>0, <1>1, <1>2, <1>4, <1>5, <1>6, <1>7, <1>10, <1>11, TurnSent

\* What is sent of the messages before an edited question is some of them.
LEMMA SentAgainOK ==
  ASSUME NEW ms \in Seq(MessageType), NEW e
  PROVE  LET again == Screen!Regenerated(Screen!UpTo(ms, e)) IN
         /\ again \in Seq(MessageType) /\ \A c, turn : Belong(ms, c, turn) => Belong(again, c, turn)
         /\ again # <<>> => Screen!Last(again).turn \in Screen!Turns
<1> DEFINE I == {i \in 1..Len(ms) : ms[i] = Screen!User(e)}
           x == CHOOSE k \in I : \A j \in I : k <= j
           at == IF I # {} THEN x ELSE 0
           s == IF at = 0 THEN ms ELSE SubSeq(ms, 1, at)
           again == Screen!Regenerated(s)
<1>1. Screen!UpTo(ms, e) = s
  BY DEF Screen!UpTo, Screen!SelectInSeq, Screen!Min
<1>2. at \in 0..Len(ms)
  <2>1. I \subseteq Nat /\ I \subseteq 0..Len(ms) /\ 0 \in 0..Len(ms)
    OBVIOUS
  <2>2. I # {} => x \in I
    <3> HIDE DEF I
    <3> QED BY <2>1, Least
  <2> HIDE DEF x, I
  <2>3. I # {} => x \in 0..Len(ms)
    BY <2>1, <2>2
  <2> QED BY <2>1, <2>3
<1> HIDE DEF at
<1>3. s \in Seq(MessageType) /\ \A c, turn : Belong(ms, c, turn) => Belong(s, c, turn)
  BY <1>2, PrefixOK
<1> HIDE DEF s
<1>4. again \in Seq(MessageType) /\ \A c, turn : Belong(s, c, turn) => Belong(again, c, turn)
  <2>1. CASE s = <<>> \/ Screen!EndsWithQuestion(s)
    BY <1>3, <2>1 DEF Screen!Regenerated
  <2>2. CASE ~(s = <<>> \/ Screen!EndsWithQuestion(s))
    <3>1. again = SubSeq(s, 1, Len(s) - 1)
      BY <2>2 DEF Screen!Regenerated, Screen!Front
    <3>2. Len(s) - 1 \in 0..Len(s)
      BY <1>3, <2>2
    <3> QED BY <1>3, <3>1, <3>2, PrefixOK
  <2> QED BY <2>1, <2>2
<1> HIDE DEF again
<1>5. again # <<>> => Screen!Last(again).turn \in Screen!Turns
  <2> SUFFICES ASSUME again # <<>> PROVE again[Len(again)].turn \in Screen!Turns
    BY DEF Screen!Last
  <2>1. again[Len(again)] \in MessageType
    BY <1>4
  <2> QED BY <2>1 DEF MessageType
<1> QED BY <1>1, <1>3, <1>4, <1>5 DEF again

LEMMA ScreenSendsEdited == ASSUME ScreenInv, NEW n \in Screen!Turns, Screen!HandleSendEditedMessage(n) PROVE ScreenInv'
<1> DEFINE again == Screen!Regenerated(Screen!UpTo(scrView.messages, scrView.editing))
           x == [chat |-> scrView.chat, edits |-> Screen!Last(again).turn, pc |-> "sent"]
<1>0. /\ scrView \in ViewType /\ scrView.chat \in Chats /\ scrHist \in ViewHistType /\ scrTurn[n] = Screen!Unused
      /\ scrView.messages \in Seq(MessageType) /\ Belong(scrView.messages, scrView.chat, scrTurn) /\ n # 0
      /\ scrView.conn = 0
  BY ScreenBounds DEF ScreenInv, ViewTypes, ViewType, AllBelong, ViewFollows, Screen!HandleSendEditedMessage, Screen!Fresh,
                      Screen!CanSend
<1>1. /\ again \in Seq(MessageType) /\ Belong(again, scrView.chat, scrTurn)
      /\ again # <<>> => Screen!Last(again).turn \in Screen!Turns
  BY <1>0, SentAgainOK
<1>2. /\ IF again = <<>>
         THEN /\ scrView' = [scrView EXCEPT !.messages = <<>>, !.status = IF scrView.messages = <<>> THEN @ ELSE "error",
                                            !.editing = 0]
              /\ UNCHANGED scrTurn
         ELSE /\ scrView' = [scrView EXCEPT !.messages = again, !.status = "submitted", !.conn = n, !.editing = 0]
              /\ scrTurn' = [scrTurn EXCEPT ![n] = x]
      /\ scrHist' = [scrHist EXCEPT !.odd = TRUE] /\ UNCHANGED <<scrStored, scrQuery, scrLoaded>>
  BY ScreenBounds DEF Screen!HandleSendEditedMessage
<1> HIDE DEF again
<1>3. scrHist' \in ViewHistType /\ scrHist'.odd = TRUE
  BY <1>0, <1>2 DEF ViewHistType
<1>4. CASE again = <<>>
  <2> DEFINE st == IF scrView.messages = <<>> THEN scrView.status ELSE "error"
  <2>1. st \in {"ready", "submitted", "streaming", "error"}
    BY <1>0 DEF ViewType
  <2>2. scrView' = [scrView EXCEPT !.messages = <<>>, !.status = st, !.editing = 0] /\ UNCHANGED scrTurn
    BY <1>2, <1>4
  <2> HIDE DEF st
  <2>3. /\ scrView' \in ViewType /\ scrView'.chat = scrView.chat /\ scrView'.route = scrView.route
        /\ scrView'.messages = <<>> /\ scrView'.conn = 0 /\ scrView'.also = scrView.also
    BY <1>0, <2>1, <2>2, NoMessages DEF ViewType
  <2> QED BY <1>2, <1>3, <2>2, <2>3, NoMessages DEF ScreenInv, ViewTypes, AllBelong, ViewFollows
<1>5. CASE again # <<>>
  <2>1. x \in TurnType /\ x.chat = scrView.chat /\ x.pc = "sent"
    BY <1>0, <1>1, <1>5 DEF TurnType
  <2>2. /\ scrView' = [scrView EXCEPT !.messages = again, !.status = "submitted", !.conn = n, !.editing = 0]
        /\ TurnIs(n, x)
    BY <1>2, <1>5 DEF TurnIs
  <2> HIDE DEF x
  <2>3. /\ scrView' \in ViewType /\ scrView'.chat = scrView.chat /\ scrView'.route = scrView.route
        /\ scrView'.messages = again /\ scrView'.conn = n /\ scrView'.status = "submitted" /\ scrView'.also = scrView.also
    BY <1>0, <1>1, <2>2 DEF ViewType
  <2>4. \A k \in Screen!Turns : k # n => scrTurn'[k] = scrTurn[k]
    BY <2>1, <2>2, TurnBegins
  <2>5. Belong(scrView'.messages, scrView.chat, scrTurn')
    BY <1>0, <1>1, <2>3, <2>4, BelongBegins
  <2> QED BY <1>0, <1>2, <1>3, <2>1, <2>2, <2>3, <2>5, TurnSent
<1> QED BY <1>4, <1>5

\* A stream that is joined by a screen that shows what is stored has its answer still to
\* come.
LEMMA Joins ==
  ASSUME ScreenInv, NEW v \in ViewType, Screen!Active(v.chat) # 0
  PROVE  LET w == [v EXCEPT !.status = "streaming", !.conn = Screen!Active(v.chat)] IN
         /\ w \in ViewType /\ w.chat = v.chat /\ w.route = v.route /\ w.messages = v.messages /\ w.conn # 0
         /\ w.status = "streaming" /\ scrTurn[w.conn].chat = v.chat /\ w.also = v.also
         /\ ~Screen!Misses(v) /\ v.messages = scrStored[v.chat] => Shows(scrStored[v.chat], scrTurn, w)
<1> DEFINE n == Screen!Active(v.chat)
           w == [v EXCEPT !.status = "streaming", !.conn = n]
<1>1. v.chat \in Chats
  BY DEF ViewType
<1>2. n \in Screen!Turns /\ scrTurn[n].chat = v.chat /\ scrTurn[n].pc \in {"streaming", "closing"}
  BY <1>1, ActiveOK
<1>3. ~Screen!Misses(v) => ~Screen!Contains(v.messages, Screen!Assistant(n))
  BY DEF Screen!Misses
<1> HIDE DEF n
<1>4. /\ w \in ViewType /\ w.chat = v.chat /\ w.route = v.route /\ w.messages = v.messages /\ w.conn = n
      /\ w.status = "streaming" /\ w.also = v.also
  BY <1>2 DEF ViewType
<1> HIDE DEF w
<1>5. ASSUME ~Screen!Misses(v), v.messages = scrStored[v.chat] PROVE Shows(scrStored[v.chat], scrTurn, w)
  <2>1. scrTurn[n].pc # "closing"
    BY <1>2, <1>3, <1>5 DEF ScreenInv, AnswersStored
  <2> QED BY <1>2, <1>4, <1>5, <2>1, ScreenBounds DEF Shows
<1> QED BY <1>2, <1>4, <1>5, ScreenBounds DEF w, n

LEMMA Resumed ==
  ASSUME ScreenInv, NEW v \in ViewType, Screen!ResumesOrNot(v),
         v.conn # 0 => scrTurn[v.conn].chat = v.chat /\ v.status \in {"submitted", "streaming"}
  PROVE  /\ scrView' \in ViewType /\ scrView'.chat = v.chat /\ scrView'.route = v.route /\ scrView'.messages = v.messages
         /\ scrView'.also = v.also
         /\ scrView'.conn # 0 => scrTurn[scrView'.conn].chat = v.chat /\ scrView'.status \in {"submitted", "streaming"}
         /\ scrHist' \in ViewHistType /\ scrHist'.again = scrHist.again /\ (scrHist.odd => scrHist'.odd)
         /\ ~scrHist'.odd => v.conn = 0 /\ (v.messages = scrStored[v.chat] => Shows(scrStored[v.chat], scrTurn, scrView'))
<1>0. scrHist \in ViewHistType
  BY DEF ScreenInv, ViewTypes
<1>1. PICK o \in BOOLEAN : o = (scrHist.odd \/ Screen!Misses(v))
  OBVIOUS
<1>2. CASE Screen!Resumes(v)
  <2>1. scrHist' = [scrHist EXCEPT !.odd = o]
    BY <1>1, <1>2 DEF Screen!Resumes
  <2>2. scrHist' \in ViewHistType /\ scrHist'.again = scrHist.again /\ scrHist'.odd = o
    BY <1>0, <2>1 DEF ViewHistType
  <2>3. ~scrHist'.odd => ~Screen!Misses(v) /\ v.conn = 0 /\ Screen!Active(v.chat) # 0
    BY <1>1, <2>2, ScreenBounds DEF Screen!Misses
  <2>4. CASE Screen!Active(v.chat) = 0
    <3>1. scrView' = v \/ (v.conn = 0 /\ scrView' = [v EXCEPT !.status = "ready"])
      BY <1>2, <2>4, ScreenBounds DEF Screen!Resumes
    <3>2. /\ scrView' \in ViewType /\ scrView'.chat = v.chat /\ scrView'.route = v.route /\ scrView'.messages = v.messages
          /\ scrView'.conn = v.conn /\ (v.conn # 0 => scrView'.status = v.status) /\ scrView'.also = v.also
      BY <3>1 DEF ViewType
    <3> QED BY <1>1, <2>2, <2>3, <2>4, <3>2
  <2>5. CASE Screen!Active(v.chat) # 0
    <3>1. scrView' = [v EXCEPT !.status = "streaming", !.conn = Screen!Active(v.chat)]
      BY <1>2, <2>5, ScreenBounds DEF Screen!Resumes
    <3> QED BY <1>1, <2>2, <2>3, <2>5, <3>1, Joins
  <2> QED BY <2>4, <2>5
<1>3. CASE scrView' = v /\ scrHist' = [scrHist EXCEPT !.odd = TRUE]
  BY <1>0, <1>3 DEF ViewHistType
<1> QED BY <1>2, <1>3 DEF Screen!ResumesOrNot

LEMMA ScreenLoads == ASSUME ScreenInv, NEW c \in Chats, Screen!MessagesLoaded(c) PROVE ScreenInv'
<1> DEFINE got == scrQuery[c].got
           x == [Screen!NoQuery EXCEPT !.has = TRUE, !.data = got]
           v == Screen!Replaced(c, got)
           shown == scrView.chat = c /\ scrView.route = "chat"
<1>0. /\ scrView \in ViewType /\ scrHist \in ViewHistType /\ scrQuery \in [Chats -> QueryType] /\ scrQuery[c] \in QueryType
      /\ got \in Seq(MessageType) /\ Belong(got, c, scrTurn) /\ scrQuery[c].pc = "answered" /\ scrLoaded \in SUBSET Chats
      /\ Belong(scrView.messages, scrView.chat, scrTurn) /\ scrView.messages \in Seq(MessageType)
      /\ scrView.conn # 0 => scrTurn[scrView.conn].chat = scrView.chat /\ scrView.status \in {"submitted", "streaming"}
  BY DEF ScreenInv, ViewTypes, ViewType, QueryType, AllBelong, ViewFollows, Screen!MessagesLoaded
<1>1. /\ scrQuery' = [scrQuery EXCEPT ![c] = x] /\ UNCHANGED <<scrStored, scrTurn>>
      /\ scrLoaded' = IF shown THEN scrLoaded \cup {c} ELSE scrLoaded
      /\ ~shown => UNCHANGED <<scrView, scrHist>>
      /\ shown => Screen!ResumesOrNot(v) \/ (scrView' = v /\ UNCHANGED scrHist)
  BY DEF Screen!MessagesLoaded
<1>2. x \in QueryType /\ x.data = got /\ x.got = <<>>
  BY <1>0, NoMessages DEF QueryType, Screen!NoQuery
<1>3. CASE ~shown
  <2>1. scrView.chat # c \/ c \in scrLoaded
    BY <1>0, <1>3 DEF ScreenInv, ViewFollows, ViewType
  <2>2. Belong(x.data, c, scrTurn) /\ Belong(x.got, c, scrTurn)
    BY <1>0, <1>2, NoMessages
  <2> HIDE DEF x
  <2>3. scrHist' = scrHist /\ scrView' = scrView /\ scrLoaded' = scrLoaded
    BY <1>1, <1>3
  <2> QED BY <1>0, <1>1, <1>2, <2>1, <2>2, <2>3, QueryChanges
<1>4. CASE shown
  <2>1. /\ v \in ViewType /\ v.chat = c /\ v.route = "chat" /\ v.conn = scrView.conn /\ v.status = scrView.status
        /\ Belong(v.messages, c, scrTurn) /\ v.also = scrView.also
        /\ c \in scrLoaded => v = scrView
        /\ c \notin scrLoaded => v.messages = got
    <3> HIDE DEF got
    <3> QED BY <1>0, <1>4 DEF Screen!Replaced, ViewType
  <2> HIDE DEF v, x
  <2>2. \A k \in Chats : scrQuery'[k] = IF k = c THEN x ELSE scrQuery[k]
    BY <1>0, <1>1
  <2>3. scrQuery' \in [Chats -> QueryType]
    BY <1>0, <1>1, <1>2
  <2>4. /\ scrView' \in ViewType /\ scrView'.chat = v.chat /\ scrView'.route = v.route /\ scrView'.messages = v.messages
        /\ scrView'.also = scrView.also
        /\ scrView'.conn # 0 => scrTurn[scrView'.conn].chat = v.chat /\ scrView'.status \in {"submitted", "streaming"}
        /\ scrHist' \in ViewHistType /\ scrHist'.again = scrHist.again /\ (scrHist.odd => scrHist'.odd)
        /\ \/ scrView' = v
           \/ ~scrHist'.odd => v.conn = 0 /\ (v.messages = scrStored[v.chat] => Shows(scrStored[v.chat], scrTurn, scrView'))
    <3>1. CASE Screen!ResumesOrNot(v)
      BY <1>0, <1>4, <2>1, <3>1, Resumed
    <3>2. CASE scrView' = v /\ UNCHANGED scrHist
      BY <1>0, <1>4, <2>1, <3>2
    <3> QED BY <1>1, <1>4, <3>1, <3>2
  <2>5. scrLoaded' = scrLoaded \cup {c}
    BY <1>1, <1>4
  <2>6. ViewTypes'
    BY <1>0, <1>1, <2>3, <2>4, <2>5 DEF ScreenInv, ViewTypes
  <2>7. AllBelong(scrStored', scrTurn', scrView', scrQuery')
    <3>1. \A k \in Chats : Belong(scrQuery'[k].data, k, scrTurn) /\ Belong(scrQuery'[k].got, k, scrTurn)
      BY <1>0, <1>2, <2>2, NoMessages DEF ScreenInv, AllBelong
    <3> QED BY <1>1, <2>1, <2>4, <3>1 DEF ScreenInv, AllBelong
  <2>8. ASSUME ~scrHist'.odd, ~scrHist'.again PROVE Shows(scrStored[c], scrTurn, scrView')
    <3>1. IF c \in scrLoaded THEN Shows(scrStored[c], scrTurn, scrView) ELSE Waits(scrStored[c], scrView, scrQuery[c])
      BY <1>4, <2>4, <2>8 DEF ScreenInv, ViewFollows
    <3>2. CASE c \in scrLoaded
      <4>1. v = scrView /\ Shows(scrStored[c], scrTurn, scrView)
        BY <2>1, <3>1, <3>2
      <4>2. scrView.conn = 0 => scrView.messages = scrStored[c]
        BY <4>1 DEF Shows
      <4> QED BY <2>1, <2>4, <2>8, <4>1, <4>2
    <3>3. CASE c \notin scrLoaded
      <4>1. scrView.conn = 0 /\ got = scrStored[c]
        BY <1>0, <3>1, <3>3 DEF Waits
      <4>2. v.conn = 0 /\ v.messages = scrStored[c]
        BY <2>1, <3>3, <4>1
      <4> QED BY <2>1, <2>4, <2>8, <4>2 DEF Shows
    <3> QED BY <3>2, <3>3
  <2>9. ViewFollows(scrStored', scrTurn', scrView', scrQuery', scrLoaded', scrHist')
    <3>1. ~scrHist'.odd => scrView'.also = {}
      BY <2>4 DEF ScreenInv, ViewFollows
    <3> QED BY <1>1, <2>1, <2>4, <2>5, <2>8, <3>1 DEF ViewFollows
  <2> QED BY <1>1, <2>6, <2>7, <2>9 DEF ScreenInv
<1> QED BY <1>3, <1>4

\* A chat is begun, and the page loaded under a chat's address.
LEMMA ScreenBegins == ASSUME ScreenInv, NEW c \in Chats, Screen!NewChat(c) \/ Screen!Reload(c) PROVE ScreenInv'
<1>0. /\ scrHist \in ViewHistType /\ scrQuery \in [Chats -> QueryType] /\ scrLoaded \in SUBSET Chats
  BY DEF ScreenInv, ViewTypes
<1>1. PICK n \in Nat : n = scrHist.visits + 1
  BY <1>0 DEF ViewHistType
<1>2. UNCHANGED <<scrStored, scrTurn>>
  BY DEF Screen!NewChat, Screen!Reload
<1>3. CASE Screen!NewChat(c)
  <2>1. /\ scrView' = Screen!Empty(c, "new") /\ scrLoaded' = scrLoaded \cup {c} /\ UNCHANGED scrQuery
        /\ scrHist' = [scrHist EXCEPT !.visits = n, !.odd = FALSE, !.again = FALSE, !.used = scrHist.used \cup {c}]
        /\ scrStored[c] = <<>>
    BY <1>1, <1>3 DEF Screen!NewChat
  <2>2. /\ scrView' \in ViewType /\ scrView'.chat = c /\ scrView'.messages = <<>> /\ scrView'.conn = 0 /\ scrView'.also = {}
    BY <2>1, NoMessages, ScreenBounds DEF Screen!Empty, ViewType
  <2>3. scrHist' \in ViewHistType
    BY <1>0, <2>1 DEF ViewHistType
  <2>4. ViewTypes' /\ AllBelong(scrStored', scrTurn', scrView', scrQuery')
    BY <1>2, <2>1, <2>2, <2>3, NoMessages DEF ScreenInv, ViewTypes, AllBelong
  <2>5. ViewFollows(scrStored', scrTurn', scrView', scrQuery', scrLoaded', scrHist')
    BY <1>2, <2>1, <2>2 DEF ViewFollows, Shows
  <2> QED BY <1>2, <2>4, <2>5 DEF ScreenInv
<1>4. CASE Screen!Reload(c)
  <2> DEFINE x == [Screen!NoQuery EXCEPT !.pc = "asks"]
  <2>1. /\ scrView' = Screen!Empty(c, "chat") /\ scrLoaded' = {}
        /\ scrQuery' = [k \in Chats |-> IF k = c THEN x ELSE Screen!NoQuery]
        /\ scrHist' = [scrHist EXCEPT !.visits = n, !.odd = FALSE, !.again = FALSE]
    BY <1>1, <1>4 DEF Screen!Reload
  <2>2. /\ Screen!NoQuery \in QueryType /\ Screen!NoQuery.data = <<>> /\ Screen!NoQuery.got = <<>>
        /\ x \in QueryType /\ x.data = <<>> /\ x.got = <<>> /\ ~x.has /\ x.pc = "asks"
    BY NoMessages DEF QueryType, Screen!NoQuery
  <2> HIDE DEF x
  <2>3. /\ scrView' \in ViewType /\ scrView'.chat = c /\ scrView'.messages = <<>> /\ scrView'.conn = 0 /\ scrView'.route = "chat"
        /\ scrView'.also = {}
    BY <2>1, NoMessages, ScreenBounds DEF Screen!Empty, ViewType
  <2>4. scrHist' \in ViewHistType
    BY <1>0, <2>1 DEF ViewHistType
  <2>5. ViewTypes' /\ AllBelong(scrStored', scrTurn', scrView', scrQuery')
    BY <1>2, <2>1, <2>2, <2>3, <2>4, NoMessages DEF ScreenInv, ViewTypes, AllBelong
  <2>6. ViewFollows(scrStored', scrTurn', scrView', scrQuery', scrLoaded', scrHist')
    BY <1>2, <2>1, <2>2, <2>3 DEF ViewFollows, Waits
  <2> QED BY <1>2, <2>5, <2>6 DEF ScreenInv
<1> QED BY <1>3, <1>4

\* A chat is clicked: under its new address the chat on screen stays, another one starts
\* over with what its query holds.
LEMMA ScreenOpens == ASSUME ScreenInv, NEW c \in Chats, Screen!OpenChat(c) PROVE ScreenInv'
<1> DEFINE same == scrView.chat = c
           v == IF same THEN [scrView EXCEPT !.route = "chat"] ELSE Screen!Opened(c)
           joins == scrQuery[c].has /\ Screen!EndsWithQuestion(scrQuery[c].data)
           x == [scrQuery[c] EXCEPT !.pc = "asks"]
<1>0. /\ scrView \in ViewType /\ scrView.chat \in Chats /\ scrHist \in ViewHistType /\ scrLoaded \in SUBSET Chats
      /\ scrQuery \in [Chats -> QueryType] /\ scrQuery[c] \in QueryType /\ scrQuery[c].data \in Seq(MessageType)
      /\ Belong(scrQuery[c].data, c, scrTurn)
      /\ Belong(scrView.messages, scrView.chat, scrTurn) /\ scrView.messages \in Seq(MessageType)
      /\ scrView.conn # 0 => scrTurn[scrView.conn].chat = scrView.chat /\ scrView.status \in {"submitted", "streaming"}
  BY DEF ScreenInv, ViewTypes, ViewType, QueryType, AllBelong, ViewFollows
<1>1. PICK n \in Nat : n = scrHist.visits + 1
  BY <1>0 DEF ViewHistType
<1>2. PICK r \in BOOLEAN : r = (c \in scrLoaded \/ scrQuery[c] # Screen!NoQuery)
  OBVIOUS
<1>3. PICK m \in BOOLEAN : m = ((IF same THEN scrHist.odd ELSE FALSE) \/ Screen!Misses(v))
  OBVIOUS
<1> DEFINE o == IF same THEN scrHist.odd ELSE FALSE
           a == IF same THEN scrHist.again ELSE r
           h == [scrHist EXCEPT !.visits = n, !.odd = o, !.again = a]
<1>4. h \in ViewHistType /\ h.odd = o /\ h.again = a
  <2>1. o \in BOOLEAN /\ a \in BOOLEAN
    BY <1>0 DEF ViewHistType
  <2> HIDE DEF o, a
  <2> QED BY <1>0, <2>1 DEF ViewHistType
<1>5. /\ v \in ViewType /\ v.chat = c /\ v.route = "chat" /\ Belong(v.messages, c, scrTurn)
      /\ v.conn # 0 => scrTurn[v.conn].chat = c /\ v.status \in {"submitted", "streaming"}
      /\ same => v.messages = scrView.messages /\ v.conn = scrView.conn /\ v.also = scrView.also
      /\ ~same => v.messages = scrQuery[c].data /\ v.conn = 0 /\ v.also = {}
  <2>1. CASE same
    <3>1. v = [scrView EXCEPT !.route = "chat"]
      BY <2>1
    <3> HIDE DEF v
    <3>2. /\ v \in ViewType /\ v.chat = c /\ v.route = "chat" /\ v.messages = scrView.messages /\ v.conn = scrView.conn
          /\ v.status = scrView.status /\ v.also = scrView.also
      BY <1>0, <2>1, <3>1 DEF ViewType
    <3> QED BY <1>0, <2>1, <3>2
  <2>2. CASE ~same
    <3>1. v = Screen!Opened(c)
      BY <2>2
    <3> HIDE DEF v
    <3>2. v \in ViewType /\ v.chat = c /\ v.route = "chat" /\ v.messages = scrQuery[c].data /\ v.conn = 0 /\ v.also = {}
      BY <1>0, <3>1, ScreenBounds DEF Screen!Opened, Screen!Empty, ViewType
    <3> QED BY <1>0, <2>2, <3>2
  <2> QED BY <2>1, <2>2
<1>6. /\ joins => /\ scrView' = IF Screen!Active(c) = 0 THEN v ELSE [v EXCEPT !.status = "streaming", !.conn = Screen!Active(c)]
                  /\ scrHist' = [h EXCEPT !.odd = m]
      /\ ~joins => scrView' = v /\ scrHist' = h
      /\ scrLoaded' = IF scrQuery[c].has THEN scrLoaded \cup {c} ELSE scrLoaded
      /\ UNCHANGED <<scrStored, scrTurn>> /\ ~(same /\ scrView.route = "chat")
  <2>1. h = [scrHist EXCEPT !.visits = @ + 1, !.odd = IF scrView.chat = c THEN @ ELSE FALSE,
                            !.again = IF scrView.chat = c THEN @ ELSE c \in scrLoaded \/ scrQuery[c] # Screen!NoQuery]
    BY <1>1, <1>2
  <2>2. [h EXCEPT !.odd = m] = [h EXCEPT !.odd = @ \/ Screen!Misses(v)]
    BY <1>3, <1>4
  <2> QED BY <2>1, <2>2, ScreenBounds DEF Screen!OpenChat
<1>7. /\ scrQuery' = scrQuery \/ (scrQuery' = [scrQuery EXCEPT ![c] = x] /\ scrQuery[c].pc = "none")
      /\ ~scrQuery[c].has /\ scrQuery[c].pc = "none" => scrQuery' = [scrQuery EXCEPT ![c] = x]
  BY DEF Screen!OpenChat
<1>8. x \in QueryType /\ x.data = scrQuery[c].data /\ x.got = scrQuery[c].got /\ x.has = scrQuery[c].has /\ x.pc = "asks"
  BY <1>0 DEF QueryType
<1> HIDE DEF v, h, x
<1>9. /\ scrQuery' \in [Chats -> QueryType]
      /\ \A k \in Chats : scrQuery'[k].data = scrQuery[k].data /\ scrQuery'[k].got = scrQuery[k].got
      /\ ~scrQuery[c].has /\ scrQuery[c].pc = "none" => ~scrQuery'[c].has /\ scrQuery'[c].pc = "asks"
  BY <1>0, <1>7, <1>8
<1>10. /\ scrHist' \in ViewHistType /\ scrHist'.again = a /\ (~scrHist'.odd => ~o)
       /\ joins => (~scrHist'.odd => ~Screen!Misses(v))
  <2>1. CASE joins
    <3>1. scrHist' = [h EXCEPT !.odd = m]
      BY <1>6, <2>1
    <3>2. scrHist' \in ViewHistType /\ scrHist'.odd = m /\ scrHist'.again = h.again
      BY <1>4, <3>1 DEF ViewHistType
    <3> QED BY <1>3, <1>4, <3>2
  <2>2. CASE ~joins
    BY <1>4, <1>6, <2>2
  <2> QED BY <2>1, <2>2
<1>11. /\ scrView' \in ViewType /\ scrView'.chat = c /\ scrView'.route = "chat" /\ scrView'.messages = v.messages
       /\ scrView'.also = v.also
       /\ scrView'.conn # 0 => scrTurn[scrView'.conn].chat = c /\ scrView'.status \in {"submitted", "streaming"}
       /\ joins /\ ~scrHist'.odd /\ v.messages = scrStored[c] => v.conn = 0 /\ Shows(scrStored[c], scrTurn, scrView')
       /\ joins /\ ~scrHist'.odd => v.conn = 0
  <2>1. CASE joins /\ Screen!Active(c) # 0
    <3>1. scrView' = [v EXCEPT !.status = "streaming", !.conn = Screen!Active(v.chat)]
      BY <1>5, <1>6, <2>1
    <3>2. ~scrHist'.odd => v.conn = 0
      BY <1>10, <2>1, ScreenBounds DEF Screen!Misses
    <3> QED BY <1>5, <1>10, <2>1, <3>1, <3>2, Joins
  <2>2. CASE joins /\ Screen!Active(c) = 0
    <3>1. scrView' = v
      BY <1>6, <2>2
    <3>2. scrHist'.odd
      BY <1>5, <1>10, <2>2, ScreenBounds DEF Screen!Misses
    <3> QED BY <1>5, <3>1, <3>2
  <2>3. CASE ~joins
    BY <1>5, <1>6, <2>3
  <2> QED BY <2>1, <2>2, <2>3
<1>12. ViewTypes'
  BY <1>0, <1>6, <1>9, <1>10, <1>11 DEF ScreenInv, ViewTypes
<1>16. (\A k \in v.also : scrTurn[k].chat = c) /\ (~scrHist'.odd => v.also = {})
  BY <1>5, <1>10 DEF ScreenInv, AllBelong, ViewFollows
<1>13. AllBelong(scrStored', scrTurn', scrView', scrQuery')
  BY <1>5, <1>6, <1>9, <1>11, <1>16 DEF ScreenInv, AllBelong
<1>14. ASSUME ~scrHist'.odd, ~scrHist'.again
       PROVE  IF c \in scrLoaded' THEN Shows(scrStored[c], scrTurn, scrView') ELSE Waits(scrStored[c], scrView', scrQuery'[c])
  <2>1. CASE same
    <3>1. c \in scrLoaded /\ c \in scrLoaded' /\ ~scrHist.odd /\ ~scrHist.again
      BY <1>0, <1>6, <1>10, <1>14, <2>1 DEF ScreenInv, ViewFollows, ViewType
    <3>2. Shows(scrStored[c], scrTurn, scrView)
      BY <2>1, <3>1 DEF ScreenInv, ViewFollows
    <3>3. CASE joins
      <4>1. v.conn = 0 /\ scrView.conn = 0
        BY <1>5, <1>11, <1>14, <2>1, <3>3
      <4>2. v.messages = scrStored[c]
        BY <1>5, <2>1, <3>2, <4>1 DEF Shows
      <4> QED BY <1>11, <1>14, <3>1, <3>3, <4>2
    <3>4. CASE ~joins
      BY <1>5, <1>6, <2>1, <3>1, <3>2, <3>4 DEF Shows
    <3> QED BY <3>3, <3>4
  <2>2. CASE ~same
    <3>1. c \notin scrLoaded /\ scrQuery[c] = Screen!NoQuery
      BY <1>2, <1>10, <1>14, <2>2
    <3>2. ~scrQuery[c].has /\ scrQuery[c].data = <<>> /\ scrQuery[c].pc = "none"
      BY <3>1 DEF Screen!NoQuery
    <3>3. c \notin scrLoaded' /\ scrView' = v /\ v.conn = 0 /\ v.messages = <<>> /\ v.route = "chat"
      BY <1>5, <1>6, <2>2, <3>1, <3>2
    <3> QED BY <1>9, <3>2, <3>3 DEF Waits
  <2> QED BY <2>1, <2>2
<1>15. ViewFollows(scrStored', scrTurn', scrView', scrQuery', scrLoaded', scrHist')
  BY <1>6, <1>11, <1>14, <1>16 DEF ViewFollows
<1> QED BY <1>6, <1>12, <1>13, <1>15 DEF ScreenInv

LEMMA ScreenNext == ScreenInv /\ Screen!Next => ScreenInv'
<1> SUFFICES ASSUME ScreenInv, Screen!Next PROVE ScreenInv'
  OBVIOUS
<1>1. ASSUME NEW c \in Chats,
             \/ Screen!OpenChat(c) \/ Screen!NewChat(c) \/ Screen!Reload(c)
             \/ Screen!ListMessages(c) \/ Screen!MessagesLoaded(c) \/ Screen!LoadFails(c)
      PROVE  ScreenInv'
  BY <1>1, ScreenOpens, ScreenBegins, QuerySteps, ScreenLoads
<1>2. ASSUME NEW n \in Screen!Turns,
             \/ Screen!Submit(n) \/ Screen!HandleEditMessage(n) \/ Screen!HandleSendEditedMessage(n)
             \/ Screen!Begin(n) \/ Screen!StreamEnds(n) \/ Screen!StreamCloses(n) \/ Screen!TurnFails(n)
      PROVE  ScreenInv'
  BY <1>2, ScreenSubmits, ScreenSendsEdited, EditSteps, TurnSteps
<1>3. CASE Screen!Refetch \/ Screen!HandleCancelEdit \/ Screen!Clear \/ Screen!Stop
  BY <1>3, QuerySteps, EditSteps
<1> QED BY <1>1, <1>2, <1>3 DEF Screen!Next

LEMMA ScreenTells == ScreenInv => Screen!TypeOK /\ Screen!ViewBelongs /\ Screen!ViewTells
<1> SUFFICES ASSUME ScreenInv PROVE Screen!TypeOK /\ Screen!ViewBelongs /\ Screen!ViewTells
  OBVIOUS
<1>1. Screen!TypeOK
  BY ScreenBounds DEF ScreenInv, ViewTypes, ViewType, TurnType, QueryType, Screen!TypeOK
<1>2. Screen!ViewBelongs
  <2>1. DOMAIN scrView.messages = 1..Len(scrView.messages)
    BY DEF ScreenInv, ViewTypes, ViewType
  <2>2. \A n \in scrView.also \cup ({scrView.conn} \ {0}) : scrTurn[n].chat = scrView.chat
    BY DEF ScreenInv, AllBelong
  <2> QED BY <2>1, <2>2, ScreenBounds DEF ScreenInv, AllBelong, Belong, Screen!ViewBelongs
<1>3. Screen!ViewTells
  <2> SUFFICES ASSUME Screen!Quiet, ~scrHist.odd, ~scrHist.again PROVE scrView.messages = scrStored[scrView.chat]
    BY DEF Screen!ViewTells
  <2>1. scrView.conn = 0 /\ scrQuery[scrView.chat].pc = "none"
    BY ScreenBounds DEF Screen!Quiet
  <2> QED BY <2>1 DEF ScreenInv, ViewFollows, Shows, Waits
<1> QED BY <1>1, <1>2, <1>3

-----------------------------------------------------------------------------
(* The sidebar                                                              *)

\* The entries of a page, by chat, with the time each stands under; the time of each chat
\* at the server.
Chart == UNION {[D -> Nat] : D \in SUBSET Bar!AllChats}
ListPage == [chats: Chart, more: BOOLEAN]
Times == [Bar!AllChats -> Nat]

LEMMA BarBounds == /\ Bar!AllChats = 1..MaxChats /\ Bar!AllChats \subseteq Nat /\ 0 \notin Bar!AllChats
                   /\ PageSize \in Nat \ {0} /\ IsFiniteSet(Bar!AllChats) /\ MaxChats \in Nat \ {0}
<1>1. MaxChats \in Nat \ {0} /\ PageSize \in Nat \ {0}
  BY ChatAssumption
<1>2. IsFiniteSet(1..MaxChats)
  BY <1>1, FS_Interval
<1> QED BY <1>1, <1>2 DEF Bar!AllChats

LEMMA ChartOK ==
  ASSUME NEW f \in Chart
  PROVE  DOMAIN f \subseteq Bar!AllChats /\ (\A c \in DOMAIN f : f[c] \in Nat) /\ f \in [DOMAIN f -> Nat]
BY DEF Chart

LEMMA ChartOf ==
  ASSUME NEW D \in SUBSET Bar!AllChats, NEW f \in [D -> Nat]
  PROVE  f \in Chart /\ DOMAIN f = D
BY DEF Chart

LEMMA EntriesIn ==
  ASSUME NEW pages \in Seq(ListPage)
  PROVE  /\ \A c : c \in Bar!Entries(pages) <=> \E i \in 1..Len(pages) : c \in DOMAIN pages[i].chats
         /\ DOMAIN pages = 1..Len(pages) /\ Len(pages) \in Nat
         /\ \A i \in 1..Len(pages) : /\ pages[i] \in ListPage /\ pages[i].chats \in Chart
                                     /\ DOMAIN pages[i].chats \subseteq Bar!AllChats
                                     /\ \A c \in DOMAIN pages[i].chats : pages[i].chats[c] \in Nat
         /\ Bar!Entries(pages) \subseteq Bar!AllChats
<1>1. DOMAIN pages = 1..Len(pages) /\ Len(pages) \in Nat
  OBVIOUS
<1>2. ASSUME NEW i \in 1..Len(pages)
      PROVE  /\ pages[i] \in ListPage /\ pages[i].chats \in Chart
             /\ DOMAIN pages[i].chats \subseteq Bar!AllChats
             /\ \A c \in DOMAIN pages[i].chats : pages[i].chats[c] \in Nat
  <2>1. pages[i] \in ListPage
    OBVIOUS
  <2>2. pages[i].chats \in Chart
    BY <2>1 DEF ListPage
  <2> QED BY <2>1, <2>2, ChartOK
<1>3. \A c : c \in Bar!Entries(pages) <=> \E i \in 1..Len(pages) : c \in DOMAIN pages[i].chats
  BY <1>1 DEF Bar!Entries
<1> QED BY <1>1, <1>2, <1>3

\* Pages that fit what the server has: every entry is there and is not about to be deleted;
\* no chat is missing above an entry, nor at the end, but those the sidebar knows of
\* otherwise; what a page lists stands above all that later pages list; and an entry stands
\* where the server has it, or was put first here.
Within(pages, st, sent) == \A c \in Bar!Entries(pages) : st[c] > 0 /\ c \notin sent
Gapless(pages, st, known) ==
    \A c \in Bar!Entries(pages), d \in Bar!AllChats : st[d] > st[c] => d \in Bar!Entries(pages) \cup known
EndsAll(pages, st, known) ==
    \A i \in 1..Len(pages) : ~pages[i].more =>
       \A d \in Bar!AllChats : st[d] > 0 => d \in Bar!Entries(pages) \cup known
Descends(pages, st, local) ==
    \A i, j \in 1..Len(pages) : i < j =>
       \A c \in DOMAIN pages[i].chats \ local, e \in DOMAIN pages[j].chats : st[c] > st[e]
First(page, e, local) == e \in local /\ \A c \in DOMAIN page.chats \ local : page.chats[e] > page.chats[c]
Placed(pages, st, local) ==
    \A i \in 1..Len(pages) : \A e \in DOMAIN pages[i].chats :
       pages[i].chats[e] = st[e] \/ (i = 1 /\ First(pages[i], e, local))
Fits(pages, st, local, sent, known) ==
    /\ Within(pages, st, sent) /\ Gapless(pages, st, known) /\ EndsAll(pages, st, known)
    /\ Descends(pages, st, local) /\ Placed(pages, st, local)
Until(pages, now) == \A i \in 1..Len(pages) : \A e \in DOMAIN pages[i].chats : pages[i].chats[e] <= now

LEMMA NoPages ==
  /\ <<>> \in Seq(ListPage) /\ Len(<<>>) = 0 /\ Bar!Entries(<<>>) = {}
  /\ \A st, local, sent, known : Fits(<<>>, st, local, sent, known)
  /\ \A now : Until(<<>>, now)
<1>1. <<>> \in Seq(ListPage) /\ Len(<<>>) = 0
  OBVIOUS
<1>2. Bar!Entries(<<>>) = {}
  <2>1. \A c : c \in Bar!Entries(<<>>) <=> \E i \in 1..Len(<<>>) : c \in DOMAIN <<>>[i].chats
    BY <1>1, EntriesIn
  <2>2. \A c : c \notin Bar!Entries(<<>>)
    BY <1>1, <2>1
  <2> QED BY <2>2
<1> QED BY <1>1, <1>2 DEF Fits, Within, Gapless, EndsAll, Descends, Placed, Until

LEMMA UntilLater ==
  ASSUME NEW pages \in Seq(ListPage), NEW now \in Nat, Until(pages, now) PROVE Until(pages, now + 1)
<1> SUFFICES ASSUME NEW i \in 1..Len(pages), NEW e \in DOMAIN pages[i].chats PROVE pages[i].chats[e] <= now + 1
  BY DEF Until
<1>1. pages[i].chats[e] <= now /\ pages[i].chats[e] \in Nat
  BY EntriesIn DEF Until
<1> QED BY <1>1

\* The pages stay, while chats begin that are known, or chats are deleted that no page has.
LEMMA FitsStay ==
  ASSUME NEW pages \in Seq(ListPage), NEW st \in Times, NEW st1 \in Times, NEW local, NEW sent, NEW sent1,
         NEW known, NEW known1, Fits(pages, st, local, sent, known),
         \A c \in Bar!Entries(pages) : st1[c] = st[c] /\ c \notin sent1,
         \A d \in Bar!AllChats : st1[d] > 0 => (st1[d] = st[d] /\ (d \in known => d \in known1)) \/ d \in known1
  PROVE  Fits(pages, st1, local, sent1, known1)
<1>0. Bar!Entries(pages) \subseteq Bar!AllChats /\ \A c \in Bar!AllChats : st[c] \in Nat /\ st1[c] \in Nat
  BY EntriesIn DEF Times
<1>1. Within(pages, st1, sent1)
  BY DEF Fits, Within
<1>2. Gapless(pages, st1, known1)
  <2> SUFFICES ASSUME NEW c \in Bar!Entries(pages), NEW d \in Bar!AllChats, st1[d] > st1[c], d \notin known1
               PROVE  d \in Bar!Entries(pages)
    BY DEF Gapless
  <2>1. st1[d] > 0 /\ c \in Bar!AllChats
    BY <1>0
  <2>2. st[d] > st[c] /\ d \notin known
    BY <2>1
  <2> QED BY <2>2 DEF Fits, Gapless
<1>3. EndsAll(pages, st1, known1)
  BY DEF Fits, EndsAll
<1>4. Descends(pages, st1, local)
  BY EntriesIn DEF Fits, Descends
<1>5. Placed(pages, st1, local)
  BY EntriesIn DEF Fits, Placed
<1> QED BY <1>1, <1>2, <1>3, <1>4, <1>5 DEF Fits

\* An entry is put first that is there, or is there already and becomes a local one.
LEMMA FitsListed ==
  ASSUME NEW pages \in Seq(ListPage), NEW st \in Times, NEW local, NEW sent, NEW known, NEW known1, NEW c,
         Fits(pages, st, local, sent, known), known \subseteq known1, c \in Bar!Entries(pages)
  PROVE  Fits(pages, st, local \cup {c}, sent, known1)
<1>1. Within(pages, st, sent) /\ Gapless(pages, st, known1) /\ EndsAll(pages, st, known1)
  BY DEF Fits, Within, Gapless, EndsAll
<1>2. Descends(pages, st, local \cup {c})
  BY DEF Fits, Descends
<1>3. Placed(pages, st, local \cup {c})
  BY DEF Fits, Placed, First
<1> QED BY <1>1, <1>2, <1>3 DEF Fits

\* The pages with an entry put first.
PutsFirst(pages, pages1, c, time) ==
    /\ pages1 \in Seq(ListPage) /\ Len(pages1) = Len(pages) /\ Len(pages) > 0
    /\ \A i \in 1..Len(pages) : pages1[i].more = pages[i].more
    /\ \A i \in 2..Len(pages) : pages1[i].chats = pages[i].chats
    /\ DOMAIN pages1[1].chats = DOMAIN pages[1].chats \cup {c}
    /\ \A d \in DOMAIN pages[1].chats : d # c => pages1[1].chats[d] = pages[1].chats[d]
    /\ pages1[1].chats[c] = time

LEMMA UntilFirst ==
  ASSUME NEW pages \in Seq(ListPage), NEW pages1, NEW c, NEW now \in Nat,
         PutsFirst(pages, pages1, c, now + 1), Until(pages, now)
  PROVE  Until(pages1, now + 1)
<1>0. /\ pages1 \in Seq(ListPage) /\ Len(pages1) = Len(pages) /\ 1 \in 1..Len(pages) /\ Len(pages) \in Nat
      /\ \A i \in 1..Len(pages) : i # 1 => i \in 2..Len(pages)
  BY EntriesIn DEF PutsFirst
<1> SUFFICES ASSUME NEW i \in 1..Len(pages), NEW e \in DOMAIN pages1[i].chats
             PROVE  pages1[i].chats[e] <= now + 1
  BY <1>0 DEF Until
<1>1. CASE i = 1 /\ e = c
  BY <1>1 DEF PutsFirst
<1>2. CASE ~(i = 1 /\ e = c)
  <2>1. e \in DOMAIN pages[i].chats /\ pages1[i].chats[e] = pages[i].chats[e]
    BY <1>0, <1>2 DEF PutsFirst
  <2>2. pages[i].chats[e] <= now /\ pages[i].chats[e] \in Nat
    BY <2>1, EntriesIn DEF Until
  <2> QED BY <2>1, <2>2
<1> QED BY <1>1, <1>2

LEMMA FitsFirst ==
  ASSUME NEW pages \in Seq(ListPage), NEW pages1, NEW st \in Times, NEW local, NEW sent, NEW known, NEW known1,
         NEW c \in Bar!AllChats, NEW now \in Nat,
         Fits(pages, st, local, sent, known), known \subseteq known1, c \notin Bar!Entries(pages),
         PutsFirst(pages, pages1, c, now + 1), Until(pages, now),
         st[c] > 0, c \notin sent, \A d \in Bar!AllChats : st[d] > st[c] => d \in known1
  PROVE  Fits(pages1, st, local \cup {c}, sent, known1)
<1>0. /\ pages1 \in Seq(ListPage) /\ Len(pages1) = Len(pages) /\ 1 \in 1..Len(pages) /\ Len(pages) \in Nat
      /\ \A i \in 1..Len(pages) : i # 1 => i \in 2..Len(pages)
  BY EntriesIn DEF PutsFirst
<1>1. \A d : d \in Bar!Entries(pages1) <=> d \in Bar!Entries(pages) \/ d = c
  <2>1. \A d : d \in Bar!Entries(pages1) => d \in Bar!Entries(pages) \/ d = c
    <3> SUFFICES ASSUME NEW d \in Bar!Entries(pages1), d # c PROVE d \in Bar!Entries(pages)
      OBVIOUS
    <3>1. PICK i \in 1..Len(pages) : d \in DOMAIN pages1[i].chats
      BY <1>0, EntriesIn
    <3>2. d \in DOMAIN pages[i].chats
      BY <1>0, <3>1 DEF PutsFirst
    <3> QED BY <3>2, EntriesIn
  <2>2. \A d : d \in Bar!Entries(pages) => d \in Bar!Entries(pages1)
    <3> SUFFICES ASSUME NEW d \in Bar!Entries(pages) PROVE d \in Bar!Entries(pages1)
      OBVIOUS
    <3>1. PICK i \in 1..Len(pages) : d \in DOMAIN pages[i].chats
      BY EntriesIn
    <3>2. d \in DOMAIN pages1[i].chats
      BY <1>0, <3>1 DEF PutsFirst
    <3> QED BY <1>0, <3>2, EntriesIn
  <2>3. c \in Bar!Entries(pages1)
    BY <1>0, EntriesIn DEF PutsFirst
  <2> QED BY <2>1, <2>2, <2>3
<1>2. Within(pages1, st, sent)
  BY <1>1 DEF Fits, Within
<1>3. Gapless(pages1, st, known1)
  BY <1>1 DEF Fits, Gapless
<1>4. EndsAll(pages1, st, known1)
  BY <1>0, <1>1 DEF Fits, EndsAll, PutsFirst
<1>5. Descends(pages1, st, local \cup {c})
  <2> SUFFICES ASSUME NEW i \in 1..Len(pages), NEW j \in 1..Len(pages), i < j,
                      NEW d \in DOMAIN pages1[i].chats \ (local \cup {c}), NEW e \in DOMAIN pages1[j].chats
               PROVE  st[d] > st[e]
    BY <1>0 DEF Descends
  <2>1. j # 1
    BY <1>0
  <2>2. e \in DOMAIN pages[j].chats
    BY <1>0, <2>1 DEF PutsFirst
  <2>3. d \in DOMAIN pages[i].chats \ local
    BY <1>0 DEF PutsFirst
  <2> QED BY <2>2, <2>3 DEF Fits, Descends
<1>6. Placed(pages1, st, local \cup {c})
  <2> SUFFICES ASSUME NEW i \in 1..Len(pages), NEW e \in DOMAIN pages1[i].chats, pages1[i].chats[e] # st[e]
               PROVE  i = 1 /\ First(pages1[i], e, local \cup {c})
    BY <1>0 DEF Placed
  <2>1. i = 1
    BY <1>0 DEF PutsFirst, Fits, Placed
  <2>2. CASE e = c
    <3>1. \A d \in DOMAIN pages1[1].chats \ (local \cup {c}) : pages1[1].chats[d] <= now /\ pages1[1].chats[d] \in Nat
      BY <1>0, EntriesIn DEF PutsFirst, Until
    <3>2. pages1[1].chats[c] = now + 1
      BY DEF PutsFirst
    <3> QED BY <2>1, <2>2, <3>1, <3>2 DEF First
  <2>3. CASE e # c
    <3>1. e \in DOMAIN pages[1].chats /\ pages1[1].chats[e] = pages[1].chats[e]
      BY <2>1, <2>3 DEF PutsFirst
    <3>2. First(pages[1], e, local)
      BY <1>0, <2>1, <3>1 DEF Fits, Placed
    <3>3. \A d \in DOMAIN pages1[1].chats \ (local \cup {c}) :
             d \in DOMAIN pages[1].chats \ local /\ pages1[1].chats[d] = pages[1].chats[d]
      BY DEF PutsFirst
    <3> QED BY <2>1, <3>1, <3>2, <3>3 DEF First
  <2> QED BY <2>2, <2>3
<1> QED BY <1>2, <1>3, <1>4, <1>5, <1>6 DEF Fits

\* The pages without a chat.
TakenOut(pages, pages1, c) ==
    /\ pages1 \in Seq(ListPage) /\ Len(pages1) = Len(pages)
    /\ \A i \in 1..Len(pages) :
         /\ pages1[i].more = pages[i].more
         /\ DOMAIN pages1[i].chats = DOMAIN pages[i].chats \ {c}
         /\ \A d \in DOMAIN pages[i].chats \ {c} : pages1[i].chats[d] = pages[i].chats[d]

LEMMA UntilWithout ==
  ASSUME NEW pages \in Seq(ListPage), NEW pages1, NEW c, NEW now \in Nat, TakenOut(pages, pages1, c), Until(pages, now)
  PROVE  Until(pages1, now)
BY DEF Until, TakenOut

LEMMA FitsWithout ==
  ASSUME NEW pages \in Seq(ListPage), NEW pages1, NEW st \in Times, NEW local, NEW sent, NEW known, NEW known1,
         NEW c, Fits(pages, st, local, sent, known), TakenOut(pages, pages1, c), known \cup {c} \subseteq known1
  PROVE  Fits(pages1, st, local \ {c}, sent \cup {c}, known1)
<1>0. pages1 \in Seq(ListPage) /\ Len(pages1) = Len(pages)
  BY DEF TakenOut
<1>1. \A d : d \in Bar!Entries(pages1) <=> d \in Bar!Entries(pages) /\ d # c
  <2>1. \A i \in 1..Len(pages) : \A d : d \in DOMAIN pages1[i].chats <=> d \in DOMAIN pages[i].chats /\ d # c
    BY DEF TakenOut
  <2>2. \A d : d \in Bar!Entries(pages1) <=> \E i \in 1..Len(pages) : d \in DOMAIN pages1[i].chats
    BY <1>0, EntriesIn
  <2>3. \A d : d \in Bar!Entries(pages) <=> \E i \in 1..Len(pages) : d \in DOMAIN pages[i].chats
    BY EntriesIn
  <2> QED BY <2>1, <2>2, <2>3
<1>2. Within(pages1, st, sent \cup {c})
  BY <1>1 DEF Fits, Within
<1>3. Gapless(pages1, st, known1)
  BY <1>1 DEF Fits, Gapless
<1>4. EndsAll(pages1, st, known1)
  BY <1>0, <1>1 DEF Fits, EndsAll, TakenOut
<1>5. Descends(pages1, st, local \ {c})
  BY <1>0 DEF Fits, Descends, TakenOut
<1>6. Placed(pages1, st, local \ {c})
  <2> SUFFICES ASSUME NEW i \in 1..Len(pages), NEW e \in DOMAIN pages1[i].chats, pages1[i].chats[e] # st[e]
               PROVE  i = 1 /\ First(pages1[i], e, local \ {c})
    BY <1>0 DEF Placed
  <2>1. e # c /\ e \in DOMAIN pages[i].chats /\ pages1[i].chats[e] = pages[i].chats[e]
    BY DEF TakenOut
  <2>2. i = 1 /\ First(pages[i], e, local)
    BY <2>1 DEF Fits, Placed
  <2>3. \A d \in DOMAIN pages1[i].chats \ (local \ {c}) :
             d \in DOMAIN pages[i].chats \ local /\ pages1[i].chats[d] = pages[i].chats[d]
    BY DEF TakenOut
  <2> QED BY <2>1, <2>2, <2>3 DEF First
<1> QED BY <1>2, <1>3, <1>4, <1>5, <1>6 DEF Fits

\* The pages once all chats are about to be deleted.
Cleared(pages, pages1) ==
    /\ pages1 \in Seq(ListPage) /\ Len(pages1) = Len(pages)
    /\ \A i \in 1..Len(pages) : DOMAIN pages1[i].chats = {}

LEMMA FitsCleared ==
  ASSUME NEW pages \in Seq(ListPage), NEW pages1, NEW st, NEW local, NEW now, Cleared(pages, pages1)
  PROVE  Fits(pages1, st, local, Bar!AllChats, Bar!AllChats) /\ Until(pages1, now)
<1>1. Bar!Entries(pages1) = {}
  BY EntriesIn DEF Cleared
<1>2. Within(pages1, st, Bar!AllChats) /\ Gapless(pages1, st, Bar!AllChats) /\ EndsAll(pages1, st, Bar!AllChats)
  BY <1>1 DEF Within, Gapless, EndsAll
<1>3. Descends(pages1, st, local) /\ Placed(pages1, st, local) /\ Until(pages1, now)
  BY DEF Descends, Placed, Until, Cleared
<1> QED BY <1>2, <1>3 DEF Fits

-----------------------------------------------------------------------------
\* What the server lists after a cursor.

LEMMA BarSizes == ASSUME NEW S PROVE Bar!Cardinality(S) = Cardinality(S)
BY DEF Bar!Cardinality, Cardinality

LEMMA NewestOK ==
  ASSUME barStored \in Times, NEW T \in SUBSET Bar!AllChats
  PROVE  /\ Bar!Newest(T) \subseteq T
         /\ \A c \in Bar!Newest(T), d \in T : barStored[d] > barStored[c] => d \in Bar!Newest(T)
         /\ ~(Cardinality(T) > PageSize) => Bar!Newest(T) = T
<1> DEFINE Above(c) == {d \in T : barStored[d] > barStored[c]}
<1>1. Bar!Newest(T) = {c \in T : Cardinality(Above(c)) < PageSize}
  <2>1. \A c \in T : Bar!Cardinality(Above(c)) = Cardinality(Above(c))
    BY BarSizes
  <2> HIDE DEF Above
  <2>2. Bar!Newest(T) = {c \in T : Bar!Cardinality(Above(c)) < PageSize}
    BY DEF Bar!Newest, Above
  <2> QED BY <2>1, <2>2
<1>2. IsFiniteSet(T) /\ \A c \in T : c \in Bar!AllChats /\ barStored[c] \in Nat
  BY BarBounds, FS_Subset DEF Times
<1>3. \A c \in T : IsFiniteSet(Above(c)) /\ Cardinality(Above(c)) \in Nat
  BY <1>2, FS_Subset, FS_CardinalityType
<1>4. ASSUME NEW c \in T, Cardinality(Above(c)) < PageSize, NEW d \in T, barStored[d] > barStored[c]
      PROVE  Cardinality(Above(d)) < PageSize
  <2>1. Above(d) \in SUBSET Above(c)
    BY <1>2, <1>4
  <2> HIDE DEF Above
  <2>2. Cardinality(Above(d)) <= Cardinality(Above(c))
    BY <1>3, <2>1, FS_Subset
  <2> QED BY <1>3, <1>4, <2>2, BarBounds
<1>5. ASSUME ~(Cardinality(T) > PageSize), NEW c \in T PROVE Cardinality(Above(c)) < PageSize
  <2>1. Above(c) \in SUBSET T /\ c \notin Above(c)
    BY <1>2
  <2> HIDE DEF Above
  <2>2. Cardinality(Above(c)) <= Cardinality(T) /\ Cardinality(Above(c)) # Cardinality(T)
    BY <1>2, <2>1, FS_Subset
  <2>3. Cardinality(T) \in Nat
    BY <1>2, FS_CardinalityType
  <2> QED BY <1>3, <1>5, <2>2, <2>3, BarBounds
<1> HIDE DEF Above
<1> QED BY <1>1, <1>4, <1>5

\* A page that is listed after a cursor.
Ranks(st) == \A c, d \in Bar!AllChats : st[c] > 0 /\ st[c] = st[d] => c = d
AfterIn(st, cursor, c) == c \in Bar!AllChats /\ st[c] > 0 /\ (cursor = 0 \/ st[c] < st[cursor])
ListedOK(page, st, cursor) ==
    /\ page \in ListPage
    /\ \A c \in DOMAIN page.chats : AfterIn(st, cursor, c) /\ page.chats[c] = st[c]
    /\ \A c \in DOMAIN page.chats, d \in Bar!AllChats :
          AfterIn(st, cursor, d) /\ st[d] > st[c] => d \in DOMAIN page.chats
    /\ ~page.more => \A d \in Bar!AllChats : AfterIn(st, cursor, d) => d \in DOMAIN page.chats

LEMMA ListedIs == ASSUME barStored \in Times, NEW cursor PROVE ListedOK(Bar!Listed(cursor), barStored, cursor)
<1> DEFINE T == Bar!After(cursor)
           N == Bar!Newest(T)
<1>1. T \in SUBSET Bar!AllChats /\ \A c : c \in T <=> AfterIn(barStored, cursor, c)
  BY DEF Bar!After, Bar!There, AfterIn
<1>2. N \subseteq T /\ (\A c \in N, d \in T : barStored[d] > barStored[c] => d \in N) /\ (~(Cardinality(T) > PageSize) => N = T)
  BY <1>1, NewestOK
<1>3. PICK m \in BOOLEAN : m = (Cardinality(T) > PageSize)
  <2> HIDE DEF T
  <2>1. CASE Cardinality(T) > PageSize
    <3>1. TRUE = (Cardinality(T) > PageSize)
      BY <2>1
    <3> QED BY <3>1
  <2>2. CASE ~(Cardinality(T) > PageSize)
    <3>1. FALSE = (Cardinality(T) > PageSize)
      BY <2>2
    <3> QED BY <3>1
  <2> QED BY <2>1, <2>2
<1>4. Bar!Cardinality(T) = Cardinality(T)
  BY BarSizes
<1>5. Bar!Listed(cursor) = [chats |-> [c \in N |-> barStored[c]], more |-> Bar!Cardinality(T) > PageSize]
  BY DEF Bar!Listed, Bar!Restrict
<1> HIDE DEF T, N
<1>6. Bar!Listed(cursor) = [chats |-> [c \in N |-> barStored[c]], more |-> m]
  BY <1>3, <1>4, <1>5
<1>7. [c \in N |-> barStored[c]] \in [N -> Nat] /\ N \in SUBSET Bar!AllChats
  BY <1>1, <1>2 DEF Times
<1>8. [c \in N |-> barStored[c]] \in Chart
  BY <1>7, ChartOf
<1>9. Bar!Listed(cursor) \in ListPage
  BY <1>6, <1>8 DEF ListPage
<1> DEFINE page == Bar!Listed(cursor)
<1>10. DOMAIN page.chats = N /\ (\A c \in N : page.chats[c] = barStored[c]) /\ page.more = m
  BY <1>6
<1> HIDE DEF page
<1>11. \A c \in DOMAIN page.chats : AfterIn(barStored, cursor, c) /\ page.chats[c] = barStored[c]
  BY <1>1, <1>2, <1>10
<1>12. \A c \in DOMAIN page.chats, d \in Bar!AllChats :
          AfterIn(barStored, cursor, d) /\ barStored[d] > barStored[c] => d \in DOMAIN page.chats
  BY <1>1, <1>2, <1>10
<1>13. ~page.more => N = T
  <2>1. ASSUME ~page.more PROVE ~(Cardinality(T) > PageSize)
    BY <1>3, <1>10, <2>1
  <2> QED BY <1>2, <2>1
<1>14. ~page.more => \A d \in Bar!AllChats : AfterIn(barStored, cursor, d) => d \in DOMAIN page.chats
  BY <1>1, <1>10, <1>13
<1> QED BY <1>9, <1>11, <1>12, <1>14 DEF ListedOK, page

LEMMA LowestOK ==
  ASSUME NEW f \in Chart, DOMAIN f # {}
  PROVE  Bar!Lowest(f) \in DOMAIN f /\ \A d \in DOMAIN f : f[Bar!Lowest(f)] <= f[d]
<1> DEFINE R == {f[c] : c \in DOMAIN f}
<1>1. R \subseteq Nat /\ R # {}
  BY ChartOK
<1>2. PICK x \in R : \A y \in R : x <= y
  <2> HIDE DEF R
  <2> QED BY <1>1, Least
<1>3. PICK c \in DOMAIN f : x = f[c]
  OBVIOUS
<1>4. \A d \in DOMAIN f : f[c] <= f[d]
  BY <1>2, <1>3
<1> QED BY <1>4 DEF Bar!Lowest

\* The cursor of the pages there are: none is below it but what was put first.
CursorOK(pages, st, local, cursor) ==
    \/ Len(pages) = 0 /\ cursor = 0
    \/ /\ cursor \in Bar!Entries(pages)
       /\ \A c \in Bar!Entries(pages) \ local : st[c] >= st[cursor]

LEMMA CursorIs ==
  ASSUME NEW pages \in Seq(ListPage), NEW st \in Times, NEW local, NEW sent, NEW known,
         Fits(pages, st, local, sent, known), pages # <<>> => Bar!NextCursor(pages) # 0
  PROVE  CursorOK(pages, st, local, Bar!NextCursor(pages))
<1> DEFINE n == Len(pages)
           cursor == Bar!NextCursor(pages)
<1>1. CASE pages = <<>>
  BY <1>1, NoPages DEF Bar!NextCursor, CursorOK
<1>2. CASE pages # <<>>
  <2>1. n \in Nat /\ n \in 1..n
    BY <1>2, EntriesIn
  <2>2. DOMAIN pages[n].chats # {} /\ cursor = Bar!Lowest(pages[n].chats)
    BY <1>2 DEF Bar!NextCursor, Bar!Last
  <2> HIDE DEF cursor
  <2>3. pages[n].chats \in Chart
    BY <2>1, EntriesIn
  <2>4. cursor \in DOMAIN pages[n].chats /\ \A d \in DOMAIN pages[n].chats : pages[n].chats[cursor] <= pages[n].chats[d]
    BY <2>2, <2>3, LowestOK
  <2>5. cursor \in Bar!Entries(pages)
    BY <2>1, <2>4, EntriesIn
  <2>6. ASSUME NEW c \in Bar!Entries(pages), c \notin local PROVE st[c] >= st[cursor]
    <3>1. PICK i \in 1..n : c \in DOMAIN pages[i].chats
      BY EntriesIn
    <3>2. c \in Bar!AllChats /\ cursor \in Bar!AllChats
      BY <2>5, EntriesIn
    <3>3. st[c] \in Nat /\ st[cursor] \in Nat
      BY <3>2 DEF Times
    <3>4. CASE i < n
      <4>1. st[c] > st[cursor]
        BY <2>1, <2>4, <2>6, <3>1, <3>4 DEF Fits, Descends
      <4> QED BY <3>3, <4>1
    <3>5. CASE i = n
      <4>1. pages[n].chats[c] = st[c]
        BY <2>1, <2>6, <3>1, <3>5 DEF Fits, Placed, First
      <4>2. pages[n].chats[cursor] = st[cursor] \/ First(pages[n], cursor, local)
        BY <2>1, <2>4 DEF Fits, Placed
      <4>3. pages[n].chats[cursor] <= pages[n].chats[c]
        BY <2>4, <3>1, <3>5
      <4>4. pages[n].chats[cursor] \in Nat /\ pages[n].chats[c] \in Nat
        BY <2>1, <2>4, <3>1, <3>5, EntriesIn
      <4>5. pages[n].chats[cursor] = st[cursor]
        BY <2>6, <3>1, <3>5, <4>2, <4>3, <4>4 DEF First
      <4> QED BY <3>3, <4>1, <4>3, <4>5
    <3> QED BY <2>1, <3>4, <3>5
  <2> QED BY <2>5, <2>6 DEF CursorOK, cursor
<1> QED BY <1>1, <1>2

\* The pages with one more.
LEMMA Appended ==
  ASSUME NEW pages \in Seq(ListPage), NEW page \in ListPage
  PROVE  /\ Append(pages, page) \in Seq(ListPage) /\ Len(Append(pages, page)) = Len(pages) + 1
         /\ \A i \in 1..Len(pages) : Append(pages, page)[i] = pages[i]
         /\ Append(pages, page)[Len(pages) + 1] = page
OBVIOUS

LEMMA FitsMore ==
  ASSUME NEW pages \in Seq(ListPage), NEW page, NEW pages1, pages1 = Append(pages, page),
         NEW st \in Times, NEW local, NEW sent, NEW known, NEW cursor, NEW now,
         Fits(pages, st, local, sent, known), sent = {}, Ranks(st), CursorOK(pages, st, local, cursor),
         ListedOK(page, st, cursor), Until(pages, now), \A c \in Bar!AllChats : st[c] <= now
  PROVE  pages1 \in Seq(ListPage) /\ Fits(pages1, st, local, sent, known) /\ Until(pages1, now)
<1> DEFINE n == Len(pages)
<1>0. page \in ListPage
  BY DEF ListedOK
<1>1. /\ n \in Nat /\ pages1 \in Seq(ListPage) /\ Len(pages1) = n + 1 /\ pages1[n + 1] = page
      /\ \A i \in 1..n : pages1[i] = pages[i]
      /\ \A i \in 1..Len(pages1) : i \in 1..n \/ i = n + 1
  BY <1>0, Appended, EntriesIn
<1>2. \A d : d \in Bar!Entries(pages1) <=> d \in Bar!Entries(pages) \/ d \in DOMAIN page.chats
  <2>1. \A d : d \in Bar!Entries(pages1) => d \in Bar!Entries(pages) \/ d \in DOMAIN page.chats
    <3> SUFFICES ASSUME NEW d \in Bar!Entries(pages1), d \notin DOMAIN page.chats PROVE d \in Bar!Entries(pages)
      OBVIOUS
    <3>1. PICK i \in 1..Len(pages1) : d \in DOMAIN pages1[i].chats
      BY <1>1, EntriesIn
    <3>2. i \in 1..n /\ d \in DOMAIN pages[i].chats
      BY <1>1, <3>1
    <3> QED BY <3>2, EntriesIn
  <2>2. \A d : d \in DOMAIN page.chats => d \in Bar!Entries(pages1)
    <3> SUFFICES ASSUME NEW d \in DOMAIN page.chats PROVE d \in Bar!Entries(pages1)
      OBVIOUS
    <3>1. n + 1 \in 1..Len(pages1) /\ d \in DOMAIN pages1[n + 1].chats
      BY <1>1
    <3> QED BY <1>1, <3>1, EntriesIn
  <2>3. \A d : d \in Bar!Entries(pages) => d \in Bar!Entries(pages1)
    <3> SUFFICES ASSUME NEW d \in Bar!Entries(pages) PROVE d \in Bar!Entries(pages1)
      OBVIOUS
    <3>1. PICK i \in 1..n : d \in DOMAIN pages[i].chats
      BY EntriesIn
    <3>2. i \in 1..Len(pages1) /\ d \in DOMAIN pages1[i].chats
      BY <1>1, <3>1
    <3> QED BY <1>1, <3>2, EntriesIn
  <2> QED BY <2>1, <2>2, <2>3
<1>3. /\ Bar!Entries(pages) \subseteq Bar!AllChats /\ DOMAIN page.chats \subseteq Bar!AllChats
      /\ \A c \in Bar!AllChats : st[c] \in Nat
  BY EntriesIn DEF ListedOK, AfterIn, Times
\* A chat that is not after the cursor has an entry, or is known.
<1>4. ASSUME NEW d \in Bar!AllChats, st[d] > 0, ~AfterIn(st, cursor, d) PROVE d \in Bar!Entries(pages) \cup known
  <2>1. cursor \in Bar!Entries(pages)
    BY <1>4 DEF CursorOK, AfterIn
  <2>2. cursor \in Bar!AllChats /\ st[cursor] \in Nat /\ st[d] \in Nat
    BY <1>3, <2>1
  <2>3. st[d] > st[cursor] \/ d = cursor
    BY <1>4, <2>2 DEF AfterIn, Ranks
  <2> QED BY <2>1, <2>3 DEF Fits, Gapless
<1>5. Within(pages1, st, sent)
  BY <1>2 DEF Fits, Within, ListedOK, AfterIn
<1>6. Gapless(pages1, st, known)
  <2> SUFFICES ASSUME NEW c \in Bar!Entries(pages1), NEW d \in Bar!AllChats, st[d] > st[c]
               PROVE  d \in Bar!Entries(pages1) \cup known
    BY DEF Gapless
  <2>1. CASE c \in Bar!Entries(pages)
    BY <1>2, <2>1 DEF Fits, Gapless
  <2>2. CASE c \in DOMAIN page.chats
    <3>1. st[d] > 0
      BY <1>3, <2>2
    <3>2. CASE AfterIn(st, cursor, d)
      BY <1>2, <2>2, <3>2 DEF ListedOK
    <3>3. CASE ~AfterIn(st, cursor, d)
      BY <1>2, <1>4, <3>1, <3>3
    <3> QED BY <3>2, <3>3
  <2> QED BY <1>2, <2>1, <2>2
<1>7. EndsAll(pages1, st, known)
  <2> SUFFICES ASSUME NEW i \in 1..Len(pages1), ~pages1[i].more, NEW d \in Bar!AllChats, st[d] > 0
               PROVE  d \in Bar!Entries(pages1) \cup known
    BY DEF EndsAll
  <2>1. CASE i \in 1..n
    BY <1>1, <1>2, <2>1 DEF Fits, EndsAll
  <2>2. CASE i = n + 1
    <3>1. CASE AfterIn(st, cursor, d)
      BY <1>1, <1>2, <2>2, <3>1 DEF ListedOK
    <3>2. CASE ~AfterIn(st, cursor, d)
      BY <1>2, <1>4, <3>2
    <3> QED BY <3>1, <3>2
  <2> QED BY <1>1, <2>1, <2>2
<1>8. Descends(pages1, st, local)
  <2> SUFFICES ASSUME NEW i \in 1..Len(pages1), NEW j \in 1..Len(pages1), i < j,
                      NEW c \in DOMAIN pages1[i].chats \ local, NEW e \in DOMAIN pages1[j].chats
               PROVE  st[c] > st[e]
    BY DEF Descends
  <2>1. i \in 1..n /\ c \in DOMAIN pages[i].chats
    BY <1>1
  <2>2. CASE j \in 1..n
    BY <1>1, <2>1, <2>2 DEF Fits, Descends
  <2>3. CASE j = n + 1
    <3>1. c \in Bar!Entries(pages)
      BY <2>1, EntriesIn
    <3>2. cursor \in Bar!Entries(pages) /\ st[c] >= st[cursor]
      BY <1>1, <2>1, <3>1 DEF CursorOK
    <3>3. e \in Bar!AllChats /\ st[e] < st[cursor]
      BY <1>1, <1>3, <2>3, <3>2, BarBounds DEF ListedOK, AfterIn
    <3> QED BY <1>3, <3>1, <3>2, <3>3
  <2> QED BY <1>1, <2>2, <2>3
<1>9. Placed(pages1, st, local)
  BY <1>1 DEF Fits, Placed, ListedOK
<1>10. Until(pages1, now)
  BY <1>1, <1>3 DEF Until, ListedOK
<1> QED BY <1>1, <1>5, <1>6, <1>7, <1>8, <1>9, <1>10 DEF Fits

-----------------------------------------------------------------------------
CacheType == [pages: Seq(ListPage), local: SUBSET Bar!AllChats, title: [Bar!AllChats -> Bar!AllChats]]
FetchType == [pc: {"idle", "asks", "answered"}, got: Seq(ListPage), left: Int]
DelType == [pc: {"idle", "sent", "answered"}, which: SUBSET Bar!AllChats]
BarScreenType == [route: {"/", "new", "chat"}, chat: Bar!AllChats, created: SUBSET Bar!AllChats, next: Nat]
BarHistType == [off: BOOLEAN, moved: BOOLEAN, stays: BOOLEAN, gone: SUBSET Bar!AllChats,
                fetches: Nat, turns: Nat, now: Nat]

BarTypes ==
    /\ barStored \in Times /\ barCache \in CacheType /\ barFetch \in FetchType
    /\ barDel \in [Bar!Deletions -> DelType] /\ barScreen \in BarScreenType
    /\ barStreams \in [Bar!AllChats -> {"none", "sent", "begun", "titled"}] /\ barHist \in BarHistType

\* Times have passed, and no two chats began at the same one.
Dated ==
    /\ \A c \in Bar!AllChats : barStored[c] <= barHist.now
    /\ Ranks(barStored) /\ Until(barCache.pages, barHist.now) /\ Until(barFetch.got, barHist.now)

\* A new chat has a number of its own.
Numbered ==
    /\ barScreen.chat < barScreen.next /\ \A c \in barScreen.created : c < barScreen.next
    /\ \A c \in Bar!AllChats : barStored[c] > 0 \/ barStreams[c] # "none" => c < barScreen.next

TitlesKept == ~barHist.moved => \A c \in Bar!AllChats : barCache.title[c] = c
FetchHas ==
    /\ barFetch.pc = "idle" => barFetch.got = <<>>
    /\ barFetch.pc = "answered" => barFetch.got # <<>>

\* What a step makes of the history variable.
HistMoves(off, moved, stays, gone, now) ==
    /\ barHist' \in BarHistType
    /\ ~barHist'.off => ~barHist.off /\ ~off
    /\ ~barHist'.moved => ~barHist.moved /\ ~moved
    /\ ~barHist'.stays => ~barHist.stays /\ ~stays
    /\ barHist'.gone = gone /\ barHist'.now = now
HistKeeps(off) == HistMoves(off, FALSE, FALSE, barHist.gone, barHist.now)

\* Chats whose deletion the server has still to make; chats begun here that are there but
\* have no title yet; those the sidebar knows of beside its pages.
SentOf(del) == {c \in Bar!AllChats : \E d \in Bar!Deletions : del[d].pc = "sent" /\ c \in del[d].which}
Comes(st, local, streams, created) ==
    {c \in Bar!AllChats : st[c] > 0 /\ c \notin local /\ streams[c] # "none" /\ c \in created}
KnownOf(st, local, streams, created, sent) == local \cup Comes(st, local, streams, created) \cup sent

LEMMA RefetchDoes ==
  ASSUME BarTypes, Bar!Refetch
  PROVE  /\ BarTypes' /\ barFetch'.pc = "asks" /\ barFetch'.got = <<>> /\ HistKeeps(Bar!Deleting)
         /\ UNCHANGED <<barStored, barCache, barDel, barScreen, barStreams>>
<1>1. barFetch'.pc = "asks" /\ barFetch'.got = <<>> /\ barFetch' \in FetchType
  <2>1. (IF barCache.pages = <<>> THEN 1 ELSE Len(barCache.pages)) \in Int
    BY EntriesIn DEF BarTypes, CacheType
  <2> QED BY <2>1, NoPages DEF Bar!Refetch, Bar!NoFetch, FetchType
<1>2. HistKeeps(Bar!Deleting)
  <2>1. PICK b \in BOOLEAN : b = (barHist.off \/ Bar!Deleting)
    OBVIOUS
  <2>2. PICK n \in Nat : barHist' = [barHist EXCEPT !.fetches = n, !.off = b]
    <3>1. barHist.fetches + 1 \in Nat
      BY DEF BarTypes, BarHistType
    <3>2. barHist' = [barHist EXCEPT !.fetches = barHist.fetches + 1, !.off = b]
      BY <2>1 DEF Bar!Refetch
    <3> QED BY <3>1, <3>2
  <2>3. barHist \in BarHistType
    BY DEF BarTypes
  <2>4. /\ barHist' \in BarHistType /\ barHist'.off = b
        /\ barHist'.moved = barHist.moved /\ barHist'.stays = barHist.stays
        /\ barHist'.gone = barHist.gone /\ barHist'.now = barHist.now
    BY <2>2, <2>3 DEF BarHistType
  <2>5. ~b => ~barHist.off /\ ~Bar!Deleting
    BY <2>1
  <2> QED BY <2>4, <2>5 DEF HistKeeps, HistMoves
<1> QED BY <1>1, <1>2 DEF Bar!Refetch, BarTypes, HistKeeps, HistMoves

LEMMA FetchNextPageDoes ==
  ASSUME BarTypes, Bar!FetchNextPage
  PROVE  /\ BarTypes' /\ barFetch'.pc = "asks" /\ barFetch'.got = barCache.pages /\ HistKeeps(Bar!Deleting)
         /\ UNCHANGED <<barStored, barCache, barDel, barScreen, barStreams>>
<1>1. barFetch'.pc = "asks" /\ barFetch'.got = barCache.pages /\ barFetch' \in FetchType
  BY DEF Bar!FetchNextPage, BarTypes, CacheType, FetchType
<1>2. HistKeeps(Bar!Deleting)
  <2>1. PICK b \in BOOLEAN : b = (barHist.off \/ Bar!Deleting)
    OBVIOUS
  <2>2. PICK n \in Nat : barHist' = [barHist EXCEPT !.fetches = n, !.off = b]
    <3>1. barHist.fetches + 1 \in Nat
      BY DEF BarTypes, BarHistType
    <3>2. barHist' = [barHist EXCEPT !.fetches = barHist.fetches + 1, !.off = b]
      BY <2>1 DEF Bar!FetchNextPage
    <3> QED BY <3>1, <3>2
  <2>3. barHist \in BarHistType
    BY DEF BarTypes
  <2>4. /\ barHist' \in BarHistType /\ barHist'.off = b
        /\ barHist'.moved = barHist.moved /\ barHist'.stays = barHist.stays
        /\ barHist'.gone = barHist.gone /\ barHist'.now = barHist.now
    BY <2>2, <2>3 DEF BarHistType
  <2>5. ~b => ~barHist.off /\ ~Bar!Deleting
    BY <2>1
  <2> QED BY <2>4, <2>5 DEF HistKeeps, HistMoves
<1> QED BY <1>1, <1>2 DEF Bar!FetchNextPage, BarTypes, HistKeeps, HistMoves

LEMMA ListPageDoes ==
  ASSUME BarTypes, Bar!ListPage
  PROVE  /\ BarTypes' /\ barFetch.pc # "idle" /\ barFetch'.pc # "idle"
         /\ barFetch.got # <<>> => Bar!NextCursor(barFetch.got) \in Bar!There
         /\ ListedOK(Bar!Listed(Bar!NextCursor(barFetch.got)), barStored, Bar!NextCursor(barFetch.got))
         /\ barFetch'.got = Append(barFetch.got, Bar!Listed(Bar!NextCursor(barFetch.got)))
         /\ UNCHANGED <<barStored, barCache, barDel, barScreen, barStreams, barHist>>
<1> DEFINE page == Bar!Listed(Bar!NextCursor(barFetch.got))
           got == Append(barFetch.got, page)
<1>1. ListedOK(page, barStored, Bar!NextCursor(barFetch.got))
  BY ListedIs DEF BarTypes
<1>2. barFetch.got \in Seq(ListPage) /\ page \in ListPage
  BY <1>1 DEF BarTypes, FetchType, ListedOK
<1>3. got \in Seq(ListPage)
  BY <1>2, Appended
<1>4. PICK pc \in {"asks", "answered"} : barFetch' = [barFetch EXCEPT !.got = got, !.left = @ - 1, !.pc = pc]
  BY DEF Bar!ListPage
<1> HIDE DEF page, got
<1>5. barFetch' \in FetchType /\ barFetch'.pc # "idle" /\ barFetch'.got = got
  <2>1. barFetch \in FetchType /\ barFetch.left - 1 \in Int
    BY DEF BarTypes, FetchType
  <2> QED BY <1>3, <1>4, <2>1 DEF FetchType
<1>6. BarTypes' /\ UNCHANGED <<barStored, barCache, barDel, barScreen, barStreams, barHist>>
  BY <1>5 DEF Bar!ListPage, BarTypes
<1>7. barFetch.pc # "idle" /\ (barFetch.got # <<>> => Bar!NextCursor(barFetch.got) \in Bar!There)
  BY DEF Bar!ListPage
<1> QED BY <1>1, <1>5, <1>6, <1>7 DEF page, got

LEMMA FetchedDoes ==
  ASSUME BarTypes, Bar!Fetched
  PROVE  /\ BarTypes' /\ barFetch.pc = "answered" /\ barFetch'.pc = "idle" /\ barFetch'.got = <<>>
         /\ barCache'.pages = barFetch.got /\ barCache'.local = barCache.local
         /\ \A c \in Bar!AllChats : barCache'.title[c] \in {c, barCache.title[c]}
         /\ UNCHANGED <<barStored, barDel, barScreen, barStreams, barHist>>
<1> DEFINE title == [c \in Bar!AllChats |-> IF c \in Bar!Entries(barFetch.got) \ barCache.local THEN c ELSE barCache.title[c]]
<1>1. title \in [Bar!AllChats -> Bar!AllChats] /\ \A c \in Bar!AllChats : title[c] \in {c, barCache.title[c]}
  BY DEF BarTypes, CacheType
<1>2. barCache' = [barCache EXCEPT !.pages = barFetch.got, !.title = title]
  BY DEF Bar!Fetched
<1> HIDE DEF title
<1>3. /\ barCache' \in CacheType /\ barCache'.pages = barFetch.got /\ barCache'.local = barCache.local
      /\ barCache'.title = title
  BY <1>1, <1>2 DEF BarTypes, CacheType, FetchType
<1>4. barFetch' \in FetchType /\ barFetch'.pc = "idle" /\ barFetch'.got = <<>>
  BY NoPages DEF Bar!Fetched, Bar!NoFetch, FetchType
<1>5. BarTypes' /\ UNCHANGED <<barStored, barDel, barScreen, barStreams, barHist>> /\ barFetch.pc = "answered"
  BY <1>3, <1>4 DEF Bar!Fetched, BarTypes
<1> QED BY <1>1, <1>3, <1>4, <1>5

LEMMA FetchFailsDoes ==
  ASSUME BarTypes, Bar!FetchFails
  PROVE  /\ BarTypes' /\ barFetch'.pc = "idle" /\ barFetch'.got = <<>> /\ HistKeeps(TRUE)
         /\ UNCHANGED <<barStored, barCache, barDel, barScreen, barStreams>>
<1>1. barFetch' \in FetchType /\ barFetch'.pc = "idle" /\ barFetch'.got = <<>>
  BY NoPages DEF Bar!FetchFails, Bar!NoFetch, FetchType
<1>2. HistKeeps(TRUE)
  BY DEF Bar!FetchFails, HistKeeps, HistMoves, BarTypes, BarHistType
<1> QED BY <1>1, <1>2 DEF Bar!FetchFails, BarTypes, HistKeeps, HistMoves

LEMMA HistTurn ==
  ASSUME BarTypes, NEW off \in BOOLEAN, NEW stays \in BOOLEAN,
         barHist' = [barHist EXCEPT !.turns = @ + 1, !.off = @ \/ off, !.stays = @ \/ stays]
  PROVE  HistMoves(off, FALSE, stays, barHist.gone, barHist.now)
<1>1. barHist.turns + 1 \in Nat /\ barHist \in BarHistType
  BY DEF BarTypes, BarHistType
<1>2. PICK a \in BOOLEAN : a = (barHist.off \/ off)
  OBVIOUS
<1>3. PICK b \in BOOLEAN : b = (barHist.stays \/ stays)
  OBVIOUS
<1>4. PICK n \in Nat : barHist' = [barHist EXCEPT !.turns = n, !.off = a, !.stays = b]
  BY <1>1, <1>2, <1>3
<1>5. /\ barHist' \in BarHistType /\ barHist'.off = a /\ barHist'.stays = b
      /\ barHist'.moved = barHist.moved /\ barHist'.gone = barHist.gone /\ barHist'.now = barHist.now
  BY <1>1, <1>4 DEF BarHistType
<1>6. (~a => ~barHist.off /\ ~off) /\ (~b => ~barHist.stays /\ ~stays)
  BY <1>2, <1>3
<1> QED BY <1>5, <1>6 DEF HistMoves

LEMMA HistDated ==
  ASSUME BarTypes, NEW off \in BOOLEAN, NEW moved \in BOOLEAN,
         barHist' = [barHist EXCEPT !.now = @ + 1, !.off = @ \/ off, !.moved = @ \/ moved]
  PROVE  HistMoves(off, moved, FALSE, barHist.gone, barHist.now + 1)
<1>1. barHist.now + 1 \in Nat /\ barHist \in BarHistType
  BY DEF BarTypes, BarHistType
<1>2. PICK a \in BOOLEAN : a = (barHist.off \/ off)
  OBVIOUS
<1>3. PICK b \in BOOLEAN : b = (barHist.moved \/ moved)
  OBVIOUS
<1>4. PICK n \in Nat : n = barHist.now + 1 /\ barHist' = [barHist EXCEPT !.now = n, !.off = a, !.moved = b]
  BY <1>1, <1>2, <1>3
<1>5. /\ barHist' \in BarHistType /\ barHist'.off = a /\ barHist'.moved = b
      /\ barHist'.stays = barHist.stays /\ barHist'.gone = barHist.gone /\ barHist'.now = n
  BY <1>1, <1>4 DEF BarHistType
<1>6. (~a => ~barHist.off /\ ~off) /\ (~b => ~barHist.moved /\ ~moved)
  BY <1>2, <1>3
<1> QED BY <1>4, <1>5, <1>6 DEF HistMoves

LEMMA SubmitFormDoes ==
  ASSUME BarTypes, Bar!SubmitForm
  PROVE  /\ BarTypes' /\ HistKeeps(FALSE) /\ barStreams[barScreen.chat] = "none"
         /\ barStreams'[barScreen.chat] = "sent"
         /\ \A c \in Bar!AllChats : c # barScreen.chat => barStreams'[c] = barStreams[c]
         /\ UNCHANGED <<barStored, barCache, barFetch, barDel, barScreen>>
<1>1. barScreen.chat \in Bar!AllChats
  BY DEF BarTypes, BarScreenType
<1>2. /\ barStreams' \in [Bar!AllChats -> {"none", "sent", "begun", "titled"}]
      /\ barStreams'[barScreen.chat] = "sent"
      /\ \A c \in Bar!AllChats : c # barScreen.chat => barStreams'[c] = barStreams[c]
  BY <1>1 DEF Bar!SubmitForm, BarTypes
<1>3. HistKeeps(FALSE)
  <2>1. PICK n \in Nat : barHist' = [barHist EXCEPT !.turns = n]
    <3>1. barHist.turns + 1 \in Nat
      BY DEF BarTypes, BarHistType
    <3> QED BY <3>1 DEF Bar!SubmitForm
  <2> QED BY <2>1 DEF HistKeeps, HistMoves, BarTypes, BarHistType
<1> QED BY <1>2, <1>3 DEF Bar!SubmitForm, BarTypes, HistKeeps, HistMoves

LEMMA BeginDoes ==
  ASSUME BarTypes, NEW c \in Bar!AllChats, Bar!Begin(c)
  PROVE  /\ BarTypes' /\ barStreams[c] = "sent"
         /\ HistMoves(c \in barHist.gone \/ c \in SentOf(barDel), FALSE, FALSE, barHist.gone, barHist.now + 1)
         /\ barStored'[c] = IF barStored[c] > 0 THEN barStored[c] ELSE barHist.now + 1
         /\ barStreams'[c] = IF barStored[c] > 0 THEN "titled" ELSE "begun"
         /\ \A d \in Bar!AllChats : d # c => barStored'[d] = barStored[d] /\ barStreams'[d] = barStreams[d]
         /\ UNCHANGED <<barCache, barFetch, barDel, barScreen>>
<1>1. c \in Bar!There <=> barStored[c] > 0
  BY DEF Bar!There
<1>2. barHist.now \in Nat
  BY DEF BarTypes, BarHistType
<1>3. /\ barStored' \in Times
      /\ barStored'[c] = IF barStored[c] > 0 THEN barStored[c] ELSE barHist.now + 1
      /\ \A d \in Bar!AllChats : d # c => barStored'[d] = barStored[d]
  BY <1>1, <1>2 DEF BarTypes, Times, Bar!Begin
<1>4. /\ barStreams' \in [Bar!AllChats -> {"none", "sent", "begun", "titled"}]
      /\ barStreams'[c] = IF barStored[c] > 0 THEN "titled" ELSE "begun"
      /\ \A d \in Bar!AllChats : d # c => barStreams'[d] = barStreams[d]
  BY <1>1 DEF BarTypes, Bar!Begin
<1>5. HistMoves(c \in barHist.gone \/ c \in SentOf(barDel), FALSE, FALSE, barHist.gone, barHist.now + 1)
  <2>1. PICK off \in BOOLEAN : off = (c \in barHist.gone \/ c \in SentOf(barDel))
    OBVIOUS
  <2>2. off = (c \in barHist.gone \/ \E d \in Bar!Deletions : barDel[d].pc = "sent" /\ c \in barDel[d].which)
    BY <2>1 DEF SentOf
  <2>3. PICK a \in BOOLEAN : a = (barHist.off \/ off)
    OBVIOUS
  <2>4. barHist' = [barHist EXCEPT !.now = @ + 1, !.off = a]
    BY <2>2, <2>3 DEF Bar!Begin
  <2>5. PICK n \in Nat : n = barHist.now + 1 /\ barHist' = [barHist EXCEPT !.now = n, !.off = a]
    <3>1. barHist.now + 1 \in Nat
      BY <1>2
    <3> QED BY <2>4, <3>1
  <2>6. /\ barHist' \in BarHistType /\ barHist'.off = a /\ barHist'.moved = barHist.moved
        /\ barHist'.stays = barHist.stays /\ barHist'.gone = barHist.gone /\ barHist'.now = n
    BY <2>5 DEF BarTypes, BarHistType
  <2>7. ~a => ~barHist.off /\ ~off
    BY <2>3
  <2> QED BY <2>1, <2>5, <2>6, <2>7 DEF HistMoves
<1> QED BY <1>3, <1>4, <1>5 DEF Bar!Begin, BarTypes, HistMoves

\* What an entry that is merged or put first makes of the cached list.
Upserts(c, of, time) ==
    /\ barCache' \in CacheType /\ barCache'.local = barCache.local \cup {c}
    /\ \A d \in Bar!AllChats : barCache'.title[d] = barCache.title[d] \/ (d = c /\ barCache'.title[d] = of)
    /\ \/ c \in Bar!Entries(barCache.pages) /\ barCache'.pages = barCache.pages
       \/ /\ c \notin Bar!Entries(barCache.pages) /\ barCache.pages = <<>>
          /\ Len(barCache'.pages) = 1 /\ DOMAIN barCache'.pages[1].chats = {c}
          /\ barCache'.pages[1].chats[c] = time
       \/ c \notin Bar!Entries(barCache.pages) /\ PutsFirst(barCache.pages, barCache'.pages, c, time)

LEMMA WithEntryOK ==
  ASSUME NEW pages \in Seq(ListPage), NEW c \in Bar!AllChats, barHist.now \in Nat,
         pages # <<>>, c \notin Bar!Entries(pages)
  PROVE  PutsFirst(pages, Bar!WithEntry(pages, c), c, barHist.now + 1)
<1> DEFINE page == pages[1]
           chats == [d \in DOMAIN page.chats \cup {c} |-> IF d = c THEN barHist.now + 1 ELSE page.chats[d]]
           page1 == [page EXCEPT !.chats = chats]
           pages1 == [pages EXCEPT ![1] = page1]
<1>1. 1 \in 1..Len(pages) /\ Len(pages) > 0
  BY EntriesIn
<1>2. page.chats \in Chart /\ page \in ListPage
  BY <1>1, EntriesIn
<1>3. chats = [d \in DOMAIN page.chats \cup {c} |-> IF d = c THEN barHist.now + 1 ELSE page.chats[d]]
  OBVIOUS
<1>4. chats \in [DOMAIN page.chats \cup {c} -> Nat] /\ DOMAIN page.chats \cup {c} \in SUBSET Bar!AllChats
  <2> HIDE DEF chats, page
  <2>1. DOMAIN page.chats \subseteq Bar!AllChats /\ \A d \in DOMAIN page.chats : page.chats[d] \in Nat
    BY <1>2, ChartOK
  <2> QED BY <1>3, <2>1
<1>5. chats \in Chart /\ DOMAIN chats = DOMAIN page.chats \cup {c}
  <2> HIDE DEF chats, page
  <2> QED BY <1>4, ChartOf
<1>6. Bar!WithEntry(pages, c) = pages1
  <2>1. Bar!WithEntry(pages, c) = [pages EXCEPT ![1] = Bar!PutFirst(pages[1], c)]
    BY DEF Bar!WithEntry
  <2>2. Bar!PutFirst(pages[1], c) = page1
    BY DEF Bar!PutFirst
  <2> HIDE DEF page1
  <2> QED BY <2>1, <2>2
<1>7. page1 \in ListPage /\ page1.chats = chats /\ page1.more = page.more
  <2> HIDE DEF chats, page
  <2> QED BY <1>2, <1>5 DEF ListPage
<1> HIDE DEF page1
<1>8. /\ pages1 \in Seq(ListPage) /\ Len(pages1) = Len(pages)
      /\ pages1[1] = page1 /\ \A i \in 2..Len(pages) : pages1[i] = pages[i]
  BY <1>1, <1>7
<1>9. \A i \in 1..Len(pages) : pages1[i].more = pages[i].more
  <2>1. \A i \in 1..Len(pages) : i = 1 \/ i \in 2..Len(pages)
    BY EntriesIn
  <2> HIDE DEF chats, pages1
  <2> QED BY <1>7, <1>8, <2>1
<1>10. /\ pages1[1].chats[c] = barHist.now + 1
       /\ \A d \in DOMAIN page.chats : d # c => pages1[1].chats[d] = page.chats[d]
  <2> HIDE DEF chats, page, pages1
  <2> QED BY <1>3, <1>7, <1>8
<1> HIDE DEF chats, pages1
<1> QED BY <1>1, <1>5, <1>6, <1>7, <1>8, <1>9, <1>10 DEF PutsFirst

LEMMA UpsertDoes ==
  ASSUME BarTypes, NEW c \in Bar!AllChats, NEW of \in Bar!AllChats, NEW replaces \in BOOLEAN, Bar!Upsert(c, of, replaces)
  PROVE  Upserts(c, of, barHist.now + 1)
<1> DEFINE pages == barCache.pages
           pages1 == Bar!WithEntry(pages, c)
           title == IF c \in barCache.local /\ ~replaces THEN barCache.title ELSE [barCache.title EXCEPT ![c] = of]
<1>0. pages \in Seq(ListPage) /\ barHist.now \in Nat
  BY DEF BarTypes, CacheType, BarHistType
<1>1. barCache' = [pages |-> pages1, local |-> barCache.local \cup {c}, title |-> title]
  BY DEF Bar!Upsert
<1>2. /\ title \in [Bar!AllChats -> Bar!AllChats]
      /\ \A d \in Bar!AllChats : title[d] = barCache.title[d] \/ (d = c /\ title[d] = of)
  BY DEF BarTypes, CacheType
<1>3. \/ c \in Bar!Entries(pages) /\ pages1 = pages
      \/ /\ c \notin Bar!Entries(pages) /\ pages = <<>> /\ pages1 \in Seq(ListPage)
         /\ Len(pages1) = 1 /\ DOMAIN pages1[1].chats = {c} /\ pages1[1].chats[c] = barHist.now + 1
      \/ c \notin Bar!Entries(pages) /\ PutsFirst(pages, pages1, c, barHist.now + 1)
  <2>1. CASE c \in Bar!Entries(pages)
    BY <2>1 DEF Bar!WithEntry
  <2>2. CASE c \notin Bar!Entries(pages) /\ pages # <<>>
    BY <1>0, <2>2, WithEntryOK
  <2>3. CASE c \notin Bar!Entries(pages) /\ pages = <<>>
    <3> DEFINE chats == [d \in {c} |-> barHist.now + 1]
               page == [chats |-> chats, more |-> FALSE]
    <3>1. chats \in [{c} -> Nat] /\ {c} \in SUBSET Bar!AllChats /\ chats[c] = barHist.now + 1
      BY <1>0
    <3>2. pages1 = << page >>
      BY <2>3 DEF Bar!WithEntry
    <3> HIDE DEF chats
    <3>3. chats \in Chart /\ DOMAIN chats = {c}
      BY <3>1, ChartOf
    <3>4. page \in ListPage /\ page.chats = chats
      BY <3>3 DEF ListPage
    <3> HIDE DEF page
    <3>5. << page >> \in Seq(ListPage) /\ Len(<< page >>) = 1 /\ << page >>[1] = page
      BY <3>4
    <3> HIDE DEF pages1
    <3> QED BY <2>3, <3>1, <3>2, <3>3, <3>4, <3>5
  <2> QED BY <2>1, <2>2, <2>3
<1>4. pages1 \in Seq(ListPage) /\ barCache.local \cup {c} \in SUBSET Bar!AllChats
  BY <1>0, <1>3 DEF PutsFirst, BarTypes, CacheType
<1> HIDE DEF pages1, title
<1>5. /\ barCache' \in CacheType /\ barCache'.pages = pages1 /\ barCache'.local = barCache.local \cup {c}
      /\ barCache'.title = title
  BY <1>1, <1>2, <1>4 DEF CacheType
<1> QED BY <1>2, <1>3, <1>5 DEF Upserts

LEMMA ChatTitleDoes ==
  ASSUME BarTypes, NEW c \in Bar!AllChats, Bar!ChatTitle(c)
  PROVE  /\ BarTypes' /\ barStreams[c] = "begun" /\ barStreams'[c] = "titled"
         /\ \A d \in Bar!AllChats : d # c => barStreams'[d] = barStreams[d]
         /\ Upserts(barScreen.chat, c, barHist.now + 1)
         /\ HistMoves(barFetch.pc # "idle" \/ c # barScreen.chat \/ c \in barHist.gone, c # barScreen.chat, FALSE,
                      barHist.gone, barHist.now + 1)
         /\ UNCHANGED <<barStored, barFetch, barDel, barScreen>>
<1>1. /\ barStreams' \in [Bar!AllChats -> {"none", "sent", "begun", "titled"}]
      /\ barStreams[c] = "begun" /\ barStreams'[c] = "titled"
      /\ \A d \in Bar!AllChats : d # c => barStreams'[d] = barStreams[d]
  BY DEF BarTypes, Bar!ChatTitle
<1>2. Upserts(barScreen.chat, c, barHist.now + 1)
  <2>1. Bar!Upsert(barScreen.chat, c, TRUE) /\ barScreen.chat \in Bar!AllChats
    BY DEF Bar!ChatTitle, Bar!Titled, BarTypes, BarScreenType
  <2> QED BY <2>1, UpsertDoes
<1>3. HistMoves(barFetch.pc # "idle" \/ c # barScreen.chat \/ c \in barHist.gone, c # barScreen.chat, FALSE,
                barHist.gone, barHist.now + 1)
  <2>1. PICK off \in BOOLEAN : off = (barFetch.pc # "idle" \/ c # barScreen.chat \/ c \in barHist.gone)
    OBVIOUS
  <2>2. PICK moved \in BOOLEAN : moved = (c # barScreen.chat)
    OBVIOUS
  <2>3. barHist' = [barHist EXCEPT !.now = @ + 1, !.off = @ \/ off, !.moved = @ \/ moved]
    BY <2>1, <2>2 DEF Bar!ChatTitle, Bar!Fetching
  <2>4. HistMoves(off, moved, FALSE, barHist.gone, barHist.now + 1)
    BY <2>3, HistDated
  <2> QED BY <2>1, <2>2, <2>4 DEF HistMoves
<1> QED BY <1>1, <1>2, <1>3 DEF Bar!ChatTitle, BarTypes, HistMoves, Upserts

LEMMA OnFinishDoes ==
  ASSUME BarTypes, NEW c \in Bar!AllChats, Bar!OnFinish(c)
  PROVE  /\ BarTypes' /\ barStreams[c] # "none" /\ barStreams'[c] = "none"
         /\ \A d \in Bar!AllChats : d # c => barStreams'[d] = barStreams[d]
         /\ \/ /\ barScreen.chat \in barScreen.created
               /\ Upserts(barScreen.chat, c, barHist.now + 1)
               /\ barScreen'.created = barScreen.created \ {barScreen.chat}
            \/ barScreen.chat \notin barScreen.created /\ UNCHANGED <<barCache, barScreen>>
         /\ barScreen'.chat = barScreen.chat /\ barScreen'.next = barScreen.next
         /\ HistMoves(barFetch.pc # "idle" \/ c # barScreen.chat \/ c \notin Bar!There, c # barScreen.chat, FALSE,
                      barHist.gone, barHist.now + 1)
         /\ UNCHANGED <<barStored, barFetch, barDel>>
<1>1. /\ barStreams' \in [Bar!AllChats -> {"none", "sent", "begun", "titled"}]
      /\ barStreams[c] # "none" /\ barStreams'[c] = "none"
      /\ \A d \in Bar!AllChats : d # c => barStreams'[d] = barStreams[d]
  BY DEF BarTypes, Bar!OnFinish
<1>2. ASSUME barScreen.chat \in barScreen.created
      PROVE  /\ Upserts(barScreen.chat, c, barHist.now + 1)
             /\ barScreen' \in BarScreenType /\ barScreen'.created = barScreen.created \ {barScreen.chat}
             /\ barScreen'.chat = barScreen.chat /\ barScreen'.next = barScreen.next
  <2>1. Bar!Upsert(barScreen.chat, c, FALSE) /\ barScreen.chat \in Bar!AllChats
    BY <1>2 DEF Bar!OnFinish, BarTypes, BarScreenType
  <2>2. barScreen' = [barScreen EXCEPT !.created = barScreen.created \ {barScreen.chat}]
    BY <1>2 DEF Bar!OnFinish
  <2> QED BY <2>1, <2>2, UpsertDoes DEF BarTypes, BarScreenType
<1>3. barScreen.chat \notin barScreen.created => UNCHANGED <<barCache, barScreen>>
  BY DEF Bar!OnFinish
<1>4. HistMoves(barFetch.pc # "idle" \/ c # barScreen.chat \/ c \notin Bar!There, c # barScreen.chat, FALSE,
                barHist.gone, barHist.now + 1)
  <2>1. PICK off \in BOOLEAN : off = (barFetch.pc # "idle" \/ c # barScreen.chat \/ c \notin Bar!There)
    OBVIOUS
  <2>2. PICK moved \in BOOLEAN : moved = (c # barScreen.chat)
    OBVIOUS
  <2>3. barHist' = [barHist EXCEPT !.now = @ + 1, !.off = @ \/ off, !.moved = @ \/ moved]
    BY <2>1, <2>2 DEF Bar!OnFinish, Bar!Fetching
  <2>4. HistMoves(off, moved, FALSE, barHist.gone, barHist.now + 1)
    BY <2>3, HistDated
  <2> QED BY <2>1, <2>2, <2>4 DEF HistMoves
<1>5. barCache' \in CacheType /\ barScreen' \in BarScreenType
  BY <1>2, <1>3 DEF Upserts, BarTypes
<1> QED BY <1>1, <1>2, <1>3, <1>4, <1>5 DEF Bar!OnFinish, BarTypes, HistMoves

\* A new chat is on screen.
GoesFresh ==
    /\ barScreen' \in BarScreenType /\ barScreen.next \in Bar!AllChats
    /\ barScreen'.chat = barScreen.next /\ barScreen'.next = barScreen.next + 1
    /\ barScreen'.created = barScreen.created \cup {barScreen.next}

LEMMA FreshIs ==
  ASSUME BarTypes, NEW route \in {"/", "new"}, Bar!CanGo, barScreen' = Bar!Fresh(route) PROVE GoesFresh
<1>1. PICK n \in Nat : n = barScreen.next + 1
  BY DEF BarTypes, BarScreenType
<1>2. PICK x \in Bar!AllChats : x = barScreen.next
  BY DEF Bar!CanGo
<1>3. PICK created \in SUBSET Bar!AllChats : created = barScreen.created \cup {barScreen.next}
  BY <1>2 DEF BarTypes, BarScreenType
<1>4. barScreen' = [barScreen EXCEPT !.route = route, !.chat = x, !.next = n, !.created = created]
  BY <1>1, <1>2, <1>3 DEF Bar!Fresh
<1> QED BY <1>1, <1>2, <1>3, <1>4 DEF GoesFresh, BarTypes, BarScreenType

LEMMA NewChatDoes ==
  ASSUME BarTypes, Bar!NewChat
  PROVE  /\ BarTypes' /\ GoesFresh
         /\ UNCHANGED <<barStored, barCache, barFetch, barDel, barStreams, barHist>>
<1>1. GoesFresh
  BY FreshIs DEF Bar!NewChat
<1> QED BY <1>1 DEF Bar!NewChat, BarTypes, GoesFresh

\* The chats that are shown are those of the pages and the local ones.
LEMMA ShownAre == ASSUME BarTypes PROVE Bar!Shown = Bar!Entries(barCache.pages) \cup barCache.local
<1>1. barCache.pages \in Seq(ListPage)
  BY DEF BarTypes, CacheType
<1>2. ASSUME NEW c \in Bar!Shown PROVE c \in Bar!Entries(barCache.pages) \cup barCache.local
  BY <1>1, <1>2, EntriesIn DEF Bar!Shown, Bar!Rows
<1>3. ASSUME NEW c \in barCache.local PROVE c \in Bar!Shown
  <2>1. <<0, c>> \in Bar!Rows /\ <<0, c>>[2] = c
    BY <1>3 DEF Bar!Rows
  <2> QED BY <2>1 DEF Bar!Shown
<1>4. ASSUME NEW c \in Bar!Entries(barCache.pages), c \notin barCache.local PROVE c \in Bar!Shown
  <2>1. PICK i \in 1..Len(barCache.pages) : c \in DOMAIN barCache.pages[i].chats
    BY <1>1, EntriesIn
  <2>2. <<i, c>> \in Bar!Rows /\ <<i, c>>[2] = c
    BY <1>1, <1>4, <2>1, EntriesIn DEF Bar!Rows
  <2> QED BY <2>2 DEF Bar!Shown
<1> QED BY <1>2, <1>3, <1>4

LEMMA OpenChatDoes ==
  ASSUME BarTypes, NEW c \in Bar!AllChats, Bar!OpenChat(c)
  PROVE  /\ BarTypes' /\ c \in Bar!Entries(barCache.pages) \cup barCache.local
         /\ barScreen'.chat = c /\ barScreen'.created = barScreen.created /\ barScreen'.next = barScreen.next
         /\ UNCHANGED <<barStored, barCache, barFetch, barDel, barStreams, barHist>>
<1>1. c \in Bar!Entries(barCache.pages) \cup barCache.local
  BY ShownAre DEF Bar!OpenChat, Bar!Offered
<1>2. /\ barScreen' \in BarScreenType
      /\ barScreen'.chat = c /\ barScreen'.created = barScreen.created /\ barScreen'.next = barScreen.next
  BY DEF Bar!OpenChat, BarTypes, BarScreenType
<1> QED BY <1>1, <1>2 DEF Bar!OpenChat, BarTypes

\* The pages of a list, each changed alike, are again pages.
LEMMA PagesMapped ==
  ASSUME NEW pages \in Seq(ListPage), NEW pages1, DOMAIN pages1 = DOMAIN pages, pages1 = [i \in DOMAIN pages |-> pages1[i]],
         \A i \in DOMAIN pages : pages1[i] \in ListPage
  PROVE  pages1 \in Seq(ListPage) /\ Len(pages1) = Len(pages)
<1>1. DOMAIN pages = 1..Len(pages) /\ Len(pages) \in Nat
  BY EntriesIn
<1>2. pages1 \in [1..Len(pages) -> ListPage]
  BY <1>1
<1> QED BY <1>1, <1>2

LEMMA DropDoes ==
  ASSUME BarTypes, NEW c \in Bar!AllChats, Bar!Drop({c})
  PROVE  /\ barCache' \in CacheType /\ TakenOut(barCache.pages, barCache'.pages, c)
         /\ barCache'.local = barCache.local \ {c} /\ barCache'.title = barCache.title
<1> DEFINE pages == barCache.pages
           chats(i) == Bar!Restrict(pages[i].chats, DOMAIN pages[i].chats \ {c})
           page(i) == Bar!Without(pages[i], {c})
           pages1 == [i \in DOMAIN pages |-> page(i)]
<1>1. pages \in Seq(ListPage)
  BY DEF BarTypes, CacheType
<1>2. ASSUME NEW i \in DOMAIN pages
      PROVE  /\ page(i) \in ListPage /\ page(i).more = pages[i].more /\ page(i).chats = chats(i)
             /\ DOMAIN chats(i) = DOMAIN pages[i].chats \ {c}
             /\ \A d \in DOMAIN pages[i].chats \ {c} : chats(i)[d] = pages[i].chats[d]
  <2> DEFINE D == DOMAIN pages[i].chats \ {c}
  <2>1. pages[i] \in ListPage /\ D \in SUBSET Bar!AllChats /\ \A d \in D : pages[i].chats[d] \in Nat
    BY <1>1, EntriesIn
  <2>2. chats(i) = [d \in D |-> pages[i].chats[d]]
    BY DEF Bar!Restrict
  <2>6. page(i) = [pages[i] EXCEPT !.chats = chats(i)]
    BY DEF Bar!Without
  <2> HIDE DEF D, chats, page
  <2>3. chats(i) \in [D -> Nat] /\ \A d \in D : chats(i)[d] = pages[i].chats[d]
    BY <2>1, <2>2
  <2>4. chats(i) \in Chart /\ DOMAIN chats(i) = D
    BY <2>1, <2>3, ChartOf
  <2>5. page(i) \in ListPage /\ page(i).more = pages[i].more /\ page(i).chats = chats(i)
    BY <2>1, <2>4, <2>6 DEF ListPage
  <2> QED BY <2>3, <2>4, <2>5 DEF D
<1> HIDE DEF page, chats
<1>3. pages1 \in Seq(ListPage) /\ Len(pages1) = Len(pages)
  <2>1. DOMAIN pages1 = DOMAIN pages /\ \A i \in DOMAIN pages : pages1[i] = page(i)
    OBVIOUS
  <2>2. pages1 = [i \in DOMAIN pages |-> pages1[i]]
    OBVIOUS
  <2>3. \A i \in DOMAIN pages : pages1[i] \in ListPage
    BY <1>2, <2>1
  <2> HIDE DEF pages1, pages
  <2> QED BY <1>1, <2>1, <2>2, <2>3, PagesMapped
<1>4. TakenOut(pages, pages1, c)
  <2>1. ASSUME NEW i \in 1..Len(pages)
        PROVE  /\ pages1[i].more = pages[i].more
               /\ DOMAIN pages1[i].chats = DOMAIN pages[i].chats \ {c}
               /\ \A d \in DOMAIN pages[i].chats \ {c} : pages1[i].chats[d] = pages[i].chats[d]
    <3>1. i \in DOMAIN pages /\ pages1[i] = page(i)
      BY <1>1, EntriesIn
    <3> HIDE DEF pages1, pages
    <3> QED BY <1>2, <3>1
  <2> HIDE DEF pages1
  <2> QED BY <1>3, <2>1 DEF TakenOut
<1>5. barCache.local \ {c} \in SUBSET Bar!AllChats /\ barCache \in CacheType
  BY DEF BarTypes, CacheType
<1>6. barCache' = [barCache EXCEPT !.pages = pages1, !.local = barCache.local \ {c}]
  BY DEF Bar!Drop, page
<1> HIDE DEF pages1
<1> QED BY <1>3, <1>4, <1>5, <1>6 DEF CacheType

LEMMA HandleDeleteDoes ==
  ASSUME BarTypes, NEW c \in Bar!AllChats, Bar!HandleDelete(c)
  PROVE  /\ BarTypes' /\ c \in Bar!Entries(barCache.pages) \cup barCache.local
         /\ TakenOut(barCache.pages, barCache'.pages, c)
         /\ barCache'.local = barCache.local \ {c} /\ barCache'.title = barCache.title
         /\ SentOf(barDel') = SentOf(barDel) \cup {c}
         /\ \/ barScreen.chat = c /\ barScreen.route = "chat" /\ GoesFresh
            \/ ~(barScreen.chat = c /\ barScreen.route = "chat") /\ UNCHANGED barScreen
         /\ HistMoves(barFetch.pc # "idle" \/ barStreams[c] # "none", FALSE,
                      barScreen.chat = c /\ barScreen.route # "chat", barHist.gone, barHist.now)
         /\ UNCHANGED <<barStored, barFetch, barStreams>>
<1>1. c \in Bar!Entries(barCache.pages) \cup barCache.local
  BY ShownAre DEF Bar!HandleDelete, Bar!Offered
<1>2. /\ barCache' \in CacheType /\ TakenOut(barCache.pages, barCache'.pages, c)
      /\ barCache'.local = barCache.local \ {c} /\ barCache'.title = barCache.title
  BY DropDoes DEF Bar!HandleDelete
<1>3. barDel' \in [Bar!Deletions -> DelType] /\ SentOf(barDel') = SentOf(barDel) \cup {c}
  <2>1. barDel' = [barDel EXCEPT !["one"] = [pc |-> "sent", which |-> {c}]] /\ barDel["one"].pc = "idle"
    BY DEF Bar!HandleDelete, Bar!CanConfirm
  <2>2. [pc |-> "sent", which |-> {c}] \in DelType
    BY DEF DelType
  <2> QED BY <2>1, <2>2 DEF BarTypes, SentOf, Bar!Deletions
<1>4. /\ \/ barScreen.chat = c /\ barScreen.route = "chat" /\ GoesFresh
         \/ ~(barScreen.chat = c /\ barScreen.route = "chat") /\ UNCHANGED barScreen
      /\ barScreen' \in BarScreenType
  <2>1. Bar!CanGo /\ Bar!Leaves(c)
    BY DEF Bar!HandleDelete, Bar!CanConfirm
  <2>2. CASE barScreen.chat = c /\ barScreen.route = "chat"
    <3>1. barScreen' = Bar!Fresh("/")
      BY <2>1, <2>2 DEF Bar!Leaves, Bar!Root
    <3>2. GoesFresh
      BY <2>1, <3>1, FreshIs
    <3> QED BY <2>2, <3>2 DEF GoesFresh
  <2>3. CASE ~(barScreen.chat = c /\ barScreen.route = "chat")
    BY <2>1, <2>3 DEF Bar!Leaves, BarTypes
  <2> QED BY <2>2, <2>3
<1>5. HistMoves(barFetch.pc # "idle" \/ barStreams[c] # "none", FALSE,
                barScreen.chat = c /\ barScreen.route # "chat", barHist.gone, barHist.now)
  <2>1. PICK off \in BOOLEAN : off = (barFetch.pc # "idle" \/ barStreams[c] # "none")
    OBVIOUS
  <2>2. PICK stays \in BOOLEAN : stays = (barScreen.chat = c /\ barScreen.route # "chat")
    OBVIOUS
  <2>3. barHist' = [barHist EXCEPT !.turns = @ + 1, !.off = @ \/ off, !.stays = @ \/ stays]
    BY <2>1, <2>2 DEF Bar!HandleDelete, Bar!Fetching
  <2>4. HistMoves(off, FALSE, stays, barHist.gone, barHist.now)
    BY <2>3, HistTurn
  <2> QED BY <2>1, <2>2, <2>4 DEF HistMoves
<1> QED BY <1>1, <1>2, <1>3, <1>4, <1>5 DEF Bar!HandleDelete, BarTypes, HistMoves

LEMMA HandleDeleteAllDoes ==
  ASSUME BarTypes, Bar!HandleDeleteAll
  PROVE  /\ BarTypes' /\ Cleared(barCache.pages, barCache'.pages)
         /\ barCache'.local = {} /\ barCache'.title = barCache.title
         /\ SentOf(barDel') = Bar!AllChats
         /\ GoesFresh \/ (barScreen.route = "/" /\ UNCHANGED barScreen)
         /\ HistMoves(barFetch.pc # "idle" \/ \E c \in Bar!AllChats : barStreams[c] # "none", FALSE,
                      barScreen.route = "/", barHist.gone, barHist.now)
         /\ UNCHANGED <<barStored, barFetch, barStreams>>
<1>1. /\ barCache' \in CacheType /\ Cleared(barCache.pages, barCache'.pages)
      /\ barCache'.local = {} /\ barCache'.title = barCache.title
  <2> DEFINE pages == barCache.pages
             page == [chats |-> <<>>, more |-> FALSE]
             pages1 == [i \in DOMAIN pages |-> page]
  <2>1. pages \in Seq(ListPage) /\ barCache \in CacheType
    BY DEF BarTypes, CacheType
  <2>2. <<>> \in [{} -> Nat] /\ DOMAIN <<>> = {}
    OBVIOUS
  <2>3. <<>> \in Chart
    BY <2>2, ChartOf
  <2>4. page \in ListPage /\ DOMAIN page.chats = {}
    BY <2>2, <2>3 DEF ListPage
  <2>5. barCache' = [barCache EXCEPT !.pages = pages1, !.local = {}]
    BY DEF Bar!HandleDeleteAll
  <2> HIDE DEF page
  <2>6. DOMAIN pages1 = DOMAIN pages /\ pages1 = [i \in DOMAIN pages |-> pages1[i]] /\ \A i \in DOMAIN pages : pages1[i] = page
    OBVIOUS
  <2> HIDE DEF pages1, pages
  <2>7. pages1 \in Seq(ListPage) /\ Len(pages1) = Len(pages)
    BY <2>1, <2>4, <2>6, PagesMapped
  <2>8. Cleared(pages, pages1)
    BY <2>1, <2>4, <2>6, <2>7, EntriesIn DEF Cleared
  <2> QED BY <2>1, <2>5, <2>7, <2>8 DEF CacheType, pages
<1>2. barDel' \in [Bar!Deletions -> DelType] /\ SentOf(barDel') = Bar!AllChats
  <2>1. barDel' = [barDel EXCEPT !["all"] = [pc |-> "sent", which |-> Bar!AllChats]]
    BY DEF Bar!HandleDeleteAll
  <2>2. [pc |-> "sent", which |-> Bar!AllChats] \in DelType
    BY DEF DelType
  <2> QED BY <2>1, <2>2 DEF BarTypes, SentOf, Bar!Deletions
<1>3. barScreen' \in BarScreenType /\ (GoesFresh \/ (barScreen.route = "/" /\ UNCHANGED barScreen))
  <2>1. Bar!CanGo /\ barScreen' = Bar!Root
    BY DEF Bar!HandleDeleteAll, Bar!CanConfirm
  <2>2. CASE barScreen.route = "/"
    BY <2>1, <2>2 DEF Bar!Root, BarTypes
  <2>3. CASE barScreen.route # "/"
    <3>1. GoesFresh
      BY <2>1, <2>3, FreshIs DEF Bar!Root
    <3> QED BY <3>1 DEF GoesFresh
  <2> QED BY <2>2, <2>3
<1>4. HistMoves(barFetch.pc # "idle" \/ \E c \in Bar!AllChats : barStreams[c] # "none", FALSE,
                barScreen.route = "/", barHist.gone, barHist.now)
  <2>1. PICK off \in BOOLEAN : off = (barFetch.pc # "idle" \/ \E c \in Bar!AllChats : barStreams[c] # "none")
    OBVIOUS
  <2>2. PICK stays \in BOOLEAN : stays = (barScreen.route = "/")
    OBVIOUS
  <2>3. barHist' = [barHist EXCEPT !.turns = @ + 1, !.off = @ \/ off, !.stays = @ \/ stays]
    BY <2>1, <2>2 DEF Bar!HandleDeleteAll, Bar!Fetching
  <2>4. HistMoves(off, FALSE, stays, barHist.gone, barHist.now)
    BY <2>3, HistTurn
  <2> QED BY <2>1, <2>2, <2>4 DEF HistMoves
<1> QED BY <1>1, <1>2, <1>3, <1>4 DEF Bar!HandleDeleteAll, BarTypes, HistMoves

LEMMA RemovedDoes ==
  ASSUME BarTypes, NEW which \in SUBSET Bar!AllChats, Bar!Removed(which)
  PROVE  barStored' \in Times /\ \A c \in Bar!AllChats : barStored'[c] = IF c \in which THEN 0 ELSE barStored[c]
BY DEF Bar!Removed, BarTypes, Times

LEMMA SlashDeleteDoes ==
  ASSUME BarTypes, NEW which, Bar!SlashDelete(which)
  PROVE  /\ BarTypes' /\ GoesFresh /\ barHist'.off /\ barHist'.now = barHist.now
         /\ (~barHist'.moved => ~barHist.moved)
         /\ which \in SUBSET Bar!AllChats
         /\ \A c \in Bar!AllChats : barStored'[c] = IF c \in which THEN 0 ELSE barStored[c]
         /\ UNCHANGED <<barCache, barFetch, barDel, barStreams>>
<1>1. which \in SUBSET Bar!AllChats
  BY DEF Bar!SlashDelete, BarTypes, BarScreenType
<1>2. barStored' \in Times /\ \A c \in Bar!AllChats : barStored'[c] = IF c \in which THEN 0 ELSE barStored[c]
  BY <1>1, RemovedDoes DEF Bar!SlashDelete
<1>3. GoesFresh
  BY FreshIs DEF Bar!SlashDelete
<1>4. barHist' \in BarHistType /\ barHist'.off /\ barHist'.now = barHist.now /\ barHist'.moved = barHist.moved
  <2>1. PICK n \in Nat : n = barHist.turns + 1
    BY DEF BarTypes, BarHistType
  <2>2. PICK gone \in SUBSET Bar!AllChats : gone = barHist.gone \cup which
    BY <1>1 DEF BarTypes, BarHistType
  <2>3. barHist' = [barHist EXCEPT !.turns = n, !.off = TRUE, !.gone = gone]
    BY <2>1, <2>2 DEF Bar!SlashDelete
  <2> QED BY <2>3 DEF BarTypes, BarHistType
<1> QED BY <1>1, <1>2, <1>3, <1>4 DEF Bar!SlashDelete, BarTypes, GoesFresh

LEMMA DeletesDoes ==
  ASSUME BarTypes, NEW d \in Bar!Deletions, Bar!Deletes(d)
  PROVE  /\ BarTypes' /\ barDel[d].which \subseteq SentOf(barDel)
         /\ SentOf(barDel') \subseteq SentOf(barDel) /\ SentOf(barDel) \subseteq SentOf(barDel') \cup barDel[d].which
         /\ \A c \in Bar!AllChats : barStored'[c] = IF c \in barDel[d].which THEN 0 ELSE barStored[c]
         /\ HistMoves(FALSE, FALSE, FALSE, barHist.gone \cup (barDel[d].which \cap Bar!There), barHist.now)
         /\ UNCHANGED <<barCache, barFetch, barScreen, barStreams>>
<1>1. barDel[d] \in DelType /\ barDel[d].which \in SUBSET Bar!AllChats /\ barDel[d].pc = "sent"
  BY DEF Bar!Deletes, BarTypes, DelType
<1>2. barStored' \in Times /\ \A c \in Bar!AllChats : barStored'[c] = IF c \in barDel[d].which THEN 0 ELSE barStored[c]
  BY <1>1, RemovedDoes DEF Bar!Deletes
<1>3. /\ barDel' \in [Bar!Deletions -> DelType] /\ barDel'[d].pc = "answered"
      /\ \A e \in Bar!Deletions : e # d => barDel'[e] = barDel[e]
  <2>1. barDel' = [barDel EXCEPT ![d] = [barDel[d] EXCEPT !.pc = "answered"]]
    BY DEF Bar!Deletes, BarTypes
  <2>2. [barDel[d] EXCEPT !.pc = "answered"] \in DelType /\ [barDel[d] EXCEPT !.pc = "answered"].pc = "answered"
    BY <1>1 DEF DelType
  <2> QED BY <2>1, <2>2 DEF BarTypes
<1>4. HistMoves(FALSE, FALSE, FALSE, barHist.gone \cup (barDel[d].which \cap Bar!There), barHist.now)
  <2>1. PICK gone \in SUBSET Bar!AllChats : gone = barHist.gone \cup (barDel[d].which \cap Bar!There)
    BY <1>1 DEF BarTypes, BarHistType
  <2>2. barHist' = [barHist EXCEPT !.gone = gone]
    BY <2>1 DEF Bar!Deletes
  <2> QED BY <2>1, <2>2 DEF HistMoves, BarTypes, BarHistType
<1>5. barDel[d].which \subseteq SentOf(barDel)
  BY <1>1 DEF SentOf
<1>6. SentOf(barDel') \subseteq SentOf(barDel) /\ SentOf(barDel) \subseteq SentOf(barDel') \cup barDel[d].which
  BY <1>3 DEF SentOf
<1> QED BY <1>2, <1>3, <1>4, <1>5, <1>6 DEF Bar!Deletes, BarTypes, HistMoves

LEMMA DeleteAnsweredDoes ==
  ASSUME BarTypes, NEW d \in Bar!Deletions, Bar!DeleteAnswered(d)
  PROVE  /\ BarTypes' /\ SentOf(barDel') = SentOf(barDel)
         /\ UNCHANGED <<barStored, barCache, barFetch, barScreen, barStreams, barHist>>
<1>1. /\ barDel' \in [Bar!Deletions -> DelType] /\ barDel'[d].pc = "idle" /\ barDel[d].pc = "answered"
      /\ \A e \in Bar!Deletions : e # d => barDel'[e] = barDel[e]
  <2>1. Bar!NoDel \in DelType /\ Bar!NoDel.pc = "idle"
    BY DEF Bar!NoDel, DelType
  <2> QED BY <2>1 DEF Bar!DeleteAnswered, BarTypes
<1>2. SentOf(barDel') = SentOf(barDel)
  BY <1>1 DEF SentOf
<1> QED BY <1>1, <1>2 DEF Bar!DeleteAnswered, BarTypes

LEMMA DeleteFailsDoes ==
  ASSUME BarTypes, NEW d \in Bar!Deletions, Bar!DeleteFails(d)
  PROVE  /\ BarTypes' /\ HistKeeps(TRUE)
         /\ UNCHANGED <<barStored, barCache, barFetch, barScreen, barStreams>>
<1>1. barDel' \in [Bar!Deletions -> DelType]
  BY DEF Bar!DeleteFails, BarTypes, Bar!NoDel, DelType
<1>2. HistKeeps(TRUE)
  BY DEF Bar!DeleteFails, HistKeeps, HistMoves, BarTypes, BarHistType
<1> QED BY <1>1, <1>2 DEF Bar!DeleteFails, BarTypes, HistKeeps, HistMoves

-----------------------------------------------------------------------------
\* What is so of the chats, as long as nothing has gone astray: the local entries are there;
\* a new chat is one of those begun here until its answer ends; a chat that was begun here
\* and is there has its stream; and none is newer than a local entry or a chat that is
\* coming but those of which the same is so.
InStep(st, local, streams, created, sent, gone, next, chat) ==
    /\ \A c \in local : st[c] > 0 /\ c \notin sent
    /\ \A c \in gone : st[c] = 0 /\ c < next
    /\ \A c \in Bar!AllChats : st[c] = 0 /\ c \notin gone /\ (c = chat \/ streams[c] # "none") => c \in created
    /\ \A c \in created : st[c] > 0 => streams[c] # "none" /\ c \notin sent
    /\ \A c \in Bar!AllChats : streams[c] = "begun" => st[c] > 0 /\ c \in created
    /\ \A c \in local \cup Comes(st, local, streams, created), d \in Bar!AllChats :
          st[d] > st[c] => d \in KnownOf(st, local, streams, created, sent)

BarSent == SentOf(barDel)
BarKnown == KnownOf(barStored, barCache.local, barStreams, barScreen.created, BarSent)

Agrees ==
    /\ Numbered
    /\ barFetch.pc # "idle" => BarSent = {}
    /\ barFetch.pc = "idle" => barCache.pages # <<>>
    /\ InStep(barStored, barCache.local, barStreams, barScreen.created, BarSent, barHist.gone, barScreen.next, barScreen.chat)
    /\ Fits(barCache.pages, barStored, barCache.local, BarSent, BarKnown)
    /\ Fits(barFetch.got, barStored, barCache.local, BarSent, BarKnown)
    /\ ~barHist.stays => barScreen.chat \notin barHist.gone /\ (barScreen.chat \in BarSent => barStored[barScreen.chat] = 0)

BarBase == BarTypes /\ Dated /\ TitlesKept /\ FetchHas
BarInv == BarBase /\ (~barHist.off => Agrees)

LEMMA BarFacts ==
  ASSUME BarTypes
  PROVE  /\ barCache.pages \in Seq(ListPage) /\ barFetch.got \in Seq(ListPage) /\ barCache.local \subseteq Bar!AllChats
         /\ barHist.now \in Nat /\ barHist.gone \subseteq Bar!AllChats /\ barScreen.chat \in Bar!AllChats
         /\ barScreen.created \subseteq Bar!AllChats /\ barScreen.next \in Nat /\ BarSent \subseteq Bar!AllChats
         /\ barStored \in Times /\ \A c \in Bar!AllChats : barStored[c] \in Nat /\ c \in Nat
         /\ barCache.title \in [Bar!AllChats -> Bar!AllChats]
BY BarBounds DEF BarTypes, CacheType, FetchType, BarHistType, BarScreenType, Times, BarSent, SentOf

\* A step that leaves the chats as they are, for the server, the streams and the screen.
LEMMA BarFetchSteps ==
  ASSUME BarInv, BarTypes', UNCHANGED <<barStored, barDel, barScreen, barStreams>>,
         barCache'.local = barCache.local, barHist'.gone = barHist.gone, barHist'.now = barHist.now,
         ~barHist'.moved => ~barHist.moved, ~barHist'.off => ~barHist.off, ~barHist'.stays => ~barHist.stays,
         \A c \in Bar!AllChats : barCache'.title[c] \in {c, barCache.title[c]},
         barFetch'.pc = "idle" => barFetch'.got = <<>>, barFetch'.pc = "answered" => barFetch'.got # <<>>,
         Until(barCache'.pages, barHist.now), Until(barFetch'.got, barHist.now),
         ~barHist'.off => /\ barFetch'.pc # "idle" => BarSent = {}
                          /\ barFetch'.pc = "idle" => barCache'.pages # <<>>
                          /\ Fits(barCache'.pages, barStored, barCache.local, BarSent, BarKnown)
                          /\ Fits(barFetch'.got, barStored, barCache.local, BarSent, BarKnown)
  PROVE  BarInv'
<1>1. BarSent' = BarSent /\ BarKnown' = BarKnown
  BY DEF BarSent, BarKnown
<1>2. Dated'
  BY DEF BarInv, BarBase, Dated
<1>3. TitlesKept' /\ FetchHas'
  BY DEF BarInv, BarBase, TitlesKept, FetchHas
<1>4. ~barHist'.off => Agrees'
  BY <1>1 DEF BarInv, Agrees, Numbered
<1> QED BY <1>2, <1>3, <1>4 DEF BarInv, BarBase

LEMMA BarRefetch == ASSUME BarInv, Bar!Refetch PROVE BarInv'
<1>1. /\ BarTypes' /\ barFetch'.pc = "asks" /\ barFetch'.got = <<>> /\ HistKeeps(Bar!Deleting)
      /\ UNCHANGED <<barStored, barCache, barDel, barScreen, barStreams>>
  BY RefetchDoes DEF BarInv, BarBase
<1>2. ASSUME ~barHist'.off
      PROVE  /\ BarSent = {} /\ Fits(barCache.pages, barStored, barCache.local, BarSent, BarKnown)
             /\ Fits(barFetch'.got, barStored, barCache.local, BarSent, BarKnown)
  <2>1. ~barHist.off /\ ~Bar!Deleting
    BY <1>1, <1>2 DEF HistKeeps, HistMoves
  <2>2. BarSent = {}
    BY <2>1 DEF Bar!Deleting, BarSent, SentOf
  <2> QED BY <1>1, <2>1, <2>2, NoPages DEF BarInv, Agrees
<1>3. \A c \in Bar!AllChats : barCache'.title[c] \in {c, barCache.title[c]}
  BY <1>1
<1>4. Until(barCache'.pages, barHist.now) /\ Until(barFetch'.got, barHist.now)
  BY <1>1, NoPages DEF BarInv, BarBase, Dated
<1> QED BY <1>1, <1>2, <1>3, <1>4, BarFetchSteps DEF HistKeeps, HistMoves

LEMMA BarFetchNextPage == ASSUME BarInv, Bar!FetchNextPage PROVE BarInv'
<1>1. /\ BarTypes' /\ barFetch'.pc = "asks" /\ barFetch'.got = barCache.pages /\ HistKeeps(Bar!Deleting)
      /\ UNCHANGED <<barStored, barCache, barDel, barScreen, barStreams>>
  BY FetchNextPageDoes DEF BarInv, BarBase
<1>2. ASSUME ~barHist'.off
      PROVE  /\ BarSent = {} /\ Fits(barCache.pages, barStored, barCache.local, BarSent, BarKnown)
             /\ Fits(barFetch'.got, barStored, barCache.local, BarSent, BarKnown)
  <2>1. ~barHist.off /\ ~Bar!Deleting
    BY <1>1, <1>2 DEF HistKeeps, HistMoves
  <2>2. BarSent = {}
    BY <2>1 DEF Bar!Deleting, BarSent, SentOf
  <2> QED BY <1>1, <2>1, <2>2 DEF BarInv, Agrees
<1>3. \A c \in Bar!AllChats : barCache'.title[c] \in {c, barCache.title[c]}
  BY <1>1
<1>4. Until(barCache'.pages, barHist.now) /\ Until(barFetch'.got, barHist.now)
  BY <1>1 DEF BarInv, BarBase, Dated
<1> QED BY <1>1, <1>2, <1>3, <1>4, BarFetchSteps DEF HistKeeps, HistMoves

LEMMA BarListPage == ASSUME BarInv, Bar!ListPage PROVE BarInv'
<1> DEFINE cursor == Bar!NextCursor(barFetch.got)
           page == Bar!Listed(cursor)
<1>1. /\ BarTypes' /\ barFetch.pc # "idle" /\ barFetch'.pc # "idle"
      /\ barFetch.got # <<>> => cursor \in Bar!There
      /\ ListedOK(page, barStored, cursor) /\ barFetch'.got = Append(barFetch.got, page)
      /\ UNCHANGED <<barStored, barCache, barDel, barScreen, barStreams, barHist>>
  BY ListPageDoes DEF BarInv, BarBase
<1>2. /\ barFetch.got \in Seq(ListPage) /\ barStored \in Times /\ Ranks(barStored)
      /\ Until(barCache.pages, barHist.now) /\ Until(barFetch.got, barHist.now)
      /\ barHist.now \in Nat /\ \A c \in Bar!AllChats : barStored[c] <= barHist.now
  BY BarFacts DEF BarInv, BarBase, Dated
<1>3. barFetch.got # <<>> => cursor # 0
  BY <1>1, BarBounds DEF Bar!There
<1> HIDE DEF cursor, page
<1>4. Until(barFetch'.got, barHist.now)
  <2>1. page \in ListPage /\ \A c \in DOMAIN page.chats : page.chats[c] <= barHist.now
    BY <1>1, <1>2 DEF ListedOK, AfterIn
  <2>2. \A i \in 1..Len(barFetch'.got) : i \in 1..Len(barFetch.got) \/ i = Len(barFetch.got) + 1
    BY <1>1, <1>2, <2>1, Appended
  <2> QED BY <1>1, <1>2, <2>1, <2>2, Appended DEF Until
<1>7. barFetch'.got # <<>>
  <2>1. Len(barFetch'.got) = Len(barFetch.got) + 1 /\ Len(barFetch.got) \in Nat
    BY <1>1, <1>2, Appended, EntriesIn DEF ListedOK
  <2> QED BY <2>1
<1>5. ASSUME ~barHist'.off
      PROVE  /\ BarSent = {} /\ Fits(barCache.pages, barStored, barCache.local, BarSent, BarKnown)
             /\ Fits(barFetch'.got, barStored, barCache.local, BarSent, BarKnown)
  <2>1. /\ BarSent = {} /\ Fits(barCache.pages, barStored, barCache.local, BarSent, BarKnown)
        /\ Fits(barFetch.got, barStored, barCache.local, BarSent, BarKnown)
    BY <1>1, <1>5 DEF BarInv, Agrees
  <2>2. CursorOK(barFetch.got, barStored, barCache.local, cursor)
    BY <1>2, <1>3, <2>1, CursorIs DEF cursor
  <2>3. Fits(barFetch'.got, barStored, barCache.local, BarSent, BarKnown)
    BY <1>1, <1>2, <2>1, <2>2, FitsMore
  <2> QED BY <2>1, <2>3
<1>6. \A c \in Bar!AllChats : barCache'.title[c] \in {c, barCache.title[c]}
  BY <1>1
<1> QED BY <1>1, <1>2, <1>4, <1>5, <1>6, <1>7, BarFetchSteps

LEMMA BarFetched == ASSUME BarInv, Bar!Fetched PROVE BarInv'
<1>1. /\ BarTypes' /\ barFetch.pc = "answered" /\ barFetch'.pc = "idle" /\ barFetch'.got = <<>>
      /\ barCache'.pages = barFetch.got /\ barCache'.local = barCache.local
      /\ \A c \in Bar!AllChats : barCache'.title[c] \in {c, barCache.title[c]}
      /\ UNCHANGED <<barStored, barDel, barScreen, barStreams, barHist>>
  BY FetchedDoes DEF BarInv, BarBase
<1>2. Until(barCache'.pages, barHist.now) /\ Until(barFetch'.got, barHist.now)
  BY <1>1, NoPages DEF BarInv, BarBase, Dated
<1>3. barFetch.got # <<>>
  BY <1>1 DEF BarInv, BarBase, FetchHas
<1>4. ASSUME ~barHist'.off
      PROVE  /\ Fits(barCache'.pages, barStored, barCache.local, BarSent, BarKnown)
             /\ Fits(barFetch'.got, barStored, barCache.local, BarSent, BarKnown)
  BY <1>1, <1>4, NoPages DEF BarInv, Agrees
<1> QED BY <1>1, <1>2, <1>3, <1>4, BarFetchSteps

LEMMA BarFetchFails == ASSUME BarInv, Bar!FetchFails PROVE BarInv'
<1>1. /\ BarTypes' /\ barFetch'.pc = "idle" /\ barFetch'.got = <<>> /\ HistKeeps(TRUE)
      /\ UNCHANGED <<barStored, barCache, barDel, barScreen, barStreams>>
  BY FetchFailsDoes DEF BarInv, BarBase
<1>2. barHist'.off
  BY <1>1 DEF HistKeeps, HistMoves
<1>3. Until(barCache'.pages, barHist.now) /\ Until(barFetch'.got, barHist.now)
  BY <1>1, NoPages DEF BarInv, BarBase, Dated
<1>4. \A c \in Bar!AllChats : barCache'.title[c] \in {c, barCache.title[c]}
  BY <1>1
<1> QED BY <1>1, <1>2, <1>3, <1>4, BarFetchSteps DEF HistKeeps, HistMoves

LEMMA BarSubmitForm == ASSUME BarInv, Bar!SubmitForm PROVE BarInv'
<1>1. /\ BarTypes' /\ HistKeeps(FALSE) /\ barStreams[barScreen.chat] = "none"
      /\ barStreams'[barScreen.chat] = "sent"
      /\ \A c \in Bar!AllChats : c # barScreen.chat => barStreams'[c] = barStreams[c]
      /\ UNCHANGED <<barStored, barCache, barFetch, barDel, barScreen>>
  BY SubmitFormDoes DEF BarInv, BarBase
<1>2. barHist'.now = barHist.now /\ (~barHist'.moved => ~barHist.moved)
  BY <1>1 DEF HistKeeps, HistMoves
<1>3. Dated' /\ TitlesKept' /\ FetchHas'
  BY <1>1, <1>2 DEF BarInv, BarBase, Dated, TitlesKept, FetchHas
<1>4. ASSUME ~barHist'.off PROVE Agrees'
  <2>1. Agrees /\ barHist'.gone = barHist.gone /\ (~barHist'.stays => ~barHist.stays)
    BY <1>1, <1>4 DEF BarInv, HistKeeps, HistMoves
  <2>2. BarSent' = BarSent
    BY <1>1 DEF BarSent
  <2>3. Comes(barStored, barCache.local, barStreams', barScreen.created)
           = Comes(barStored, barCache.local, barStreams, barScreen.created)
    BY <1>1, <2>1, BarFacts DEF Agrees, InStep, Comes, BarInv, BarBase
  <2>4. BarKnown' = BarKnown
    BY <1>1, <2>2, <2>3 DEF BarKnown, KnownOf
  <2>5. InStep(barStored, barCache.local, barStreams', barScreen.created, BarSent, barHist.gone, barScreen.next, barScreen.chat)
    BY <1>1, <2>1, <2>3, BarFacts DEF Agrees, InStep, KnownOf, BarInv, BarBase
  <2>6. Numbered'
    BY <1>1, <2>1, BarFacts DEF Agrees, Numbered, BarInv, BarBase
  <2> QED BY <1>1, <2>1, <2>2, <2>4, <2>5, <2>6 DEF Agrees
<1> QED BY <1>1, <1>3, <1>4 DEF BarInv, BarBase

\* A chat that begins is newer than all, and is known until its answer ends.
LEMMA BarBegin == ASSUME BarInv, NEW c \in Bar!AllChats, Bar!Begin(c) PROVE BarInv'
<1>1. /\ BarTypes' /\ barStreams[c] = "sent"
      /\ HistMoves(c \in barHist.gone \/ c \in SentOf(barDel), FALSE, FALSE, barHist.gone, barHist.now + 1)
      /\ barStored'[c] = IF barStored[c] > 0 THEN barStored[c] ELSE barHist.now + 1
      /\ barStreams'[c] = IF barStored[c] > 0 THEN "titled" ELSE "begun"
      /\ \A d \in Bar!AllChats : d # c => barStored'[d] = barStored[d] /\ barStreams'[d] = barStreams[d]
      /\ UNCHANGED <<barCache, barFetch, barDel, barScreen>>
  BY BeginDoes DEF BarInv, BarBase
<1>2. /\ barHist'.now = barHist.now + 1 /\ barHist'.gone = barHist.gone
      /\ (~barHist'.moved => ~barHist.moved) /\ (~barHist'.stays => ~barHist.stays)
      /\ ~barHist'.off => ~barHist.off /\ c \notin barHist.gone /\ c \notin BarSent
  BY <1>1 DEF HistMoves, BarSent
<1>3. BarTypes /\ Dated /\ TitlesKept /\ FetchHas
  BY DEF BarInv, BarBase
<1>4. Dated'
  <2>1. \A d \in Bar!AllChats : barStored'[d] <= barHist.now + 1
    BY <1>1, <1>3, BarFacts DEF Dated
  <2>3. ASSUME NEW d \in Bar!AllChats, NEW e \in Bar!AllChats, barStored'[d] > 0, barStored'[d] = barStored'[e], d # e
        PROVE  FALSE
    <3>1. \A x \in Bar!AllChats : barStored[x] \in Nat /\ barStored[x] <= barHist.now /\ barHist.now \in Nat
      BY <1>3, BarFacts DEF Dated
    <3>2. CASE barStored[c] > 0
      BY <1>1, <1>3, <2>3, <3>2 DEF Dated, Ranks
    <3>3. CASE barStored[c] = 0 /\ (d = c \/ e = c)
      <4>1. barHist.now + 1 = barStored[d] \/ barHist.now + 1 = barStored[e]
        BY <1>1, <2>3, <3>3
      <4> QED BY <3>1, <4>1
    <3>4. CASE d # c /\ e # c
      BY <1>1, <1>3, <2>3, <3>4 DEF Dated, Ranks
    <3> QED BY <3>1, <3>2, <3>3, <3>4
  <2>4. Ranks(barStored')
    BY <2>3 DEF Ranks
  <2>2. \A pages \in Seq(ListPage) : Until(pages, barHist.now) => Until(pages, barHist.now + 1)
    BY <1>3, BarFacts, UntilLater
  <2> QED BY <1>1, <1>2, <1>3, <2>1, <2>2, <2>4, BarFacts DEF Dated
<1>5. TitlesKept' /\ FetchHas'
  BY <1>1, <1>2, <1>3 DEF TitlesKept, FetchHas
<1>6. ASSUME ~barHist'.off PROVE Agrees'
  <2>1. Agrees /\ c \notin barHist.gone /\ c \notin BarSent
    BY <1>2, <1>6 DEF BarInv
  <2>2. BarSent' = BarSent /\ BarKnown' = KnownOf(barStored', barCache.local, barStreams', barScreen.created, BarSent)
    BY <1>1 DEF BarSent, BarKnown
  <2>3. barStored[c] = 0 => c \in barScreen.created /\ c \notin barCache.local
    BY <1>1, <2>1 DEF Agrees, InStep
  <2>4. \A d \in Bar!AllChats : d \in Comes(barStored', barCache.local, barStreams', barScreen.created) <=>
           d \in Comes(barStored, barCache.local, barStreams, barScreen.created) \/ (d = c /\ barStored[c] = 0)
    BY <1>1, <1>3, <2>3, BarFacts DEF Comes
  <2>5. \A d \in Bar!AllChats : d \in BarKnown' <=> d \in BarKnown \/ (d = c /\ barStored[c] = 0)
    BY <2>2, <2>4 DEF BarKnown, KnownOf
  <2>6. \A d \in Bar!AllChats : d # c \/ barStored[c] > 0 => barStored'[d] = barStored[d]
    BY <1>1
  <2>7. \A d, e \in Bar!AllChats : barStored'[d] > barStored'[e] /\ barStored[e] > 0 =>
           barStored[d] > barStored[e] \/ (d = c /\ barStored[c] = 0)
    BY <1>1, <1>3, BarFacts
  <2>8. InStep(barStored', barCache.local, barStreams', barScreen.created, BarSent, barHist.gone, barScreen.next, barScreen.chat)
    <3>1. /\ \A d \in barCache.local : barStored'[d] > 0 /\ d \notin BarSent
          /\ \A d \in barHist.gone : barStored'[d] = 0 /\ d < barScreen.next
      BY <1>1, <1>3, <2>1, BarFacts DEF Agrees, InStep
    <3>2. \A d \in Bar!AllChats : barStored'[d] = 0 /\ d \notin barHist.gone /\ (d = barScreen.chat \/ barStreams'[d] # "none")
             => d \in barScreen.created
      BY <1>1, <1>3, <2>1, BarFacts DEF Agrees, InStep
    <3>3. \A d \in barScreen.created : barStored'[d] > 0 => barStreams'[d] # "none" /\ d \notin BarSent
      BY <1>1, <1>3, <2>1, BarFacts DEF Agrees, InStep
    <3>4. \A d \in Bar!AllChats : barStreams'[d] = "begun" => barStored'[d] > 0 /\ d \in barScreen.created
      BY <1>1, <1>3, <2>1, <2>3, BarFacts DEF Agrees, InStep
    <3>5. ASSUME NEW d \in barCache.local \cup Comes(barStored', barCache.local, barStreams', barScreen.created),
                 NEW e \in Bar!AllChats, barStored'[e] > barStored'[d]
          PROVE  e \in KnownOf(barStored', barCache.local, barStreams', barScreen.created, BarSent)
      <4>1. d \in Bar!AllChats
        BY <1>3, BarFacts DEF Comes
      <4>2. CASE d = c /\ barStored[c] = 0
        <5>1. barStored'[d] = barHist.now + 1 /\ e # c /\ barStored'[e] = barStored[e]
          BY <1>1, <1>3, <3>5, <4>2, BarFacts
        <5> QED BY <1>3, <3>5, <5>1, BarFacts DEF Dated
      <4>3. CASE ~(d = c /\ barStored[c] = 0)
        <5>1. d \in barCache.local \cup Comes(barStored, barCache.local, barStreams, barScreen.created)
          BY <2>4, <4>1, <4>3
        <5>2. barStored[d] > 0
          BY <2>1, <5>1 DEF Agrees, InStep, Comes
        <5>3. e \in BarKnown \/ (e = c /\ barStored[c] = 0)
          BY <2>1, <2>7, <3>5, <4>1, <5>1, <5>2 DEF Agrees, InStep, BarKnown
        <5> QED BY <2>2, <2>5, <5>3
      <4> QED BY <4>2, <4>3
    <3> QED BY <3>1, <3>2, <3>3, <3>4, <3>5 DEF InStep
  <2>9. ASSUME NEW pages \in Seq(ListPage), Fits(pages, barStored, barCache.local, BarSent, BarKnown)
        PROVE  Fits(pages, barStored', barCache.local, BarSent, BarKnown')
    <3>1. \A d \in Bar!Entries(pages) : barStored'[d] = barStored[d] /\ d \notin BarSent
      BY <1>1, <2>9, EntriesIn DEF Fits, Within
    <3>2. \A d \in Bar!AllChats : barStored'[d] > 0 =>
             (barStored'[d] = barStored[d] /\ (d \in BarKnown => d \in BarKnown')) \/ d \in BarKnown'
      BY <1>1, <1>3, <2>5, BarFacts
    <3>3. barStored \in Times /\ barStored' \in Times
      BY <1>1, <1>3 DEF BarTypes
    <3> QED BY <2>9, <3>1, <3>2, <3>3, FitsStay
  <2>10. barScreen.chat \in BarSent /\ barStored[barScreen.chat] = 0 => barStored'[barScreen.chat] = 0
    BY <1>1, <1>3, <2>1, BarFacts
  <2>11. Numbered'
    BY <1>1, <1>3, <2>1 DEF Agrees, Numbered
  <2> QED BY <1>1, <1>2, <1>3, <2>1, <2>2, <2>8, <2>9, <2>10, <2>11, BarFacts DEF Agrees
<1> QED BY <1>1, <1>4, <1>5, <1>6 DEF BarInv, BarBase

LEMMA UntilUpsert ==
  ASSUME BarTypes, Dated, NEW c \in Bar!AllChats, NEW of, Upserts(c, of, barHist.now + 1)
  PROVE  Until(barCache'.pages, barHist.now + 1)
<1>1. /\ barCache.pages \in Seq(ListPage) /\ Until(barCache.pages, barHist.now) /\ barHist.now \in Nat
      /\ barCache'.pages \in Seq(ListPage)
  BY BarFacts DEF Dated, Upserts, CacheType
<1>2. CASE barCache'.pages = barCache.pages
  BY <1>1, <1>2, UntilLater
<1>3. CASE /\ Len(barCache'.pages) = 1 /\ DOMAIN barCache'.pages[1].chats = {c}
           /\ barCache'.pages[1].chats[c] = barHist.now + 1
  BY <1>1, <1>3 DEF Until
<1>4. CASE PutsFirst(barCache.pages, barCache'.pages, c, barHist.now + 1)
  BY <1>1, <1>4, UntilFirst
<1> QED BY <1>2, <1>3, <1>4 DEF Upserts

LEMMA UpsertFits ==
  ASSUME BarTypes, Dated, Agrees, barFetch.pc = "idle", NEW c \in Bar!AllChats, NEW of, Upserts(c, of, barHist.now + 1),
         barStored[c] > 0, c \notin BarSent,
         c \in barCache.local \cup Comes(barStored, barCache.local, barStreams, barScreen.created)
  PROVE  Fits(barCache'.pages, barStored, barCache.local \cup {c}, BarSent, BarKnown) /\ barCache'.pages # <<>>
<1>1. /\ barCache.pages \in Seq(ListPage) /\ Until(barCache.pages, barHist.now) /\ barHist.now \in Nat
      /\ barStored \in Times /\ barCache.pages # <<>> /\ BarKnown \subseteq BarKnown
      /\ Fits(barCache.pages, barStored, barCache.local, BarSent, BarKnown)
  BY BarFacts DEF Dated, Agrees
<1>2. \A d \in Bar!AllChats : barStored[d] > barStored[c] => d \in BarKnown
  BY DEF Agrees, InStep, BarKnown
<1>3. CASE c \in Bar!Entries(barCache.pages) /\ barCache'.pages = barCache.pages
  BY <1>1, <1>3, FitsListed
<1>4. CASE c \notin Bar!Entries(barCache.pages) /\ PutsFirst(barCache.pages, barCache'.pages, c, barHist.now + 1)
  <2>1. Fits(barCache'.pages, barStored, barCache.local \cup {c}, BarSent, BarKnown)
    BY <1>1, <1>2, <1>4, FitsFirst
  <2>2. Len(barCache'.pages) > 0
    BY <1>4 DEF PutsFirst
  <2> QED BY <2>1, <2>2
<1> QED BY <1>1, <1>3, <1>4 DEF Upserts

\* A chat whose title comes is known still: it is a local entry from now on.
LEMMA BarChatTitle == ASSUME BarInv, NEW c \in Bar!AllChats, Bar!ChatTitle(c) PROVE BarInv'
<1>1. /\ BarTypes' /\ barStreams[c] = "begun" /\ barStreams'[c] = "titled"
      /\ \A d \in Bar!AllChats : d # c => barStreams'[d] = barStreams[d]
      /\ Upserts(barScreen.chat, c, barHist.now + 1)
      /\ HistMoves(barFetch.pc # "idle" \/ c # barScreen.chat \/ c \in barHist.gone, c # barScreen.chat, FALSE,
                   barHist.gone, barHist.now + 1)
      /\ UNCHANGED <<barStored, barFetch, barDel, barScreen>>
  BY ChatTitleDoes DEF BarInv, BarBase
<1>2. /\ barHist'.now = barHist.now + 1 /\ barHist'.gone = barHist.gone
      /\ (~barHist'.moved => ~barHist.moved /\ c = barScreen.chat) /\ (~barHist'.stays => ~barHist.stays)
      /\ ~barHist'.off => ~barHist.off /\ barFetch.pc = "idle" /\ c = barScreen.chat
  BY <1>1 DEF HistMoves
<1>3. BarTypes /\ Dated /\ TitlesKept /\ FetchHas
  BY DEF BarInv, BarBase
<1>4. Dated'
  <2>1. (\A d \in Bar!AllChats : barStored[d] <= barHist.now + 1)
    BY <1>3, BarFacts DEF Dated
  <2>2. Until(barFetch.got, barHist.now + 1)
    BY <1>3, BarFacts, UntilLater DEF Dated
  <2>3. Until(barCache'.pages, barHist.now + 1)
    BY <1>1, <1>3, UntilUpsert, BarFacts
  <2> QED BY <1>1, <1>2, <1>3, <2>1, <2>2, <2>3 DEF Dated
<1>5. FetchHas'
  BY <1>1, <1>3 DEF FetchHas
<1>6. TitlesKept'
  BY <1>1, <1>2, <1>3 DEF TitlesKept, Upserts
<1>7. ASSUME ~barHist'.off PROVE Agrees'
  <2>1. Agrees /\ barFetch.pc = "idle" /\ c = barScreen.chat
    BY <1>2, <1>7 DEF BarInv
  <2>2. barStored[c] > 0 /\ c \in barScreen.created /\ c \notin BarSent
    BY <1>1, <2>1 DEF Agrees, InStep
  <2>3. c \in barCache.local \cup Comes(barStored, barCache.local, barStreams, barScreen.created)
    BY <1>1, <2>2 DEF Comes
  <2>4. /\ Fits(barCache'.pages, barStored, barCache.local \cup {c}, BarSent, BarKnown) /\ barCache'.pages # <<>>
        /\ barCache'.local = barCache.local \cup {c}
    BY <1>1, <1>3, <2>1, <2>2, <2>3, UpsertFits DEF Upserts
  <2>5. \A d : d \in barCache'.local \cup Comes(barStored, barCache'.local, barStreams', barScreen.created)
                 <=> d \in barCache.local \cup Comes(barStored, barCache.local, barStreams, barScreen.created)
    BY <1>1, <2>3, <2>4 DEF Comes
  <2>6. BarSent' = BarSent /\ BarKnown' = KnownOf(barStored, barCache'.local, barStreams', barScreen.created, BarSent)
    BY <1>1 DEF BarSent, BarKnown
  <2>7. BarKnown' = BarKnown
    <3>1. \A d : d \in BarKnown' <=> d \in BarKnown
      BY <2>5, <2>6 DEF BarKnown, KnownOf
    <3>2. BarKnown' \subseteq Bar!AllChats /\ BarKnown \subseteq Bar!AllChats
      BY <1>3, <2>6, <3>1, BarFacts DEF BarKnown, KnownOf, Comes
    <3> QED BY <3>1, <3>2
  <2>8. InStep(barStored, barCache'.local, barStreams', barScreen.created, BarSent, barHist.gone, barScreen.next, barScreen.chat)
    <3>1. /\ \A d \in barCache'.local : barStored[d] > 0 /\ d \notin BarSent
          /\ \A d \in barHist.gone : barStored[d] = 0 /\ d < barScreen.next
      BY <2>1, <2>2, <2>4 DEF Agrees, InStep
    <3>2. /\ \A d \in Bar!AllChats : barStored[d] = 0 /\ d \notin barHist.gone /\ (d = barScreen.chat \/ barStreams'[d] # "none")
                => d \in barScreen.created
          /\ \A d \in Bar!AllChats : barStreams'[d] = "begun" => barStored[d] > 0 /\ d \in barScreen.created
      BY <1>1, <2>1 DEF Agrees, InStep
    <3>3. \A d \in barScreen.created : barStored[d] > 0 => barStreams'[d] # "none" /\ d \notin BarSent
      BY <1>1, <1>3, <2>1, BarFacts DEF Agrees, InStep
    <3>4. \A d \in barCache'.local \cup Comes(barStored, barCache'.local, barStreams', barScreen.created), e \in Bar!AllChats :
             barStored[e] > barStored[d] => e \in BarKnown
      BY <2>1, <2>5 DEF Agrees, InStep, BarKnown
    <3> QED BY <2>6, <2>7, <3>1, <3>2, <3>3, <3>4 DEF InStep
  <2>9. Fits(barFetch'.got, barStored, barCache'.local, BarSent, BarKnown)
    BY <1>1, <1>3, <2>1, NoPages DEF FetchHas
  <2>10. Numbered'
    BY <1>1, <2>1 DEF Agrees, Numbered
  <2> QED BY <1>1, <1>2, <2>1, <2>4, <2>6, <2>7, <2>8, <2>9, <2>10 DEF Agrees
<1> QED BY <1>1, <1>4, <1>5, <1>6, <1>7 DEF BarInv, BarBase

\* And so is one whose answer ends.
LEMMA BarOnFinish == ASSUME BarInv, NEW c \in Bar!AllChats, Bar!OnFinish(c) PROVE BarInv'
<1>1. /\ BarTypes' /\ barStreams[c] # "none" /\ barStreams'[c] = "none"
      /\ \A d \in Bar!AllChats : d # c => barStreams'[d] = barStreams[d]
      /\ \/ /\ barScreen.chat \in barScreen.created
            /\ Upserts(barScreen.chat, c, barHist.now + 1)
            /\ barScreen'.created = barScreen.created \ {barScreen.chat}
         \/ barScreen.chat \notin barScreen.created /\ UNCHANGED <<barCache, barScreen>>
      /\ barScreen'.chat = barScreen.chat /\ barScreen'.next = barScreen.next
      /\ HistMoves(barFetch.pc # "idle" \/ c # barScreen.chat \/ c \notin Bar!There, c # barScreen.chat, FALSE,
                   barHist.gone, barHist.now + 1)
      /\ UNCHANGED <<barStored, barFetch, barDel>>
  BY OnFinishDoes DEF BarInv, BarBase
<1>2. /\ barHist'.now = barHist.now + 1 /\ barHist'.gone = barHist.gone
      /\ (~barHist'.moved => ~barHist.moved /\ c = barScreen.chat) /\ (~barHist'.stays => ~barHist.stays)
      /\ ~barHist'.off => ~barHist.off /\ barFetch.pc = "idle" /\ c = barScreen.chat /\ barStored[c] > 0
  BY <1>1 DEF HistMoves, Bar!There
<1>3. BarTypes /\ Dated /\ TitlesKept /\ FetchHas
  BY DEF BarInv, BarBase
<1>4. Dated'
  <2>1. (\A d \in Bar!AllChats : barStored[d] <= barHist.now + 1)
    BY <1>3, BarFacts DEF Dated
  <2>2. Until(barFetch.got, barHist.now + 1) /\ Until(barCache.pages, barHist.now + 1)
    BY <1>3, BarFacts, UntilLater DEF Dated
  <2>3. Until(barCache'.pages, barHist.now + 1)
    BY <1>1, <1>3, <2>2, UntilUpsert, BarFacts
  <2> QED BY <1>1, <1>2, <1>3, <2>1, <2>2, <2>3 DEF Dated
<1>5. FetchHas'
  BY <1>1, <1>3 DEF FetchHas
<1>6. TitlesKept'
  BY <1>1, <1>2, <1>3 DEF TitlesKept, Upserts
<1>7. ASSUME ~barHist'.off PROVE Agrees'
  <2>1. Agrees /\ barFetch.pc = "idle" /\ c = barScreen.chat /\ barStored[c] > 0
    BY <1>2, <1>7 DEF BarInv
  <2>2. /\ barCache'.pages # <<>> /\ Fits(barCache'.pages, barStored, barCache'.local, BarSent, BarKnown)
        /\ barCache'.local \cup Comes(barStored, barCache'.local, barStreams', barScreen'.created)
             = barCache.local \cup Comes(barStored, barCache.local, barStreams, barScreen.created)
        /\ \A d \in barCache'.local : barStored[d] > 0 /\ d \notin BarSent
        /\ barScreen'.created = barScreen.created \ {c}
    <3>1. CASE c \in barScreen.created
      <4>1. /\ Upserts(c, c, barHist.now + 1) /\ barScreen'.created = barScreen.created \ {c}
            /\ barCache'.local = barCache.local \cup {c}
        BY <1>1, <2>1, <3>1 DEF Upserts
      <4>2. c \notin BarSent
        BY <2>1, <3>1 DEF Agrees, InStep
      <4>3. c \in barCache.local \cup Comes(barStored, barCache.local, barStreams, barScreen.created)
        BY <1>1, <2>1, <3>1 DEF Comes
      <4>4. Fits(barCache'.pages, barStored, barCache'.local, BarSent, BarKnown) /\ barCache'.pages # <<>>
        BY <1>3, <2>1, <4>1, <4>2, <4>3, UpsertFits
      <4>5. barCache'.local \cup Comes(barStored, barCache'.local, barStreams', barScreen'.created)
               = barCache.local \cup Comes(barStored, barCache.local, barStreams, barScreen.created)
        BY <1>1, <4>1, <4>3 DEF Comes
      <4>6. \A d \in barCache'.local : barStored[d] > 0 /\ d \notin BarSent
        BY <2>1, <4>1, <4>2 DEF Agrees, InStep
      <4> QED BY <4>1, <4>4, <4>5, <4>6
    <3>2. CASE c \notin barScreen.created
      <4>1. UNCHANGED <<barCache, barScreen>>
        BY <1>1, <2>1, <3>2
      <4>2. Comes(barStored, barCache.local, barStreams', barScreen.created)
               = Comes(barStored, barCache.local, barStreams, barScreen.created)
        BY <1>1, <3>2 DEF Comes
      <4>3. barScreen.created = barScreen.created \ {c}
        BY <3>2
      <4> QED BY <2>1, <4>1, <4>2, <4>3 DEF Agrees, InStep
    <3> QED BY <3>1, <3>2
  <2>3. BarSent' = BarSent /\ BarKnown' = KnownOf(barStored, barCache'.local, barStreams', barScreen'.created, BarSent)
    BY <1>1 DEF BarSent, BarKnown
  <2>4. BarKnown' = BarKnown
    BY <2>2, <2>3 DEF BarKnown, KnownOf
  <2>5. InStep(barStored, barCache'.local, barStreams', barScreen'.created, BarSent, barHist.gone, barScreen'.next, barScreen'.chat)
    <3>1. \A d \in barHist.gone : barStored[d] = 0 /\ d < barScreen'.next
      BY <1>1, <2>1 DEF Agrees, InStep
    <3>2. /\ \A d \in Bar!AllChats : barStored[d] = 0 /\ d \notin barHist.gone /\ (d = barScreen'.chat \/ barStreams'[d] # "none")
                => d \in barScreen'.created
          /\ \A d \in Bar!AllChats : barStreams'[d] = "begun" => barStored[d] > 0 /\ d \in barScreen'.created
      BY <1>1, <2>1, <2>2 DEF Agrees, InStep
    <3>3. \A d \in barScreen'.created : barStored[d] > 0 => barStreams'[d] # "none" /\ d \notin BarSent
      BY <1>1, <1>3, <2>1, <2>2, BarFacts DEF Agrees, InStep
    <3>4. \A d \in barCache'.local \cup Comes(barStored, barCache'.local, barStreams', barScreen'.created), e \in Bar!AllChats :
             barStored[e] > barStored[d] => e \in BarKnown
      BY <2>1, <2>2 DEF Agrees, InStep, BarKnown
    <3> QED BY <2>2, <2>3, <2>4, <3>1, <3>2, <3>3, <3>4 DEF InStep
  <2>6. Fits(barFetch'.got, barStored, barCache'.local, BarSent, BarKnown)
    BY <1>1, <1>3, <2>1, NoPages DEF FetchHas
  <2>7. Numbered'
    BY <1>1, <2>1, <2>2 DEF Agrees, Numbered
  <2> QED BY <1>1, <1>2, <2>1, <2>2, <2>3, <2>4, <2>5, <2>6, <2>7 DEF Agrees
<1> QED BY <1>1, <1>4, <1>5, <1>6, <1>7 DEF BarInv, BarBase

\* A new chat on screen is not there, has no stream and was never deleted.
LEMMA FreshKeeps ==
  ASSUME BarTypes, Numbered, GoesFresh, NEW st \in Times, NEW local, NEW sent,
         \A c \in Bar!AllChats : st[c] > 0 => barStored[c] > 0,
         InStep(st, local, barStreams, barScreen.created, sent, barHist.gone, barScreen.next, barScreen.chat)
  PROVE  /\ InStep(st, local, barStreams, barScreen'.created, sent, barHist.gone, barScreen'.next, barScreen'.chat)
         /\ Comes(st, local, barStreams, barScreen'.created) = Comes(st, local, barStreams, barScreen.created)
         /\ barScreen'.chat \notin barHist.gone /\ st[barScreen'.chat] = 0
<1> DEFINE n == barScreen.next
<1>1. /\ n \in Bar!AllChats /\ n \in Nat /\ barScreen'.chat = n /\ barScreen'.next = n + 1
      /\ barScreen'.created = barScreen.created \cup {n}
      /\ \A c \in Bar!AllChats : st[c] \in Nat /\ c \in Nat
  BY BarFacts DEF GoesFresh, Times
<1>2. st[n] = 0 /\ barStreams[n] = "none" /\ n \notin barHist.gone
  BY <1>1 DEF Numbered, InStep
<1> HIDE DEF n
<1>3. Comes(st, local, barStreams, barScreen'.created) = Comes(st, local, barStreams, barScreen.created)
  BY <1>1, <1>2 DEF Comes
<1>4. /\ \A c \in local : st[c] > 0 /\ c \notin sent
      /\ \A c \in barScreen'.created : st[c] > 0 => barStreams[c] # "none" /\ c \notin sent
      /\ \A c \in Bar!AllChats : barStreams[c] = "begun" => st[c] > 0 /\ c \in barScreen'.created
  BY <1>1, <1>2 DEF InStep
<1>5. \A c \in barHist.gone : st[c] = 0 /\ c < barScreen'.next
  BY <1>1, BarFacts DEF InStep, n
<1>6. \A c \in Bar!AllChats : st[c] = 0 /\ c \notin barHist.gone /\ (c = barScreen'.chat \/ barStreams[c] # "none")
         => c \in barScreen'.created
  BY <1>1 DEF InStep
<1>7. \A c \in local \cup Comes(st, local, barStreams, barScreen'.created), d \in Bar!AllChats :
         st[d] > st[c] => d \in KnownOf(st, local, barStreams, barScreen'.created, sent)
  BY <1>3 DEF InStep, KnownOf
<1> QED BY <1>1, <1>2, <1>3, <1>4, <1>5, <1>6, <1>7 DEF InStep

LEMMA FreshNumbered ==
  ASSUME BarTypes, Numbered, GoesFresh, UNCHANGED barStreams, \A c \in Bar!AllChats : barStored'[c] > 0 => barStored[c] > 0
  PROVE  Numbered'
<1>1. barScreen.next \in Nat /\ \A c \in Bar!AllChats : c \in Nat
  BY BarFacts
<1> QED BY <1>1, BarFacts DEF Numbered, GoesFresh

LEMMA BarNewChat == ASSUME BarInv, Bar!NewChat PROVE BarInv'
<1>1. BarTypes' /\ GoesFresh /\ UNCHANGED <<barStored, barCache, barFetch, barDel, barStreams, barHist>>
  BY NewChatDoes DEF BarInv, BarBase
<1>2. BarTypes /\ Dated /\ TitlesKept /\ FetchHas /\ barStored \in Times
  BY BarFacts DEF BarInv, BarBase
<1>3. Dated' /\ TitlesKept' /\ FetchHas'
  BY <1>1, <1>2 DEF Dated, TitlesKept, FetchHas
<1>4. ASSUME ~barHist'.off PROVE Agrees'
  <2>1. Agrees
    BY <1>1, <1>4 DEF BarInv
  <2>2. /\ InStep(barStored, barCache.local, barStreams, barScreen'.created, BarSent, barHist.gone, barScreen'.next, barScreen'.chat)
        /\ Comes(barStored, barCache.local, barStreams, barScreen'.created) = Comes(barStored, barCache.local, barStreams, barScreen.created)
        /\ barScreen'.chat \notin barHist.gone /\ barStored[barScreen'.chat] = 0
    BY <1>1, <1>2, <2>1, FreshKeeps DEF Agrees
  <2>3. BarSent' = BarSent /\ BarKnown' = BarKnown
    BY <1>1, <2>2 DEF BarSent, BarKnown, KnownOf
  <2>4. Numbered'
    BY <1>1, <1>2, <2>1, FreshNumbered DEF Agrees
  <2> QED BY <1>1, <2>1, <2>2, <2>3, <2>4 DEF Agrees
<1> QED BY <1>1, <1>3, <1>4 DEF BarInv, BarBase

LEMMA BarOpenChat == ASSUME BarInv, NEW c \in Bar!AllChats, Bar!OpenChat(c) PROVE BarInv'
<1>1. /\ BarTypes' /\ c \in Bar!Entries(barCache.pages) \cup barCache.local
      /\ barScreen'.chat = c /\ barScreen'.created = barScreen.created /\ barScreen'.next = barScreen.next
      /\ UNCHANGED <<barStored, barCache, barFetch, barDel, barStreams, barHist>>
  BY OpenChatDoes DEF BarInv, BarBase
<1>2. Dated' /\ TitlesKept' /\ FetchHas'
  BY <1>1 DEF BarInv, BarBase, Dated, TitlesKept, FetchHas
<1>3. ASSUME ~barHist'.off PROVE Agrees'
  <2>1. Agrees
    BY <1>1, <1>3 DEF BarInv
  <2>2. barStored[c] > 0 /\ c \notin BarSent
    BY <1>1, <2>1 DEF Agrees, InStep, Fits, Within
  <2>3. Numbered'
    BY <1>1, <2>1, <2>2 DEF Agrees, Numbered
  <2>4. InStep(barStored, barCache.local, barStreams, barScreen.created, BarSent, barHist.gone, barScreen.next, c)
    BY <2>1, <2>2 DEF Agrees, InStep
  <2>5. c \notin barHist.gone
    BY <2>1, <2>2 DEF Agrees, InStep
  <2>6. BarSent' = BarSent /\ BarKnown' = BarKnown
    BY <1>1 DEF BarSent, BarKnown
  <2> QED BY <1>1, <2>1, <2>2, <2>3, <2>4, <2>5, <2>6 DEF Agrees
<1> QED BY <1>1, <1>2, <1>3 DEF BarInv, BarBase

LEMMA BarHandleDelete == ASSUME BarInv, NEW c \in Bar!AllChats, Bar!HandleDelete(c) PROVE BarInv'
<1>1. /\ BarTypes' /\ c \in Bar!Entries(barCache.pages) \cup barCache.local
      /\ TakenOut(barCache.pages, barCache'.pages, c)
      /\ barCache'.local = barCache.local \ {c} /\ barCache'.title = barCache.title
      /\ SentOf(barDel') = SentOf(barDel) \cup {c}
      /\ \/ barScreen.chat = c /\ barScreen.route = "chat" /\ GoesFresh
         \/ ~(barScreen.chat = c /\ barScreen.route = "chat") /\ UNCHANGED barScreen
      /\ HistMoves(barFetch.pc # "idle" \/ barStreams[c] # "none", FALSE,
                   barScreen.chat = c /\ barScreen.route # "chat", barHist.gone, barHist.now)
      /\ UNCHANGED <<barStored, barFetch, barStreams>>
  BY HandleDeleteDoes DEF BarInv, BarBase
<1>2. /\ barHist'.now = barHist.now /\ barHist'.gone = barHist.gone /\ (~barHist'.moved => ~barHist.moved)
      /\ ~barHist'.stays => ~barHist.stays /\ ~(barScreen.chat = c /\ barScreen.route # "chat")
      /\ ~barHist'.off => ~barHist.off /\ barFetch.pc = "idle" /\ barStreams[c] = "none"
  BY <1>1 DEF HistMoves
<1>3. BarTypes /\ Dated /\ TitlesKept /\ FetchHas /\ barStored \in Times /\ barCache.pages \in Seq(ListPage) /\ barHist.now \in Nat
  BY BarFacts DEF BarInv, BarBase
<1>4. Dated' /\ TitlesKept' /\ FetchHas'
  <2>1. Until(barCache'.pages, barHist.now)
    BY <1>1, <1>3, UntilWithout DEF Dated
  <2> QED BY <1>1, <1>2, <1>3, <2>1 DEF Dated, TitlesKept, FetchHas
<1>5. ASSUME ~barHist'.off PROVE Agrees'
  <2> DEFINE local == barCache.local \ {c}
             sent == BarSent \cup {c}
             known == KnownOf(barStored, local, barStreams, barScreen.created, sent)
  <2>1. Agrees /\ barFetch.pc = "idle" /\ barStreams[c] = "none"
    BY <1>2, <1>5 DEF BarInv
  <2>2. c \notin Comes(barStored, barCache.local, barStreams, barScreen.created)
    BY <2>1 DEF Comes
  <2>3. Comes(barStored, local, barStreams, barScreen.created) = Comes(barStored, barCache.local, barStreams, barScreen.created)
    BY <2>1 DEF Comes
  <2>4. BarKnown \cup {c} \subseteq known
    BY <2>3 DEF BarKnown, KnownOf
  <2>5. Fits(barCache'.pages, barStored, local, sent, known) /\ barCache'.pages # <<>>
    <3>1. Fits(barCache.pages, barStored, barCache.local, BarSent, BarKnown) /\ barCache.pages # <<>>
      BY <2>1 DEF Agrees
    <3> HIDE DEF known
    <3>2. Fits(barCache'.pages, barStored, local, sent, known)
      BY <1>1, <1>3, <2>4, <3>1, FitsWithout
    <3>3. Len(barCache'.pages) = Len(barCache.pages) /\ Len(barCache.pages) > 0
      BY <1>1, <1>3, <3>1 DEF TakenOut
    <3> QED BY <3>2, <3>3
  <2>6. InStep(barStored, local, barStreams, barScreen.created, sent, barHist.gone, barScreen.next, barScreen.chat)
    <3>1. /\ \A d \in local : barStored[d] > 0 /\ d \notin sent
          /\ \A d \in barScreen.created : barStored[d] > 0 => barStreams[d] # "none" /\ d \notin sent
      BY <2>1 DEF Agrees, InStep
    <3>2. \A d \in local \cup Comes(barStored, local, barStreams, barScreen.created), e \in Bar!AllChats :
             barStored[e] > barStored[d] => e \in known
      <4>1. \A d \in barCache.local \cup Comes(barStored, barCache.local, barStreams, barScreen.created), e \in Bar!AllChats :
               barStored[e] > barStored[d] => e \in BarKnown
        BY <2>1 DEF Agrees, InStep, BarKnown
      <4> HIDE DEF known
      <4> QED BY <2>3, <2>4, <4>1
    <3>3. /\ \A d \in barHist.gone : barStored[d] = 0 /\ d < barScreen.next
          /\ \A d \in Bar!AllChats : barStored[d] = 0 /\ d \notin barHist.gone /\ (d = barScreen.chat \/ barStreams[d] # "none")
                => d \in barScreen.created
          /\ \A d \in Bar!AllChats : barStreams[d] = "begun" => barStored[d] > 0 /\ d \in barScreen.created
      BY <2>1 DEF Agrees, InStep
    <3> HIDE DEF local, sent
    <3> QED BY <3>1, <3>2, <3>3 DEF InStep, known
  <2> HIDE DEF local, sent, known
  <2>7. /\ InStep(barStored, local, barStreams, barScreen'.created, sent, barHist.gone, barScreen'.next, barScreen'.chat)
        /\ Comes(barStored, local, barStreams, barScreen'.created) = Comes(barStored, local, barStreams, barScreen.created)
        /\ Numbered'
        /\ ~barHist'.stays => barScreen'.chat \notin barHist.gone /\ (barScreen'.chat \in sent => barStored[barScreen'.chat] = 0)
    <3>1. Numbered /\ UNCHANGED <<barStored, barStreams>>
      BY <1>1, <2>1 DEF Agrees
    <3>2. CASE GoesFresh
      BY <1>3, <2>6, <3>1, <3>2, FreshKeeps, FreshNumbered
    <3>3. CASE ~(barScreen.chat = c /\ barScreen.route = "chat") /\ UNCHANGED barScreen
      <4>1. ~barHist'.stays => barScreen.chat # c /\ ~barHist.stays
        BY <1>2, <3>3
      <4>2. ~barHist'.stays => barScreen.chat \notin barHist.gone /\ (barScreen.chat \in sent => barStored[barScreen.chat] = 0)
        BY <2>1, <4>1 DEF Agrees, sent
      <4> QED BY <2>6, <3>1, <3>3, <4>2 DEF Numbered
    <3> QED BY <1>1, <3>2, <3>3
  <2>8. BarSent' = sent /\ barCache'.local = local
    BY <1>1 DEF BarSent, sent, local
  <2>9. BarKnown' = known
    BY <1>1, <2>7, <2>8 DEF BarKnown, KnownOf, known
  <2>10. Fits(barFetch'.got, barStored, local, sent, known)
    BY <1>1, <1>3, <2>1, NoPages DEF FetchHas
  <2> QED BY <1>1, <1>2, <2>1, <2>5, <2>7, <2>8, <2>9, <2>10 DEF Agrees
<1> QED BY <1>1, <1>4, <1>5 DEF BarInv, BarBase

LEMMA BarHandleDeleteAll == ASSUME BarInv, Bar!HandleDeleteAll PROVE BarInv'
<1>1. /\ BarTypes' /\ Cleared(barCache.pages, barCache'.pages)
      /\ barCache'.local = {} /\ barCache'.title = barCache.title
      /\ SentOf(barDel') = Bar!AllChats
      /\ GoesFresh \/ (barScreen.route = "/" /\ UNCHANGED barScreen)
      /\ HistMoves(barFetch.pc # "idle" \/ \E c \in Bar!AllChats : barStreams[c] # "none", FALSE,
                   barScreen.route = "/", barHist.gone, barHist.now)
      /\ UNCHANGED <<barStored, barFetch, barStreams>>
  BY HandleDeleteAllDoes DEF BarInv, BarBase
<1>2. /\ barHist'.now = barHist.now /\ barHist'.gone = barHist.gone /\ (~barHist'.moved => ~barHist.moved)
      /\ ~barHist'.stays => ~barHist.stays /\ barScreen.route # "/"
      /\ ~barHist'.off => ~barHist.off /\ barFetch.pc = "idle" /\ \A c \in Bar!AllChats : barStreams[c] = "none"
  BY <1>1 DEF HistMoves
<1>3. BarTypes /\ Dated /\ TitlesKept /\ FetchHas /\ barStored \in Times /\ barCache.pages \in Seq(ListPage)
  BY BarFacts DEF BarInv, BarBase
<1>4. Dated' /\ TitlesKept' /\ FetchHas'
  <2>1. Until(barCache'.pages, barHist.now)
    BY <1>1, <1>3, FitsCleared
  <2> QED BY <1>1, <1>2, <1>3, <2>1 DEF Dated, TitlesKept, FetchHas
<1>5. ASSUME ~barHist'.off PROVE Agrees'
  <2>1. Agrees /\ barFetch.pc = "idle" /\ \A c \in Bar!AllChats : barStreams[c] = "none"
    BY <1>2, <1>5 DEF BarInv
  <2>2. \A created : Comes(barStored, {}, barStreams, created) = {}
    BY <2>1 DEF Comes
  <2>3. BarSent' = Bar!AllChats /\ BarKnown' = Bar!AllChats
    BY <1>1, <2>2 DEF BarSent, BarKnown, KnownOf
  <2>4. Fits(barCache'.pages, barStored, {}, Bar!AllChats, Bar!AllChats) /\ barCache'.pages # <<>>
    <3>1. barCache.pages # <<>>
      BY <2>1 DEF Agrees
    <3>2. Len(barCache'.pages) = Len(barCache.pages) /\ Len(barCache.pages) > 0
      BY <1>1, <1>3, <3>1 DEF Cleared
    <3>3. Fits(barCache'.pages, barStored, {}, Bar!AllChats, Bar!AllChats)
      BY <1>1, <1>3, FitsCleared
    <3>4. barCache'.pages # <<>>
      BY <3>2
    <3> QED BY <3>3, <3>4
  <2>5. InStep(barStored, {}, barStreams, barScreen.created, Bar!AllChats, barHist.gone, barScreen.next, barScreen.chat)
    <3>1. \A c \in barScreen.created : ~(barStored[c] > 0)
      BY <1>3, <2>1, BarFacts DEF Agrees, InStep
    <3> QED BY <2>1, <2>2, <3>1 DEF Agrees, InStep
  <2>6. /\ InStep(barStored, {}, barStreams, barScreen'.created, Bar!AllChats, barHist.gone, barScreen'.next, barScreen'.chat)
        /\ Numbered'
        /\ ~barHist'.stays => barScreen'.chat \notin barHist.gone /\ barStored[barScreen'.chat] = 0
    <3>1. Numbered /\ UNCHANGED <<barStored, barStreams>>
      BY <1>1, <2>1 DEF Agrees
    <3>2. CASE GoesFresh
      BY <1>3, <2>5, <3>1, <3>2, FreshKeeps, FreshNumbered
    <3>3. CASE barScreen.route = "/" /\ UNCHANGED barScreen
      BY <1>2, <2>5, <3>1, <3>3 DEF Numbered
    <3> QED BY <1>1, <3>2, <3>3
  <2>7. Fits(barFetch'.got, barStored, {}, Bar!AllChats, Bar!AllChats)
    BY <1>1, <1>3, <2>1, NoPages DEF FetchHas
  <2> QED BY <1>1, <1>2, <2>1, <2>3, <2>4, <2>6, <2>7 DEF Agrees
<1> QED BY <1>1, <1>4, <1>5 DEF BarInv, BarBase

\* Chats that are deleted were on their way out already.
LEMMA RemovedDated ==
  ASSUME BarTypes, Dated, barHist'.now = barHist.now, UNCHANGED <<barCache, barFetch>>, NEW which,
         \A c \in Bar!AllChats : barStored'[c] = IF c \in which THEN 0 ELSE barStored[c]
  PROVE  Dated'
<1>1. \A c \in Bar!AllChats : barStored'[c] <= barHist.now
  BY BarFacts DEF Dated
<1>2. Ranks(barStored')
  BY BarFacts DEF Dated, Ranks
<1> QED BY <1>1, <1>2 DEF Dated

LEMMA BarSlashDelete == ASSUME BarInv, NEW which, Bar!SlashDelete(which) PROVE BarInv'
<1>1. /\ BarTypes' /\ GoesFresh /\ barHist'.off /\ barHist'.now = barHist.now
      /\ (~barHist'.moved => ~barHist.moved)
      /\ \A c \in Bar!AllChats : barStored'[c] = IF c \in which THEN 0 ELSE barStored[c]
      /\ UNCHANGED <<barCache, barFetch, barDel, barStreams>>
  BY SlashDeleteDoes DEF BarInv, BarBase
<1>2. Dated' /\ TitlesKept' /\ FetchHas'
  BY <1>1, RemovedDated DEF BarInv, BarBase, TitlesKept, FetchHas
<1> QED BY <1>1, <1>2 DEF BarInv, BarBase

LEMMA BarDeletes == ASSUME BarInv, NEW d \in Bar!Deletions, Bar!Deletes(d) PROVE BarInv'
<1> DEFINE which == barDel[d].which
           gone == barHist.gone \cup (which \cap Bar!There)
<1>1. /\ BarTypes' /\ which \subseteq SentOf(barDel)
      /\ SentOf(barDel') \subseteq SentOf(barDel) /\ SentOf(barDel) \subseteq SentOf(barDel') \cup which
      /\ \A c \in Bar!AllChats : barStored'[c] = IF c \in which THEN 0 ELSE barStored[c]
      /\ HistMoves(FALSE, FALSE, FALSE, gone, barHist.now)
      /\ UNCHANGED <<barCache, barFetch, barScreen, barStreams>>
  BY DeletesDoes DEF BarInv, BarBase
<1>2. /\ barHist'.now = barHist.now /\ barHist'.gone = gone
      /\ (~barHist'.moved => ~barHist.moved) /\ (~barHist'.stays => ~barHist.stays) /\ (~barHist'.off => ~barHist.off)
  BY <1>1 DEF HistMoves
<1>3. BarTypes /\ barStored \in Times /\ barStored' \in Times
  BY <1>1 DEF BarInv, BarBase, BarTypes
<1>4. Dated' /\ TitlesKept' /\ FetchHas'
  BY <1>1, <1>2, RemovedDated DEF BarInv, BarBase, TitlesKept, FetchHas
<1>5. \A c : c \in gone <=> c \in barHist.gone \/ (c \in Bar!AllChats /\ c \in which /\ barStored[c] > 0)
  BY DEF Bar!There
<1> HIDE DEF which, gone
<1>6. ASSUME ~barHist'.off PROVE Agrees'
  <2>1. Agrees
    BY <1>2, <1>6 DEF BarInv
  <2>2. which \subseteq BarSent /\ BarSent' \subseteq BarSent /\ BarSent \subseteq BarSent' \cup which
    BY <1>1 DEF BarSent
  <2>3. \A c \in Bar!AllChats : barStored'[c] > 0 => barStored'[c] = barStored[c] /\ c \notin which
    BY <1>1
  <2>4. \A c \in barCache.local \cup Comes(barStored, barCache.local, barStreams, barScreen.created) :
           c \in Bar!AllChats /\ c \notin which /\ barStored'[c] = barStored[c]
    BY <1>1, <1>3, <2>1, <2>2, BarFacts DEF Agrees, InStep, Comes
  <2>5. Comes(barStored', barCache.local, barStreams, barScreen.created)
           = Comes(barStored, barCache.local, barStreams, barScreen.created)
    BY <2>3, <2>4 DEF Comes
  <2>6. BarKnown' = KnownOf(barStored', barCache.local, barStreams, barScreen.created, BarSent')
    BY <1>1 DEF BarKnown
  <2>7. \A c \in Bar!AllChats : c \in BarKnown /\ c \notin which => c \in BarKnown'
    BY <2>2, <2>5, <2>6 DEF BarKnown, KnownOf
  <2>8. InStep(barStored', barCache.local, barStreams, barScreen.created, BarSent', gone, barScreen.next, barScreen.chat)
    <3>1. \A c \in barCache.local : barStored'[c] > 0 /\ c \notin BarSent'
      BY <2>1, <2>2, <2>4 DEF Agrees, InStep
    <3>2. \A c \in gone : barStored'[c] = 0 /\ c < barScreen.next
      BY <1>1, <1>3, <1>5, <2>1, BarFacts DEF Agrees, InStep, Numbered
    <3>3. \A c \in Bar!AllChats : barStored'[c] = 0 /\ c \notin gone /\ (c = barScreen.chat \/ barStreams[c] # "none")
             => c \in barScreen.created
      BY <1>1, <1>3, <1>5, <2>1, BarFacts DEF Agrees, InStep
    <3>4. \A c \in barScreen.created : barStored'[c] > 0 => barStreams[c] # "none" /\ c \notin BarSent'
      BY <1>3, <2>1, <2>2, <2>3, BarFacts DEF Agrees, InStep
    <3>5. \A c \in Bar!AllChats : barStreams[c] = "begun" => barStored'[c] > 0 /\ c \in barScreen.created
      BY <1>1, <2>1, <2>2 DEF Agrees, InStep
    <3>6. \A c \in barCache.local \cup Comes(barStored', barCache.local, barStreams, barScreen.created), e \in Bar!AllChats :
             barStored'[e] > barStored'[c] => e \in BarKnown'
      <4> SUFFICES ASSUME NEW c \in barCache.local \cup Comes(barStored, barCache.local, barStreams, barScreen.created),
                          NEW e \in Bar!AllChats, barStored'[e] > barStored'[c]
                   PROVE  e \in BarKnown'
        BY <2>5
      <4>1. c \in Bar!AllChats /\ barStored'[c] = barStored[c] /\ barStored[c] \in Nat
        BY <1>3, <2>4, BarFacts
      <4>2. barStored'[e] \in Nat
        BY <1>3 DEF Times
      <4>3. barStored[e] > barStored[c] /\ e \notin which
        BY <2>3, <4>1, <4>2
      <4>4. e \in BarKnown
        BY <2>1, <4>3 DEF Agrees, InStep, BarKnown
      <4> QED BY <2>7, <4>3, <4>4
    <3> QED BY <2>6, <3>1, <3>2, <3>3, <3>4, <3>5, <3>6 DEF InStep
  <2>9. ASSUME NEW pages \in Seq(ListPage), Fits(pages, barStored, barCache.local, BarSent, BarKnown)
        PROVE  Fits(pages, barStored', barCache.local, BarSent', BarKnown')
    <3>1. \A c \in Bar!Entries(pages) : barStored'[c] = barStored[c] /\ c \notin BarSent'
      BY <1>1, <2>2, <2>9, EntriesIn DEF Fits, Within
    <3>2. \A c \in Bar!AllChats : barStored'[c] > 0 =>
             (barStored'[c] = barStored[c] /\ (c \in BarKnown => c \in BarKnown')) \/ c \in BarKnown'
      BY <2>3, <2>7
    <3> QED BY <1>3, <2>9, <3>1, <3>2, FitsStay
  <2>10. ~barHist'.stays => barScreen.chat \notin gone /\ (barScreen.chat \in BarSent' => barStored'[barScreen.chat] = 0)
    <3>1. barScreen.chat \in Bar!AllChats /\ barStored[barScreen.chat] \in Nat
      BY <1>3, BarFacts
    <3> QED BY <1>1, <1>2, <1>5, <2>1, <2>2, <3>1 DEF Agrees
  <2>11. Numbered'
    BY <1>1, <2>1, <2>3 DEF Agrees, Numbered
  <2>12. /\ barFetch.pc # "idle" => BarSent' = {}
         /\ barFetch.pc = "idle" => barCache.pages # <<>>
    BY <2>1, <2>2 DEF Agrees
  <2> QED BY <1>1, <1>2, <1>3, <2>1, <2>8, <2>9, <2>10, <2>11, <2>12, BarFacts DEF Agrees
<1> QED BY <1>1, <1>4, <1>6 DEF BarInv, BarBase

LEMMA BarDeleteEnds == ASSUME BarInv, NEW d \in Bar!Deletions, Bar!DeleteAnswered(d) \/ Bar!DeleteFails(d) PROVE BarInv'
<1>1. CASE Bar!DeleteAnswered(d)
  <2>1. /\ BarTypes' /\ SentOf(barDel') = SentOf(barDel)
        /\ UNCHANGED <<barStored, barCache, barFetch, barScreen, barStreams, barHist>>
    BY <1>1, DeleteAnsweredDoes DEF BarInv, BarBase
  <2>2. BarSent' = BarSent /\ BarKnown' = BarKnown
    BY <2>1 DEF BarSent, BarKnown
  <2>3. Dated' /\ TitlesKept' /\ FetchHas'
    BY <2>1 DEF BarInv, BarBase, Dated, TitlesKept, FetchHas
  <2>4. ~barHist'.off => Agrees'
    BY <2>1, <2>2 DEF BarInv, Agrees, Numbered
  <2> QED BY <2>1, <2>3, <2>4 DEF BarInv, BarBase
<1>2. CASE Bar!DeleteFails(d)
  <2>1. BarTypes' /\ HistKeeps(TRUE) /\ UNCHANGED <<barStored, barCache, barFetch, barScreen, barStreams>>
    BY <1>2, DeleteFailsDoes DEF BarInv, BarBase
  <2>2. barHist'.off /\ barHist'.now = barHist.now /\ (~barHist'.moved => ~barHist.moved)
    BY <2>1 DEF HistKeeps, HistMoves
  <2>3. Dated' /\ TitlesKept' /\ FetchHas'
    BY <2>1, <2>2 DEF BarInv, BarBase, Dated, TitlesKept, FetchHas
  <2> QED BY <2>1, <2>2, <2>3 DEF BarInv, BarBase
<1> QED BY <1>1, <1>2

-----------------------------------------------------------------------------
LEMMA BarInit == Bar!Init => BarInv
<1> SUFFICES ASSUME Bar!Init PROVE BarInv
  OBVIOUS
<1>1. PICK n \in {0, 2} :
         /\ n < MaxChats
         /\ barStored = [c \in Bar!AllChats |-> IF c <= n THEN c ELSE 0]
         /\ barScreen = [route |-> "/", chat |-> n + 1, created |-> {n + 1}, next |-> n + 2]
         /\ barHist = [off |-> FALSE, moved |-> FALSE, stays |-> FALSE, gone |-> {}, fetches |-> 0, turns |-> 0, now |-> n]
  BY DEF Bar!Init
<1>2. /\ n \in Nat /\ n + 1 \in Bar!AllChats /\ n + 1 \in Nat /\ n + 2 \in Nat /\ MaxChats \in Nat
      /\ \A c \in Bar!AllChats : c \in Nat /\ c > 0
  BY <1>1, BarBounds
<1>3. /\ barStored \in Times
      /\ \A c \in Bar!AllChats : barStored[c] = (IF c <= n THEN c ELSE 0)
  BY <1>1, <1>2 DEF Times
<1>4. barScreen \in BarScreenType /\ barScreen.chat = n + 1 /\ barScreen.created = {n + 1} /\ barScreen.next = n + 2
  <2>1. {n + 1} \in SUBSET Bar!AllChats
    BY <1>2
  <2> QED BY <1>1, <1>2, <2>1 DEF BarScreenType
<1>5. barHist \in BarHistType /\ barHist.now = n /\ barHist.gone = {} /\ ~barHist.moved
  BY <1>1, <1>2 DEF BarHistType
<1>6. /\ barCache \in CacheType /\ barCache.pages = <<>> /\ barCache.local = {}
      /\ \A c \in Bar!AllChats : barCache.title[c] = c
  BY NoPages DEF Bar!Init, CacheType
<1>7. barFetch \in FetchType /\ barFetch.pc = "asks" /\ barFetch.got = <<>>
  <2>1. barFetch = [Bar!NoFetch EXCEPT !.pc = "asks", !.left = 1]
    BY DEF Bar!Init
  <2>2. barFetch = [pc |-> "asks", got |-> <<>>, left |-> 1]
    BY <2>1 DEF Bar!NoFetch
  <2>3. <<>> \in Seq(ListPage) /\ 1 \in Int
    BY NoPages
  <2> QED BY <2>2, <2>3 DEF FetchType
<1>8. barDel \in [Bar!Deletions -> DelType] /\ \A d \in Bar!Deletions : barDel[d].pc = "idle"
  <2>1. Bar!NoDel \in DelType /\ Bar!NoDel.pc = "idle"
    BY DEF Bar!NoDel, DelType
  <2> QED BY <2>1 DEF Bar!Init
<1>9. /\ barStreams \in [Bar!AllChats -> {"none", "sent", "begun", "titled"}]
      /\ \A c \in Bar!AllChats : barStreams[c] = "none"
  BY DEF Bar!Init
<1>10. BarTypes
  BY <1>3, <1>4, <1>5, <1>6, <1>7, <1>8, <1>9 DEF BarTypes
<1>11. Dated
  <2>1. (\A c \in Bar!AllChats : barStored[c] <= barHist.now) /\ Ranks(barStored)
    BY <1>2, <1>3, <1>5 DEF Ranks
  <2> QED BY <1>6, <1>7, <2>1, NoPages DEF Dated
<1>12. TitlesKept /\ FetchHas
  BY <1>6, <1>7 DEF TitlesKept, FetchHas
<1>13. BarSent = {}
  BY <1>8 DEF BarSent, SentOf
<1>14. Numbered
  <2>1. \A c \in Bar!AllChats : barStored[c] > 0 => c < n + 2
    BY <1>2, <1>3
  <2> QED BY <1>2, <1>4, <1>9, <2>1 DEF Numbered
<1>15. Comes(barStored, barCache.local, barStreams, barScreen.created) = {}
  BY <1>9 DEF Comes
<1>16. InStep(barStored, barCache.local, barStreams, barScreen.created, BarSent, barHist.gone, barScreen.next, barScreen.chat)
  <2>1. barStored[n + 1] = 0
    BY <1>2, <1>3
  <2>2. \A c \in barCache.local \cup Comes(barStored, barCache.local, barStreams, barScreen.created) : FALSE
    BY <1>6, <1>15
  <2>3. \A c \in barScreen.created : ~(barStored[c] > 0) /\ c \notin BarSent
    BY <1>4, <1>13, <2>1
  <2>4. \A c \in Bar!AllChats : c = barScreen.chat \/ barStreams[c] # "none" => c \in barScreen.created
    BY <1>4, <1>9
  <2> QED BY <1>5, <1>6, <1>9, <2>2, <2>3, <2>4 DEF InStep
<1>17. Agrees
  BY <1>4, <1>5, <1>6, <1>7, <1>13, <1>14, <1>16, NoPages DEF Agrees
<1> QED BY <1>10, <1>11, <1>12, <1>17 DEF BarInv, BarBase

LEMMA BarStays == BarInv /\ UNCHANGED barVars => BarInv'
BY DEF barVars, BarInv, BarBase, BarTypes, Dated, TitlesKept, FetchHas, Agrees, Numbered, BarSent, BarKnown

LEMMA BarNext == BarInv /\ Bar!Next => BarInv'
<1> SUFFICES ASSUME BarInv, Bar!Next PROVE BarInv'
  OBVIOUS
<1>1. CASE Bar!Refetch
  BY <1>1, BarRefetch
<1>2. CASE Bar!FetchNextPage
  BY <1>2, BarFetchNextPage
<1>3. CASE Bar!ListPage
  BY <1>3, BarListPage
<1>4. CASE Bar!Fetched
  BY <1>4, BarFetched
<1>5. CASE Bar!FetchFails
  BY <1>5, BarFetchFails
<1>6. CASE Bar!SubmitForm
  BY <1>6, BarSubmitForm
<1>7. CASE Bar!NewChat
  BY <1>7, BarNewChat
<1>8. CASE Bar!HandleDeleteAll
  BY <1>8, BarHandleDeleteAll
<1>9. ASSUME NEW c \in Bar!AllChats,
             Bar!Begin(c) \/ Bar!ChatTitle(c) \/ Bar!OnFinish(c) \/ Bar!OpenChat(c) \/ Bar!HandleDelete(c)
      PROVE  BarInv'
  BY <1>9, BarBegin, BarChatTitle, BarOnFinish, BarOpenChat, BarHandleDelete
<1>10. ASSUME NEW which \in {{barScreen.chat}, Bar!AllChats}, Bar!SlashDelete(which) PROVE BarInv'
  BY <1>10, BarSlashDelete
<1>11. ASSUME NEW d \in Bar!Deletions, Bar!Deletes(d) \/ Bar!DeleteAnswered(d) \/ Bar!DeleteFails(d) PROVE BarInv'
  BY <1>11, BarDeletes, BarDeleteEnds
<1> QED BY <1>1, <1>2, <1>3, <1>4, <1>5, <1>6, <1>7, <1>8, <1>9, <1>10, <1>11 DEF Bar!Next

\* What the sidebar promises, and its types.
LEMMA BarTells == BarInv => Bar!TypeOK /\ Bar!SidebarTells /\ Bar!TitlesBelong /\ Bar!DeletedLeaves
<1> SUFFICES ASSUME BarInv PROVE Bar!TypeOK /\ Bar!SidebarTells /\ Bar!TitlesBelong /\ Bar!DeletedLeaves
  OBVIOUS
<1>1. BarTypes /\ barCache.pages \in Seq(ListPage) /\ barFetch.got \in Seq(ListPage) /\ TitlesKept
  BY BarFacts DEF BarInv, BarBase
<1>2. Bar!TypeOK
  BY <1>1, EntriesIn DEF BarTypes, CacheType, FetchType, BarScreenType, Times, Bar!TypeOK
<1>3. Bar!Shown = Bar!Entries(barCache.pages) \cup barCache.local
  BY <1>1, ShownAre
<1>4. Bar!TitlesBelong
  <2>1. Bar!Shown \subseteq Bar!AllChats
    BY <1>1, <1>3, EntriesIn, BarFacts
  <2> QED BY <1>1, <2>1 DEF TitlesKept, Bar!TitlesBelong
<1>5. Bar!DeletedLeaves
  BY DEF BarInv, Agrees, Bar!DeletedLeaves
<1>6. ASSUME Bar!AtRest, ~barHist.off
      PROVE  /\ Bar!Shown \subseteq Bar!There
             /\ Bar!ReachedEnd => Bar!There \subseteq Bar!Shown
             /\ \A c \in Bar!Shown, d \in Bar!There : barStored[d] > barStored[c] => d \in Bar!Shown
             /\ \A row1, row2 \in Bar!Rows : row1[2] = row2[2] => row1 = row2
  <2>1. Agrees
    BY <1>6 DEF BarInv
  <2>2. BarSent = {} /\ Comes(barStored, barCache.local, barStreams, barScreen.created) = {}
    BY <1>6 DEF Bar!AtRest, BarSent, SentOf, Comes
  <2>3. BarKnown = barCache.local
    BY <2>2 DEF BarKnown, KnownOf
  <2>4. \A c : c \in Bar!There <=> c \in Bar!AllChats /\ barStored[c] > 0
    BY DEF Bar!There
  <2>5. Bar!Shown \subseteq Bar!There
    BY <1>1, <1>3, <2>1, <2>4, EntriesIn, BarFacts DEF Agrees, InStep, Fits, Within
  <2>6. Bar!ReachedEnd => Bar!There \subseteq Bar!Shown
    BY <1>1, <1>3, <2>1, <2>3, <2>4, EntriesIn DEF Bar!ReachedEnd, Agrees, Fits, EndsAll
  <2>7. \A c \in Bar!Shown, d \in Bar!There : barStored[d] > barStored[c] => d \in Bar!Shown
    <3>1. \A c \in Bar!Entries(barCache.pages), d \in Bar!AllChats : barStored[d] > barStored[c] => d \in Bar!Shown
      BY <1>3, <2>1, <2>3 DEF Agrees, Fits, Gapless
    <3>2. \A c \in barCache.local, d \in Bar!AllChats : barStored[d] > barStored[c] => d \in Bar!Shown
      BY <1>3, <2>1, <2>3 DEF Agrees, InStep, BarKnown
    <3> QED BY <1>3, <2>4, <3>1, <3>2
  <2>8. ASSUME NEW row1 \in Bar!Rows, NEW row2 \in Bar!Rows, row1[2] = row2[2] PROVE row1 = row2
    <3>1. ASSUME NEW row \in Bar!Rows
          PROVE  \/ row = <<0, row[2]>> /\ row[2] \in barCache.local
                 \/ \E i \in 1..Len(barCache.pages) : row = <<i, row[2]>> /\ row[2] \in DOMAIN barCache.pages[i].chats \ barCache.local
      BY <1>1, <3>1, EntriesIn DEF Bar!Rows
    <3>2. CASE row1[2] \in barCache.local
      BY <2>8, <3>1, <3>2
    <3>3. CASE row1[2] \notin barCache.local
      <4>1. PICK i \in 1..Len(barCache.pages) : row1 = <<i, row1[2]>> /\ row1[2] \in DOMAIN barCache.pages[i].chats \ barCache.local
        BY <3>1, <3>3
      <4>2. PICK j \in 1..Len(barCache.pages) : row2 = <<j, row2[2]>> /\ row2[2] \in DOMAIN barCache.pages[j].chats \ barCache.local
        BY <2>8, <3>1, <3>3
      <4>3. row1[2] \in Bar!AllChats /\ barStored[row1[2]] \in Nat
        BY <1>1, <4>1, EntriesIn, BarFacts
      <4>4. ~(i < j) /\ ~(j < i)
        <5>1. Descends(barCache.pages, barStored, barCache.local)
          BY <2>1 DEF Agrees, Fits
        <5>2. i < j => barStored[row1[2]] > barStored[row1[2]]
          BY <2>8, <4>1, <4>2, <5>1 DEF Descends
        <5>3. j < i => barStored[row1[2]] > barStored[row1[2]]
          BY <2>8, <4>1, <4>2, <5>1 DEF Descends
        <5> QED BY <4>3, <5>2, <5>3
      <4>5. i = j
        BY <1>1, <4>4, EntriesIn
      <4> QED BY <2>8, <4>1, <4>2, <4>5
    <3> QED BY <3>2, <3>3
  <2> QED BY <2>5, <2>6, <2>7, <2>8
<1>7. Bar!SidebarTells
  BY <1>6 DEF Bar!SidebarTells
<1> QED BY <1>2, <1>4, <1>5, <1>7

-----------------------------------------------------------------------------
(* The parts together                                                       *)

PartsInv ==
    /\ part \in Parts
    /\ part = "import" => ImportInv
    /\ part = "sidebar" => BarInv
    /\ part = "screen" => ScreenInv
    /\ part = "answer" => AnswerInv
    /\ part = "composer" => BoxInv

LEMMA PartsInit == Init => PartsInv
BY ImportInit, BarInit, ScreenInit, AnswerInit, BoxInit DEF Init, Parts, PartsInv

LEMMA PartsStay == PartsInv /\ UNCHANGED vars => PartsInv'
<1> SUFFICES ASSUME PartsInv, UNCHANGED vars PROVE PartsInv'
  OBVIOUS
<1>1. /\ UNCHANGED part /\ UNCHANGED impVars /\ UNCHANGED barVars /\ UNCHANGED scrVars
      /\ UNCHANGED ansVars /\ UNCHANGED boxVars
  BY DEF vars
<1> QED BY <1>1, ImportStays, BarStays, ScreenStays, AnswerStays, BoxStays DEF PartsInv

LEMMA PartsNext == PartsInv /\ Next => PartsInv'
<1> SUFFICES ASSUME PartsInv, Next PROVE PartsInv'
  OBVIOUS
<1>1. CASE ImportStep
  BY <1>1, ImportNext DEF ImportStep, Of, PartsInv, Parts
<1>2. CASE BarStep
  BY <1>2, BarNext DEF BarStep, Of, PartsInv, Parts
<1>3. CASE ScreenStep
  BY <1>3, ScreenNext DEF ScreenStep, Of, PartsInv, Parts
<1>4. CASE AnswerStep
  BY <1>4, AnswerNext DEF AnswerStep, Of, PartsInv, Parts
<1>5. CASE BoxStep
  BY <1>5, BoxNext DEF BoxStep, Of, PartsInv, Parts
<1> QED BY <1>1, <1>2, <1>3, <1>4, <1>5 DEF Next

\* The invariant of the part that is mounted holds always, in every order in which
\* requests are handled, answered, fail and are begun (the actions of the review and the chat page).
THEOREM PartsCorrect == Spec => []PartsInv
<1>1. PartsInv /\ [Next]_vars => PartsInv'
  BY PartsStay, PartsNext
<1> QED BY <1>1, PartsInit, PTL DEF Spec

\* A reviewer at rest sees the decisions and the applied proposals that he was told are
\* done, and no report of a job that is not listed, for any number of proposals, jobs
\* and loads under way (businessImportReview.tsx).
THEOREM ReviewKept == Spec => []ReviewTells
<1>1. PartsInv => ReviewTells
  BY ImportTells DEF PartsInv, ReviewTells
<1> QED BY <1>1, PartsCorrect, PTL

\* The chat page shows the messages and streams of the chat on screen, as they are stored,
\* and draws what the server did; a message is sent with the images of its chat, all of
\* them and once, under the knowledge base that is shown: for any number of chats,
\* questions, tool calls, images and drafts (useActiveChat.tsx, message.tsx,
\* useScrollToBottom.tsx, multimodalInput.tsx).
THEOREM ChatKept == Spec => []ChatTells
<1>1. PartsInv => ChatTells
  BY ScreenTells, AnswerShown, BoxTells DEF PartsInv, ChatTells
<1> QED BY <1>1, PartsCorrect, PTL

\* The sidebar lists the server's chats, each once and under its own title, down to the
\* oldest it has loaded, and a chat that was deleted leaves the screen: for any number of
\* chats, whatever the size of a page, and in every order of fetches, titles, answers and
\* deletions (sidebarHistory.tsx, chatHistoryCache.ts).
THEOREM SidebarKept == Spec => []SidebarLists
<1>1. PartsInv => SidebarLists
  BY BarTells DEF PartsInv, SidebarLists
<1> QED BY <1>1, PartsCorrect, PTL

\* The state of each part stays what the code's declarations say of it.
THEOREM TypeCorrect == Spec => []TypeOK
<1>1. PartsInv => TypeOK
  BY ImportTells, BarTells, ScreenTells, AnswerShown, BoxTells DEF PartsInv, TypeOK
<1> QED BY <1>1, PartsCorrect, PTL
=============================================================================
