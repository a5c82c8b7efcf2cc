----------------------------- MODULE AutoIngestion -----------------------------
(***************************************************************************)
(* The upload page's automated panel: one file is uploaded, and the page   *)
(* asks for the file, its parsed document and its chunks, one after the    *)
(* other and again and again, until all of it is embedded.  The server     *)
(* works on the file between any two of these requests, and another user   *)
(* may have it parsed anew or delete it.                                   *)
(***************************************************************************)
EXTENDS Naturals

CONSTANTS
    MaxAttempts,    \* maxAttempts (240)
    MaxPages,       \* bound: pages of chunks of one document
    MaxRework       \* bound: how often other users intervene

VARIABLES
    panel,  \* selectedFile, stage, failedAt, result, and whether the library was told
    run,    \* waitForAutomatedIngestion and the upload before it
    srv     \* the file at the server

avars == <<panel, run, srv>>

Stages == <<"uploading", "parsing", "chunking", "embedding", "complete">>
Rank(s) == CHOOSE i \in 1..5 : Stages[i] = s
Running == {Stages[i] : i \in 1..4}

\* The four steps as they are drawn.
StepState(i) ==
    LET at == IF panel.stage \in {"idle", "left"} THEN 0
              ELSE IF panel.stage = "failed" THEN Rank(panel.failedAt) ELSE Rank(panel.stage)
    IN  IF i < at THEN "done"
        ELSE IF i > at THEN "waiting" ELSE IF panel.stage = "failed" THEN "failed" ELSE "active"

Idle == [pc |-> "none", attempt |-> 0, at |-> "uploading", page |-> 0, all |-> TRUE, did |-> FALSE]
NoFile == [file |-> "none", doc |-> FALSE, chunks |-> "pending", pages |-> 0,
           embedded |-> 0, rework |-> 0]

Init ==
    /\ panel = [file |-> FALSE, stage |-> "idle", failedAt |-> "none", result |-> FALSE, told |-> FALSE]
    /\ run = Idle
    /\ srv = NoFile

-----------------------------------------------------------------------------
(* The controls                                                             *)

CanSelect == panel.stage \notin Running

\* selectFile: a file that is too large or of another type is an error at once.
SelectFile(good) ==
    /\ CanSelect
    /\ panel' = IF good THEN [file |-> TRUE, stage |-> "idle", failedAt |-> "none", result |-> FALSE, told |-> FALSE]
                ELSE [file |-> FALSE, stage |-> "failed", failedAt |-> "uploading", result |-> FALSE, told |-> FALSE]
    /\ UNCHANGED <<run, srv>>

\* The button that starts, and the early returns of runAutomation.
CanStart == panel.file /\ panel.stage \notin Running \cup {"complete"}

RunAutomation ==
    /\ CanStart
    /\ panel' = [panel EXCEPT !.stage = "uploading", !.failedAt = "none", !.result = FALSE, !.told = FALSE]
    /\ run' = [Idle EXCEPT !.pc = "upload"]
    /\ srv' = NoFile

\* "Another file", and the cross beside the file.
CanReset == panel.stage \in {"complete", "failed"} \/ (panel.file /\ panel.stage \notin Running)

ResetWorkflow ==
    /\ CanReset
    /\ panel' = [file |-> FALSE, stage |-> "idle", failedAt |-> "none", result |-> FALSE, told |-> FALSE]
    /\ UNCHANGED <<run, srv>>

\* The page is left: the requests are aborted and nothing is shown any more.
Leave ==
    /\ panel.stage # "left"
    /\ panel' = [file |-> FALSE, stage |-> "left", failedAt |-> "none", result |-> FALSE, told |-> FALSE]
    /\ run' = Idle
    /\ UNCHANGED srv

-----------------------------------------------------------------------------
(* runAutomation                                                            *)

\* onStage keeps the last stage for failedAt.
OnStage(s) == panel' = [panel EXCEPT !.stage = s]

Fail ==
    /\ panel' = [panel EXCEPT !.stage = "failed", !.failedAt = run.at, !.told = run.did]
    /\ run' = Idle

Uploaded ==
    /\ run.pc = "upload"
    /\ OnStage("parsing")
    /\ run' = [run EXCEPT !.pc = "file", !.at = "parsing", !.did = TRUE]
    /\ srv' = [srv EXCEPT !.file = "pending"]

\* Fault injected: an attempt that ends early is not counted.
Again_Uncounted(s) ==
    /\ OnStage(s)
    /\ run' = [run EXCEPT !.pc = "file", !.at = s, !.attempt = IF s = "chunking" THEN @ ELSE @ + 1]

\* sleep, then the next attempt, if there is one.
Again(s) ==
    IF run.attempt + 1 < MaxAttempts
    THEN /\ OnStage(s)
         /\ run' = [run EXCEPT !.pc = "file", !.at = s, !.attempt = @ + 1]
    ELSE /\ panel' = [panel EXCEPT !.stage = "failed", !.failedAt = s, !.told = TRUE]
         /\ run' = Idle

\* Fault injected: every attempt begins with the first stage.
AskFile_Restarts ==
    /\ run.pc = "file" /\ srv.file = "ready"
    /\ OnStage("parsing")
    /\ run' = [run EXCEPT !.pc = "doc"]
    /\ UNCHANGED srv

\* GET .../files
AskFile ==
    /\ run.pc = "file"
    /\ CASE srv.file \in {"none", "failed"} -> Fail
         [] srv.file \in {"pending", "processing"} -> Again("parsing")
         [] srv.file = "ready" -> run' = [run EXCEPT !.pc = "doc"] /\ UNCHANGED panel
    /\ UNCHANGED srv

\* GET .../parsed-document: 404 while there is none.
AskDocument ==
    /\ run.pc = "doc"
    /\ CASE ~srv.doc -> Again("parsing")
         [] srv.doc /\ srv.chunks = "failed" -> Fail
         [] srv.doc /\ srv.chunks = "ready" ->
              /\ OnStage("embedding")
              /\ run' = [run EXCEPT !.pc = "chunks", !.at = "embedding", !.page = 0, !.all = TRUE]
         [] srv.doc /\ srv.chunks \in {"pending", "processing"} -> Again("chunking")
    /\ UNCHANGED srv

\* Fault injected: only the first page is looked at.
AskChunks_First ==
    /\ run.pc = "chunks"
    /\ IF srv.embedded > 0 \/ srv.pages = 0
       THEN /\ panel' = [panel EXCEPT !.stage = "complete", !.result = TRUE, !.told = TRUE]
            /\ run' = Idle
       ELSE Again("embedding")
    /\ UNCHANGED srv

\* GET .../chunks, page after page.  A file that has gone is an error; chunks that
\* have gone make an empty page, and an empty list counts as embedded.
AskChunks ==
    /\ run.pc = "chunks"
    /\ LET all == run.all /\ (srv.pages = 0 \/ run.page < srv.embedded)
       IN  IF srv.file = "none" THEN Fail
           ELSE IF run.page + 1 < srv.pages
           THEN run' = [run EXCEPT !.page = @ + 1, !.all = all] /\ UNCHANGED panel
           ELSE IF all
           THEN /\ panel' = [panel EXCEPT !.stage = "complete", !.result = TRUE, !.told = TRUE]
                /\ run' = Idle
           ELSE Again("embedding")
    /\ UNCHANGED srv

\* Any request may fail; the upload may have been stored all the same.
RequestFails ==
    /\ run.pc # "none"
    /\ Fail
    /\ \/ UNCHANGED srv
       \/ /\ run.pc = "upload"
          /\ srv' = [srv EXCEPT !.file = "pending"]

-----------------------------------------------------------------------------
(* The server, as KnowledgeFiles has it, and other users                    *)

Parse ==
    /\ srv.file \in {"pending", "processing"}
    /\ \E s \in {"processing", "ready", "failed"} \ {srv.file} :
         srv' = [srv EXCEPT !.file = s, !.doc = @ \/ s = "ready"]
    /\ UNCHANGED <<panel, run>>

Chunk ==
    /\ srv.doc /\ srv.file = "ready" /\ srv.chunks \in {"pending", "processing"}
    /\ \/ srv' = [srv EXCEPT !.chunks = IF @ = "pending" THEN "processing" ELSE "failed"]
       \/ /\ srv.chunks = "processing"
          /\ \E n \in 0..MaxPages : srv' = [srv EXCEPT !.chunks = "ready", !.pages = n]
    /\ UNCHANGED <<panel, run>>

\* One page after the other; an error marks the chunks as failed.
Embed ==
    /\ srv.chunks = "ready" /\ srv.embedded < srv.pages
    /\ \/ srv' = [srv EXCEPT !.embedded = @ + 1]
       \/ srv' = [srv EXCEPT !.chunks = "failed"]
    /\ UNCHANGED <<panel, run>>

Rework ==
    /\ srv.rework < MaxRework /\ srv.file \notin {"none", "processing"}
    /\ \/ srv' = [srv EXCEPT !.file = "processing", !.rework = @ + 1]
       \/ /\ srv.doc /\ srv.file = "ready"
          /\ srv' = [srv EXCEPT !.chunks = "pending", !.pages = 0, !.embedded = 0, !.rework = @ + 1]
       \/ srv' = [NoFile EXCEPT !.rework = srv.rework + 1]
    /\ UNCHANGED <<panel, run>>

-----------------------------------------------------------------------------
Ask == Uploaded \/ AskFile \/ AskDocument \/ AskChunks \/ RequestFails

Next ==
    \/ \E good \in BOOLEAN : SelectFile(good)
    \/ RunAutomation \/ ResetWorkflow \/ Leave \/ Ask
    \/ Parse \/ Chunk \/ Embed \/ Rework

Spec == Init /\ [][Next]_avars

TypeOK ==
    /\ panel \in [file: BOOLEAN, stage: Running \cup {"idle", "complete", "failed", "left"},
                  failedAt: Running \cup {"none"}, result: BOOLEAN, told: BOOLEAN]
    /\ run \in [pc: {"none", "upload", "file", "doc", "chunks"}, attempt: 0..MaxAttempts,
                at: Running, page: 0..MaxPages, all: BOOLEAN, did: BOOLEAN]
    /\ run.pc # "none" <=> panel.stage \in Running
    /\ panel.stage = "failed" <=> panel.failedAt # "none"
    /\ panel.result <=> panel.stage = "complete"
    /\ panel.stage = "failed" => \E i \in 1..4 : StepState(i) = "failed"

\* The page says "complete" from six or more answers, none of which is of the same
\* moment; as long as nobody else works on the file it is true: the file is parsed
\* and every chunk of every page is embedded.  However a run ends, the library
\* below has been told to load again if a file was stored.
CompleteIsTrue ==
    /\ panel.stage = "complete" /\ srv.rework = 0 =>
         srv.file = "ready" /\ srv.chunks = "ready" /\ srv.embedded = srv.pages
    /\ panel.failedAt \in {"parsing", "chunking", "embedding"} \/ panel.stage = "complete" => panel.told

\* The progress shown never goes back within a run, unless somebody else had the
\* file worked on again; and a failure is reported at the stage that was reached.
Advances ==
    panel.stage \in Running /\ srv.rework = 0 /\ panel'.stage # "left" =>
      IF panel'.stage = "failed" THEN Rank(panel'.failedAt) >= Rank(panel.stage)
      ELSE Rank(panel'.stage) >= Rank(panel.stage)
=============================================================================
