------------------------ MODULE KnowledgeFiles_proofs ------------------------
(* Theorems about KnowledgeFiles, for any number of files and tasks. *)
EXTENDS KnowledgeFiles, TLAPS

\* The idle task and every state a handler leaves its task in are well typed.
LEMMA IdleType == Idle \in TaskType /\ Idle.pc = "idle"
  BY DEF Idle, TaskType, PCs

\* Writing the program counter and a remembered value keeps a task well typed.
LEMMA UpdateType ==
  ASSUME NEW r \in TaskType, NEW p \in PCs, NEW n \in Nat,
         NEW I \in SUBSET Indexes
  PROVE  /\ [r EXCEPT !.pc = p, !.doc = n] \in TaskType
         /\ [r EXCEPT !.pc = p, !.gen = n] \in TaskType
         /\ [r EXCEPT !.pc = p, !.gen = n, !.ids = I] \in TaskType
         /\ [r EXCEPT !.pc = p, !.doc = n].file = r.file
         /\ [r EXCEPT !.pc = p, !.gen = n].file = r.file
         /\ [r EXCEPT !.pc = p, !.gen = n, !.ids = I].file = r.file
  BY DEF TaskType

\* TypeOK without the conjuncts on tasks: what the tables look like.
TablesOK ==
    /\ kb \in BOOLEAN
    /\ fresh \subseteq Files /\ blob \subseteq Files /\ leaked \subseteq Files
    /\ row \in [Files -> [st : Status, stale : BOOLEAN]]
    /\ parsed \in [Files -> [st : Status, doc : Nat]]
    /\ chunks \in [Files -> [gen : Nat, doc : Nat, vec : [Indexes -> Nat]]]
    /\ overtaken \subseteq Files /\ abandoned \subseteq Files
    /\ requests \in Nat /\ faults \in Nat

TasksOK ==
    /\ task \in [Tasks -> TaskType]
    /\ \A t \in Tasks : task[t].pc \notin {"idle", "drop", "clean"} =>
                          task[t].file \in Files

\* Goto, Finish and Continue keep the tasks well typed.
LEMMA GotoType ==
  ASSUME TasksOK, NEW t \in Tasks, NEW p \in PCs,
         task[t].file \in Files, Goto(t, p)
  PROVE  TasksOK'
  BY DEF TasksOK, Goto, TaskType

\* Ending a request (Finish) keeps the types of the request's variables.
LEMMA FinishType ==
  ASSUME TasksOK, NEW t \in Tasks, Finish(t)
  PROVE  TasksOK'
  BY IdleType DEF TasksOK, Finish

\* Moving a request to its next step (Continue) keeps the types of its variables.
LEMMA ContinueType ==
  ASSUME TasksOK, NEW t \in Tasks, NEW p \in PCs,
         task[t].file \in Files, Continue(t, p)
  PROVE  TasksOK'
  BY GotoType, FinishType DEF Continue

\* A request that starts a task on a file keeps the tasks well typed.
LEMMA StartType ==
  ASSUME TasksOK, NEW t \in Tasks, NEW r \in TaskType, r.file \in Files,
         task' = [task EXCEPT ![t] = r]
  PROVE  TasksOK'
  BY DEF TasksOK

\* DELETE CASCADE keeps the tables well typed.
LEMMA DeleteType ==
  ASSUME TablesOK, NEW F, Delete(F),
         kb' \in BOOLEAN, UNCHANGED <<fresh, blob, claims>>,
         leaked' \subseteq Files, requests' \in Nat, faults' \in Nat
  PROVE  TablesOK'
  BY DEF TablesOK, Delete, NoRow, NoParsed, NoChunks, Status, claims

\* An accepted request finds its task idle and counts itself.
LEMMA OutcomeType ==
  ASSUME TablesOK, NEW o, Outcome(o)
  PROVE  faults' \in Nat
  BY DEF TablesOK, Outcome

\* Writing a legal status into existing file rows keeps the table well typed.
LEMMA StatusType ==
  ASSUME TablesOK, NEW f \in Files, NEW s \in Status, SetStatus(f, s)
  PROVE  row' \in [Files -> [st : Status, stale : BOOLEAN]]
  BY DEF TablesOK, SetStatus

\* Writing a legal status into existing chunk rows keeps the table well typed.
LEMMA ChunkStatusType ==
  ASSUME TablesOK, NEW f \in Files, NEW s \in Status, SetChunkStatus(f, s)
  PROVE  parsed' \in [Files -> [st : Status, doc : Nat]]
  BY DEF TablesOK, SetChunkStatus

\* Every step of the system keeps the tables and the tasks well typed.
LEMMA TypeStep ==
  ASSUME TablesOK, TasksOK, [Next]_vars
  PROVE  TablesOK' /\ TasksOK'
<1> USE DEF At, Status, claims
<1>1. ASSUME NEW t \in Tasks, NEW f \in Files, NEW auto \in BOOLEAN,
             UploadPut(t, f, auto)
      PROVE  TablesOK' /\ TasksOK'
  <2>1. TablesOK'
    BY <1>1 DEF UploadPut, Accept, TablesOK, db
  <2>2. [Idle EXCEPT !.pc = "insert", !.file = f, !.auto = auto] \in TaskType
    BY DEF Idle, TaskType, PCs
  <2>3. TasksOK'
    BY <1>1, <2>2, StartType DEF UploadPut, Idle
  <2> QED BY <2>1, <2>3
<1>2. ASSUME NEW t \in Tasks, NEW f \in Files, UploadPutFails(t, f)
      PROVE  TablesOK' /\ TasksOK'
  BY <1>2, OutcomeType DEF UploadPutFails, Accept, TablesOK, TasksOK, db
<1>3. ASSUME NEW t \in Tasks, NEW f \in Files, NEW o \in Outcomes,
             ParseClaim(t, f, o)
      PROVE  TablesOK' /\ TasksOK'
  <2>1. TablesOK'
    BY <1>3, OutcomeType, StatusType DEF ParseClaim, Accept, TablesOK
  <2>2. [Idle EXCEPT !.pc = "read", !.file = f] \in TaskType
    BY DEF Idle, TaskType, PCs
  <2>3. TasksOK'
    BY <1>3, <2>2, StartType DEF ParseClaim, Idle, TasksOK
  <2> QED BY <2>1, <2>3
<1>4. ASSUME NEW t \in Tasks, NEW f \in Files, NEW o \in Outcomes,
             ChunkRequest(t, f, o)
      PROVE  TablesOK' /\ TasksOK'
  <2>1. TablesOK'
    BY <1>4, OutcomeType DEF ChunkRequest, Accept, TablesOK
  <2>2. [Idle EXCEPT !.pc = "load", !.file = f] \in TaskType
    BY DEF Idle, TaskType, PCs
  <2>3. TasksOK'
    BY <1>4, <2>2, StartType DEF ChunkRequest, Idle, TasksOK
  <2> QED BY <2>1, <2>3
<1>5. ASSUME NEW t \in Tasks, NEW f \in Files, NEW o \in Outcomes,
             DeleteRow(t, f, o)
      PROVE  TablesOK' /\ TasksOK'
  <2>1. TablesOK'
    BY <1>5, OutcomeType, DeleteType DEF DeleteRow, Accept, TablesOK
  <2>2. [Idle EXCEPT !.pc = "unlink", !.file = f] \in TaskType
    BY DEF Idle, TaskType, PCs
  <2>3. TasksOK'
    BY <1>5, <2>2, StartType DEF DeleteRow, Idle, TasksOK
  <2> QED BY <2>1, <2>3
<1>6. ASSUME NEW t \in Tasks, NEW f \in Files, NEW ids \in SUBSET Indexes,
             EmbedRequest(t, f, ids)
      PROVE  TablesOK' /\ TasksOK'
  <2>1. TablesOK'
    BY <1>6 DEF EmbedRequest, Accept, TablesOK, db
  <2>2. [Idle EXCEPT !.pc = "embed", !.file = f, !.gen = chunks[f].gen,
                     !.ids = ids] \in TaskType
    BY DEF Idle, TaskType, PCs, TablesOK
  <2>3. TasksOK'
    BY <1>6, <2>2, StartType DEF EmbedRequest, Idle
  <2> QED BY <2>1, <2>3
<1>7. ASSUME NEW t \in Tasks, KbReadKeys(t)
      PROVE  TablesOK' /\ TasksOK'
  <2>1. TablesOK'
    BY <1>7 DEF KbReadKeys, Accept, TablesOK, db
  <2>2. [Idle EXCEPT !.pc = "drop", !.keys = {f \in Files : Exists(f)}]
           \in TaskType
    BY DEF Idle, TaskType, PCs
  <2>3. TasksOK'
    BY <1>7, <2>2 DEF KbReadKeys, Idle, TasksOK
  <2> QED BY <2>1, <2>3
<1>8. ASSUME NEW t \in Tasks, NEW o \in Outcomes, UploadInsert(t, o)
      PROVE  TablesOK' /\ TasksOK'
  <2>1. task[t].file \in Files
    BY <1>8 DEF UploadInsert, TasksOK
  <2> DEFINE r == [st |-> "pending", stale |-> FALSE]
  <2>0. row' = row \/ row' = [row EXCEPT ![task[t].file] = r]
    BY <1>8 DEF UploadInsert
  <2>2. row' \in [Files -> [st : Status, stale : BOOLEAN]]
    <3>1. r \in [st : Status, stale : BOOLEAN]
      OBVIOUS
    <3> HIDE DEF r
    <3> QED BY <2>0, <2>1, <3>1 DEF TablesOK
  <2>3. leaked' \subseteq Files
    BY <1>8, <2>1 DEF UploadInsert, TablesOK
  <2>4. TablesOK'
    BY <1>8, <2>2, <2>3, OutcomeType DEF UploadInsert, TablesOK
  <2>5. TasksOK'
    BY <1>8, <2>1, GotoType, FinishType, ContinueType DEF UploadInsert, PCs
  <2> QED BY <2>4, <2>5
<1>9. ASSUME NEW t \in Tasks, NEW o \in Outcomes,
             UploadUndo(t, o) \/ DeleteBlob(t, o)
      PROVE  TablesOK' /\ TasksOK'
  <2>1. TablesOK'
    BY <1>9, OutcomeType
       DEF UploadUndo, DeleteBlob, Unlink, TablesOK, TasksOK, db
  <2>2. TasksOK'
    BY <1>9, FinishType DEF UploadUndo, DeleteBlob, Unlink
  <2> QED BY <2>1, <2>2
<1>10. ASSUME NEW t \in Tasks, NEW o \in Outcomes, ProcessRead(t, o)
       PROVE  TablesOK' /\ TasksOK'
  <2>1. TablesOK' /\ task[t].file \in Files
    BY <1>10, OutcomeType DEF ProcessRead, TablesOK, TasksOK, db
  <2>2. TasksOK'
    BY <1>10, <2>1, GotoType, FinishType DEF ProcessRead, PCs
  <2> QED BY <2>1, <2>2
<1>11. ASSUME NEW t \in Tasks, NEW o \in Outcomes, ProcessMark(t, o)
       PROVE  TablesOK' /\ TasksOK'
  <2>1. task[t].file \in Files
    BY <1>11 DEF ProcessMark, TasksOK
  <2>2. TablesOK'
    BY <1>11, <2>1, OutcomeType, StatusType DEF ProcessMark, TablesOK
  <2>3. TasksOK'
    BY <1>11, <2>1, GotoType DEF ProcessMark, PCs
  <2> QED BY <2>2, <2>3
<1>12. ASSUME NEW t \in Tasks, ProcessParse(t)
       PROVE  TablesOK' /\ TasksOK'
  <2>1. TablesOK' /\ task[t].file \in Files
    BY <1>12 DEF ProcessParse, TablesOK, TasksOK, db
  <2>2. CASE Goto(t, "fail")
    BY <2>1, <2>2, GotoType DEF PCs
  <2>3. CASE Goto(t, "save")
    BY <2>1, <2>3, GotoType DEF PCs
  <2> QED BY <1>12, <2>1, <2>2, <2>3 DEF ProcessParse
<1>13. ASSUME NEW t \in Tasks, NEW o \in Outcomes, ProcessSave(t, o)
       PROVE  TablesOK' /\ TasksOK'
  <2>1. task[t].file \in Files
    BY <1>13 DEF ProcessSave, TasksOK
  <2>2. TablesOK'
    <3>1. parsed' \in [Files -> [st : Status, doc : Nat]]
      <4> DEFINE r == [st |-> "pending", doc |-> parsed[task[t].file].doc + 1]
      <4>1. r \in [st : Status, doc : Nat]
        BY <2>1 DEF TablesOK
      <4>2. parsed' = parsed \/ parsed' = [parsed EXCEPT ![task[t].file] = r]
        BY <1>13 DEF ProcessSave
      <4> HIDE DEF r
      <4> QED BY <4>1, <4>2 DEF TablesOK
    <3>2. /\ row' \in [Files -> [st : Status, stale : BOOLEAN]]
          /\ overtaken' \subseteq Files
      BY <1>13, <2>1, StatusType DEF ProcessSave, TablesOK
    <3> QED BY <1>13, <3>1, <3>2, OutcomeType DEF ProcessSave, TablesOK
  <2>3. TasksOK'
    BY <1>13, <2>1, GotoType, ContinueType DEF ProcessSave, PCs
  <2> QED BY <2>2, <2>3
<1>14. ASSUME NEW t \in Tasks, NEW o \in Outcomes, ProcessFail(t, o)
       PROVE  TablesOK' /\ TasksOK'
  <2>1. task[t].file \in Files
    BY <1>14 DEF ProcessFail, TasksOK
  <2>2. TablesOK'
    BY <1>14, <2>1, OutcomeType, StatusType DEF ProcessFail, TablesOK
  <2>3. TasksOK'
    BY <1>14, FinishType DEF ProcessFail
  <2> QED BY <2>2, <2>3
<1>15. ASSUME NEW t \in Tasks, NEW o \in Outcomes, AutoChunkClaim(t, o)
       PROVE  TablesOK' /\ TasksOK'
  <2>1. TablesOK' /\ task[t].file \in Files
    BY <1>15, OutcomeType DEF AutoChunkClaim, TablesOK, TasksOK
  <2>2. TasksOK'
    BY <1>15, <2>1, GotoType, FinishType DEF AutoChunkClaim, PCs
  <2> QED BY <2>1, <2>2
<1>16. ASSUME NEW t \in Tasks, ChunkLoad(t)
       PROVE  TablesOK' /\ TasksOK'
  <2>1. TablesOK' /\ task[t].file \in Files
    BY <1>16 DEF ChunkLoad, TablesOK, TasksOK, db
  <2>2. CASE Goto(t, "chunkfail")
    BY <2>1, <2>2, GotoType DEF PCs
  <2>3. CASE task' = [task EXCEPT ![t] =
                        [@ EXCEPT !.pc = "clear",
                                  !.doc = parsed[task[t].file].doc]]
    <3>1. [task[t] EXCEPT !.pc = "clear", !.doc = parsed[task[t].file].doc]
             \in TaskType
      <4>1. /\ task[t] \in TaskType /\ "clear" \in PCs
            /\ parsed[task[t].file].doc \in Nat
        BY <2>1 DEF TasksOK, TablesOK, PCs
      <4> QED BY <4>1, UpdateType
    <3> QED BY <2>1, <2>3, <3>1, StartType DEF TasksOK, TaskType
  <2> QED BY <1>16, <2>1, <2>2, <2>3 DEF ChunkLoad
<1>17. ASSUME NEW t \in Tasks, ChunkClear(t)
       PROVE  TablesOK' /\ TasksOK'
  <2>1. TablesOK' /\ task[t].file \in Files
    BY <1>17 DEF ChunkClear, TablesOK, TasksOK, db
  <2>2. [task[t] EXCEPT !.pc = "write", !.gen = chunks[task[t].file].gen]
           \in TaskType
    <3>1. /\ task[t] \in TaskType /\ "write" \in PCs
          /\ chunks[task[t].file].gen \in Nat
      BY <2>1 DEF TasksOK, TablesOK, PCs
    <3> QED BY <3>1, UpdateType
  <2>3. TasksOK'
    BY <1>17, <2>1, <2>2, StartType DEF ChunkClear, TasksOK, TaskType
  <2> QED BY <2>1, <2>3
<1>18. ASSUME NEW t \in Tasks, NEW o \in Outcomes, ChunkWrite(t, o)
       PROVE  TablesOK' /\ TasksOK'
  <2>1. task[t].file \in Files /\ task[t].doc \in Nat
    BY <1>18 DEF ChunkWrite, TasksOK, TaskType
  <2> DEFINE c == [gen |-> chunks[task[t].file].gen + 1, doc |-> task[t].doc,
                   vec |-> [i \in Indexes |-> 0]]
  <2>2. c \in [gen : Nat, doc : Nat, vec : [Indexes -> Nat]]
    <3>1. chunks[task[t].file].gen + 1 \in Nat
      BY <2>1 DEF TablesOK
    <3>2. [i \in Indexes |-> 0] \in [Indexes -> Nat]
      OBVIOUS
    <3> QED BY <2>1, <3>1, <3>2
  <2>3. chunks' = chunks \/ chunks' = [chunks EXCEPT ![task[t].file] = c]
    BY <1>18 DEF ChunkWrite
  <2>4. chunks' \in [Files -> [gen : Nat, doc : Nat, vec : [Indexes -> Nat]]]
    <3>1. \A d \in [gen : Nat, doc : Nat, vec : [Indexes -> Nat]] :
             [chunks EXCEPT ![task[t].file] = d]
               \in [Files -> [gen : Nat, doc : Nat, vec : [Indexes -> Nat]]]
      BY DEF TablesOK
    <3> HIDE DEF c
    <3> QED BY <2>2, <2>3, <3>1 DEF TablesOK
  <2>5. parsed' \in [Files -> [st : Status, doc : Nat]]
    <3>1. CASE parsed' = parsed
      BY <3>1 DEF TablesOK
    <3>2. CASE SetChunkStatus(task[t].file, "ready")
      BY <2>1, <3>2, ChunkStatusType
    <3> QED BY <1>18, <3>1, <3>2 DEF ChunkWrite
  <2>6. TablesOK'
    BY <1>18, <2>4, <2>5, OutcomeType DEF ChunkWrite, TablesOK
  <2>7. TasksOK'
    BY <1>18, <2>1, GotoType, ContinueType DEF ChunkWrite, PCs
  <2> QED BY <2>6, <2>7
<1>19. ASSUME NEW t \in Tasks, NEW o \in Outcomes, ChunkFail(t, o)
       PROVE  TablesOK' /\ TasksOK'
  <2>1. task[t].file \in Files
    BY <1>19 DEF ChunkFail, TasksOK
  <2>2. TablesOK'
    BY <1>19, <2>1, OutcomeType, ChunkStatusType DEF ChunkFail, TablesOK
  <2>3. TasksOK'
    BY <1>19, FinishType DEF ChunkFail, TasksOK
  <2> QED BY <2>2, <2>3
<1>20. ASSUME NEW t \in Tasks, NEW o \in Outcomes, AutoEmbedPick(t, o)
       PROVE  TablesOK' /\ TasksOK'
  <2>1. TablesOK' /\ task[t].file \in Files
    BY <1>20, OutcomeType DEF AutoEmbedPick, TablesOK, TasksOK, db
  <2>2. CASE Goto(t, "chunkfail") \/ Finish(t)
    BY <2>1, <2>2, GotoType, FinishType DEF PCs
  <2>3. CASE task' = [task EXCEPT ![t] =
                        [@ EXCEPT !.pc = "embed",
                                  !.gen = chunks[task[t].file].gen,
                                  !.ids = Unembedded(task[t].file)]]
    <3>1. [task[t] EXCEPT !.pc = "embed", !.gen = chunks[task[t].file].gen,
                          !.ids = Unembedded(task[t].file)] \in TaskType
      <4>1. /\ task[t] \in TaskType /\ "embed" \in PCs
            /\ chunks[task[t].file].gen \in Nat
            /\ Unembedded(task[t].file) \in SUBSET Indexes
        BY <2>1 DEF TasksOK, TablesOK, PCs, Unembedded
      <4> QED BY <4>1, UpdateType
    <3> QED BY <2>1, <2>3, <3>1, StartType DEF TasksOK, TaskType
  <2> QED BY <1>20, <2>1, <2>2, <2>3 DEF AutoEmbedPick
<1>21. ASSUME NEW t \in Tasks, EmbedCall(t)
       PROVE  TablesOK' /\ TasksOK'
  <2>1. TablesOK' /\ task[t].file \in Files
    BY <1>21 DEF EmbedCall, TablesOK, TasksOK, db
  <2>2. TasksOK'
    BY <1>21, <2>1, GotoType, ContinueType DEF EmbedCall, PCs
  <2> QED BY <2>1, <2>2
<1>22. ASSUME NEW t \in Tasks, NEW o \in Outcomes, EmbedStore(t, o)
       PROVE  TablesOK' /\ TasksOK'
  <2>1. task[t].file \in Files /\ task[t].gen \in Nat
    BY <1>22 DEF EmbedStore, TasksOK, TaskType
  <2>2. TablesOK'
    BY <1>22, <2>1, OutcomeType DEF EmbedStore, TablesOK
  <2>3. TasksOK'
    BY <1>22, <2>1, FinishType, ContinueType DEF EmbedStore, PCs
  <2> QED BY <2>2, <2>3
<1>23. ASSUME NEW t \in Tasks, NEW o \in Outcomes, KbDrop(t, o)
       PROVE  TablesOK' /\ TasksOK'
  <2>1. task[t] \in TaskType
    BY DEF TasksOK
  <2>2. TablesOK'
    BY <1>23, <2>1, OutcomeType, DeleteType
       DEF KbDrop, TablesOK, TaskType, db
  <2>3. TasksOK'
    BY <1>23, <2>1, FinishType DEF KbDrop, Goto, TasksOK, TaskType, PCs
  <2> QED BY <2>2, <2>3
<1>24. ASSUME NEW t \in Tasks, NEW f \in Files, NEW o \in Outcomes,
              KbClean(t, f, o)
       PROVE  TablesOK' /\ TasksOK'
  <2>1. TablesOK'
    BY <1>24, OutcomeType DEF KbClean, TablesOK, db
  <2>2. TasksOK'
    BY <1>24 DEF KbClean, TasksOK, TaskType
  <2> QED BY <2>1, <2>2
<1>25. ASSUME NEW t \in Tasks, KbCleaned(t)
       PROVE  TablesOK' /\ TasksOK'
  BY <1>25, FinishType DEF KbCleaned, TablesOK, db
<1>26. ASSUME ListFiles
       PROVE  TablesOK' /\ TasksOK'
  BY <1>26 DEF ListFiles, TablesOK, TasksOK
<1>27. ASSUME NEW f \in Files, GoStale(f)
       PROVE  TablesOK' /\ TasksOK'
  BY <1>27 DEF GoStale, TablesOK, TasksOK
<1>28. ASSUME Restart
       PROVE  TablesOK' /\ TasksOK'
  BY <1>28, OutcomeType, IdleType DEF Restart, TablesOK, TasksOK, db
<1>29. CASE UNCHANGED vars
  BY <1>29 DEF vars, TablesOK, TasksOK
<1> QED
  BY <1>1, <1>2, <1>3, <1>4, <1>5, <1>6, <1>7, <1>8, <1>9, <1>10, <1>11,
     <1>12, <1>13, <1>14, <1>15, <1>16, <1>17, <1>18, <1>19, <1>20, <1>21,
     <1>22, <1>23, <1>24, <1>25, <1>26, <1>27, <1>28, <1>29
     DEF Next, Request, Step

\* The schema's shape is never lost: TypeOK holds in every reachable state,
\* for every number of files, tasks, requests and faults.
THEOREM TypeCorrect == Spec => []TypeOK
<1>1. Init => TablesOK /\ TasksOK
  BY IdleType DEF Init, TablesOK, TasksOK, NoRow, NoParsed, NoChunks, Status
<1>2. TablesOK /\ TasksOK /\ [Next]_vars => TablesOK' /\ TasksOK'
  BY TypeStep
<1>3. TablesOK /\ TasksOK => TypeOK
  BY DEF TablesOK, TasksOK, TypeOK
<1> QED BY <1>1, <1>2, <1>3, PTL DEF Spec

-----------------------------------------------------------------------------
(* The inductive invariant HandlersOwnFiles *)

\* The steps at which a handler may still insert, or is about to remove, the
\* object of its file.
Owning == {"insert", "undo", "unlink", "clean"}

\* No task enters an owning step, and none gets hold of an id nobody has drawn.
QuietTasks ==
    \A u \in Tasks : \/ task'[u] = task[u]
                     \/ task'[u].pc \notin Owning /\ task'[u].file \notin fresh

NoNewRow == \A f \in Files : row'[f].st # "none" => row[f].st # "none"

\* A step that creates no row, removes no object and keeps the tasks quiet
\* keeps the ownership discipline.
LEMMA QuietStep ==
  ASSUME TypeOK, HandlersOwnFiles, UNCHANGED kb, fresh' \subseteq fresh,
         blob \subseteq blob', NoNewRow, QuietTasks
  PROVE  HandlersOwnFiles'
<1> USE DEF NoNewRow, QuietTasks, Owning, Exists, At
<1>1. RowHasObject'
  BY DEF HandlersOwnFiles, RowHasObject
<1>2. (~kb => \A f \in Files : ~Exists(f))' /\ (\A f \in fresh : ~Exists(f))'
  BY DEF HandlersOwnFiles, TypeOK
<1>3. \A t \in Tasks : /\ task'[t].file \notin fresh'
                       /\ task'[t].pc = "clean" => ~kb'
                       /\ task'[t].pc = "insert" /\ kb' => task'[t].file \in blob'
  BY DEF HandlersOwnFiles
<1>4. ASSUME NEW t \in Tasks, task'[t].pc \in {"insert", "undo", "unlink"}
      PROVE  ~Exists(task[t].file)' /\ task'[t] = task[t]
  BY <1>4 DEF HandlersOwnFiles, TypeOK
<1>5. \A t, u \in Tasks :
        task'[t].pc = "insert" /\ task'[u].pc \in {"insert", "undo", "unlink"}
          /\ task'[t].file = task'[u].file => t = u
  BY DEF HandlersOwnFiles
<1> QED BY <1>1, <1>2, <1>3, <1>4, <1>5 DEF HandlersOwnFiles

\* A task that moves on to a step that owns nothing, or ends, stays quiet.
LEMMA MoveQuiet ==
  ASSUME TypeOK, HandlersOwnFiles, NEW t \in Tasks, NEW p, p \notin Owning,
         Goto(t, p) \/ Finish(t) \/ Continue(t, p)
  PROVE  QuietTasks
<1>1. task[t].file \notin fresh /\ NoFile \notin fresh
  BY ConstantsAssumption DEF HandlersOwnFiles, TypeOK
<1>2. task \in [Tasks -> TaskType]
  BY DEF TypeOK
<1>3. CASE Finish(t)
  <2>1. Idle.pc \notin Owning /\ Idle.file = NoFile
    BY DEF Idle, Owning
  <2> QED BY <1>1, <1>2, <1>3, <2>1 DEF Finish, QuietTasks
<1>4. CASE Goto(t, p)
  <2>1. \A u \in Tasks \ {t} : task'[u] = task[u]
    BY <1>2, <1>4 DEF Goto
  <2>2. task'[t].pc = p /\ task'[t].file = task[t].file
    BY <1>2, <1>4 DEF Goto, TaskType
  <2> QED BY <1>1, <2>1, <2>2 DEF QuietTasks
<1> QED BY <1>3, <1>4 DEF Continue

\* Ending a request leaves it with no object of its own to clean up.
LEMMA FinishQuiet ==
  ASSUME TypeOK, HandlersOwnFiles, NEW t \in Tasks, Finish(t)
  PROVE  QuietTasks
<1>1. "idle" \notin Owning
  BY DEF Owning
<1> QED BY <1>1, MoveQuiet

\* Status updates create no row.
LEMMA StatusQuiet ==
  ASSUME TypeOK, NEW f, NEW s, SetStatus(f, s) \/ row' = row
  PROVE  NoNewRow
<1>1. row \in [Files -> [st : Status, stale : BOOLEAN]]
  BY DEF TypeOK
<1> QED BY <1>1 DEF SetStatus, NoNewRow, Exists

\* A task that starts on a file that has a row stays quiet.
LEMMA StartQuiet ==
  ASSUME TypeOK, NEW t \in Tasks, NEW r,
         r.pc \notin Owning, r.file \notin fresh,
         task' = [task EXCEPT ![t] = r] \/ task' = task
  PROVE  QuietTasks
<1>1. task \in [Tasks -> TaskType]
  BY DEF TypeOK
<1> QED BY <1>1 DEF QuietTasks

\* Drawing an id gives it to one upload, which puts its object first.
LEMMA UploadPutOwns ==
  ASSUME TypeOK, HandlersOwnFiles, NEW t \in Tasks, NEW f \in Files,
         NEW auto \in BOOLEAN, UploadPut(t, f, auto)
  PROVE  HandlersOwnFiles'
<1> USE DEF Exists, At
<1>1. /\ f \in fresh /\ fresh' = fresh \ {f} /\ blob' = blob \cup {f}
      /\ kb' = kb /\ row' = row
  BY DEF UploadPut, db
<1>2. task'[t].pc = "insert" /\ task'[t].file = f
  BY DEF UploadPut, TypeOK, Idle
<1>3. \A u \in Tasks \ {t} : task'[u] = task[u]
  BY DEF UploadPut, TypeOK
<1>4. RowHasObject' /\ (~kb => \A g \in Files : ~Exists(g))'
        /\ (\A g \in fresh : ~Exists(g))'
  BY <1>1 DEF HandlersOwnFiles, RowHasObject
<1>5. ASSUME NEW u \in Tasks
      PROVE  /\ task'[u].file \notin fresh'
             /\ task'[u].pc = "clean" => ~kb'
             /\ task'[u].pc = "insert" /\ kb' => task'[u].file \in blob'
             /\ task'[u].pc \in {"insert", "undo", "unlink"} =>
                  ~Exists(task[u].file)'
  BY <1>1, <1>2, <1>3 DEF HandlersOwnFiles
<1>6. \A v, u \in Tasks :
        task'[v].pc = "insert" /\ task'[u].pc \in {"insert", "undo", "unlink"}
          /\ task'[v].file = task'[u].file => v = u
  BY <1>1, <1>2, <1>3 DEF HandlersOwnFiles
<1> QED BY <1>4, <1>5, <1>6 DEF HandlersOwnFiles

\* The row is inserted by the only owner of the id, while its object exists.
LEMMA UploadInsertOwns ==
  ASSUME TypeOK, HandlersOwnFiles, NEW t \in Tasks, NEW o, UploadInsert(t, o)
  PROVE  HandlersOwnFiles'
<1> DEFINE f == task[t].file
<1> USE DEF Exists, At
<1>1. /\ task[t].pc = "insert" /\ f \in Files /\ f \notin fresh
      /\ ~Exists(f) /\ (kb => f \in blob)
  BY DEF UploadInsert, TypeOK, HandlersOwnFiles
<1>2. fresh' = fresh /\ blob' = blob /\ kb' = kb
  BY DEF UploadInsert
<1>3. \A u \in Tasks \ {t} : task'[u] = task[u]
  BY DEF UploadInsert, Finish, Continue, Goto, TypeOK
<1>4. task'[t].file \notin fresh
  <2>1. task[t] \in TaskType /\ task \in [Tasks -> TaskType]
    BY DEF TypeOK
  <2>2. Idle.file \notin fresh
    BY ConstantsAssumption DEF Idle, TypeOK
  <2> QED BY <1>1, <2>1, <2>2 DEF UploadInsert, Finish, Continue, Goto, TaskType
<1>5. CASE row' = row /\ task'[t].pc \in {"idle", "undo"} /\
           task'[t].file \in {f, NoFile}
  <2>1. NoFile \notin Files
    BY ConstantsAssumption
  <2>2. RowHasObject' /\ (~kb => \A g \in Files : ~Exists(g))'
          /\ (\A g \in fresh : ~Exists(g))'
    BY <1>2, <1>5 DEF HandlersOwnFiles, RowHasObject
  <2>3. task'[t].pc = "undo" => task'[t].file = f
    <3>1. task \in [Tasks -> TaskType]
      BY DEF TypeOK
    <3>2. Idle.pc = "idle"
      BY DEF Idle
    <3> QED BY <3>1, <3>2, <1>5
            DEF UploadInsert, Finish, Continue, Goto, TaskType
  <2>4. ASSUME NEW u \in Tasks
        PROVE  /\ task'[u].file \notin fresh'
               /\ task'[u].pc = "clean" => ~kb'
               /\ task'[u].pc = "insert" /\ kb' => task'[u].file \in blob'
               /\ task'[u].pc \in {"insert", "undo", "unlink"} =>
                    ~Exists(task[u].file)'
    BY <1>1, <1>2, <1>3, <1>4, <1>5, <2>3 DEF HandlersOwnFiles
  <2>5. \A v, u \in Tasks :
          task'[v].pc = "insert" /\ task'[u].pc \in {"insert", "undo", "unlink"}
            /\ task'[v].file = task'[u].file => v = u
    BY <1>1, <1>3, <1>5, <2>3 DEF HandlersOwnFiles
  <2> QED BY <2>2, <2>4, <2>5 DEF HandlersOwnFiles
<1>6. CASE /\ kb /\ row' = [row EXCEPT ![f] = [st |-> "pending", stale |-> FALSE]]
           /\ task'[t].pc \in {"idle", "read"}
  <2>1. \A g \in Files : Exists(g)' => Exists(g) \/ g = f
    BY <1>6 DEF TypeOK
  <2>2. RowHasObject' /\ (~kb => \A g \in Files : ~Exists(g))'
          /\ (\A g \in fresh : ~Exists(g))'
    BY <1>1, <1>2, <1>6, <2>1 DEF HandlersOwnFiles, RowHasObject, TypeOK
  <2>3. ASSUME NEW u \in Tasks
        PROVE  /\ task'[u].file \notin fresh'
               /\ task'[u].pc = "clean" => ~kb'
               /\ task'[u].pc = "insert" /\ kb' => task'[u].file \in blob'
    BY <1>2, <1>3, <1>4, <1>6 DEF HandlersOwnFiles
  <2>4. ASSUME NEW u \in Tasks, task'[u].pc \in {"insert", "undo", "unlink"}
        PROVE  ~Exists(task[u].file)'
    <3>1. u # t /\ task'[u] = task[u]
      BY <1>3, <1>6, <2>4
    <3>2. task[u].file # f /\ ~Exists(task[u].file) /\ task[u].file \in Files
      BY <1>1, <2>4, <3>1 DEF HandlersOwnFiles, TypeOK
    <3> QED BY <2>1, <3>1, <3>2
  <2>5. \A v, u \in Tasks :
          task'[v].pc = "insert" /\ task'[u].pc \in {"insert", "undo", "unlink"}
            /\ task'[v].file = task'[u].file => v = u
    BY <1>3, <1>6 DEF HandlersOwnFiles
  <2> QED BY <2>2, <2>3, <2>4, <2>5 DEF HandlersOwnFiles
<1>7. Idle.pc = "idle" /\ Idle.file = NoFile
  BY DEF Idle
<1>8. task \in [Tasks -> TaskType]
  BY DEF TypeOK
<1> QED
  BY <1>5, <1>6, <1>7, <1>8
     DEF UploadInsert, Finish, Continue, Goto, Insertable, Applied, TaskType

\* An object is removed by its owner, when no row and no upload refers to it.
LEMMA UnlinkOwns ==
  ASSUME TypeOK, HandlersOwnFiles, NEW t \in Tasks, NEW o,
         NEW p \in {"undo", "unlink"}, Unlink(t, p, o)
  PROVE  HandlersOwnFiles'
<1> DEFINE f == task[t].file
<1> USE DEF Exists, At
<1>1. /\ task[t].pc \in {"undo", "unlink"} /\ f \in Files /\ ~Exists(f)
      /\ \A u \in Tasks : task[u].pc = "insert" => task[u].file # f
  BY DEF Unlink, TypeOK, HandlersOwnFiles
<1>2. /\ fresh' = fresh /\ kb' = kb /\ row' = row
      /\ blob' = blob \/ blob' = blob \ {f}
  BY DEF Unlink, db
<1>3. /\ task'[t].pc = "idle" /\ task'[t].file = NoFile /\ NoFile \notin fresh
      /\ \A u \in Tasks \ {t} : task'[u] = task[u]
  <2>1. task \in [Tasks -> TaskType] /\ fresh \subseteq Files
    BY DEF TypeOK
  <2> QED BY <2>1, ConstantsAssumption DEF Unlink, Finish, Idle
<1>4. RowHasObject' /\ (~kb => \A g \in Files : ~Exists(g))'
        /\ (\A g \in fresh : ~Exists(g))'
  BY <1>1, <1>2 DEF HandlersOwnFiles, RowHasObject
<1>5. ASSUME NEW u \in Tasks
      PROVE  /\ task'[u].file \notin fresh'
             /\ task'[u].pc = "clean" => ~kb'
             /\ task'[u].pc = "insert" /\ kb' => task'[u].file \in blob'
             /\ task'[u].pc \in {"insert", "undo", "unlink"} =>
                  ~Exists(task[u].file)'
  BY <1>1, <1>2, <1>3 DEF HandlersOwnFiles
<1>6. \A v, u \in Tasks :
        task'[v].pc = "insert" /\ task'[u].pc \in {"insert", "undo", "unlink"}
          /\ task'[v].file = task'[u].file => v = u
  BY <1>3 DEF HandlersOwnFiles
<1> QED BY <1>4, <1>5, <1>6 DEF HandlersOwnFiles

\* Deleting a file takes the row away before its object is touched, and no
\* upload still holds the id of a file that has a row.
LEMMA DeleteRowOwns ==
  ASSUME TypeOK, HandlersOwnFiles, NEW t \in Tasks, NEW f \in Files, NEW o,
         DeleteRow(t, f, o)
  PROVE  HandlersOwnFiles'
<1> USE DEF Exists, At
<1>1. /\ fresh' = fresh /\ kb' = kb /\ blob' = blob /\ f \notin fresh
      /\ \A u \in Tasks : task[u].pc = "insert" => task[u].file # f
  BY DEF DeleteRow, HandlersOwnFiles
<1>2. /\ row'[f].st = "none"
      /\ \A g \in Files : row'[g].st # "none" => row[g].st # "none"
  BY DEF DeleteRow, Delete, NoRow
<1>3. CASE task' = task
  BY <1>1, <1>2, <1>3, QuietStep DEF NoNewRow, QuietTasks
<1>4. CASE task' = [task EXCEPT ![t] = [Idle EXCEPT !.pc = "unlink", !.file = f]]
  <2>1. /\ task'[t].pc = "unlink" /\ task'[t].file = f
        /\ \A u \in Tasks \ {t} : task'[u] = task[u]
    <3>1. task \in [Tasks -> TaskType]
      BY DEF TypeOK
    <3> QED BY <1>4, <3>1 DEF Idle
  <2>2. RowHasObject' /\ (~kb => \A g \in Files : ~Exists(g))'
          /\ (\A g \in fresh : ~Exists(g))'
    BY <1>1, <1>2 DEF HandlersOwnFiles, RowHasObject, TypeOK
  <2>3. ASSUME NEW u \in Tasks
        PROVE  /\ task'[u].file \notin fresh'
               /\ task'[u].pc = "clean" => ~kb'
               /\ task'[u].pc = "insert" /\ kb' => task'[u].file \in blob'
               /\ task'[u].pc \in {"insert", "undo", "unlink"} =>
                    ~Exists(task[u].file)'
    BY <1>1, <1>2, <2>1 DEF HandlersOwnFiles, TypeOK
  <2>4. \A v, u \in Tasks :
          task'[v].pc = "insert" /\ task'[u].pc \in {"insert", "undo", "unlink"}
            /\ task'[v].file = task'[u].file => v = u
    BY <1>1, <2>1 DEF HandlersOwnFiles
  <2> QED BY <2>2, <2>3, <2>4 DEF HandlersOwnFiles
<1> QED BY <1>3, <1>4 DEF DeleteRow

\* Dropping the base removes every row, for good.
LEMMA KbDropOwns ==
  ASSUME TypeOK, HandlersOwnFiles, NEW t \in Tasks, NEW o, KbDrop(t, o)
  PROVE  HandlersOwnFiles'
<1> USE DEF Exists, At
<1>1. CASE UNCHANGED db /\ Finish(t)
  <2>1. QuietTasks
    BY <1>1, FinishQuiet
  <2> QED BY <1>1, <2>1, QuietStep DEF KbDrop, db, NoNewRow
<1>2. CASE kb' = FALSE /\ Delete(Files)
  <2>1. \A f \in Files : row'[f].st = "none"
    BY <1>2 DEF Delete, NoRow
  <2>2. /\ task[t].pc = "drop" /\ task[t].file \notin fresh
        /\ fresh' = fresh /\ NoFile \notin fresh
    BY ConstantsAssumption DEF KbDrop, HandlersOwnFiles, TypeOK
  <2>3. /\ \A u \in Tasks \ {t} : task'[u] = task[u]
        /\ task'[t].file \in {task[t].file, NoFile}
        /\ task'[t].pc \in {"clean", "idle"}
    <3>1. task \in [Tasks -> TaskType]
      BY DEF TypeOK
    <3>2. Goto(t, "clean") \/ Finish(t)
      BY DEF KbDrop
    <3> QED BY <3>1, <3>2 DEF Goto, Finish, Idle, TaskType
  <2>4. RowHasObject' /\ (~kb => \A g \in Files : ~Exists(g))'
          /\ (\A g \in fresh : ~Exists(g))'
    <3>1. \A g \in Files : ~Exists(g)'
      BY <2>1
    <3> QED BY <2>2, <3>1 DEF RowHasObject, TypeOK
  <2>5. ASSUME NEW u \in Tasks
        PROVE  /\ task'[u].file \notin fresh'
               /\ task'[u].pc = "clean" => ~kb'
               /\ task'[u].pc = "insert" /\ kb' => task'[u].file \in blob'
    <3>1. ~kb'
      BY <1>2
    <3> QED BY <2>2, <2>3, <3>1 DEF HandlersOwnFiles
  <2>6. ASSUME NEW u \in Tasks, task'[u].pc \in {"insert", "undo", "unlink"}
        PROVE  ~Exists(task[u].file)'
    <3>1. u # t
      BY <2>3, <2>6
    <3>2. task'[u] = task[u]
      BY <2>3, <3>1
    <3>3. task[u].file \in Files
      BY <2>6, <3>2 DEF TypeOK
    <3> QED BY <2>1, <3>2, <3>3
  <2>7. \A v, u \in Tasks :
          task'[v].pc = "insert" /\ task'[u].pc \in {"insert", "undo", "unlink"}
            /\ task'[v].file = task'[u].file => v = u
    BY <2>3 DEF HandlersOwnFiles
  <2> QED BY <2>4, <2>5, <2>6, <2>7 DEF HandlersOwnFiles
<1>3. ~(kb /\ Applied(o)) => ~(kb /\ o = "ok")
  BY DEF Applied
<1> QED BY <1>1, <1>2, <1>3 DEF KbDrop

\* The cleanup of a dropped base removes objects nobody refers to.
LEMMA KbCleanOwns ==
  ASSUME TypeOK, HandlersOwnFiles, NEW t \in Tasks, NEW f \in Files, NEW o,
         KbClean(t, f, o)
  PROVE  HandlersOwnFiles'
<1> USE DEF Exists, At
<1>1. ~kb /\ fresh' = fresh /\ kb' = kb /\ row' = row
  BY DEF KbClean, HandlersOwnFiles, db
<1>2. \A u \in Tasks : task'[u].pc = task[u].pc /\ task'[u].file = task[u].file
  <2>1. task \in [Tasks -> TaskType]
    BY DEF TypeOK
  <2> QED BY <2>1 DEF KbClean, TaskType
<1> QED BY <1>1, <1>2 DEF HandlersOwnFiles, RowHasObject

\* Every row of KnowledgeParsedDocument and KnowledgeChunk has its file: the
\* foreign keys, kept by all handlers whatever they overlap with.
LEMMA ChildrenStep ==
  ASSUME TypeOK, ChildrenHaveFile, [Next]_vars
  PROVE  ChildrenHaveFile'
<1> USE DEF Exists
<1> DEFINE Kept == \A f \in Files : row'[f].st = "none" => row[f].st = "none"
           Same == parsed' = parsed /\ chunks' = chunks
<1>0. ASSUME Kept, Same
      PROVE  ChildrenHaveFile'
  BY <1>0 DEF ChildrenHaveFile
<1>1. ASSUME NEW f, NEW s \in Status \ {"none"}, SetStatus(f, s)
      PROVE  Kept
  BY <1>1 DEF SetStatus, TypeOK
<1>2. ASSUME NEW F, Delete(F)
      PROVE  ChildrenHaveFile'
  BY <1>2 DEF Delete, ChildrenHaveFile, NoParsed, NoChunks, NoRow
<1> USE DEF Status
<1>3. ASSUME NEW t \in Tasks, Request(t)
      PROVE  ChildrenHaveFile'
  <2>1. PICK f \in Files :
           \/ \E auto \in BOOLEAN : UploadPut(t, f, auto)
           \/ UploadPutFails(t, f)
           \/ \E o \in Outcomes : \/ ParseClaim(t, f, o)
                                  \/ ChunkRequest(t, f, o)
                                  \/ DeleteRow(t, f, o)
           \/ \E ids \in SUBSET Indexes : EmbedRequest(t, f, ids)
           \/ KbReadKeys(t)
    BY <1>3 DEF Request
  <2>2. CASE \/ \E auto \in BOOLEAN : UploadPut(t, f, auto)
             \/ UploadPutFails(t, f)
             \/ \E ids \in SUBSET Indexes : EmbedRequest(t, f, ids)
             \/ KbReadKeys(t)
    BY <2>2, <1>0 DEF UploadPut, UploadPutFails, EmbedRequest, KbReadKeys, db
  <2>3. CASE \E o \in Outcomes : ParseClaim(t, f, o)
    BY <2>3, <1>0, <1>1 DEF ParseClaim
  <2>4. CASE \E o \in Outcomes : ChunkRequest(t, f, o)
    BY <2>4 DEF ChunkRequest, ChunkClaimable, ChildrenHaveFile, TypeOK
  <2>5. CASE \E o \in Outcomes : DeleteRow(t, f, o)
    BY <2>5, <1>2 DEF DeleteRow
  <2> QED BY <2>1, <2>2, <2>3, <2>4, <2>5
<1>4. ASSUME NEW t \in Tasks, Step(t)
      PROVE  ChildrenHaveFile'
  <2>1. ASSUME NEW o \in Outcomes,
               \/ UploadUndo(t, o) \/ DeleteBlob(t, o) \/ ProcessRead(t, o)
               \/ AutoEmbedPick(t, o) \/ \E f \in Files : KbClean(t, f, o)
        PROVE  ChildrenHaveFile'
    BY <1>0, <2>1 DEF UploadUndo, DeleteBlob, Unlink, ProcessRead,
                      AutoEmbedPick, KbClean, db
  <2>2. ASSUME \/ ProcessParse(t) \/ ChunkLoad(t) \/ ChunkClear(t)
               \/ EmbedCall(t) \/ KbCleaned(t)
        PROVE  ChildrenHaveFile'
    BY <1>0, <2>2 DEF ProcessParse, ChunkLoad, ChunkClear, EmbedCall,
                      KbCleaned, db
  <2>3. ASSUME NEW o \in Outcomes, UploadInsert(t, o)
        PROVE  ChildrenHaveFile'
    <3> DEFINE r == [st |-> "pending", stale |-> FALSE]
    <3>1. row' = row \/ row' = [row EXCEPT ![task[t].file] = r]
      BY <2>3 DEF UploadInsert
    <3>2. row \in [Files -> [st : Status, stale : BOOLEAN]] /\ r.st # "none"
      BY DEF TypeOK
    <3>3. Kept
      <4> HIDE DEF r
      <4> QED BY <3>1, <3>2
    <3> QED BY <1>0, <2>3, <3>3 DEF UploadInsert
  <2>4. ASSUME NEW o \in Outcomes, ProcessMark(t, o) \/ ProcessFail(t, o)
        PROVE  ChildrenHaveFile'
    BY <1>0, <1>1, <2>4 DEF ProcessMark, ProcessFail
  <2>5. ASSUME NEW o \in Outcomes, ProcessSave(t, o)
        PROVE  ChildrenHaveFile'
    <3> DEFINE d == task[t].file
    <3>1. CASE UNCHANGED <<parsed, row>>
      BY <1>0, <2>5, <3>1 DEF ProcessSave
    <3>2. CASE /\ Exists(d) /\ SetStatus(d, "ready")
               /\ parsed' = [parsed EXCEPT ![d] =
                               [st |-> "pending", doc |-> parsed[d].doc + 1]]
      <4>1. Kept
        BY <1>1, <3>2
      <4>2. \A f \in Files \ {d} : parsed'[f] = parsed[f]
        BY <3>2 DEF TypeOK
      <4>3. \A f \in Files : row'[f].st = "none" => f # d
        BY <3>2, <4>1
      <4> QED BY <2>5, <4>1, <4>2, <4>3 DEF ProcessSave, ChildrenHaveFile
    <3> QED BY <2>5, <3>1, <3>2 DEF ProcessSave
  <2>6. ASSUME NEW o \in Outcomes, AutoChunkClaim(t, o)
        PROVE  ChildrenHaveFile'
    BY <2>6 DEF AutoChunkClaim, ChunkClaimable, ChildrenHaveFile, TypeOK
  <2>7. ASSUME NEW o \in Outcomes, ChunkWrite(t, o)
        PROVE  ChildrenHaveFile'
    BY <2>7 DEF ChunkWrite, SetChunkStatus, ChildrenHaveFile, TypeOK
  <2>8. ASSUME NEW o \in Outcomes, ChunkFail(t, o)
        PROVE  ChildrenHaveFile'
    BY <2>8 DEF ChunkFail, SetChunkStatus, ChildrenHaveFile, TypeOK
  <2>9. ASSUME NEW o \in Outcomes, EmbedStore(t, o)
        PROVE  ChildrenHaveFile'
    <3>1. \A f \in Files : chunks'[f].gen = chunks[f].gen
      BY <2>9 DEF EmbedStore, TypeOK
    <3> QED BY <2>9, <3>1 DEF EmbedStore, ChildrenHaveFile
  <2>10. ASSUME NEW o \in Outcomes, KbDrop(t, o)
         PROVE  ChildrenHaveFile'
    BY <2>10, <1>0, <1>2 DEF KbDrop, db
  <2> QED BY <1>4, <2>1, <2>2, <2>3, <2>4, <2>5, <2>6, <2>7, <2>8, <2>9, <2>10
          DEF Step
<1>5. CASE ListFiles
  BY <1>0, <1>5 DEF ListFiles, TypeOK
<1>6. ASSUME NEW f \in Files, GoStale(f)
      PROVE  ChildrenHaveFile'
  BY <1>0, <1>6 DEF GoStale, TypeOK
<1>7. ASSUME Restart
      PROVE  ChildrenHaveFile'
  BY <1>0, <1>7 DEF Restart, db
<1>8. CASE UNCHANGED vars
  BY <1>0, <1>8 DEF vars
<1> QED BY <1>3, <1>4, <1>5, <1>6, <1>7, <1>8 DEF Next

\* Every step keeps the ownership discipline.
LEMMA OwnershipStep ==
  ASSUME TypeOK, ChildrenHaveFile, HandlersOwnFiles, [Next]_vars
  PROVE  HandlersOwnFiles'
<1>0. /\ NoFile \notin fresh
      /\ \A f \in Files : Exists(f) \/ parsed[f].st # "none" \/ chunks[f].gen # 0
                            => f \notin fresh
  BY ConstantsAssumption DEF TypeOK, HandlersOwnFiles, ChildrenHaveFile
<1>1. ASSUME NEW t \in Tasks, Request(t)
      PROVE  HandlersOwnFiles'
  <2>1. ASSUME NEW f \in Files, NEW auto \in BOOLEAN, UploadPut(t, f, auto)
        PROVE  HandlersOwnFiles'
    BY <2>1, UploadPutOwns
  <2>2. ASSUME NEW f \in Files, UploadPutFails(t, f)
        PROVE  HandlersOwnFiles'
    BY <2>2, QuietStep DEF UploadPutFails, db, NoNewRow, QuietTasks
  <2>3. ASSUME NEW f \in Files, NEW o \in Outcomes, ParseClaim(t, f, o)
        PROVE  HandlersOwnFiles'
    <3> DEFINE r == [Idle EXCEPT !.pc = "read", !.file = f]
    <3>1. f \notin fresh /\ r.pc \notin Owning /\ r.file = f
      BY <1>0, <2>3 DEF ParseClaim, Claimable, Idle, Owning
    <3>2. task' = [task EXCEPT ![t] = r] \/ task' = task
      BY <2>3 DEF ParseClaim
    <3>3. QuietTasks
      <4> HIDE DEF r
      <4> QED BY <3>1, <3>2, StartQuiet
    <3>4. NoNewRow
      BY <2>3, StatusQuiet DEF ParseClaim
    <3> QED BY <2>3, <3>3, <3>4, QuietStep DEF ParseClaim
  <2>4. ASSUME NEW f \in Files, NEW o \in Outcomes, ChunkRequest(t, f, o)
        PROVE  HandlersOwnFiles'
    <3> DEFINE r == [Idle EXCEPT !.pc = "load", !.file = f]
    <3>1. f \notin fresh /\ r.pc \notin Owning /\ r.file = f
      BY <1>0, <2>4 DEF ChunkRequest, ChunkClaimable, Idle, Owning
    <3>2. task' = [task EXCEPT ![t] = r] \/ task' = task
      BY <2>4 DEF ChunkRequest
    <3>3. QuietTasks
      <4> HIDE DEF r
      <4> QED BY <3>1, <3>2, StartQuiet
    <3> QED BY <2>4, <3>3, QuietStep DEF ChunkRequest, NoNewRow
  <2>5. ASSUME NEW f \in Files, NEW o \in Outcomes, DeleteRow(t, f, o)
        PROVE  HandlersOwnFiles'
    BY <2>5, DeleteRowOwns
  <2>6. ASSUME NEW f \in Files, NEW ids \in SUBSET Indexes,
               EmbedRequest(t, f, ids)
        PROVE  HandlersOwnFiles'
    <3> DEFINE r == [Idle EXCEPT !.pc = "embed", !.file = f,
                                 !.gen = chunks[f].gen, !.ids = ids]
    <3>1. f \notin fresh /\ r.pc \notin Owning /\ r.file = f
      BY <1>0, <2>6 DEF EmbedRequest, Idle, Owning
    <3>2. task' = [task EXCEPT ![t] = r]
      BY <2>6 DEF EmbedRequest
    <3>3. QuietTasks
      <4> HIDE DEF r
      <4> QED BY <3>1, <3>2, StartQuiet
    <3> QED BY <2>6, <3>3, QuietStep DEF EmbedRequest, NoNewRow, db
  <2>7. ASSUME KbReadKeys(t)
        PROVE  HandlersOwnFiles'
    <3> DEFINE r == [Idle EXCEPT !.pc = "drop", !.keys = {f \in Files : Exists(f)}]
    <3>1. r.pc \notin Owning /\ r.file \notin fresh
      BY <1>0 DEF Idle, Owning
    <3>2. task' = [task EXCEPT ![t] = r]
      BY <2>7 DEF KbReadKeys
    <3>3. QuietTasks
      <4> HIDE DEF r
      <4> QED BY <3>1, <3>2, StartQuiet
    <3> QED BY <2>7, <3>3, QuietStep DEF KbReadKeys, NoNewRow, db
  <2> QED BY <1>1, <2>1, <2>2, <2>3, <2>4, <2>5, <2>6, <2>7 DEF Request
<1>2. ASSUME NEW t \in Tasks, NEW o \in Outcomes,
             \/ UploadInsert(t, o) \/ UploadUndo(t, o) \/ DeleteBlob(t, o)
             \/ KbDrop(t, o) \/ \E f \in Files : KbClean(t, f, o)
      PROVE  HandlersOwnFiles'
  BY <1>2, UploadInsertOwns, UnlinkOwns, KbDropOwns, KbCleanOwns
     DEF UploadUndo, DeleteBlob
<1>3. ASSUME NEW t \in Tasks, NEW o \in Outcomes,
             \/ ProcessRead(t, o) \/ ProcessMark(t, o) \/ ProcessSave(t, o)
             \/ ProcessFail(t, o) \/ AutoChunkClaim(t, o) \/ ChunkWrite(t, o)
             \/ ChunkFail(t, o)
      PROVE  HandlersOwnFiles'
  <2>1. QuietTasks
    <3>1. \/ task' = task \/ Finish(t)
          \/ \E p \in {"mark", "parse", "fail", "load", "chunkfail", "claim",
                       "pick"} : Goto(t, p) \/ Continue(t, p)
      BY <1>3 DEF ProcessRead, ProcessMark, ProcessSave, ProcessFail,
                  AutoChunkClaim, ChunkWrite, ChunkFail
    <3>2. {"mark", "parse", "fail", "load", "chunkfail", "claim", "pick"}
            \cap Owning = {}
      BY DEF Owning
    <3> QED BY <3>1, <3>2, MoveQuiet, FinishQuiet DEF QuietTasks
  <2>2. NoNewRow
    BY <1>3, StatusQuiet DEF ProcessRead, ProcessMark, ProcessSave, ProcessFail,
         AutoChunkClaim, ChunkWrite, ChunkFail, db
  <2>3. UNCHANGED <<kb, fresh, blob>>
    BY <1>3 DEF ProcessRead, ProcessMark, ProcessSave, ProcessFail,
         AutoChunkClaim, ChunkWrite, ChunkFail, db
  <2> QED BY <2>1, <2>2, <2>3, QuietStep
<1>4. ASSUME NEW t \in Tasks,
             \/ ProcessParse(t) \/ ChunkLoad(t) \/ ChunkClear(t)
             \/ EmbedCall(t) \/ KbCleaned(t)
             \/ \E o \in Outcomes : AutoEmbedPick(t, o) \/ EmbedStore(t, o)
      PROVE  HandlersOwnFiles'
  <2>1. UNCHANGED <<kb, fresh, blob, row>>
    BY <1>4 DEF ProcessParse, ChunkLoad, ChunkClear, EmbedCall, KbCleaned,
                AutoEmbedPick, EmbedStore, db
  <2>2. QuietTasks
    <3>1. CASE \/ Finish(t)
               \/ \E p \in {"save", "fail", "chunkfail", "store"} :
                    Goto(t, p) \/ Continue(t, p)
      <4>1. {"save", "fail", "chunkfail", "store"} \cap Owning = {}
        BY DEF Owning
      <4> QED BY <3>1, <4>1, MoveQuiet, FinishQuiet
    <3>2. CASE \/ task' = [task EXCEPT ![t] =
                    [@ EXCEPT !.pc = "clear", !.doc = parsed[task[t].file].doc]]
               \/ task' = [task EXCEPT ![t] =
                    [@ EXCEPT !.pc = "write", !.gen = chunks[task[t].file].gen]]
               \/ task' = [task EXCEPT ![t] =
                    [@ EXCEPT !.pc = "embed", !.gen = chunks[task[t].file].gen,
                              !.ids = Unembedded(task[t].file)]]
      <4>1. task \in [Tasks -> TaskType] /\ task[t].file \notin fresh
        BY DEF TypeOK, HandlersOwnFiles
      <4>2. \A u \in Tasks \ {t} : task'[u] = task[u]
        BY <3>2, <4>1
      <4>3. task'[t].file = task[t].file
        BY <3>2, <4>1 DEF TaskType
      <4>4. task'[t].pc \in {"clear", "write", "embed"}
        BY <3>2, <4>1 DEF TaskType
      <4> QED BY <4>1, <4>2, <4>3, <4>4 DEF QuietTasks, Owning
    <3> QED BY <1>4, <3>1, <3>2 DEF ProcessParse, ChunkLoad, ChunkClear,
              EmbedCall, KbCleaned, AutoEmbedPick, EmbedStore
  <2> QED BY <2>1, <2>2, QuietStep DEF NoNewRow
<1>5. CASE ListFiles \/ \E f \in Files : GoStale(f)
  <2>1. NoNewRow
    BY <1>5 DEF ListFiles, GoStale, NoNewRow, TypeOK
  <2> QED BY <1>5, <2>1, QuietStep DEF ListFiles, GoStale, QuietTasks
<1>6. ASSUME Restart
      PROVE  HandlersOwnFiles'
  <2>1. Idle.pc \notin Owning /\ Idle.file \notin fresh
    BY <1>0 DEF Idle, Owning
  <2>2. QuietTasks
    BY <1>6, <2>1 DEF Restart, QuietTasks
  <2> QED BY <1>6, <2>2, QuietStep DEF Restart, NoNewRow, db
<1>7. CASE UNCHANGED vars
  BY <1>7, QuietStep DEF vars, NoNewRow, QuietTasks
<1> QED BY <1>1, <1>2, <1>3, <1>4, <1>5, <1>6, <1>7 DEF Next, Step

\* For every number of files, tasks and faults: a handler that may still insert
\* a row is the only owner of its object, and parsed documents and chunks never
\* outlive their file.
THEOREM OwnershipKept == Spec => [](ChildrenHaveFile /\ HandlersOwnFiles)
<1>1. Init => ChildrenHaveFile /\ HandlersOwnFiles
  <2>1. Idle.file \notin Files /\ Idle.pc = "idle"
    BY ConstantsAssumption DEF Idle
  <2> QED BY <2>1 DEF Init, ChildrenHaveFile, HandlersOwnFiles, RowHasObject,
             Exists, At, NoRow, NoParsed, NoChunks
<1>2. TypeOK /\ ChildrenHaveFile /\ HandlersOwnFiles /\ [Next]_vars
        => (ChildrenHaveFile /\ HandlersOwnFiles)'
  BY ChildrenStep, OwnershipStep
<1> QED BY <1>1, <1>2, TypeCorrect, PTL DEF Spec

\* A KnowledgeFile row always has its object in storage, for every number of
\* files, concurrent handlers, faults and restarts.
THEOREM RowsHaveObjects == Spec => []RowHasObject
<1>1. HandlersOwnFiles => RowHasObject
  BY DEF HandlersOwnFiles
<1> QED BY <1>1, OwnershipKept, PTL

-----------------------------------------------------------------------------
(* What a step does to the tasks                                            *)

\* A task moves on by itself: the others stay where they are.
LEMMA MoveStep ==
  ASSUME TypeOK, NEW t \in Tasks, NEW p, Goto(t, p) \/ Finish(t) \/ Continue(t, p)
  PROVE  /\ \A u \in Tasks \ {t} : task'[u] = task[u]
         /\ task'[t].pc \in {p, "idle"}
         /\ task'[t].pc # "idle" => task'[t] = [task[t] EXCEPT !.pc = p]
<1>1. task \in [Tasks -> TaskType] /\ Idle.pc = "idle"
  BY DEF TypeOK, Idle
<1>2. CASE Finish(t)
  BY <1>1, <1>2 DEF Finish
<1>3. CASE Goto(t, p)
  <2>1. /\ task'[t] = [task[t] EXCEPT !.pc = p]
        /\ \A u \in Tasks \ {t} : task'[u] = task[u]
    BY <1>1, <1>3 DEF Goto
  <2>2. task'[t].pc = p
    BY <1>1, <2>1 DEF TaskType
  <2> QED BY <2>1, <2>2
<1> QED BY <1>2, <1>3 DEF Continue

\* Only a restart moves more than one task.
LEMMA OneTaskMoves ==
  ASSUME TypeOK, NEW t \in Tasks, Request(t) \/ Step(t)
  PROVE  \A u \in Tasks \ {t} : task'[u] = task[u]
<1>1. task \in [Tasks -> TaskType]
  BY DEF TypeOK
<1>2. CASE Request(t)
  <2>1. task' = task \/ \E r : task' = [task EXCEPT ![t] = r]
    BY <1>2 DEF Request, UploadPut, UploadPutFails, ParseClaim, ChunkRequest, DeleteRow,
       EmbedRequest, KbReadKeys
  <2> QED BY <1>1, <2>1
<1>3. CASE Step(t)
  <2>1. task' = task \/ (\E r : task' = [task EXCEPT ![t] = r])
    BY <1>3 DEF Step, UploadInsert, UploadUndo, DeleteBlob, Unlink, ProcessRead,
       ProcessMark, ProcessSave, ProcessFail, AutoChunkClaim, ChunkWrite, ChunkFail,
       AutoEmbedPick, EmbedStore, KbDrop, KbClean, ProcessParse, ChunkLoad, ChunkClear,
       EmbedCall, KbCleaned, Goto, Finish, Continue
  <2> QED BY <1>1, <2>1
<1> QED BY <1>2, <1>3

-----------------------------------------------------------------------------
(* Documents, chunks and vectors                                            *)

\* The steps between reading a document and writing its chunks.
Carrying == {"clear", "write"}

\* Chunks that are about to be written are cut from the stored document, or a
\* document was saved since.
CutInv ==
    \A t \in Tasks :
        task[t].pc \in Carrying /\ parsed[task[t].file].st # "none" =>
            \/ task[t].doc = parsed[task[t].file].doc
            \/ task[t].file \in overtaken

DerivedInv == StatusBacked /\ VectorsMatchText /\ CutInv

\* The document of a file stays what it is and keeps its backing: it is not marked
\* ready, and does not come out of nothing.
DocumentsStay ==
    \A f \in Files :
        /\ parsed'[f].doc = parsed[f].doc
        /\ \/ parsed'[f].st = parsed[f].st
           \/ parsed'[f].st \notin {"none", "ready"} /\ parsed[f].st # "none"

\* A step that writes no document, no chunk and no 'ready', and in which no task
\* reads a document, keeps the derived data.
LEMMA DerivedStay ==
  ASSUME TypeOK, DerivedInv, UNCHANGED <<chunks, overtaken>>, DocumentsStay,
         \A f \in Files : row'[f].st = "ready" => row[f].st = "ready",
         \A u \in Tasks : task'[u] = task[u] \/ task'[u].pc \notin Carrying
  PROVE  DerivedInv'
<1>1. StatusBacked'
  BY DEF DerivedInv, StatusBacked, DocumentsStay
<1>2. VectorsMatchText'
  BY DEF DerivedInv, VectorsMatchText
<1>3. \A u \in Tasks : task[u].pc \in Carrying => task[u].file \in Files
  BY DEF TypeOK, Carrying
<1>4. CutInv'
  BY <1>3 DEF DerivedInv, CutInv, DocumentsStay
<1> QED BY <1>1, <1>2, <1>4 DEF DerivedInv

\* A status other than 'ready' is written to the file, or nothing is.
LEMMA StatusStay ==
  ASSUME TypeOK, NEW f, NEW s, s # "ready", SetStatus(f, s) \/ row' = row
  PROVE  \A g \in Files : row'[g].st = "ready" => row[g].st = "ready"
<1>1. row \in [Files -> [st : Status, stale : BOOLEAN]]
  BY DEF TypeOK
<1> QED BY <1>1 DEF SetStatus

\* A task that moves on to a step that reads no document carries none.
LEMMA MoveEmpty ==
  ASSUME TypeOK, NEW t \in Tasks, NEW p, p \notin Carrying,
         Goto(t, p) \/ Finish(t) \/ Continue(t, p)
  PROVE  \A u \in Tasks : task'[u] = task[u] \/ task'[u].pc \notin Carrying
<1>1. "idle" \notin Carrying
  BY DEF Carrying
<1> QED BY <1>1, MoveStep

\* The same of the one task that moves.
LEMMA MoveOut ==
  ASSUME TypeOK, NEW t \in Tasks, NEW p, p \notin Carrying, Goto(t, p) \/ Finish(t)
  PROVE  task'[t].pc \notin Carrying
<1>1. task'[t].pc \in {p, "idle"}
  BY MoveStep
<1> QED BY <1>1 DEF Carrying

\* A request starts at a step that carries no document.
LEMMA RequestEmpty ==
  ASSUME TypeOK, NEW t \in Tasks, Request(t)
  PROVE  \A u \in Tasks : task'[u] = task[u] \/ task'[u].pc \notin Carrying
<1>1. task \in [Tasks -> TaskType]
  BY DEF TypeOK
<1>2. \/ task' = task
      \/ \E r : task' = [task EXCEPT ![t] = r] /\ r.pc \notin Carrying
  <2> DEFINE Started(r) == task' = [task EXCEPT ![t] = r] /\ r.pc \notin Carrying
  <2>1. ASSUME NEW f \in Files, NEW auto \in BOOLEAN, UploadPut(t, f, auto)
        PROVE  Started([Idle EXCEPT !.pc = "insert", !.file = f, !.auto = auto])
    BY <2>1 DEF UploadPut, Idle, Carrying
  <2>2. ASSUME NEW f \in Files, NEW o \in Outcomes, ParseClaim(t, f, o), task' # task
        PROVE  Started([Idle EXCEPT !.pc = "read", !.file = f])
    BY <2>2 DEF ParseClaim, Idle, Carrying
  <2>3. ASSUME NEW f \in Files, NEW o \in Outcomes, ChunkRequest(t, f, o), task' # task
        PROVE  Started([Idle EXCEPT !.pc = "load", !.file = f])
    BY <2>3 DEF ChunkRequest, Idle, Carrying
  <2>4. ASSUME NEW f \in Files, NEW o \in Outcomes, DeleteRow(t, f, o), task' # task
        PROVE  Started([Idle EXCEPT !.pc = "unlink", !.file = f])
    BY <2>4 DEF DeleteRow, Idle, Carrying
  <2>5. ASSUME NEW f \in Files, NEW ids \in SUBSET Indexes, EmbedRequest(t, f, ids)
        PROVE  Started([Idle EXCEPT !.pc = "embed", !.file = f,
                                    !.gen = chunks[f].gen, !.ids = ids])
    BY <2>5 DEF EmbedRequest, Idle, Carrying
  <2>6. ASSUME KbReadKeys(t)
        PROVE  Started([Idle EXCEPT !.pc = "drop", !.keys = {f \in Files : Exists(f)}])
    BY <2>6 DEF KbReadKeys, Idle, Carrying
  <2>7. ASSUME NEW f \in Files, UploadPutFails(t, f) PROVE task' = task
    BY <2>7 DEF UploadPutFails
  <2>8. ASSUME NEW r, Started(r)
        PROVE  \E q : task' = [task EXCEPT ![t] = q] /\ q.pc \notin Carrying
    BY <2>8
  <2> HIDE DEF Started
  <2> QED
    BY <2>1, <2>2, <2>3, <2>4, <2>5, <2>6, <2>7, <2>8 DEF Request
<1> QED BY <1>1, <1>2

\* A deletion takes document, chunks and status together.
LEMMA DeleteDerived ==
  ASSUME TypeOK, DerivedInv, NEW F, Delete(F), UNCHANGED overtaken,
         \A u \in Tasks : task'[u] = task[u] \/ task'[u].pc \notin Carrying
  PROVE  DerivedInv'
<1>1. \A f \in Files :
        \/ row'[f] = row[f] /\ parsed'[f] = parsed[f] /\ chunks'[f] = chunks[f]
        \/ /\ row'[f].st = "none" /\ parsed'[f].st = "none"
           /\ \A i \in Indexes : chunks'[f].vec[i] = 0
  BY DEF Delete, NoRow, NoParsed, NoChunks
<1>2. StatusBacked'
  BY <1>1 DEF DerivedInv, StatusBacked
<1>3. VectorsMatchText'
  BY <1>1 DEF DerivedInv, VectorsMatchText
<1>4. \A u \in Tasks : task[u].pc \in Carrying => task[u].file \in Files
  BY DEF TypeOK, Carrying
<1>5. CutInv'
  BY <1>1, <1>4 DEF DerivedInv, CutInv
<1> QED BY <1>2, <1>3, <1>5 DEF DerivedInv

\* A request starts no work before its checks, and deletes all or nothing.
LEMMA RequestDerived ==
  ASSUME TypeOK, DerivedInv, NEW t \in Tasks, Request(t)
  PROVE  DerivedInv'
<1>0. \A u \in Tasks : task'[u] = task[u] \/ task'[u].pc \notin Carrying
  BY RequestEmpty
<1>1. CASE UNCHANGED <<row, parsed, chunks, overtaken>>
  BY <1>0, <1>1, DerivedStay DEF DocumentsStay
<1>2. ASSUME NEW f \in Files, NEW o \in Outcomes, ParseClaim(t, f, o)
      PROVE  DerivedInv'
  <2>1. \A g \in Files : row'[g].st = "ready" => row[g].st = "ready"
    BY <1>2, StatusStay DEF ParseClaim
  <2> QED BY <1>0, <1>2, <2>1, DerivedStay DEF ParseClaim, DocumentsStay, claims
<1>3. ASSUME NEW f \in Files, NEW o \in Outcomes, ChunkRequest(t, f, o)
      PROVE  DerivedInv'
  <2>1. DocumentsStay
    BY <1>3 DEF ChunkRequest, ChunkClaimable, DocumentsStay, TypeOK
  <2> QED BY <1>0, <1>3, <2>1, DerivedStay DEF ChunkRequest
<1>4. ASSUME NEW f \in Files, NEW o \in Outcomes, DeleteRow(t, f, o)
      PROVE  DerivedInv'
  BY <1>0, <1>4, DeleteDerived DEF DeleteRow, claims
<1>5. \/ UNCHANGED <<row, parsed, chunks, overtaken>>
      \/ \E f \in Files, o \in Outcomes :
           ParseClaim(t, f, o) \/ ChunkRequest(t, f, o) \/ DeleteRow(t, f, o)
  BY DEF Request, UploadPut, UploadPutFails, EmbedRequest, KbReadKeys, db, claims
<1> QED BY <1>1, <1>2, <1>3, <1>4, <1>5

\* The steps that end, or go on to a step that carries no document.
LEMMA EmptyDerived ==
  ASSUME TypeOK, DerivedInv, NEW t \in Tasks, NEW o \in Outcomes,
         \/ UploadInsert(t, o) \/ UploadUndo(t, o) \/ DeleteBlob(t, o)
         \/ ProcessRead(t, o) \/ ProcessMark(t, o) \/ ProcessFail(t, o)
         \/ AutoChunkClaim(t, o) \/ ChunkFail(t, o) \/ EmbedCall(t) \/ KbCleaned(t)
         \/ KbDrop(t, o)
  PROVE  DerivedInv'
<1>1. \A u \in Tasks : task'[u] = task[u] \/ task'[u].pc \notin Carrying
  <2>1. \/ task' = task \/ Finish(t)
        \/ \E p \in {"undo", "read", "mark", "parse", "fail", "load", "chunkfail",
                     "store", "clean"} : Goto(t, p) \/ Continue(t, p)
    BY DEF UploadInsert, UploadUndo, DeleteBlob, Unlink, ProcessRead, ProcessMark,
       ProcessFail, AutoChunkClaim, ChunkFail, EmbedCall, KbCleaned, KbDrop
  <2>2. \A p \in {"undo", "read", "mark", "parse", "fail", "load", "chunkfail",
                  "store", "clean"} : p \notin Carrying
    BY DEF Carrying
  <2> QED BY <2>1, <2>2, MoveEmpty
<1>2. CASE UploadInsert(t, o)
  <2> DEFINE r == [st |-> "pending", stale |-> FALSE]
  <2>1. row' = row \/ row' = [row EXCEPT ![task[t].file] = r]
    BY <1>2 DEF UploadInsert
  <2>2. row \in [Files -> [st : Status, stale : BOOLEAN]] /\ r.st # "ready"
    BY DEF TypeOK
  <2>3. \A f \in Files : row'[f].st = "ready" => row[f].st = "ready"
    <3> HIDE DEF r
    <3> QED BY <2>1, <2>2
  <2> QED BY <1>1, <1>2, <2>3, DerivedStay DEF UploadInsert, DocumentsStay, claims
<1>3. CASE \/ UploadUndo(t, o) \/ DeleteBlob(t, o) \/ ProcessRead(t, o)
           \/ EmbedCall(t) \/ KbCleaned(t)
  BY <1>1, <1>3, DerivedStay DEF UploadUndo, DeleteBlob, Unlink, ProcessRead,
     EmbedCall, KbCleaned, db, claims, DocumentsStay
<1>4. CASE ProcessMark(t, o) \/ ProcessFail(t, o)
  <2>1. \A f \in Files : row'[f].st = "ready" => row[f].st = "ready"
    BY <1>4, StatusStay DEF ProcessMark, ProcessFail
  <2> QED BY <1>1, <1>4, <2>1, DerivedStay DEF ProcessMark, ProcessFail, claims, DocumentsStay
<1>5. CASE AutoChunkClaim(t, o) \/ ChunkFail(t, o)
  <2>1. DocumentsStay
    <3>1. CASE AutoChunkClaim(t, o)
      BY <3>1 DEF AutoChunkClaim, ChunkClaimable, DocumentsStay, TypeOK
    <3>2. CASE ChunkFail(t, o)
      <4>1. parsed' = parsed \/ parsed' = [parsed EXCEPT ![task[t].file].st = "failed"]
        BY <3>2 DEF ChunkFail, SetChunkStatus
      <4>2. parsed[task[t].file].st # "none" \/ parsed' = parsed
        BY <3>2 DEF ChunkFail, SetChunkStatus
      <4>3. task[t].file \in Files
        BY <3>2 DEF ChunkFail, At, TypeOK
      <4> QED BY <4>1, <4>2, <4>3 DEF DocumentsStay, TypeOK
    <3> QED BY <1>5, <3>1, <3>2
  <2> QED BY <1>1, <1>5, <2>1, DerivedStay DEF AutoChunkClaim, ChunkFail
<1>6. CASE KbDrop(t, o)
  BY <1>1, <1>6, DerivedStay, DeleteDerived DEF KbDrop, db, claims, DocumentsStay
<1> QED BY <1>2, <1>3, <1>4, <1>5, <1>6

\* A task reads the stored document, and keeps what it read.
LEMMA CarryDerived ==
  ASSUME TypeOK, DerivedInv, NEW t \in Tasks,
         \/ ProcessParse(t) \/ ChunkLoad(t) \/ ChunkClear(t)
         \/ \E o \in Outcomes : AutoEmbedPick(t, o) \/ \E f \in Files : KbClean(t, f, o)
  PROVE  DerivedInv'
<1>0. /\ UNCHANGED <<row, parsed, chunks, overtaken>> /\ DocumentsStay
      /\ task[t] \in TaskType /\ task \in [Tasks -> TaskType]
      /\ \A u \in Tasks \ {t} : task'[u] = task[u]
  <2>1. UNCHANGED <<row, parsed, chunks, overtaken>>
    BY DEF ProcessParse, ChunkLoad, ChunkClear, AutoEmbedPick, KbClean, db, claims
  <2>2. Step(t)
    BY DEF Step
  <2> QED BY <2>1, <2>2, OneTaskMoves DEF DocumentsStay, TypeOK
<1>1. CASE task'[t].pc \notin Carrying
  BY <1>0, <1>1, DerivedStay
<1>2. CASE task'[t].pc \in Carrying
  <2>1. parsed[task'[t].file].st # "none" =>
          \/ task'[t].doc = parsed[task'[t].file].doc
          \/ task'[t].file \in overtaken
    <3>1. CASE ProcessParse(t)
      <4>1. /\ ~Goto(t, "fail") /\ ~Goto(t, "save")
        BY <1>2, MoveOut DEF Carrying
      <4> QED BY <3>1, <4>1 DEF ProcessParse
    <3>2. CASE ChunkLoad(t)
      <4>1. ~Goto(t, "chunkfail")
        BY <1>2, MoveOut DEF Carrying
      <4>2. task' = [task EXCEPT ![t] = [@ EXCEPT !.pc = "clear",
                                                  !.doc = parsed[task[t].file].doc]]
        BY <3>2, <4>1 DEF ChunkLoad
      <4>3. /\ task'[t].pc = "clear" /\ task'[t].doc = parsed[task[t].file].doc
            /\ task'[t].file = task[t].file
        BY <1>0, <4>2 DEF TaskType
      <4> QED BY <4>3
    <3>3. CASE ChunkClear(t)
      <4>1. task' = [task EXCEPT ![t] = [@ EXCEPT !.pc = "write",
                                                  !.gen = chunks[task[t].file].gen]]
        BY <3>3 DEF ChunkClear
      <4>2. /\ task'[t].pc = "write" /\ task'[t].doc = task[t].doc
            /\ task'[t].file = task[t].file /\ task[t].pc = "clear"
        BY <1>0, <3>3, <4>1 DEF TaskType, ChunkClear, At
      <4> QED BY <4>2 DEF DerivedInv, CutInv, Carrying
    <3>4. ASSUME NEW o \in Outcomes, AutoEmbedPick(t, o) PROVE FALSE
      <4>1. ~Goto(t, "chunkfail") /\ ~Finish(t)
        BY <1>2, MoveOut DEF Carrying
      <4>2. task' = [task EXCEPT ![t] = [@ EXCEPT !.pc = "embed",
                                                  !.gen = chunks[task[t].file].gen,
                                                  !.ids = Unembedded(task[t].file)]]
        BY <3>4, <4>1 DEF AutoEmbedPick
      <4>3. task'[t].pc = "embed"
        BY <1>0, <4>2 DEF TaskType
      <4> QED BY <1>2, <4>3 DEF Carrying
    <3>5. ASSUME NEW o \in Outcomes, NEW f \in Files, KbClean(t, f, o) PROVE FALSE
      <4>1. task'[t].pc = "clean"
        BY <1>0, <3>5 DEF KbClean, At, TaskType
      <4> QED BY <1>2, <4>1 DEF Carrying
    <3> QED BY <3>1, <3>2, <3>3, <3>4, <3>5
  <2>2. StatusBacked' /\ VectorsMatchText'
    BY <1>0 DEF DerivedInv, StatusBacked, VectorsMatchText
  <2>3. CutInv'
    BY <1>0, <2>1 DEF DerivedInv, CutInv
  <2> QED BY <2>2, <2>3 DEF DerivedInv
<1> QED BY <1>1, <1>2

\* No chunks are promised yet for the document that is saved, and the tasks that
\* are cutting the one before it are overtaken.
LEMMA SaveDerived ==
  ASSUME TypeOK, DerivedInv, NEW t \in Tasks, NEW o \in Outcomes, ProcessSave(t, o)
  PROVE  DerivedInv'
<1> DEFINE d == task[t].file
<1>1. UNCHANGED chunks /\ d \in Files
  BY DEF ProcessSave, At, TypeOK
<1>2. \A u \in Tasks : task'[u] = task[u] \/ task'[u].pc \notin Carrying
  <2>1. Goto(t, "fail") \/ Continue(t, "claim")
    BY DEF ProcessSave
  <2>2. "fail" \notin Carrying /\ "claim" \notin Carrying
    BY DEF Carrying
  <2> QED BY <2>1, <2>2, MoveEmpty
<1>3. CASE UNCHANGED <<parsed, row, overtaken>>
  BY <1>1, <1>2, <1>3, DerivedStay DEF DocumentsStay
<1>4. CASE /\ Exists(d) /\ SetStatus(d, "ready")
           /\ parsed' = [parsed EXCEPT ![d] = [st |-> "pending",
                                              doc |-> parsed[d].doc + 1]]
           /\ overtaken' = IF \E u \in Tasks : Cutting(u, d)
                           THEN overtaken \cup {d} ELSE overtaken \ {d}
  <2>1. /\ parsed'[d].st = "pending"
        /\ \A f \in Files \ {d} : /\ parsed'[f] = parsed[f] /\ row'[f] = row[f]
                                  /\ f \in overtaken => f \in overtaken'
    BY <1>1, <1>4 DEF TypeOK, SetStatus
  <2>2. StatusBacked'
    BY <1>1, <2>1 DEF DerivedInv, StatusBacked
  <2>3. VectorsMatchText'
    BY <1>1 DEF DerivedInv, VectorsMatchText
  <2>4. \A u \in Tasks : task[u].pc \in Carrying => task[u].file \in Files
    BY DEF TypeOK, Carrying
  <2>5. \A u \in Tasks : task[u].pc \in Carrying /\ task[u].file = d => d \in overtaken'
    BY <1>4 DEF Cutting, Carrying
  <2>6. CutInv'
    BY <1>2, <2>1, <2>4, <2>5 DEF DerivedInv, CutInv
  <2> QED BY <2>2, <2>3, <2>6 DEF DerivedInv
<1> QED BY <1>3, <1>4 DEF ProcessSave

\* Chunks are written with vectors to come, cut from the stored document unless
\* their task was overtaken.
LEMMA ChunkWriteDerived ==
  ASSUME TypeOK, DerivedInv, NEW t \in Tasks, NEW o \in Outcomes, ChunkWrite(t, o)
  PROVE  DerivedInv'
<1> DEFINE d == task[t].file
<1>1. /\ UNCHANGED <<row, overtaken>> /\ d \in Files
      /\ parsed[d].st # "none" => task[t].doc = parsed[d].doc \/ d \in overtaken
  BY DEF ChunkWrite, At, TypeOK, DerivedInv, CutInv, Carrying, claims
<1>2. \A u \in Tasks : task'[u] = task[u] \/ task'[u].pc \notin Carrying
  <2>1. Goto(t, "chunkfail") \/ Continue(t, "pick")
    BY DEF ChunkWrite
  <2>2. "chunkfail" \notin Carrying /\ "pick" \notin Carrying
    BY DEF Carrying
  <2> QED BY <2>1, <2>2, MoveEmpty
<1>3. CASE UNCHANGED <<chunks, parsed>>
  BY <1>1, <1>2, <1>3, DerivedStay DEF DocumentsStay
<1>4. CASE /\ SetChunkStatus(d, "ready")
           /\ chunks' = [chunks EXCEPT ![d] =
                [gen |-> chunks[d].gen + 1, doc |-> task[t].doc,
                 vec |-> [i \in Indexes |-> 0]]]
  <2>1. /\ chunks'[d].gen = chunks[d].gen + 1 /\ chunks'[d].doc = task[t].doc
        /\ \A i \in Indexes : chunks'[d].vec[i] = 0
        /\ \A f \in Files \ {d} : chunks'[f] = chunks[f]
    <3> DEFINE c == [gen |-> chunks[d].gen + 1, doc |-> task[t].doc,
                     vec |-> [i \in Indexes |-> 0]]
    <3>1. c.gen = chunks[d].gen + 1 /\ c.doc = task[t].doc
          /\ \A i \in Indexes : c.vec[i] = 0
      OBVIOUS
    <3>2. chunks' = [chunks EXCEPT ![d] = c]
      BY <1>4
    <3> HIDE DEF c
    <3>3. chunks'[d] = c /\ \A f \in Files \ {d} : chunks'[f] = chunks[f]
      BY <1>1, <3>2 DEF TypeOK
    <3> QED BY <3>1, <3>3
  <2>2. /\ \A f \in Files : parsed'[f].doc = parsed[f].doc
        /\ \A f \in Files : parsed'[f].st = "none" <=> parsed[f].st = "none"
        /\ \A f \in Files \ {d} : parsed'[f] = parsed[f]
    BY <1>1, <1>4 DEF TypeOK, SetChunkStatus
  <2>3. chunks[d].gen \in Nat
    BY <1>1 DEF TypeOK
  <2>4. StatusBacked'
    BY <1>1, <2>1, <2>2, <2>3 DEF DerivedInv, StatusBacked
  <2>5. VectorsMatchText'
    BY <2>1 DEF DerivedInv, VectorsMatchText
  <2>6. \A u \in Tasks : task[u].pc \in Carrying => task[u].file \in Files
    BY DEF TypeOK, Carrying
  <2>7. CutInv'
    BY <1>1, <1>2, <2>2, <2>6 DEF DerivedInv, CutInv
  <2> QED BY <2>4, <2>5, <2>7 DEF DerivedInv
<1> QED BY <1>3, <1>4 DEF ChunkWrite

\* Vectors are stored for the very rows whose texts were embedded.
LEMMA EmbedDerived ==
  ASSUME TypeOK, DerivedInv, NEW t \in Tasks, NEW o \in Outcomes, EmbedStore(t, o)
  PROVE  DerivedInv'
<1> DEFINE d == task[t].file
<1>1. UNCHANGED <<row, parsed, overtaken>> /\ d \in Files
  BY DEF EmbedStore, At, TypeOK, claims
<1>2. \A u \in Tasks : task'[u] = task[u] \/ task'[u].pc \notin Carrying
  <2>1. Finish(t) \/ Continue(t, "chunkfail")
    BY DEF EmbedStore
  <2>2. "chunkfail" \notin Carrying
    BY DEF Carrying
  <2> QED BY <2>1, <2>2, MoveEmpty
<1>3. CASE UNCHANGED chunks
  BY <1>1, <1>2, <1>3, DerivedStay DEF DocumentsStay
<1>4. CASE /\ chunks[d].gen = task[t].gen
           /\ chunks' = [chunks EXCEPT ![d].vec =
                [i \in Indexes |-> IF i \in task[t].ids THEN task[t].gen
                                   ELSE chunks[d].vec[i]]]
  <2>1. /\ \A f \in Files : chunks'[f].gen = chunks[f].gen /\ chunks'[f].doc = chunks[f].doc
        /\ \A f \in Files \ {d} : chunks'[f] = chunks[f]
        /\ \A i \in Indexes : chunks'[d].vec[i] \in {chunks[d].gen, chunks[d].vec[i]}
    BY <1>1, <1>4 DEF TypeOK
  <2>2. StatusBacked'
    BY <1>1, <2>1 DEF DerivedInv, StatusBacked
  <2>3. VectorsMatchText'
    BY <2>1 DEF DerivedInv, VectorsMatchText
  <2>4. CutInv'
    BY <1>1, <1>2 DEF DerivedInv, CutInv
  <2> QED BY <2>2, <2>3, <2>4 DEF DerivedInv
<1> QED BY <1>3, <1>4 DEF EmbedStore, Present

\* Every step keeps documents, chunks, vectors and statuses together.
LEMMA DerivedStep == ASSUME TypeOK, DerivedInv, [Next]_vars PROVE DerivedInv'
<1>1. ASSUME NEW t \in Tasks, Step(t) PROVE DerivedInv'
  BY <1>1, EmptyDerived, CarryDerived, SaveDerived, ChunkWriteDerived, EmbedDerived,
     Zenon DEF Step, Outcomes
<1>2. CASE ListFiles \/ \E f \in Files : GoStale(f)
  <2>1. \A f \in Files : row'[f].st = "ready" => row[f].st = "ready"
    <3>1. CASE ListFiles
      BY <3>1 DEF ListFiles
    <3>2. ASSUME NEW g \in Files, GoStale(g)
          PROVE  \A f \in Files : row'[f].st = row[f].st
      BY <3>2 DEF GoStale, TypeOK
    <3> QED BY <1>2, <3>1, <3>2
  <2> QED BY <1>2, <2>1, DerivedStay DEF ListFiles, GoStale, DocumentsStay, claims
<1>3. ASSUME Restart PROVE DerivedInv'
  <2>1. /\ UNCHANGED <<row, parsed, chunks, overtaken>>
        /\ \A u \in Tasks : task'[u].pc = "idle"
    BY <1>3 DEF Restart, db, Idle
  <2>2. StatusBacked' /\ VectorsMatchText'
    BY <2>1 DEF DerivedInv, StatusBacked, VectorsMatchText
  <2>3. CutInv'
    BY <2>1 DEF CutInv, Carrying
  <2> QED BY <2>2, <2>3 DEF DerivedInv
<1>4. CASE UNCHANGED vars
  BY <1>4 DEF vars, DerivedInv, StatusBacked, VectorsMatchText, CutInv
<1> QED BY <1>1, <1>2, <1>3, <1>4, RequestDerived DEF Next

\* Documents, chunks and vectors belong together in every reachable state, and
\* so do the chunks that are on their way.
THEOREM DerivedCorrect == Spec => []DerivedInv
<1>1. Init => DerivedInv
  BY DEF Init, NoRow, NoParsed, NoChunks, Idle, DerivedInv, StatusBacked,
     VectorsMatchText, CutInv, Carrying
<1>2. TypeOK /\ DerivedInv /\ [Next]_vars => DerivedInv'
  BY DerivedStep
<1> QED BY <1>1, <1>2, TypeCorrect, PTL DEF Spec

\* Whatever parsing, chunking, embedding and deletion overlap: a file's
\* document, chunks and vectors are its own, and its statuses promise no more
\* than there is.
THEOREM DerivedDataKept == Spec => []DerivedDataHolds
<1>1. ChildrenHaveFile /\ DerivedInv => DerivedDataHolds
  BY DEF DerivedInv, DerivedDataHolds
<1> QED BY <1>1, DerivedCorrect, OwnershipKept, PTL

-----------------------------------------------------------------------------
(* Chunk claims                                                             *)

ClaimSteps == {"load", "clear", "write", "chunkfail"}

\* A chunk claim on f that stands after a step stood before it, and whoever
\* held it, a task or a fault, still does.
ClaimStays(f) ==
    parsed'[f].st = "processing" =>
        /\ parsed[f].st = "processing"
        /\ f \in abandoned => f \in abandoned'
        /\ \A u \in Tasks : Claiming(u, f) => Claiming(u, f)'

\* A step that leaves every claim to its holder or hands it to another one.
LEMMA ClaimsStay ==
  ASSUME ChunkClaimsHeld,
         \A f \in Files : \/ ClaimStays(f)
                         \/ f \in abandoned'
                         \/ \E u \in Tasks : Claiming(u, f)'
  PROVE  ChunkClaimsHeld'
BY DEF ChunkClaimsHeld, ClaimStays

\* A task that is at no step of a claim moves, and leaves claims alone.
LEMMA ClaimQuiet ==
  ASSUME TypeOK, NEW t \in Tasks, NEW f \in Files,
         \A u \in Tasks \ {t} : task'[u] = task[u],
         task[t].pc \notin ClaimSteps \/ task[t].file # f,
         parsed'[f].st = "processing" => parsed[f].st = "processing",
         f \in abandoned => f \in abandoned'
  PROVE  ClaimStays(f)
BY DEF ClaimStays, Claiming, ClaimSteps

\* Requests claim what nobody holds, or leave the claim to a fault.
LEMMA RequestClaims ==
  ASSUME TypeOK, ChunkClaimsHeld, NEW t \in Tasks, Request(t)
  PROVE  ChunkClaimsHeld'
<1>1. /\ \A u \in Tasks \ {t} : task'[u] = task[u]
      /\ task[t].pc \notin ClaimSteps /\ task \in [Tasks -> TaskType]
  <2>1. task[t] = Idle
    BY DEF Request, UploadPut, UploadPutFails, ParseClaim, ChunkRequest, DeleteRow,
       EmbedRequest, KbReadKeys, Accept
  <2> QED BY <2>1, OneTaskMoves DEF Idle, ClaimSteps, TypeOK
<1>2. ASSUME NEW f \in Files, NEW o \in Outcomes, ChunkRequest(t, f, o)
      PROVE  ChunkClaimsHeld'
  <2>1. f \in abandoned' \/ Claiming(t, f)'
    <3>1. CASE o = "ok"
      <4>1. task'[t].pc = "load" /\ task'[t].file = f
        BY <1>1, <1>2, <3>1 DEF ChunkRequest, Idle
      <4> QED BY <4>1 DEF Claiming
    <3> QED BY <1>2, <3>1 DEF ChunkRequest
  <2>2. \A g \in Files \ {f} : ClaimStays(g)
    BY <1>1, <1>2, ClaimQuiet DEF ChunkRequest, TypeOK
  <2> QED BY <2>1, <2>2, ClaimsStay
<1>3. CASE UNCHANGED abandoned /\ \A f \in Files :
             parsed'[f].st = "processing" => parsed[f].st = "processing"
  BY <1>1, <1>3, ClaimQuiet, ClaimsStay
<1>4. \/ \E f \in Files, o \in Outcomes : ChunkRequest(t, f, o)
      \/ /\ UNCHANGED abandoned
         /\ \A f \in Files : parsed'[f].st = "processing" => parsed[f].st = "processing"
  <2>1. ASSUME NEW f \in Files, NEW o \in Outcomes, DeleteRow(t, f, o)
        PROVE  \A g \in Files : parsed'[g].st = "processing" => parsed[g].st = "processing"
    BY <2>1 DEF DeleteRow, Delete, NoParsed
  <2>2. ASSUME NEW f \in Files, NEW o \in Outcomes, DeleteRow(t, f, o)
        PROVE  UNCHANGED abandoned
    BY <2>2 DEF DeleteRow, claims
  <2>3. \/ \E f \in Files, o \in Outcomes : ChunkRequest(t, f, o) \/ DeleteRow(t, f, o)
        \/ UNCHANGED <<parsed, abandoned>>
    BY DEF Request, UploadPut, UploadPutFails, ParseClaim, EmbedRequest, KbReadKeys,
       claims, db
  <2> QED BY <2>1, <2>2, <2>3
<1> QED BY <1>2, <1>3, <1>4

\* A task at a step of its claim goes on to another one, or writes the status
\* with which the claim ends.
LEMMA HolderClaims ==
  ASSUME TypeOK, ChunkClaimsHeld, NEW t \in Tasks, Step(t), task[t].pc \in ClaimSteps
  PROVE  ChunkClaimsHeld'
<1>0. PICK d \in Files : d = task[t].file
  BY DEF ClaimSteps, TypeOK
<1>1. /\ \A u \in Tasks \ {t} : task'[u] = task[u]
      /\ task \in [Tasks -> TaskType]
      /\ parsed \in [Files -> [st : Status, doc : Nat]]
  BY OneTaskMoves DEF TypeOK
<1>2. ASSUME abandoned \subseteq abandoned',
             \A g \in Files \ {d} :
                parsed'[g].st = "processing" => parsed[g].st = "processing",
             \/ parsed'[d].st # "processing" \/ d \in abandoned' \/ Claiming(t, d)'
      PROVE  ChunkClaimsHeld'
  <2>1. \A g \in Files \ {d} : ClaimStays(g)
    BY <1>0, <1>1, <1>2, ClaimQuiet
  <2>2. ClaimStays(d) \/ d \in abandoned' \/ Claiming(t, d)'
    BY <1>0, <1>2 DEF ClaimStays
  <2> QED BY <2>1, <2>2, ClaimsStay
<1>3. ASSUME NEW p \in ClaimSteps, Goto(t, p) PROVE Claiming(t, d)'
  <2>1. task'[t] = [task[t] EXCEPT !.pc = p]
    BY <1>0, <1>1, <1>3 DEF Goto
  <2>2. task'[t].pc = p /\ task'[t].file = d
    BY <1>0, <1>1, <2>1 DEF TaskType
  <2> QED BY <1>0, <2>2 DEF Claiming, ClaimSteps
<1>4. CASE ChunkLoad(t) \/ ChunkClear(t)
  <2>1. UNCHANGED <<parsed, abandoned>>
    BY <1>0, <1>4 DEF ChunkLoad, ChunkClear, db, claims
  <2>2. CASE Goto(t, "chunkfail")
    BY <1>0, <1>2, <1>3, <2>1, <2>2 DEF ClaimSteps
  <2>3. CASE \/ task' = [task EXCEPT ![t] = [@ EXCEPT !.pc = "clear",
                                                     !.doc = parsed[d].doc]]
             \/ task' = [task EXCEPT ![t] = [@ EXCEPT !.pc = "write",
                                                     !.gen = chunks[d].gen]]
    <3>1. task'[t].pc \in {"clear", "write"} /\ task'[t].file = d
      BY <1>0, <1>1, <2>3 DEF TaskType
    <3>2. Claiming(t, d)'
      BY <3>1 DEF Claiming
    <3> QED BY <1>0, <1>2, <2>1, <3>2
  <2> QED BY <1>0, <1>4, <2>2, <2>3 DEF ChunkLoad, ChunkClear
<1>5. ASSUME NEW o \in Outcomes, ChunkWrite(t, o) PROVE ChunkClaimsHeld'
  <2>1. UNCHANGED abandoned
    BY <1>0, <1>5 DEF ChunkWrite, claims
  <2>2. CASE Goto(t, "chunkfail")
    <3>1. \A g \in Files \ {d} : parsed'[g] = parsed[g]
      BY <1>0, <1>1, <1>5 DEF ChunkWrite, SetChunkStatus
    <3> QED BY <1>0, <1>2, <1>3, <2>1, <2>2, <3>1 DEF ClaimSteps
  <2>3. CASE SetChunkStatus(d, "ready")
    <3>1. /\ parsed'[d].st # "processing"
          /\ \A g \in Files \ {d} : parsed'[g] = parsed[g]
      BY <1>0, <1>1, <2>3 DEF SetChunkStatus
    <3> QED BY <1>0, <1>2, <2>1, <3>1
  <2> QED BY <1>0, <1>5, <2>2, <2>3 DEF ChunkWrite, Applied
<1>6. ASSUME NEW o \in Outcomes, ChunkFail(t, o) PROVE ChunkClaimsHeld'
  <2>1. /\ \A g \in Files \ {d} : parsed'[g] = parsed[g]
        /\ abandoned \subseteq abandoned'
    BY <1>0, <1>1, <1>6 DEF ChunkFail, SetChunkStatus
  <2>2. CASE o = "error"
    <3>1. d \in abandoned'
      BY <1>0, <1>6, <2>2 DEF ChunkFail
    <3> QED BY <1>0, <1>2, <2>1, <3>1
  <2>3. CASE o = "ok"
    <3>1. parsed'[d].st # "processing"
      BY <1>0, <1>1, <1>6, <2>3 DEF ChunkFail, SetChunkStatus, Applied
    <3> QED BY <1>0, <1>2, <2>1, <3>1
  <2>4. CASE o \in {"down", "lost"}
    <3>1. Claiming(t, d)'
      BY <1>0, <1>6, <2>4 DEF ChunkFail, Claiming, At
    <3> QED BY <1>0, <1>2, <2>1, <3>1
  <2> QED BY <2>2, <2>3, <2>4 DEF Outcomes
<1>7. \/ ChunkLoad(t) \/ ChunkClear(t)
      \/ \E o \in Outcomes : ChunkWrite(t, o) \/ ChunkFail(t, o)
  BY DEF Step, UploadInsert, UploadUndo, DeleteBlob, Unlink, ProcessRead, ProcessMark,
     ProcessSave, ProcessFail, AutoChunkClaim, AutoEmbedPick, EmbedStore, KbDrop,
     KbClean, ProcessParse, EmbedCall, KbCleaned, At, ClaimSteps
<1> QED BY <1>0, <1>4, <1>5, <1>6, <1>7

\* The other steps of a task claim what nobody holds, or no chunks at all.
LEMMA OtherClaims ==
  ASSUME TypeOK, ChunkClaimsHeld, NEW t \in Tasks, Step(t), task[t].pc \notin ClaimSteps
  PROVE  ChunkClaimsHeld'
<1>1. /\ \A u \in Tasks \ {t} : task'[u] = task[u]
      /\ task \in [Tasks -> TaskType]
      /\ parsed \in [Files -> [st : Status, doc : Nat]]
  BY OneTaskMoves DEF TypeOK
<1>2. ASSUME UNCHANGED abandoned,
             \A f \in Files : parsed'[f].st = "processing" => parsed[f].st = "processing"
      PROVE  ChunkClaimsHeld'
  BY <1>1, <1>2, ClaimQuiet, ClaimsStay
<1>3. ASSUME NEW o \in Outcomes, AutoChunkClaim(t, o) PROVE ChunkClaimsHeld'
  <2>0. PICK d \in Files : d = task[t].file
    BY <1>3 DEF AutoChunkClaim, At, TypeOK
  <2>1. CASE ChunkClaimable(d)
    <3>1. \A g \in Files \ {d} :
             /\ parsed'[g] = parsed[g]
             /\ g \in abandoned => g \in abandoned'
      BY <1>1, <1>3, <2>0 DEF AutoChunkClaim
    <3>2. \A g \in Files \ {d} : ClaimStays(g)
      <4> TAKE g \in Files \ {d}
      <4>1. /\ g \in Files /\ (g \in abandoned => g \in abandoned')
            /\ parsed'[g].st = "processing" => parsed[g].st = "processing"
        BY <3>1
      <4> QED BY <1>1, <4>1, ClaimQuiet
    <3>3. Goto(t, "chunkfail") \/ Goto(t, "load")
      BY <1>3, <2>0, <2>1 DEF AutoChunkClaim
    <3>4. task'[t].pc \in {"load", "chunkfail"} /\ task'[t].file = d
      BY <1>1, <2>0, <3>3 DEF Goto, TaskType
    <3>5. Claiming(t, d)'
      BY <3>4 DEF Claiming
    <3> QED BY <3>2, <3>5, ClaimsStay
  <2>2. CASE ~ChunkClaimable(d)
    BY <1>2, <1>3, <2>0, <2>2 DEF AutoChunkClaim
  <2> QED BY <2>1, <2>2
<1>4. ASSUME NEW o \in Outcomes, ProcessSave(t, o) PROVE ChunkClaimsHeld'
  <2>0. PICK d \in Files : d = task[t].file
    BY <1>4 DEF ProcessSave, At, TypeOK
  <2>1. UNCHANGED abandoned
    BY <1>4 DEF ProcessSave
  <2> DEFINE r == [st |-> "pending", doc |-> parsed[d].doc + 1]
  <2>2. parsed' = parsed \/ parsed' = [parsed EXCEPT ![d] = r]
    BY <1>4, <2>0 DEF ProcessSave
  <2>3. r.st # "processing"
    OBVIOUS
  <2>4. \A f \in Files : parsed'[f].st = "processing" => parsed[f].st = "processing"
    <3> HIDE DEF r
    <3> QED BY <1>1, <2>2, <2>3
  <2> QED BY <1>2, <2>1, <2>4
<1>5. CASE \E o \in Outcomes : KbDrop(t, o)
  BY <1>2, <1>5 DEF KbDrop, Delete, NoParsed, db, claims
<1>6. \/ \E o \in Outcomes : AutoChunkClaim(t, o) \/ ProcessSave(t, o) \/ KbDrop(t, o)
      \/ UNCHANGED <<parsed, abandoned>>
  BY DEF Step, UploadInsert, UploadUndo, DeleteBlob, Unlink, ProcessRead, ProcessMark,
     ProcessFail, ChunkWrite, ChunkFail, AutoEmbedPick, EmbedStore, KbClean,
     ProcessParse, ChunkLoad, ChunkClear, EmbedCall, KbCleaned, At, ClaimSteps, db, claims
<1> QED BY <1>2, <1>3, <1>4, <1>5, <1>6

\* A chunk claim, which nothing but a status update ends, is never forgotten by
\* a path of the code: a task is at work that will replace it, or a fault of the
\* claim, of its last update or of the process left it to nobody.
THEOREM ChunkClaimsKept == Spec => []ChunkClaimsHeld
<1>1. Init => ChunkClaimsHeld
  BY DEF Init, ChunkClaimsHeld, NoParsed
<1>2. TypeOK /\ ChunkClaimsHeld /\ [Next]_vars => ChunkClaimsHeld'
  <2> SUFFICES ASSUME TypeOK, ChunkClaimsHeld, [Next]_vars PROVE ChunkClaimsHeld'
    OBVIOUS
  <2>1. ASSUME NEW t \in Tasks, Request(t) \/ Step(t) PROVE ChunkClaimsHeld'
    BY <2>1, RequestClaims, HolderClaims, OtherClaims
  <2>2. CASE Restart
    <3>1. \A f \in Files : (\E t \in Tasks : Claiming(t, f)) => f \in abandoned'
      BY <2>2 DEF Restart
    <3>2. UNCHANGED parsed /\ abandoned \subseteq abandoned'
      BY <2>2 DEF Restart, db
    <3> QED BY <3>1, <3>2 DEF ChunkClaimsHeld
  <2>3. CASE ListFiles \/ (\E f \in Files : GoStale(f)) \/ UNCHANGED vars
    BY <2>3 DEF ListFiles, GoStale, vars, claims, ChunkClaimsHeld, Claiming
  <2> QED BY <2>1, <2>2, <2>3 DEF Next
<1> QED BY <1>1, <1>2, TypeCorrect, PTL DEF Spec

-----------------------------------------------------------------------------
(* Objects without a row                                                    *)

\* The steps that still have the object of their own file to insert or remove.
Holding == {"insert", "undo", "unlink"}

\* An object whose file has no row is held by a handler of that very file or
\* was left by a fault.  The keys that a deletion of the base has read count for
\* nothing here: it may give up and keep the base.
ObjectsOwned ==
    kb => \A f \in blob : \/ Exists(f) \/ f \in leaked
                           \/ \E t \in Tasks : task[t].pc \in Holding /\ task[t].file = f

\* A step that adds no object, removes no row and forgets no leak, and in which
\* the handlers of objects stay, accounts for every object.
LEMMA OwnedStay ==
  ASSUME ObjectsOwned, kb' => kb, blob' \subseteq blob, leaked \subseteq leaked',
         \A f \in blob : Exists(f) => Exists(f)',
         \A u \in Tasks : task[u].pc \in Holding => task'[u] = task[u]
  PROVE  ObjectsOwned'
  BY DEF ObjectsOwned

\* The one task that moves lets go of nothing when it holds nothing.
LEMMA OthersHold ==
  ASSUME TypeOK, NEW t \in Tasks, Request(t) \/ Step(t),
         task[t].pc \notin Holding \/ task' = task
  PROVE  \A u \in Tasks : task[u].pc \in Holding => task'[u] = task[u]
  BY OneTaskMoves

\* A status update keeps the rows.
LEMMA RowsStay ==
  ASSUME TypeOK, NEW f, NEW s \in Status \ {"none"}, SetStatus(f, s) \/ row' = row
  PROVE  \A g \in Files : Exists(g) => Exists(g)'
<1>1. row \in [Files -> [st : Status, stale : BOOLEAN]]
  BY DEF TypeOK
<1> QED BY <1>1 DEF SetStatus, Exists

\* An idle task is the idle record.
LEMMA AcceptedIdle ==
  ASSUME NEW t, Accept(t)
  PROVE  task[t].pc = "idle"
  BY IdleType DEF Accept

\* A request puts the object of the upload it goes on with, leaves one to a
\* fault, or takes over the object of the row it deletes.
LEMMA RequestOwned ==
  ASSUME TypeOK, ObjectsOwned, NEW t \in Tasks, Request(t)
  PROVE  ObjectsOwned'
<1> USE DEF Holding
<1>1. Accept(t)
  BY DEF Request, UploadPut, UploadPutFails, ParseClaim, ChunkRequest, DeleteRow,
     EmbedRequest, KbReadKeys
<1>2. /\ \A u \in Tasks : task[u].pc \in Holding => task'[u] = task[u]
      /\ task \in [Tasks -> TaskType] /\ blob \subseteq Files
  <2>1. task[t].pc \notin Holding
    BY <1>1, AcceptedIdle
  <2> QED BY <2>1, OthersHold DEF TypeOK
<1>3. ASSUME NEW f \in Files, NEW auto \in BOOLEAN, UploadPut(t, f, auto)
      PROVE  ObjectsOwned'
  <2>1. /\ task'[t].pc = "insert" /\ task'[t].file = f /\ kb' = kb /\ row' = row
        /\ blob' = blob \cup {f} /\ leaked' = leaked
    BY <1>2, <1>3 DEF UploadPut, Idle, db
  <2> QED BY <1>2, <2>1 DEF ObjectsOwned, Exists
<1>4. ASSUME NEW f \in Files, UploadPutFails(t, f) PROVE ObjectsOwned'
  <2>1. /\ kb' = kb /\ row' = row /\ task' = task
        /\ \/ blob' = blob \cup {f} /\ leaked' = leaked \cup {f}
           \/ UNCHANGED <<blob, leaked>>
    BY <1>4 DEF UploadPutFails, db
  <2> QED BY <2>1 DEF ObjectsOwned, Exists
<1>5. ASSUME NEW f \in Files, NEW o \in Outcomes, DeleteRow(t, f, o)
      PROVE  ObjectsOwned'
  <2>1. /\ kb' = kb /\ blob' = blob /\ leaked \subseteq leaked'
        /\ \A g \in Files \ {f} : row'[g] = row[g]
    BY <1>5 DEF DeleteRow, Delete
  <2>2. f \in leaked' \/ (task'[t].pc = "unlink" /\ task'[t].file = f)
    BY <1>2, <1>5 DEF DeleteRow, Idle
  <2>3. ASSUME NEW g \in blob', kb'
        PROVE  \/ Exists(g)' \/ g \in leaked'
               \/ \E u \in Tasks : task'[u].pc \in Holding /\ task'[u].file = g
    <3>1. CASE g = f
      BY <2>2, <3>1
    <3>2. CASE g # f
      BY <1>2, <2>1, <2>3, <3>2 DEF ObjectsOwned, Exists
    <3> QED BY <3>1, <3>2
  <2> QED BY <2>3 DEF ObjectsOwned
<1>6. ASSUME NEW f \in Files, NEW o \in Outcomes, ParseClaim(t, f, o) PROVE ObjectsOwned'
  <2>1. \A g \in Files : Exists(g) => Exists(g)'
    BY <1>6, RowsStay DEF ParseClaim, Status
  <2> QED BY <1>2, <1>6, <2>1, OwnedStay DEF ParseClaim
<1>7. CASE UNCHANGED <<kb, row, blob, leaked>>
  BY <1>2, <1>7, OwnedStay DEF Exists
<1> QED BY <1>3, <1>4, <1>5, <1>6, <1>7 DEF Request, ChunkRequest, EmbedRequest, KbReadKeys, db

\* The upload that inserts its row, or fails to, accounts for its object.
LEMMA InsertOwned ==
  ASSUME TypeOK, ObjectsOwned, NEW t \in Tasks, NEW o \in Outcomes, UploadInsert(t, o)
  PROVE  ObjectsOwned'
<1> DEFINE r == [st |-> "pending", stale |-> FALSE]
<1>. PICK f \in Files : f = task[t].file
  BY DEF UploadInsert, At, TypeOK, TaskType
<1>0. /\ f = task[t].file /\ blob \subseteq Files /\ task \in [Tasks -> TaskType]
      /\ row \in [Files -> [st : Status, stale : BOOLEAN]]
  BY DEF TypeOK
<1>1. /\ kb' = kb /\ blob' = blob /\ leaked \subseteq leaked'
      /\ \A u \in Tasks \ {t} : task'[u] = task[u]
  <2>1. Step(t)
    BY DEF Step
  <2> QED BY <2>1, OneTaskMoves DEF UploadInsert
<1>2. row' = row \/ row' = [row EXCEPT ![f] = r]
  BY DEF UploadInsert
<1>3. r.st # "none"
  OBVIOUS
<1> HIDE DEF r
<1>4. \A g \in Files : Exists(g) => Exists(g)'
  BY <1>0, <1>2, <1>3 DEF Exists
<1>5. Exists(f)' \/ f \in leaked' \/ (task'[t].pc \in Holding /\ task'[t].file = f)
  <2>1. CASE Insertable(f) /\ Applied(o)
    <3>1. row' = [row EXCEPT ![f] = r]
      BY <2>1 DEF UploadInsert, r
    <3> QED BY <1>0, <1>3, <3>1 DEF Exists
  <2>2. CASE Goto(t, "undo")
    BY <1>0, <2>2 DEF Goto, TaskType, Holding
  <2>3. CASE ~(Insertable(f) /\ Applied(o)) /\ ~Goto(t, "undo")
    BY <2>3 DEF UploadInsert, Applied, Outcomes
  <2> QED BY <2>1, <2>2, <2>3
<1>6. ASSUME NEW g \in blob, kb
      PROVE  \/ Exists(g)' \/ g \in leaked'
             \/ \E u \in Tasks : task'[u].pc \in Holding /\ task'[u].file = g
  <2>1. CASE g = f
    <3>1. ASSUME task'[t].pc \in Holding /\ task'[t].file = f
          PROVE  \E u \in Tasks : task'[u].pc \in Holding /\ task'[u].file = f
      BY <3>1
    <3> QED BY <1>5, <2>1, <3>1
  <2>2. CASE g # f
    BY <1>0, <1>1, <1>4, <1>6, <2>2 DEF ObjectsOwned
  <2> QED BY <2>1, <2>2
<1> QED BY <1>1, <1>6 DEF ObjectsOwned

\* A handler that ends has removed its object, or has been kept from it.
LEMMA UnlinkOwned ==
  ASSUME TypeOK, ObjectsOwned, NEW t \in Tasks, NEW o \in Outcomes,
         UploadUndo(t, o) \/ DeleteBlob(t, o)
  PROVE  ObjectsOwned'
<1> DEFINE f == task[t].file
<1>1. /\ kb' = kb /\ row' = row /\ blob' \subseteq blob /\ leaked \subseteq leaked'
      /\ f \notin blob' \/ f \in leaked'
  BY DEF UploadUndo, DeleteBlob, Unlink, db
<1>2. \A u \in Tasks \ {t} : task'[u] = task[u]
  BY OneTaskMoves DEF Step
<1> QED BY <1>1, <1>2 DEF ObjectsOwned, Exists

\* The other steps hold no object.
LEMMA StepOwned ==
  ASSUME TypeOK, HandlersOwnFiles, ObjectsOwned, NEW t \in Tasks, Step(t)
  PROVE  ObjectsOwned'
<1>1. ASSUME NEW o \in Outcomes, UploadInsert(t, o) \/ UploadUndo(t, o) \/ DeleteBlob(t, o)
      PROVE  ObjectsOwned'
  BY <1>1, InsertOwned, UnlinkOwned
<1>2. CASE task[t].pc \notin Holding
  <2>0. /\ \A u \in Tasks : task[u].pc \in Holding => task'[u] = task[u]
        /\ blob \subseteq Files
    BY <1>2, OthersHold DEF TypeOK
  <2>1. ASSUME NEW o \in Outcomes, ProcessMark(t, o) \/ ProcessSave(t, o) \/ ProcessFail(t, o)
        PROVE  ObjectsOwned'
    <3>1. /\ UNCHANGED <<kb, blob, leaked>>
          /\ \/ row' = row
             \/ \E s \in {"processing", "ready", "failed"} : SetStatus(task[t].file, s)
      BY <2>1 DEF ProcessMark, ProcessSave, ProcessFail
    <3>2. \A g \in Files : Exists(g) => Exists(g)'
      BY <3>1, RowsStay DEF Status
    <3> QED BY <2>0, <3>1, <3>2, OwnedStay
  <2>2. ASSUME NEW o \in Outcomes, KbDrop(t, o) PROVE ObjectsOwned'
    <3>1. CASE kb' = FALSE
      BY <3>1 DEF ObjectsOwned
    <3>2. CASE UNCHANGED db
      BY <2>0, <2>2, <3>2, OwnedStay DEF KbDrop, db, Exists
    <3> QED BY <2>2, <3>1, <3>2 DEF KbDrop
  <2>3. ASSUME NEW o \in Outcomes, NEW f \in Files, KbClean(t, f, o) PROVE ObjectsOwned'
    <3>1. ~kb'
      BY <2>3 DEF KbClean, HandlersOwnFiles, db
    <3> QED BY <3>1 DEF ObjectsOwned
  <2>4. CASE UNCHANGED <<kb, row, blob, leaked>>
    BY <2>0, <2>4, OwnedStay DEF Exists
  <2>5. \/ \E o \in Outcomes :
             \/ UploadInsert(t, o) \/ UploadUndo(t, o) \/ DeleteBlob(t, o)
             \/ ProcessMark(t, o) \/ ProcessSave(t, o) \/ ProcessFail(t, o)
             \/ KbDrop(t, o) \/ \E f \in Files : KbClean(t, f, o)
        \/ UNCHANGED <<kb, row, blob, leaked>>
    BY DEF Step, ProcessRead, AutoChunkClaim, ChunkWrite, ChunkFail, AutoEmbedPick,
       EmbedStore, ProcessParse, ChunkLoad, ChunkClear, EmbedCall, KbCleaned, db
  <2> QED BY <1>1, <2>1, <2>2, <2>3, <2>4, <2>5
<1>3. CASE task[t].pc \in Holding
  BY <1>1, <1>3 DEF Step, ProcessRead, ProcessMark, ProcessSave, ProcessFail,
     AutoChunkClaim, ChunkWrite, ChunkFail, AutoEmbedPick, EmbedStore, KbDrop, KbClean,
     ProcessParse, ChunkLoad, ChunkClear, EmbedCall, KbCleaned, At, Holding
<1> QED BY <1>2, <1>3

\* No path of an upload or a deletion forgets an object by itself, however many
\* handlers, faults and restarts overlap: while the base exists, an object
\* without a row is in the hands of a handler or was left by a fault.
THEOREM ObjectsKept == Spec => []ObjectsAccounted
<1>1. Init => ObjectsOwned
  BY DEF Init, ObjectsOwned
<1>2. TypeOK /\ HandlersOwnFiles /\ ObjectsOwned /\ [Next]_vars => ObjectsOwned'
  <2> SUFFICES ASSUME TypeOK, HandlersOwnFiles, ObjectsOwned, [Next]_vars
               PROVE  ObjectsOwned'
    OBVIOUS
  <2>1. CASE ListFiles \/ \E f \in Files : GoStale(f)
    <3>1. \A f \in Files : Exists(f) => Exists(f)'
      <4>1. CASE ListFiles
        BY <4>1 DEF ListFiles, Exists
      <4>2. ASSUME NEW g \in Files, GoStale(g)
            PROVE  \A f \in Files : row'[f].st = row[f].st
        BY <4>2 DEF GoStale, TypeOK
      <4> QED BY <2>1, <4>1, <4>2 DEF Exists
    <3> QED BY <2>1, <3>1, OwnedStay DEF ListFiles, GoStale, TypeOK
  <2>2. ASSUME Restart PROVE ObjectsOwned'
    <3>1. /\ UNCHANGED <<kb, row, blob>> /\ blob \subseteq Files /\ leaked \subseteq leaked'
          /\ \A f \in Files : (\E t \in Tasks : InCharge(t, f)) => f \in leaked'
      BY <2>2 DEF Restart, db, TypeOK
    <3>2. \A f \in blob : (\E t \in Tasks : task[t].pc \in Holding /\ task[t].file = f)
                            => f \in leaked'
      BY <3>1 DEF InCharge, Holding
    <3> QED BY <3>1, <3>2 DEF ObjectsOwned, Exists
  <2>3. CASE UNCHANGED vars
    BY <2>3, OwnedStay DEF vars, Exists
  <2> QED BY <2>1, <2>2, <2>3, RequestOwned, StepOwned DEF Next
<1>3. ObjectsOwned => ObjectsAccounted
  BY DEF ObjectsOwned, ObjectsAccounted, InCharge, Holding
<1> QED BY <1>1, <1>2, <1>3, TypeCorrect, OwnershipKept, PTL DEF Spec
==============================================================================
