--------------------------- MODULE KnowledgeFiles ---------------------------
(***************************************************************************)
(* Knowledge-file ingestion of one knowledge base: the KnowledgeFile,      *)
(* KnowledgeParsedDocument and KnowledgeChunk tables, the object storage,  *)
(* and the request handlers and background tasks of                        *)
(* app/api/routes/knowledge_files.py that work on them, with the deletion  *)
(* of the knowledge base (app/api/routes/knowledge_bases.py).              *)
(*                                                                         *)
(* The server is one process (Dockerfile: --workers 1), its tasks are      *)
(* asyncio tasks that interleave at every await, and a restart ends all of *)
(* them.  A committed transaction is one step; the only transaction whose  *)
(* statements interleave visibly, the replacement of a file's chunks, is   *)
(* two steps.                                                              *)
(***************************************************************************)
EXTENDS Naturals, FiniteSets

CONSTANTS
    Files,        \* the uuid4 file ids that uploads may draw
    Hashes,       \* SHA-256 digests of uploaded contents
    Hash,         \* the digest of the content uploaded under each id
    Tasks,        \* concurrent requests and background tasks
    Indexes,      \* chunkIndex values of one document
    NoFile,       \* "no file" in a task that has none
    MaxRequests,  \* bound: user requests in a behaviour
    MaxFaults     \* bound: database or storage errors and restarts

ASSUME ConstantsAssumption ==
    /\ Hash \in [Files -> Hashes]
    /\ NoFile \notin Files
    /\ MaxRequests \in Nat /\ MaxFaults \in Nat

VARIABLES
    kb,        \* the KnowledgeBase row exists
    fresh,     \* file ids no upload has drawn yet
    row,       \* KnowledgeFile: status, and whether updatedAt is stale
    blob,      \* ids whose object is in storage
    parsed,    \* KnowledgeParsedDocument: chunkStatus, and how often it was saved
    chunks,    \* KnowledgeChunk rows of a file: see NoChunks
    task,      \* the asyncio tasks
    requests,  \* requests accepted so far
    faults,    \* faults so far
    leaked,    \* history: ids whose object a fault made unreachable
    overtaken, \* history: files whose document was last saved while a task
               \* was cutting the one before it into chunks
    abandoned  \* history: files whose chunk claim a fault left to nobody

vars == <<kb, fresh, row, blob, parsed, chunks, task, requests, faults,
          leaked, overtaken, abandoned>>
db == <<kb, row, parsed, chunks>>
claims == <<overtaken, abandoned>>

Status == {"none", "pending", "processing", "ready", "failed"}

NoRow    == [st |-> "none", stale |-> FALSE]
NoParsed == [st |-> "none", doc |-> 0]

\* One INSERT writes all chunks of a file and one DELETE removes them, so the
\* rows are one record: gen names the set of row ids, doc is the document they
\* were cut from, vec[i] is the gen of the text that the vector
\* in "embedding" was computed from (0: NULL).
NoChunks == [gen |-> 0, doc |-> 0, vec |-> [i \in Indexes |-> 0]]

Idle == [pc |-> "idle", file |-> NoFile, auto |-> FALSE, doc |-> 0, gen |-> 0,
         ids |-> {}, keys |-> {}]

PCs == {"idle", "insert", "undo", "read", "mark", "parse", "save", "fail",
        "claim", "load", "clear", "write", "chunkfail", "pick", "embed",
        "store", "unlink", "drop", "clean"}

-----------------------------------------------------------------------------
(* Faults.  SQLAlchemyError / RuntimeError ("error") leaves the transaction
   undone; DatabaseServiceError leaves it undone ("down") or reports a lost
   connection after the commit ("lost").  An action whose handler treats
   "error" and "down" alike offers one of them. *)

Outcomes == {"ok", "error", "down", "lost"}

Outcome(o) ==
    /\ o # "ok" => faults < MaxFaults
    /\ faults' = IF o = "ok" THEN faults ELSE faults + 1

Applied(o) == o \in {"ok", "lost"}

Accept(t) ==
    /\ task[t] = Idle
    /\ requests < MaxRequests
    /\ requests' = requests + 1

Goto(t, p) == task' = [task EXCEPT ![t].pc = p]
Finish(t)  == task' = [task EXCEPT ![t] = Idle]
At(t, p)   == task[t].pc = p

\* Automated ingestion goes on with step p where an explicit request ends.
Continue(t, p) == IF task[t].auto THEN Goto(t, p) ELSE Finish(t)

Exists(f) == row[f].st # "none"

\* DELETE with ON DELETE CASCADE to parsed documents and chunks.
Delete(F) ==
    /\ row'    = [f \in Files |-> IF f \in F THEN NoRow ELSE row[f]]
    /\ parsed' = [f \in Files |-> IF f \in F THEN NoParsed ELSE parsed[f]]
    /\ chunks' = [f \in Files |-> IF f \in F THEN NoChunks ELSE chunks[f]]

\* FILE_STATUS_QUERY: unconditional on the current status; no row, no effect.
SetStatus(f, s) ==
    row' = IF Exists(f) THEN [row EXCEPT ![f] = [st |-> s, stale |-> FALSE]]
                        ELSE row

\* PARSED_DOCUMENT_CHUNK_STATUS_QUERY
SetChunkStatus(f, s) ==
    parsed' = IF parsed[f].st # "none" THEN [parsed EXCEPT ![f].st = s]
                                       ELSE parsed

-----------------------------------------------------------------------------
(* upload_knowledge_file *)

\* Fault injected into UploadPut: the handler loses the id it drew.
UploadPut_NoId(t, f, auto) ==
    /\ Accept(t) /\ kb /\ f \in fresh
    /\ fresh' = fresh \ {f}
    /\ blob' = blob \cup {f}
    /\ task' = [task EXCEPT ![t] = [Idle EXCEPT !.pc = "insert", !.auto = auto]]
    /\ UNCHANGED <<db, claims, faults, leaked>>

\* Permission check (needs the base), uuid4, storage.put.
UploadPut(t, f, auto) ==
    /\ Accept(t) /\ kb /\ f \in fresh
    /\ fresh' = fresh \ {f}
    /\ blob' = blob \cup {f}
    /\ task' = [task EXCEPT ![t] = [Idle EXCEPT !.pc = "insert", !.file = f,
                                                !.auto = auto]]
    /\ UNCHANGED <<db, claims, faults, leaked>>

\* StorageError: 503; the provider may or may not hold the object.
UploadPutFails(t, f) ==
    /\ Accept(t) /\ kb /\ f \in fresh /\ Outcome("error")
    /\ fresh' = fresh \ {f}
    /\ \/ blob' = blob \cup {f} /\ leaked' = leaked \cup {f}
       \/ UNCHANGED <<blob, leaked>>
    /\ UNCHANGED <<db, task, claims>>

\* Fault injected into Insertable: no foreign key to the knowledge base.
Insertable_NoBase(f) == \A g \in Files : Exists(g) => Hash[g] # Hash[f]

Insertable(f) == kb /\ \A g \in Files : Exists(g) => Hash[g] # Hash[f]

\* FILE_INSERT_QUERY.  A duplicate digest (409), a vanished base (foreign key)
\* and an SQLAlchemyError go on to _best_effort_delete; DatabaseServiceError
\* passes through every except clause and leaves the object behind.
UploadInsert(t, o) ==
    LET f == task[t].file IN
    /\ At(t, "insert") /\ Outcome(o)
    /\ IF Insertable(f) /\ Applied(o)
       THEN row' = [row EXCEPT ![f] = [st |-> "pending", stale |-> FALSE]]
       ELSE row' = row
    /\ IF o \in {"down", "lost"} THEN Finish(t)
       ELSE IF o = "ok" /\ Insertable(f) THEN Continue(t, "read")
       ELSE Goto(t, "undo")
    /\ leaked' = IF o = "down" \/ (o = "lost" /\ ~Insertable(f))
                 THEN leaked \cup {f} ELSE leaked
    /\ UNCHANGED <<kb, fresh, blob, parsed, chunks, claims, requests>>

\* Removing an object of storage: the handler ends, and a StorageError leaves
\* the object in place.  _best_effort_delete after an upload that failed.
Unlink(t, p, o) ==
    /\ At(t, p) /\ o \in {"ok", "error"} /\ Outcome(o)
    /\ IF o = "ok" THEN blob' = blob \ {task[t].file} /\ leaked' = leaked
                   ELSE blob' = blob /\ leaked' = leaked \cup {task[t].file}
    /\ Finish(t)
    /\ UNCHANGED <<db, fresh, claims, requests>>

\* Fault injected into UploadUndo: a refused upload keeps its object.
UploadUndo_Skipped(t, o) ==
    /\ At(t, "undo") /\ o = "ok"
    /\ Finish(t)
    /\ UNCHANGED <<db, fresh, blob, claims, requests, faults, leaked>>

UploadUndo(t, o) == Unlink(t, "undo", o)

-----------------------------------------------------------------------------
(* parse_knowledge_file and process_knowledge_file *)

Claimable(f) == Exists(f) /\ (row[f].st # "processing" \/ row[f].stale)

\* FILE_PARSE_CLAIM_QUERY; the background task is only added when the claim
\* returned and its commit was confirmed.
ParseClaim(t, f, o) ==
    /\ Accept(t) /\ Claimable(f) /\ o \in {"ok", "lost"} /\ Outcome(o)
    /\ SetStatus(f, "processing")
    /\ task' = IF o = "ok"
               THEN [task EXCEPT ![t] = [Idle EXCEPT !.pc = "read", !.file = f]]
               ELSE task
    /\ UNCHANGED <<kb, fresh, blob, parsed, chunks, claims, leaked>>

\* FILE_PROCESS_QUERY: no row, or no database, ends the task silently.
ProcessRead(t, o) ==
    /\ At(t, "read") /\ o \in {"ok", "error"} /\ Outcome(o)
    /\ IF o = "ok" /\ Exists(task[t].file) THEN Goto(t, "mark") ELSE Finish(t)
    /\ UNCHANGED <<db, fresh, blob, claims, requests, leaked>>

ProcessMark(t, o) ==
    /\ At(t, "mark") /\ o # "error" /\ Outcome(o)
    /\ IF Applied(o) THEN SetStatus(task[t].file, "processing")
                     ELSE row' = row
    /\ Goto(t, IF o = "ok" THEN "parse" ELSE "fail")
    /\ UNCHANGED <<kb, fresh, blob, parsed, chunks, claims, requests, leaked>>

\* storage.read and parse_document; the content may not parse.
ProcessParse(t) ==
    /\ At(t, "parse")
    /\ \/ task[t].file \in blob /\ Goto(t, "save")
       \/ Goto(t, "fail")
    /\ UNCHANGED <<db, fresh, blob, claims, requests, faults, leaked>>

\* A task has read the document of f and not yet written its chunks.
Cutting(t, f) == task[t].pc \in {"clear", "write"} /\ task[t].file = f

\* Fault injected into ProcessSave: the document is saved for a deleted file.
ProcessSave_NoForeignKey(t, o) ==
    LET f == task[t].file IN
    /\ At(t, "save") /\ o = "ok"
    /\ parsed' = [parsed EXCEPT ![f] = [st |-> "pending",
                                        doc |-> parsed[f].doc + 1]]
    /\ SetStatus(f, "ready")
    /\ Continue(t, "claim")
    /\ UNCHANGED <<kb, fresh, blob, chunks, claims, requests, faults, leaked>>

\* PARSED_DOCUMENT_UPSERT_QUERY and status 'ready' in one transaction; the
\* foreign key refuses a document whose file is gone.
ProcessSave(t, o) ==
    LET f == task[t].file IN
    /\ At(t, "save") /\ o # "error" /\ Outcome(o)
    /\ IF Exists(f) /\ Applied(o)
       THEN /\ parsed' = [parsed EXCEPT ![f] = [st |-> "pending",
                                                doc |-> parsed[f].doc + 1]]
            /\ SetStatus(f, "ready")
            /\ overtaken' = IF \E u \in Tasks : Cutting(u, f)
                            THEN overtaken \cup {f} ELSE overtaken \ {f}
       ELSE UNCHANGED <<parsed, row, overtaken>>
    /\ IF Exists(f) /\ o = "ok" THEN Continue(t, "claim") ELSE Goto(t, "fail")
    /\ UNCHANGED <<kb, fresh, blob, chunks, abandoned, requests, leaked>>

\* The outer except: status 'failed', given up on any database error.
ProcessFail(t, o) ==
    /\ At(t, "fail") /\ o # "error" /\ Outcome(o)
    /\ IF Applied(o) THEN SetStatus(task[t].file, "failed") ELSE row' = row
    /\ Finish(t)
    /\ UNCHANGED <<kb, fresh, blob, parsed, chunks, claims, requests, leaked>>

-----------------------------------------------------------------------------
(* Chunk claim (automatic and requested) and materialize_knowledge_chunks *)

ChunkClaimable(f) == parsed[f].st \notin {"none", "processing"}

\* PARSED_DOCUMENT_CHUNK_CLAIM_QUERY inside process_knowledge_file.
AutoChunkClaim(t, o) ==
    LET f == task[t].file IN
    /\ At(t, "claim") /\ o # "error" /\ Outcome(o)
    /\ parsed' = IF ChunkClaimable(f) /\ Applied(o)
                 THEN [parsed EXCEPT ![f].st = "processing"] ELSE parsed
    /\ abandoned' = IF ChunkClaimable(f) /\ Applied(o)
                    THEN abandoned \ {f} ELSE abandoned
    /\ IF o # "ok" THEN Goto(t, "chunkfail")
       ELSE IF ChunkClaimable(f) THEN Goto(t, "load")
       ELSE Finish(t)
    /\ UNCHANGED <<kb, fresh, row, blob, chunks, overtaken, requests, leaked>>

\* materialize_knowledge_file_chunks: the claim commits before the chunk count
\* is read, so a database error there answers 503 and starts no task.
ChunkRequest(t, f, o) ==
    /\ Accept(t) /\ ChunkClaimable(f) /\ o \in {"ok", "lost"} /\ Outcome(o)
    /\ parsed' = [parsed EXCEPT ![f].st = "processing"]
    /\ task' = IF o = "ok"
               THEN [task EXCEPT ![t] = [Idle EXCEPT !.pc = "load", !.file = f]]
               ELSE task
    /\ abandoned' = IF o = "ok" THEN abandoned \ {f} ELSE abandoned \cup {f}
    /\ UNCHANGED <<kb, fresh, row, blob, chunks, overtaken, leaked>>

\* Fault injected into ChunkLoad: a document that is gone or has no text just
\* ends the task.
ChunkLoad_Quiet(t) ==
    LET f == task[t].file IN
    /\ At(t, "load")
    /\ \/ /\ parsed[f].st # "none"
          /\ task' = [task EXCEPT ![t] = [@ EXCEPT !.pc = "clear",
                                                !.doc = parsed[f].doc]]
       \/ Continue(t, "chunkfail")
    /\ UNCHANGED <<db, fresh, blob, claims, requests, faults, leaked>>

\* The file row and the parsed document are read and cut into chunks; a missing
\* row, a database error or a document without text marks the chunks failed.
ChunkLoad(t) ==
    LET f == task[t].file IN
    /\ At(t, "load")
    /\ \/ /\ parsed[f].st # "none"
          /\ task' = [task EXCEPT ![t] = [@ EXCEPT !.pc = "clear",
                                                !.doc = parsed[f].doc]]
       \/ Goto(t, "chunkfail")
    /\ UNCHANGED <<db, fresh, blob, claims, requests, faults, leaked>>

\* Fault injected into ChunkClear: the DELETE commits on its own.
ChunkClear_Commits(t) ==
    /\ At(t, "clear")
    /\ chunks' = [chunks EXCEPT ![task[t].file] = NoChunks]
    /\ task' = [task EXCEPT ![t] = [@ EXCEPT !.pc = "write", !.gen = 0]]
    /\ UNCHANGED <<kb, row, parsed, fresh, blob, claims, requests, faults,
                   leaked>>

\* CHUNKS_DELETE_QUERY: the statement deletes, and locks, the rows its
\* snapshot shows.
ChunkClear(t) ==
    /\ At(t, "clear")
    /\ task' = [task EXCEPT ![t] = [@ EXCEPT !.pc = "write",
                                             !.gen = chunks[task[t].file].gen]]
    /\ UNCHANGED <<db, fresh, blob, claims, requests, faults, leaked>>

\* CHUNKS_INSERT_QUERY, chunkStatus 'ready', COMMIT.  UNIQUE (fileId,
\* chunkIndex) refuses the rows when another task replaced the ones that were
\* deleted here; the foreign key refuses them when the file is gone.
ChunkWrite(t, o) ==
    LET f == task[t].file
        writable == Exists(f) /\ chunks[f].gen = task[t].gen
    IN
    /\ At(t, "write") /\ o # "error" /\ Outcome(o)
    /\ IF writable /\ Applied(o)
       THEN /\ chunks' = [chunks EXCEPT ![f] =
                            [gen |-> chunks[f].gen + 1, doc |-> task[t].doc,
                             vec |-> [i \in Indexes |-> 0]]]
            /\ SetChunkStatus(f, "ready")
       ELSE UNCHANGED <<chunks, parsed>>
    /\ IF writable /\ o = "ok" THEN Continue(t, "pick")
                                ELSE Goto(t, "chunkfail")
    /\ UNCHANGED <<kb, fresh, row, blob, claims, requests, leaked>>

\* Fault injected into ChunkFail: the retry loop has no way out.
ChunkFail_NoReturn(t, o) ==
    /\ At(t, "chunkfail") /\ Outcome(o)
    /\ IF Applied(o) THEN SetChunkStatus(task[t].file, "failed")
                     ELSE parsed' = parsed
    /\ task' = task
    /\ UNCHANGED <<kb, fresh, row, blob, chunks, claims, requests, leaked>>

\* _mark_knowledge_chunks_failed: retried for ever on DatabaseServiceError,
\* given up on SQLAlchemyError.
ChunkFail(t, o) ==
    /\ At(t, "chunkfail") /\ Outcome(o)
    /\ IF Applied(o) THEN SetChunkStatus(task[t].file, "failed")
                     ELSE parsed' = parsed
    /\ abandoned' = IF o = "error" THEN abandoned \cup {task[t].file}
                                   ELSE abandoned
    /\ IF o \in {"ok", "error"} THEN Finish(t) ELSE task' = task
    /\ UNCHANGED <<kb, fresh, row, blob, chunks, overtaken, requests, leaked>>

-----------------------------------------------------------------------------
(* Embeddings *)

Unembedded(f) == {i \in Indexes : chunks[f].vec[i] = 0}

\* embed_knowledge_file_chunks with explicitly selected chunk ids, and
\* embed_all_knowledge_file_chunks with those that have no vector.
EmbedRequest(t, f, ids) ==
    /\ Accept(t) /\ chunks[f].gen # 0 /\ ids # {}
    /\ task' = [task EXCEPT ![t] = [Idle EXCEPT !.pc = "embed", !.file = f,
                                      !.gen = chunks[f].gen, !.ids = ids]]
    /\ UNCHANGED <<db, fresh, blob, claims, faults, leaked>>

\* _embed_all_knowledge_chunks_for_file at the end of automated processing.
AutoEmbedPick(t, o) ==
    LET f == task[t].file IN
    /\ At(t, "pick") /\ o \in {"ok", "error"} /\ Outcome(o)
    /\ IF o = "error" THEN Goto(t, "chunkfail")
       ELSE IF chunks[f].gen = 0 \/ Unembedded(f) = {} THEN Finish(t)
       ELSE task' = [task EXCEPT ![t] = [@ EXCEPT !.pc = "embed",
                                                !.gen = chunks[f].gen,
                                                !.ids = Unembedded(f)]]
    /\ UNCHANGED <<db, fresh, blob, claims, requests, leaked>>

\* embed_texts: the provider answers or fails.
EmbedCall(t) ==
    /\ At(t, "embed")
    /\ Goto(t, "store") \/ Continue(t, "chunkfail")
    /\ UNCHANGED <<db, fresh, blob, claims, requests, faults, leaked>>

\* Fault injected into Present: rows are addressed by chunkIndex, not by id.
Present_ByIndex(t) == chunks[task[t].file].gen # 0

\* The rows whose texts were embedded still exist.
Present(t) == chunks[task[t].file].gen = task[t].gen

\* CHUNK_EMBEDDING_UPDATE_QUERY for every id, by id; one missing row answers
\* 409 and rolls all of them back.  Rows a ChunkClear has locked are waited for.
EmbedStore(t, o) ==
    LET f == task[t].file IN
    /\ At(t, "store") /\ o # "error" /\ Outcome(o)
    /\ ~\E u \in Tasks : At(u, "write") /\ task[u].file = f
                           /\ chunks[f].gen = task[u].gen /\ Present(t)
    /\ chunks' = IF Present(t) /\ Applied(o)
                 THEN [chunks EXCEPT ![f].vec =
                         [i \in Indexes |-> IF i \in task[t].ids
                                            THEN task[t].gen
                                            ELSE chunks[f].vec[i]]]
                 ELSE chunks
    /\ IF Present(t) /\ o = "ok" THEN Finish(t) ELSE Continue(t, "chunkfail")
    /\ UNCHANGED <<kb, fresh, row, blob, parsed, claims, requests, leaked>>

-----------------------------------------------------------------------------
(* list_knowledge_files, deletions, time and restarts *)

\* Fault injected into ListFiles: the listing only lists.
ListFiles_NoRecovery == UNCHANGED vars

\* FILE_RECOVER_STALE_QUERY runs before every listing.
ListFiles ==
    /\ row' = [f \in Files |-> IF row[f].st = "processing" /\ row[f].stale
                               THEN [st |-> "failed", stale |-> FALSE]
                               ELSE row[f]]
    /\ UNCHANGED <<kb, fresh, blob, parsed, chunks, task, claims, requests,
                   faults, leaked>>

\* KNOWLEDGE_PROCESSING_STALE_SECONDS pass without an update of the row.
GoStale(f) ==
    /\ row[f].st = "processing" /\ ~row[f].stale
    /\ row' = [row EXCEPT ![f].stale = TRUE]
    /\ UNCHANGED <<kb, fresh, blob, parsed, chunks, task, claims, requests,
                   faults, leaked>>

\* Fault injected into DeleteRow: the object first, the row by a later request.
DeleteRow_ObjectFirst(t, f, o) ==
    /\ Accept(t) /\ Exists(f) /\ o = "ok"
    /\ blob' = blob \ {f}
    /\ UNCHANGED <<db, fresh, task, claims, faults, leaked>>

\* delete_knowledge_file: the row first, then the object.
DeleteRow(t, f, o) ==
    /\ Accept(t) /\ Exists(f) /\ o \in {"ok", "lost"} /\ Outcome(o)
    /\ Delete({f})
    /\ task' = IF o = "ok"
               THEN [task EXCEPT ![t] = [Idle EXCEPT !.pc = "unlink",
                                                     !.file = f]]
               ELSE task
    /\ leaked' = IF o = "lost" THEN leaked \cup {f} ELSE leaked
    /\ UNCHANGED <<kb, fresh, blob, claims>>

DeleteBlob(t, o) == Unlink(t, "unlink", o)

\* delete_knowledge_base: KNOWLEDGE_BASE_FILE_KEYS_QUERY ...
KbReadKeys(t) ==
    /\ Accept(t) /\ kb
    /\ task' = [task EXCEPT ![t] = [Idle EXCEPT !.pc = "drop",
                                      !.keys = {f \in Files : Exists(f)}]]
    /\ UNCHANGED <<db, fresh, blob, claims, faults, leaked>>

\* ... then the DELETE, which cascades to every file the base has by then ...
KbDrop(t, o) ==
    /\ At(t, "drop") /\ Outcome(o)
    /\ IF kb /\ Applied(o) THEN kb' = FALSE /\ Delete(Files)
                           ELSE UNCHANGED db
    /\ IF kb /\ o = "ok" THEN Goto(t, "clean") ELSE Finish(t)
    /\ leaked' = IF kb /\ o = "lost" THEN leaked \cup task[t].keys ELSE leaked
    /\ UNCHANGED <<fresh, blob, claims, requests>>

\* ... and _cleanup_knowledge_base_files, one object at a time; a failure is
\* logged and counted, and the loop goes on.
KbClean(t, f, o) ==
    /\ At(t, "clean") /\ f \in task[t].keys /\ o \in {"ok", "error"}
    /\ Outcome(o)
    /\ IF o = "ok" THEN blob' = blob \ {f} /\ leaked' = leaked
                   ELSE blob' = blob /\ leaked' = leaked \cup {f}
    /\ task' = [task EXCEPT ![t].keys = @ \ {f}]
    /\ UNCHANGED <<db, fresh, claims, requests>>

KbCleaned(t) ==
    /\ At(t, "clean") /\ task[t].keys = {}
    /\ Finish(t)
    /\ UNCHANGED <<db, fresh, blob, claims, requests, faults, leaked>>

\* The tasks that still have to insert or remove the object of f.
InCharge(t, f) ==
    \/ task[t].pc \in {"insert", "undo", "unlink"} /\ task[t].file = f
    \/ task[t].pc \in {"drop", "clean"} /\ f \in task[t].keys

\* The tasks that hold the chunk claim of f, or believe they do.
Claiming(t, f) ==
    task[t].pc \in {"load", "clear", "write", "chunkfail"} /\ task[t].file = f

\* The process ends and restarts, as the same release or another one.
Restart ==
    /\ Outcome("error")
    /\ task' = [t \in Tasks |-> Idle]
    /\ leaked' = leaked \cup {f \in Files : \E t \in Tasks : InCharge(t, f)}
    /\ abandoned' = abandoned \cup
                      {f \in Files : \E t \in Tasks : Claiming(t, f)}
    /\ UNCHANGED <<db, fresh, blob, requests, overtaken>>

-----------------------------------------------------------------------------
Init ==
    /\ kb = TRUE /\ fresh = Files /\ blob = {} /\ leaked = {}
    /\ overtaken = {} /\ abandoned = {}
    /\ row = [f \in Files |-> NoRow]
    /\ parsed = [f \in Files |-> NoParsed]
    /\ chunks = [f \in Files |-> NoChunks]
    /\ task = [t \in Tasks |-> Idle]
    /\ requests = 0 /\ faults = 0

Request(t) ==
    \E f \in Files :
        \/ \E auto \in BOOLEAN : UploadPut(t, f, auto)
        \/ UploadPutFails(t, f)
        \/ \E o \in Outcomes : \/ ParseClaim(t, f, o)
                               \/ ChunkRequest(t, f, o)
                               \/ DeleteRow(t, f, o)
        \/ \E ids \in SUBSET Indexes : EmbedRequest(t, f, ids)
        \/ KbReadKeys(t)

Step(t) ==
    \/ \E o \in Outcomes :
        \/ UploadInsert(t, o) \/ UploadUndo(t, o)
        \/ ProcessRead(t, o) \/ ProcessMark(t, o) \/ ProcessSave(t, o)
        \/ ProcessFail(t, o)
        \/ AutoChunkClaim(t, o) \/ ChunkWrite(t, o) \/ ChunkFail(t, o)
        \/ AutoEmbedPick(t, o) \/ EmbedStore(t, o)
        \/ DeleteBlob(t, o) \/ KbDrop(t, o)
        \/ \E f \in Files : KbClean(t, f, o)
    \/ ProcessParse(t) \/ ChunkLoad(t) \/ ChunkClear(t) \/ EmbedCall(t)
    \/ KbCleaned(t)

Next ==
    \/ \E t \in Tasks : Request(t) \/ Step(t)
    \/ ListFiles
    \/ \E f \in Files : GoStale(f)
    \/ Restart

Spec == Init /\ [][Next]_vars

\* A request or background task that started keeps running (asyncio); time
\* passes; the file library polls the listing every three seconds while it is
\* open (frontend knowledgeFileLibrary.tsx).
Fairness ==
    /\ \A t \in Tasks : WF_vars(Step(t))
    /\ \A f \in Files : WF_vars(GoStale(f))
    /\ WF_vars(ListFiles)

FairSpec == Spec /\ Fairness

-----------------------------------------------------------------------------
(* Properties *)

TaskType ==
    [pc : PCs, file : Files \cup {NoFile}, auto : BOOLEAN, doc : Nat,
     gen : Nat, ids : SUBSET Indexes, keys : SUBSET Files]

\* Every table, task and counter has the shape the schema and the handlers
\* give it.
TypeOK ==
    /\ kb \in BOOLEAN
    /\ fresh \subseteq Files /\ blob \subseteq Files /\ leaked \subseteq Files
    /\ row \in [Files -> [st : Status, stale : BOOLEAN]]
    /\ parsed \in [Files -> [st : Status, doc : Nat]]
    /\ chunks \in [Files -> [gen : Nat, doc : Nat, vec : [Indexes -> Nat]]]
    /\ task \in [Tasks -> TaskType]
    /\ \A t \in Tasks : task[t].pc \notin {"idle", "drop", "clean"} =>
                          task[t].file \in Files
    /\ overtaken \subseteq Files /\ abandoned \subseteq Files
    /\ requests \in Nat /\ faults \in Nat

\* A KnowledgeFile row never points to an object that is not in storage,
\* whatever uploads, deletions, failures and restarts overlap: the upload puts
\* the object first, both deletions remove the rows first.
RowHasObject == \A f \in Files : Exists(f) => f \in blob

\* Parsed documents and chunks belong to a file that exists, whichever deletion
\* overtakes the parsing, chunking or embedding of that file.
ChildrenHaveFile ==
    \A f \in Files : parsed[f].st # "none" \/ chunks[f].gen # 0 => Exists(f)

\* The ownership discipline behind RowHasObject: a drawn id belongs to one
\* handler at a time, the one that may still insert its row has its object, and
\* the cleanup of a dropped base runs when no row can appear any more.
HandlersOwnFiles ==
    /\ RowHasObject
    /\ ~kb => \A f \in Files : ~Exists(f)
    /\ \A f \in fresh : ~Exists(f)
    /\ \A t \in Tasks :
        /\ task[t].file \notin fresh
        /\ At(t, "clean") => ~kb
        /\ At(t, "insert") /\ kb => task[t].file \in blob
        /\ task[t].pc \in {"insert", "undo", "unlink"} => ~Exists(task[t].file)
    /\ \A t, u \in Tasks :
        At(t, "insert") /\ task[u].pc \in {"insert", "undo", "unlink"}
            /\ task[t].file = task[u].file => t = u

\* While the knowledge base exists, an object without a row is either still in
\* the hands of a running handler or was left by a fault of that very file: no
\* path of upload or delete forgets an object by itself.
ObjectsAccounted ==
    kb => \A f \in blob : \/ Exists(f) \/ f \in leaked
                           \/ \E t \in Tasks : InCharge(t, f)

\* A file is 'ready' only with a parsed document; chunkStatus is 'ready' only
\* with chunks, and they are cut from the parsed document the file has, except
\* when that document was saved while a task was cutting the one before it.
StatusBacked ==
    \A f \in Files :
        /\ row[f].st = "ready" => parsed[f].st # "none"
        /\ parsed[f].st = "ready" =>
             /\ chunks[f].gen # 0
             /\ chunks[f].doc = parsed[f].doc \/ f \in overtaken

\* A stored vector was computed from the text of the chunk that carries it:
\* an embedding call that outlives a replacement of the chunks saves nothing.
VectorsMatchText ==
    \A f \in Files, i \in Indexes :
        chunks[f].vec[i] \in {0, chunks[f].gen}

\* The three together: whatever overlaps, a file's document, chunks and vectors
\* are those of the file, and its statuses promise no more than there is.
DerivedDataHolds == ChildrenHaveFile /\ StatusBacked /\ VectorsMatchText

\* chunkStatus 'processing' has no time limit, and refuses every later claim:
\* while it stands, a task is at work that will replace it, whatever fails on
\* the way, unless a fault of the claim, of its last update or of the process
\* left it to nobody.
ChunkClaimsHeld ==
    \A f \in Files : parsed[f].st = "processing" =>
        f \in abandoned \/ \E t \in Tasks : Claiming(t, f)

\* README: a restarted or overlong parse does not leave its file in
\* 'processing' for ever.
FileLeavesProcessing ==
    \A f \in Files :
        row[f].st = "processing" ~> row[f].st # "processing"

\* No request or background task hangs, whatever its steps run into.
TasksEnd == \A t \in Tasks : task[t] # Idle ~> task[t] = Idle

-----------------------------------------------------------------------------
(* Statements of the documentation that the code does not keep *)

\* README: deleting a knowledge base removes the objects of its files; only an
\* object whose cleanup failed may remain.
KbDeletionRemovesObjects ==
    (~kb /\ \A t \in Tasks : task[t] = Idle) => blob \subseteq leaked

\* KNOWLEDGE_FILE_PARSING_TOOL_LAYER.md: the claim is atomic, and chunks that
\* are ready are those of the current ParsedDocument.
ChunksAreCurrent ==
    \A f \in Files :
        parsed[f].st = "ready" => chunks[f].doc = parsed[f].doc
=============================================================================
