--------------------------- MODULE ResumableStream ---------------------------
(***************************************************************************)
(* The resumable event streams of one chat: ResumableStreamStore in        *)
(* app/services/resumable_streams.py, driven by POST /chat (capture) and   *)
(* GET /chat/{id}/stream (resume).                                         *)
(*                                                                         *)
(* A producer copies the chunks it sends to its live client into a Redis   *)
(* list and marks the stream done; a reader follows the list from another  *)
(* connection.  Every Redis command is a step of its own and may fail,     *)
(* with or without having taken effect.  Keys expire: Tick is the passing  *)
(* of time.  A chunk is its number in the stream.                          *)
(***************************************************************************)
EXTENDS Naturals, Sequences

CONSTANTS
    Streams,   \* stream ids: requests of this chat
    Readers,   \* resume requests
    None,      \* no key
    TTL,       \* resumable_stream_ttl_seconds, in ticks
    MaxChunks  \* bound: chunks of one answer

ASSUME StreamAssumption ==
    /\ None \notin Streams
    /\ TTL \in Nat \ {0} /\ MaxChunks \in Nat

VARIABLES
    active,   \* the active key of the chat
    activeT,  \* time the active key has left
    list,     \* the chunk list of each stream
    listT,    \* time the list has left; Forever: no expiry is set
    done,     \* the done keys
    doneT,    \* time the done keys have left
    prod,     \* capture: one record per stream
    reader    \* resume: one record per reader

vars == <<active, activeT, list, listT, done, doneT, prod, reader>>

Forever == TTL + 1

\* The first n chunks.
Chunks(n) == [i \in 1..n |-> i]

Producing == {"pull", "append", "expire"}
ProducerPc == {"idle", "finish", "compare", "refresh", "ended"} \cup Producing
ReaderPc == {"idle", "active", "done", "read", "test",
             "complete", "inactive", "failed", "closed"}
Reading == {"active", "done", "read", "test"}

\* sent: chunks the live client got; started, persisted: the flags of capture.
ProducerType == [pc: ProducerPc, sent: Nat, started: BOOLEAN, persisted: BOOLEAN]

\* out: the chunks the resumed client got; seen: the snapshot of the done key.
ReaderType == [pc: ReaderPc, stream: Streams \cup {None}, index: Nat,
               out: Seq(Nat), seen: BOOLEAN]

Init ==
    /\ active = None /\ activeT = 0
    /\ list = [s \in Streams |-> <<>>] /\ listT = [s \in Streams |-> 0]
    /\ done = [s \in Streams |-> FALSE] /\ doneT = [s \in Streams |-> 0]
    /\ prod = [s \in Streams |->
                 [pc |-> "idle", sent |-> 0, started |-> FALSE, persisted |-> FALSE]]
    /\ reader = [r \in Readers |->
                 [pc |-> "idle", stream |-> None, index |-> 0, out |-> <<>>,
                  seen |-> FALSE]]

-----------------------------------------------------------------------------
(* The outcomes of a Redis command: it works, or RedisError is raised       *)
(* before or after it took effect.                                          *)
Outcome == {"ok", "lost", "late"}
Applied(o) == o # "lost"

\* _start: a new stream id, so the deletes change nothing; then SET active.
Start(s, o) ==
    /\ prod[s].pc = "idle"
    /\ prod' = [prod EXCEPT ![s].pc = "pull", ![s].started = (o = "ok"),
                            ![s].persisted = (o = "ok")]
    /\ IF Applied(o) THEN active' = s /\ activeT' = TTL
                     ELSE UNCHANGED <<active, activeT>>
    /\ UNCHANGED <<list, listT, done, doneT, reader>>

\* The source yields a chunk.  It is sent once the append is over.
Pull(s) ==
    /\ prod[s].pc = "pull" /\ prod[s].sent < MaxChunks
    /\ prod' = IF prod[s].persisted THEN [prod EXCEPT ![s].pc = "append"]
                                    ELSE [prod EXCEPT ![s].sent = @ + 1]
    /\ UNCHANGED <<active, activeT, list, listT, done, doneT, reader>>

\* Fault injected into AppendChunk: an error does not stop the persisting.
AppendChunk_KeepsPersisting(s, o) ==
    /\ prod[s].pc = "append"
    /\ IF Applied(o)
       THEN /\ list' = [list EXCEPT ![s] = Append(@, prod[s].sent + 1)]
            /\ listT' = [listT EXCEPT ![s] = IF list[s] = <<>> THEN Forever ELSE @]
       ELSE UNCHANGED <<list, listT>>
    /\ prod' = IF o = "ok" THEN [prod EXCEPT ![s].pc = "expire"]
               ELSE [prod EXCEPT ![s].pc = "pull", ![s].sent = @ + 1]
    /\ UNCHANGED <<active, activeT, done, doneT, reader>>

\* RPUSH.  A key it creates has no expiry yet.
AppendChunk(s, o) ==
    /\ prod[s].pc = "append"
    /\ IF Applied(o)
       THEN /\ list' = [list EXCEPT ![s] = Append(@, prod[s].sent + 1)]
            /\ listT' = [listT EXCEPT ![s] = IF list[s] = <<>> THEN Forever ELSE @]
       ELSE UNCHANGED <<list, listT>>
    /\ prod' = IF o = "ok" THEN [prod EXCEPT ![s].pc = "expire"]
               ELSE [prod EXCEPT ![s].pc = "pull", ![s].sent = @ + 1,
                                 ![s].persisted = FALSE]
    /\ UNCHANGED <<active, activeT, done, doneT, reader>>

\* EXPIRE of the list; then the chunk is yielded to the live client.
ExpireList(s, o) ==
    /\ prod[s].pc = "expire"
    /\ listT' = IF Applied(o) THEN [listT EXCEPT ![s] = TTL] ELSE listT
    /\ prod' = [prod EXCEPT ![s].pc = "pull", ![s].sent = @ + 1,
                            ![s].persisted = (o = "ok")]
    /\ UNCHANGED <<active, activeT, list, done, doneT, reader>>

\* The source is exhausted.
SourceEnds(s) ==
    /\ prod[s].pc = "pull"
    /\ prod' = [prod EXCEPT ![s].pc = IF prod[s].started THEN "finish" ELSE "ended"]
    /\ UNCHANGED <<active, activeT, list, listT, done, doneT, reader>>

\* The live client leaves: the generator is closed at its current await, and
\* _finish may be cancelled with it.
ClientLeaves(s) ==
    /\ prod[s].pc \in Producing
    /\ \E p \in {"ended"} \cup (IF prod[s].started THEN {"finish"} ELSE {}) :
          prod' = [prod EXCEPT ![s].pc = p]
    /\ UNCHANGED <<active, activeT, list, listT, done, doneT, reader>>

\* _finish: SET done.
SetDone(s, o) ==
    /\ prod[s].pc = "finish"
    /\ prod' = [prod EXCEPT ![s].pc = IF o = "ok" THEN "compare" ELSE "ended"]
    /\ IF Applied(o) THEN /\ done' = [done EXCEPT ![s] = TRUE]
                          /\ doneT' = [doneT EXCEPT ![s] = TTL]
                     ELSE UNCHANGED <<done, doneT>>
    /\ UNCHANGED <<active, activeT, list, listT, reader>>

\* _finish: GET active; it may fail.
CompareActive(s, o) ==
    /\ prod[s].pc = "compare"
    /\ prod' = [prod EXCEPT ![s].pc =
                  IF o = "ok" /\ active = s THEN "refresh" ELSE "ended"]
    /\ UNCHANGED <<active, activeT, list, listT, done, doneT, reader>>

\* _finish: EXPIRE active.  The key may be another stream's by now.
Refresh(s, o) ==
    /\ prod[s].pc = "refresh"
    /\ prod' = [prod EXCEPT ![s].pc = "ended"]
    /\ activeT' = IF active # None /\ Applied(o) THEN TTL ELSE activeT
    /\ UNCHANGED <<active, list, listT, done, doneT, reader>>

-----------------------------------------------------------------------------
\* Fault injected into Attach: the 204 branch is missing.
Attach_Unchecked(r) ==
    /\ reader[r].pc = "idle"
    /\ reader' = [reader EXCEPT ![r].pc = "active", ![r].stream = active]
    /\ UNCHANGED <<active, activeT, list, listT, done, doneT, prod>>

\* resume_chat_stream: the active stream, or 204.
Attach(r) ==
    /\ reader[r].pc = "idle" /\ active # None
    /\ reader' = [reader EXCEPT ![r].pc = "active", ![r].stream = active]
    /\ UNCHANGED <<active, activeT, list, listT, done, doneT, prod>>

\* Fault injected into CheckActive: the active key is not looked at.
CheckActive_Skipped(r) ==
    /\ reader[r].pc = "active"
    /\ reader' = [reader EXCEPT ![r].pc = "done"]
    /\ UNCHANGED <<active, activeT, list, listT, done, doneT, prod>>

\* resume: the stream must still be the active one.
CheckActive(r) ==
    /\ reader[r].pc = "active"
    /\ reader' = [reader EXCEPT ![r].pc =
                    IF active = reader[r].stream THEN "done" ELSE "inactive"]
    /\ UNCHANGED <<active, activeT, list, listT, done, doneT, prod>>

\* resume: the snapshot of the done key, before the chunks are read.
CheckDone(r) ==
    /\ reader[r].pc = "done"
    /\ reader' = [reader EXCEPT ![r].pc = "read",
                                ![r].seen = done[reader[r].stream]]
    /\ UNCHANGED <<active, activeT, list, listT, done, doneT, prod>>

\* resume: LRANGE from the index on; every chunk is yielded.
ReadChunks(r) ==
    /\ reader[r].pc = "read"
    /\ LET buffered == list[reader[r].stream]
           new == SubSeq(buffered, reader[r].index + 1, Len(buffered))
       IN reader' = [reader EXCEPT ![r].pc = "test",
                                   ![r].index = @ + Len(new),
                                   ![r].out = @ \o new]
    /\ UNCHANGED <<active, activeT, list, listT, done, doneT, prod>>

\* Fault injected into TestDone: the done key is read after the chunks.
TestDone_Late(r) ==
    /\ reader[r].pc = "test"
    /\ reader' = [reader EXCEPT ![r].pc =
                    IF done[reader[r].stream] THEN "complete" ELSE "active"]
    /\ UNCHANGED <<active, activeT, list, listT, done, doneT, prod>>

\* resume: return when the snapshot was done, or sleep and poll again.
TestDone(r) ==
    /\ reader[r].pc = "test"
    /\ reader' = [reader EXCEPT ![r].pc =
                    IF reader[r].seen THEN "complete" ELSE "active"]
    /\ UNCHANGED <<active, activeT, list, listT, done, doneT, prod>>

\* A RedisError ends resume; the resumed client may leave.
ReaderStops(r, p) ==
    /\ reader[r].pc \in Reading
    /\ p = "failed" => reader[r].pc # "test"
    /\ reader' = [reader EXCEPT ![r].pc = p]
    /\ UNCHANGED <<active, activeT, list, listT, done, doneT, prod>>

-----------------------------------------------------------------------------
Less(t) == IF t > 0 THEN t - 1 ELSE 0

\* A producer that persists keeps its list alive: the provider's timeouts bound
\* the time between two chunks far below the TTL.
Prompt(s) ==
    prod[s].pc \in Producing /\ prod[s].persisted /\ list[s] # <<>> => listT[s] > 1

\* Time passes; a key whose time is over is gone.
Tick ==
    /\ \A s \in Streams : Prompt(s)
    /\ activeT' = Less(activeT)
    /\ active' = IF activeT <= 1 THEN None ELSE active
    /\ listT' = [s \in Streams |->
                   IF listT[s] = Forever THEN Forever ELSE Less(listT[s])]
    /\ list' = [s \in Streams |-> IF listT[s] <= 1 THEN <<>> ELSE list[s]]
    /\ doneT' = [s \in Streams |-> Less(doneT[s])]
    /\ done' = [s \in Streams |-> done[s] /\ doneT[s] > 1]
    /\ UNCHANGED <<prod, reader>>

Capture(s) ==
    \/ Pull(s) \/ SourceEnds(s)
    \/ \E o \in Outcome : \/ AppendChunk(s, o) \/ ExpireList(s, o)
                          \/ SetDone(s, o) \/ CompareActive(s, o) \/ Refresh(s, o)

Resume(r) ==
    CheckActive(r) \/ CheckDone(r) \/ ReadChunks(r) \/ TestDone(r)

Next ==
    \/ \E s \in Streams : \/ \E o \in Outcome : Start(s, o)
                          \/ Capture(s) \/ ClientLeaves(s)
    \/ \E r \in Readers : \/ Attach(r) \/ Resume(r)
                          \/ \E p \in {"failed", "closed"} : ReaderStops(r, p)
    \/ Tick

Spec == Init /\ [][Next]_vars

\* The event loop runs every generator, the source ends, and time passes.
FairSpec ==
    /\ Spec
    /\ \A s \in Streams : WF_vars(Capture(s))
    /\ \A r \in Readers : WF_vars(Resume(r))
    /\ WF_vars(Tick)

-----------------------------------------------------------------------------
(* Properties *)

\* The keys have the time left that their commands give them.
TypeOK ==
    /\ active \in Streams \cup {None} /\ activeT \in 0..TTL
    /\ active # None => activeT > 0
    /\ list \in [Streams -> Seq(Nat)] /\ listT \in [Streams -> 0..Forever]
    /\ done \in [Streams -> BOOLEAN] /\ doneT \in [Streams -> 0..TTL]
    /\ prod \in [Streams -> ProducerType]
    /\ reader \in [Readers -> ReaderType]
    /\ \A r \in Readers : reader[r].pc # "idle" => reader[r].stream \in Streams

\* What a resumed client gets is the beginning of the stream: every chunk once
\* and in order, over any number of polls, failed appends and expired keys.
OutputIsPrefix == \A r \in Readers : reader[r].out = Chunks(Len(reader[r].out))

\* A reader that ends because the stream is done has every chunk the live client
\* got, unless an append failed or the list has expired.
DoneMeansComplete ==
    \A r \in Readers :
        LET s == reader[r].stream
        IN reader[r].pc = "complete" /\ prod[s].persisted /\ list[s] # <<>>
              => Len(reader[r].out) >= prod[s].sent

\* What a resumed client can rely on: no gap on the way and no missing tail.
ResumeTells == OutputIsPrefix /\ DoneMeansComplete

\* A resume request does not poll for ever, even when the producer never came to
\* mark its stream done.
ReadersEnd == \A r \in Readers : reader[r].pc = "active" ~> reader[r].pc \notin Reading
=============================================================================
