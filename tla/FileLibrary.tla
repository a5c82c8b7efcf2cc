------------------------------ MODULE FileLibrary ------------------------------
(***************************************************************************)
(* The library below the upload queue: the files of the selected knowledge *)
(* base and its parsed documents, two lists that are loaded when they are  *)
(* opened, polled while something is processing, and loaded again after a  *)
(* batch of parse or chunk requests, which outlives a change of the base.  *)
(* "disabled" only forbids to begin a batch and is left out.               *)
(*                                                                         *)
(* requestBackend returns the promise of the body without awaiting it: its *)
(* timeout, and an abort of the caller's signal, end a request only until  *)
(* the headers of the answer have come.                                    *)
(***************************************************************************)
EXTENDS Naturals, FiniteSets

CONSTANTS
    Bases,
    Files,
    Home,       \* the base of a file
    Parsed,     \* the files that are parsed already
    NoBase,
    MaxPosts,   \* bound: parse and chunk requests
    Slow        \* bound: the lists whose body takes time to be read

VARIABLES
    lib,    \* the component's state
    batch,  \* parseSelectedFiles and generateChunksForFiles under way
    srv,    \* per file: its status and the chunk status of its document
    posts

lvars == <<lib, batch, srv, posts>>

FileStatus == {"pending", "processing", "ready", "failed"}
ChunkStatus == {"none", "pending", "processing", "ready", "failed"}
Batches == {"parse", "chunks"}
Lists == {"files", "docs"}

\* A list that is shown: whose it is, the statuses, and the files of documents that
\* can be cut into chunks.  History: a batch, or an aborted request, has brought it.
Empty == [of |-> NoBase, status |-> [f \in {} |-> "none"], able |-> {}, odd |-> FALSE]
\* A request of a list; read: the headers of its answer have come.
NoRequest == [of |-> NoBase, by |-> "none", read |-> FALSE, aborted |-> FALSE]
NoBatch == [pc |-> "idle", of |-> NoBase, todo |-> {}, reload |-> {}, answer |-> "none"]

\* req: the request that the controller belongs to; late: one whose abort came too
\* late.
Closed == [list |-> Empty, open |-> FALSE, loaded |-> FALSE, req |-> NoRequest, late |-> NoRequest]

Init ==
    /\ lib = [base |-> NoBase, files |-> Closed, docs |-> Closed, selected |-> {}, poll |-> "off"]
    /\ batch = [k \in Batches |-> NoBatch]
    /\ srv = [f \in Files |-> IF f \in Parsed THEN [file |-> "ready", chunks |-> "pending"]
                               ELSE [file |-> "pending", chunks |-> "none"]]
    /\ posts = 0

-----------------------------------------------------------------------------
(* What the component shows                                                 *)

Shown(u, l) == DOMAIN u[l].list.status
Processing(u, l) == u[l].open /\ \E f \in Shown(u, l) : u[l].list.status[f] = "processing"
IsLoading(l) == lib[l].req # NoRequest

\* The rows of an open list.  Files give way to a spinner whenever they are loaded,
\* documents only as long as there are none.
FileRows == IF lib.files.open /\ ~IsLoading("files") THEN Shown(lib, "files") ELSE {}
DocRows == IF lib.docs.open THEN Shown(lib, "docs") ELSE {}

Selectable == {f \in Shown(lib, "files") : lib.files.list.status[f] # "processing"}
Chunkable == {f \in lib.selected : lib.files.list.status[f] = "ready"}

\* The effects that follow a change of state.  Selected files that are no longer
\* shown are unselected.  The poller starts anew when what it depends on changes,
\* and sets its timer again when both of its requests have settled.
PollDeps(u) == <<u.base, [l \in Lists |-> <<u[l].open, Processing(u, l)>>]>>

\* The effects follow the new state; the quantifier lets TLC compute it once.
Rendered(v) ==
    \E u \in {v} :
      LET restart == PollDeps(u) # PollDeps(lib)
          polls == \E l \in Lists : Processing(u, l)
          old(q) == IF q.by = "poll" /\ restart THEN [q EXCEPT !.by = "user"] ELSE q
          settled == \A l \in Lists : u[l].req.by # "poll" /\ u[l].late.by # "poll"
      IN  lib' = [u EXCEPT !.selected = @ \cap Shown(u, "files"),
                           !.files.req = old(u.files.req), !.files.late = old(u.files.late),
                           !.docs.req = old(u.docs.req), !.docs.late = old(u.docs.late),
                           !.poll = IF ~polls THEN "off"
                                    ELSE IF settled \/ restart THEN "armed" ELSE @]

-----------------------------------------------------------------------------
(* loadFiles and loadParsedDocuments                                        *)

\* An abort ends a request that is sent.  One whose answer is being read goes on.
Aborted(q) == IF q.read THEN [q EXCEPT !.aborted = TRUE] ELSE NoRequest

\* The request before it is aborted.
Load(u, l, of, by) ==
    [u EXCEPT ![l].late = IF u[l].req.read THEN Aborted(u[l].req) ELSE @,
              ![l].req = [NoRequest EXCEPT !.of = of, !.by = by]]

LoadOpen(u, of, by) ==
    LET v == IF u.files.open THEN Load(u, "files", of, by) ELSE u
    IN  IF u.docs.open THEN Load(v, "docs", of, by) ELSE v

StatusesOf(l, b) ==
    LET there == {f \in Files : Home[f] = b /\ (l = "docs" => srv[f].chunks # "none")}
    IN  [f \in there |-> IF l = "files" THEN srv[f].file ELSE srv[f].chunks]

\* The headers of the answer come, and its body takes time.
Headers(l) ==
    /\ l \in Slow /\ IsLoading(l) /\ ~lib[l].req.read /\ lib[l].late = NoRequest
    /\ lib' = [lib EXCEPT ![l].req.read = TRUE]
    /\ UNCHANGED <<batch, srv, posts>>

\* The body has been read and is shown: nobody asks whether it has been aborted.
Show(l, q) ==
    [lib EXCEPT ![l].list = [of |-> q.of, status |-> StatusesOf(l, q.of),
                             able |-> {f \in Files : l = "docs" /\ srv[f].file = "ready"},
                             odd |-> q.aborted \/ q.by \in Batches],
                ![l].loaded = TRUE]

Loaded(l) ==
    /\ IsLoading(l)
    /\ Rendered([Show(l, lib[l].req) EXCEPT ![l].req = NoRequest])
    /\ UNCHANGED <<batch, srv, posts>>

LateLoaded(l) ==
    /\ lib[l].late # NoRequest
    /\ Rendered([Show(l, lib[l].late) EXCEPT ![l].late = NoRequest])
    /\ UNCHANGED <<batch, srv, posts>>

\* An error empties the list, unless the request has been aborted.  The timeout of
\* 20 s is one of them, until the headers have come.
LoadFails(l) ==
    /\ IsLoading(l)
    /\ Rendered([lib EXCEPT ![l].list = IF lib[l].req.aborted THEN @ ELSE Empty,
                            ![l].req = NoRequest])
    /\ UNCHANGED <<batch, srv, posts>>

LateFails(l) ==
    /\ lib[l].late # NoRequest
    /\ Rendered([lib EXCEPT ![l].late = NoRequest])
    /\ UNCHANGED <<batch, srv, posts>>

LoadEnds(l) == Loaded(l) \/ LoadFails(l)
LateEnds(l) == LateLoaded(l) \/ LateFails(l)

-----------------------------------------------------------------------------
(* What the user does                                                       *)

\* Fault injected: the requests for the base before are not aborted.
SelectBase_Keeps(b) ==
    /\ b # lib.base
    /\ Rendered([lib EXCEPT !.base = b, !.selected = {},
                            !.files = [Closed EXCEPT !.req = lib.files.req, !.late = lib.files.late],
                            !.docs = [Closed EXCEPT !.req = lib.docs.req, !.late = lib.docs.late]])
    /\ UNCHANGED <<batch, srv, posts>>

\* What is left of a list: an answer that is being read, which the controller still
\* belongs to, and a late one.
Left(l) == [Closed EXCEPT !.req = Aborted(lib[l].req), !.late = lib[l].late]

\* Another base: everything is closed, emptied and aborted.  The batches go on.
SelectBase(b) ==
    /\ b # lib.base
    /\ Rendered([lib EXCEPT !.base = b, !.files = Left("files"), !.docs = Left("docs"),
                            !.selected = {}])
    /\ UNCHANGED <<batch, srv, posts>>

\* toggleFiles, toggleParsedDocuments: loaded when opened for the first time.
Toggle(l) ==
    /\ lib.base # NoBase
    /\ LET u == [lib EXCEPT ![l].open = ~@] IN
       Rendered(IF u[l].open /\ ~u[l].loaded THEN Load(u, l, lib.base, "user") ELSE u)
    /\ UNCHANGED <<batch, srv, posts>>

\* The button beside the list of files.
CanRefresh == lib.files.open /\ ~IsLoading("files") /\ \A k \in Batches : batch[k].pc # "post"

Refresh ==
    /\ CanRefresh
    /\ Rendered(Load(lib, "files", lib.base, "user"))
    /\ UNCHANGED <<batch, srv, posts>>

\* refreshKey has changed: the queue above has stored something.  A page of
\* documents is turned, or an embedding is complete: the same load.
RefreshOpen ==
    /\ lib.base # NoBase /\ (lib.files.open \/ lib.docs.open)
    /\ Rendered(LoadOpen(lib, lib.base, "user"))
    /\ UNCHANGED <<batch, srv, posts>>

TurnDocuments ==
    /\ lib.docs.open /\ lib.docs.list # Empty /\ ~IsLoading("docs")
    /\ Rendered(Load(lib, "docs", lib.base, "user"))
    /\ UNCHANGED <<batch, srv, posts>>

\* The rows are shown while nothing is loading; one that is processing is locked.
CanToggle(f) == f \in FileRows \cap Selectable

ToggleFile(f) ==
    /\ CanToggle(f)
    /\ Rendered([lib EXCEPT !.selected = IF f \in @ THEN @ \ {f} ELSE @ \cup {f}])
    /\ UNCHANGED <<batch, srv, posts>>

\* As many as could be selected are selected: that may be others.
ToggleAll ==
    /\ FileRows # {} /\ Selectable # {}
    /\ Rendered([lib EXCEPT !.selected =
                    IF Cardinality(@) = Cardinality(Selectable) THEN {} ELSE Selectable])
    /\ UNCHANGED <<batch, srv, posts>>

-----------------------------------------------------------------------------
(* parseSelectedFiles and generateChunksForFiles                            *)

\* The buttons above the list need both kinds to be at rest, the button of a
\* document only its own.
CanBegin(k, todo) ==
    /\ todo # {} /\ batch[k].pc # "post" /\ posts + Cardinality(todo) <= MaxPosts
    /\ \/ /\ lib.files.open /\ ~IsLoading("files")
          /\ \A j \in Batches : batch[j].pc # "post"
          /\ todo = IF k = "parse" THEN lib.selected ELSE Chunkable
       \/ /\ k = "chunks"
          /\ \E f \in DocRows :
               todo = {f} /\ f \in lib.docs.list.able /\ lib.docs.list.status[f] # "processing"

\* The batch keeps the base and the open lists it began with.  Bound: it begins when
\* the batch before it has loaded its lists.
Begin(k, todo) ==
    /\ CanBegin(k, todo)
    /\ batch[k].pc = "idle"
    /\ batch' = [batch EXCEPT ![k] = [NoBatch EXCEPT !.pc = "post", !.of = lib.base, !.todo = todo,
                                        !.reload = {l \in Lists : lib[l].open}]]
    /\ posts' = posts + Cardinality(todo)
    /\ UNCHANGED <<lib, srv>>

\* The server claims the file, unless it is being processed already or the base
\* is not the file's: the answer to a parse request carries the new status.
Handle(k, f) ==
    /\ batch[k].pc = "post" /\ f \in batch[k].todo /\ batch[k].answer = "none"
    /\ LET claim == /\ Home[f] = batch[k].of
                    /\ IF k = "parse" THEN srv[f].file # "processing"
                       ELSE srv[f].file = "ready" /\ srv[f].chunks \notin {"none", "processing"}
       IN  /\ batch' = [batch EXCEPT ![k].answer = IF claim THEN "processing" ELSE "error"]
           /\ srv' = IF ~claim THEN srv
                     ELSE IF k = "parse" THEN [srv EXCEPT ![f].file = "processing"]
                     ELSE [srv EXCEPT ![f].chunks = "processing"]
    /\ UNCHANGED <<lib, posts>>

\* The answer to a parse request is put into whatever list is shown.
Answer(k, f) ==
    /\ batch[k].pc = "post" /\ f \in batch[k].todo /\ batch[k].answer # "none"
    /\ batch' = [batch EXCEPT ![k].answer = "none", ![k].todo = @ \ {f}]
    /\ Rendered(IF k = "parse" /\ batch[k].answer # "error" /\ f \in Shown(lib, "files")
                THEN [lib EXCEPT !.files.list.status[f] = "processing"] ELSE lib)
    /\ UNCHANGED <<srv, posts>>

\* Every request has been made: the selection is gone, whatever has been selected
\* since, and the lists that were open are loaded again, one after the other.
Posted(k) ==
    /\ batch[k].pc = "post" /\ batch[k].todo = {}
    /\ batch' = [batch EXCEPT ![k].pc = "files"]
    /\ LET u == [lib EXCEPT !.selected = {}] IN
       Rendered(IF "files" \in batch[k].reload THEN Load(u, "files", batch[k].of, k) ELSE u)
    /\ UNCHANGED <<srv, posts>>

FilesReloaded(k) ==
    /\ batch[k].pc = "files" /\ lib.files.req.by # k /\ lib.files.late.by # k
    /\ batch' = [batch EXCEPT ![k] = NoBatch]
    /\ Rendered(IF "docs" \in batch[k].reload THEN Load(lib, "docs", batch[k].of, k) ELSE lib)
    /\ UNCHANGED <<srv, posts>>

-----------------------------------------------------------------------------
\* Fault injected: a timer that finds a request under way does not come back.
Poll_Once ==
    /\ lib.poll = "armed"
    /\ IF \E l \in Lists : IsLoading(l)
       THEN lib' = [lib EXCEPT !.poll = "running"]
       ELSE LET v == IF Processing(lib, "files") THEN Load(lib, "files", lib.base, "poll") ELSE lib
            IN  lib' = [IF Processing(lib, "docs") THEN Load(v, "docs", lib.base, "poll") ELSE v
                        EXCEPT !.poll = "running"]
    /\ UNCHANGED <<batch, srv, posts>>

\* Three seconds have passed.
Poll ==
    /\ lib.poll = "armed"
    /\ LET v == IF Processing(lib, "files") THEN Load(lib, "files", lib.base, "poll") ELSE lib
           w == IF Processing(lib, "docs") THEN Load(v, "docs", lib.base, "poll") ELSE v
       IN  lib' = [w EXCEPT !.poll = "running"]
    /\ UNCHANGED <<batch, srv, posts>>

\* KnowledgeFiles: what is processing is settled, and a parse makes a document.
Settle(f) ==
    /\ \/ /\ srv[f].file = "processing"
          /\ \/ srv' = [srv EXCEPT ![f] = [file |-> "ready", chunks |-> "pending"]]
             \/ srv' = [srv EXCEPT ![f].file = "failed"]
       \/ /\ srv[f].chunks = "processing"
          /\ \E s \in {"ready", "failed"} : srv' = [srv EXCEPT ![f].chunks = s]
    /\ UNCHANGED <<lib, batch, posts>>

Goes(k) == Posted(k) \/ FilesReloaded(k) \/ \E f \in Files : Handle(k, f) \/ Answer(k, f)

Next ==
    \/ \E b \in Bases : SelectBase(b)
    \/ \E l \in Lists : Toggle(l) \/ Headers(l) \/ LoadEnds(l) \/ LateEnds(l)
    \/ Refresh \/ RefreshOpen \/ TurnDocuments \/ ToggleAll \/ Poll
    \/ \E f \in Files : ToggleFile(f) \/ Settle(f)
    \/ \E k \in Batches : Goes(k) \/ \E todo \in SUBSET Files : Begin(k, todo)

Spec == Init /\ [][Next]_lvars

-----------------------------------------------------------------------------
Statuses(of, status) ==
    /\ of \in Bases \cup {NoBase}
    /\ DOMAIN status = {} \/ DOMAIN status \subseteq {f \in Files : Home[f] = of}

TypeOK ==
    /\ lib.base \in Bases \cup {NoBase} /\ lib.selected \subseteq Shown(lib, "files")
    /\ \A l \in Lists : Statuses(lib[l].list.of, lib[l].list.status)
    /\ lib.poll \in {"off", "armed", "running"}
    /\ \A k \in Batches : batch[k].pc \in {"idle", "post", "files"} /\ batch[k].todo \subseteq Files
    /\ posts \in 0..MaxPosts

\* What is shown, and what is on its way, is of the selected base, although requests
\* of the base before are answered late.  There are two exceptions: a list that a
\* batch loads at its end is of the base the batch began with, and an answer that
\* was being read when it was aborted is shown all the same.
ListsBelong ==
    \A l \in Lists :
      /\ lib[l].list.of \in {NoBase, lib.base} \/ lib[l].list.odd
      /\ lib[l].req.of \in {NoBase, lib.base} \/ lib[l].req.by \in Batches \/ lib[l].req.aborted

\* An open list shows work under way: whichever requests, batches and timers come in
\* between, this has to settle once the server has settled.
Stuck == \E l \in Lists : Processing(lib, l)
=============================================================================
