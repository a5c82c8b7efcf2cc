# A verification project for the agent workflow application

The repository is a web application in which the members of a *workspace* keep
product knowledge (files, their parsed text, embeddings, imported products) and
talk to an agent that looks things up in it: a FastAPI backend (`app/`), a React
frontend (`frontend/`), SQL migrations, and operations commands. These modules
model the parts whose correctness depends on order: what overlaps, what fails half
way, what expires, what a restart interrupts, what is answered late. TLC checks them on small instances;
TLAPS proves the main invariants for every value of the constants.

All source paths below are relative to the repository. `PROJECT.json` lists, for
each definition, the lines it models.

## 1. The system

One backend process (`Dockerfile`: `--workers 1`) runs asyncio tasks: request
handlers, streaming generators and background tasks interleave at every `await`.
State lives in PostgreSQL (READ COMMITTED, no isolation override anywhere; a
request uses one or several short transactions), in Redis (resumable streams, rate
limits), in an object storage (local directory or S3), and in the process. A model
provider and an embedding provider are called over HTTP.

| Component | State it keeps | Operations | What is hard | What makes it correct |
|---|---|---|---|---|
| knowledge files and bases (`routes/knowledge_files.py`, `knowledge_bases.py`, `services/storage.py`) | `KnowledgeFile`, `KnowledgeParsedDocument`, `KnowledgeChunk` rows; objects | upload, parse, chunk, embed, list (recovers stale claims), status change, delete file, delete base | background tasks outlive requests, die in a restart, race each other and deletions; an object and a row are written without a common transaction | a row always has its object; no object is forgotten; statuses are backed by data; vectors belong to their text; nothing stays in `processing` |
| chat agent loop (`routes/chat.py`, `services/agent_tools.py`) | the conversation, counters of one request | request the provider, run tools, force a summary, retry, store the answer | the provider decides what comes next; two counters bound one loop | the tool budget, a reserved summary, a legal conversation, an end |
| resumable streams (`services/resumable_streams.py`) | three Redis keys per stream with TTLs | capture, resume | every command may fail, keys expire, producer and reader interleave per command | a resumed client sees a prefix without gaps, and everything when it ends by `done` |
| workspace members (`routes/admin_members.py`, `core/permissions.py`, `core/workspace_access.py`, `db/grant_workspace_member.py`) | `WorkspaceMember`, permission overrides | create, edit, suspend, reactivate, grant from the command line | two administrators at once; authority read in an earlier transaction | permissions are those of one request; an owner and a manager remain |
| business imports (`routes/business_imports.py`, `services/business_import_application.py`, `services/business_imports.py`) | `ImportJob`, `ImportProposal`, products and facts | analyse, decide, apply, list | disconnects, two applies, decisions during an apply, deletion of the source | one product per approved proposal; a completed job is settled |
| sessions and passwords (`routes/auth_local.py`, `auth_passwords.py`, `auth_password_resets.py`, `db/auth_sessions.py`) | `AuthSession`, credentials, reset tokens | login, session lookup and touch, logout, password change and reset | a login that races a password change; a token used twice | a revoked session stays revoked; a token works once |
| invitations (`routes/auth_invitations.py`, `settings/memberPermissions.tsx`) | invitation rows, accounts; the link on the page | create, regenerate, revoke, activate, expire | row locks and the advisory lock of an email are taken in both orders; answers to three mutations of one page cross | one way in per email; the link shown works |
| rate limits (`core/rate_limit.py`) | counters with windows | hit | increment and expiry are two Redis commands | at most the limit per window, and never for ever |
| chat store (`routes/chats.py`, parts of `routes/chat.py`) | `Chat`, `Message_v2` | create, append, list pages, delete | a chat deleted while it streams; pages while rows appear | no orphan message; a page skips nothing |
| agent runs (`services/agent_workflow.py`) | the conversation of one run | run | as the chat loop | as the chat loop |
| knowledge access (`core/knowledge_access.py`, `routes/admin_knowledge_grants.py`) | grants | grant, revoke, check | checks in an earlier transaction | a permission is that of role and grant |
| authentication, identities (`core/auth.py`, `core/identity.py`) | JWKS cache, linked identities | verify, refresh keys, link | refresh under failure | stale keys are bounded |
| upload page (`upload/uploadPage.tsx`, `automatedIngestion.mjs`, `knowledgeFileLibrary.tsx`) | queue entries, the stage of the automated run, two lists with their polls and batches, cards with pages of chunks | add, remove, upload, select a base, poll, parse, chunk, embed, turn pages | every request may be answered after the base, tab, document or page was changed | what is shown belongs to what is selected; "complete" and "uploaded" are true; every wait ends |
| import review (`upload/businessImportReview.tsx`) | the jobs loaded last, the text of the own stream | analyse, decide, apply, load | loads are neither numbered nor aborted | a reviewer at rest sees what he was told is done |
| settings (`settings/*.tsx`) | forms over cached lists | save, add, switch, rename, delete, grant | a save, a refetch and a new selection cross | a form holds its own member's, base's or grant's data |
| business tables (`businessTables/businessDataTablesPage.tsx`) | search, filters, grid blocks, saved columns | type, filter, scroll, open another table | answers and events of a table that was left | the rows and columns on screen are those of the table on screen |
| session and requests in the browser (`lib/auth.tsx`, `lib/auth/*`, `lib/backend/*`, `App.jsx`) | the session as read last, `/me`, CSRF token per tab, cookie for all | read, log in and out, guard pages, recover a refused request | reads, events and forms in any order; two tabs share a cookie | the signed-in user is shown; nothing is done twice; no spinner for ever |
| chat page (`chat/*.tsx`, `hooks/*`, `ai-elements/promptInput.tsx`) | messages, stream, edited question, sidebar cache, composer, scroll position | open, send, edit, stop, resume, attach, delete, scroll | a chat is left and reopened while it streams; uploads and forms outlive their chat | only the chat on screen is shown; a message is sent as it was composed |

(Frontend paths are below `frontend/src/components` unless `lib` or `hooks` is named.)
The remaining parts (read-only reports, parsing of documents, configuration,
migrations, presentation) keep no state of their own; `PROJECT.json` lists every one
with the reason for leaving it out.

*Interactions.* A chat request passes the events of the agent loop through the
stream store (`ResumableStream` carries whatever `ChatAgent` emits: a chunk is a
number there, an event here). Deleting a file cascades from `KnowledgeFiles` into
`BusinessImport`. Every handler asks the members' permissions first, in a
transaction of its own, so that an authorization may be older than the change it
permits. The frontend modules each contain the server as far as their requests see it:
`FileLibrary` polls what `KnowledgeFiles` changes, `ImportPanel` shows a job of
`BusinessImport`, `MemberPanel` edits what `WorkspaceMembers` stores, `ChatSidebar`
and `ChatScreen` show what `ChatStore` holds and `ResumableStream` carries.

## 2. Modules

| Module | Models | Checked by | Proved in |
|---|---|---|---|
| `KnowledgeFiles` | one knowledge base, its tables, the storage and all tasks | `MCFilesAndMembers.cfg`, `MCKnowledgeFiles_*.cfg` | `KnowledgeFiles_proofs` |
| `ChatAgent` | `stream_chat`'s loop | `MCChatAndImport.cfg`, `ChatAgent_markup.cfg` | `ChatAgent_proofs` |
| `ResumableStream` | `capture` and `resume` | `ResumableStream.cfg` | `ResumableStream_proofs` |
| `WorkspaceMembers` | one workspace's members | `MCFilesAndMembers.cfg`, `WorkspaceMembers_owner.cfg` | `WorkspaceMembers_proofs` |
| `ImportReview` | what an import promises its reviewers (abstract) | through `BusinessImport` | `BusinessImport_proofs` |
| `ChatStore` | chats and messages of one user, deletion, the sidebar's pages | `MCChatStore.cfg` | `ChatStore_proofs` |
| `BusinessImport` | jobs, proposals and products of a workspace | `MCChatAndImport.cfg`, `MCBusinessImport_duplicate.cfg` | `BusinessImport_proofs` |
| `DataPages` | the frontend's pages of data, its settings and its request layer: `UploadQueue`, `AutoIngestion`, `FileLibrary`, `DocumentCard`, `BusinessTables`, `AppSession`, `ApiClient`, `MemberPanel`, `Invitations`, `BaseManagement`, `BaseGrants` | `MCDataPages.cfg` | `DataPages_proofs` |
| `ChatAndReview` | the frontend's import review and chat: `ImportPanel`, `ChatSidebar`, `ChatScreen`, `AnswerView`, `Composer` | `MCChatAndReview.cfg` | `ChatAndReview_proofs` |

Constants describe the instance (sets of files, users, requests), and every bound
is a constant of its own with a comment that says `bound`. The `MC` modules
only define instances and symmetry. Two of them put two modules that share no row and no
message side by side, `MCFilesAndMembers` (`KnowledgeFiles` and `WorkspaceMembers`) and
`MCChatAndImport` (`ChatAgent` and `BusinessImport`): one of the two is at work in a
behaviour (`part`), chosen by the initial state, so that one run explores both
completely. For that, some definitions of `ChatAgent` and `WorkspaceMembers` carry a
prefix (`AgentNext`, `MembersTypeOK`). A definition whose comment begins with
`Fault injected` is a deliberately broken version of the definition after it: it
is used by nothing in the specification, and replacing the original by it must
make a named property fail, which shows that the property depends on that code. Most
conjuncts of a property have one of their own; `PROJECT.json` lists one per property.

### KnowledgeFiles

`row`, `parsed`, `chunks` and `kb` are the tables, `blob` the objects, `task[t]` a
request handler or background task (`pc` names the `await` it stands at, the other
fields are its local variables). One committed transaction is one step. The
replacement of a file's chunks is the only transaction whose statements are apart
(`clear`, `write`), because embedding reads between them. A fault makes a
transaction fail (`error`, `down`) or loses the answer of a committed one (`lost`);
`Restart` ends every task. `GoStale` is the passing of the stale timeout.

* `HandlersOwnFiles` (with `RowHasObject` as a part): uploads put the object before the row and
  deletions remove the row before the object, and no two handlers may own one object.
* `ObjectsAccounted`: an object without a row is in some handler's hands or was
  left by a fault (`leaked` records which).
* `DerivedDataHolds` (of `ChildrenHaveFile`, `StatusBacked`, `VectorsMatchText`): what a
  status or a vector says is true of the other tables. `parsed[f].doc` counts how often
  the document was saved, and chunks carry the one they were cut from. Ready chunks are those of
  the stored document, except when it was saved while a task was cutting the one before it
  (`overtaken`); `ChunksAreCurrent`, what the documentation says, has no such exception
  and fails (section 5).
* `ChunkClaimsHeld`: a chunk claim has no time limit and refuses every later one. While it
  stands, some task is at work that will replace it, or a fault of the claim, of its last
  update or of the process left it (`abandoned`): no path of the code forgets it.
* `FileLeavesProcessing`, `TasksEnd` (liveness): see Fairness below.

### ChatAgent

`step` is the `for` loop's variable, `tools` is `tool_step_count`, `asked` and
`replied` count tool calls and tool messages in the conversation. The provider
answers anything: text, calls (up to `MaxCalls`), DSML markup that parses or does
not, an error.

* `ToolBudget`: `executed <= MaxSteps`, over answers that each hold several calls.
* `SummaryReserved` (of `LastIterationIsSummary` and `SummaryAfterTools`): the last
  iteration is always one that asks without tools, although two counters lead to it, and
  after tools only an answer to a summary request is stored (`last` is what the answer
  read last was). One way out is excepted: markup that is no call, in the last iteration,
  where the first repetition is still granted but no iteration is left for it. The stream
  then finishes and stores the notes before it; `MarkupEndsInError`, what the comment in
  the code says, fails on it (section 5).
* `ConversationComplete`: when the provider is asked, each tool call has its message.
* `ReplyEnds` (liveness): the event stream ends.

### ResumableStream

One step is one Redis command; it works, is lost, or works and reports an error.
`Tick` lets the TTLs run. `reader[r].out` is what the resumed client got.

* `ResumeTells` (of `OutputIsPrefix` and `DoneMeansComplete`): a reader's output is a
  prefix of its stream, whatever failed, and one that ends because `done` is set has
  everything. The code reads `done` before the list; the mutant reads it after and loses the tail.
* `ReadersEnd` (liveness): a reader of a producer that died stops.

Assumption: the time between two chunks of one stream is shorter than the TTL of
its list (`Tick` does not expire the list of a stream whose producer is between two
chunks). The default TTL is 86400 s and the provider's timeout at most 300 s; a TTL
configured at its minimum of 60 s with a slow provider is outside this model.

### WorkspaceMembers

`tx[t]` is a request with its local variables; a step is an SQL statement, row
locks (`lock`) are held until the commit, and a `SELECT` sees what is committed.
The caller is authorized in an earlier transaction. `wanted` remembers what the last
request that committed for a member asked for.

* `EffectiveIsWanted`: a member's effective permissions (role defaults, overrides,
  prohibitions) are exactly those of the last committed request, although the
  overrides are replaced by a DELETE and an INSERT in two statements.
* `SerialIsSafe` (of `SerialKeepsOwner` and `SerialKeepsManager`): as long as requests do not overlap
  (`overlap` remembers whether they ever did), an owner and a member who can manage
  members remain after any sequence of them. With two requests at a time `KeepsOwner`
  fails (section 5).

### ChatStore

`chat`, `asked` and `answered` are the rows of `Chat` and `Message_v2`, each as its
creation time (0: no row); `req[r]` is a `POST /chat` request, `del[d]` a deletion with
what it has deleted and not committed, `pager` the sidebar. A request looks for its chat
(`Ask`), stores the question and the title and commits (`PrepareWrite`), streams, and
stores the answer in a transaction of its own (`Save`). A deletion selects, deletes the
messages, deletes the chats and commits, and others act between its statements. Creation
times are those of `CURRENT_TIMESTAMP`: when the transaction began, not when it committed.

* `ChatsAreAsked`: a chat is there if and only if a question of it is, and its title is
  one of its questions with text, if it has one.
* `AnswersFollow`: an answer is stored in a chat that exists and after its question. The
  exception is a chat that is deleted and begun again under its id while the answer
  streams (a second tab): the answer lands in the new chat.
* `StoredStays` (action property, of `MessagesLeaveWithChat` and `TitleStays`): a message
  disappears only together with its chat, so that a deletion whose foreign key fails,
  because a message came in between its statements, takes nothing; and of two first
  questions that race for a title, whichever is first stays.
* `PagesTell` (of `PagesDescend` and `PagesComplete`): pages are in order without repetition, and at the end
  every chat that was there from the first page on has been shown. Both hold only while no
  cursor is a chat that was deleted and begun again (`pager.jumped`), because the cursor's
  time is looked up anew.

`PrepareWrite` takes the inserts, the update of the title and the commit in one step: a
transaction that has begun to write waits for nobody afterwards, and `PrepareFails` covers
every way for it to fail. Requests that continue an answer without a user message, and
the two-query read of one chat's messages, are left out. `CHECK_DEADLOCK FALSE`: requests
and deletions are used up, and then the instance stops.

### BusinessImport

`job` and `prop` are the two tables, `products[p]` the number of products written for
a proposal, `stream[j]` the streaming request that analyses, `apply[a]` the
transaction of an apply request with its uncommitted work (`done`), `file[f]` the
source file's row. The job's row lock is held from `LockJob` to `CommitApply`; the
inserted products pin the file's row by their foreign key; a deletion locks the file
row first and the job rows in its cascade, so the two can deadlock, and the database
breaks that (`BreakDeadlock`). `Disconnect` may or may not get its `failed` mark
committed: the cancelled request awaits the database while it is being cancelled.

* `OneProductEach`: exactly one product for a proposal marked `applied`, none
  otherwise, for all overlaps of two applies.
* `CompletedIsSettled`: a completed job has nothing pending or approved, although
  reviewers decide between the transaction's statements.
* `OnlyApproved` (action property): a product is written only while the approval stands.
* `NamesDiffer`: the products of one job differ in their names, and from what the
  catalog had before. Across two jobs, `NoDuplicateProduct` fails (section 5).
* `ImplementsReview` (refinement): seen through the statuses of the proposals, their
  products and the set of completed jobs, every step is a step of `ImportReview`
  (propose, judge, publish, unsettle, withdraw) or shows nothing. `ImportReview` has no
  requests, transactions, locks or cancellations; the commit of an apply, for one, is
  the single step `Publish`, whose count must hold when it is taken.
* `ApplyEnds` (liveness): apply requests are answered, including the deadlock.

`CHECK_DEADLOCK FALSE` in its configurations: once every file is deleted and every
request has been answered, the instance has nothing left to do.

### The frontend: DataPages and ChatAndReview

Each part of the frontend is a module of its own, whose variables are the component's
React state, its requests under way, as much of the server as those see, and history
variables that record what excuses a difference. A handler is one action up to its next
`await`, an answer is another; JavaScript runs each to its end, so nothing comes in
between. Parts meet only through inputs that each takes at any moment (the base is
changed, the library is told to load, a chat is opened, the session ends), so `DataPages`
and `ChatAndReview` mount one part in a behaviour (`part`, chosen by `Init`) and give
the others no state: one exhaustive run explores all of them, and nothing is lost that a
part could do to another beyond those inputs. The properties of the two modules are
conjunctions over the parts.

| Part | State and actions | Property and its exceptions |
|---|---|---|
| `UploadQueue` | `page`, `item`, `loop` with the snapshot `uploadFiles` works on; files are added and removed, bases and tabs selected while it runs | `EntriesTell`: a waiting entry was never sent, an uploaded one is stored once, in one base |
| `AutoIngestion` | `panel`, `run` with its attempts and pages, `srv` that works on between requests | `CompleteIsTrue`, except after other users had the file worked on again; `Advances` (action): the stage never goes back |
| `FileLibrary` | `lib` with two lists, the request each waits for (`req`) and one whose abort came too late (`late`), `batch` with the closure's base, `srv`. An abort, as the timeout, ends a request only until the headers have come: `requestBackend` returns the promise of the body without awaiting it, and the handlers do not look at `signal.aborted` | `ListsBelong`, except for a list that a batch loads at its end and an answer that was being read when it was aborted (`odd`); `Stuck` ends |
| `DocumentCard` | `card`, `sel` with its loads, the document at the server; the language stays (section 7) | `PageIsAsked`, `PickedIsShown`: no chunk is embedded that was picked on a page that has gone |
| `BusinessTables` | `grid` and `asks` of the current and dropped blocks, `saved` columns | `RowsTell`; `ColumnsStick`, except for a dragged header reported after another table was opened |
| `AppSession` | `page` (session, `/me`, what is blocked), reads by who asked, the form | `SignInSticks`, except when a read had begun before the form was sent; `ShutOut` |
| `ApiClient` | token per tab, one shared refresh per tab, calls that are sent at most twice, a cookie for all | `AppliedOnce`; `RefusedByOthersOnly`: only another tab or a logout makes a call fail twice |
| `MemberPanel` | the cached list, the form, three mutations, a list fetch | `CleanShowsMember`, `ListIsServers`, except for a switch turned during a save, a discarded selection of the same member, and crossing answers |
| `Invitations` | rows, accounts, handlers with the locks they hold or wait for, the page's link | `OneWayIn`; `LinkWorks`, except when the page's own requests crossed or others acted |
| `BaseManagement` | the list, the name field, three requests with their closures | `RenamesOwnName`, `ListTells`, except for changes answered during a deletion |
| `BaseGrants` | grants by id, the panel, a save and deletions under way | `GrantsTell`, except for a save and a deletion of one grant side by side |
| `ImportPanel` | the dialog, loads by who began them, the latest job, other reviewers | `ShowsOwnWork`, except after a load that failed or overlapped another |
| `ChatSidebar` | pages and local entries of the cache, fetch, deletions, the router's and the real chat. A page is the set of its entries, each with the time it stands under (the server's, or that of the event that put it first), so that the order of a page is that of the times and the next cursor its lowest entry | `SidebarTells`, `TitlesBelong`, `DeletedLeaves`, except for events of a chat that was left |
| `ChatScreen` | stored messages, turns, the view, the query cache, loaded ids | `ViewBelongs`; `ViewTells`, except for a chat that was on screen before and what was stopped, cleared, lost or asked by a suggestion beside a stream that is still read (`also`) |
| `AnswerView` | the last message as streamed, the list's scroll state with its events and frames | `AnswerTells`, except for two cards that never look at an error; `ReaderKept`, except within 150 ms of a scroll |
| `Composer` | text, attachments, uploads, forms being converted, the base per chat, the model | `SentIsComposed`: images of another chat, repeated or lost ones and a widened base, each excused by a recorded cause only |

`hist`, `past`, `seen`, `odd`, `behind` and `misled` are the recorded causes. They are
part of what the model says: each names a behaviour of the code that makes screen and
server differ (section 6 lists them), and the property says that there is no other.

* `UploadPageTells`, `TablesTell`, `SessionHolds`, `SettingsTell`, `ReviewTells`,
  `ChatTells`, `SidebarLists`: the parts' properties above, by page; the chat page's are
  `ChatTells`, those of the list beside it `SidebarLists`.
* `WaitsEnd` (liveness, and the action property `Advances`): whatever the page waits
  for, the upload loop, the automated run, work that a list shows, a loading screen, or
  a request that recovers, is not waited for for ever, unless a request stays unanswered
  for ever (`AllAnswered`).

`CHECK_DEADLOCK FALSE`: the user's inputs are bounded, and then a page rests.

## 3. Runs and bounds

| Run | Instance | Shows |
|---|---|---|
| `files_and_members` | files: 2 ids of one content, 2 tasks, 5 requests, 1 fault. Members: 2 users, 2 concurrent requests, three roles, two lists of permissions | storage and rows agree, and two uploads of one content conflict on the unique hash; permissions are those of one request, and while requests do not overlap, an owner and a manager remain. One of the lists is what an employee may not have |
| `files_process` | 1 file, 2 chunks, 2 tasks, 4 requests, 1 fault | statuses, vectors and claims; under fairness nothing stays in `processing` and no task hangs |
| `chat_and_import` | chat: budget 4, answers of up to 5 calls. Import: 1 file, 1 job of 3 proposals, 3 names of which the catalog has one, 2 applies | the budget (5 > 4, so one answer can exceed it), the summary and the end of the stream; one product per proposal, names, completed is settled, `ImportReview` is implemented, applies are answered |
| `stream_chunks` | 2 requests of a chat, 1 reader, TTL 1, 2 chunks | prefix, completeness, end of the reader; readers do not influence each other, so one is enough |
| `chats_store` | 2 chats, 3 questions of which one has no text, 2 requests, 2 deletions, pages of 1, 2 instants | two instants give equal and different creation times; pages of one put every chat at a page's end; two deletions overlap as one chat and all, or twice the same |
| `data_pages` | queue: 3 files of which 2 are accepted, 2 bases; automated run: 3 attempts, 2 pages of chunks; library: 1 parsed file, 1 batch request, a body that takes time; card: 2 generations of a document; 3 tables, 2 searches; 1 user with changing access; 2 tabs with 3 calls; 2 members; 1 email, 2 invitations, 4 requests; 2 names of bases; 3 grants | the upload page, the tables, the settings, the session and the CSRF recovery. Two bases, pages, tables, members or tabs are what a late answer needs to reach the wrong one; three calls let two of one tab share a refresh while the other tab signs out; two invitations of one email are what a creation and a renewal that overlap make |
| `chat_and_review` | 1 proposal, 2 jobs; 4 chats in pages of one, 2 fetches; 2 chats with 2 turns; answers of 2 calls; 2 images, 1 draft, 5 inputs | review and chat. Two of each kind let requests cross; the second job or turn lets an older answer meet a newer object |
| `files_chunks`, `files_kbdelete` | 1 file, 1 chunk, 2 tasks, 5 requests, no fault | violations, section 5 |
| `chat_markup` | budget 4, answers of up to 5 calls | violation, section 5 |
| `members_owner` | 2 users, 2 concurrent requests, one role | violation, section 5 |
| `imports_duplicate` | 2 files, 2 jobs of one proposal, 2 names, 2 applies | violation, section 5 |

Two tasks or transactions are enough to produce each race in the hazards list, as the
violations in section 5 show: those that need an overlap need exactly two. Requests and faults are
bounded to keep the state space finite; four requests allow upload, re-parse, chunk
and deletion in one behaviour. TLC explores each instance
completely. Symmetry (of tasks, of transactions) is used only where no liveness
property is checked.

### Fairness

* `KnowledgeFiles!Fairness`: the event loop resumes every task (`Step`), time
  passes (`GoStale`), and the listing is requested again and again (`ListFiles`):
  `frontend/src/components/upload/knowledgeFileLibrary.tsx` polls it every three
  seconds while a file is being processed and the library is open. Without an open
  library nothing recovers a stale claim, so `FileLeavesProcessing` is a statement about
  files that someone looks at. User requests and faults are not fair.
* `ChatAgent!AgentFairSpec`: the loop goes on; the HTTP client has a timeout, so the
  provider answers or fails.
* `ResumableStream`: generators are driven, the source ends, time passes.
* `DataPages!Fairness`: only what the code drives by itself. The upload loop goes on to its
  next file or its end, the poll's timer runs out, and the server finishes what it has
  claimed (`FileLibrary!Settle`, which is `FileLeavesProcessing` of `KnowledgeFiles`).
  Nothing the user does is fair, and no answer is. `/auth/session` and `/auth/csrf`
  (`lib/auth.tsx`, `lib/auth/localSession.ts`), uploads (`lib/backend/directClient.ts`),
  the automated run and the batches set no timeout, and where `requestBackend` has one it
  ends with the headers, before the body is read. That the requests of a kind are answered
  some time, or fail, is the premise `AllAnswered` of `WaitsEnd` and part of what it says:
  an unanswered request is the only thing that keeps the page waiting.
* `BusinessImport`: strong fairness of each apply's next statement, because
  PostgreSQL grants locks in the order of their queue, and the breaking of deadlocks,
  which the server does after `deadlock_timeout`.

## 4. Proofs

Each `_proofs` module extends its component and proves theorems by inductive
invariants, with one lemma per action (or per kind of step) and lemmas about the
model's operators that these cite. The invariants that carry them, and what the
property alone does not say:

| Theorem (in the component's `_proofs`) | States | Carried by |
|---|---|---|
| `KnowledgeFiles`: `TypeCorrect` | `TypeOK` | itself |
| `OwnershipKept`, `RowsHaveObjects` | `HandlersOwnFiles`, `RowHasObject` | ownership of ids by handlers: `RowHasObject` alone says nothing of an upload between its object and its row |
| `DerivedDataKept` | `DerivedDataHolds` | `DerivedInv`: what a task carries between two statements. Chunks about to be written were cut from the stored document, or the file is recorded as overtaken, and a vector on its way is checked against the text once more; without that, a slow task could bring old data back |
| `ChunkClaimsKept` | `ChunkClaimsHeld` | itself with `TypeOK`: a step of a task keeps its claim, replaces the status or records the fault, and a step of another task touches neither |
| `ObjectsKept` | `ObjectsAccounted` | `ObjectsOwned`: an object without a row is held by a handler *of that very file*, or a fault left it; the keys a deletion of the base has read do not count, because it may give up |
| `ChatAgent`: `TypeCorrect`, `BudgetKept`, `ConversationKept`, `LastIterationReserved`, `SummaryIsReserved` | `AgentTypeOK`, `ToolBudget`, `ConversationComplete`, `SummaryReserved` | the relation of the two counters: each iteration that did not summarise ran a tool or spent the only retry. For `SummaryReserved` also what was read last: markup that is no call leaves the loop only where an iteration after it would be the one too many |
| `ResumableStream`: `TypeCorrect`, `PrefixKept`, `ResumeIsTrue` | `TypeOK`, `OutputIsPrefix`, `ResumeTells` | a list holds a prefix of what was sent, is complete once `done`, and never shrinks under a reader except to nothing |
| `WorkspaceMembers`: `TypeCorrect`, `PermissionsKept` | `MembersTypeOK`, `EffectiveIsWanted` | the row lock: a transaction that has changed a member is the only one that can change its overrides |
| `SerialSafe` | `SerialIsSafe` | `SerialInv`: one request is open at a time, and what it read when it was checked (a caller who manages, another active owner) still holds at its last write. The lemma about the count of owners: more than one leaves one besides any user |
| `BusinessImport`: `TypeCorrect`, `ProductPerProposal`, `CompletedSettled`, `ApprovedOnly` (action) | `TypeOK`, `OneProductEach`, `CompletedIsSettled`, `OnlyApproved` | one apply per job, working on approved proposals of that job; a job that is reviewed gets no more proposals; what was counted as settled stays so |
| `NamesKept` | `NamesDiffer` | `NamesInv`: the products an apply has written and not committed fit those of its job, the catalogue and each other |
| `ReviewImplemented` | `ImplementsReview` (refinement) | one lemma per kind of visible step, under the same invariant: a commit publishes because the approvals read still stand, and settles because the count still holds |
| `ChatStore`: `TypeCorrect`, `ChatsKept`, `AnswersKept`, `MessagesKept`, `StoredKept` | `TypeOK`, `ChatsAreAsked`, `AnswersFollow`, `StoredStays` (action) | what a deletion has deleted is held by it alone and still there for the others; when it commits, it holds whole chats |
| `PagesKept` | `PagesTell` | `PagerInv`: what was there from the first page on is shown or comes after the last chat shown. It rests on lemmas about the order of (time, id) and about a sorted finite set of rows and its first ones |
| `DataPages`: `TypeCorrect` | `TypeOK` | the eleven invariants below, one per part; `PartsInv` selects that of the part that is mounted |
| `UploadPageKept` | `UploadPageTells` | `QueueInv`: an entry as its own loop left it; `AutoInv`: what the panel says was so at the server and stays so; `LibraryInv`: a list, and a request for one, belong to the base, or a batch or a late abort is on record with it, on its way as in the list it fills; `CardInv`: the chunks of a card are those of the page that was asked |
| `ProgressKept` | `Advances` of `AutoIngestion` (action, a part of `WaitsEnd`) | `Reached`: the stage on screen is the one the run has reached, and what led to it at the server (a document that is stored, chunks that were cut) is not undone but by others |
| `TablesKept` | `TablesTell` | `TableInv`: an answer taken up is that of the *latest* request, since a later one drops it |
| `SessionKept` | `SessionHolds` | `SessionInv`: a read on its way is of the cookie there is or clears it; `ClientInv`: only one tab holds the cookie's token, and a refused call has been applied by nobody |
| `SettingsKept` | `SettingsTell` | `MemberInv`: as long as no answers crossed, list and form lack only what is being answered; `InviteInv`: no two transactions hold one email or one row, and a renewal has revoked all that was open; `ManageInv` and `GrantInv`: the page differs from the server only in what is on its way |
| `ChatAndReview`: `ReviewKept` | `ReviewTells` | `ImportInv`: a single load under way was begun after all that this reviewer was told is done |
| `ChatKept` | `ChatTells` | `ScreenInv`: every message, in the view, in the query's cache and on its way, is of a turn that was asked in its chat; the answer of a turn that is over is stored; and unless a cause is recorded, the view of a chat at rest is what is stored of it, or what its load will bring; a stream read beside another is of the chat on screen, and recorded. `AnswerInv`: the calls that have run are the first `used` ones, each with its result, and those after them have none; what a reader at the end has not been shown is in a frame on its way. `BoxInv`: an image is of the chat it was put in unless it is recorded as carried, it is in the box, in a form on its way or sent, never in two of them unless forms crossed, and the base that is shown is the one a message is limited to |
| `SidebarKept` | `SidebarLists` | `BarInv`: pages, those that are cached and those a fetch is putting together, begin at the newest chat, have no gap but for chats that are local, about to be, or being deleted, and end where the server says that no more follow; what a later page holds lies below all of an earlier one, so that the lowest entry of the last page is the right cursor although entries were put first and deleted in between; local entries and titles are of chats begun here, under their own titles; a chat that is being deleted has no stream and is not on screen |
| `TypeCorrect` | `TypeOK` | the five invariants above, one per part; `PartsInv` selects that of the part that is mounted |

Several invariants are conditional, as the properties are: they hold as long as a
recorded cause (`overlap`, `crossed`, `lost`, `misled`, `behind`) has not happened, and
every step that could break them records one. That the causes are the only ones is what
the theorems say; section 6 lists them.

The assumptions are the named `ASSUME`s of the modules: positive bounds, a first chat,
finite sets where the code sorts or counts (`Chats` of `ChatStore`, `Files` of
`DataPages`), a home base of each file, and ids that are none of the words the model uses for nothing
(`"none"`, `"absent"`), as ids of the database are. Nothing is assumed about the number
of tasks, users, files, tabs or requests. TLC evaluates all of them in every run.

What is model-checked only:

* the liveness properties (`FileLeavesProcessing`, `TasksEnd`, `ReplyEnds`, `ApplyEnds`,
  `ReadersEnd`, `WaitsEnd`) and everything else under fairness or about `ENABLED`, which
  the prover does not reach. Every invariant and every action property of the passing
  runs has a theorem.

The proof of `ChatKept` corrected the model once: `Composer!HandleSubmit` recorded that two
forms had crossed only if the second was still to be converted, so that a message of text
alone, sent while an earlier one with images was being converted, was excused by nothing.
TLC had not met it, because the instance sends one draft. For the sidebar the model was
stated anew: its list was a concatenation of filtered sequences, computed by recursive
operators whose value for every list is a fact by induction over data, which the prover
does not reach. A page now holds the time each entry stands under, which says the same of
its order (the server sorts by creation time, and an entry made here is put first), and
`Rows` names the rows that are drawn, so that a chat that is drawn twice is still seen.

## 5. Where code and documentation disagree

Each has a run that expects the violation.

| Run | Statement | What the code does |
|---|---|---|
| `files_kbdelete` | `README.md:253`: deleting a base removes the objects of its files | a file inserted between the key query and the `DELETE` leaves its object |
| `files_chunks` | `docs/KNOWLEDGE_FILE_PARSING_TOOL_LAYER.md:91`: the claim is atomic, and `ready` chunks are those of the current parsed document | a re-parse saves its document and makes chunks claimable again while the task of the claim before it is cutting the replaced one; that task writes its chunks and marks the new document `ready` |
| `chat_markup` | comment at `app/api/routes/chat.py:729`: markup that is no call is repeated once without tools, then the stream ends with an error instead of a misleading answer | in the last iteration the repetition is granted, but no iteration is left for it: the stream finishes normally and stores the notes that came before |
| `members_owner` | the check at `app/api/routes/admin_members.py:763`: at least one owner remains | two owners suspend each other concurrently |
| `imports_duplicate` | docstring at `app/services/business_import_application.py:24`: never silently a duplicate product | two applies do not see each other's uncommitted insert |

## 6. Behaviours that the properties except

What the code does that a user may not expect, each reached by a model and excused by
name where a property would otherwise fail.

* `knowledge_files.py`: a restart after the chunk claim, or a fault of its last update,
  leaves `chunkStatus` `processing`.
* `business_imports.py`: a crash leaves a job `analyzing`; a late cancellation overwrites
  `awaiting_review` with `failed`.
* `resumable_streams.py`: a second request of a chat takes the active key of a stream that
  still produces; a failure before `EXPIRE` leaves a list without an expiry.
* `chat.py`: an answer is stored in a chat that was deleted and begun again under its id.
* `admin_members.py`: a caller who is demoted after his authorization still edits.
* `auth_invitations.py`: create takes the email's lock before the rows, regenerate the row
  before the email; the two can deadlock, and the database ends one of them. Overlapping
  create and regenerate leave the older link on the page.
* `lib/auth.tsx`: a session read that began before a login can be applied after it, and
  its answer can delete the new cookie.
* `knowledgeFileLibrary.tsx`: a batch loads the lists of the base it began with; a failed
  poll empties the list, and with that ends the polling. A list whose body was being read
  when another base was selected is shown under that base, and counts as loaded there.
* `businessImportReview.tsx`: of two overlapping loads the older may be shown.
* `memberPermissions.tsx`: selecting the selected member and discarding keeps the edits
  but marks them clean. `knowledgeBaseManagement.tsx`: the answer to a deletion puts back
  the list as it was when it was confirmed; a rename's answer fills another base's field.
* `useActiveChat.tsx`: a chat that is opened again shows the messages it was left with.
  `shell.tsx`: leaving a chat stops the stream of the chat that is opened.
* `sidebarHistory.tsx`: a fetch that began before a deletion lists the chat again; when the
  last page becomes empty older chats are not loaded. A title that arrives after its chat
  was left is put under the chat on screen.
* `multimodalInput.tsx`: images whose upload ends after another chat was opened are
  attached there. A suggestion can be clicked while the answer of a conversation cleared
  meanwhile is still read (`suggestedActions.tsx` tests no status), and both streams are
  read into one view. An unknown slash command stays in the box and is not sent.
* `useScrollToBottom.tsx`: what grows within 150 ms of a scroll is not followed.

## 7. Not modelled, and why

* Texts, prompts, parsing, validation of the agent's output: data; a model takes
  their outcomes (ok, failed) as free choices.
* `BusinessImport` merges the lock of the job with the reading of the approved
  proposals (a decision in between is equivalent to one before), and the duplicate
  check with the insert (their own transaction sees both, no other sees either). A
  commit whose answer is lost is not modelled there.
* Authorization is modelled where it is part of the property (`WorkspaceMembers`,
  `AppSession`); the other modules start behind it.
* Several server processes: the deployment runs one.
* Of the frontend: layout, icons, translations, the artifact panel, votes, speech and
  screenshots of the prompt library, file types and sizes, the appearance settings.
  The language of the page stays the same: the loaders of `knowledgeFileLibrary.tsx`
  depend on the translation function, so that a change of language begins another load of
  an open card beside one under way. React's rendering is immediate: an effect runs in the step that changes what it depends
  on. `useChat`, React Query, the router and the grid are external and modelled from how
  the code uses them.
* In `DataPages` and `ChatAndReview` two parts are never mounted together: what the
  library is told by the queue, or the sidebar by the screen, is an input at any moment.

## 8. Plan

Ordered by what matters most.

1. Done: the modules above, their runs, the refinement of `ImportReview` by
   `BusinessImport`, and theorems for every invariant and action property of the passing runs.
2. `LocalSessions`: sessions, password change and reset tokens at the server, with an
   abstract one-time token that resets and `Invitations` implement.
3. `RateLimiter`: an abstract fixed window, implemented by the in-memory limiter, and the
   Redis limiter whose `INCR` and `EXPIRE` can be separated by a crash.
4. `KnowledgeAccess`: the permission checks that read the grants, composed with
   `WorkspaceMembers`.
5. `AgentWorkflow`, the incremental text filters of the chat, and the chunking of a
   document, as functions checked against reference definitions over bounded inputs.
