------------------------------ MODULE DocumentCard ------------------------------
(***************************************************************************)
(* One parsed document in the library: its card, with the blocks that are  *)
(* loaded when it is expanded, and the selector that pages through its     *)
(* chunks and has some or all of them embedded.  Every change of the item  *)
(* in the list mounts a new selector; requests of the one before go on.    *)
(***************************************************************************)
EXTENDS Naturals, FiniteSets

CONSTANTS
    Pages,      \* bound: pages of chunks
    Places,     \* the chunks of a page (KNOWLEDGE_CHUNK_PAGE_SIZE)
    MaxGen      \* bound: how often the document is parsed or cut again

VARIABLES
    doc,    \* the document at the server
    card,   \* ParsedDocumentCard with the item it was rendered with
    sel     \* KnowledgeChunkSelector and the requests of all its instances

cvars == <<doc, card, sel>>

\* A chunk is known by its generation, page and place.
ChunkIds(g, p) == {<<g, p, i>> : i \in Places}
AllChunks(g) == UNION {ChunkIds(g, p) : p \in 0..(Pages - 1)}

Item(d) == [ver |-> d.ver, gen |-> d.gen, chunks |-> d.chunks]
NoPage == [gen |-> 0, off |-> 0]

\* No instance; a load that runs belongs to the instance or to one before it.
Unmounted == [on |-> FALSE, off |-> 0, page |-> NoPage, picked |-> {}, loading |-> FALSE,
              loads |-> {}, post |-> {}, all |-> FALSE, error |-> FALSE]

Init ==
    /\ doc = [ver |-> 1, gen |-> 1, chunks |-> "ready", embedded |-> {}]
    /\ card = [item |-> Item(doc), open |-> FALSE, blocks |-> 0, req |-> "none", error |-> FALSE,
             late |-> {}]
    /\ sel = Unmounted

HasChunks(item) == item.chunks = "ready"

-----------------------------------------------------------------------------
(* The effect of the selector                                               *)

\* loadChunkPage, or nothing to load.
Reload(s, item, off) ==
    IF item.chunks = "processing"
    THEN [s EXCEPT !.off = off, !.page = NoPage, !.picked = {}, !.loading = TRUE, !.error = FALSE]
    ELSE IF HasChunks(item)
    THEN [s EXCEPT !.off = off, !.page = NoPage, !.loading = TRUE, !.error = FALSE, !.loads = @ \cup {off}]
    ELSE [s EXCEPT !.off = off, !.page = NoPage, !.picked = {}, !.loading = FALSE, !.error = FALSE]

\* The blocks are shown, and with them a new selector.
ShowsDetails(c) == c.open /\ c.req = "none" /\ ~c.error

Mounted(c) == IF ShowsDetails(c) THEN Reload([Unmounted EXCEPT !.on = TRUE], c.item, 0) ELSE Unmounted

\* After a change of the card: the selector stays as long as its key is the same.
\* Bound: one request of an instance that is gone.
Rerender(c) ==
    LET stays == ShowsDetails(c) /\ sel.on /\ c.item = card.item
        left == IF stays \/ sel.post = {} THEN {} ELSE {[post |-> sel.post, all |-> sel.all]}
    IN  /\ card' = [c EXCEPT !.late = IF @ = {} THEN left ELSE @]
        /\ sel' = IF stays THEN sel ELSE Mounted(c)

-----------------------------------------------------------------------------
(* The card                                                                 *)

\* Expanded: the blocks are loaded if there are none yet.  Collapsed: a request
\* for them is aborted.
ToggleExpanded ==
    /\ LET open == ~card.open IN
       Rerender([card EXCEPT !.open = open,
                             !.req = IF open /\ card.blocks = 0 THEN "sent" ELSE "none",
                             !.error = IF open /\ card.blocks = 0 THEN FALSE ELSE @])
    /\ UNCHANGED doc

BlocksLoaded ==
    /\ card.req = "sent"
    /\ Rerender([card EXCEPT !.blocks = doc.ver, !.req = "none"])
    /\ UNCHANGED doc

BlocksFail ==
    /\ card.req = "sent"
    /\ Rerender([card EXCEPT !.req = "none", !.error = TRUE])
    /\ UNCHANGED doc

\* The list has been loaded again.
ItemChanges ==
    /\ card.item # Item(doc)
    /\ Rerender([card EXCEPT !.item = Item(doc)])
    /\ UNCHANGED doc

-----------------------------------------------------------------------------
(* The selector                                                             *)

\* Fault injected: what was picked on the page before stays picked.
PageLoaded_Keeps(off) ==
    /\ off \in sel.loads
    /\ sel' = [sel EXCEPT !.loads = @ \ {off}, !.page = [gen |-> doc.gen, off |-> off],
                          !.loading = FALSE]
    /\ UNCHANGED <<doc, card>>

\* Of an instance that is gone the answer changes nothing.
PageLoaded(off) ==
    /\ off \in sel.loads
    /\ sel' = [sel EXCEPT !.loads = @ \ {off}, !.page = [gen |-> doc.gen, off |-> off],
                          !.picked = {}, !.loading = FALSE]
    /\ UNCHANGED <<doc, card>>

PageFails(off) ==
    /\ off \in sel.loads
    /\ sel' = [sel EXCEPT !.loads = @ \ {off}, !.page = NoPage, !.error = TRUE, !.loading = FALSE]
    /\ UNCHANGED <<doc, card>>

Listed == sel.page # NoPage /\ ~sel.error
Embedding == sel.post # {}

\* Fault injected: the next page can be asked for while one is loading.
CanTurn_Loading(off) == sel.on /\ HasChunks(card.item) /\ off \in 0..(Pages - 1) /\ off # sel.off

\* The buttons below the list; the last page has no next one.
CanTurn(off) ==
    /\ Listed /\ ~sel.loading /\ ~Embedding
    /\ off \in 0..(Pages - 1) /\ off \in {sel.off - 1, sel.off + 1}

TurnPage(off) ==
    /\ CanTurn(off)
    /\ sel' = Reload(sel, card.item, off)
    /\ UNCHANGED <<doc, card>>

ShownIds == IF sel.page = NoPage THEN {} ELSE ChunkIds(sel.page.gen, sel.page.off)

ToggleChunk(c) ==
    /\ Listed /\ ~Embedding /\ c \in ShownIds
    /\ sel' = [sel EXCEPT !.picked = IF c \in @ THEN @ \ {c} ELSE @ \cup {c}]
    /\ UNCHANGED <<doc, card>>

\* The button above the list stays when an error takes its place.
TogglePage ==
    /\ sel.page # NoPage /\ ~Embedding
    /\ sel' = [sel EXCEPT !.picked = IF ShownIds \subseteq @ THEN {} ELSE ShownIds]
    /\ UNCHANGED <<doc, card>>

EmbedSelected ==
    /\ Listed /\ ~Embedding /\ sel.picked # {}
    /\ sel' = [sel EXCEPT !.post = sel.picked, !.error = FALSE]
    /\ UNCHANGED <<doc, card>>

EmbedAll ==
    /\ sel.page # NoPage /\ ~Embedding
    /\ sel' = [sel EXCEPT !.post = {<<0, 0, 0>>}, !.all = TRUE, !.error = FALSE]
    /\ UNCHANGED <<doc, card>>

\* POST .../embeddings takes chunks by their ids, .../embeddings/all those there are.
Embed(post, all) ==
    LET ids == IF all THEN AllChunks(doc.gen) ELSE post IN
    /\ doc.chunks = "ready" /\ ids \subseteq AllChunks(doc.gen)
    /\ doc' = [doc EXCEPT !.embedded = @ \cup ids]

\* A success loads the page again, and the list around the card.
EmbedDone ==
    /\ Embedding
    /\ Embed(sel.post, sel.all)
    /\ sel' = Reload([sel EXCEPT !.post = {}, !.all = FALSE, !.picked = {}], card.item, sel.off)
    /\ UNCHANGED card

\* The selector that asked is gone: only the server and the list notice.
LateEmbedDone ==
    /\ \E p \in card.late : Embed(p.post, p.all) /\ card' = [card EXCEPT !.late = @ \ {p}]
    /\ UNCHANGED sel

\* Refused, because a chunk is gone, or lost.
EmbedFails ==
    /\ Embedding
    /\ sel' = [sel EXCEPT !.post = {}, !.all = FALSE, !.error = TRUE]
    /\ UNCHANGED <<doc, card>>

-----------------------------------------------------------------------------
\* KnowledgeFiles: the document is parsed again (its id stays), cut again, or the
\* cutting comes to an end.
Reparse ==
    /\ doc.gen < MaxGen
    /\ doc' = [ver |-> doc.ver + 1, gen |-> doc.gen + 1, chunks |-> "pending", embedded |-> {}]
    /\ UNCHANGED <<card, sel>>

Cut ==
    /\ doc.chunks # "processing" /\ doc.gen < MaxGen
    /\ doc' = [doc EXCEPT !.chunks = "processing"]
    /\ UNCHANGED <<card, sel>>

CutEnds ==
    /\ doc.chunks = "processing"
    /\ doc' = [doc EXCEPT !.gen = @ + 1, !.chunks = "ready", !.embedded = {}]
    /\ UNCHANGED <<card, sel>>

Next ==
    \/ ToggleExpanded \/ BlocksLoaded \/ BlocksFail \/ ItemChanges
    \/ \E off \in 0..(Pages - 1) : PageLoaded(off) \/ PageFails(off) \/ TurnPage(off)
    \/ \E c \in ShownIds : ToggleChunk(c)
    \/ TogglePage \/ EmbedSelected \/ EmbedAll \/ EmbedDone \/ LateEmbedDone \/ EmbedFails
    \/ Reparse \/ Cut \/ CutEnds

Spec == Init /\ [][Next]_cvars

-----------------------------------------------------------------------------
TypeOK ==
    /\ card.item.chunks \in {"pending", "processing", "ready"} /\ card.blocks \in 0..doc.ver
    /\ card.req \in {"none", "sent"} /\ (card.req = "sent" => card.open)
    /\ sel.on <=> ShowsDetails(card)
    /\ doc.embedded \subseteq AllChunks(doc.gen)

\* loadChunkPage neither aborts the load before it nor looks whether a later one
\* has begun; still the page that is shown is the one the buttons count from, as
\* two loads of one selector never overlap while the language of the page stays the
\* same.  (Choosing another one makes a new loadChunkPage, which depends on t, and
\* loads beside the old one; the choice is not modelled.)
PageIsAsked ==
    /\ Cardinality(sel.loads) <= 1
    /\ sel.page # NoPage => sel.page.off = sel.off

\* What is picked is on the page that is shown: no chunk is embedded that was
\* picked on a page, or in a version of the document, that is gone from the screen.
PickedIsShown ==
    /\ sel.picked # {} /\ sel.page # NoPage => sel.picked \subseteq ShownIds
    /\ Embedding /\ ~sel.all => sel.post = sel.picked
=============================================================================
