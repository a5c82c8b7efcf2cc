------------------------------ MODULE ChatSidebar ------------------------------
(***************************************************************************)
(* The list of chats beside the page: pages of the history that the server *)
(* lists, entries added when a new chat gets its title or its answer ends, *)
(* and deletions that take effect before they are answered.  The router    *)
(* does not know of the address a new chat gets when it is begun, and a    *)
(* stream goes on when its chat is left.  The query library is external:   *)
(* what a fetch brings is put together from the pages there were when it   *)
(* began, and callbacks are those of the chat on screen.  An entry of a    *)
(* page stands under the time it was created, at the server or here, and   *)
(* later ones stand above earlier ones.                                    *)
(***************************************************************************)
EXTENDS SequencesExt

CONSTANTS
    MaxChats,   \* bound: chats
    PageSize,
    MaxFetches, \* bound: fetches of the history after the first
    MaxTurns    \* bound: questions and deletions

VARIABLES
    stored,  \* when the server created each chat; 0: it is not there
    cache,   \* pages of the history, local entries, and the chat each title was made for
    fetch,   \* the query's fetch
    del,     \* deletions under way: of one chat, of all
    screen,  \* the router's route, chatId, and the new chats of locallyCreatedChatIds
    streams, \* what each chat's answer has come to
    hist     \* history: what makes the list differ from the server's; the time and counters

hvars == <<stored, cache, fetch, del, screen, streams, hist>>

AllChats == 1..MaxChats
NoFetch == [pc |-> "idle", got |-> <<>>, left |-> 0]
Deletions == {"one", "all"}
NoDel == [pc |-> "idle", which |-> {}]
There == {c \in AllChats : stored[c] > 0}
Entries(pages) == UNION {DOMAIN pages[i].chats : i \in DOMAIN pages}

Init ==
    /\ \E n \in {0, 2} :
         /\ n < MaxChats
         /\ stored = [c \in AllChats |-> IF c <= n THEN c ELSE 0]
         /\ screen = [route |-> "/", chat |-> n + 1, created |-> {n + 1}, next |-> n + 2]
         /\ hist = [off |-> FALSE, moved |-> FALSE, stays |-> FALSE, gone |-> {}, fetches |-> 0, turns |-> 0, now |-> n]
    /\ cache = [pages |-> <<>>, local |-> {}, title |-> [c \in AllChats |-> c]]
    /\ fetch = [NoFetch EXCEPT !.pc = "asks", !.left = 1]
    /\ del = [d \in Deletions |-> NoDel]
    /\ streams = [c \in AllChats |-> "none"]

\* Fault injected: both lists are shown in full.
Rows_Twice == {<<0, c>> : c \in cache.local} \cup
              UNION {{<<i, c>> : c \in DOMAIN cache.pages[i].chats} : i \in DOMAIN cache.pages}

\* chatsFromHistory: the local entries, and those of the pages that are not among them.
Rows == {<<0, c>> : c \in cache.local} \cup
        UNION {{<<i, c>> : c \in DOMAIN cache.pages[i].chats \ cache.local} : i \in DOMAIN cache.pages}
Shown == {row[2] : row \in Rows}

\* The entries that can be clicked, and the end of the list, which is rendered below
\* entries only.
Offered == Shown
ShowsEnd == Shown # {}

ReachedEnd == \E i \in DOMAIN cache.pages : ~cache.pages[i].more

-----------------------------------------------------------------------------
\* GET /api/history: the chats after a cursor; 404 when the cursor's chat is gone.
After(cursor) == {c \in There : cursor = 0 \/ stored[c] < stored[cursor]}
Newest(chats) == {c \in chats : Cardinality({d \in chats : stored[d] > stored[c]}) < PageSize}
Listed(cursor) == [chats |-> Restrict(stored, Newest(After(cursor))), more |-> Cardinality(After(cursor)) > PageSize]

\* getNextPageParam: the last chat of the last page, or none.
Lowest(chats) == CHOOSE c \in DOMAIN chats : \A d \in DOMAIN chats : chats[c] <= chats[d]
NextCursor(pages) ==
    IF pages # <<>> /\ Last(pages).more /\ DOMAIN Last(pages).chats # {} THEN Lowest(Last(pages).chats) ELSE 0

Deleting == \E d \in Deletions : del[d].pc = "sent"

\* The first fetch, or of all pages again when the browser is online again.
Refetch ==
    /\ fetch.pc = "idle" /\ hist.fetches < MaxFetches
    /\ fetch' = [NoFetch EXCEPT !.pc = "asks", !.left = IF cache.pages = <<>> THEN 1 ELSE Len(cache.pages)]
    /\ hist' = [hist EXCEPT !.fetches = @ + 1, !.off = @ \/ Deleting]
    /\ UNCHANGED <<stored, cache, del, screen, streams>>

\* The end of the list comes into view.
FetchNextPage ==
    /\ fetch.pc = "idle" /\ ShowsEnd /\ ~ReachedEnd /\ NextCursor(cache.pages) # 0 /\ hist.fetches < MaxFetches
    /\ fetch' = [pc |-> "asks", got |-> cache.pages, left |-> 1]
    /\ hist' = [hist EXCEPT !.fetches = @ + 1, !.off = @ \/ Deleting]
    /\ UNCHANGED <<stored, cache, del, screen, streams>>

ListPage ==
    /\ fetch.pc = "asks"
    /\ fetch.got # <<>> => NextCursor(fetch.got) \in There
    /\ LET got == Append(fetch.got, Listed(NextCursor(fetch.got)))
           on == fetch.left > 1 /\ NextCursor(got) # 0 IN
       fetch' = [fetch EXCEPT !.got = got, !.left = @ - 1, !.pc = IF on THEN "asks" ELSE "answered"]
    /\ UNCHANGED <<stored, cache, del, screen, streams, hist>>

\* Entries that are listed have the server's title.
Fetched ==
    /\ fetch.pc = "answered"
    /\ cache' = [cache EXCEPT !.pages = fetch.got,
                              !.title = [c \in AllChats |-> IF c \in Entries(fetch.got) \ cache.local THEN c ELSE @[c]]]
    /\ fetch' = NoFetch
    /\ UNCHANGED <<stored, del, screen, streams, hist>>

FetchFails ==
    /\ fetch.pc # "idle"
    /\ fetch' = NoFetch
    /\ hist' = [hist EXCEPT !.off = TRUE]
    /\ UNCHANGED <<stored, cache, del, screen, streams>>

-----------------------------------------------------------------------------
Fetching == fetch.pc # "idle"

\* upsertChatHistory: in both lists an entry is merged with the one there is, or put
\* first; with no page yet, one is made that has no more behind it.  Merging keeps the
\* old title unless it replaces it; the title shown is that of the local entry.
PutFirst(page, c) ==
    [page EXCEPT !.chats = [d \in DOMAIN page.chats \cup {c} |-> IF d = c THEN hist.now + 1 ELSE page.chats[d]]]
WithEntry(pages, c) ==
    IF c \in Entries(pages) THEN pages
    ELSE IF pages = <<>> THEN << [chats |-> [d \in {c} |-> hist.now + 1], more |-> FALSE] >>
    ELSE [pages EXCEPT ![1] = PutFirst(@, c)]

Upsert(c, of, replaces) ==
    cache' = [pages |-> WithEntry(cache.pages, c), local |-> cache.local \cup {c},
              title |-> IF c \in cache.local /\ ~replaces THEN cache.title ELSE [cache.title EXCEPT ![c] = of]]

\* A question is sent; the address becomes that of the chat, behind the router's back.
SubmitForm ==
    /\ streams[screen.chat] = "none" /\ hist.turns < MaxTurns
    /\ streams' = [streams EXCEPT ![screen.chat] = "sent"]
    /\ hist' = [hist EXCEPT !.turns = @ + 1]
    /\ UNCHANGED <<stored, cache, fetch, del, screen>>

\* The server begins the chat with its first question, again if it was deleted.
Begin(c) ==
    /\ streams[c] = "sent"
    /\ stored' = IF c \in There THEN stored ELSE [stored EXCEPT ![c] = hist.now + 1]
    /\ streams' = [streams EXCEPT ![c] = IF c \in There THEN "titled" ELSE "begun"]
    /\ hist' = [hist EXCEPT !.now = @ + 1, !.off = @ \/ c \in hist.gone \/ \E d \in Deletions : del[d].pc = "sent" /\ c \in del[d].which]
    /\ UNCHANGED <<cache, fetch, del, screen>>

\* Fault injected: the title goes to the newest chat begun here.
Titled_Newest(c) == screen.next - 1

\* The chat an event of a stream is taken to be about.
Titled(c) == screen.chat

\* data-chat-title.
ChatTitle(c) ==
    /\ streams[c] = "begun"
    /\ streams' = [streams EXCEPT ![c] = "titled"]
    /\ Upsert(Titled(c), c, TRUE)
    /\ hist' = [hist EXCEPT !.now = @ + 1, !.off = @ \/ Fetching \/ c # screen.chat \/ c \in hist.gone,
                            !.moved = @ \/ c # screen.chat]
    /\ UNCHANGED <<stored, fetch, del, screen>>

\* onFinish, after an answer, an error or a stop: a new chat is listed.
OnFinish(c) ==
    /\ streams[c] # "none"
    /\ streams' = [streams EXCEPT ![c] = "none"]
    /\ IF screen.chat \in screen.created
       THEN /\ Upsert(screen.chat, c, FALSE)
            /\ screen' = [screen EXCEPT !.created = @ \ {screen.chat}]
       ELSE UNCHANGED <<cache, screen>>
    /\ hist' = [hist EXCEPT !.now = @ + 1, !.off = @ \/ Fetching \/ c # screen.chat \/ c \notin There,
                            !.moved = @ \/ c # screen.chat]
    /\ UNCHANGED <<stored, fetch, del>>

-----------------------------------------------------------------------------
\* The router goes to "/", which is nothing new to it there, or to a new chat.
Fresh(route) == [screen EXCEPT !.route = route, !.chat = screen.next, !.next = @ + 1, !.created = @ \cup {screen.next}]
CanGo == screen.next \in AllChats
Root == IF screen.route = "/" THEN screen ELSE Fresh("/")

NewChat ==
    /\ CanGo
    /\ screen' = Fresh("new")
    /\ UNCHANGED <<stored, cache, fetch, del, streams, hist>>

OpenChat(c) ==
    /\ c \in Offered
    /\ screen' = [screen EXCEPT !.route = "chat", !.chat = c]
    /\ UNCHANGED <<stored, cache, fetch, del, streams, hist>>

Without(page, gone) == [page EXCEPT !.chats = Restrict(page.chats, DOMAIN page.chats \ gone)]
Drop(gone) == cache' = [cache EXCEPT !.pages = [i \in DOMAIN @ |-> Without(@[i], gone)],
                                     !.local = @ \ gone]

\* Fault injected: the router is not told.
Leaves_Never(c) == screen' = screen

\* isCurrentChat.
Leaves(c) == screen' = IF screen.route = "chat" /\ screen.chat = c THEN Root ELSE screen

\* The dialogs: their buttons are disabled while a deletion is under way.
CanConfirm(d) == del[d].pc = "idle" /\ CanGo

\* handleDelete: the entries go at once.
HandleDelete(c) ==
    /\ c \in Offered /\ CanConfirm("one") /\ hist.turns < MaxTurns
    /\ del' = [del EXCEPT !["one"] = [pc |-> "sent", which |-> {c}]]
    /\ Drop({c}) /\ Leaves(c)
    /\ hist' = [hist EXCEPT !.turns = @ + 1, !.off = @ \/ Fetching \/ streams[c] # "none",
                            !.stays = @ \/ (screen.chat = c /\ screen.route # "chat")]
    /\ UNCHANGED <<stored, fetch, streams>>

\* handleDeleteAll.
HandleDeleteAll ==
    /\ CanConfirm("all") /\ hist.turns < MaxTurns
    /\ del' = [del EXCEPT !["all"] = [pc |-> "sent", which |-> AllChats]]
    /\ cache' = [cache EXCEPT !.pages = [i \in DOMAIN @ |-> [chats |-> <<>>, more |-> FALSE]], !.local = {}]
    /\ screen' = Root
    /\ hist' = [hist EXCEPT !.turns = @ + 1, !.off = @ \/ Fetching \/ \E c \in AllChats : streams[c] # "none",
                            !.stays = @ \/ screen.route = "/"]
    /\ UNCHANGED <<stored, fetch, streams>>

\* The server deletes chats with all that is in them.
Removed(which) == stored' = [c \in AllChats |-> IF c \in which THEN 0 ELSE stored[c]]

\* /delete and /purge of the composer: a new chat, and the list stays as it is.
SlashDelete(which) ==
    /\ CanGo /\ hist.turns < MaxTurns /\ which \in {{screen.chat}, AllChats}
    /\ Removed(which)
    /\ screen' = Fresh("new")
    /\ hist' = [hist EXCEPT !.turns = @ + 1, !.off = TRUE, !.gone = @ \cup which]
    /\ UNCHANGED <<cache, fetch, del, streams>>

Deletes(d) ==
    /\ del[d].pc = "sent"
    /\ Removed(del[d].which)
    /\ del' = [del EXCEPT ![d].pc = "answered"]
    /\ hist' = [hist EXCEPT !.gone = @ \cup (del[d].which \cap There)]
    /\ UNCHANGED <<cache, fetch, screen, streams>>

DeleteAnswered(d) ==
    /\ del[d].pc = "answered"
    /\ del' = [del EXCEPT ![d] = NoDel]
    /\ UNCHANGED <<stored, cache, fetch, screen, streams, hist>>

\* The entries stay away all the same.
DeleteFails(d) ==
    /\ del[d].pc = "sent"
    /\ del' = [del EXCEPT ![d] = NoDel]
    /\ hist' = [hist EXCEPT !.off = TRUE]
    /\ UNCHANGED <<stored, cache, fetch, screen, streams>>

Next ==
    \/ Refetch \/ FetchNextPage \/ ListPage \/ Fetched \/ FetchFails
    \/ SubmitForm \/ NewChat \/ HandleDeleteAll
    \/ \E c \in AllChats : Begin(c) \/ ChatTitle(c) \/ OnFinish(c) \/ OpenChat(c) \/ HandleDelete(c)
    \/ \E which \in {{screen.chat}, AllChats} : SlashDelete(which)
    \/ \E d \in Deletions : Deletes(d) \/ DeleteAnswered(d) \/ DeleteFails(d)

Spec == Init /\ [][Next]_hvars

-----------------------------------------------------------------------------
TypeOK ==
    /\ stored \in [AllChats -> Nat]
    /\ Entries(cache.pages) \cup Entries(fetch.got) \cup cache.local \subseteq AllChats
    /\ cache.title \in [AllChats -> AllChats] /\ screen.chat \in AllChats
    /\ fetch.pc \in {"idle", "asks", "answered"}
    /\ streams \in [AllChats -> {"none", "sent", "begun", "titled"}]

\* With nothing under way the list is the server's, each chat once, down to the oldest
\* chat it has loaded; except after a failure, a deletion by a slash command or one that
\* met a fetch or a stream, or an event of a stream whose chat was left or deleted.
AtRest == ~Fetching /\ (\A d \in Deletions : del[d].pc = "idle") /\ \A c \in AllChats : streams[c] = "none"
SidebarTells ==
    AtRest /\ ~hist.off =>
      /\ Shown \subseteq There
      /\ ReachedEnd => There \subseteq Shown
      /\ \A c \in Shown, d \in There : stored[d] > stored[c] => d \in Shown
      /\ \A row1, row2 \in Rows : row1[2] = row2[2] => row1 = row2

\* A chat is shown under a title of its own, unless an answer went on after its chat
\* was left: then what it says is put under the chat on screen.
TitlesBelong == ~hist.moved => \A c \in Shown : cache.title[c] = c

\* A chat that was deleted from the list is not on screen, unless it was deleted under
\* an address the router did not know, or was listed again.
DeletedLeaves == screen.chat \in hist.gone => hist.off \/ hist.stays
=============================================================================
