----------------------------- MODULE BusinessTables -----------------------------
(***************************************************************************)
(* The page of business tables: a grid that asks a datasource for blocks   *)
(* of rows, from the backend (ProductPrice) or, with a delay, from rows    *)
(* that come with the page.  A datasource is made for a table and a search *)
(* and destroyed when either changes; its answers set the count and the    *)
(* error beside the grid whichever block they are for.  Columns are kept   *)
(* per table in localStorage.  The grid is external: it calls getRows for  *)
(* one block at a time and ignores answers for blocks it has dropped.      *)
(***************************************************************************)
EXTENDS SequencesExt

CONSTANTS
    Searches,   \* what may be typed, "" among it
    MaxBlocks,  \* bound: blocks of a result
    MaxInputs   \* bound: what the user does

VARIABLES
    page,   \* activeTableKey, searchValue, debouncedSearch, matchCount, queryError, selectedRecord
    grid,   \* filter model, blocks, columns, and whether a column event is to be delivered
    asks,   \* getRows calls of the datasource that are not answered, oldest first
    saved,  \* localStorage: the columns of each table
    hist    \* history: columns as the user left them; inputs

tvars == <<page, grid, asks, saved, hist>>

Tables == {"Research", "Operation", "Price"}
MainTable == "Research"
Remote(t) == t = "Price"
Filters == {"none", "some"}
NoSearch == ""

\* What decides which rows match, and how many.
Crit(t, s, f) == [table |-> t, search |-> s, filter |-> f]
NoTable == "none"
NoRows == Crit(NoTable, NoSearch, "none")
Failed == Crit("failed", NoSearch, "none")
NoBlocks == [b \in 1..MaxBlocks |-> NoRows]
Unfiltered(t) == IF Remote(t) THEN NoRows ELSE Crit(t, NoSearch, "none")

\* A layout of columns: the table's own, hidden, pinned or moved in some way.
Default(t) == [of |-> t, way |-> 0]
Unsaved == Default(NoTable)
Kept(t) == IF saved[t] = Unsaved THEN Default(t) ELSE saved[t]

Ask(b, t, s, f) == [block |-> b, crit |-> Crit(t, s, f), dropped |-> FALSE]

Init ==
    /\ page = [table |-> MainTable, search |-> NoSearch, debounced |-> NoSearch, count |-> Unfiltered(MainTable), error |-> FALSE,
               selected |-> NoTable]
    /\ grid = [filter |-> "none", blocks |-> NoBlocks, columns |-> Default(MainTable), event |-> FALSE]
    /\ asks = << Ask(1, MainTable, NoSearch, "none") >>
    /\ saved = [t \in Tables |-> Unsaved]
    /\ hist = [left |-> [t \in Tables |-> Default(t)], late |-> FALSE, passed |-> FALSE, inputs |-> 0]

Input == hist.inputs < MaxInputs /\ hist' = [hist EXCEPT !.inputs = @ + 1]

-----------------------------------------------------------------------------
(* The datasource.                                                          *)

\* Fault injected: destroy() leaves the timers and the requests of the former one.
Destroyed_Not == [i \in DOMAIN asks |-> [asks[i] EXCEPT !.dropped = TRUE]]

\* destroy() of the former one.
Destroyed == <<>>

\* What is on screen.
Current == Crit(page.table, page.debounced, grid.filter)

\* The grid drops its blocks.  When the criteria are other ones, requests are aborted;
\* timers are not.
Dropped(crit) ==
    IF Remote(page.table) /\ crit # Current THEN <<>>
    ELSE [i \in DOMAIN asks |-> [asks[i] EXCEPT !.dropped = TRUE]]

\* Search, table or both have changed: the grid starts over with a new datasource.
\* The first call of a table may come before its filters are cleared.
Starts(t, s) ==
    /\ \E first \in IF t # page.table /\ grid.filter # "none" /\ ~Remote(t)
                    THEN {<<>>, << [Ask(1, t, s, grid.filter) EXCEPT !.dropped = TRUE] >>} ELSE {<<>>} :
         asks' = Destroyed \o first \o << Ask(1, t, s, IF t = page.table THEN grid.filter ELSE "none") >>

\* What the grid drops the blocks for: other filters, or a reload.
StartsOver(f) ==
    LET crit == Crit(page.table, page.debounced, f) IN
    asks' = Append(Dropped(crit), Ask(1, page.table, page.debounced, f))

\* Scrolling: the block after those that are loaded or have failed; its call clears
\* the error.
Scroll(b) ==
    /\ asks = <<>> /\ grid.blocks[b] = NoRows /\ b > 1 /\ grid.blocks[1] \notin {NoRows, Failed}
    /\ asks' = << Ask(b, page.table, page.debounced, grid.filter) >>
    /\ page' = [page EXCEPT !.error = IF Remote(page.table) THEN FALSE ELSE @]
    /\ hist' = [hist EXCEPT !.passed = @ \/ \E c \in DOMAIN grid.blocks : grid.blocks[c] = Failed]
    /\ UNCHANGED <<grid, saved>>

\* Requests are answered in any order, timers in theirs.
CanAnswer(i) == i \in DOMAIN asks /\ (Remote(page.table) \/ i = 1)

Answered(i) ==
    /\ CanAnswer(i)
    /\ asks' = RemoveAt(asks, i)
    /\ page' = [page EXCEPT !.count = asks[i].crit]
    /\ grid' = IF asks[i].dropped THEN grid ELSE [grid EXCEPT !.blocks[asks[i].block] = asks[i].crit]
    /\ UNCHANGED <<saved, hist>>

Fails(i) ==
    /\ Remote(page.table) /\ CanAnswer(i)
    /\ asks' = RemoveAt(asks, i)
    /\ page' = [page EXCEPT !.error = TRUE]
    /\ grid' = IF asks[i].dropped THEN grid ELSE [grid EXCEPT !.blocks[asks[i].block] = Failed]
    /\ UNCHANGED <<saved, hist>>

-----------------------------------------------------------------------------
(* Searches and filters.                                                    *)

Type(s) ==
    /\ s # page.search /\ Input
    /\ page' = [page EXCEPT !.search = s]
    /\ UNCHANGED <<grid, asks, saved>>

\* What a first getRows of other criteria does to the count and the error.
Asked(p) == IF Remote(p.table) THEN [p EXCEPT !.count = NoRows, !.error = FALSE] ELSE p

\* 260 ms after the last key.
Debounce ==
    /\ page.search # page.debounced
    /\ Starts(page.table, page.search)
    /\ page' = Asked([page EXCEPT !.debounced = page.search])
    /\ grid' = [grid EXCEPT !.blocks = NoBlocks]
    /\ hist' = [hist EXCEPT !.passed = FALSE]
    /\ UNCHANGED saved

Filter(f) ==
    /\ f # grid.filter /\ Input
    /\ StartsOver(f)
    /\ page' = Asked(page)
    /\ grid' = [grid EXCEPT !.filter = f, !.blocks = NoBlocks]
    /\ UNCHANGED saved

ResetFilters ==
    /\ Input
    /\ page' = IF page.debounced # NoSearch \/ grid.filter # "none"
               THEN Asked([page EXCEPT !.search = NoSearch, !.debounced = NoSearch]) ELSE [page EXCEPT !.search = NoSearch]
    /\ grid' = IF page.debounced # NoSearch \/ grid.filter # "none"
               THEN [grid EXCEPT !.filter = "none", !.blocks = NoBlocks] ELSE grid
    /\ IF page.debounced # NoSearch THEN asks' = Destroyed \o << Ask(1, page.table, NoSearch, "none") >>
       ELSE IF grid.filter # "none" THEN StartsOver("none") ELSE UNCHANGED asks
    /\ UNCHANGED saved

\* Reload, and Retry beside the error: the same criteria are asked for again.
Reload ==
    /\ Input
    /\ StartsOver(grid.filter)
    /\ page' = [page EXCEPT !.count = Unfiltered(page.table), !.error = FALSE]
    /\ grid' = [grid EXCEPT !.blocks = NoBlocks]
    /\ UNCHANGED saved

Retry ==
    /\ page.error /\ Input
    /\ StartsOver(grid.filter)
    /\ page' = [page EXCEPT !.error = FALSE]
    /\ grid' = [grid EXCEPT !.blocks = NoBlocks]
    /\ UNCHANGED saved

-----------------------------------------------------------------------------
(* Tables and columns.                                                      *)

\* Fault injected: what was saved is applied only when the page is opened.
Applied_Never(t) == Default(t)

\* The effect of another table: what was saved for it is applied.
Applied(t) == Kept(t)

\* A table's button; the effect clears the search, so that the related product's
\* id does not stay in it either.
Opens(t) ==
    /\ t # page.table
    /\ Starts(t, NoSearch)
    /\ page' = [table |-> t, search |-> NoSearch, debounced |-> NoSearch, count |-> Unfiltered(t), error |-> FALSE, selected |-> NoTable]
    /\ \E e \in BOOLEAN :
         grid' = [filter |-> "none", blocks |-> NoBlocks, columns |-> Applied(t), event |-> e]
    /\ hist.inputs < MaxInputs
    /\ hist' = [hist EXCEPT !.inputs = @ + 1, !.passed = FALSE, !.late = @ \/ (grid.event /\ Kept(page.table) # grid.columns)]
    /\ UNCHANGED saved

SelectTable(t) == Opens(t)

\* The buttons of the record's sheet.
SelectRow(b) ==
    /\ grid.blocks[b] \notin {NoRows, Failed} /\ page.selected = NoTable
    /\ page' = [page EXCEPT !.selected = grid.blocks[b].table]
    /\ UNCHANGED <<grid, asks, saved, hist>>

CloseSheet ==
    /\ page.selected # NoTable
    /\ page' = [page EXCEPT !.selected = NoTable]
    /\ UNCHANGED <<grid, asks, saved, hist>>

OpenRelatedProduct == page.selected \notin {NoTable, MainTable} /\ ~Remote(page.selected) /\ Opens(MainTable)

\* What the panel offers: another way to hide, order or pin the table's columns.
CanChange(w) == w # grid.columns.way /\ hist.inputs < MaxInputs

\* The panel changes a column and saves; the grid's event saves it again.
ChangeColumn(w) ==
    /\ CanChange(w)
    /\ LET c == [grid.columns EXCEPT !.way = w] IN
       /\ grid' = [grid EXCEPT !.columns = c, !.event = TRUE]
       /\ saved' = [saved EXCEPT ![page.table] = c]
       /\ hist' = [hist EXCEPT !.left[page.table] = c, !.inputs = @ + 1]
    /\ UNCHANGED <<page, asks>>

\* A header is dragged: only the event saves it.
DragHeader(w) ==
    /\ w # grid.columns.way /\ hist.inputs < MaxInputs
    /\ LET c == [grid.columns EXCEPT !.way = w] IN
       /\ grid' = [grid EXCEPT !.columns = c, !.event = TRUE]
       /\ hist' = [hist EXCEPT !.left[page.table] = c, !.inputs = @ + 1]
    /\ UNCHANGED <<page, asks, saved>>

ResetColumns ==
    /\ hist.inputs < MaxInputs
    /\ grid' = [grid EXCEPT !.columns = Default(page.table), !.event = TRUE]
    /\ saved' = [saved EXCEPT ![page.table] = Unsaved]
    /\ hist' = [hist EXCEPT !.left[page.table] = Default(page.table), !.inputs = @ + 1]
    /\ UNCHANGED <<page, asks>>

\* onGridColumnStateChanged, with the columns and the key of that moment.
ColumnEvent ==
    /\ grid.event
    /\ saved' = [saved EXCEPT ![page.table] = grid.columns]
    /\ grid' = [grid EXCEPT !.event = FALSE]
    /\ UNCHANGED <<page, asks, hist>>

Next ==
    \/ \E b \in 1..MaxBlocks : Scroll(b) \/ SelectRow(b)
    \/ \E i \in DOMAIN asks : Answered(i) \/ Fails(i)
    \/ \E s \in Searches : Type(s)
    \/ Debounce \/ ResetFilters \/ Reload \/ Retry
    \/ \E f \in Filters : Filter(f)
    \/ \E t \in Tables : SelectTable(t)
    \/ CloseSheet \/ OpenRelatedProduct
    \/ \E w \in 0..1 : ChangeColumn(w) \/ DragHeader(w)
    \/ ResetColumns \/ ColumnEvent

Spec == Init /\ [][Next]_tvars

-----------------------------------------------------------------------------
TypeOK ==
    /\ page.table \in Tables /\ {page.search, page.debounced} \subseteq Searches
    /\ page.error \in BOOLEAN /\ page.selected \in {NoTable, page.table}
    /\ grid.filter \in Filters /\ grid.columns \in [of: {page.table}, way: 0..1]
    /\ \A t \in Tables : saved[t] = Unsaved \/ saved[t] \in [of: {t}, way: 0..1]

\* The rows shown are always those of the table, search and filters on screen; once
\* nothing is under way the count is theirs, too, or an error is told; and a block that
\* failed is told unless the grid has asked for another since.
RowsTell ==
    /\ \A b \in DOMAIN grid.blocks : grid.blocks[b] \in {NoRows, Failed, Current}
    /\ asks = <<>> => page.count = Current \/ (page.count = NoRows /\ page.error)
    /\ (\E b \in DOMAIN grid.blocks : grid.blocks[b] = Failed) => page.error \/ hist.passed

\* A table is shown with its columns as they were left, except that the grid's report
\* of a dragged header came after another table was opened.
ColumnsStick == ~hist.late => grid.columns = hist.left[page.table]
=============================================================================
