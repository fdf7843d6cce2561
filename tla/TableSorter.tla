------------------------------ MODULE TableSorter ------------------------------
(***************************************************************************)
(* Tables whose rows are sorted by clicks on their headers.  A click and   *)
(* an update of the rows act after a timer, on a cache of the rows that is *)
(* kept in the order of the page; the tables of a page share the list of   *)
(* headers and the first sort list, which belong to the defaults.          *)
(***************************************************************************)
EXTENDS Naturals, SequencesExt

CONSTANTS
    Tables,      \* numbered in the order they were made sortable
    Columns,     \* the columns of every table
    Rows,        \* the rows a table may have
    FirstRows,   \* those it has at first, in their order
    FirstCells,  \* what the cells of a row hold at first
    Edits,       \* bound: the texts the page writes, each with its row and column
    MaxTimers,   \* bound: timers that run at a time
    MaxChanges   \* bound: changes the page makes to its rows and cells

ASSUME TablesAssumption ==
    /\ Tables \subseteq Nat /\ Tables # {} /\ FirstRows \in Seq(Rows)
    /\ \A i, j \in DOMAIN FirstRows : FirstRows[i] = FirstRows[j] => i = j
    /\ \A r \in Rows : FirstCells[r] \in [Columns -> {"", "10", "9", "a"}]
    /\ Edits \subseteq Rows \X Columns \X {"", "10", "9", "a"}
    /\ MaxTimers \in Nat \ {0} /\ MaxChanges \in Nat

\* Texts of a cell, in the order of text: the second and third are numbers.
Texts == <<"", "10", "9", "a">>
Cell == ToSet(Texts)

VARIABLES
    content,   \* the texts in the cells of each table
    dom,       \* the rows of each table as the page shows them
    parsers,   \* config.parsers: the type of each column
    cache,     \* cache.normalized: a row, its keys and its position when it was cached
    counts,    \* the parity of the count of each header
    sortList,  \* config.sortList of each table that has one of its own
    shared,    \* the sort list of the defaults, and the tables that still have it
    marks,     \* the columns with a class, and their order
    timers,    \* the timeouts in their order: what they will do to which table
    changes,   \* how often the page changed a table
    history    \* ghosts, see below

tableVars == <<content, dom, parsers, cache, counts, sortList, shared, marks, timers, changes, history>>
headerVars == <<counts, sortList, shared, marks>>

\* gone: rows the page removed; raced: the cache was put into the page between a removal and
\* the update that followed it; changed: a cell or a row changed after the last sort.
History == [gone : SUBSET Rows, raced : BOOLEAN, changed : BOOLEAN]
Order == {0, 1}
ascending == 0

TablesTypeOK ==
    /\ content \in [Tables -> [Rows -> [Columns -> Cell]]]
    /\ \A t \in Tables : ToSet(dom[t]) \subseteq Rows
    /\ parsers \in [Tables -> [Columns -> {"digit", "text"}]]
    /\ \A t \in Tables : ToSet(cache[t]) \subseteq
          [row : Rows, keys : [Columns -> Nat], pos : 1..Len(cache[t])]
    /\ counts \in [Tables -> [Columns -> Order]]
    /\ \A t \in Tables : ToSet(sortList[t]) \union ToSet(marks[t]) \subseteq Columns \X Order
    /\ ToSet(shared.list) \subseteq Columns \X Order /\ shared.by \subseteq Tables
    /\ ToSet(timers) \subseteq {"sort", "update"} \X Tables
    /\ changes \in 0..MaxChanges /\ history \in [Tables -> History]

--------------------------------------------------------------------------------
(* The cache *)

\* The first text that is not empty decides; an empty column is one of digits.
detectParserForColumn(t, c) ==
    LET filled == {i \in DOMAIN dom[t] : content[t][dom[t][i]][c] # ""}
        first  == CHOOSE i \in filled : \A j \in filled : i <= j
    IN IF filled # {} /\ content[t][dom[t][first]][c] = "a" THEN "text" ELSE "digit"

\* formatFloat of a text that is no number is 0.
format(parser, text) ==
    IF parser = "text" THEN CHOOSE i \in DOMAIN Texts : Texts[i] = text
    ELSE CASE text = "9" -> 9 [] text = "10" -> 10 [] OTHER -> 0

buildParserCache(t) == [c \in Columns |-> detectParserForColumn(t, c)]

buildCache(t, types) ==
    [i \in DOMAIN dom[t] |->
        [row |-> dom[t][i], pos |-> i,
         keys |-> [c \in Columns |-> format(types[c], content[t][dom[t][i]][c])]]]

--------------------------------------------------------------------------------
(* Sorting *)

listOf(t) == IF t \in shared.by THEN shared.list ELSE sortList[t]

\* The comparison multisort builds: the columns of the list, then the cached position.
before(list_, a, b) ==
    LET differ == {i \in DOMAIN list_ : a.keys[list_[i][1]] # b.keys[list_[i][1]]}
        first == list_[CHOOSE i \in differ : \A j \in differ : i <= j]
    IN IF differ = {} THEN a.pos < b.pos
       ELSE IF first[2] = ascending THEN a.keys[first[1]] < b.keys[first[1]]
       ELSE b.keys[first[1]] < a.keys[first[1]]

\* No two cached rows have the same position: there is one order.
sortedBy(list_, seq) == \A i, j \in DOMAIN seq : i < j => before(list_, seq[i], seq[j])

\* A bug: only the first column of the list counts.
multisortByOne(list_, rows) ==
    CHOOSE seq \in [DOMAIN rows -> ToSet(rows)] : sortedBy(SubSeq(list_, 1, 1), seq)

multisort(list_, rows) ==
    CHOOSE seq \in [DOMAIN rows -> ToSet(rows)] : sortedBy(list_, seq)

\* The elements of a sequence at those places, in their order.
atPlaces(seq, places) ==
    LET order == CHOOSE p \in [1..Cardinality(places) -> places] :
                     \A i, j \in DOMAIN p : i < j => p[i] < p[j]
    IN [i \in 1..Cardinality(places) |-> seq[order[i]]]

\* Each cached row is appended to the body, also one the page has taken out; those that
\* are not in the cache stay before them.
appended(shown, sorted) ==
    LET rows == [i \in DOMAIN sorted |-> sorted[i].row]
    IN atPlaces(shown, {i \in DOMAIN shown : shown[i] \notin ToSet(rows)}) \o rows

appendToTable(t, sorted) == dom' = [dom EXCEPT ![t] = appended(@, sorted)]

untold(t) == <<"update", t>> \in ToSet(timers)

setHeadersCss(t, list_) == marks' = [marks EXCEPT ![t] = list_]

\* A bug: a copy of the cache is sorted.
sortTableCopy(t, list_) ==
    /\ setHeadersCss(t, list_)
    /\ appendToTable(t, multisort(list_, cache[t]))
    /\ history' = [history EXCEPT ![t].changed = @ /\ untold(t), ![t].raced = @ \/ untold(t)]
    /\ UNCHANGED <<content, parsers, cache>>

\* The classes of the headers, then the rows: the cache is sorted in place.  Without a
\* cached row multisort fails after the classes are set.
sortTable(t, list_) ==
    /\ setHeadersCss(t, list_)
    /\ cache' = [cache EXCEPT ![t] = multisort(list_, @)]
    /\ appendToTable(t, cache'[t])
    /\ history' = [history EXCEPT ![t].changed = @ /\ untold(t), ![t].raced = @ \/ untold(t)]
    /\ UNCHANGED <<content, parsers>>

\* $.extend copies the defaults, not their arrays: all tables begin with one sort list.
TablesInit ==
    /\ content = [t \in Tables |-> [r \in Rows |-> FirstCells[r]]]
    /\ dom = [t \in Tables |-> FirstRows]
    /\ parsers = [t \in Tables |-> buildParserCache(t)]
    /\ cache = [t \in Tables |-> buildCache(t, parsers[t])]
    /\ counts = [t \in Tables |-> [c \in Columns |-> 0]]
    /\ sortList = [t \in Tables |-> <<>>] /\ shared = [list |-> <<>>, by |-> Tables]
    /\ marks = [t \in Tables |-> <<>>] /\ timers = <<>> /\ changes = 0
    /\ history = [t \in Tables |-> [gone |-> {}, raced |-> FALSE, changed |-> FALSE]]

--------------------------------------------------------------------------------
(* The user *)

later(what, t) == Len(timers) < MaxTimers /\ timers' = Append(timers, <<what, t>>)

\* A click without the shift key sorts by its column alone.
ClickHeader(t, c) ==
    /\ dom[t] # <<>> /\ later("sort", t)
    /\ counts' = [counts EXCEPT ![t][c] = 1 - @]
    /\ sortList' = [sortList EXCEPT ![t] = <<<<c, counts[t][c]>>>>]
    /\ shared' = [shared EXCEPT !.by = @ \ {t}]
    /\ UNCHANGED <<content, dom, parsers, cache, marks, changes, history>>

\* headerList belongs to the defaults: it holds the headers of the last table.
headersOf == CHOOSE t \in Tables : \A u \in Tables : u <= t

setList(t, list_) ==
    IF t \in shared.by THEN shared' = [shared EXCEPT !.list = list_] /\ UNCHANGED sortList
    ELSE sortList' = [sortList EXCEPT ![t] = list_] /\ UNCHANGED shared

\* With the shift key the column is added to the list, or turned over in it.
ShiftClickHeader(t, c) ==
    /\ dom[t] # <<>> /\ later("sort", t)
    /\ LET list_ == listOf(t)
           counted == [counts EXCEPT ![t][c] = 1 - @]
           at == {i \in DOMAIN list_ : list_[i][1] = c}
       IN IF at = {}
          THEN setList(t, Append(list_, <<c, counts[t][c]>>)) /\ counts' = counted
          ELSE /\ setList(t, [i \in DOMAIN list_ |->
                                 IF i \in at THEN <<c, 1 - list_[i][2]>> ELSE list_[i]])
               /\ counts' = [counted EXCEPT ![headersOf][c] = 1 - list_[CHOOSE i \in at : TRUE][2]]
    /\ UNCHANGED <<content, dom, parsers, cache, marks, changes, history>>

--------------------------------------------------------------------------------
(* The page, and the timers *)

\* The count of a header after a sort in that order; headerList finds the header.
updateHeaderSortCount(c, order) == [counts EXCEPT ![headersOf][c] = 1 - order]

\* sorton sorts at once.
SortOn(t, c, order) ==
    /\ cache[t] # <<>> /\ changes < MaxChanges /\ changes' = changes + 1
    /\ sortList' = [sortList EXCEPT ![t] = <<<<c, order>>>>]
    /\ shared' = [shared EXCEPT !.by = @ \ {t}]
    /\ counts' = updateHeaderSortCount(c, order)
    /\ sortTable(t, <<<<c, order>>>>) /\ UNCHANGED timers

\* The event appendCache: the rows of the cache are put into the page as they are.  Without
\* one it fails at the first.
AppendCache(t) ==
    /\ cache[t] # <<>> /\ appendToTable(t, cache[t])
    /\ history' = [history EXCEPT ![t].raced = @ \/ untold(t)]
    /\ UNCHANGED <<content, parsers, cache, headerVars, timers, changes>>

\* The page takes a row out or puts one in, and tells with update, which waits.
ChangeRows(t, rows) ==
    /\ changes < MaxChanges /\ changes' = changes + 1
    /\ dom' = [dom EXCEPT ![t] = rows] /\ later("update", t)
    /\ history' = [history EXCEPT ![t].gone = (@ \union ToSet(dom[t])) \ ToSet(rows),
                                  ![t].changed = TRUE]
    /\ UNCHANGED <<content, parsers, cache, headerVars>>

RemoveRow(t, i) == i \in DOMAIN dom[t] /\ ChangeRows(t, RemoveAt(dom[t], i))
AddRow(t, r) == r \notin ToSet(dom[t]) /\ ChangeRows(t, Append(dom[t], r))

\* The page changes a cell and tells with updateCell: the key at the position of the row
\* in the page is formatted anew.
UpdateCell(t, i, c, text) ==
    /\ changes < MaxChanges /\ changes' = changes + 1
    /\ i \in DOMAIN dom[t] /\ text # content[t][dom[t][i]][c]
    /\ content' = [content EXCEPT ![t][dom[t][i]][c] = text]
    /\ cache' = IF i \notin DOMAIN cache[t] THEN cache
                ELSE [cache EXCEPT ![t][i].keys[c] = format(parsers[t][c], text)]
    /\ history' = [history EXCEPT ![t].changed = TRUE]
    /\ UNCHANGED <<dom, parsers, headerVars, timers>>

SortTimeout ==
    /\ timers # <<>> /\ Head(timers)[1] = "sort"
    /\ timers' = Tail(timers) /\ sortTable(Head(timers)[2], listOf(Head(timers)[2]))
    /\ UNCHANGED <<counts, sortList, shared, changes>>

\* A bug: the cache is rebuilt only when the table has more rows than it.
UpdateTimeoutOfMore ==
    /\ timers # <<>> /\ Head(timers)[1] = "update" /\ timers' = Tail(timers)
    /\ LET t == Head(timers)[2]
       IN /\ parsers' = [parsers EXCEPT ![t] = buildParserCache(t)]
          /\ cache' = IF Len(dom[t]) <= Len(cache[t]) THEN cache
                      ELSE [cache EXCEPT ![t] = buildCache(t, parsers'[t])]
    /\ UNCHANGED <<content, dom, headerVars, changes, history>>

UpdateTimeout ==
    /\ timers # <<>> /\ Head(timers)[1] = "update" /\ timers' = Tail(timers)
    /\ LET t == Head(timers)[2]
       IN /\ parsers' = [parsers EXCEPT ![t] = buildParserCache(t)]
          /\ cache' = [cache EXCEPT ![t] = buildCache(t, parsers'[t])]
    /\ UNCHANGED <<content, dom, headerVars, changes, history>>

\* A click on a header of a table without rows is given back to the browser.
ClickForNothing(t) == dom[t] = <<>> /\ UNCHANGED tableVars

Click(t) ==
    \/ \E c \in Columns : ClickHeader(t, c) \/ ShiftClickHeader(t, c)
    \/ ClickForNothing(t)

Change(t) ==
    \/ AppendCache(t) \/ \E c \in Columns, order \in Order : SortOn(t, c, order)
    \/ \E i \in DOMAIN dom[t] : RemoveRow(t, i)
    \/ \E r \in Rows : AddRow(t, r)
    \/ \E i \in DOMAIN dom[t], c \in Columns, text \in Cell :
          <<dom[t][i], c, text>> \in Edits /\ UpdateCell(t, i, c, text)

TablesNext == SortTimeout \/ UpdateTimeout \/ \E t \in Tables : Click(t) \/ Change(t)

TablesSpec == TablesInit /\ [][TablesNext]_tableVars

--------------------------------------------------------------------------------

\* When no timer runs the cache holds the rows in the order of the page, each with the
\* keys of its texts: sorts, updates of rows and updates of cells that overlapped have
\* not moved the rows apart from the entries that stand for them.
CacheFollowsThePage ==
    timers = <<>> => \A t \in Tables :
        /\ Len(cache[t]) = Len(dom[t])
        /\ \A i \in DOMAIN dom[t] :
              /\ cache[t][i].row = dom[t][i]
              /\ cache[t][i].keys =
                    [c \in Columns |-> format(parsers[t][c], content[t][dom[t][i]][c])]

\* When no timer runs the headers show by what a table is sorted, and its rows are in
\* that order unless they changed since: a sort that waited has taken the list of the
\* last click for both.  A list that tables share shows only in the one clicked last.
RowsFollowTheMarks ==
    timers = <<>> => \A t \in Tables :
        /\ t \notin shared.by => marks[t] = sortList[t]
        /\ ~history[t].changed => \A i, j \in DOMAIN dom[t] :
              i < j => before(marks[t], cache[t][i], cache[t][j])

\* A row the page has removed and told of is not shown again, unless a sort or appendCache
\* ran before the update did: that puts back all it has cached, and the update then keeps
\* it.  None does afterwards, whatever timers and events come.
RemovedRowsStayAway ==
    \A t \in Tables : ToSet(dom[t]) \intersect history[t].gone # {} => history[t].raced
================================================================================
