------------------------------- MODULE AlbumsPage -------------------------------
(***************************************************************************)
(* The page of albums: a list asked from the server, a dialog and editors  *)
(* in place that write to it, and callbacks that ask for the list anew.    *)
(* Requests are served and answered in any order, may be refused, and may  *)
(* be carried out without an answer.                                       *)
(***************************************************************************)
EXTENDS Naturals, SequencesExt

CONSTANTS
    Albums,      \* identifiers the server gives albums
    Titles,      \* what a user may type, an empty text apart
    MaxWrites,   \* bound: writes in flight
    MaxQueries   \* bound: queries in flight

Missing == "missing"   \* no such album, or a title that is undefined
NoAlbum == "none"
NewAlbum == "new"

ASSUME AlbumsAssumption ==
    /\ MaxWrites \in Nat \ {0} /\ MaxQueries \in Nat \ {0}
    /\ {NoAlbum, NewAlbum, "no"} \intersect Albums = {} /\ Missing \notin Titles

VARIABLES
    table,     \* the albums of the server with their titles
    albums,    \* $scope.albums
    queries,   \* queries in flight
    writes,    \* writes in flight
    editor,    \* EditorStatus: the album edited in place, and newFieldValue of its editor
    dialog,    \* the album the dialog is about
    atAlbums,  \* the route of the page
    unheard    \* ghost: albums with a write after which the list was not asked for

albumsVars == <<table, albums, queries, writes, editor, dialog, atAlbums, unheard>>
pageVars == <<editor, dialog, atAlbums>>

AlbumTable == [Albums -> Titles \union {Missing}]
NoAlbums == [a \in Albums |-> Missing]
NoEditor == [id |-> NoAlbum, value |-> Missing]
Unread == <<>>

\* fills: its array is the one the page shows; read: what the server has read for it.
Query == [fills : BOOLEAN, read : AlbumTable \union {Unread}]

\* A title that is missing deletes; lists: the callback for success lists the albums of
\* the page; served: not yet, or the album it was carried out on.
Write == [id : Albums \union {NewAlbum}, title : Titles \union {Missing}, lists : BOOLEAN,
          served : Albums \union {"no"}]

AlbumsTypeOK ==
    /\ table \in AlbumTable /\ albums \in AlbumTable
    /\ Len(queries) <= MaxQueries /\ ToSet(queries) \subseteq Query
    /\ Len(writes) <= MaxWrites /\ ToSet(writes) \subseteq Write
    /\ editor \in [id : Albums \union {NoAlbum}, value : Titles \union {Missing}]
    /\ dialog \in Albums \union {NewAlbum, NoAlbum}
    /\ atAlbums \in BOOLEAN /\ unheard \subseteq Albums

AlbumsInit ==
    /\ table \in AlbumTable /\ albums = NoAlbums /\ writes = <<>>
    /\ queries = <<[fills |-> TRUE, read |-> Unread]>> /\ editor = NoEditor
    /\ dialog = NoAlbum /\ atAlbums = TRUE /\ unheard = {}

--------------------------------------------------------------------------------
(* The list *)

\* A bug: the answer to an earlier query is shown.
abandonedShown == queries

\* The arrays of earlier queries are not the one of the page any more, and nobody looks at
\* what they read.
abandoned == [i \in DOMAIN queries |-> [fills |-> FALSE, read |-> Unread]]

\* list(): the page shows an empty array, which the answer will fill.
list ==
    /\ Len(queries) < MaxQueries
    /\ queries' = Append(abandoned, [fills |-> TRUE, read |-> Unread])
    /\ albums' = NoAlbums /\ unheard' = {}

ServeQuery(i) ==
    /\ queries[i].fills /\ queries[i].read = Unread /\ queries' = [queries EXCEPT ![i].read = table]
    /\ UNCHANGED <<table, albums, writes, pageVars, unheard>>

\* A bug: an editor that is made leaves the open one open.
renderOnly(shown) == albums' = shown /\ editor' = [editor EXCEPT !.value = Missing]

\* Each album shown gets new editors, and an editor that is made closes the open one.
render(shown) ==
    /\ albums' = shown
    /\ editor' = IF shown = NoAlbums THEN [editor EXCEPT !.value = Missing] ELSE NoEditor

QueryAnswers(i) ==
    /\ queries' = RemoveAt(queries, i)
    /\ \/ ~queries[i].fills /\ UNCHANGED <<albums, editor>>
       \/ queries[i].fills /\ queries[i].read # Unread /\ render(queries[i].read)
    /\ UNCHANGED <<table, writes, dialog, atAlbums, unheard>>

\* There is no callback for a query that fails: the array stays empty.
QueryFails(i) ==
    /\ queries' = RemoveAt(queries, i)
    /\ unheard' = IF queries[i].fills THEN Albums ELSE unheard
    /\ UNCHANGED <<table, albums, writes, pageVars>>

--------------------------------------------------------------------------------
(* The user *)

shows(a) == a \in Albums /\ atAlbums /\ dialog = NoAlbum /\ albums[a] # Missing

send(id, title, lists) ==
    /\ Len(writes) < MaxWrites
    /\ writes' = Append(writes, [id |-> id, title |-> title, lists |-> lists, served |-> "no"])

OpenDialog(a) ==
    /\ shows(a) \/ (a = NewAlbum /\ atAlbums /\ dialog = NoAlbum)
    /\ dialog' = a
    /\ UNCHANGED <<table, albums, queries, writes, editor, atAlbums, unheard>>

\* cancel, or ok with a title: saveAlbum sends the copy the dialog was opened with.
CloseDialog ==
    /\ dialog # NoAlbum /\ dialog' = NoAlbum
    /\ UNCHANGED writes \/ \E title \in Titles : send(dialog, title, TRUE)
    /\ UNCHANGED <<table, albums, queries, editor, atAlbums, unheard>>

DeleteAlbum(a) ==
    /\ shows(a) /\ send(a, Missing, TRUE)
    /\ UNCHANGED <<table, albums, queries, pageVars, unheard>>

EnableEditor(a) ==
    /\ shows(a) /\ editor.id # a /\ editor' = [id |-> a, value |-> albums[a]]
    /\ UNCHANGED <<table, albums, queries, writes, dialog, atAlbums, unheard>>

DisableEditor ==
    /\ shows(editor.id) /\ editor' = NoEditor
    /\ UNCHANGED <<table, albums, queries, writes, dialog, atAlbums, unheard>>

\* save, with a title or as the editor is: the album shown is changed before the server
\* has answered; the callback fails at list(), which is not defined there.
SaveEditor(title) ==
    /\ shows(editor.id) /\ send(editor.id, title, FALSE)
    /\ albums' = [albums EXCEPT ![editor.id] = title] /\ editor' = NoEditor
    /\ UNCHANGED <<table, queries, dialog, atAlbums, unheard>>

SetAlbumsView ==
    /\ atAlbums /\ dialog = NoAlbum /\ render(albums)
    /\ UNCHANGED <<table, queries, writes, dialog, atAlbums, unheard>>

\* The route changes: what is in flight will answer a page nobody sees.  A new
\* controller lists the albums.
LeaveAlbums ==
    /\ atAlbums /\ dialog = NoAlbum /\ atAlbums' = FALSE /\ queries' = abandoned
    /\ writes' = [i \in DOMAIN writes |-> [writes[i] EXCEPT !.lists = FALSE]]
    /\ UNCHANGED <<table, albums, editor, dialog, unheard>>

EnterAlbums ==
    /\ ~atAlbums /\ atAlbums' = TRUE /\ list /\ UNCHANGED <<table, writes, editor, dialog>>

--------------------------------------------------------------------------------
(* Writes *)

\* The albums a write may change.  The server names a new album; one that was deleted
\* meanwhile it puts back as it was named (Redis, Mongo) or makes under a new name (JPA).
places(w) ==
    IF w.id \in Albums /\ (w.title = Missing \/ table[w.id] # Missing)
    THEN {w.id} ELSE {a \in Albums : table[a] = Missing}

ServeWrite(i) ==
    /\ writes[i].served = "no"
    /\ \E a \in places(writes[i]) :
          /\ table' = [table EXCEPT ![a] = writes[i].title]
          /\ writes' = [writes EXCEPT ![i].served = a]
    /\ UNCHANGED <<albums, queries, pageVars, unheard>>

\* The album a write changed, or is to change.
about(w) == IF w.served = "no" THEN w.id ELSE w.served

\* The list is not asked for: what it tells of the album may be wrong from now on.
unlisted(i) == unheard' = unheard \union ({about(writes[i])} \intersect Albums)

WriteAnswers(i) ==
    /\ writes[i].served \in Albums /\ writes' = RemoveAt(writes, i)
    /\ IF writes[i].lists THEN list ELSE unlisted(i) /\ UNCHANGED <<queries, albums>>
    /\ UNCHANGED <<table, pageVars>>

\* The callback for an error only tells.  The server refused the write, as JPA does to
\* delete what is not there, or carried it out and its answer was lost.
WriteFails(i) ==
    /\ writes' = RemoveAt(writes, i) /\ unlisted(i)
    /\ UNCHANGED <<table, albums, queries, pageVars>>

AlbumsNext ==
    \/ \E i \in DOMAIN queries : ServeQuery(i) \/ QueryAnswers(i) \/ QueryFails(i)
    \/ \E a \in Albums \union {NewAlbum} : OpenDialog(a)
    \/ \E a \in Albums : DeleteAlbum(a) \/ EnableEditor(a)
    \/ \E title \in Titles \union {editor.value} : SaveEditor(title)
    \/ CloseDialog \/ DisableEditor \/ SetAlbumsView \/ LeaveAlbums \/ EnterAlbums
    \/ \E i \in DOMAIN writes : ServeWrite(i) \/ WriteAnswers(i) \/ WriteFails(i)

AlbumsSpec == AlbumsInit /\ [][AlbumsNext]_albumsVars

--------------------------------------------------------------------------------

\* When nothing is in flight the page lists what the server has, whatever order the
\* answers to queries and writes came in.  Not the albums whose last write the page was
\* not told of, or was told of by a callback that does not list: that of an editor in
\* place, which may also have made a deleted album anew under another name, of an error,
\* of a page the user had left; nor after a query that failed.
ListShowsTheTable ==
    atAlbums /\ writes = <<>> /\ (\A i \in DOMAIN queries : ~queries[i].fills) =>
        \A a \in Albums \ unheard : albums[a] = table[a]

\* An editor the user sees has the title of its album, and saves no undefined one: a
\* new list does not open an editor again whose text is gone.
EditorHasATitle == shows(editor.id) => editor.value # Missing
================================================================================
