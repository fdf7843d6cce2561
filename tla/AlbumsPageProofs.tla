--------------------------- MODULE AlbumsPageProofs ---------------------------
(***************************************************************************)
(* Proofs about AlbumsPage for every set of albums and titles, and any     *)
(* number of queries and writes in flight.                                 *)
(***************************************************************************)
EXTENDS AlbumsPage, SequenceTheorems, TLAPS

\* The editor has a title also while the page or the editor is hidden: a dialog that is
\* closed, or a route that is entered, shows the editor again as it was left.
EditorInv == editor.id \in Albums /\ albums[editor.id] # Missing => editor.value # Missing

LEMMA EditorNames == NoEditor.id \notin Albums /\ \A a \in Albums : NoAlbums[a] = Missing
  BY AlbumsAssumption DEF NoEditor, NoAlbums

LEMMA EditorInit == AlbumsInit => EditorInv
<1>1. AlbumsInit => editor = NoEditor
  BY DEF AlbumsInit
<1> QED
  BY <1>1, EditorNames DEF EditorInv

\* No editor is open, or the page shows no album: either way there is no text to lose.
LEMMA NothingEdited ==
    ASSUME editor' = NoEditor \/ albums' = NoAlbums PROVE EditorInv'
  BY EditorNames DEF EditorInv

LEMMA RenderClosesEditors ==
    ASSUME NEW shown, render(shown) PROVE EditorInv'
<1>1. editor' = NoEditor \/ albums' = NoAlbums
  BY DEF render
<1> QED
  BY <1>1, NothingEdited

LEMMA EditorStep == EditorInv /\ [AlbumsNext]_albumsVars => EditorInv'
<1> SUFFICES ASSUME EditorInv, [AlbumsNext]_albumsVars PROVE EditorInv'
  OBVIOUS
<1>k. CASE UNCHANGED <<albums, editor>>
  BY <1>k DEF EditorInv
<1>1. ASSUME NEW i \in DOMAIN queries, ServeQuery(i) \/ QueryAnswers(i) \/ QueryFails(i)
      PROVE  EditorInv'
  <2>1. UNCHANGED <<albums, editor>> \/ render(queries[i].read)
    BY <1>1 DEF ServeQuery, QueryAnswers, QueryFails, pageVars
  <2> QED
    BY <2>1, <1>k, RenderClosesEditors
<1>2. ASSUME NEW a \in Albums \union {NewAlbum}, OpenDialog(a) PROVE EditorInv'
  BY <1>2, <1>k DEF OpenDialog
<1>3. ASSUME NEW a \in Albums, DeleteAlbum(a) PROVE EditorInv'
  BY <1>3, <1>k DEF DeleteAlbum, pageVars
<1>4. ASSUME NEW a \in Albums, EnableEditor(a) PROVE EditorInv'
  <2>1. albums[a] # Missing /\ editor' = [id |-> a, value |-> albums[a]]
    BY <1>4 DEF EnableEditor, shows
  <2> QED
    BY <2>1 DEF EditorInv
<1>5. ASSUME NEW title, SaveEditor(title) PROVE EditorInv'
  BY <1>5, NothingEdited DEF SaveEditor
<1>6. ASSUME DisableEditor PROVE EditorInv'
  BY <1>6, NothingEdited DEF DisableEditor
<1>7. ASSUME CloseDialog \/ LeaveAlbums PROVE EditorInv'
  BY <1>7, <1>k DEF CloseDialog, LeaveAlbums
<1>8. ASSUME SetAlbumsView PROVE EditorInv'
  BY <1>8, RenderClosesEditors DEF SetAlbumsView
<1>9. ASSUME EnterAlbums PROVE EditorInv'
  BY <1>9, NothingEdited DEF EnterAlbums, list
<1>10. ASSUME NEW i \in DOMAIN writes, ServeWrite(i) \/ WriteAnswers(i) \/ WriteFails(i)
       PROVE  EditorInv'
  <2>1. UNCHANGED <<albums, editor>> \/ albums' = NoAlbums
    BY <1>10 DEF ServeWrite, WriteAnswers, WriteFails, list, pageVars
  <2> QED
    BY <2>1, <1>k, NothingEdited
<1>11. CASE UNCHANGED albumsVars
  BY <1>11, <1>k DEF albumsVars
<1> QED
  BY <1>1, <1>2, <1>3, <1>4, <1>5, <1>6, <1>7, <1>8, <1>9, <1>10, <1>11 DEF AlbumsNext

\* An editor the user sees has the title of its album: whatever answers arrive and
\* whichever dialogs and routes were open meanwhile, none saves an undefined title.
THEOREM EditorIsRight == AlbumsSpec => []EditorHasATitle
<1>1. EditorInv => EditorHasATitle
  BY DEF EditorInv, EditorHasATitle, shows
<1> QED
  BY <1>1, EditorInit, EditorStep, PTL DEF AlbumsSpec

--------------------------------------------------------------------------------
(* The types *)

\* What is in flight is a sequence: AlbumsTypeOK names only its elements.
AlbumsTyped ==
    /\ table \in AlbumTable /\ albums \in AlbumTable
    /\ queries \in Seq(Query) /\ Len(queries) <= MaxQueries
    /\ writes \in Seq(Write) /\ Len(writes) <= MaxWrites
    /\ editor \in [id : Albums \union {NoAlbum}, value : Titles \union {Missing}]
    /\ dialog \in Albums \union {NewAlbum, NoAlbum}
    /\ atAlbums \in BOOLEAN /\ unheard \subseteq Albums

\* The elements of a sequence without its i-th are the other elements, in their order.
LEMMA RemoveAtProperties ==
    ASSUME NEW S, NEW s \in Seq(S), NEW i \in DOMAIN s
    PROVE  /\ RemoveAt(s, i) \in Seq(S) /\ Len(RemoveAt(s, i)) = Len(s) - 1
           /\ \A j \in 1..(Len(s) - 1) : RemoveAt(s, i)[j] = s[IF j < i THEN j ELSE j + 1]
<1> DEFINE before == SubSeq(s, 1, i - 1)
           after == SubSeq(s, i + 1, Len(s))
<1>1. Len(s) \in Nat /\ DOMAIN s = 1..Len(s) /\ i \in 1..Len(s)
  BY LenProperties
<1>2. before \in Seq(S) /\ Len(before) = i - 1 /\ \A j \in 1..(i - 1) : before[j] = s[j]
  <2>1. \A j \in 1..(i - 1) : s[j] \in S
    BY <1>1, ElementOfSeq
  <2> QED
    BY <1>1, <2>1, SubSeqProperties
<1>3. after \in Seq(S) /\ Len(after) = Len(s) - i
      /\ \A j \in 1..(Len(s) - i) : after[j] = s[j + i]
  <2>1. \A j \in (i + 1)..Len(s) : s[j] \in S
    BY <1>1, ElementOfSeq
  <2> QED
    BY <1>1, <2>1, SubSeqProperties
<1>4. before \o after \in Seq(S) /\ Len(before \o after) = Len(before) + Len(after)
      /\ \A j \in 1..(Len(before) + Len(after)) :
            (before \o after)[j] = IF j <= Len(before) THEN before[j] ELSE after[j - Len(before)]
  BY <1>2, <1>3, ConcatProperties
<1> HIDE DEF before, after
<1>5. RemoveAt(s, i) = before \o after
  BY DEF RemoveAt, before, after
<1>6. Len(before \o after) = Len(s) - 1
  BY <1>1, <1>2, <1>3, <1>4
<1>7. ASSUME NEW j \in 1..(Len(s) - 1)
      PROVE  (before \o after)[j] = s[IF j < i THEN j ELSE j + 1]
  <2>1. j \in 1..(Len(before) + Len(after))
    BY <1>1, <1>2, <1>3
  <2>2. CASE j < i
    BY <1>1, <1>2, <1>4, <2>1, <2>2
  <2>3. CASE ~(j < i)
    <3>1. j - (i - 1) \in 1..(Len(s) - i) /\ (j - (i - 1)) + i = j + 1 /\ ~(j <= Len(before))
      BY <1>1, <1>2, <2>3
    <3>2. (before \o after)[j] = after[j - (i - 1)]
      BY <1>2, <1>4, <2>1, <3>1
    <3>3. after[j - (i - 1)] = s[j + 1]
      BY <1>3, <3>1
    <3> QED
      BY <2>3, <3>2, <3>3
  <2> QED
    BY <2>2, <2>3
<1> QED
  BY <1>4, <1>5, <1>6, <1>7

\* The same without positions: nothing new comes in, and only the i-th is lost.
LEMMA RemoveAtElements ==
    ASSUME NEW S, NEW s \in Seq(S), NEW i \in DOMAIN s
    PROVE  /\ \A k \in DOMAIN RemoveAt(s, i) : \E j \in DOMAIN s \ {i} : RemoveAt(s, i)[k] = s[j]
           /\ \A j \in DOMAIN s \ {i} : \E k \in DOMAIN RemoveAt(s, i) : RemoveAt(s, i)[k] = s[j]
<1> DEFINE r == RemoveAt(s, i)
<1>1. Len(s) \in Nat /\ DOMAIN s = 1..Len(s) /\ i \in 1..Len(s)
  BY LenProperties
<1>2. r \in Seq(S) /\ Len(r) = Len(s) - 1
      /\ \A j \in 1..(Len(s) - 1) : r[j] = s[IF j < i THEN j ELSE j + 1]
  BY RemoveAtProperties
<1>3. DOMAIN r = 1..(Len(s) - 1)
  BY <1>2, LenProperties
<1> HIDE DEF r
<1>4. ASSUME NEW k \in DOMAIN r PROVE \E j \in DOMAIN s \ {i} : r[k] = s[j]
  <2>1. CASE k < i
    BY <1>1, <1>2, <1>3, <2>1
  <2>2. CASE ~(k < i)
    <3>1. k + 1 \in DOMAIN s \ {i} /\ r[k] = s[k + 1]
      BY <1>1, <1>2, <1>3, <2>2
    <3> QED
      BY <3>1
  <2> QED
    BY <2>1, <2>2
<1>5. ASSUME NEW j \in DOMAIN s \ {i} PROVE \E k \in DOMAIN r : r[k] = s[j]
  <2>1. CASE j < i
    <3>1. j \in DOMAIN r /\ r[j] = s[j]
      BY <1>1, <1>2, <1>3, <2>1
    <3> QED
      BY <3>1
  <2>2. CASE ~(j < i)
    <3>1. j - 1 \in DOMAIN r /\ r[j - 1] = s[j]
      BY <1>1, <1>2, <1>3, <2>2
    <3> QED
      BY <3>1
  <2> QED
    BY <2>1, <2>2
<1> QED
  BY <1>4, <1>5 DEF r

LEMMA TypesOfElements ==
    ASSUME AlbumsTyped
    PROVE  /\ \A i \in DOMAIN queries : queries[i] \in Query
           /\ \A i \in DOMAIN writes : writes[i] \in Write
           /\ Len(queries) \in Nat /\ Len(writes) \in Nat
  BY ElementOfSeq, LenProperties DEF AlbumsTyped

LEMMA AbandonedTyped ==
    ASSUME AlbumsTyped PROVE abandoned \in Seq(Query) /\ Len(abandoned) = Len(queries)
<1>1. Len(queries) \in Nat /\ DOMAIN queries = 1..Len(queries)
  BY LenProperties DEF AlbumsTyped
<1>2. [fills |-> FALSE, read |-> Unread] \in Query
  BY DEF Query
<1> QED
  BY <1>1, <1>2 DEF abandoned

LEMMA ListTyped ==
    ASSUME AlbumsTyped, list
    PROVE  /\ queries' \in Seq(Query) /\ Len(queries') <= MaxQueries
           /\ albums' \in AlbumTable /\ unheard' \subseteq Albums
<1>1. [fills |-> TRUE, read |-> Unread] \in Query
  BY DEF Query
<1>2. Append(abandoned, [fills |-> TRUE, read |-> Unread]) \in Seq(Query)
      /\ Len(Append(abandoned, [fills |-> TRUE, read |-> Unread])) = Len(abandoned) + 1
  BY <1>1, AbandonedTyped, AppendProperties
<1>3. Len(queries) < MaxQueries /\ Len(queries) \in Nat /\ MaxQueries \in Nat
  BY TypesOfElements, AlbumsAssumption DEF list
<1>4. queries' = Append(abandoned, [fills |-> TRUE, read |-> Unread])
      /\ albums' = NoAlbums /\ unheard' = {}
  BY DEF list
<1> QED
  BY <1>2, <1>3, <1>4, AbandonedTyped DEF NoAlbums, AlbumTable

LEMMA SendTyped ==
    ASSUME AlbumsTyped, NEW id \in Albums \union {NewAlbum}, NEW title \in Titles \union {Missing},
           NEW lists \in BOOLEAN, send(id, title, lists)
    PROVE  writes' \in Seq(Write) /\ Len(writes') <= MaxWrites
<1> DEFINE w == [id |-> id, title |-> title, lists |-> lists, served |-> "no"]
<1>1. w \in Write
  BY DEF Write
<1>2. Len(writes) < MaxWrites /\ writes' = Append(writes, w)
  BY DEF send
<1>3. Len(writes) \in Nat /\ MaxWrites \in Nat
  BY TypesOfElements, AlbumsAssumption
<1> HIDE DEF w
<1>4. Append(writes, w) \in Seq(Write) /\ Len(Append(writes, w)) = Len(writes) + 1
  BY <1>1, AppendProperties DEF AlbumsTyped
<1> QED
  BY <1>2, <1>3, <1>4

LEMMA RenderTyped ==
    ASSUME AlbumsTyped, NEW shown \in AlbumTable, render(shown)
    PROVE  /\ albums' \in AlbumTable
           /\ editor' \in [id : Albums \union {NoAlbum}, value : Titles \union {Missing}]
  BY DEF AlbumsTyped, render, NoEditor

LEMMA AlbumsTypedInit == AlbumsInit => AlbumsTyped
<1>1. [fills |-> TRUE, read |-> Unread] \in Query
  BY DEF Query
<1> SUFFICES ASSUME AlbumsInit PROVE AlbumsTyped
  OBVIOUS
<1>2. queries \in Seq(Query) /\ Len(queries) = 1 /\ writes \in Seq(Write) /\ Len(writes) = 0
  BY <1>1 DEF AlbumsInit
<1> QED
  BY <1>2, AlbumsAssumption DEF AlbumsInit, AlbumsTyped, NoAlbums, AlbumTable, NoEditor

LEMMA QueriesStepTyped ==
    ASSUME AlbumsTyped, NEW i \in DOMAIN queries,
           ServeQuery(i) \/ QueryAnswers(i) \/ QueryFails(i)
    PROVE  AlbumsTyped'
<1>1. queries[i] \in Query /\ Len(queries) \in Nat /\ MaxQueries \in Nat
      /\ queries \in Seq(Query) /\ Len(queries) <= MaxQueries /\ i \in 1..Len(queries)
  BY TypesOfElements, AlbumsAssumption, LenProperties DEF AlbumsTyped
<1>2. CASE ServeQuery(i)
  <2>1. [queries[i] EXCEPT !.read = table] \in Query
    BY <1>1 DEF Query, AlbumsTyped
  <2>2. queries' = [queries EXCEPT ![i] = [queries[i] EXCEPT !.read = table]]
    BY <1>2 DEF ServeQuery
  <2>3. queries' \in Seq(Query) /\ Len(queries') = Len(queries)
    BY <1>1, <2>1, <2>2, ExceptSeq
  <2> QED
    BY <1>1, <1>2, <2>3 DEF ServeQuery, pageVars, AlbumsTyped
<1>3. RemoveAt(queries, i) \in Seq(Query) /\ Len(RemoveAt(queries, i)) = Len(queries) - 1
  BY <1>1, RemoveAtProperties
<1>4. CASE QueryAnswers(i)
  <2>1. queries' \in Seq(Query) /\ Len(queries') <= MaxQueries
    BY <1>1, <1>3, <1>4 DEF QueryAnswers
  <2>2. queries[i].read # Unread => queries[i].read \in AlbumTable
    BY <1>1 DEF Query
  <2>3. albums' \in AlbumTable
        /\ editor' \in [id : Albums \union {NoAlbum}, value : Titles \union {Missing}]
    BY <1>4, <2>2, RenderTyped DEF QueryAnswers, AlbumsTyped
  <2> QED
    BY <1>4, <2>1, <2>3 DEF QueryAnswers, AlbumsTyped
<1>5. CASE QueryFails(i)
  BY <1>1, <1>3, <1>5 DEF QueryFails, pageVars, AlbumsTyped
<1> QED
  BY <1>2, <1>4, <1>5

\* A write is carried out on an album: to delete and to save go to the one they name, if
\* it is there, and a new one gets a name nobody has.
LEMMA PlacesAreAlbums ==
    ASSUME NEW w PROVE places(w) \subseteq Albums
  BY DEF places

LEMMA WritesStepTyped ==
    ASSUME AlbumsTyped, NEW i \in DOMAIN writes,
           ServeWrite(i) \/ WriteAnswers(i) \/ WriteFails(i)
    PROVE  AlbumsTyped'
<1>1. writes[i] \in Write /\ Len(writes) \in Nat /\ MaxWrites \in Nat
      /\ writes \in Seq(Write) /\ Len(writes) <= MaxWrites /\ i \in 1..Len(writes)
  BY TypesOfElements, AlbumsAssumption, LenProperties DEF AlbumsTyped
<1>2. CASE ServeWrite(i)
  <2>0. PICK a \in places(writes[i]) :
            /\ table' = [table EXCEPT ![a] = writes[i].title]
            /\ writes' = [writes EXCEPT ![i].served = a]
    BY <1>2 DEF ServeWrite
  <2>p. a \in Albums
    BY PlacesAreAlbums
  <2>1. PICK w \in Write : writes' = [writes EXCEPT ![i] = w]
    <3>1. [writes[i] EXCEPT !.served = a] \in Write
      BY <1>1, <2>p DEF Write
    <3> QED
      BY <2>0, <3>1
  <2>2. writes' \in Seq(Write) /\ Len(writes') = Len(writes)
    BY <1>1, <2>1, ExceptSeq
  <2>3. table' \in AlbumTable
    BY <1>1, <2>0 DEF Write, AlbumTable, AlbumsTyped
  <2> QED
    BY <1>1, <1>2, <2>2, <2>3 DEF ServeWrite, pageVars, AlbumsTyped
<1>3. RemoveAt(writes, i) \in Seq(Write) /\ Len(RemoveAt(writes, i)) = Len(writes) - 1
  BY <1>1, RemoveAtProperties
<1>4. CASE WriteAnswers(i)
  <2>1. /\ queries' \in Seq(Query) /\ Len(queries') <= MaxQueries
        /\ albums' \in AlbumTable /\ unheard' \subseteq Albums
    BY <1>4, ListTyped DEF WriteAnswers, unlisted, AlbumsTyped
  <2> QED
    BY <1>1, <1>3, <1>4, <2>1 DEF WriteAnswers, pageVars, AlbumsTyped
<1>5. CASE WriteFails(i)
  BY <1>1, <1>3, <1>5 DEF WriteFails, unlisted, pageVars, AlbumsTyped
<1> QED
  BY <1>2, <1>4, <1>5

LEMMA UserStepTyped ==
    ASSUME AlbumsTyped,
           \/ \E a \in Albums \union {NewAlbum} : OpenDialog(a)
           \/ \E a \in Albums : DeleteAlbum(a) \/ EnableEditor(a)
           \/ \E title \in Titles \union {editor.value} : SaveEditor(title)
           \/ CloseDialog \/ DisableEditor \/ SetAlbumsView \/ LeaveAlbums \/ EnterAlbums
    PROVE  AlbumsTyped'
<1>1. ASSUME NEW a \in Albums \union {NewAlbum}, OpenDialog(a) PROVE AlbumsTyped'
  BY <1>1 DEF OpenDialog, AlbumsTyped
<1>2. ASSUME NEW a \in Albums, DeleteAlbum(a) PROVE AlbumsTyped'
  <2>1. writes' \in Seq(Write) /\ Len(writes') <= MaxWrites
    BY <1>2, SendTyped DEF DeleteAlbum
  <2> QED
    BY <1>2, <2>1 DEF DeleteAlbum, pageVars, AlbumsTyped
<1>3. ASSUME NEW a \in Albums, EnableEditor(a) PROVE AlbumsTyped'
  <2>1. albums[a] \in Titles \union {Missing}
    BY DEF AlbumsTyped, AlbumTable
  <2> QED
    BY <1>3, <2>1 DEF EnableEditor, AlbumsTyped
<1>4. ASSUME NEW title \in Titles \union {editor.value}, SaveEditor(title) PROVE AlbumsTyped'
  <2>1. title \in Titles \union {Missing} /\ editor.id \in Albums
    BY <1>4 DEF SaveEditor, shows, AlbumsTyped
  <2>2. writes' \in Seq(Write) /\ Len(writes') <= MaxWrites
    BY <1>4, <2>1, SendTyped DEF SaveEditor
  <2>3. albums' \in AlbumTable
    BY <1>4, <2>1 DEF SaveEditor, AlbumTable, AlbumsTyped
  <2> QED
    BY <1>4, <2>2, <2>3 DEF SaveEditor, NoEditor, AlbumsTyped
<1>5. ASSUME CloseDialog PROVE AlbumsTyped'
  <2>1. writes' \in Seq(Write) /\ Len(writes') <= MaxWrites
    <3>1. dialog \in Albums \union {NewAlbum}
      BY <1>5 DEF CloseDialog, AlbumsTyped
    <3>2. ASSUME NEW title \in Titles, send(dialog, title, TRUE)
          PROVE  writes' \in Seq(Write) /\ Len(writes') <= MaxWrites
      BY <3>1, <3>2, SendTyped
    <3> QED
      BY <1>5, <3>2 DEF CloseDialog, AlbumsTyped
  <2> QED
    BY <1>5, <2>1 DEF CloseDialog, AlbumsTyped
<1>6. ASSUME DisableEditor PROVE AlbumsTyped'
  BY <1>6 DEF DisableEditor, NoEditor, AlbumsTyped
<1>7. ASSUME SetAlbumsView PROVE AlbumsTyped'
  BY <1>7, RenderTyped DEF SetAlbumsView, AlbumsTyped
<1>8. ASSUME LeaveAlbums PROVE AlbumsTyped'
  <2>1. queries' \in Seq(Query) /\ Len(queries') <= MaxQueries
    BY <1>8, AbandonedTyped DEF LeaveAlbums, AlbumsTyped
  <2>2. Len(writes) \in Nat /\ DOMAIN writes = 1..Len(writes)
    BY LenProperties DEF AlbumsTyped
  <2>3. \A i \in DOMAIN writes : [writes[i] EXCEPT !.lists = FALSE] \in Write
    BY TypesOfElements DEF Write
  <2>4. writes' \in Seq(Write) /\ Len(writes') = Len(writes)
    BY <1>8, <2>2, <2>3 DEF LeaveAlbums
  <2> QED
    BY <1>8, <2>1, <2>4 DEF LeaveAlbums, AlbumsTyped
<1>9. ASSUME EnterAlbums PROVE AlbumsTyped'
  BY <1>9, ListTyped DEF EnterAlbums, AlbumsTyped
<1> QED
  BY <1>1, <1>2, <1>3, <1>4, <1>5, <1>6, <1>7, <1>8, <1>9

LEMMA AlbumsTypedStep == AlbumsTyped /\ [AlbumsNext]_albumsVars => AlbumsTyped'
<1> SUFFICES ASSUME AlbumsTyped, [AlbumsNext]_albumsVars PROVE AlbumsTyped'
  OBVIOUS
<1>1. CASE UNCHANGED albumsVars
  BY <1>1 DEF albumsVars, AlbumsTyped
<1> QED
  BY <1>1, QueriesStepTyped, UserStepTyped, WritesStepTyped DEF AlbumsNext

\* Albums, editors, dialogs and what is in flight stay what they are: an answer, however
\* late, gives the page a list of albums, and no write names an album that is none.
THEOREM AlbumsTypes == AlbumsSpec => []AlbumsTypeOK
<1>1. AlbumsTyped => AlbumsTypeOK
  BY TypesOfElements DEF AlbumsTyped, AlbumsTypeOK, ToSet
<1> QED
  BY <1>1, AlbumsTypedInit, AlbumsTypedStep, PTL DEF AlbumsSpec

--------------------------------------------------------------------------------
(* The list *)

\* The server has carried a write for the album out, and the page was not told yet.
CarriedOut(a) == \E j \in DOMAIN writes : writes[j].served = a

\* A write for the album is in flight that will not make the page list it.
Unlisted(a) == \E j \in DOMAIN writes : about(writes[j]) = a /\ ~writes[j].lists

\* An answer the page waits for tells what the server has, unless it was overtaken by a
\* write the page will still be told of.
AnswersAreFresh(a) ==
    \A i \in DOMAIN queries : queries[i].fills =>
        queries[i].read = Unread \/ queries[i].read[a] = table[a] \/ CarriedOut(a)

ListIsFresh(a) ==
    atAlbums /\ (\A i \in DOMAIN queries : ~queries[i].fills) =>
        albums[a] = table[a] \/ CarriedOut(a) \/ Unlisted(a)

\* What was deleted is not shown once the page was told: no editor can save it then.
DeletedIsGone(a) ==
    atAlbums /\ (\A i \in DOMAIN queries : ~queries[i].fills) /\ table[a] = Missing =>
        albums[a] = Missing \/ CarriedOut(a)

Fresh(a) == AnswersAreFresh(a) /\ ListIsFresh(a) /\ DeletedIsGone(a)
ListInv == \A a \in Albums \ unheard : Fresh(a)

LEMMA ListInit == AlbumsInit => ListInv
<1> SUFFICES ASSUME AlbumsInit PROVE ListInv
  OBVIOUS
<1>1. DOMAIN queries = {1} /\ queries[1].fills /\ queries[1].read = Unread
  BY DEF AlbumsInit
<1> QED
  BY <1>1 DEF ListInv, Fresh, AnswersAreFresh, ListIsFresh, DeletedIsGone

\* In a step: what is in flight about the album still is, and still tells as much of it.
KeepsWritesOf(a) ==
    \A j \in DOMAIN writes : about(writes[j]) = a =>
        \E k \in DOMAIN writes' :
            /\ about(writes'[k]) = a /\ (~writes[j].lists => ~writes'[k].lists)
            /\ writes[j].served = a => writes'[k].served = a

LEMMA WritesTell ==
    ASSUME NEW a \in Albums, KeepsWritesOf(a)
    PROVE  (CarriedOut(a) => CarriedOut(a)') /\ (Unlisted(a) => Unlisted(a)')
<1>1. \A w : w.served = a => about(w) = a
  BY AlbumsAssumption DEF about
<1> QED
  BY <1>1 DEF KeepsWritesOf, CarriedOut, Unlisted

LEMMA ListUntouched ==
    ASSUME ListInv, UNCHANGED <<table, albums, queries, atAlbums>>, unheard \subseteq unheard',
           \A a \in Albums \ unheard' : KeepsWritesOf(a)
    PROVE  ListInv'
<1> SUFFICES ASSUME NEW a \in Albums \ unheard' PROVE Fresh(a)'
  BY DEF ListInv
<1>1. Fresh(a)
  BY DEF ListInv
<1>2. (CarriedOut(a) => CarriedOut(a)') /\ (Unlisted(a) => Unlisted(a)')
  BY WritesTell
<1> QED
  BY <1>1, <1>2 DEF Fresh, AnswersAreFresh, ListIsFresh, DeletedIsGone

\* A write is added to those in flight: the others are what they were.
LEMMA SendKeepsWrites ==
    ASSUME AlbumsTyped, NEW id, NEW title, NEW lists, send(id, title, lists), NEW a
    PROVE  /\ KeepsWritesOf(a)
           /\ id = a /\ lists = FALSE => Unlisted(a)'
<1> DEFINE w == [id |-> id, title |-> title, lists |-> lists, served |-> "no"]
<1>1. writes \in Seq(Write \union {w}) /\ w \in Write \union {w}
  BY SeqMonotonic DEF AlbumsTyped
<1>2. writes' = Append(writes, w)
  BY DEF send
<1>3. about(w) = id /\ w.lists = lists
  BY DEF about
<1> HIDE DEF w
<1>4. /\ writes' \in Seq(Write \union {w}) /\ Len(writes') = Len(writes) + 1
      /\ writes'[Len(writes) + 1] = w /\ \A j \in 1..Len(writes) : writes'[j] = writes[j]
  BY <1>1, <1>2, AppendProperties
<1>5. Len(writes) \in Nat /\ DOMAIN writes = 1..Len(writes) /\ DOMAIN writes' = 1..(Len(writes) + 1)
  BY <1>1, <1>4, LenProperties
<1>6. KeepsWritesOf(a)
  BY <1>4, <1>5 DEF KeepsWritesOf
<1>7. ASSUME id = a, lists = FALSE PROVE Unlisted(a)'
  <2>1. Len(writes) + 1 \in DOMAIN writes'
    BY <1>5
  <2> QED
    BY <1>3, <1>4, <1>7, <2>1 DEF Unlisted
<1> QED
  BY <1>6, <1>7

LEMMA SameWritesKept == ASSUME NEW a, UNCHANGED writes PROVE KeepsWritesOf(a)
  BY DEF KeepsWritesOf

\* The list was asked for: the only answer the page waits for is to a query not served.
LEMMA ListAsked ==
    ASSUME AlbumsTyped, list PROVE ListInv'
<1> DEFINE q == [fills |-> TRUE, read |-> Unread]
<1>1. queries' = Append(abandoned, q)
  BY DEF list
<1>2. q \in Query /\ q.fills /\ q.read = Unread
  BY DEF Query
<1>3. abandoned \in Seq(Query) /\ Len(abandoned) = Len(queries) /\ Len(queries) \in Nat
  BY AbandonedTyped, TypesOfElements
<1> HIDE DEF q
<1>4. /\ queries' \in Seq(Query) /\ Len(queries') = Len(queries) + 1
      /\ queries'[Len(queries) + 1] = q /\ \A i \in 1..Len(queries) : queries'[i] = abandoned[i]
  BY <1>1, <1>2, <1>3, AppendProperties
<1>5. DOMAIN queries = 1..Len(queries) /\ DOMAIN queries' = 1..(Len(queries) + 1)
  BY <1>4, LenProperties DEF AlbumsTyped
<1>6. \A i \in 1..Len(queries) : ~queries'[i].fills
  BY <1>4, <1>5, TypesOfElements DEF abandoned, Query
<1>7. Len(queries) + 1 \in DOMAIN queries'
  BY <1>3, <1>5
<1>8. \A i \in DOMAIN queries' : queries'[i].fills => queries'[i].read = Unread
  BY <1>2, <1>3, <1>4, <1>5, <1>6
<1> QED
  BY <1>2, <1>4, <1>7, <1>8 DEF ListInv, Fresh, AnswersAreFresh, ListIsFresh, DeletedIsGone

LEMMA QueriesStepList ==
    ASSUME AlbumsTyped, ListInv, NEW i \in DOMAIN queries,
           ServeQuery(i) \/ QueryAnswers(i) \/ QueryFails(i)
    PROVE  ListInv'
<1>1. queries[i] \in Query
  BY TypesOfElements
<1> SUFFICES ASSUME NEW a \in Albums \ unheard' PROVE Fresh(a)'
  BY DEF ListInv
<1>2. writes' = writes /\ table' = table /\ atAlbums' = atAlbums
  BY DEF ServeQuery, QueryAnswers, QueryFails, pageVars
<1>3. (CarriedOut(a) => CarriedOut(a)') /\ (Unlisted(a) => Unlisted(a)')
  BY <1>2, SameWritesKept, WritesTell
<1>4. CASE ServeQuery(i)
  <2>1. Fresh(a)
    BY <1>4 DEF ServeQuery, ListInv
  <2>2. /\ DOMAIN queries' = DOMAIN queries
        /\ \A j \in DOMAIN queries : queries'[j].fills = queries[j].fills
        /\ \A j \in DOMAIN queries : queries'[j].read = IF j = i THEN table ELSE queries[j].read
    BY <1>1, <1>4 DEF ServeQuery, Query
  <2>3. AnswersAreFresh(a)'
    BY <1>2, <1>3, <2>1, <2>2 DEF Fresh, AnswersAreFresh
  <2>4. albums' = albums
    BY <1>4 DEF ServeQuery
  <2> QED
    BY <1>2, <1>3, <2>1, <2>2, <2>3, <2>4 DEF Fresh, ListIsFresh, DeletedIsGone
<1>5. CASE QueryAnswers(i) \/ QueryFails(i)
  <2>1. /\ \A k \in DOMAIN queries' : \E j \in DOMAIN queries \ {i} : queries'[k] = queries[j]
        /\ \A j \in DOMAIN queries \ {i} : \E k \in DOMAIN queries' : queries'[k] = queries[j]
    BY <1>5, RemoveAtElements DEF QueryAnswers, QueryFails, AlbumsTyped
  <2>2. ~(QueryFails(i) /\ queries[i].fills)
    BY DEF QueryFails
  <2>3. unheard' = unheard
    BY <1>5, <2>2 DEF QueryAnswers, QueryFails
  <2>4. Fresh(a)
    BY <2>3 DEF ListInv
  <2>5. AnswersAreFresh(a)'
    BY <1>2, <1>3, <2>1, <2>4 DEF Fresh, AnswersAreFresh
  <2>6. CASE queries[i].fills
    <3>1. albums' = queries[i].read /\ queries[i].read # Unread
      BY <1>5, <2>2, <2>6 DEF QueryAnswers, render
    <3>2. queries[i].read[a] = table[a] \/ CarriedOut(a)
      BY <2>4, <2>6, <3>1 DEF Fresh, AnswersAreFresh
    <3> QED
      BY <1>2, <1>3, <2>5, <3>1, <3>2 DEF Fresh, ListIsFresh, DeletedIsGone
  <2>7. CASE ~queries[i].fills
    <3>1. albums' = albums
      BY <1>5, <2>7 DEF QueryAnswers, QueryFails, pageVars
    <3>2. ASSUME \A k \in DOMAIN queries' : ~queries'[k].fills
          PROVE  \A j \in DOMAIN queries : ~queries[j].fills
      BY <2>1, <2>7, <3>2
    <3> QED
      BY <1>2, <1>3, <2>4, <2>5, <3>1, <3>2 DEF Fresh, ListIsFresh, DeletedIsGone
  <2> QED
    BY <2>6, <2>7
<1> QED
  BY <1>4, <1>5

LEMMA ServeWriteList ==
    ASSUME AlbumsTyped, ListInv, NEW i \in DOMAIN writes, ServeWrite(i)
    PROVE  ListInv'
<1>1. writes[i] \in Write
  BY TypesOfElements
<1>2. PICK b \in places(writes[i]) :
          /\ table' = [table EXCEPT ![b] = writes[i].title]
          /\ writes' = [writes EXCEPT ![i].served = b]
  BY DEF ServeWrite
<1>3. b \in Albums /\ (b = writes[i].id \/ table[b] = Missing)
  BY DEF places
<1>n. writes[i].served = "no"
  BY DEF ServeWrite
<1>4. /\ DOMAIN writes' = DOMAIN writes
      /\ writes'[i].served = b /\ writes'[i].id = writes[i].id /\ writes'[i].lists = writes[i].lists
      /\ \A j \in DOMAIN writes \ {i} : writes'[j] = writes[j]
  BY <1>1, <1>2 DEF Write
<1> SUFFICES ASSUME NEW a \in Albums \ unheard' PROVE Fresh(a)'
  BY DEF ListInv
<1>5. UNCHANGED <<albums, queries, atAlbums, unheard>>
  BY DEF ServeWrite, pageVars
<1>6. Fresh(a)
  BY <1>5 DEF ListInv
<1>7. CASE a = b
  <2>1. CarriedOut(a)'
    BY <1>4, <1>7 DEF CarriedOut
  <2> QED
    BY <2>1 DEF Fresh, AnswersAreFresh, ListIsFresh, DeletedIsGone
<1>8. CASE a # b /\ writes[i].id # a
  <2>1. about(writes[i]) # a
    BY <1>8, <1>n DEF about
  <2>2. KeepsWritesOf(a)
    BY <1>4, <2>1 DEF KeepsWritesOf
  <2>3. table'[a] = table[a]
    BY <1>2, <1>8 DEF AlbumsTyped, AlbumTable
  <2>4. (CarriedOut(a) => CarriedOut(a)') /\ (Unlisted(a) => Unlisted(a)')
    BY <2>2, WritesTell
  <2> QED
    BY <1>5, <1>6, <2>3, <2>4 DEF Fresh, AnswersAreFresh, ListIsFresh, DeletedIsGone
<1>9. CASE a # b /\ writes[i].id = a
  <2>1. table[a] = Missing
    BY <1>2, <1>9 DEF places
  <2>2. table'[a] = table[a]
    BY <1>2, <1>9 DEF AlbumsTyped, AlbumTable
  <2>3. CarriedOut(a) => CarriedOut(a)'
    <3>1. writes[i].served # a
      BY <1>n, AlbumsAssumption
    <3> QED
      BY <1>4, <3>1 DEF CarriedOut
  <2> QED
    BY <1>5, <1>6, <2>1, <2>2, <2>3 DEF Fresh, AnswersAreFresh, ListIsFresh, DeletedIsGone
<1> QED
  BY <1>7, <1>8, <1>9

\* A write that is answered is the last of its album the page hears of: it lists, or the
\* album is one of those the page does not speak for.
LEMMA WriteEndsList ==
    ASSUME AlbumsTyped, ListInv, NEW i \in DOMAIN writes, WriteAnswers(i) \/ WriteFails(i)
    PROVE  ListInv'
<1>1. CASE WriteAnswers(i) /\ writes[i].lists
  BY <1>1, ListAsked DEF WriteAnswers
<1>2. CASE ~(WriteAnswers(i) /\ writes[i].lists)
  <2>1. /\ writes' = RemoveAt(writes, i) /\ unlisted(i)
        /\ UNCHANGED <<table, albums, queries, atAlbums>>
    BY <1>2 DEF WriteAnswers, WriteFails, pageVars
  <2>2. \A j \in DOMAIN writes \ {i} : \E k \in DOMAIN writes' : writes'[k] = writes[j]
    BY <2>1, RemoveAtElements DEF AlbumsTyped
  <2>3. ASSUME NEW a \in Albums \ unheard' PROVE KeepsWritesOf(a)
    <3>1. about(writes[i]) # a
      BY <2>1 DEF unlisted
    <3> QED
      BY <2>2, <3>1 DEF KeepsWritesOf
  <2> QED
    BY <2>1, <2>3, ListUntouched DEF unlisted
<1> QED
  BY <1>1, <1>2

LEMMA UserStepList ==
    ASSUME AlbumsTyped, ListInv,
           \/ \E a \in Albums \union {NewAlbum} : OpenDialog(a)
           \/ \E a \in Albums : DeleteAlbum(a) \/ EnableEditor(a)
           \/ \E title \in Titles \union {editor.value} : SaveEditor(title)
           \/ CloseDialog \/ DisableEditor \/ SetAlbumsView \/ LeaveAlbums \/ EnterAlbums
    PROVE  ListInv'
<1>k. CASE UNCHANGED <<table, albums, queries, atAlbums, unheard>>
           /\ \A a \in Albums : KeepsWritesOf(a)
  BY <1>k, ListUntouched
<1>1. ASSUME NEW a \in Albums \union {NewAlbum}, OpenDialog(a) PROVE ListInv'
  BY <1>1, <1>k, SameWritesKept DEF OpenDialog
<1>2. ASSUME NEW a \in Albums, DeleteAlbum(a) PROVE ListInv'
  BY <1>2, <1>k, SendKeepsWrites DEF DeleteAlbum, pageVars
<1>3. ASSUME NEW a \in Albums, EnableEditor(a) PROVE ListInv'
  BY <1>3, <1>k, SameWritesKept DEF EnableEditor
<1>4. ASSUME NEW title, SaveEditor(title) PROVE ListInv'
  <2>1. /\ send(editor.id, title, FALSE) /\ albums' = [albums EXCEPT ![editor.id] = title]
        /\ UNCHANGED <<table, queries, atAlbums, unheard>>
    BY <1>4 DEF SaveEditor
  <2> SUFFICES ASSUME NEW a \in Albums \ unheard' PROVE Fresh(a)'
    BY DEF ListInv
  <2>2. Fresh(a)
    BY <2>1 DEF ListInv
  <2>3. (CarriedOut(a) => CarriedOut(a)') /\ (Unlisted(a) => Unlisted(a)')
    BY <2>1, SendKeepsWrites, WritesTell
  <2>4. AnswersAreFresh(a)'
    BY <2>1, <2>2, <2>3 DEF Fresh, AnswersAreFresh
  <2>5. ListIsFresh(a)'
    <3>1. CASE editor.id = a
      BY <2>1, <2>4, <3>1, SendKeepsWrites DEF ListIsFresh
    <3>2. CASE editor.id # a
      <4>1. albums'[a] = albums[a]
        BY <2>1, <3>2 DEF AlbumsTyped, AlbumTable
      <4> QED
        BY <2>1, <2>2, <2>3, <2>4, <4>1 DEF Fresh, ListIsFresh
    <3> QED
      BY <3>1, <3>2
  <2>6. DeletedIsGone(a)'
    <3>1. CASE editor.id = a
      <4>1. albums[a] # Missing
        BY <1>4, <3>1 DEF SaveEditor, shows
      <4> QED
        BY <2>1, <2>2, <2>3, <4>1 DEF Fresh, DeletedIsGone
    <3>2. CASE editor.id # a
      <4>1. albums'[a] = albums[a]
        BY <2>1, <3>2 DEF AlbumsTyped, AlbumTable
      <4> QED
        BY <2>1, <2>2, <2>3, <4>1 DEF Fresh, DeletedIsGone
    <3> QED
      BY <3>1, <3>2
  <2> QED
    BY <2>4, <2>5, <2>6 DEF Fresh
<1>5. ASSUME CloseDialog PROVE ListInv'
  <2>1. \A a \in Albums : KeepsWritesOf(a)
    BY <1>5, SameWritesKept, SendKeepsWrites DEF CloseDialog
  <2> QED
    BY <1>5, <1>k, <2>1 DEF CloseDialog
<1>6. ASSUME DisableEditor PROVE ListInv'
  BY <1>6, <1>k, SameWritesKept DEF DisableEditor
<1>7. ASSUME SetAlbumsView PROVE ListInv'
  BY <1>7, <1>k, SameWritesKept DEF SetAlbumsView, render
<1>8. ASSUME LeaveAlbums PROVE ListInv'
  <2>1. \A i \in DOMAIN queries' : ~queries'[i].fills
    BY <1>8 DEF LeaveAlbums, abandoned
  <2>2. ~atAlbums'
    BY <1>8 DEF LeaveAlbums
  <2> QED
    BY <2>1, <2>2 DEF ListInv, Fresh, AnswersAreFresh, ListIsFresh, DeletedIsGone
<1>9. ASSUME EnterAlbums PROVE ListInv'
  BY <1>9, ListAsked DEF EnterAlbums
<1> QED
  BY <1>1, <1>2, <1>3, <1>4, <1>5, <1>6, <1>7, <1>8, <1>9

LEMMA ListStep == AlbumsTyped /\ ListInv /\ [AlbumsNext]_albumsVars => ListInv'
<1> SUFFICES ASSUME AlbumsTyped, ListInv, [AlbumsNext]_albumsVars PROVE ListInv'
  OBVIOUS
<1>1. CASE UNCHANGED albumsVars
  BY <1>1, ListUntouched, SameWritesKept DEF albumsVars
<1> QED
  BY <1>1, QueriesStepList, UserStepList, ServeWriteList, WriteEndsList DEF AlbumsNext

\* When nothing is in flight the page lists what the server has, for any number of
\* queries and writes served, answered and refused in any order, but for the albums
\* whose last write the page was not told of.
THEOREM ListIsRight == AlbumsSpec => []ListShowsTheTable
<1>1. AlbumsTyped /\ ListInv => ListShowsTheTable
  <2> SUFFICES ASSUME AlbumsTyped, ListInv, atAlbums, writes = <<>>,
                      \A i \in DOMAIN queries : ~queries[i].fills,
                      NEW a \in Albums \ unheard
               PROVE  albums[a] = table[a]
    BY DEF ListShowsTheTable
  <2>1. ~CarriedOut(a) /\ ~Unlisted(a)
    BY DEF CarriedOut, Unlisted
  <2> QED
    BY <2>1 DEF ListInv, Fresh, ListIsFresh
<1> QED
  BY <1>1, AlbumsTypedInit, AlbumsTypedStep, ListInit, ListStep, PTL DEF AlbumsSpec
================================================================================
