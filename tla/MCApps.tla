--------------------------------- MODULE MCApps ---------------------------------
(***************************************************************************)
(* The pages of three applications and a form, one at a time: they belong  *)
(* to different sites.  The sortable tables come alone, with rows and      *)
(* cells that change, and as two that share the defaults of the plugin.    *)
(***************************************************************************)
EXTENDS MultiCloudChat, AlbumsPage, TableSorter, FormValidation, TLC

CONSTANTS aws, azure, a1, a2, t1, t2

VARIABLE page   \* the page that is open

TwoClouds == {aws, azure}
TwoAlbums == {a1, a2}
TwoTitles == {t1, t2}
\* Clouds, albums and titles are names nothing tells apart.
AppsSymmetry ==
    Permutations(TwoClouds) \union Permutations(TwoAlbums) \union Permutations(TwoTitles)

OneTwo == {1, 2}
BothRows == <<1, 2>>
MixedCells == <<<<"9", "a">>, <<"9", "10">>>>
OneEdit == {<<1, 1, "a">>}
ThreeFields == {"name", "age", "zip"}
TwoRequired == {"name", "zip"}
OneLate == {"zip"}

appsVars == <<page, chatVars, albumsVars, tableVars, formVars>>

\* Of the pages that are not open one initial state stands for all.
AppsInit ==
    /\ page \in {"chat", "albums", "table", "two tables", "form"}
    /\ ChatInit /\ (page # "chat" => brokers = Clouds)
    /\ AlbumsInit /\ (page # "albums" => table = NoAlbums)
    /\ TablesInit /\ FormInit

On(name, Step) == page = name /\ Step /\ UNCHANGED page

\* Clicks on the first column of a table.
ClickFirst(t) == ClickHeader(t, 1) \/ ShiftClickHeader(t, 1)

\* The table that changes is the one made sortable last, as an only one is; next to it the
\* other is sorted by its first column only.
AppsNext ==
    \/ On("chat", ChatNext) /\ UNCHANGED <<albumsVars, tableVars, formVars>>
    \/ On("albums", AlbumsNext) /\ UNCHANGED <<chatVars, tableVars, formVars>>
    \/ /\ On("table", SortTimeout \/ UpdateTimeout \/ Click(headersOf) \/ Change(headersOf))
       /\ UNCHANGED <<chatVars, albumsVars, formVars>>
    \/ /\ On("two tables", SortTimeout \/ Click(headersOf) \/ \E t \in Tables : ClickFirst(t))
       /\ UNCHANGED <<chatVars, albumsVars, formVars>>
    \/ On("form", FormNext) /\ UNCHANGED <<chatVars, albumsVars, tableVars>>

AppsSpec == AppsInit /\ [][AppsNext]_appsVars
================================================================================
