------------------------------ MODULE Sidebar ------------------------------
(***************************************************************************)
(* The server list on the left (internal/ui/sidebar.go): the rows that the  *)
(* servers, their groups, the folds, the markers and the order make, and    *)
(* the cursor, which is an index into rows that others rebuild under it.    *)
(*                                                                          *)
(* A row is <<kind, name, marked>>.  When a server was last used is its     *)
(* place in `recent'.  The list component of the library is external: a     *)
(* sequence of rows and an index.  Its filter is left out.                  *)
(***************************************************************************)
EXTENDS Naturals, Sequences, FiniteSets, SequencesExt

CONSTANTS
    Lists,      \* what servers.json may hold: sequences of [id, group]
    GroupOrder  \* the group names, sorted; "" is no group

\* No id is used twice, and no group named twice.
Unique(list) == \A i, j \in DOMAIN list : list[i].id = list[j].id => i = j
ASSUME SidebarAssumption ==
    /\ GroupOrder \in Seq(STRING \ {""}) /\ IsInjective(GroupOrder)
    /\ Lists \subseteq Seq([id : STRING, group : ToSet(GroupOrder) \cup {""}])
    /\ \A l \in Lists : Unique(l)

VARIABLES
    servers,    \* the list as last loaded
    recent,     \* ids of servers that were connected to, the last one first
    open,       \* ids of servers with a session
    collapsed,  \* folded groups, of which some may be gone
    sortRecent, \* last used first
    rows,       \* the items of the list component
    cursor      \* its index

sidebarVars == <<servers, recent, open, collapsed, sortRecent, rows, cursor>>

IdsOf(list) == {list[i].id : i \in DOMAIN list}

\* The elements of a sequence that are in a set, in their order.
Only(seq, set) ==
    FlattenSeq([i \in DOMAIN seq |-> IF seq[i] \in set THEN <<seq[i]>> ELSE << >>])
Members(list, g) == Only(list, {s \in ToSet(list) : s.group = g})

\* sortServers: stable, so servers never used stay last in the file's order.
Used(list, id) == Only(list, {s \in ToSet(list) : s.id = id})
SortServers(list, used, byUse) ==
    IF ~byUse THEN list
    ELSE FlattenSeq([i \in DOMAIN used |-> Used(list, used[i])])
         \o Only(list, {s \in ToSet(list) : s.id \notin ToSet(used)})

\* itemsFor: the connect action, the servers of no group, and for each group
\* that has any its header and, unless it is folded, its servers.
Lines(list, live) ==
    [i \in DOMAIN list |-> <<"server", list[i].id, list[i].id \in live>>]
Block(g, list, used, live, folded, byUse) ==
    LET mine == Members(list, g)
    IN  IF mine = << >> THEN << >>
        ELSE << <<"header", g, IdsOf(mine) \cap live # {}>> >>
             \o (IF g \in folded THEN << >> ELSE Lines(SortServers(mine, used, byUse), live))
Parts(list, used, live, folded, byUse) ==
    << << <<"connect", "", FALSE>> >>,
       Lines(SortServers(Members(list, ""), used, byUse), live) >>
    \o [n \in DOMAIN GroupOrder |-> Block(GroupOrder[n], list, used, live, folded, byUse)]
ItemsFor(list, used, live, folded, byUse) ==
    FlattenSeq(Parts(list, used, live, folded, byUse))

\* Mutants: the cursor is left alone, or put on the first row.
ReloadUnclamped(list, used, live, folded, byUse) ==
    /\ servers' = list /\ recent' = used /\ open' = live
    /\ collapsed' = folded /\ sortRecent' = byUse
    /\ rows' = ItemsFor(list, used, live, folded, byUse)
    /\ UNCHANGED cursor
ReloadAtTop(list, used, live, folded, byUse) ==
    /\ servers' = list /\ recent' = used /\ open' = live
    /\ collapsed' = folded /\ sortRecent' = byUse
    /\ rows' = ItemsFor(list, used, live, folded, byUse)
    /\ cursor' = 1

\* reload, after what it reads was assigned: the cursor keeps its index, or
\* goes to the last row there is.
Reload(list, used, live, folded, byUse) ==
    /\ servers' = list /\ recent' = used /\ open' = live
    /\ collapsed' = folded /\ sortRecent' = byUse
    /\ rows' = ItemsFor(list, used, live, folded, byUse)
    /\ cursor' = IF cursor > Len(rows') THEN Len(rows') ELSE cursor

-----------------------------------------------------------------------------

SidebarInit ==
    /\ servers = << >> /\ recent = << >> /\ open = {} /\ collapsed = {}
    /\ sortRecent = FALSE
    /\ rows = ItemsFor(<< >>, << >>, {}, {}, FALSE) /\ cursor = 1

\* SetServers, after a load, a save, an import or a delete.
SetServers ==
    \E list \in Lists :
        Reload(list, Only(recent, IdsOf(list)),
               open, collapsed, sortRecent)

\* SetServers once markUsed has stamped an entry.
ShowUsed ==
    \E id \in IdsOf(servers) :
        Reload(servers, <<id>> \o Only(recent, ToSet(recent) \ {id}),
               open, collapsed, sortRecent)

\* SetOpen: a tab was opened or closed.  A tab may outlive its server.
SetOpen ==
    \E live \in SUBSET UNION {IdsOf(l) : l \in Lists} :
        Reload(servers, recent, live, collapsed, sortRecent)

\* SetCollapsed and SetSortRecent with what ui.json has.
LoadState ==
    \E folded \in SUBSET ToSet(GroupOrder), byUse \in BOOLEAN :
        Reload(servers, recent, open, folded, byUse)

\* SetSortRecent from the keyboard.
SetSortRecent == Reload(servers, recent, open, collapsed, ~sortRecent)

\* ToggleGroup and SetGroupCollapsed, on a header only.
Fold ==
    /\ rows[cursor][1] = "header"
    /\ LET g == rows[cursor][2]
           folded == IF g \in collapsed THEN collapsed \ {g} ELSE collapsed \cup {g}
       IN  Reload(servers, recent, open, folded, sortRecent)

\* The list's own keys, and a click.
Move ==
    /\ cursor' \in DOMAIN rows
    /\ UNCHANGED <<servers, recent, open, collapsed, sortRecent, rows>>

SidebarNext ==
    \/ SetServers \/ ShowUsed \/ SetOpen \/ LoadState \/ SetSortRecent \/ Fold \/ Move

SidebarSpec == SidebarInit /\ [][SidebarNext]_sidebarVars

-----------------------------------------------------------------------------
(* Properties. *)

\* The group a row stands under.
GroupAt(r) ==
    LET headers == {h \in 1..r : rows[h][1] = "header"}
    IN  IF headers = {} THEN "" ELSE rows[CHOOSE h \in headers : \A o \in headers : o <= h][2]

RowsOf(kind, name) == {i \in DOMAIN rows : rows[i][1] = kind /\ rows[i][2] = name}

\* No server is lost from the list, whatever is folded, sorted, loaded or
\* opened in whatever order: it has one row, or its group is folded and has a
\* header; the marker says whether enter would switch to a tab; and the cursor
\* is on a row ("a row that exists but does not draw would put the cursor on
\* nothing", sidebar.go:188).
ListIsWhole ==
    /\ cursor \in DOMAIN rows /\ rows[1] = <<"connect", "", FALSE>>
    /\ \A i \in DOMAIN servers :
          LET s == servers[i]
              mine == RowsOf("server", s.id)
          IN  /\ s.group # "" => Cardinality(RowsOf("header", s.group)) = 1
              /\ Cardinality(mine) = IF s.group \in collapsed THEN 0 ELSE 1
              /\ \A r \in mine : rows[r][3] = (s.id \in open) /\ GroupAt(r) = s.group
              /\ \A h \in RowsOf("header", s.group) : s.id \in open => rows[h][3]
    /\ \A r \in DOMAIN rows :
          rows[r][1] = "server" => rows[r][2] \in IdsOf(servers)

\* What the next enter, e, d or n acts on.
Selected == <<rows[cursor][1], rows[cursor][2]>>

\* "this runs whenever a tab opens or closes, which must never move the
\* selection" (sidebar.go:277): sessions coming and going under the user's
\* cursor, and folding the group it is on, leave it on the same row.
SelectionStays == [][Selected' # Selected => ~(SetOpen \/ Fold)]_sidebarVars
=============================================================================
