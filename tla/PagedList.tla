------------------------------- MODULE PagedList -------------------------------
(***************************************************************************)
(* The three paged lists of the web client and the queries behind them:    *)
(* the activity feed (use-activity.ts), the notifications page, with its   *)
(* Mark read, and the search of the RecipientPicker.  Each shows a first   *)
(* page, replaced on a reload or a new filter, and appends to it the pages *)
(* the user asks for with the cursor of the last one.                      *)
(*                                                                         *)
(* Rows are numbered against the order their query returns them in: a list *)
(* is read from the greatest down.  They become visible when their         *)
(* transaction commits, which is in no particular order.                   *)
(***************************************************************************)
EXTENDS Integers, Sequences, FiniteSets

CONSTANTS
  Rows,
  Matching,     \* for each view, its filters and the rows each matches for good
  PageSize,
  None,         \* no page, load or row
  MaxEpochs     \* a bound of the exploration: first pages asked for

Views == {"activity", "notifications", "people"}

ASSUME RowsAssumption == Rows \subseteq Nat \ {0} /\ IsFiniteSet(Rows) /\ None \notin Rows
ASSUME ViewAssumption ==
  /\ DOMAIN Matching = Views
  /\ \A v \in Views : "all" \in DOMAIN Matching[v]
  /\ Matching["people"]["all"] = {}     \* the query that is too short to search with
ASSUME PageAssumption == PageSize \in Nat \ {0} /\ MaxEpochs \in Nat \ {0}

VARIABLES
  view,
  \* The database
  visible,      \* the rows committed
  read,         \* notifications with a read_at
  suspended,    \* people who are no longer ACTIVE
  \* The page
  filter,
  items,        \* the rows listed, with whether each is shown as read
  cursor,       \* nextCursor, 0 for none
  typing,       \* the picker's debounce timer runs
  busy,         \* isLoading, isSearching
  \* Requests awaited, with their answers
  epoch, firsts, more, marking,
  \* History
  base,         \* the first page in the list: its epoch, filter and the rows visible then
  mixed,        \* a page was appended to a list it does not continue
  lost          \* the last load failed

database == <<visible, read, suspended>>
screen == <<filter, items, cursor, typing, busy>>
awaited == <<epoch, firsts, more, marking>>
past == <<base, mixed, lost>>
listVars == <<view, database, screen, awaited, past>>
-------------------------------------------------------------------------------
\* The queries' WHERE.
Fits(f, r) ==
  /\ r \in Matching[view][f] \cap visible
  /\ f = "unread" => r \notin read
  /\ r \notin suspended

Greatest(rows) == CHOOSE r \in rows : \A s \in rows : s <= r

FromCursor(f, c) == {r \in Rows : Fits(f, r) /\ (c = 0 \/ r <= c)}   \* not: <= for <
\* The keyset of the activity and notification queries, and Prisma's cursor with
\* skip: 1, which drops the first row whether or not it is the cursor's.
Beyond(f, c) ==
  LET rows == {r \in Rows : Fits(f, r)}
      at == {r \in rows : r <= c}
  IN CASE c = 0 -> rows
       [] c # 0 /\ view = "people" -> IF at = {} THEN {} ELSE at \ {Greatest(at)}
       [] OTHER -> {r \in rows : r < c}

\* The row that comes nth: n - 1 of them are greater.
Nth(rows, n) == CHOOSE r \in rows : Cardinality({s \in rows : s > r}) = n - 1

\* listForUser and search: one row more than a page is asked for.
Page(f, c) ==
  LET rows == Beyond(f, c)
      full == Cardinality(rows) > PageSize
      row(i) == Nth(rows, i)
  IN [items |-> [i \in 1..(IF full THEN PageSize ELSE Cardinality(rows)) |->
                   [row |-> row(i), read |-> row(i) \in read]],
      next |-> IF full THEN row(PageSize) ELSE 0]

\* Whether the page asked for with c goes on from the list c came from.
Continues(f, c) == view = "people" => Fits(f, c)
-------------------------------------------------------------------------------
\* The first page is asked for; the load before is aborted by being superseded.
Ask(f) ==
  /\ epoch < MaxEpochs
  /\ epoch' = epoch + 1
  /\ firsts' = {load \in firsts : load.page # None}
                 \cup {[n |-> epoch + 1, filter |-> f, page |-> None, since |-> {}]}
  /\ busy' = TRUE
  /\ lost' = FALSE

\* The list is empty from here on.
Clear ==
  /\ items' = <<>> /\ cursor' = 0
  /\ base' = [epoch |-> 0, filter |-> "all", since |-> {}]
  /\ mixed' = FALSE

\* Another tab, or Refresh, which is disabled while loading.
Reload ==
  /\ view # "people"
  /\ \E f \in DOMAIN Matching[view] :
       /\ f = filter => ~busy
       /\ filter' = f
       /\ Ask(f)
  /\ UNCHANGED <<view, database, items, cursor, typing, more, marking, base, mixed>>

\* The picker's effect on a new query, and on a choice, which hides the list as
\* an empty query does.  The search before is aborted; if that cuts off the body
\* of its answer, the client takes it for an unreadable one.
Type ==
  /\ view = "people"
  /\ \E f \in DOMAIN Matching[view] \ {filter}, cut \in BOOLEAN :
       /\ cut => firsts # {}
       /\ filter' = f
       /\ typing' = (f # "all")
       /\ IF f = "all" \/ cut THEN Clear ELSE UNCHANGED <<items, cursor, base, mixed>>
  /\ firsts' = {}
  /\ UNCHANGED <<view, database, busy, epoch, more, marking, lost>>

\* Its timer.
Search ==
  /\ typing
  /\ typing' = FALSE
  /\ Ask(filter)
  /\ UNCHANGED <<view, database, filter, items, cursor, more, marking, base, mixed>>

AnyFirst(load) == TRUE   \* not: aborted loads are not told apart
Newest(load) == load.n = epoch

FirstArrives ==
  \E load \in firsts :
    /\ load.page # None
    /\ firsts' = firsts \ {load}
    /\ IF Newest(load)
       THEN /\ items' = load.page.items
            /\ cursor' = load.page.next
            /\ busy' = FALSE
            /\ base' = [epoch |-> load.n, filter |-> load.filter, since |-> load.since]
            /\ mixed' = FALSE
       ELSE UNCHANGED <<items, cursor, busy, base, mixed>>
    /\ UNCHANGED <<view, database, filter, typing, epoch, more, marking, lost>>

\* The picker also clears its list.
FirstFails ==
  \E load \in firsts :
    /\ firsts' = firsts \ {load}
    /\ IF Newest(load)
       THEN /\ busy' = FALSE
            /\ lost' = TRUE
            /\ IF view = "people" THEN Clear ELSE UNCHANGED <<items, cursor, base, mixed>>
       ELSE UNCHANGED <<busy, items, cursor, past>>
    /\ UNCHANGED <<view, database, filter, typing, epoch, more, marking>>

\* The button: beneath the list, which a load hides, except for notifications.
MoreOffered == cursor # 0 /\ (view = "notifications" \/ (~busy /\ items # <<>>))

\* loadMore
LoadMore ==
  /\ MoreOffered /\ more = None
  /\ more' = [filter |-> filter, cursor |-> cursor, epoch |-> base.epoch, page |-> None, whole |-> TRUE]
  /\ UNCHANGED <<view, database, screen, epoch, firsts, marking, past>>

\* Whatever became of the list since.
MoreArrives ==
  /\ more # None /\ more.page # None
  /\ items' = items \o more.page.items
  /\ cursor' = more.page.next
  /\ more' = None
  /\ mixed' = (mixed \/ ~more.whole \/ more.epoch # base.epoch \/ more.filter # base.filter)
  /\ UNCHANGED <<view, database, filter, typing, busy, epoch, firsts, marking, base, lost>>

MoreFails ==
  /\ more # None
  /\ more' = None
  /\ UNCHANGED <<view, database, screen, epoch, firsts, marking, past>>

\* handleMarkRead up to its await: the button of a row listed as unread.
MarkRead ==
  /\ view = "notifications" /\ ~busy /\ marking = None
  /\ \E i \in DOMAIN items :
       /\ ~items[i].read
       /\ marking' = [row |-> items[i].row, done |-> FALSE]
  /\ UNCHANGED <<view, database, screen, epoch, firsts, more, past>>

MarkAnswered ==
  /\ marking # None /\ marking.done
  /\ items' = [i \in DOMAIN items |->
       IF items[i].row = marking.row THEN [row |-> marking.row, read |-> TRUE] ELSE items[i]]
  /\ marking' = None
  /\ UNCHANGED <<view, database, filter, cursor, typing, busy, epoch, firsts, more, past>>

MarkFails ==
  /\ marking # None
  /\ marking' = None
  /\ UNCHANGED <<view, database, screen, epoch, firsts, more, past>>
-------------------------------------------------------------------------------
ServeFirst ==
  /\ \E load \in firsts :
       /\ load.page = None
       /\ firsts' = (firsts \ {load}) \cup
                      {[load EXCEPT !.page = Page(load.filter, 0), !.since = visible]}
  /\ UNCHANGED <<database, more, marking>>

ServeMore ==
  /\ more # None /\ more.page = None
  /\ more' = [more EXCEPT !.page = Page(more.filter, more.cursor),
                          !.whole = Continues(more.filter, more.cursor)]
  /\ UNCHANGED <<database, firsts, marking>>

\* NotificationsService.markRead
ServeMark ==
  /\ marking # None /\ ~marking.done
  /\ read' = read \cup {marking.row}
  /\ marking' = [marking EXCEPT !.done = TRUE]
  /\ UNCHANGED <<visible, suspended, firsts, more>>

\* Rows commit; the user's other pages read them; people are suspended.
Change ==
  /\ \E r \in Rows :
       \/ r \notin visible /\ visible' = visible \cup {r} /\ UNCHANGED <<read, suspended>>
       \/ /\ view = "notifications" /\ r \in visible
          /\ read' = read \cup {r} /\ UNCHANGED <<visible, suspended>>
       \/ /\ view = "people" /\ r \in visible
          /\ suspended' = suspended \cup {r} /\ UNCHANGED <<visible, read>>
  /\ UNCHANGED <<firsts, more, marking>>

Server ==
  /\ ServeFirst \/ ServeMore \/ ServeMark \/ Change
  /\ UNCHANGED <<view, screen, epoch, past>>
-------------------------------------------------------------------------------
ListInit ==
  /\ view \in Views
  /\ visible \in SUBSET Rows /\ read = {} /\ suspended = {}
  /\ filter = "all" /\ items = <<>> /\ cursor = 0 /\ typing = FALSE
  /\ busy = (view # "people")
  /\ epoch = 1
  /\ firsts = IF busy THEN {[n |-> 1, filter |-> filter, page |-> None, since |-> {}]} ELSE {}
  /\ more = None /\ marking = None
  /\ base = [epoch |-> 0, filter |-> "all", since |-> {}]
  /\ mixed = FALSE /\ lost = FALSE

ListNext ==
  \/ Reload \/ Type \/ Search
  \/ FirstArrives \/ FirstFails
  \/ LoadMore \/ MoreArrives \/ MoreFails
  \/ MarkRead \/ MarkAnswered \/ MarkFails
  \/ Server

ListSpec == ListInit /\ [][ListNext]_listVars
===============================================================================
