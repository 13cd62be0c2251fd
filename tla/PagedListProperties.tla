-------------------------- MODULE PagedListProperties --------------------------
(* What the paged lists must and, by the guide, are meant to guarantee. *)
EXTENDS PagedList

Listed == {items[i].row : i \in DOMAIN items}

Ordered == \A i, j \in DOMAIN items : i < j => items[i].row > items[j].row

\* "Pagination stable under inserts": page after page, while rows commit late,
\* are read and are suspended, the list stays in order without a row twice, and
\* lacks none, down to its cursor, that was there when its first page was read
\* and still fits.  (A page that arrives after the list it continues was
\* replaced is the exception the client makes.)
NoRowMissing ==
  ~mixed =>
    /\ Ordered
    /\ Listed \subseteq Matching[view][base.filter]
    /\ \A r \in base.since : Fits(base.filter, r) /\ (cursor = 0 \/ r >= cursor) => r \in Listed

\* Once nothing is on its way, the list is that of the last load, for the filter
\* on the screen, unless that load failed: one that was superseded never replaces
\* it, and nothing stays beneath a query too short to search with.
NewestLoadShown ==
  ~busy /\ ~typing /\ ~lost /\ ~mixed =>
    IF view = "people" /\ filter = "all" THEN Listed = {}
    ELSE base.filter = filter /\ base.epoch = epoch
\* A reader who asks for more only of the list of the filter on the screen, and
\* leaves that list in place until the answer is in.
Undisturbed ==
  [][(LoadMore => filter = base.filter) /\ (base' # base => more = None)]_listVars

\* No page is ever put beneath a list it does not continue, so NoRowMissing's
\* promise is about every list (the search aside, whose cursor may be suspended).
ListIsOne == view # "people" => ~mixed
-------------------------------------------------------------------------------
\* The inductive invariant: what each page shows, or will show when it arrives.
Filters == UNION {DOMAIN Matching[v] : v \in Views}
Shown == [row : Rows, read : BOOLEAN]
Pages == [items : Seq(Shown), next : Rows \cup {0}]

ListTypes ==
  /\ view \in Views
  /\ visible \in SUBSET Rows /\ read \in SUBSET Rows /\ suspended \in SUBSET Rows
  /\ filter \in Filters /\ items \in Seq(Shown) /\ cursor \in Rows \cup {0}
  /\ epoch \in Nat
  /\ firsts \in SUBSET [n : Nat, filter : Filters, page : Pages \cup {None}, since : SUBSET Rows]
  /\ more \in {None} \cup [filter : Filters, cursor : Rows, epoch : Nat,
                           page : Pages \cup {None}, whole : BOOLEAN]
  /\ marking \in {None} \cup [row : Rows, done : BOOLEAN]
  /\ base \in [epoch : Nat, filter : Filters, since : SUBSET Rows]

RowsOf(rows) == {rows[i].row : i \in DOMAIN rows}

\* A page asked for with c is in order, of rows that fit, and lies between c and next.
Descends(rows, next, fitting, c) ==
  /\ \A i, j \in DOMAIN rows : i < j => rows[i].row > rows[j].row
  /\ \A r \in RowsOf(rows) : r \in fitting /\ next <= r /\ (c # 0 => r < c)
  /\ c # 0 => next < c

\* It lacks none of the rows wanted that lie there.
Covers(rows, next, wanted, c) ==
  \A r \in wanted : next <= r /\ (c # 0 => r < c) => r \in RowsOf(rows)

Wanted(f, since) == {r \in since : Fits(f, r)}

FirstsInv ==
  /\ \A load \in firsts :
       /\ load.n <= epoch /\ load.since \subseteq visible
       /\ load.page # None =>
            /\ Descends(load.page.items, load.page.next, Matching[view][load.filter], 0)
            /\ Covers(load.page.items, load.page.next, Wanted(load.filter, load.since), 0)
       /\ load.n = epoch =>
            /\ load.filter = filter /\ base.epoch < epoch
            /\ more # None => more.epoch < epoch
  /\ \A load1, load2 \in firsts : load1.n = load2.n => load1 = load2

BaseInv ==
  /\ base.epoch <= epoch /\ base.since \subseteq visible
  /\ ~mixed =>
       /\ Descends(items, cursor, Matching[view][base.filter], 0)
       /\ Covers(items, cursor, Wanted(base.filter, base.since), 0)

TooShort(f) == view = "people" /\ f = "all"

MoreInv == more # None =>
  /\ more.epoch <= epoch
  /\ more.page # None =>
       /\ more.whole => Descends(more.page.items, more.page.next, Matching[view][more.filter], more.cursor)
       /\ TooShort(more.filter) => ~more.whole
  /\ more.epoch = base.epoch /\ more.filter = base.filter =>
       /\ more.page # None /\ more.whole =>
            Covers(more.page.items, more.page.next, Wanted(more.filter, base.since), more.cursor)
       /\ ~mixed /\ ~TooShort(more.filter) => more.cursor = cursor

ScreenInv ==
  /\ TooShort(filter) => ~typing /\ firsts = {}
  /\ TooShort(filter) /\ ~mixed => items = <<>> /\ base.filter = "all"
  /\ ~busy /\ ~typing /\ ~lost /\ ~TooShort(filter) => base.filter = filter /\ base.epoch = epoch

\* With an undisturbed reader, the further page awaited continues the list shown.
ContinuesInv == view # "people" =>
  /\ ~mixed
  /\ more # None => more.epoch = base.epoch /\ more.filter = base.filter /\ more.whole

ListInv == ListTypes /\ FirstsInv /\ BaseInv /\ MoreInv /\ ScreenInv
===============================================================================
