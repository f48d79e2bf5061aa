----------------------------- MODULE Pagination -----------------------------
(***************************************************************************)
(* A client walks a listing by the next_url of each page: Model.paginate() *)
(* and Page of src/src/zeython/db/model.py, as UserController.index and    *)
(* the admin lists call them.  A page takes two statements, a COUNT and a  *)
(* SELECT without ORDER BY, and rows are written between any two.          *)
(***************************************************************************)
EXTENDS Naturals, Sequences, SequencesExt

CONSTANTS Ids,
          Sizes,      \* values of per_page
          MaxWrites

VARIABLES
  table,    \* the rows that the listing matches, in the order they are read
  perPage,
  page,     \* the page that is asked for
  total,    \* what the COUNT found
  walk,     \* "counting", "selecting" or "done"
  received, \* the items of the pages so far
  first,    \* the rows that were there when the walk began
  shifted,  \* a row has left its place since
  writes

vars == <<table, perPage, page, total, walk, received, first, shifted, writes>>

Listings == {s \in SeqOf(Ids, Len(table) + 1) : IsInjective(s)}

TypeOK ==
  /\ table \in Listings /\ perPage \in Sizes
  /\ page \in Nat \ {0} /\ total \in Nat
  /\ walk \in {"counting", "selecting", "done"}
  /\ received \in Seq(Ids) /\ first \in SUBSET Ids
  /\ shifted \in BOOLEAN /\ writes \in 0 .. MaxWrites

(* The rows are named in the order in which they are found at first.       *)
Init ==
  /\ \E n \in 0 .. Cardinality(Ids) : table = SubSeq(SetToSeq(Ids), 1, n)
  /\ perPage \in Sizes /\ page = 1 /\ total = 0
  /\ walk = "counting" /\ received = <<>>
  /\ first = ToSet(table)
  /\ shifted = FALSE /\ writes = 0

(***************************************************************************)
(* paginate()                                                              *)
(***************************************************************************)

(* Mutant: the last page is not counted unless it is full.                 *)
FullPages(n) == n \div perPage

(* Page.total_pages: -(-total // per_page)                                 *)
TotalPages(n) == (n + perPage - 1) \div perPage
HasNext == page < TotalPages(total)

Count ==
  /\ walk = "counting" /\ walk' = "selecting"
  /\ total' = Len(table)
  /\ UNCHANGED <<table, perPage, page, received, first, shifted, writes>>

(* LIMIT and OFFSET                                                        *)
Items == SubSeq(table, (page - 1) * perPage + 1,
                IF page * perPage < Len(table) THEN page * perPage ELSE Len(table))

(* to_dict() has a next_url while has_next.                                *)
Select ==
  /\ walk = "selecting"
  /\ received' = received \o Items
  /\ IF HasNext THEN walk' = "counting" /\ page' = page + 1
                ELSE walk' = "done" /\ UNCHANGED page
  /\ UNCHANGED <<table, perPage, total, first, shifted, writes>>

(***************************************************************************)
(* Rows that are written by others.  SQLite reads by id, so that a new row *)
(* comes last; Postgres reads where it has put a row, and puts it          *)
(* elsewhere when it is updated.                                           *)
(***************************************************************************)
Write(next) ==
  /\ walk # "done" /\ writes < MaxWrites /\ writes' = writes + 1
  /\ table' = next
  /\ shifted' = (shifted \/ ~IsPrefix(table, next))
  /\ UNCHANGED <<perPage, page, total, walk, received, first>>

Insert(id, place) == id \notin ToSet(table) /\ Write(InsertAt(table, place, id))

(* A deletion, soft or not.                                                *)
Delete(place) == Write(RemoveAt(table, place))

Update(place, other) == Write(InsertAt(RemoveAt(table, place), other, table[place]))

Next ==
  \/ Count \/ Select
  \/ \E place \in 1 .. Len(table) + 1, id \in Ids : Insert(id, place)
  \/ \E place \in DOMAIN table : Delete(place) \/ \E other \in DOMAIN table : Update(place, other)

Spec == Init /\ [][Next]_vars

(* Unless a row left its place meanwhile, a walk has met every row that    *)
(* was there when it began and none twice, and has turned to no page       *)
(* without rows but the first (db/model.py:35-51, 363-384,                 *)
(* docs/database.md).                                                      *)
WalkMeetsAll ==
  ~shifted =>
    /\ IsInjective(received)
    /\ walk = "done" => first \subseteq ToSet(received)
    /\ walk = "done" /\ page > 1 => Len(received) > (page - 1) * perPage
=============================================================================
