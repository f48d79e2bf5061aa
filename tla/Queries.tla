------------------------------ MODULE Queries ------------------------------
(***************************************************************************)
(* The reads of a Model with tenants, soft deletes and a search index.     *)
(* Tasks (requests, jobs, scripts) are inside as_tenant() blocks or not,   *)
(* and write rows or read them; rows also change behind the framework's    *)
(* back.  Over SQLite a migration makes the full-text index at some time,  *)
(* and triggers keep it; over Postgres it is a generated column.           *)
(***************************************************************************)
EXTENDS Naturals, Sequences

CONSTANTS Tasks, Ids, Tenants, Words, MaxDepth, MaxWrites

Nothing == "none"
Scopes == Tenants \cup {Nothing}
Row == [tenant : Scopes, word : Words, deleted : BOOLEAN]
Dialects == {"sqlite", "postgresql"}
Reads == {"all", "search"}

VARIABLES
  dialect,
  rows,         \* the rows there are, a function of their ids
  triggers,     \* the migration has run
  hits,         \* the index: which ids a word leads to
  context,      \* the contextvar of a task
  resets,       \* the values its blocks will put back, the last one first
  blocks,       \* the tenants of the blocks around its code, as written
  found,        \* the last read, until something else is done
  writes

vars == <<dialect, rows, triggers, hits, context, resets, blocks, found, writes>>

TypeOK ==
  /\ dialect \in Dialects /\ triggers \in BOOLEAN
  /\ DOMAIN rows \subseteq Ids /\ \A i \in DOMAIN rows : rows[i] \in Row
  /\ hits \subseteq Ids \X Words
  /\ context \in [Tasks -> Scopes]
  /\ \A t \in Tasks : Len(blocks[t]) = Len(resets[t]) /\ Len(blocks[t]) <= MaxDepth
  /\ writes \in 0 .. MaxWrites

Init ==
  /\ dialect \in Dialects
  /\ rows = [i \in {} |-> Nothing]
  /\ triggers = (dialect = "postgresql") /\ hits = {}
  /\ context = [t \in Tasks |-> Nothing]
  /\ resets = [t \in Tasks |-> <<>>] /\ blocks = [t \in Tasks |-> <<>>]
  /\ found = {} /\ writes = 0

-----------------------------------------------------------------------------
(* as_tenant(), and TenantMiddleware, which does the same for a request    *)

AsTenant(t) ==
  /\ Len(blocks[t]) < MaxDepth
  /\ \E scope \in Scopes :
       /\ blocks' = [blocks EXCEPT ![t] = <<scope>> \o @]
       /\ context' = [context EXCEPT ![t] = scope]
  /\ resets' = [resets EXCEPT ![t] = <<context[t]>> \o @]
  /\ found' = {}
  /\ UNCHANGED <<dialect, rows, triggers, hits, writes>>

(* A mutant: the variable is cleared, and not put back.                    *)
Cleared(t) == Nothing

PutBack(t) == Head(resets[t])

(* In a finally: also when the block raises.                               *)
LeaveTenant(t) ==
  /\ blocks[t] # <<>>
  /\ context' = [context EXCEPT ![t] = PutBack(t)]
  /\ resets' = [resets EXCEPT ![t] = Tail(@)]
  /\ blocks' = [blocks EXCEPT ![t] = Tail(@)]
  /\ found' = {}
  /\ UNCHANGED <<dialect, rows, triggers, hits, writes>>

-----------------------------------------------------------------------------
(* Writes and the index                                                    *)

Entry(i, row) == {<<i, row.word>>}
Backfill == UNION {Entry(i, rows[i]) : i \in DOMAIN rows}

(* A mutant: an update puts the new words in and leaves the old ones.      *)
AddedOnly(old, new) == hits \cup new

(* The triggers AFTER INSERT, DELETE and UPDATE, or the generated column.  *)
Kept(old, new) == (hits \ old) \cup new

Put(i, row) == [j \in DOMAIN rows \cup {i} |-> IF j = i THEN row ELSE rows[j]]

Write(new, before, after) ==
  /\ writes < MaxWrites /\ writes' = writes + 1
  /\ rows' = new
  /\ hits' = IF triggers THEN Kept(before, after) ELSE hits
  /\ found' = {}
  /\ UNCHANGED <<dialect, triggers, context, resets, blocks>>

(* save() of a new record takes the tenant of the block, if it has none of *)
(* its own.                                                                *)
Create(t) ==
  \E i \in Ids \ DOMAIN rows, w \in Words, own \in Scopes :
    LET row == [tenant |-> IF own = Nothing THEN context[t] ELSE own,
                word |-> w, deleted |-> FALSE]
    IN  Write(Put(i, row), {}, Entry(i, row))

(* update(), delete() and restore(), and SQL of any origin: a row changes. *)
Change ==
  \E i \in DOMAIN rows, w \in Words, gone \in BOOLEAN :
    LET row == [rows[i] EXCEPT !.word = w, !.deleted = gone]
    IN  row # rows[i] /\ Write(Put(i, row), Entry(i, rows[i]), Entry(i, row))

(* delete(soft=False).                                                     *)
HardDelete ==
  \E i \in DOMAIN rows :
    Write([j \in DOMAIN rows \ {i} |-> rows[j]], Entry(i, rows[i]), {})

(* create_fts5_index(): the rows that are there, and the triggers, in the  *)
(* one transaction that the first INSERT begins.                           *)
CreateIndex ==
  /\ ~ triggers /\ triggers' = TRUE
  /\ hits' = Backfill /\ found' = {}
  /\ UNCHANGED <<dialect, rows, context, resets, blocks, writes>>

(* drop_fts5_index(): the table goes with the triggers.                    *)
DropIndex ==
  /\ triggers /\ dialect = "sqlite" /\ triggers' = FALSE
  /\ hits' = {} /\ found' = {}
  /\ UNCHANGED <<dialect, rows, context, resets, blocks, writes>>

-----------------------------------------------------------------------------
(* Reads                                                                   *)

(* A mutant: search() goes past _base_select(), and forgets the tenant.    *)
SearchesAll(kind, scope) ==
  IF scope = Nothing \/ kind = "search" THEN DOMAIN rows
  ELSE {i \in DOMAIN rows : rows[i].tenant = scope}

(* _base_select() and _search_sql(): no tenant means no filter at all.     *)
Scoped(kind, scope) ==
  IF scope = Nothing THEN DOMAIN rows
  ELSE {i \in DOMAIN rows : rows[i].tenant = scope}

Live(all) == {i \in DOMAIN rows : all \/ ~ rows[i].deleted}

Matching(kind, w) ==
  IF kind = "search" THEN {i \in DOMAIN rows : <<i, w>> \in hits} ELSE DOMAIN rows

(* find(), find_by() and first_where() filter all() once more; paginate()  *)
(* cuts it into pages.                                                     *)
Read(t) ==
  /\ \E kind \in Reads, all \in BOOLEAN, w \in Words :
       /\ kind = "search" => triggers
       /\ found' = {[kind |-> kind, all |-> all, task |-> t,
                     word |-> IF kind = "search" THEN w ELSE Nothing,
                     scope |-> IF blocks[t] = <<>> THEN Nothing
                               ELSE Head(blocks[t]),
                     ids |-> Scoped(kind, context[t]) \cap Live(all)
                               \cap Matching(kind, w)]}
  /\ UNCHANGED <<dialect, rows, triggers, hits, context, resets, blocks, writes>>

Next == \/ Change \/ HardDelete \/ CreateIndex \/ DropIndex
        \/ \E t \in Tasks :
             AsTenant(t) \/ LeaveTenant(t) \/ Create(t) \/ Read(t)

Spec == Init /\ [][Next]_vars

-----------------------------------------------------------------------------
(* Whatever was written, by whom, before or after the index was made, and  *)
(* whatever blocks were entered and left: a read finds the rows, and a     *)
(* search the words, that are there now, of the tenant in whose block it   *)
(* is written, and no others (db/model.py:248-267, 386-411, 474-487,       *)
(* search.py:54-71, tenancy.py:68-72, 95-99).                              *)
FindsWhatIsThere ==
  \A f \in found :
    f.ids = {i \in DOMAIN rows :
               /\ f.scope \in {Nothing, rows[i].tenant}
               /\ f.all \/ ~ rows[i].deleted
               /\ f.kind = "search" => rows[i].word = f.word}

=============================================================================
