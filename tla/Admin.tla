------------------------------- MODULE Admin -------------------------------
(***************************************************************************)
(* The generated admin pages (admin.py) on the rows of one model, by       *)
(* several people: a page is rendered from a row, filled in and submitted  *)
(* later; the request parses the form, assigns it to the instance that it  *)
(* has found, save() checks the rules, and DatabaseSessionMiddleware       *)
(* commits what the session then holds unless the status is 400 or more.   *)
(***************************************************************************)
EXTENDS Naturals, FiniteSets

CONSTANTS Admins, Ids,
          Ruled,      \* columns that have a rule
          NotNull,    \* columns that have none and must not be NULL
          Moments     \* DateTime columns, of which forms show the minute

Columns == Ruled \cup NotNull \cup Moments
Unset == "none"
Garbled == "garbled"              \* a text that is no value of the column
Odd == "odd"                      \* a value that the rule refuses
Cells == {Unset, "minute", "second", Odd}

Row == [Columns -> Cells]
NoForm == [kind |-> "none"]

VARIABLES live,       \* the rows that exist: "no", "live" or "deleted"
          row,        \* their committed cells
          allowed,    \* whom the guard lets in
          form,       \* the page somebody has open
          task        \* the PUT in progress: what it found and what it holds

vars == <<live, row, allowed, form, task>>

NoTask == [pc |-> "none"]

(* What the fields of a row can be, and what they can be filled in with.   *)
CellsOf(c) == IF c \in Moments THEN {"minute", "second"} ELSE {"minute"}
TextsOf(c) ==
  {Unset, "minute"} \cup (IF c \in Ruled THEN {Odd} ELSE {})
                   \cup (IF c \in Moments THEN {Garbled} ELSE {})

Init ==
  /\ live \in [Ids -> {"no", "live"}]
  /\ row \in [Ids -> Row]
  /\ \A i \in Ids, c \in Columns : row[i][c] \in CellsOf(c)
  /\ allowed = Admins
  /\ form = [a \in Admins |-> NoForm] /\ task = [a \in Admins |-> NoTask]

(* _to_input_value() and _parse_form_value(): a text field shows NULL as   *)
(* nothing, and nothing is parsed as NULL.                                 *)
Shown(c, cell) == IF c \in Moments /\ cell # Unset THEN "minute" ELSE cell

Unparsable(texts) == \E c \in Moments : texts[c] = Garbled
Valid(cells) == \A c \in Ruled : cells[c] # Odd
Storable(cells) == \A c \in NotNull : cells[c] # Unset

Idle(a) == task[a] = NoTask

(* _check_access(): a session, and the guard.                              *)
May(a) == a \in allowed

Close(a) == form' = [form EXCEPT ![a] = NoForm]

OpenNew(a) ==
  /\ Idle(a) /\ May(a)
  /\ form' = [form EXCEPT ![a] = [kind |-> "new",
                                  texts |-> [c \in Columns |-> Unset]]]
  /\ UNCHANGED <<live, row, allowed, task>>

OpenEdit(a, i) ==
  /\ Idle(a) /\ May(a) /\ live[i] = "live"
  /\ form' = [form EXCEPT ![a] =
       [kind |-> "edit", id |-> i,
        texts |-> [c \in Columns |-> Shown(c, row[i][c])]]]
  /\ UNCHANGED <<live, row, allowed, task>>

(* The person fills in a field; columns of time are typed by the minute.   *)
FillIn(a) ==
  /\ Idle(a) /\ form[a] # NoForm
  /\ \E c \in Columns : \E t \in TextsOf(c) :
       form' = [form EXCEPT ![a].texts[c] = t]
  /\ UNCHANGED <<live, row, allowed, task>>

(* POST: an instance that the rules refuse is not in the session.          *)
Create(a) ==
  /\ Idle(a) /\ form[a].kind = "new" /\ Close(a)
  /\ \/ /\ May(a) /\ ~Unparsable(form[a].texts)
        /\ Valid(form[a].texts) /\ Storable(form[a].texts)
        /\ \E i \in Ids : /\ live[i] = "no"
                          /\ live' = [live EXCEPT ![i] = "live"]
                          /\ row' = [row EXCEPT ![i] = form[a].texts]
     \/ /\ \/ ~May(a) \/ Unparsable(form[a].texts)
           \/ ~Valid(form[a].texts) \/ ~Storable(form[a].texts)
        /\ UNCHANGED <<live, row>>
  /\ UNCHANGED <<allowed, task>>

(* PUT: find() the row, which may be gone by now.                          *)
Find(a) ==
  /\ Idle(a) /\ form[a].kind = "edit"
  /\ IF May(a) /\ live[form[a].id] = "live"
     THEN /\ task' = [task EXCEPT ![a] =
               [pc |-> "found", id |-> form[a].id,
                found |-> row[form[a].id], held |-> row[form[a].id]]]
          /\ UNCHANGED form
     ELSE Close(a) /\ UNCHANGED task                     \* 401, 403, 404
  /\ UNCHANGED <<live, row, allowed>>

(* A mutant: what can be parsed is assigned.                               *)
AssignedAsParsed(a) ==
  [c \in Columns |-> IF form[a].texts[c] = Garbled THEN task[a].found[c]
                     ELSE form[a].texts[c]]

(* _parse_attributes() gives all columns or raises; update() assigns them. *)
Assigned(a) ==
  IF Unparsable(form[a].texts) THEN task[a].found ELSE form[a].texts

Save(a) ==
  /\ task[a].pc = "found"
  /\ task' = [task EXCEPT ![a].pc = "saved", ![a].held = Assigned(a)]
  /\ UNCHANGED <<live, row, allowed, form>>

(* The flush, of save() or of commit(), writes the columns that differ     *)
(* from what was found; a NULL that the database refuses is a 500.         *)
Dirty(a) == {c \in Columns : task[a].held[c] # task[a].found[c]}

Flushed(a) ==
  [c \in Columns |->
     IF c \in Dirty(a) THEN task[a].held[c] ELSE row[task[a].id][c]]

Commit(a) ==
  /\ task[a].pc = "saved" /\ Close(a)
  /\ row' = IF \E c \in Dirty(a) \cap NotNull : task[a].held[c] = Unset
            THEN row ELSE [row EXCEPT ![task[a].id] = Flushed(a)]
  /\ task' = [task EXCEPT ![a] = NoTask]
  /\ UNCHANGED <<live, allowed>>

(* DELETE of the list page, which is a soft delete.                        *)
Destroy(a, i) ==
  /\ Idle(a) /\ May(a) /\ live[i] = "live"
  /\ live' = [live EXCEPT ![i] = "deleted"]
  /\ UNCHANGED <<row, allowed, form, task>>

(* The guard's answer changes, for who is no admin any more, or again.     *)
Regard(a) ==
  /\ allowed' = IF a \in allowed THEN allowed \ {a} ELSE allowed \cup {a}
  /\ UNCHANGED <<live, row, form, task>>

Next ==
  \E a \in Admins :
    \/ OpenNew(a) \/ FillIn(a) \/ Create(a) \/ Find(a) \/ Save(a) \/ Commit(a)
    \/ Regard(a)
    \/ \E i \in Ids : OpenEdit(a, i) \/ Destroy(a, i)

Spec == Init /\ [][Next]_vars

-----------------------------------------------------------------------------
(* Committed cells are values of their columns, open pages are texts.      *)
TypeOK ==
  /\ live \in [Ids -> {"no", "live", "deleted"}] /\ row \in [Ids -> Row]
  /\ allowed \subseteq Admins
  /\ \A a \in Admins :
       /\ form[a] # NoForm => form[a].texts \in [Columns -> Cells \cup {Garbled}]
       /\ task[a] # NoTask => task[a].held \in Row

(* The page of a explains what happens to a row: the whole of it parses,   *)
(* it makes the row or its PUT is about it, and each column has what it    *)
(* had or what the page says.                                              *)
Explains(a, i) ==
  /\ form[a] # NoForm /\ ~Unparsable(form[a].texts)
  /\ IF task[a] = NoTask THEN a \in allowed /\ live[i] = "no" ELSE task[a].id = i
  /\ \A c \in Columns : row'[i][c] \in {row[i][c], form[a].texts[c]}

(* Pages that are out of date do no harm of three kinds: one that was      *)
(* opened before the row was deleted does not bring it back; a row changes *)
(* only into what one page says all of whose fields parse; and who lost    *)
(* access after opening a page begins no PUT with it, and makes or deletes *)
(* nothing (admin.py:93-117, 333-340, 361-411).                            *)
Harmless ==
  /\ \A i \in Ids : live[i] = "deleted" => live'[i] = "deleted"
  /\ \A i \in Ids : row'[i] # row[i] => \E a \in Admins : Explains(a, i)
  /\ \A a \in Admins : task[a] = NoTask /\ task'[a] # NoTask => a \in allowed
  /\ live' # live => allowed # {}
StalePagesAreHarmless == [][Harmless]_vars

(* What the documentation says: "a failing rule redirects back to the form *)
(* with the error shown instead of saving" (docs/admin.md:65-66).  The     *)
(* redirect is a 303, so what was assigned before save() refused it is     *)
(* committed (admin.py:393-400, db/session.py:225-229).                    *)
RulesHold == \A i \in Ids : Valid(row[i])

=============================================================================
