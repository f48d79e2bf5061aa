---------------------------- MODULE AuditedModel ----------------------------
(***************************************************************************)
(* db/model.py with the AuditObserver of audit_log.py: handlers that read, *)
(* assign, save and delete Model instances, each in a session of its own,  *)
(* and the changelog that their commits leave.                             *)
(*                                                                         *)
(* The session is SQLAlchemy's: a row is one object of a session; what was *)
(* assigned to it is flushed, all of it, by a save(), and also before any  *)
(* query, savepoint or commit (autoflush, which session_factory does not   *)
(* turn off).  The database is PostgreSQL's READ COMMITTED: a session sees *)
(* its own rows and committed ones, and a written row is locked till the   *)
(* transaction ends.                                                       *)
(***************************************************************************)
EXTENDS Naturals, Sequences, FiniteSets, FiniteSetsExt, SequencesExt

CONSTANTS Sessions, Rows,
          Old,       \* the rows there are at first
          Values,    \* what the audited column may hold
          Invalid,   \* the values that __rules__ refuse
          First,     \* the value an old row has at first
          MaxCalls,  \* bound on assignments, saves, deletes and transaction()s
          None

ASSUME ModelAssumption ==
  /\ Old \subseteq Rows /\ IsFiniteSet(Old)
  /\ Invalid \subseteq Values /\ First \in Values \ Invalid
  /\ MaxCalls \in Nat

VARIABLES
  rows,       \* the committed rows
  trail,      \* the committed entries of the AuditLog table, in order
  stray,      \* the rows with a write that was not the write of a save()
  neglected,  \* the rows a handler assigned to and never saved
  levels,     \* of a session: the transaction and its savepoints
  object,     \* of a session: its instance of each row
  pending,    \* of a session: AuditObserver._pending_diff of its instances
  doing,      \* of a session: the save() or delete() it is in
  unsaved,    \* of a session: what was assigned to since it was last saved
  calls

vars == <<rows, trail, stray, neglected, levels, object, pending, doing, unsaved,
          calls>>

Row == [value : Values, deleted : BOOLEAN]
Diff == [old : Values, new : Values]

ASSUME NoneAssumption == None \notin Values \cup Rows \cup Row \cup Diff

Entry == [row : Rows, event : {"created", "updated", "deleted"},
          old : Values \cup {None}, new : Values \cup {None}]

(* `base` and `wasGone` are the values the session believes are stored.    *)
Instances == [state : {"absent", "transient", "pending", "persistent", "expired",
                       "doomed", "deleted"},
              id : BOOLEAN, value : Values \cup {None}, base : Values \cup {None},
              gone : BOOLEAN, wasGone : BOOLEAN]
Absent == [state |-> "absent", id |-> FALSE, value |-> None, base |-> None,
           gone |-> FALSE, wasGone |-> FALSE]

(* What a transaction has done when one of its blocks is at this point:    *)
(* the rows it wrote, their entries, the rows it locked, and those it      *)
(* locked with find(for_update=True); and what objects the block itself    *)
(* has inserted, updated and deleted.                                      *)
Nothing == [rows |-> <<>>, trail |-> <<>>, inserted |-> {}, updated |-> {},
            removed |-> {}, locked |-> {}, claimed |-> {}, stray |-> {}]

Idle == [step |-> "idle", row |-> None, how |-> None]

TypeOK ==
  /\ rows \in [Rows -> Row \cup {None}] /\ trail \in Seq(Entry)
  /\ stray \in SUBSET Rows /\ neglected \in SUBSET Rows
  /\ object \in [Sessions -> [Rows -> Instances]]
  /\ pending \in [Sessions -> [Rows -> Diff \cup {None}]]
  /\ unsaved \in [Sessions -> SUBSET Rows]
  /\ \A s \in Sessions :
       /\ doing[s].step \in {"idle", "saving", "flushing", "recording", "done"}
       /\ levels[s] = <<>> <=> doing[s].step = "done"
       /\ \A r \in Rows : object[s][r].state = "transient" => r \notin Old
       /\ \A i \in DOMAIN levels[s] :
            /\ levels[s][i].claimed \subseteq levels[s][i].locked
            /\ \A q \in Sessions \ {s} : \A k \in DOMAIN levels[q] :
                 levels[s][i].locked \cap levels[q][k].locked = {}
  /\ calls \in 0 .. MaxCalls

Init ==
  /\ rows = [r \in Rows |->
       IF r \in Old THEN [value |-> First, deleted |-> FALSE] ELSE None]
  /\ trail = SetToSeq({[row |-> r, event |-> "created", old |-> None,
                        new |-> First] : r \in Old})
  /\ stray = {} /\ neglected = {}
  /\ levels = [s \in Sessions |-> <<Nothing>>]
  /\ object = [s \in Sessions |-> [r \in Rows |-> Absent]]
  /\ pending = [s \in Sessions |-> [r \in Rows |-> None]]
  /\ doing = [s \in Sessions |-> Idle]
  /\ unsaved = [s \in Sessions |-> {}]
  /\ calls = 0

(***************************************************************************)
(* SQLAlchemy's session                                                    *)
(***************************************************************************)

Top(s) == Len(levels[s])
Here(s) == levels[s][Top(s)]
Seen(level) == [r \in Rows |-> IF r \in DOMAIN level.rows THEN level.rows[r] ELSE rows[r]]
Stored(s) == Seen(Here(s))
Free(s, r) == \A q \in Sessions \ {s} :
                \A i \in DOMAIN levels[q] : r \notin levels[q][i].locked

Changed(o) == o.state = "persistent" /\ (o.value # o.base \/ o.gone # o.wasGone)
Dirty(s) == {r \in Rows : LET o == object[s][r]
                          IN o.state \in {"pending", "doomed"} \/ Changed(o)}

(* The columns that changed are written, and no other.                     *)
Written(s, r) ==
  LET o == object[s][r]
  IN CASE o.state = "doomed" -> None
       [] o.state = "pending" -> [value |-> o.value, deleted |-> o.gone]
       [] OTHER -> LET row == Stored(s)[r]
                   IN [value |-> IF o.value # o.base THEN o.value ELSE row.value,
                       deleted |-> IF o.gone # o.wasGone THEN o.gone
                                   ELSE row.deleted]

Clean(o) ==
  IF o.state = "doomed" THEN [o EXCEPT !.state = "deleted"]
  ELSE [o EXCEPT !.state = "persistent", !.id = TRUE, !.base = o.value,
                 !.wasGone = o.gone]

(* All that is dirty is flushed, but not onto a row another session has    *)
(* locked, nor an UPDATE of a row that is not there.  `astray` are those   *)
(* whose value is written without the save() of theirs.                    *)
FlushAll(s, astray) ==
  LET dirty == Dirty(s)
      of(state) == {r \in dirty : object[s][r].state = state}
  IN /\ \A r \in dirty : Free(s, r)
     /\ \A r \in of("persistent") : Stored(s)[r] # None
     /\ object' = [object EXCEPT ![s] = [r \in Rows |->
          IF r \in dirty THEN Clean(object[s][r]) ELSE object[s][r]]]
     /\ levels' = [levels EXCEPT ![s][Top(s)] =
          [Here(s) EXCEPT !.rows = [r \in dirty \cup DOMAIN Here(s).rows |->
                            IF r \in dirty THEN Written(s, r) ELSE Here(s).rows[r]],
                          !.inserted = Here(s).inserted \cup of("pending"),
                          !.updated = Here(s).updated \cup of("persistent"),
                          !.removed = Here(s).removed \cup of("doomed"),
                          !.locked = Here(s).locked \cup dirty,
                          !.stray = Here(s).stray \cup (astray \cap dirty)]]

ValueChanged(s) == {r \in Rows : object[s][r].value # object[s][r].base}

(* The autoflush of a query, a savepoint or a commit.  The query may be    *)
(* one of the handler's, or one of the model's own saving(), creating() or *)
(* updating().                                                             *)
Autoflush(s) ==
  /\ doing[s].step \in {"idle", "saving"} /\ Dirty(s) # {}
  /\ FlushAll(s, ValueChanged(s))
  /\ UNCHANGED <<rows, trail, stray, neglected, pending, doing, unsaved, calls>>

Load(o, row) ==
  IF row = None THEN o
  ELSE [state |-> "persistent", id |-> TRUE, value |-> row.value,
        base |-> row.value, gone |-> row.deleted, wasGone |-> row.deleted]

(* The object that a query returns: one the session has keeps what it has. *)
Fetch(s, found) ==
  [r \in Rows |-> IF r \in found /\ object[s][r].state \in {"absent", "expired"}
                  THEN Load(object[s][r], Stored(s)[r]) ELSE object[s][r]]

(***************************************************************************)
(* Queries                                                                 *)
(***************************************************************************)

(* find(), all(), find_by(), paginate() and search(), whose filters leave  *)
(* some of the rows the session sees.                                      *)
Select(s, found) ==
  /\ doing[s].step = "idle" /\ Dirty(s) = {}
  /\ \A r \in found : Stored(s)[r] # None
  /\ object' = [object EXCEPT ![s] = Fetch(s, found)]
  /\ object' # object
  /\ UNCHANGED <<rows, trail, stray, neglected, levels, pending, doing, unsaved,
                 calls>>

(* Mutant: an instance the session has keeps what it has.                  *)
RefreshAbsent(s, r) == Fetch(s, {r})

(* populate_existing                                                       *)
Refresh(s, r) == [object[s] EXCEPT ![r] = Load(@, Stored(s)[r])]

(* find(for_update=True)                                                   *)
Claim(s, r) ==
  /\ doing[s].step = "idle" /\ Dirty(s) = {}
  /\ Stored(s)[r] # None /\ Free(s, r)
  /\ object' = [object EXCEPT ![s] = Refresh(s, r)]
  /\ levels' = [levels EXCEPT ![s][Top(s)] =
       [Here(s) EXCEPT !.locked = Here(s).locked \cup {r},
                       !.claimed = Here(s).claimed \cup {r}]]
  /\ UNCHANGED <<rows, trail, stray, neglected, pending, doing, unsaved, calls>>

(***************************************************************************)
(* Model                                                                   *)
(***************************************************************************)

Call == calls < MaxCalls /\ calls' = calls + 1

(* create() makes an instance; the row is the one its ID will name.        *)
New(s, r) ==
  /\ doing[s].step = "idle" /\ r \notin Old
  /\ \A q \in Sessions : object[q][r].state = "absent"
  /\ rows[r] = None /\ \A i \in DOMAIN trail : trail[i].row # r
  /\ \E v \in Values : object' = [object EXCEPT ![s][r] =
       [Absent EXCEPT !.state = "transient", !.value = v]]
  /\ Call
  /\ UNCHANGED <<rows, trail, stray, neglected, levels, pending, doing, unsaved>>

(* An attribute is set, by the handler or by the own hook of the model that*)
(* is being saved, to derive the field that is then validated.             *)
Assign(s, r, v) ==
  /\ \/ doing[s].step = "idle"
     \/ doing[s].step = "saving" /\ r = doing[s].row
  /\ object[s][r].state \in {"transient", "persistent"} /\ object[s][r].value # v
  /\ object' = [object EXCEPT ![s][r].value = v]
  /\ unsaved' = [unsaved EXCEPT ![s] = @ \cup {r}]
  /\ Call
  /\ UNCHANGED <<rows, trail, stray, neglected, levels, pending, doing>>

(* save() and update(): whether the record is new is read off its id.      *)
StartSave(s, r) ==
  doing' = [doing EXCEPT ![s] =
    [step |-> "saving", row |-> r,
     how |-> IF object[s][r].id THEN "update" ELSE "create"]]

Save(s, r) ==
  /\ doing[s].step = "idle" /\ object[s][r].state \in {"transient", "persistent"}
  /\ StartSave(s, r) /\ Call
  /\ UNCHANGED <<rows, trail, stray, neglected, levels, object, pending, unsaved>>

Restore(s, r) ==
  /\ doing[s].step = "idle"
  /\ object[s][r].state = "persistent" /\ object[s][r].gone
  /\ object' = [object EXCEPT ![s][r].gone = FALSE]
  /\ StartSave(s, r) /\ Call
  /\ UNCHANGED <<rows, trail, stray, neglected, levels, pending, unsaved>>

(* Mutant: a diff that was never popped is kept.                           *)
UpdatingOnce(s, r) ==
  LET o == object[s][r]
  IN pending' = [pending EXCEPT ![s][r] =
       IF @ # None \/ o.value = o.base THEN @ ELSE [old |-> o.base, new |-> o.value]]

(* AuditObserver.updating(), after the model's own hooks: what has changed *)
(* since the last flush.                                                   *)
Updating(s, r) ==
  LET o == object[s][r]
  IN pending' = [pending EXCEPT ![s][r] =
       IF o.value = o.base THEN None ELSE [old |-> o.base, new |-> o.value]]

(* Mutant: what is stored is validated, not what will be.                  *)
WasValid(s, r) == object[s][r].base \notin Invalid

(* validate_or_raise(), after the hooks                                    *)
IsValid(s, r) == object[s][r].value \notin Invalid

(* The exception of an invalid record may be caught.  A valid one is added *)
(* to the session.                                                         *)
Prepare(s) ==
  LET r == doing[s].row
  IN /\ doing[s].step = "saving"
     /\ IF doing[s].how = "update" THEN Updating(s, r) ELSE UNCHANGED pending
     /\ IF IsValid(s, r)
        THEN /\ object' = [object EXCEPT ![s][r].state =
                             IF @ = "transient" THEN "pending" ELSE @]
             /\ doing' = [doing EXCEPT ![s].step = "flushing"]
        ELSE /\ doing' = [doing EXCEPT ![s] = Idle]
             /\ UNCHANGED object
     /\ UNCHANGED <<rows, trail, stray, neglected, levels, unsaved, calls>>

(* delete(): a flag, or the row itself.                                    *)
Delete(s, r) ==
  /\ doing[s].step = "idle" /\ object[s][r].state = "persistent"
  /\ object' \in {[object EXCEPT ![s][r].gone = TRUE],
                  [object EXCEPT ![s][r].state = "doomed"]}
  /\ doing' = [doing EXCEPT ![s] =
                 [step |-> "flushing", row |-> r, how |-> "delete"]]
  /\ Call
  /\ UNCHANGED <<rows, trail, stray, neglected, levels, pending, unsaved>>

(* session.flush() of a save() or delete().  The value of its own row is   *)
(* about to be recorded, unless a delete() writes it on the way, or the    *)
(* row was inserted before, in a savepoint that was rolled back.           *)
Flush(s) ==
  LET r == doing[s].row
      unrecorded == CASE doing[s].how = "create" -> {}
                      [] doing[s].how = "update" ->
                           IF object[s][r].state = "pending" THEN {r} ELSE {}
                      [] OTHER -> ValueChanged(s) \cap {r}
  IN /\ doing[s].step = "flushing"
     /\ FlushAll(s, (ValueChanged(s) \ {r}) \cup unrecorded)
     /\ doing' = [doing EXCEPT ![s].step = "recording"]
     /\ UNCHANGED <<rows, trail, stray, neglected, pending, unsaved, calls>>

(* AuditObserver.created(), updated() or deleted(): an entry in the same   *)
(* transaction.  An update that found no difference has none.              *)
EntriesOf(s, r) ==
  LET o == object[s][r]
      entry(event, old, new) ==
        <<[row |-> r, event |-> event, old |-> old, new |-> new]>>
  IN CASE doing[s].how = "create" -> entry("created", None, o.value)
       [] doing[s].how = "delete" -> entry("deleted", o.value, None)
       [] OTHER -> LET diff == pending[s][r]
                   IN IF diff = None THEN <<>>
                      ELSE entry("updated", diff.old, diff.new)

Record(s) ==
  LET r == doing[s].row
  IN /\ doing[s].step = "recording"
     /\ levels' = [levels EXCEPT ![s][Top(s)] =
          [Here(s) EXCEPT !.trail = Here(s).trail \o EntriesOf(s, r)]]
     /\ pending' = [pending EXCEPT ![s][r] =
          IF doing[s].how = "update" THEN None ELSE @]
     /\ unsaved' = [unsaved EXCEPT ![s] =
          IF doing[s].how = "delete" THEN @ ELSE @ \ {r}]
     /\ doing' = [doing EXCEPT ![s] = Idle]
     /\ UNCHANGED <<rows, trail, stray, neglected, object, calls>>

(***************************************************************************)
(* The session's transaction and its savepoints                            *)
(***************************************************************************)

(* A block, with what it did itself.                                       *)
Block(s, inserted, updated, removed) ==
  [Here(s) EXCEPT !.inserted = inserted, !.updated = updated, !.removed = removed]

(* async with transaction()                                                *)
EnterTransaction(s) ==
  /\ doing[s].step = "idle" /\ Dirty(s) = {}
  /\ levels' = [levels EXCEPT ![s] = Append(levels[s], Block(s, {}, {}, {}))]
  /\ Call
  /\ UNCHANGED <<rows, trail, stray, neglected, object, pending, doing, unsaved>>

(* What the block has done was done in the one around it.                  *)
LeaveTransaction(s) ==
  LET outer == levels[s][Top(s) - 1]
  IN /\ doing[s].step = "idle" /\ Dirty(s) = {} /\ Top(s) > 1
     /\ levels' = [levels EXCEPT ![s] = Append(Front(Front(levels[s])),
          Block(s, Here(s).inserted \cup outer.inserted,
                Here(s).updated \cup outer.updated,
                Here(s).removed \cup outer.removed))]
     /\ UNCHANGED <<rows, trail, stray, neglected, object, pending, doing, unsaved,
                    calls>>

(* What was inserted is no row any more, but keeps its id, and is lost if  *)
(* it has expired; what was updated or only assigned to has to be loaded   *)
(* anew; what was deleted is back.                                         *)
RolledBack(s, r) ==
  LET o == object[s][r]
      level == Here(s)
  IN IF r \in level.inserted \/ o.state = "pending"
     THEN [o EXCEPT !.state = IF o.state = "expired" THEN "expired" ELSE "transient"]
     ELSE IF r \in level.updated \/ Changed(o) THEN [Absent EXCEPT !.state = "expired"]
     ELSE IF r \in level.removed \/ o.state = "doomed"
     THEN [o EXCEPT !.state = "persistent"]
     ELSE o

(* An exception leaves the block, from the handler, a hook, a rule or a    *)
(* flush, and is caught outside it.                                        *)
AbortTransaction(s) ==
  /\ doing[s].step # "done" /\ Top(s) > 1
  /\ object' = [object EXCEPT ![s] = [r \in Rows |-> RolledBack(s, r)]]
  /\ levels' = [levels EXCEPT ![s] = Front(levels[s])]
  /\ doing' = [doing EXCEPT ![s] = Idle]
  /\ UNCHANGED <<rows, trail, stray, neglected, pending, unsaved, calls>>

End(s) ==
  /\ levels' = [levels EXCEPT ![s] = <<>>]
  /\ doing' = [doing EXCEPT ![s] = [Idle EXCEPT !.step = "done"]]
  /\ object' = [object EXCEPT ![s] = [r \in Rows |-> Absent]]
  /\ pending' = [pending EXCEPT ![s] = [r \in Rows |-> None]]
  /\ unsaved' = [unsaved EXCEPT ![s] = {}]
  /\ UNCHANGED calls

(* session.commit()                                                        *)
Commit(s) ==
  /\ doing[s].step = "idle" /\ Dirty(s) = {} /\ Top(s) = 1
  /\ rows' = Stored(s)
  /\ trail' = trail \o levels[s][1].trail
  /\ stray' = stray \cup levels[s][1].stray
  /\ neglected' = neglected \cup unsaved[s]
  /\ End(s)

(* session.rollback(), whatever was raised and wherever.                   *)
Rollback(s) ==
  /\ doing[s].step # "done" /\ Top(s) = 1
  /\ End(s)
  /\ UNCHANGED <<rows, trail, stray, neglected>>

Next ==
  \E s \in Sessions :
    \/ Autoflush(s) \/ Prepare(s) \/ Flush(s) \/ Record(s)
    \/ EnterTransaction(s) \/ LeaveTransaction(s) \/ AbortTransaction(s)
    \/ Commit(s) \/ Rollback(s)
    \/ \E found \in SUBSET Rows : Select(s, found)
    \/ \E r \in Rows :
         \/ Claim(s, r) \/ New(s, r) \/ Save(s, r) \/ Restore(s, r) \/ Delete(s, r)
         \/ \E v \in Values : Assign(s, r, v)

Spec == Init /\ [][Next]_vars

(***************************************************************************)
(* Properties                                                              *)
(***************************************************************************)

(* The entries of a row begin with its creation, are about a row that was  *)
(* there, and end with the value that is stored.                           *)
Tells(entries, r, stored) ==
  LET about == {i \in DOMAIN entries : entries[i].row = r}
      deletions == {i \in about : entries[i].event = "deleted"}
  IN IF about = {} THEN stored = None
     ELSE /\ \A i \in about :
               entries[i].event = "created" <=> \A k \in about : i <= k
          /\ stored # None =>
               \E i \in about \ deletions :
                 /\ \A k \in about \ deletions : k <= i
                 /\ entries[i].new = stored.value
          /\ stored = None \/ stored.deleted => deletions # {}

TellsOf(r) == Tells(trail, r, rows[r])

(* Whatever sessions commit, abort, catch and overtake, the changelog of a *)
(* row tells how it is, unless a value of it was written by something else *)
(* than its own save() (audit_log.py:18-21, 175-189).                      *)
TrailTellsRows == \A r \in Rows : r \in stray \/ TellsOf(r)

(* The same of every row whose assignments were followed by its save(), as *)
(* every save()/delete() call gets recorded (docs/audit-log.md:16-18), and *)
(* no change lands without an entry (audit_log.py:18-21).                  *)
SavesAreRecorded == \A r \in Rows : r \in neglected \/ TellsOf(r)

(* What a save() has written is valid, after whatever the hooks made of it *)
(* (model.py:197-204, 489-509).                                            *)
SavedAreValid ==
  \A r \in Rows : rows[r] # None /\ rows[r].value \in Invalid => r \in stray

(* From find(for_update=True) on, the session's instance is what is stored *)
(* but for its own assignments: no decision made from it is made from an   *)
(* older state (model.py:270-282, docs/database.md:110-115).               *)
ClaimedIsCurrent ==
  \A s \in Sessions : \A i \in DOMAIN levels[s] : \A r \in levels[s][i].claimed :
    object[s][r].state = "persistent" =>
      Stored(s)[r] = [value |-> object[s][r].base, deleted |-> object[s][r].wasGone]
=============================================================================
