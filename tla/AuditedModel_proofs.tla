------------------------- MODULE AuditedModel_proofs -------------------------
(***************************************************************************)
(* Proofs about AuditedModel: for any sessions, rows and values, any blocks*)
(* and any number of calls, the changelog tells the rows, what a save()    *)
(* has written is valid, and a claimed instance is current.                *)
(***************************************************************************)
EXTENDS AuditedModel, FiniteSetTheorems, SequenceTheorems, TLAPS

(***************************************************************************)
(* The invariant                                                           *)
(***************************************************************************)

Has(entries, r) == \E i \in DOMAIN entries : entries[i].row = r

(* A row that has entries of its own, or need not have them any more.      *)
Known(r) == r \in stray \/ Has(trail, r)

Stages == {"idle", "saving", "flushing", "recording", "done"}
Kinds == {"create", "update", "delete"}

PartialRows(R) == UNION {[D -> Row \cup {None}] : D \in SUBSET R}

Levels ==
  [rows : PartialRows(Rows), trail : Seq(Entry), inserted : SUBSET Rows,
   updated : SUBSET Rows, removed : SUBSET Rows, locked : SUBSET Rows,
   claimed : SUBSET Rows, stray : SUBSET Rows]

Types ==
  /\ rows \in [Rows -> Row \cup {None}] /\ trail \in Seq(Entry)
  /\ stray \in SUBSET Rows /\ neglected \in SUBSET Rows
  /\ object \in [Sessions -> [Rows -> Instances]]
  /\ pending \in [Sessions -> [Rows -> Diff \cup {None}]]
  /\ doing \in [Sessions -> [step : Stages, row : Rows \cup {None}, how : Kinds \cup {None}]]
  /\ unsaved \in [Sessions -> SUBSET Rows]
  /\ levels \in [Sessions -> Seq(Levels)]
  /\ calls \in 0 .. MaxCalls

(* What a session is doing, and of what.                                   *)
DoingOK(s) ==
  LET d == doing[s]
      o == object[s][d.row]
  IN /\ levels[s] = <<>> <=> d.step = "done"
     /\ d.step \in {"idle", "done"} => d = [Idle EXCEPT !.step = d.step]
     /\ d.step \notin {"idle", "done"} => d.row \in Rows /\ d.how \in Kinds
     /\ d.step = "saving" =>
          \/ d.how = "create" /\ o.state = "transient" /\ ~o.id
          \/ d.how = "update" /\ o.state \in {"transient", "persistent"} /\ o.id
     /\ d.step = "flushing" =>
          \/ d.how = "create" /\ o.state = "pending" /\ ~o.id /\ o.value \notin Invalid
          \/ /\ d.how = "update" /\ o.state \in {"pending", "persistent"} /\ o.id
             /\ o.value \notin Invalid
             /\ pending[s][d.row] =
                  IF o.value = o.base THEN None ELSE [old |-> o.base, new |-> o.value]
          \/ d.how = "delete" /\ o.state = "doomed"
          \/ d.how = "delete" /\ o.state = "persistent" /\ o.gone
     /\ d.step = "recording" => o.state \in {"persistent", "deleted"}

Deleting(s, r) == doing[s] = [step |-> "flushing", row |-> r, how |-> "delete"]

(* An instance that never was a row: nothing is known of it.               *)
Unborn(s, r) == object[s][r].state \in {"transient", "pending"} /\ ~object[s][r].id

ObjectOK(s, r) ==
  LET o == object[s][r]
  IN /\ o.state \in {"transient", "pending", "persistent", "doomed", "deleted"} =>
          o.value \in Values /\ (o.id => o.base \in Values)
     /\ o.state \in {"transient", "pending"} => r \notin Old
     /\ o.state \in {"persistent", "doomed", "deleted"} =>
          o.id /\ (Known(r) \/ r \in DOMAIN Here(s).rows)
     /\ o.state = "absent" =>
          /\ o = Absent
          /\ \A i \in DOMAIN levels[s] :
               r \notin levels[s][i].locked /\ ~Has(levels[s][i].trail, r)
     /\ o.state = "persistent" /\ o.gone => o.wasGone \/ Deleting(s, r)
     /\ o.state \in {"doomed", "deleted"} /\ o.gone => o.wasGone
     /\ o.state = "pending" =>
          doing[s].step = "flushing" /\ doing[s].row = r /\ doing[s].how # "delete"
     /\ o.state = "doomed" => Deleting(s, r)
     /\ Unborn(s, r) =>
          /\ ~o.gone /\ rows[r] = None /\ ~Has(trail, r)
          /\ \A i \in DOMAIN levels[s] :
               r \notin DOMAIN levels[s][i].rows /\ ~Has(levels[s][i].trail, r)
          /\ \A q \in Sessions \ {s} : object[q][r].state = "absent"

(* What a block has locked and written.                                    *)
LevelOK(s, i) ==
  LET level == levels[s][i]
  IN /\ level.claimed \subseteq level.locked /\ DOMAIN level.rows \subseteq level.locked
     /\ level.inserted \cup level.updated \cup level.removed \subseteq DOMAIN level.rows
     /\ level.inserted \cap Old = {}
     /\ \A r \in DOMAIN level.rows :
          Known(r) \/ r \in level.inserted \/ (i > 1 /\ r \in DOMAIN levels[s][i - 1].rows)

LocksApart ==
  \A s, q \in Sessions : s # q =>
    \A i \in DOMAIN levels[s], k \in DOMAIN levels[q] :
      levels[s][i].locked \cap levels[q][k].locked = {}

(* The entries of a block, with the one it is about to have.               *)
Coming(s, i) ==
  IF i = Top(s) /\ doing[s].step = "recording" THEN EntriesOf(s, doing[s].row) ELSE <<>>
Entries(s, i) == levels[s][i].trail \o Coming(s, i)

EntriesOK(s, i) ==
  \A k \in DOMAIN Entries(s, i) :
    LET e == Entries(s, i)[k]
    IN e.row \in DOMAIN levels[s][i].rows \/ (e.event = "deleted" /\ Known(e.row))

(* If the session committed a block, its entries would tell the rows.      *)
BlockTells(s, i) ==
  \A r \in Rows : r \notin stray \cup levels[s][i].stray =>
    LET row == Seen(levels[s][i])[r]
        entries == trail \o Entries(s, i)
    IN /\ Tells(entries, r, row)
       /\ row # None => row.value \notin Invalid
       /\ r \in DOMAIN levels[s][i].rows => Has(entries, r)

RowsTold ==
  \A r \in Rows : r \notin stray =>
    TellsOf(r) /\ (rows[r] # None => rows[r].value \notin Invalid)

(* What a block inside of block `i` has put in the row.                    *)
Overwritten(s, i, k, r) ==
  \E j \in i + 1 .. k : r \in levels[s][j].inserted \cup levels[s][j].updated
Removed(s, i, k, r) == \E j \in i + 1 .. k : r \in levels[s][j].removed

(* What no block between two has written, they find alike.                 *)
BlocksAgree(s) ==
  \A i, k \in DOMAIN levels[s] : i < k =>
    /\ levels[s][i].claimed \subseteq levels[s][k].claimed
    /\ \A r \in Rows : ~Overwritten(s, i, k, r) /\ ~Removed(s, i, k, r) =>
         /\ r \in DOMAIN levels[s][i].rows <=> r \in DOMAIN levels[s][k].rows
         /\ r \in DOMAIN levels[s][i].rows =>
              levels[s][i].rows[r] = levels[s][k].rows[r]

(* A row that was deleted stays so while its block does.                   *)
RemovedStay(s) ==
  \A j \in DOMAIN levels[s] : \A r \in levels[s][j].removed :
    /\ object[s][r].state = "deleted"
    /\ \A k \in j .. Top(s) : r \in DOMAIN levels[s][k].rows /\ levels[s][k].rows[r] = None
    /\ \A k \in j + 1 .. Top(s) :
         r \notin levels[s][k].inserted \cup levels[s][k].updated \cup levels[s][k].removed

(* What has been claimed is as the instance believes, also if the blocks   *)
(* that are inside are rolled back.                                        *)
ClaimsOK(s) ==
  \A i \in DOMAIN levels[s] : \A r \in levels[s][i].claimed :
    LET o == object[s][r]
    IN /\ ~Overwritten(s, i, Top(s), r)
       /\ \/ o.state \in {"persistent", "doomed"}
          \/ o.state = "deleted" /\ Removed(s, i, Top(s), r)
       => Seen(levels[s][i])[r] = [value |-> o.base, deleted |-> o.wasGone]

SessionOK(s) ==
  /\ DoingOK(s) /\ \A r \in Rows : ObjectOK(s, r)
  /\ \A i \in DOMAIN levels[s] : LevelOK(s, i) /\ EntriesOK(s, i) /\ BlockTells(s, i)
  /\ BlocksAgree(s) /\ RemovedStay(s) /\ ClaimsOK(s)

IInv == Types /\ LocksApart /\ RowsTold /\ \A s \in Sessions : SessionOK(s)

(***************************************************************************)
(* Entries                                                                 *)
(***************************************************************************)

LEMMA Joined ==
  ASSUME NEW S, NEW u \in Seq(S), NEW v \in Seq(S)
  PROVE  /\ u \o v \in Seq(S) /\ Len(u \o v) = Len(u) + Len(v)
         /\ Len(u) \in Nat /\ Len(v) \in Nat
         /\ DOMAIN u = 1 .. Len(u) /\ DOMAIN v = 1 .. Len(v)
         /\ DOMAIN (u \o v) = 1 .. Len(u) + Len(v)
         /\ \A i \in DOMAIN u : i \in DOMAIN (u \o v) /\ (u \o v)[i] = u[i]
         /\ \A i \in DOMAIN v : /\ Len(u) + i \in DOMAIN (u \o v)
                                /\ (u \o v)[Len(u) + i] = v[i]
         /\ \A i \in DOMAIN (u \o v) :
              \/ i \in DOMAIN u
              \/ i - Len(u) \in DOMAIN v /\ i = Len(u) + (i - Len(u))
<1>1. /\ u \o v \in Seq(S) /\ Len(u \o v) = Len(u) + Len(v)
      /\ Len(u) \in Nat /\ Len(v) \in Nat
      /\ DOMAIN u = 1 .. Len(u) /\ DOMAIN v = 1 .. Len(v)
      /\ DOMAIN (u \o v) = 1 .. Len(u) + Len(v)
  OBVIOUS
<1>2. \A i \in 1 .. Len(u) + Len(v) :
        (u \o v)[i] = IF i <= Len(u) THEN u[i] ELSE v[i - Len(u)]
  BY ConcatProperties
<1>3. ASSUME NEW i \in DOMAIN v
      PROVE  Len(u) + i \in DOMAIN (u \o v) /\ (u \o v)[Len(u) + i] = v[i]
  <2> DEFINE k == Len(u) + i
  <2>1. k \in 1 .. Len(u) + Len(v) /\ ~(k <= Len(u)) /\ k - Len(u) = i
    BY <1>1
  <2> HIDE DEF k
  <2>2. (u \o v)[k] = v[i]
    BY <1>2, <2>1
  <2> QED BY <1>1, <2>1, <2>2 DEF k
<1>4. \A i \in DOMAIN u : i \in DOMAIN (u \o v) /\ (u \o v)[i] = u[i]
  BY <1>1, <1>2
<1>5. \A i \in DOMAIN (u \o v) :
        \/ i \in DOMAIN u
        \/ i - Len(u) \in DOMAIN v /\ i = Len(u) + (i - Len(u))
  BY <1>1
<1> QED BY <1>1, <1>3, <1>4, <1>5

LEMMA JoinedThree ==
  \A u, v, w \in Seq(Entry) : u \o (v \o w) = (u \o v) \o w
OBVIOUS

LEMMA JoinedHas ==
  ASSUME NEW u \in Seq(Entry), NEW v \in Seq(Entry), NEW r
  PROVE  Has(u \o v, r) <=> Has(u, r) \/ Has(v, r)
<1>1. ASSUME Has(u, r) \/ Has(v, r) PROVE Has(u \o v, r)
  <2>1. CASE Has(u, r)
    BY <2>1, Joined DEF Has
  <2>2. CASE Has(v, r)
    <3>1. PICK k \in DOMAIN v : v[k].row = r
      BY <2>2 DEF Has
    <3>2. Len(u) + k \in DOMAIN (u \o v) /\ (u \o v)[Len(u) + k] = v[k]
      BY Joined
    <3> QED BY <3>1, <3>2 DEF Has
  <2> QED BY <1>1, <2>1, <2>2
<1>2. ASSUME Has(u \o v, r) PROVE Has(u, r) \/ Has(v, r)
  <2>1. PICK i \in DOMAIN (u \o v) : (u \o v)[i].row = r
    BY <1>2 DEF Has
  <2>2. CASE i \in DOMAIN u
    BY <2>1, <2>2, Joined DEF Has
  <2>3. CASE i - Len(u) \in DOMAIN v /\ i = Len(u) + (i - Len(u))
    <3>1. PICK k \in DOMAIN v : i = Len(u) + k
      BY <2>3
    <3>2. v[k].row = r
      BY <2>1, <3>1, Joined
    <3> QED BY <3>2 DEF Has
  <2> QED BY <2>1, <2>2, <2>3, Joined
<1> QED BY <1>1, <1>2

(* Deletions of a row that has entries may come in between.                *)
LEMMA TellsThrough ==
  ASSUME NEW u \in Seq(Entry), NEW v \in Seq(Entry), NEW w \in Seq(Entry), NEW r, NEW x,
         \A k \in DOMAIN v : v[k].row = r => v[k].event = "deleted" /\ Has(u, r),
         Tells(u \o w, r, x)
  PROVE  Tells((u \o v) \o w, r, x)
<1> DEFINE old == u \o w
           new == (u \o v) \o w
           to(i) == IF i \in DOMAIN u THEN i ELSE i + Len(v)
<1>1. /\ u \o v \in Seq(Entry) /\ old \in Seq(Entry) /\ new \in Seq(Entry)
      /\ Len(u) \in Nat /\ Len(v) \in Nat /\ Len(w) \in Nat
      /\ DOMAIN u = 1 .. Len(u) /\ DOMAIN v = 1 .. Len(v) /\ DOMAIN w = 1 .. Len(w)
      /\ DOMAIN old = 1 .. Len(u) + Len(w)
      /\ Len(u \o v) = Len(u) + Len(v)
      /\ DOMAIN new = 1 .. (Len(u) + Len(v)) + Len(w)
  BY Joined
<1>2. ASSUME NEW i \in DOMAIN old
      PROVE  to(i) \in DOMAIN new /\ new[to(i)] = old[i]
  <2>1. CASE i \in DOMAIN u
    BY <1>1, <2>1, Joined
  <2>2. CASE i \notin DOMAIN u
    <3>1. PICK k \in DOMAIN w : i = Len(u) + k
      BY <1>1, <1>2, <2>2, Joined
    <3>2. old[i] = w[k]
      BY <1>1, <3>1, Joined
    <3>3. to(i) = Len(u \o v) + k
      BY <1>1, <2>2, <3>1
    <3>4. Len(u \o v) + k \in DOMAIN new /\ new[Len(u \o v) + k] = w[k]
      BY <1>1, Joined
    <3> QED BY <3>2, <3>3, <3>4
  <2> QED BY <2>1, <2>2
<1>3. ASSUME NEW i \in DOMAIN new
      PROVE  \/ \E k \in DOMAIN old : i = to(k)
             \/ \E k \in DOMAIN v : i = Len(u) + k /\ new[i] = v[k]
  <2>1. CASE i \in DOMAIN u
    BY <1>1, <2>1
  <2>2. CASE i \in Len(u) + 1 .. Len(u) + Len(v)
    <3>1. PICK k \in DOMAIN v : i = Len(u) + k
      <4>1. i - Len(u) \in DOMAIN v /\ i = Len(u) + (i - Len(u))
        BY <1>1, <2>2
      <4> QED BY <4>1
    <3>2. i \in DOMAIN (u \o v) /\ (u \o v)[i] = v[k]
      BY <3>1, Joined
    <3>3. new[i] = (u \o v)[i]
      BY <1>1, <3>2, Joined
    <3> QED BY <3>1, <3>2, <3>3
  <2>3. CASE i > Len(u) + Len(v)
    <3>1. i - Len(v) \in DOMAIN old /\ i - Len(v) \notin DOMAIN u /\ i = (i - Len(v)) + Len(v)
      BY <1>1, <1>3, <2>3
    <3> QED BY <3>1
  <2> QED BY <1>1, <1>3, <2>1, <2>2, <2>3
<1>4. \A i, k \in DOMAIN old : i <= k <=> to(i) <= to(k)
  BY <1>1
<1>5. \A k \in DOMAIN v, i \in DOMAIN u : to(i) = i /\ i <= Len(u) + k
  BY <1>1
<1>6. \A i \in DOMAIN u : i \in DOMAIN old /\ old[i] = u[i]
  BY Joined
<1> DEFINE aboutOld == {i \in DOMAIN old : old[i].row = r}
           aboutNew == {i \in DOMAIN new : new[i].row = r}
           goneOld == {i \in aboutOld : old[i].event = "deleted"}
           goneNew == {i \in aboutNew : new[i].event = "deleted"}
<1> HIDE DEF old, new, to
<1>7. /\ \A i \in aboutOld : to(i) \in aboutNew
      /\ \A i \in goneOld : to(i) \in goneNew
      /\ \A i \in aboutOld \ goneOld : to(i) \in aboutNew \ goneNew
  BY <1>2
<1>8. \A i \in aboutNew : \/ \E k \in aboutOld : i = to(k) /\ new[i] = old[k]
                          \/ \E k \in DOMAIN v : /\ i = Len(u) + k /\ i \in goneNew
                                                 /\ Has(u, r)
  BY <1>2, <1>3
<1>9. Has(u, r) => \E i \in aboutOld : i \in DOMAIN u
  BY <1>6 DEF Has
<1>10. CASE aboutOld = {}
  <2>1. x = None
    BY <1>10 DEF Tells, old
  <2>2. aboutNew = {}
    BY <1>8, <1>9, <1>10
  <2> QED BY <2>1, <2>2 DEF Tells, new
<1>11. CASE aboutOld # {}
  <2>1. /\ \A i \in aboutOld : old[i].event = "created" <=> \A k \in aboutOld : i <= k
        /\ x # None => \E i \in aboutOld \ goneOld :
             /\ \A k \in aboutOld \ goneOld : k <= i
             /\ old[i].new = x.value
        /\ x = None \/ x.deleted => goneOld # {}
    BY <1>11 DEF Tells, old
  <2>2. aboutNew # {}
    BY <1>7, <1>11
  <2>3. ASSUME NEW i \in aboutNew
        PROVE  new[i].event = "created" <=> \A k \in aboutNew : i <= k
    <3>1. CASE \E k \in aboutOld : i = to(k) /\ new[i] = old[k]
      <4>1. PICK k \in aboutOld : i = to(k) /\ new[i] = old[k]
        BY <3>1
      <4>2. ASSUME \A j \in aboutNew : i <= j PROVE \A j \in aboutOld : k <= j
        BY <1>4, <1>7, <4>1, <4>2
      <4>3. ASSUME \A j \in aboutOld : k <= j, NEW j \in aboutNew PROVE i <= j
        <5>1. CASE \E m \in aboutOld : j = to(m)
          BY <1>4, <4>1, <4>3, <5>1
        <5>2. CASE \E m \in DOMAIN v : j = Len(u) + m /\ Has(u, r)
          <6>1. PICK n \in aboutOld : n \in DOMAIN u
            BY <1>9, <5>2
          <6>2. k <= n
            BY <4>3, <6>1
          <6>3. k \in DOMAIN u
            BY <1>1, <6>1, <6>2
          <6> QED BY <1>5, <4>1, <5>2, <6>3
        <5> QED BY <1>8, <5>1, <5>2
      <4> QED BY <2>1, <4>1, <4>2, <4>3
    <3>2. CASE \E k \in DOMAIN v : i = Len(u) + k /\ i \in goneNew /\ Has(u, r)
      <4>1. PICK k \in DOMAIN v : i = Len(u) + k
        BY <3>2
      <4>2. PICK n \in aboutOld : n \in DOMAIN u
        BY <1>9, <3>2
      <4>3. n \in aboutNew /\ ~(i <= n)
        BY <1>1, <1>5, <1>7, <4>1, <4>2
      <4> QED BY <3>2, <4>3
    <3> QED BY <1>8, <3>1, <3>2
  <2>4. ASSUME x # None
        PROVE  \E i \in aboutNew \ goneNew :
                 /\ \A k \in aboutNew \ goneNew : k <= i
                 /\ new[i].new = x.value
    <3>1. PICK i \in aboutOld \ goneOld :
             /\ \A k \in aboutOld \ goneOld : k <= i
             /\ old[i].new = x.value
      BY <2>1, <2>4
    <3>2. to(i) \in aboutNew \ goneNew /\ new[to(i)].new = x.value
      BY <1>2, <1>7, <3>1
    <3>3. ASSUME NEW j \in aboutNew \ goneNew PROVE j <= to(i)
      <4>1. PICK m \in aboutOld : j = to(m)
        BY <1>8, <3>3
      <4>2. m \notin goneOld
        BY <1>7, <3>3, <4>1
      <4> QED BY <1>4, <3>1, <4>1, <4>2
    <3> QED BY <3>2, <3>3
  <2>5. x = None \/ x.deleted => goneNew # {}
    BY <1>7, <2>1
  <2> HIDE DEF aboutOld, goneOld
  <2> QED BY <2>2, <2>3, <2>4, <2>5 DEF Tells, new
<1> QED BY <1>10, <1>11

(* What one more entry tells.                                              *)
LEMMA TellsMore ==
  ASSUME NEW u \in Seq(Entry), NEW e \in Entry, NEW r, NEW x, NEW y
  PROVE  /\ e.row # r /\ Tells(u, r, x) => Tells(u \o <<e>>, r, x)
         /\ e.row = r /\ e.event = "created" /\ ~Has(u, r) /\ y # None
              /\ y.value = e.new /\ ~y.deleted => Tells(u \o <<e>>, r, y)
         /\ e.row = r /\ e.event = "updated" /\ Tells(u, r, x) /\ x # None /\ y # None
              /\ y.value = e.new /\ (y.deleted => x.deleted) => Tells(u \o <<e>>, r, y)
         /\ e.row = r /\ e.event = "deleted" /\ Tells(u, r, x) /\ Has(u, r)
              /\ (y # None => x # None /\ y.value = x.value) => Tells(u \o <<e>>, r, y)
         /\ Tells(u, r, x) /\ x # None /\ y # None
              /\ y.value = x.value /\ (y.deleted => x.deleted) => Tells(u, r, y)
<1> DEFINE w == u \o <<e>>
           about == {i \in DOMAIN u : u[i].row = r}
           gone == {i \in about : u[i].event = "deleted"}
           about2 == {i \in DOMAIN w : w[i].row = r}
           gone2 == {i \in about2 : w[i].event = "deleted"}
           n == Len(u) + 1
<1>1. /\ DOMAIN w = 1 .. n /\ w[n] = e /\ DOMAIN u = 1 .. Len(u) /\ Len(u) \in Nat
      /\ \A i \in DOMAIN u : w[i] = u[i]
  OBVIOUS
<1>2. ~Has(u, r) <=> about = {}
  BY DEF Has
<1> HIDE DEF w
<1>3. e.row = r => about2 = about \cup {n} /\ n \notin about
  BY <1>1
<1>4. e.row # r => about2 = about
  BY <1>1
<1>5. /\ \A i \in about : i \in Nat /\ i < n /\ w[i] = u[i]
      /\ n \in Nat
  BY <1>1
<1>6. /\ e.row = r /\ e.event = "deleted" => gone2 = gone \cup {n}
      /\ ~(e.row = r /\ e.event = "deleted") => gone2 = gone
  BY <1>1, <1>3, <1>4, <1>5
<1> HIDE DEF n
<1>7. ASSUME e.row # r, Tells(u, r, x) PROVE Tells(w, r, x)
  <2>1. about2 = about /\ gone2 = gone
    BY <1>4, <1>6, <1>7
  <2> HIDE DEF gone
  <2> QED BY <1>5, <1>7, <2>1 DEF Tells, gone
<1>8. ASSUME e.row = r, e.event = "created", ~Has(u, r), y # None, y.value = e.new, ~y.deleted
      PROVE  Tells(w, r, y)
  <2>1. about2 = {n} /\ gone2 = {}
    BY <1>2, <1>3, <1>6, <1>8
  <2> QED BY <1>1, <1>5, <1>8, <2>1 DEF Tells
<1>9. ASSUME e.row = r, e.event = "updated", Tells(u, r, x), x # None, y # None,
             y.value = e.new, y.deleted => x.deleted
      PROVE  Tells(w, r, y)
  <2>1. about2 = about \cup {n} /\ gone2 = gone /\ n \notin gone /\ about # {}
    BY <1>3, <1>6, <1>9 DEF Tells
  <2>2. /\ \A i \in about : u[i].event = "created" <=> \A k \in about : i <= k
        /\ x.deleted => gone # {}
    BY <1>9, <2>1 DEF Tells
  <2>3. \A i \in about2 : w[i].event = "created" <=> \A k \in about2 : i <= k
    BY <1>1, <1>5, <1>9, <2>1, <2>2
  <2>4. /\ n \in about2 \ gone2 /\ w[n].new = y.value
        /\ \A k \in about2 \ gone2 : k <= n
    BY <1>1, <1>5, <1>9, <2>1
  <2>5. y.deleted => gone2 # {}
    BY <1>9, <2>1, <2>2
  <2> HIDE DEF about, gone
  <2> QED BY <1>9, <2>1, <2>3, <2>4, <2>5 DEF Tells
<1>10. ASSUME e.row = r, e.event = "deleted", Tells(u, r, x), Has(u, r),
              y # None => x # None /\ y.value = x.value
       PROVE  Tells(w, r, y)
  <2>1. about2 = about \cup {n} /\ gone2 = gone \cup {n} /\ about # {}
    BY <1>2, <1>3, <1>6, <1>10
  <2>2. /\ \A i \in about : u[i].event = "created" <=> \A k \in about : i <= k
        /\ x # None => \E i \in about \ gone :
             /\ \A k \in about \ gone : k <= i
             /\ u[i].new = x.value
    BY <1>10, <2>1 DEF Tells
  <2>3. \A i \in about2 : w[i].event = "created" <=> \A k \in about2 : i <= k
    BY <1>1, <1>5, <1>10, <2>1, <2>2
  <2>4. about2 \ gone2 = about \ gone
    BY <1>5, <2>1
  <2>5. y # None => \E i \in about2 \ gone2 :
             /\ \A k \in about2 \ gone2 : k <= i
             /\ w[i].new = y.value
    BY <1>5, <1>10, <2>2, <2>4
  <2> HIDE DEF about, gone
  <2> QED BY <1>10, <2>1, <2>3, <2>5 DEF Tells
<1>11. ASSUME Tells(u, r, x), x # None, y # None, y.value = x.value, y.deleted => x.deleted
       PROVE  Tells(u, r, y)
  BY <1>11 DEF Tells
<1> QED BY <1>7, <1>8, <1>9, <1>10, <1>11 DEF w

(***************************************************************************)
(* What a session leaves alone                                             *)
(***************************************************************************)

LEMMA SeenRow ==
  ASSUME rows \in [Rows -> Row \cup {None}], NEW level \in Levels
  PROVE  /\ Seen(level) \in [Rows -> Row \cup {None}]
         /\ level.rows \in [DOMAIN level.rows -> Row \cup {None}]
         /\ DOMAIN level.rows \subseteq Rows
         /\ \A r \in Rows : Seen(level)[r] = IF r \in DOMAIN level.rows THEN level.rows[r]
                                                                       ELSE rows[r]
<1>1. PICK D \in SUBSET Rows : level.rows \in [D -> Row \cup {None}]
  BY DEF Levels, PartialRows
<1>2. DOMAIN level.rows = D /\ D \subseteq Rows
  BY <1>1
<1> QED BY <1>1, <1>2 DEF Seen

LEMMA Quiet ==
  ASSUME Types, NEW s \in Sessions, doing[s].step # "recording"
  PROVE  \A i \in DOMAIN levels[s] : Entries(s, i) = levels[s][i].trail
<1>1. ASSUME NEW i \in DOMAIN levels[s] PROVE levels[s][i].trail \o <<>> = levels[s][i].trail
  BY DEF Types, Levels
<1> QED BY <1>1 DEF Entries, Coming

(* Of a session whose blocks stay as they are, and that is not about to    *)
(* record, before and after.                                               *)
LEMMA SameBlocks ==
  ASSUME Types, Types', NEW s \in Sessions, SessionOK(s), levels'[s] = levels[s],
         UNCHANGED <<rows, trail, stray>>,
         doing[s].step # "recording", doing'[s].step # "recording"
  PROVE  /\ \A i \in DOMAIN levels'[s] :
              LevelOK(s, i)' /\ EntriesOK(s, i)' /\ BlockTells(s, i)'
         /\ BlocksAgree(s)'
<1>1. \A i \in DOMAIN levels[s] : /\ Entries(s, i) = levels[s][i].trail
                                  /\ Entries(s, i)' = levels[s][i].trail
  <2>1. \A i \in DOMAIN levels'[s] : Entries(s, i)' = levels'[s][i].trail
    <3>1. ASSUME NEW i \in DOMAIN levels'[s]
          PROVE  levels'[s][i].trail \o <<>> = levels'[s][i].trail
      BY DEF Types, Levels
    <3> QED BY <3>1 DEF Entries, Coming
  <2> QED BY <2>1, Quiet
<1>2. ASSUME NEW i \in DOMAIN levels[s]
      PROVE  LevelOK(s, i)' /\ EntriesOK(s, i)' /\ BlockTells(s, i)'
  <2>1. LevelOK(s, i)'
    BY <1>2 DEF SessionOK, LevelOK, Known, Has
  <2>2. EntriesOK(s, i)'
    BY <1>1, <1>2 DEF SessionOK, EntriesOK, Known, Has
  <2>3. Seen(levels[s][i])' = Seen(levels[s][i])
    BY DEF Seen
  <2>4. BlockTells(s, i)'
    BY <1>1, <1>2, <2>3 DEF SessionOK, BlockTells
  <2> QED BY <2>1, <2>2, <2>4
<1>3. BlocksAgree(s)'
  BY DEF SessionOK, BlocksAgree, Overwritten, Removed
<1> QED BY <1>2, <1>3

(* Of a session that another one's step has not touched.                   *)
LEMMA Untouched ==
  ASSUME NEW q \in Sessions, SessionOK(q),
         object'[q] = object[q], levels'[q] = levels[q],
         pending'[q] = pending[q], doing'[q] = doing[q],
         UNCHANGED <<rows, trail, stray>>,
         \A r \in Rows : Unborn(q, r) =>
           \A s \in Sessions \ {q} : object'[s][r].state = "absent"
  PROVE  SessionOK(q)'
<1>1. DoingOK(q)'
  BY SMTT(30) DEF SessionOK, DoingOK
<1>2. ASSUME NEW r \in Rows PROVE ObjectOK(q, r)'
  BY DEF SessionOK, ObjectOK, Known, Has, Here, Top, Deleting, Unborn
<1>3. \A i : Entries(q, i)' = Entries(q, i)
  BY DEF Entries, Coming, Top, EntriesOf
<1>4. ASSUME NEW i \in DOMAIN levels[q]
      PROVE  LevelOK(q, i)' /\ EntriesOK(q, i)' /\ BlockTells(q, i)'
  <2>1. LevelOK(q, i)'
    BY <1>4 DEF SessionOK, LevelOK, Known, Has
  <2>2. EntriesOK(q, i)'
    BY <1>3, <1>4 DEF SessionOK, EntriesOK, Known, Has
  <2>3. Seen(levels[q][i])' = Seen(levels[q][i])
    BY DEF Seen
  <2>4. BlockTells(q, i)'
    BY <1>3, <1>4, <2>3 DEF SessionOK, BlockTells
  <2> QED BY <2>1, <2>2, <2>4
<1>5. BlocksAgree(q)'
  BY DEF SessionOK, BlocksAgree, Overwritten, Removed
<1>6. RemovedStay(q)'
  BY DEF SessionOK, RemovedStay, Top
<1>7. ClaimsOK(q)'
  <2>1. \A i \in DOMAIN levels[q] : Seen(levels[q][i])' = Seen(levels[q][i])
    BY DEF Seen
  <2>2. /\ \A i, k, r : Overwritten(q, i, k, r)' <=> Overwritten(q, i, k, r)
        /\ \A i, k, r : Removed(q, i, k, r)' <=> Removed(q, i, k, r)
        /\ Top(q)' = Top(q) /\ ClaimsOK(q)
    BY DEF SessionOK, Overwritten, Removed, Top
  <2> QED BY <2>1, <2>2 DEF ClaimsOK
<1> QED BY <1>1, <1>2, <1>4, <1>5, <1>6, <1>7 DEF SessionOK

(***************************************************************************)
(* Steps that write nothing                                                *)
(***************************************************************************)

LEMMA Begun ==
  ASSUME Types, NEW s \in Sessions, DoingOK(s), doing[s].step # "done"
  PROVE  /\ Top(s) \in Nat \ {0} /\ Top(s) \in DOMAIN levels[s]
         /\ Here(s) = levels[s][Top(s)] /\ Here(s) \in Levels
         /\ DOMAIN levels[s] = 1 .. Top(s)
<1>1. levels[s] \in Seq(Levels) /\ levels[s] # <<>>
  BY DEF Types, DoingOK
<1>2. Len(levels[s]) \in Nat \ {0}
  BY <1>1, EmptySeq
<1> QED BY <1>1, <1>2 DEF Top, Here

(* What a query finds is what each block finds that has not written it.    *)
LEMMA FoundIsTrue ==
  ASSUME Types, NEW s \in Sessions, SessionOK(s), doing[s].step # "done",
         NEW i \in DOMAIN levels[s], NEW r \in Rows,
         ~Overwritten(s, i, Top(s), r), Stored(s)[r] # None
  PROVE  Seen(levels[s][i])[r] = Stored(s)[r]
<1>1. /\ Top(s) \in Nat \ {0} /\ Here(s) = levels[s][Top(s)]
      /\ DOMAIN levels[s] = 1 .. Top(s)
  BY Begun DEF SessionOK
<1>2. ASSUME Removed(s, i, Top(s), r) PROVE FALSE
  <2>1. PICK j \in i + 1 .. Top(s) : r \in levels[s][j].removed
    BY <1>2 DEF Removed
  <2>2. j \in DOMAIN levels[s] /\ Top(s) \in j .. Top(s)
    BY <1>1, <2>1
  <2>3. r \in DOMAIN Here(s).rows /\ Here(s).rows[r] = None
    BY <1>1, <2>1, <2>2 DEF SessionOK, RemovedStay
  <2> QED BY <2>3 DEF Stored, Seen
<1>3. CASE i = Top(s)
  BY <1>1, <1>3 DEF Stored
<1>4. CASE i # Top(s)
  <2>1. i < Top(s) /\ Top(s) \in DOMAIN levels[s]
    BY <1>1, <1>4
  <2>2. /\ r \in DOMAIN levels[s][i].rows <=> r \in DOMAIN levels[s][Top(s)].rows
        /\ r \in DOMAIN levels[s][i].rows =>
             levels[s][i].rows[r] = levels[s][Top(s)].rows[r]
    BY <1>2, <2>1 DEF SessionOK, BlocksAgree
  <2> QED BY <1>1, <2>2 DEF Stored, Seen
<1> QED BY <1>3, <1>4

Believed(o, p) ==
  /\ p.base = o.base /\ p.wasGone = o.wasGone
  /\ p.state \in {"persistent", "doomed"} => o.state \in {"persistent", "doomed"}
  /\ p.state = "deleted" <=> o.state = "deleted"

LEMMA WithoutWriting ==
  ASSUME IInv, Types', NEW s \in Sessions, UNCHANGED <<rows, trail, stray, levels>>,
         \A q \in Sessions \ {s} : /\ object'[q] = object[q] /\ pending'[q] = pending[q]
                                   /\ doing'[q] = doing[q],
         \A q \in Sessions \ {s}, r \in Rows : Unborn(q, r) => object'[s][r].state = "absent",
         doing[s].step \notin {"recording", "done"},
         doing'[s].step \notin {"recording", "done"},
         DoingOK(s)', \A r \in Rows : ObjectOK(s, r)',
         \A r \in Rows :
           \/ Believed(object[s][r], object'[s][r])
           \/ /\ object'[s][r].state = "persistent" /\ Stored(s)[r] # None
              /\ Stored(s)[r] = [value |-> object'[s][r].base,
                                 deleted |-> object'[s][r].wasGone]
  PROVE  IInv'
<1>1. Types /\ SessionOK(s)
  BY DEF IInv
<1>2. ASSUME NEW q \in Sessions, q # s PROVE SessionOK(q)'
  <2>1. \A r \in Rows : Unborn(q, r) => \A t \in Sessions \ {q} : object'[t][r].state = "absent"
    BY <1>2 DEF IInv, SessionOK, ObjectOK
  <2> QED BY <1>2, <2>1, Untouched DEF IInv
<1>3. /\ \A i \in DOMAIN levels'[s] : LevelOK(s, i)' /\ EntriesOK(s, i)' /\ BlockTells(s, i)'
      /\ BlocksAgree(s)'
  BY <1>1, SameBlocks
<1>4. /\ Top(s) \in Nat \ {0} /\ DOMAIN levels[s] = 1 .. Top(s)
      /\ \A i \in DOMAIN levels[s] : levels[s][i].removed \subseteq Rows
                                     /\ levels[s][i].claimed \subseteq Rows
  <2>1. Top(s) \in Nat \ {0} /\ DOMAIN levels[s] = 1 .. Top(s)
    BY <1>1, Begun DEF SessionOK
  <2>2. \A i \in DOMAIN levels[s] : levels[s][i] \in Levels
    BY <1>1 DEF Types
  <2> QED BY <2>1, <2>2 DEF Levels
<1>5. ASSUME NEW r \in Rows, NEW j \in DOMAIN levels[s], r \in levels[s][j].removed
      PROVE  object'[s][r].state = "deleted"
  <2>1. /\ object[s][r].state = "deleted" /\ Top(s) \in j .. Top(s)
        /\ \A k \in j .. Top(s) : r \in DOMAIN levels[s][k].rows /\ levels[s][k].rows[r] = None
    BY <1>1, <1>4, <1>5 DEF SessionOK, RemovedStay
  <2>2. Stored(s)[r] = None
    BY <2>1 DEF Stored, Here, Seen
  <2> QED BY <2>1, <2>2 DEF Believed
<1>6. RemovedStay(s)'
  BY <1>1, <1>4, <1>5 DEF SessionOK, RemovedStay, Top
<1>7. ClaimsOK(s)'
  <2>1. /\ \A i \in DOMAIN levels[s] : Seen(levels[s][i])' = Seen(levels[s][i])
        /\ \A i, k, r : Overwritten(s, i, k, r)' <=> Overwritten(s, i, k, r)
        /\ \A i, k, r : Removed(s, i, k, r)' <=> Removed(s, i, k, r)
        /\ Top(s)' = Top(s) /\ ClaimsOK(s)
    BY <1>1 DEF SessionOK, Seen, Overwritten, Removed, Top
  <2>2. ASSUME NEW i \in DOMAIN levels[s], NEW r \in levels[s][i].claimed,
               ~Overwritten(s, i, Top(s), r),
               \/ object'[s][r].state \in {"persistent", "doomed"}
               \/ object'[s][r].state = "deleted" /\ Removed(s, i, Top(s), r)
        PROVE  Seen(levels[s][i])[r] = [value |-> object'[s][r].base,
                                        deleted |-> object'[s][r].wasGone]
    <3>1. r \in Rows
      BY <1>4
    <3>2. CASE Believed(object[s][r], object'[s][r])
      BY <2>1, <2>2, <3>2 DEF ClaimsOK, Believed
    <3>3. CASE /\ object'[s][r].state = "persistent" /\ Stored(s)[r] # None
               /\ Stored(s)[r] = [value |-> object'[s][r].base,
                                  deleted |-> object'[s][r].wasGone]
      BY <1>1, <2>2, <3>1, <3>3, FoundIsTrue
    <3> QED BY <3>1, <3>2, <3>3
  <2> QED BY <2>1, <2>2 DEF ClaimsOK
<1>8. SessionOK(s)'
  BY <1>3, <1>6, <1>7 DEF SessionOK
<1>9. LocksApart'
  BY DEF IInv, LocksApart
<1>10. RowsTold'
  BY DEF IInv, RowsTold, TellsOf
<1> QED BY <1>2, <1>8, <1>9, <1>10 DEF IInv

(* An instance of a session that is in no flush.                           *)
LEMMA Calm ==
  ASSUME Types, NEW s \in Sessions, SessionOK(s), NEW r \in Rows,
         doing[s].step \in {"idle", "saving"}
  PROVE  /\ object[s][r].state \notin {"pending", "doomed"}
         /\ object[s][r].state = "persistent" /\ object[s][r].gone => object[s][r].wasGone
<1>1. Deleting(s, r) => doing[s].step = "flushing"
  BY DEF Deleting
<1> QED BY <1>1 DEF SessionOK, ObjectOK

LEMMA SelectKeeps ==
  ASSUME IInv, NEW s \in Sessions, NEW set \in SUBSET Rows, Select(s, set)
  PROVE  IInv'
<1>1. /\ Types /\ SessionOK(s) /\ doing[s].step = "idle"
      /\ object' = [object EXCEPT ![s] = Fetch(s, set)]
      /\ \A r \in set : Stored(s)[r] # None
      /\ UNCHANGED <<rows, trail, stray, neglected, levels, pending, doing, unsaved, calls>>
  BY DEF Select, IInv
<1>2. /\ Here(s) \in Levels /\ Top(s) \in DOMAIN levels[s] /\ Here(s) = levels[s][Top(s)]
      /\ Stored(s) \in [Rows -> Row \cup {None}]
      /\ \A r \in Rows : Stored(s)[r] = IF r \in DOMAIN Here(s).rows THEN Here(s).rows[r]
                                                                     ELSE rows[r]
  BY <1>1, Begun, SeenRow DEF SessionOK, Stored, Types
<1>3. ASSUME NEW r \in Rows
      PROVE  \/ object'[s][r] = object[s][r]
             \/ /\ r \in set /\ object[s][r].state \in {"absent", "expired"}
                /\ Stored(s)[r] \in Row
                /\ object'[s][r] = [state |-> "persistent", id |-> TRUE,
                      value |-> Stored(s)[r].value, base |-> Stored(s)[r].value,
                      gone |-> Stored(s)[r].deleted, wasGone |-> Stored(s)[r].deleted]
  BY <1>1, <1>2 DEF Types, Fetch, Load
<1>10. \A q \in Sessions \ {s} : object'[q] = object[q]
  BY <1>1 DEF Types
<1>4. Types'
  <2>1. \A r \in Rows : object'[s][r] \in Instances
    <3>1. ASSUME NEW r \in Rows, Stored(s)[r] \in Row,
                 object'[s][r] = [state |-> "persistent", id |-> TRUE,
                      value |-> Stored(s)[r].value, base |-> Stored(s)[r].value,
                      gone |-> Stored(s)[r].deleted, wasGone |-> Stored(s)[r].deleted]
          PROVE  object'[s][r] \in Instances
      <4>1. Stored(s)[r].value \in Values /\ Stored(s)[r].deleted \in BOOLEAN
        BY <3>1 DEF Row
      <4> QED BY <3>1, <4>1 DEF Instances
    <3> QED BY <1>1, <1>3, <3>1 DEF Types
  <2>2. object' \in [Sessions -> [Rows -> Instances]]
    <3>1. Fetch(s, set) \in [Rows -> Instances]
      BY <1>1, <2>1 DEF Fetch, Types
    <3> QED BY <1>1, <3>1 DEF Types
  <2> QED BY <1>1, <2>2 DEF Types
<1>5. ASSUME NEW r \in Rows, object'[s][r] # object[s][r] PROVE r \in DOMAIN Here(s).rows \/ Known(r)
  <2>1. Stored(s)[r] # None
    BY <1>1, <1>3, <1>5
  <2>2. CASE r \notin DOMAIN Here(s).rows /\ r \notin stray
    BY <1>2, <2>1, <2>2 DEF IInv, RowsTold, TellsOf, Tells, Known, Has
  <2> QED BY <2>2 DEF Known
<1>6. ASSUME NEW r \in Rows PROVE ObjectOK(s, r)'
  <2>1. CASE object'[s][r] = object[s][r]
    BY <1>1, <1>10, <2>1 DEF SessionOK, ObjectOK, Known, Has, Here, Top, Deleting, Unborn
  <2>2. CASE object'[s][r] # object[s][r]
    <3>1. Stored(s)[r].value \in Values /\ Stored(s)[r].deleted \in BOOLEAN
      BY <1>3, <2>2 DEF Row
    <3>2. /\ object'[s][r].state = "persistent" /\ object'[s][r].id
          /\ object'[s][r].value \in Values /\ object'[s][r].base \in Values
          /\ object'[s][r].gone = object'[s][r].wasGone
      <4>1. object'[s][r] = [state |-> "persistent", id |-> TRUE,
                      value |-> Stored(s)[r].value, base |-> Stored(s)[r].value,
                      gone |-> Stored(s)[r].deleted, wasGone |-> Stored(s)[r].deleted]
        BY <1>3, <2>2
      <4> QED BY <3>1, <4>1
    <3>3. Known(r)' \/ r \in DOMAIN Here(s)'.rows
      BY <1>1, <1>5, <2>2 DEF Known, Has, Here, Top
    <3> QED BY <3>2, <3>3 DEF ObjectOK, Unborn
  <2> QED BY <2>1, <2>2
<1>7. DoingOK(s)'
  BY <1>1 DEF SessionOK, DoingOK
<1>8. ASSUME NEW q \in Sessions \ {s}, NEW r \in Rows, Unborn(q, r)
      PROVE  object'[s][r].state = "absent"
  <2>1. object[s][r].state = "absent" /\ rows[r] = None
    BY <1>8 DEF IInv, SessionOK, ObjectOK
  <2>2. r \notin DOMAIN Here(s).rows
    BY <1>1, <1>2, <2>1 DEF SessionOK, ObjectOK, LevelOK
  <2>3. Stored(s)[r] = None
    BY <1>2, <2>1, <2>2
  <2> QED BY <1>1, <1>3, <2>1, <2>3
<1>9. \A r \in Rows :
        \/ Believed(object[s][r], object'[s][r])
        \/ /\ object'[s][r].state = "persistent" /\ Stored(s)[r] # None
           /\ Stored(s)[r] = [value |-> object'[s][r].base,
                              deleted |-> object'[s][r].wasGone]
  <2>1. ASSUME NEW x \in Row PROVE x = [value |-> x.value, deleted |-> x.deleted] /\ x # None
    BY NoneAssumption DEF Row
  <2>2. ASSUME NEW r \in Rows, object'[s][r] = object[s][r]
        PROVE  Believed(object[s][r], object'[s][r])
    BY <2>2 DEF Believed
  <2>3. ASSUME NEW r \in Rows, Stored(s)[r] \in Row,
               object'[s][r] = [state |-> "persistent", id |-> TRUE,
                      value |-> Stored(s)[r].value, base |-> Stored(s)[r].value,
                      gone |-> Stored(s)[r].deleted, wasGone |-> Stored(s)[r].deleted]
        PROVE  /\ object'[s][r].state = "persistent" /\ Stored(s)[r] # None
               /\ Stored(s)[r] = [value |-> object'[s][r].base,
                                  deleted |-> object'[s][r].wasGone]
    BY <2>1, <2>3
  <2> QED BY <1>3, <2>2, <2>3
<1> QED BY <1>1, <1>4, <1>6, <1>7, <1>8, <1>9, <1>10, WithoutWriting

LEMMA NewKeeps ==
  ASSUME IInv, NEW s \in Sessions, NEW r \in Rows, New(s, r)
  PROVE  IInv'
<1>1. PICK v \in Values : object' = [object EXCEPT ![s][r] =
                            [Absent EXCEPT !.state = "transient", !.value = v]]
  BY DEF New
<1>2. /\ Types /\ SessionOK(s) /\ doing[s].step = "idle" /\ calls' \in 0 .. MaxCalls
      /\ \A q \in Sessions : object[q][r].state = "absent"
      /\ rows[r] = None /\ ~Has(trail, r) /\ r \notin Old
      /\ UNCHANGED <<rows, trail, stray, neglected, levels, pending, doing, unsaved>>
  BY ModelAssumption DEF New, Call, IInv, Types, Has
<1>3. /\ object'[s][r] = [state |-> "transient", id |-> FALSE, value |-> v, base |-> None,
                          gone |-> FALSE, wasGone |-> FALSE]
      /\ \A x \in Rows \ {r} : object'[s][x] = object[s][x]
      /\ \A q \in Sessions \ {s} : object'[q] = object[q]
  BY <1>1, <1>2 DEF Types, Absent
<1>4. Types'
  BY <1>1, <1>2, <1>3 DEF Types, Instances, Absent
<1>5. ASSUME NEW x \in Rows PROVE ObjectOK(s, x)'
  <2>1. CASE x = r
    BY <1>2, <1>3, <2>1 DEF SessionOK, ObjectOK, LevelOK, Has, Unborn
  <2>2. CASE x # r
    BY <1>2, <1>3, <2>2 DEF SessionOK, ObjectOK, Known, Has, Here, Top, Deleting, Unborn
  <2> QED BY <2>1, <2>2
<1>6. DoingOK(s)'
  BY <1>2 DEF SessionOK, DoingOK
<1>7. \A q \in Sessions \ {s}, x \in Rows : Unborn(q, x) => object'[s][x].state = "absent"
  BY <1>2, <1>3 DEF IInv, SessionOK, ObjectOK, Unborn
<1>8. \A x \in Rows : Believed(object[s][x], object'[s][x])
  <2>1. object[s][r] = Absent
    BY <1>2 DEF SessionOK, ObjectOK
  <2>2. Believed(object[s][r], object'[s][r])
    BY <1>3, <2>1 DEF Believed, Absent
  <2>3. \A x \in Rows \ {r} : Believed(object[s][x], object'[s][x])
    BY <1>3 DEF Believed
  <2> QED BY <2>2, <2>3
<1> QED BY <1>2, <1>3, <1>4, <1>5, <1>6, <1>7, <1>8, WithoutWriting

(* One instance that the session has changes, in no flush.                 *)
LEMMA OneInstance ==
  ASSUME IInv, Types', NEW s \in Sessions, NEW r \in Rows, NEW p \in Instances,
         doing[s].step \in {"idle", "saving"}, object[s][r].state # "absent",
         object' = [object EXCEPT ![s][r] = p], Believed(object[s][r], p),
         UNCHANGED <<rows, trail, stray, levels>>,
         \A q \in Sessions \ {s} : pending'[q] = pending[q] /\ doing'[q] = doing[q],
         doing'[s].step \notin {"recording", "done"}, DoingOK(s)', ObjectOK(s, r)'
  PROVE  IInv'
<1>1. /\ Types /\ SessionOK(s) /\ object'[s][r] = p
      /\ \A x \in Rows \ {r} : object'[s][x] = object[s][x]
      /\ \A q \in Sessions \ {s} : object'[q] = object[q]
  BY DEF IInv, Types
<1>2. ASSUME NEW x \in Rows PROVE ObjectOK(s, x)'
  <2>1. CASE x # r
    <3>1. /\ object[s][x].state \notin {"pending", "doomed"}
          /\ object[s][x].state = "persistent" /\ object[s][x].gone => object[s][x].wasGone
          /\ object'[s][x] = object[s][x]
      BY <1>1, <2>1, Calm
    <3>2. (Known(x) <=> Known(x)') /\ Here(s)' = Here(s)
      BY DEF Known, Has, Here, Top
    <3>3. Unborn(s, x)' <=> Unborn(s, x)
      BY <3>1 DEF Unborn
    <3>4. ObjectOK(s, x)
      BY <1>1 DEF SessionOK
    <3> QED BY <1>1, <3>1, <3>2, <3>3, <3>4 DEF ObjectOK, Has
  <2> QED BY <2>1
<1>3. \A q \in Sessions \ {s}, x \in Rows : Unborn(q, x) => object'[s][x].state = "absent"
  BY <1>1 DEF IInv, SessionOK, ObjectOK
<1>4. \A x \in Rows : Believed(object[s][x], object'[s][x])
  BY <1>1 DEF Believed
<1> QED BY <1>1, <1>2, <1>3, <1>4, WithoutWriting

(* save() and restore() begin.                                             *)
LEMMA Starts ==
  ASSUME IInv, NEW s \in Sessions, NEW r \in Rows, NEW p \in Instances,
         doing[s].step = "idle", object[s][r].state \in {"transient", "persistent"},
         object' = [object EXCEPT ![s][r] = p],
         Believed(object[s][r], p), p.state = object[s][r].state, p.id = object[s][r].id,
         p.value = object[s][r].value, p.gone => object[s][r].gone,
         StartSave(s, r), Call,
         UNCHANGED <<rows, trail, stray, neglected, levels, pending, unsaved>>
  PROVE  IInv'
<1>1. /\ Types /\ SessionOK(s) /\ object'[s][r] = p
      /\ \A q \in Sessions \ {s} : object'[q] = object[q]
      /\ object[s][r].id \in BOOLEAN
  BY DEF IInv, Types, Instances
<1>2. /\ doing'[s] = [step |-> "saving", row |-> r,
                      how |-> IF object[s][r].id THEN "update" ELSE "create"]
      /\ \A q \in Sessions \ {s} : doing'[q] = doing[q]
      /\ doing' \in [Sessions -> [step : Stages, row : Rows \cup {None},
                                  how : Kinds \cup {None}]]
      /\ calls' \in 0 .. MaxCalls
  BY <1>1, ModelAssumption DEF StartSave, Types, Stages, Kinds, Call
<1>3. Types'
  BY <1>1, <1>2 DEF Types
<1>4. object[s][r].state = "persistent" => object[s][r].id
  BY <1>1 DEF SessionOK, ObjectOK
<1>5. DoingOK(s)'
  <2>1. levels[s] # <<>>
    BY <1>1 DEF SessionOK, DoingOK
  <2>2. doing'[s].step = "saving" /\ doing'[s].row = r
        /\ doing'[s].how = IF object[s][r].id THEN "update" ELSE "create"
    BY <1>2
  <2> QED BY <1>1, <1>4, <2>1, <2>2 DEF DoingOK, Kinds
<1>6. ObjectOK(s, r)'
  <2>1. /\ (Known(r) <=> Known(r)') /\ Here(s)' = Here(s)
        /\ object[s][r].state = "persistent" /\ object[s][r].gone => object[s][r].wasGone
        /\ p.wasGone = object[s][r].wasGone /\ p.base = object[s][r].base
    BY <1>1, Calm DEF Known, Has, Here, Top, Believed
  <2>2. Unborn(s, r)' <=> Unborn(s, r)
    BY <1>1 DEF Unborn
  <2>3. ObjectOK(s, r)
    BY <1>1 DEF SessionOK
  <2> QED BY <1>1, <2>1, <2>2, <2>3 DEF ObjectOK, Has
<1>7. doing'[s].step \notin {"recording", "done"} /\ object[s][r].state # "absent"
  BY <1>2
<1> QED BY <1>2, <1>3, <1>5, <1>6, <1>7, OneInstance

LEMMA SaveKeeps ==
  ASSUME IInv, NEW s \in Sessions, NEW r \in Rows, Save(s, r)
  PROVE  IInv'
<1>1. object[s][r] \in Instances /\ object' = [object EXCEPT ![s][r] = object[s][r]]
  BY DEF IInv, Types, Save
<1>2. Believed(object[s][r], object[s][r])
  BY DEF Believed
<1> QED BY <1>1, <1>2, Starts DEF Save

LEMMA RestoreKeeps ==
  ASSUME IInv, NEW s \in Sessions, NEW r \in Rows, Restore(s, r)
  PROVE  IInv'
<1>1. PICK p : p = [object[s][r] EXCEPT !.gone = FALSE]
  OBVIOUS
<1>2. /\ p \in Instances /\ p.state = object[s][r].state /\ p.id = object[s][r].id
      /\ p.value = object[s][r].value /\ p.gone = FALSE
      /\ p.base = object[s][r].base /\ p.wasGone = object[s][r].wasGone
  <2>1. object[s][r] \in Instances
    BY DEF IInv, Types
  <2> QED BY <1>1, <2>1 DEF Instances
<1>3. object' = [object EXCEPT ![s][r] = p]
  BY <1>1 DEF Restore
<1>4. Believed(object[s][r], p)
  BY <1>2 DEF Believed
<1> QED BY <1>2, <1>3, <1>4, Starts DEF Restore

LEMMA AssignKeeps ==
  ASSUME IInv, NEW s \in Sessions, NEW r \in Rows, NEW v \in Values, Assign(s, r, v)
  PROVE  IInv'
<1>1. PICK p : p = [object[s][r] EXCEPT !.value = v]
  OBVIOUS
<1>2. /\ p \in Instances /\ p.state = object[s][r].state /\ p.id = object[s][r].id
      /\ p.value = v /\ p.gone = object[s][r].gone
      /\ p.base = object[s][r].base /\ p.wasGone = object[s][r].wasGone
      /\ Types /\ SessionOK(s)
  <2>1. object[s][r] \in Instances
    BY DEF IInv, Types
  <2> QED BY <1>1, <2>1 DEF Instances, IInv
<1>3. /\ object' = [object EXCEPT ![s][r] = p] /\ calls' \in 0 .. MaxCalls
      /\ unsaved' = [unsaved EXCEPT ![s] = unsaved[s] \cup {r}]
      /\ UNCHANGED <<rows, trail, stray, neglected, levels, pending, doing>>
      /\ doing[s].step \in {"idle", "saving"} /\ object[s][r].state \in {"transient", "persistent"}
  BY <1>1, <1>2, ModelAssumption DEF Assign, Call, Types
<1>4. Believed(object[s][r], p)
  BY <1>2 DEF Believed
<1>5. Types'
  BY <1>2, <1>3 DEF Types
<1>6. object'[s][r] = p /\ \A x \in Rows \ {r} : object'[s][x] = object[s][x]
      /\ \A q \in Sessions \ {s} : object'[q] = object[q]
  BY <1>2, <1>3 DEF Types
<1>7. DoingOK(s)'
  <2>1. CASE doing[s].row \in Rows
    <3>1. /\ object'[s][doing[s].row].state = object[s][doing[s].row].state
          /\ object'[s][doing[s].row].id = object[s][doing[s].row].id
      BY <1>2, <1>6, <2>1
    <3> QED BY <1>2, <1>3, <3>1 DEF SessionOK, DoingOK
  <2>2. CASE doing[s].row \notin Rows
    <3>1. doing[s].step = "idle"
      BY <1>2, <1>3, <2>2 DEF SessionOK, DoingOK
    <3> QED BY <1>2, <1>3, <3>1 DEF SessionOK, DoingOK
  <2> QED BY <2>1, <2>2
<1>8. ObjectOK(s, r)'
  <2>1. /\ (Known(r) <=> Known(r)') /\ Here(s)' = Here(s)
        /\ object[s][r].state = "persistent" /\ object[s][r].gone => object[s][r].wasGone
    BY <1>2, <1>3, Calm DEF Known, Has, Here, Top
  <2>2. Unborn(s, r)' <=> Unborn(s, r)
    BY <1>2, <1>6 DEF Unborn
  <2>3. ObjectOK(s, r)
    BY <1>2 DEF SessionOK
  <2> QED BY <1>2, <1>3, <1>6, <2>1, <2>2, <2>3 DEF ObjectOK, Has
<1> QED BY <1>2, <1>3, <1>4, <1>5, <1>7, <1>8, OneInstance

LEMMA PrepareKeeps ==
  ASSUME IInv, NEW s \in Sessions, Prepare(s)
  PROVE  IInv'
<1> PICK r : r = doing[s].row
  OBVIOUS
<1> PICK o : o = object[s][r]
  OBVIOUS
<1>1. /\ Types /\ SessionOK(s) /\ DoingOK(s) /\ doing[s].step = "saving"
      /\ UNCHANGED <<rows, trail, stray, neglected, levels, unsaved, calls>>
      /\ IF doing[s].how = "update" THEN Updating(s, r) ELSE UNCHANGED pending
  BY DEF IInv, Prepare, SessionOK
<1>2. /\ r \in Rows /\ o \in Instances /\ o.value \in Values /\ o.state \in {"transient", "persistent"}
      /\ \/ doing[s].how = "create" /\ o.state = "transient" /\ ~o.id
         \/ doing[s].how = "update" /\ o.id /\ o.base \in Values
      /\ doing[s] \in [step : Stages, row : Rows \cup {None}, how : Kinds \cup {None}]
      /\ ObjectOK(s, r) /\ o.id \in BOOLEAN
  <2>1. r \in Rows
    BY <1>1 DEF DoingOK
  <2>2. ObjectOK(s, r) /\ o \in Instances
    BY <1>1, <2>1 DEF SessionOK, Types
  <2>3. o.id \in BOOLEAN
    BY <2>2 DEF Instances
  <2> QED BY <1>1, <2>1, <2>2, <2>3 DEF DoingOK, ObjectOK, Types
<1>3. /\ pending' \in [Sessions -> [Rows -> Diff \cup {None}]]
      /\ \A q \in Sessions \ {s} : pending'[q] = pending[q]
      /\ doing[s].how = "update" =>
           pending'[s][r] = IF o.value = o.base THEN None ELSE [old |-> o.base, new |-> o.value]
  <2>1. CASE doing[s].how = "update"
    <3>1. pending' = [pending EXCEPT ![s][r] =
            IF o.value = o.base THEN None ELSE [old |-> o.base, new |-> o.value]]
      BY <1>1, <2>1 DEF Updating
    <3>2. (IF o.value = o.base THEN None ELSE [old |-> o.base, new |-> o.value]) \in Diff \cup {None}
      BY <1>2, <2>1 DEF Diff
    <3> QED BY <1>1, <1>2, <3>1, <3>2 DEF Types
  <2>2. CASE doing[s].how # "update"
    BY <1>1, <2>2 DEF Types
  <2> QED BY <2>1, <2>2
<1>4. CASE ~IsValid(s, r)
  <2>1. doing' = [doing EXCEPT ![s] = Idle] /\ object' = object
    BY <1>4 DEF Prepare
  <2>2. /\ doing'[s] = [step |-> "idle", row |-> None, how |-> None]
        /\ \A q \in Sessions \ {s} : doing'[q] = doing[q]
        /\ doing' \in [Sessions -> [step : Stages, row : Rows \cup {None}, how : Kinds \cup {None}]]
    BY <1>1, <2>1 DEF Types, Idle, Stages
  <2>3. Types'
    BY <1>1, <1>3, <2>1, <2>2 DEF Types
  <2>4. object' = [object EXCEPT ![s][r] = o] /\ Believed(o, o)
    BY <1>1, <1>2, <2>1 DEF Types, Believed
  <2>5. DoingOK(s)'
    BY <1>1, <2>2 DEF DoingOK, Idle
  <2>6. ObjectOK(s, r)'
    <3>1. /\ (Known(r) <=> Known(r)') /\ Here(s)' = Here(s)
          /\ o.state = "persistent" /\ o.gone => o.wasGone
      BY <1>1, <1>2, Calm DEF Known, Has, Here, Top
    <3>2. Unborn(s, r)' <=> Unborn(s, r)
      BY <2>1 DEF Unborn
    <3> QED BY <1>1, <1>2, <2>1, <3>1, <3>2 DEF ObjectOK, Has
  <2>7. doing'[s].step \notin {"recording", "done"} /\ o.state # "absent"
    BY <1>2, <2>2
  <2> QED BY <1>1, <1>2, <1>3, <2>2, <2>3, <2>4, <2>5, <2>6, <2>7, OneInstance
<1>5. CASE IsValid(s, r)
  <2>1. PICK p : p = [o EXCEPT !.state = IF o.state = "transient" THEN "pending" ELSE o.state]
    OBVIOUS
  <2>2. /\ p \in Instances /\ p.id = o.id /\ p.value = o.value /\ p.base = o.base
        /\ p.gone = o.gone /\ p.wasGone = o.wasGone
        /\ p.state = IF o.state = "transient" THEN "pending" ELSE "persistent"
    <3> QED BY <1>2, <2>1 DEF Instances
  <2>3. /\ object' = [object EXCEPT ![s][r] = p]
        /\ doing' = [doing EXCEPT ![s].step = "flushing"]
    BY <1>1, <1>2, <1>5, <2>1 DEF Prepare, Types
  <2>4. /\ doing'[s].step = "flushing" /\ doing'[s].row = r /\ doing'[s].how = doing[s].how
        /\ \A q \in Sessions \ {s} : doing'[q] = doing[q]
        /\ doing' \in [Sessions -> [step : Stages, row : Rows \cup {None}, how : Kinds \cup {None}]]
        /\ object'[s][r] = p
        /\ object' \in [Sessions -> [Rows -> Instances]]
        /\ \A q \in Sessions \ {s} : object'[q] = object[q]
    BY <1>1, <1>2, <2>2, <2>3 DEF Types, Stages
  <2>5. Types'
    BY <1>1, <1>3, <2>4 DEF Types
  <2>6. DoingOK(s)'
    <3>1. levels[s] # <<>> /\ o.value \notin Invalid
      BY <1>1, <1>5 DEF DoingOK, IsValid
    <3> QED BY <1>1, <1>2, <1>3, <2>2, <2>4, <3>1, SMTT(30) DEF DoingOK, Kinds
  <2>7. ObjectOK(s, r)'
    <3>1. /\ (Known(r) <=> Known(r)') /\ Here(s)' = Here(s)
          /\ o.state = "persistent" /\ o.gone => o.wasGone
      BY <1>1, <1>2, Calm DEF Known, Has, Here, Top
    <3>2. Unborn(s, r)' => Unborn(s, r)
      BY <1>2, <2>2, <2>4 DEF Unborn
    <3>3. doing[s].how # "delete"
      BY <1>2
    <3>4. /\ Unborn(s, r) => /\ ~p.gone /\ rows[r] = None /\ ~Has(trail, r)
                             /\ \A i \in DOMAIN levels[s] : /\ r \notin DOMAIN levels[s][i].rows
                                                            /\ ~Has(levels[s][i].trail, r)
                             /\ \A q \in Sessions \ {s} : object[q][r].state = "absent"
      BY <1>2, <2>2 DEF ObjectOK
    <3>5. p.state = "persistent" => o.id /\ (Known(r) \/ r \in DOMAIN Here(s).rows)
      BY <1>2, <2>2 DEF ObjectOK
    <3>6. /\ object'[s][r] = p /\ doing'[s].step = "flushing" /\ doing'[s].row = r
          /\ doing'[s].how # "delete"
          /\ rows' = rows /\ trail' = trail /\ levels' = levels
      BY <1>1, <2>4, <3>3
    <3>7. p.value \in Values /\ (p.id => p.base \in Values)
      BY <1>2, <2>2
    <3>8. /\ p.state \in {"pending", "persistent"}
          /\ p.state = "persistent" /\ p.gone => p.wasGone
          /\ p.state = "pending" => r \notin Old
      BY <1>2, <2>2, <3>1 DEF ObjectOK
    <3>9. Unborn(s, r)' =>
            /\ ~p.gone /\ rows'[r] = None /\ ~Has(trail, r)'
            /\ \A i \in DOMAIN levels'[s] : /\ r \notin DOMAIN levels'[s][i].rows
                                            /\ ~Has(levels[s][i].trail, r)'
            /\ \A q \in Sessions \ {s} : object'[q][r].state = "absent"
      BY <2>4, <3>2, <3>4, <3>6 DEF Has
    <3>10. p.state = "persistent" => p.id /\ (Known(r)' \/ r \in DOMAIN Here(s)'.rows)
      BY <2>2, <3>1, <3>5
    <3> QED BY <3>6, <3>7, <3>8, <3>9, <3>10 DEF ObjectOK
  <2>8. Believed(o, p) /\ o.state # "absent"
    BY <1>2, <2>2 DEF Believed
  <2>9. doing'[s].step \notin {"recording", "done"}
    BY <2>4
  <2>10. UNCHANGED <<rows, trail, stray, levels>> /\ doing[s].step \in {"idle", "saving"}
    BY <1>1
  <2>11. \A q \in Sessions \ {s} : pending'[q] = pending[q] /\ doing'[q] = doing[q]
    BY <1>3, <2>4
  <2>12. /\ r \in Rows /\ p \in Instances /\ object' = [object EXCEPT ![s][r] = p]
         /\ Believed(object[s][r], p) /\ object[s][r].state # "absent"
    BY <1>2, <2>2, <2>3, <2>8
  <2> QED BY <2>5, <2>6, <2>7, <2>9, <2>10, <2>11, <2>12, OneInstance
<1> QED BY <1>4, <1>5

LEMMA DeleteKeeps ==
  ASSUME IInv, NEW s \in Sessions, NEW r \in Rows, Delete(s, r)
  PROVE  IInv'
<1> DEFINE o == object[s][r]
<1>1. /\ Types /\ SessionOK(s) /\ DoingOK(s) /\ doing[s].step = "idle" /\ o.state = "persistent"
      /\ doing' = [doing EXCEPT ![s] = [step |-> "flushing", row |-> r, how |-> "delete"]]
      /\ UNCHANGED <<rows, trail, stray, neglected, levels, pending, unsaved>>
      /\ calls' \in 0 .. MaxCalls /\ o \in Instances /\ ObjectOK(s, r)
  BY ModelAssumption DEF IInv, Delete, SessionOK, Call, Types
<1>2. PICK p : /\ object' = [object EXCEPT ![s][r] = p]
               /\ p = [o EXCEPT !.gone = TRUE] \/ p = [o EXCEPT !.state = "doomed"]
  <2>1. CASE object' = [object EXCEPT ![s][r].gone = TRUE]
    BY <2>1
  <2>2. CASE object' = [object EXCEPT ![s][r].state = "doomed"]
    BY <2>2
  <2> QED BY <2>1, <2>2 DEF Delete
<1>3. /\ p \in Instances /\ p.id = o.id /\ p.value = o.value /\ p.base = o.base
      /\ p.wasGone = o.wasGone
      /\ p.state = "doomed" \/ (p.state = "persistent" /\ p.gone)
  <2> HIDE DEF o
  <2> QED BY <1>1, <1>2 DEF Instances
<1>4. /\ doing'[s] = [step |-> "flushing", row |-> r, how |-> "delete"]
      /\ \A q \in Sessions \ {s} : doing'[q] = doing[q]
      /\ doing' \in [Sessions -> [step : Stages, row : Rows \cup {None}, how : Kinds \cup {None}]]
      /\ object'[s][r] = p
      /\ object' \in [Sessions -> [Rows -> Instances]]
      /\ \A q \in Sessions \ {s} : object'[q] = object[q]
  BY <1>1, <1>2, <1>3 DEF Types, Stages, Kinds
<1>5. Types'
  BY <1>1, <1>4 DEF Types
<1>6. /\ doing'[s].step = "flushing" /\ doing'[s].row = r /\ doing'[s].how = "delete"
      /\ Deleting(s, r)'
  BY <1>4 DEF Deleting
<1>7. DoingOK(s)'
  BY <1>1, <1>3, <1>4, <1>6 DEF DoingOK, Kinds
<1>8. ObjectOK(s, r)'
  <2>1. /\ (Known(r) <=> Known(r)') /\ Here(s)' = Here(s)
        /\ o.value \in Values /\ o.base \in Values /\ o.id
        /\ Known(r) \/ r \in DOMAIN Here(s).rows
        /\ o.gone => o.wasGone
    BY <1>1, Calm DEF Known, Has, Here, Top, ObjectOK
  <2>3. p.state = "doomed" => p.gone = o.gone
    <3> HIDE DEF o
    <3> QED BY <1>1, <1>2, <1>3 DEF Instances
  <2>2. ~Unborn(s, r)'
    BY <1>3, <1>4, <2>1 DEF Unborn
  <2> HIDE DEF o
  <2> QED BY <1>3, <1>4, <1>6, <2>1, <2>2, <2>3 DEF ObjectOK
<1>9. Believed(o, p) /\ o.state # "absent"
  BY <1>1, <1>3 DEF Believed
<1>10. doing'[s].step \notin {"recording", "done"}
  BY <1>6
<1> HIDE DEF o
<1> QED BY <1>1, <1>2, <1>3, <1>4, <1>5, <1>7, <1>8, <1>9, <1>10, OneInstance DEF o

(***************************************************************************)
(* Steps that write, of one session                                        *)
(***************************************************************************)

LEMMA OwnLocks ==
  ASSUME IInv, NEW s \in Sessions, NEW i \in DOMAIN levels[s], NEW r \in levels[s][i].locked
  PROVE  Free(s, r)
BY DEF IInv, LocksApart, Free

LEMMA OneSession ==
  ASSUME IInv, Types', NEW s \in Sessions, UNCHANGED <<rows, trail, stray>>,
         \A q \in Sessions \ {s} : /\ object'[q] = object[q] /\ levels'[q] = levels[q]
                                   /\ pending'[q] = pending[q] /\ doing'[q] = doing[q],
         \A r \in Rows : object[s][r].state = "absent" /\ rows[r] = None
                         /\ r \notin DOMAIN Here(s).rows => object'[s][r].state = "absent",
         doing[s].step # "done",
         \A i \in DOMAIN levels'[s] : \A r \in levels'[s][i].locked : Free(s, r),
         SessionOK(s)'
  PROVE  IInv'
<1>1. ASSUME NEW q \in Sessions, q # s PROVE SessionOK(q)'
  <2>1. ASSUME NEW r \in Rows, Unborn(q, r)
        PROVE  \A t \in Sessions \ {q} : object'[t][r].state = "absent"
    <3>1. /\ \A t \in Sessions \ {q} : object[t][r].state = "absent"
          /\ rows[r] = None
      BY <1>1, <2>1 DEF IInv, SessionOK, ObjectOK
    <3>2. Top(s) \in DOMAIN levels[s] /\ Here(s) = levels[s][Top(s)]
      BY Begun DEF IInv, SessionOK
    <3>3. r \notin DOMAIN Here(s).rows
      BY <1>1, <3>1, <3>2 DEF IInv, SessionOK, ObjectOK, LevelOK
    <3> QED BY <1>1, <3>1, <3>3
  <2> QED BY <1>1, <2>1, Untouched DEF IInv
<1>2. LocksApart'
  <2>1. ASSUME NEW q \in Sessions, NEW t \in Sessions, q # t,
               NEW i \in DOMAIN levels'[q], NEW k \in DOMAIN levels'[t]
        PROVE  levels'[q][i].locked \cap levels'[t][k].locked = {}
    <3>1. CASE q = s
      BY <2>1, <3>1 DEF Free
    <3>2. CASE t = s
      BY <2>1, <3>2 DEF Free
    <3>3. CASE q # s /\ t # s
      BY <2>1, <3>3 DEF IInv, LocksApart
    <3> QED BY <3>1, <3>2, <3>3
  <2> QED BY <2>1 DEF LocksApart
<1>3. RowsTold'
  BY DEF IInv, RowsTold, TellsOf
<1> QED BY <1>1, <1>2, <1>3 DEF IInv

(* The top block becomes another.                                          *)
LEMMA NewTop ==
  ASSUME Types, NEW s \in Sessions, DoingOK(s), doing[s].step # "done", NEW b \in Levels,
         levels' = [levels EXCEPT ![s][Top(s)] = b]
  PROVE  /\ levels' \in [Sessions -> Seq(Levels)]
         /\ \A q \in Sessions \ {s} : levels'[q] = levels[q]
         /\ DOMAIN levels'[s] = DOMAIN levels[s] /\ DOMAIN levels[s] = 1 .. Top(s)
         /\ Top(s) \in Nat \ {0} /\ Top(s) \in DOMAIN levels[s]
         /\ Top(s)' = Top(s) /\ Here(s)' = b /\ levels'[s][Top(s)] = b
         /\ Here(s) = levels[s][Top(s)] /\ Here(s) \in Levels
         /\ \A i \in DOMAIN levels[s] : i # Top(s) => levels'[s][i] = levels[s][i]
<1>1. /\ Top(s) \in Nat \ {0} /\ Top(s) \in DOMAIN levels[s]
      /\ Here(s) = levels[s][Top(s)] /\ Here(s) \in Levels
      /\ DOMAIN levels[s] = 1 .. Top(s) /\ levels[s] \in Seq(Levels)
      /\ Top(s) = Len(levels[s])
  BY Begun DEF Top, Types
<1>2. levels'[s] = [levels[s] EXCEPT ![Top(s)] = b]
      /\ \A q \in Sessions \ {s} : levels'[q] = levels[q]
  BY DEF Types
<1>3. /\ levels'[s] \in Seq(Levels) /\ Len(levels'[s]) = Top(s)
      /\ DOMAIN levels'[s] = DOMAIN levels[s] /\ levels'[s][Top(s)] = b
      /\ \A i \in DOMAIN levels[s] : i # Top(s) => levels'[s][i] = levels[s][i]
  BY <1>1, <1>2
<1>4. levels' \in [Sessions -> Seq(Levels)]
  BY <1>2, <1>3 DEF Types
<1>5. Top(s)' = Top(s) /\ Here(s)' = b
  BY <1>3 DEF Top, Here
<1> QED BY <1>1, <1>2, <1>3, <1>4, <1>5

(* An instance that the step has not touched.                              *)
LEMMA ObjectStays ==
  ASSUME NEW s \in Sessions, NEW r \in Rows, ObjectOK(s, r), UNCHANGED <<rows, trail, stray>>,
         \A q \in Sessions : object'[q][r] = object[q][r],
         object[s][r].state \notin {"pending", "doomed"},
         object[s][r].state = "persistent" /\ object[s][r].gone => object[s][r].wasGone,
         r \in DOMAIN Here(s).rows => Known(r) \/ r \in DOMAIN Here(s)'.rows,
         \A i \in DOMAIN levels'[s] : \E k \in DOMAIN levels[s] :
           /\ r \in levels'[s][i].locked => r \in levels[s][k].locked
           /\ r \in DOMAIN levels'[s][i].rows => r \in DOMAIN levels[s][k].rows
           /\ Has(levels[s][i].trail, r)' => Has(levels[s][k].trail, r)
  PROVE  ObjectOK(s, r)'
<1> PICK o : o = object[s][r]
  OBVIOUS
<1>1. /\ object'[s][r] = o /\ rows' = rows /\ (Known(r)' <=> Known(r))
      /\ (Has(trail, r)' <=> Has(trail, r)) /\ (Unborn(s, r)' <=> Unborn(s, r))
  BY DEF Known, Has, Unborn
<1>2. o.state \in {"transient", "persistent", "deleted"} =>
        /\ o.value \in Values /\ (o.id => o.base \in Values)
        /\ o.state = "transient" => r \notin Old
        /\ o.state = "deleted" /\ o.gone => o.wasGone
  BY DEF ObjectOK
<1>3. o.state \in {"persistent", "deleted"} => o.id /\ (Known(r)' \/ r \in DOMAIN Here(s)'.rows)
  BY <1>1 DEF ObjectOK
<1>4. o.state = "absent" =>
        /\ o = Absent
        /\ \A i \in DOMAIN levels'[s] :
             r \notin levels'[s][i].locked /\ ~Has(levels[s][i].trail, r)'
  BY DEF ObjectOK
<1>5. Unborn(s, r)' =>
        /\ ~o.gone /\ rows'[r] = None /\ ~Has(trail, r)'
        /\ \A i \in DOMAIN levels'[s] :
             r \notin DOMAIN levels'[s][i].rows /\ ~Has(levels[s][i].trail, r)'
        /\ \A q \in Sessions \ {s} : object'[q][r].state = "absent"
  BY <1>1 DEF ObjectOK
<1> QED BY <1>1, <1>2, <1>3, <1>4, <1>5 DEF ObjectOK

LEMMA Fields ==
  ASSUME Types, NEW s \in Sessions, NEW i \in DOMAIN levels[s]
  PROVE  /\ levels[s][i] \in Levels /\ levels[s][i].trail \in Seq(Entry)
         /\ levels[s][i].removed \subseteq Rows /\ levels[s][i].claimed \subseteq Rows
         /\ levels[s][i].locked \subseteq Rows
<1>1. levels[s][i] \in Levels
  BY DEF Types
<1> QED BY <1>1 DEF Levels

(* Of a session whose blocks have the same writes.                         *)
LEMMA SameWrites ==
  ASSUME Types, NEW s \in Sessions, SessionOK(s), doing[s].step # "done",
         rows' = rows, object'[s] = object[s], DOMAIN levels'[s] = DOMAIN levels[s],
         Top(s)' = Top(s),
         \A i \in DOMAIN levels[s] :
           /\ levels'[s][i].rows = levels[s][i].rows
           /\ levels'[s][i].inserted = levels[s][i].inserted
           /\ levels'[s][i].updated = levels[s][i].updated
           /\ levels'[s][i].removed = levels[s][i].removed
           /\ levels'[s][i].claimed = levels[s][i].claimed
  PROVE  BlocksAgree(s)' /\ RemovedStay(s)' /\ ClaimsOK(s)'
<1>1. DOMAIN levels[s] = 1 .. Top(s) /\ Top(s) \in Nat \ {0}
  BY Begun DEF SessionOK
<1>2. \A i, k \in DOMAIN levels[s] : \A j \in i + 1 .. k : j \in DOMAIN levels[s]
  BY <1>1
<1>3. /\ \A j \in DOMAIN levels[s] : \A k \in j .. Top(s) : k \in DOMAIN levels[s]
      /\ \A j \in DOMAIN levels[s] : \A k \in j + 1 .. Top(s) : k \in DOMAIN levels[s]
      /\ Top(s) \in DOMAIN levels[s]
  BY <1>1
<1>4. \A i, k \in DOMAIN levels[s] : \A y :
         /\ Overwritten(s, i, k, y)' <=> Overwritten(s, i, k, y)
         /\ Removed(s, i, k, y)' <=> Removed(s, i, k, y)
  BY <1>2 DEF Overwritten, Removed
<1>5. BlocksAgree(s)'
  BY <1>4 DEF SessionOK, BlocksAgree
<1>6. RemovedStay(s)'
  <2>1. ASSUME NEW j \in DOMAIN levels[s], NEW y \in levels[s][j].removed
        PROVE  /\ object'[s][y].state = "deleted"
               /\ \A k \in j .. Top(s) : y \in DOMAIN levels'[s][k].rows
                                        /\ levels'[s][k].rows[y] = None
               /\ \A k \in j + 1 .. Top(s) :
                    y \notin levels'[s][k].inserted \cup levels'[s][k].updated
                              \cup levels'[s][k].removed
    BY <1>3, <2>1 DEF SessionOK, RemovedStay
  <2> QED BY <2>1 DEF RemovedStay
<1>7. ClaimsOK(s)'
  <2>1. \A i \in DOMAIN levels[s] : Seen(levels[s][i])' = Seen(levels[s][i])
    BY DEF Seen
  <2>2. ASSUME NEW i \in DOMAIN levels[s], NEW y \in levels[s][i].claimed,
               ~Overwritten(s, i, Top(s), y),
               \/ object[s][y].state \in {"persistent", "doomed"}
               \/ object[s][y].state = "deleted" /\ Removed(s, i, Top(s), y)
        PROVE  Seen(levels[s][i])[y] = [value |-> object[s][y].base,
                                        deleted |-> object[s][y].wasGone]
    BY <2>2 DEF SessionOK, ClaimsOK
  <2>3. \A i \in DOMAIN levels'[s] : i \in DOMAIN levels[s] /\ levels'[s][i].claimed = levels[s][i].claimed
    OBVIOUS
  <2>4. ASSUME NEW i \in DOMAIN levels'[s], NEW y \in levels'[s][i].claimed,
               ~Overwritten(s, i, Top(s), y)',
               \/ object'[s][y].state \in {"persistent", "doomed"}
               \/ object'[s][y].state = "deleted" /\ Removed(s, i, Top(s), y)'
        PROVE  Seen(levels[s][i])'[y] = [value |-> object'[s][y].base,
                                         deleted |-> object'[s][y].wasGone]
    <3>1. i \in DOMAIN levels[s] /\ y \in levels[s][i].claimed /\ Top(s) \in DOMAIN levels[s]
      BY <1>3, <2>3, <2>4
    <3>2. /\ ~Overwritten(s, i, Top(s), y)
          /\ Removed(s, i, Top(s), y)' => Removed(s, i, Top(s), y)
      BY <1>4, <2>4, <3>1
    <3> QED BY <2>1, <2>2, <2>4, <3>1, <3>2
  <2> QED BY <2>4 DEF ClaimsOK
<1> QED BY <1>5, <1>6, <1>7

LEMMA FrontFacts ==
  ASSUME NEW S, NEW u \in Seq(S), u # <<>>
  PROVE  /\ Front(u) \in Seq(S) /\ Len(Front(u)) = Len(u) - 1
         /\ \A i \in 1 .. Len(u) - 1 : Front(u)[i] = u[i]
<1>1. Len(u) \in Nat \ {0}
  BY EmptySeq
<1>2. SubSeq(u, 1, Len(u) - 1) \in Seq(S)
  BY <1>1
<1>3. Len(SubSeq(u, 1, Len(u) - 1)) = Len(u) - 1
  <2>1. CASE Len(u) = 1
    BY <2>1, SubSeqEmpty
  <2>2. CASE Len(u) # 1
    <3> PICK n \in Nat \ {0} : Len(u) = n
      BY <1>1
    <3>1. n - 1 \in 1 .. n /\ n - 1 <= n
      BY <2>2
    <3> QED BY <3>1
  <2> QED BY <2>1, <2>2
<1>4. \A i \in 1 .. Len(u) - 1 : SubSeq(u, 1, Len(u) - 1)[i] = u[i]
  BY <1>1
<1> QED BY <1>1, <1>2, <1>3, <1>4 DEF Front

LEMMA ClaimKeeps ==
  ASSUME IInv, NEW s \in Sessions, NEW r \in Rows, Claim(s, r)
  PROVE  IInv'
<1>1. /\ Types /\ SessionOK(s) /\ DoingOK(s) /\ doing[s].step = "idle"
      /\ Stored(s)[r] # None /\ Free(s, r)
      /\ object' = [object EXCEPT ![s] = Refresh(s, r)]
      /\ UNCHANGED <<rows, trail, stray, neglected, pending, doing, unsaved, calls>>
  BY DEF Claim, IInv, SessionOK
<1>2. PICK b : b = [Here(s) EXCEPT !.locked = Here(s).locked \cup {r},
                                   !.claimed = Here(s).claimed \cup {r}]
  OBVIOUS
<1>3. /\ b \in Levels /\ b.rows = Here(s).rows /\ b.trail = Here(s).trail
      /\ b.inserted = Here(s).inserted /\ b.updated = Here(s).updated
      /\ b.removed = Here(s).removed /\ b.stray = Here(s).stray
      /\ b.locked = Here(s).locked \cup {r} /\ b.claimed = Here(s).claimed \cup {r}
  <2>1. Here(s) \in Levels
    BY <1>1, Begun
  <2> QED BY <1>2, <2>1 DEF Levels
<1>4. levels' = [levels EXCEPT ![s][Top(s)] = b]
  BY <1>2 DEF Claim
<1>5. /\ levels' \in [Sessions -> Seq(Levels)]
      /\ \A q \in Sessions \ {s} : levels'[q] = levels[q]
      /\ DOMAIN levels'[s] = DOMAIN levels[s] /\ DOMAIN levels[s] = 1 .. Top(s)
      /\ Top(s) \in Nat \ {0} /\ Top(s) \in DOMAIN levels[s]
      /\ Top(s)' = Top(s) /\ Here(s)' = b /\ levels'[s][Top(s)] = b
      /\ Here(s) = levels[s][Top(s)] /\ Here(s) \in Levels
      /\ \A i \in DOMAIN levels[s] : i # Top(s) => levels'[s][i] = levels[s][i]
  BY <1>1, <1>3, <1>4, NewTop
<1>6. PICK x : x = Stored(s)[r]
  OBVIOUS
<1>7. x \in Row /\ x.value \in Values /\ x.deleted \in BOOLEAN
      /\ x = [value |-> x.value, deleted |-> x.deleted]
  BY <1>1, <1>5, <1>6, SeenRow DEF Stored, Types, Row
<1>8. /\ object'[s][r] = [state |-> "persistent", id |-> TRUE, value |-> x.value,
                          base |-> x.value, gone |-> x.deleted, wasGone |-> x.deleted]
      /\ \A y \in Rows \ {r} : object'[s][y] = object[s][y]
      /\ \A q \in Sessions \ {s} : object'[q] = object[q]
      /\ object' \in [Sessions -> [Rows -> Instances]]
  <2>1. object'[s][r] = [state |-> "persistent", id |-> TRUE, value |-> x.value,
                          base |-> x.value, gone |-> x.deleted, wasGone |-> x.deleted]
        /\ \A y \in Rows \ {r} : object'[s][y] = object[s][y]
    BY <1>1, <1>6 DEF Refresh, Load, Types
  <2>2. object'[s][r] \in Instances
    BY <1>7, <2>1 DEF Instances
  <2>3. object'[s] = [object[s] EXCEPT ![r] = object'[s][r]]
    <3>1. PICK z : z = Load(object[s][r], Stored(s)[r])
      OBVIOUS
    <3>2. object'[s] = [object[s] EXCEPT ![r] = z]
      BY <1>1, <3>1 DEF Refresh, Types
    <3> QED BY <1>1, <3>2 DEF Types
  <2>4. object'[s] \in [Rows -> Instances]
    <3>1. PICK z \in Instances : object'[s] = [object[s] EXCEPT ![r] = z]
      BY <2>2, <2>3
    <3>2. object[s] \in [Rows -> Instances]
      BY <1>1 DEF Types
    <3> QED BY <3>1, <3>2
  <2> QED BY <1>1, <2>1, <2>4 DEF Types
<1>9. /\ object'[s][r].state = "persistent" /\ object'[s][r].id
      /\ object'[s][r].value = x.value /\ object'[s][r].base = x.value
      /\ object'[s][r].gone = x.deleted /\ object'[s][r].wasGone = x.deleted
  BY <1>8
<1>10. Types'
  BY <1>1, <1>5, <1>8 DEF Types
<1>11. r \in DOMAIN Here(s).rows \/ Known(r)
  <2>1. CASE r \notin DOMAIN Here(s).rows /\ r \notin stray
    <3>1. rows[r] # None
      BY <1>1, <2>1 DEF Stored, Seen
    <3> QED BY <2>1, <3>1 DEF IInv, RowsTold, TellsOf, Tells, Known, Has
  <2> QED BY <2>1 DEF Known
<1>12. \A i \in DOMAIN levels[s] :
         /\ levels'[s][i].rows = levels[s][i].rows /\ levels'[s][i].trail = levels[s][i].trail
         /\ levels'[s][i].inserted = levels[s][i].inserted
         /\ levels'[s][i].updated = levels[s][i].updated
         /\ levels'[s][i].removed = levels[s][i].removed
         /\ levels'[s][i].stray = levels[s][i].stray
         /\ levels'[s][i].locked = levels[s][i].locked \/ i = Top(s)
         /\ levels'[s][i].claimed = levels[s][i].claimed \/ i = Top(s)
         /\ Seen(levels[s][i])' = Seen(levels[s][i])
  BY <1>1, <1>3, <1>5 DEF Seen
<1>13. ASSUME NEW y \in Rows PROVE ObjectOK(s, y)'
  <2>1. CASE y = r
    <3>1. Known(r)' \/ r \in DOMAIN Here(s)'.rows
      BY <1>1, <1>3, <1>5, <1>11 DEF Known, Has
    <3> QED BY <1>7, <1>9, <2>1, <3>1 DEF ObjectOK, Unborn
  <2>2. CASE y # r
    <3>1. /\ \A q \in Sessions : object'[q][y] = object[q][y]
          /\ ObjectOK(s, y) /\ object[s][y].state \notin {"pending", "doomed"}
          /\ object[s][y].state = "persistent" /\ object[s][y].gone => object[s][y].wasGone
      BY <1>1, <1>8, <2>2, Calm DEF SessionOK
    <3>2. \A i \in DOMAIN levels'[s] :
            /\ y \in levels'[s][i].locked => y \in levels[s][i].locked
            /\ Has(levels[s][i].trail, y)' => Has(levels[s][i].trail, y)
            /\ levels'[s][i].rows = levels[s][i].rows
      BY <1>3, <1>5, <1>12, <2>2 DEF Has
    <3>3. DOMAIN Here(s)'.rows = DOMAIN Here(s).rows
      BY <1>3, <1>5
    <3> QED BY <1>1, <1>5, <3>1, <3>2, <3>3, ObjectStays
  <2> QED BY <2>1, <2>2
<1>14. DoingOK(s)'
  BY <1>1, <1>5, SMTT(30) DEF DoingOK
<1>15. \A i \in DOMAIN levels'[s] : LevelOK(s, i)' /\ EntriesOK(s, i)' /\ BlockTells(s, i)'
  <2>1. ASSUME NEW i \in DOMAIN levels'[s] PROVE LevelOK(s, i)'
    <3>1. LevelOK(s, i) /\ \A y : Known(y)' <=> Known(y)
      BY <1>1, <1>5, <2>1 DEF SessionOK, Known, Has
    <3>2. /\ levels'[s][i].claimed \subseteq levels'[s][i].locked
          /\ levels[s][i].locked \subseteq levels'[s][i].locked
      BY <1>3, <1>5, <1>12, <2>1, <3>1 DEF LevelOK
    <3>3. i > 1 => levels'[s][i - 1].rows = levels[s][i - 1].rows
      BY <1>5, <1>12, <2>1
    <3> QED BY <1>5, <1>12, <2>1, <3>1, <3>2, <3>3 DEF LevelOK
  <2>2. \A i \in DOMAIN levels[s] : Entries(s, i) = levels[s][i].trail
    BY <1>1, Quiet
  <2>3. \A i \in DOMAIN levels'[s] : Entries(s, i)' = levels[s][i].trail
    <3>1. ASSUME NEW i \in DOMAIN levels[s] PROVE levels[s][i].trail \o <<>> = levels[s][i].trail
      BY <1>1 DEF Types, Levels
    <3> QED BY <1>1, <1>5, <1>12, <3>1 DEF Entries, Coming
  <2>4. ASSUME NEW i \in DOMAIN levels'[s] PROVE EntriesOK(s, i)'
    BY <1>1, <1>5, <1>12, <2>2, <2>3, <2>4 DEF SessionOK, EntriesOK, Known, Has
  <2>5. ASSUME NEW i \in DOMAIN levels'[s] PROVE BlockTells(s, i)'
    BY <1>1, <1>5, <1>12, <2>2, <2>3, <2>5 DEF SessionOK, BlockTells
  <2> QED BY <2>1, <2>4, <2>5
<1>16. \A i, k, y : k \in DOMAIN levels[s] /\ i \in DOMAIN levels[s] =>
         /\ Overwritten(s, i, k, y)' <=> Overwritten(s, i, k, y)
         /\ Removed(s, i, k, y)' <=> Removed(s, i, k, y)
  <2>1. \A i, k \in DOMAIN levels[s] : \A j \in i + 1 .. k : j \in DOMAIN levels[s]
    BY <1>5
  <2> QED BY <1>12, <2>1 DEF Overwritten, Removed
<1>17. BlocksAgree(s)'
  <2>1. BlocksAgree(s)
    BY <1>1 DEF SessionOK
  <2>2. \A i, k \in DOMAIN levels'[s] : i < k =>
          levels'[s][i].claimed \subseteq levels'[s][k].claimed
    BY <1>3, <1>5, <1>12, <2>1 DEF BlocksAgree
  <2> QED BY <1>5, <1>12, <1>16, <2>1, <2>2 DEF BlocksAgree
<1>18. ASSUME NEW j \in DOMAIN levels[s] PROVE r \notin levels[s][j].removed
  <2>1. ASSUME r \in levels[s][j].removed PROVE Stored(s)[r] = None
    <3>1. Top(s) \in j .. Top(s)
      BY <1>5, <1>18
    <3> QED BY <1>1, <1>5, <2>1, <3>1 DEF SessionOK, RemovedStay, Stored, Seen
  <2> QED BY <1>1, <2>1
<1>19. RemovedStay(s)'
  <2>1. \A j \in DOMAIN levels[s] : levels[s][j].removed \subseteq Rows
    BY <1>1, Fields
  <2>2. \A j \in DOMAIN levels[s] : \A k \in j .. Top(s) : k \in DOMAIN levels[s]
    BY <1>5
  <2>3. \A j \in DOMAIN levels[s] : \A k \in j + 1 .. Top(s) : k \in DOMAIN levels[s]
    BY <1>5
  <2>4. \A j \in DOMAIN levels[s] : \A y \in levels[s][j].removed :
          object'[s][y] = object[s][y]
    BY <1>8, <1>18, <2>1
  <2>5. RemovedStay(s)
    BY <1>1 DEF SessionOK
  <2>6. ASSUME NEW j \in DOMAIN levels[s], NEW y \in levels[s][j].removed
        PROVE  /\ object'[s][y].state = "deleted"
               /\ \A k \in j .. Top(s) : y \in DOMAIN levels'[s][k].rows
                                        /\ levels'[s][k].rows[y] = None
               /\ \A k \in j + 1 .. Top(s) :
                    y \notin levels'[s][k].inserted \cup levels'[s][k].updated
                              \cup levels'[s][k].removed
    <3>1. /\ object[s][y].state = "deleted"
          /\ \A k \in j .. Top(s) : y \in DOMAIN levels[s][k].rows /\ levels[s][k].rows[y] = None
          /\ \A k \in j + 1 .. Top(s) :
               y \notin levels[s][k].inserted \cup levels[s][k].updated
                         \cup levels[s][k].removed
      BY <2>5 DEF RemovedStay
    <3> QED BY <1>12, <2>2, <2>3, <2>4, <3>1
  <2>7. \A j \in DOMAIN levels'[s] : levels'[s][j].removed = levels[s][j].removed
    BY <1>5, <1>12
  <2> QED BY <1>5, <2>6, <2>7 DEF RemovedStay
<1>20. ClaimsOK(s)'
  <2>1. ASSUME NEW i \in DOMAIN levels[s], NEW y \in levels'[s][i].claimed,
               ~Overwritten(s, i, Top(s), y),
               \/ object'[s][y].state \in {"persistent", "doomed"}
               \/ object'[s][y].state = "deleted" /\ Removed(s, i, Top(s), y)
        PROVE  Seen(levels[s][i])[y] = [value |-> object'[s][y].base,
                                        deleted |-> object'[s][y].wasGone]
    <3>1. y \in Rows
      <4>1. levels[s][i].claimed \subseteq Rows
        BY <1>1, Fields
      <4> QED BY <1>3, <1>5, <1>12, <2>1, <4>1
    <3>2. CASE y = r
      BY <1>1, <1>6, <1>7, <1>9, <2>1, <3>2, FoundIsTrue
    <3>3. CASE y # r
      <4>1. y \in levels[s][i].claimed /\ object'[s][y] = object[s][y]
        BY <1>3, <1>5, <1>8, <1>12, <3>1, <3>3
      <4> QED BY <1>1, <2>1, <4>1 DEF SessionOK, ClaimsOK
    <3> QED BY <3>2, <3>3
  <2> QED BY <1>5, <1>12, <1>16, <2>1 DEF ClaimsOK
<1>21. SessionOK(s)'
  BY <1>13, <1>14, <1>15, <1>17, <1>19, <1>20 DEF SessionOK
<1>22. \A i \in DOMAIN levels'[s] : \A y \in levels'[s][i].locked : Free(s, y)
  BY <1>1, <1>3, <1>5, <1>12, OwnLocks
<1>23. \A y \in Rows : object[s][y].state = "absent" /\ rows[y] = None
         /\ y \notin DOMAIN Here(s).rows => object'[s][y].state = "absent"
  BY <1>1, <1>8 DEF Stored, Seen
<1> QED BY <1>1, <1>5, <1>8, <1>10, <1>21, <1>22, <1>23, OneSession

LEMMA EntryOf ==
  ASSUME NEW s \in Sessions, NEW r \in Rows, object[s][r].value \in Values,
         pending[s][r] \in Diff \cup {None}, doing[s].how \in Kinds
  PROVE  /\ EntriesOf(s, r) \in Seq(Entry)
         /\ \A k \in DOMAIN EntriesOf(s, r) : EntriesOf(s, r)[k].row = r
<1> PICK v : v = object[s][r].value
  OBVIOUS
<1>1. ASSUME NEW e \in Entry, e.row = r
      PROVE  <<e>> \in Seq(Entry) /\ \A k \in DOMAIN <<e>> : <<e>>[k].row = r
  BY <1>1
<1>2. CASE doing[s].how = "create"
  <2>1. EntriesOf(s, r) = <<[row |-> r, event |-> "created", old |-> None, new |-> v]>>
    BY <1>2 DEF EntriesOf
  <2>2. [row |-> r, event |-> "created", old |-> None, new |-> v] \in Entry
    BY DEF Entry
  <2> QED BY <1>1, <2>1, <2>2
<1>3. CASE doing[s].how = "delete"
  <2>1. EntriesOf(s, r) = <<[row |-> r, event |-> "deleted", old |-> v, new |-> None]>>
    BY <1>3 DEF EntriesOf
  <2>2. [row |-> r, event |-> "deleted", old |-> v, new |-> None] \in Entry
    BY DEF Entry
  <2> QED BY <1>1, <2>1, <2>2
<1>4. CASE doing[s].how = "update" /\ pending[s][r] = None
  BY <1>4 DEF EntriesOf
<1>5. CASE doing[s].how = "update" /\ pending[s][r] # None
  <2> PICK d : d = pending[s][r]
    OBVIOUS
  <2>1. EntriesOf(s, r) = <<[row |-> r, event |-> "updated", old |-> d.old, new |-> d.new]>>
    BY <1>5 DEF EntriesOf
  <2>2. d.old \in Values /\ d.new \in Values
    BY <1>5 DEF Diff
  <2>3. [row |-> r, event |-> "updated", old |-> d.old, new |-> d.new] \in Entry
    BY <2>2 DEF Entry
  <2> QED BY <1>1, <2>1, <2>3
<1> QED BY <1>2, <1>3, <1>4, <1>5 DEF Kinds

LEMMA RecordKeeps ==
  ASSUME IInv, NEW s \in Sessions, Record(s)
  PROVE  IInv'
<1> PICK r : r = doing[s].row
  OBVIOUS
<1> PICK new : new = EntriesOf(s, r)
  OBVIOUS
<1>1. /\ Types /\ SessionOK(s) /\ DoingOK(s) /\ doing[s].step = "recording"
      /\ r \in Rows /\ doing[s].how \in Kinds
      /\ object[s][r].state \in {"persistent", "deleted"}
      /\ doing' = [doing EXCEPT ![s] = Idle]
      /\ UNCHANGED <<rows, trail, stray, neglected, object, calls>>
  BY DEF Record, IInv, SessionOK, DoingOK
<1>2. new \in Seq(Entry) /\ \A k \in DOMAIN new : new[k].row = r
  <2>1. object[s][r].value \in Values /\ pending[s][r] \in Diff \cup {None}
    BY <1>1 DEF SessionOK, ObjectOK, Types
  <2> QED BY <1>1, <2>1, EntryOf
<1>3. PICK b : b = [Here(s) EXCEPT !.trail = Here(s).trail \o new]
  OBVIOUS
<1>4. /\ b \in Levels /\ b.rows = Here(s).rows /\ b.trail = Here(s).trail \o new
      /\ b.inserted = Here(s).inserted /\ b.updated = Here(s).updated
      /\ b.removed = Here(s).removed /\ b.stray = Here(s).stray
      /\ b.locked = Here(s).locked /\ b.claimed = Here(s).claimed
  <2>1. Here(s) \in Levels
    BY <1>1, Begun
  <2>2. Here(s).trail \o new \in Seq(Entry)
    BY <1>2, <2>1, Joined DEF Levels
  <2> QED BY <1>3, <2>1, <2>2 DEF Levels
<1>5. levels' = [levels EXCEPT ![s][Top(s)] = b]
  BY <1>3 DEF Record
<1>6. /\ levels' \in [Sessions -> Seq(Levels)]
      /\ \A q \in Sessions \ {s} : levels'[q] = levels[q]
      /\ DOMAIN levels'[s] = DOMAIN levels[s] /\ DOMAIN levels[s] = 1 .. Top(s)
      /\ Top(s) \in Nat \ {0} /\ Top(s) \in DOMAIN levels[s]
      /\ Top(s)' = Top(s) /\ Here(s)' = b /\ levels'[s][Top(s)] = b
      /\ Here(s) = levels[s][Top(s)] /\ Here(s) \in Levels
      /\ \A i \in DOMAIN levels[s] : i # Top(s) => levels'[s][i] = levels[s][i]
  BY <1>1, <1>4, <1>5, NewTop
<1>7. \A i \in DOMAIN levels[s] :
         /\ levels'[s][i].rows = levels[s][i].rows
         /\ levels'[s][i].inserted = levels[s][i].inserted
         /\ levels'[s][i].updated = levels[s][i].updated
         /\ levels'[s][i].removed = levels[s][i].removed
         /\ levels'[s][i].stray = levels[s][i].stray
         /\ levels'[s][i].locked = levels[s][i].locked
         /\ levels'[s][i].claimed = levels[s][i].claimed
         /\ Seen(levels[s][i])' = Seen(levels[s][i])
  BY <1>1, <1>4, <1>6 DEF Seen
<1>8. /\ doing'[s].step = "idle" /\ doing'[s] = Idle
      /\ \A q \in Sessions \ {s} : doing'[q] = doing[q]
      /\ doing' \in [Sessions -> [step : Stages, row : Rows \cup {None}, how : Kinds \cup {None}]]
  BY <1>1 DEF Types, Idle, Stages
<1>9. /\ pending' \in [Sessions -> [Rows -> Diff \cup {None}]]
      /\ \A q \in Sessions \ {s} : pending'[q] = pending[q]
      /\ unsaved' \in [Sessions -> SUBSET Rows]
  BY <1>1 DEF Record, Types
<1>10. Types'
  BY <1>1, <1>6, <1>8, <1>9 DEF Types
<1>11. \A i \in DOMAIN levels[s] : Entries(s, i)' = Entries(s, i)
  <2>1. ASSUME NEW i \in DOMAIN levels[s] PROVE Entries(s, i)' = levels'[s][i].trail
    <3>1. levels'[s][i].trail \o <<>> = levels'[s][i].trail
      BY <1>6, <2>1 DEF Levels
    <3> QED BY <1>8, <3>1 DEF Entries, Coming
  <2>2. Entries(s, Top(s)) = b.trail
    BY <1>1, <1>4, <1>6 DEF Entries, Coming
  <2>3. ASSUME NEW i \in DOMAIN levels[s], i # Top(s) PROVE Entries(s, i) = levels[s][i].trail
    <3>1. levels[s][i].trail \o <<>> = levels[s][i].trail
      BY <1>1, Fields
    <3> QED BY <2>3, <3>1 DEF Entries, Coming
  <2> QED BY <1>6, <2>1, <2>2, <2>3
<1>12. ASSUME NEW y \in Rows PROVE ObjectOK(s, y)'
  <2>1. ObjectOK(s, y) /\ ObjectOK(s, r) /\ ~Deleting(s, y)
    BY <1>1 DEF SessionOK, Deleting
  <2>2. CASE y = r
    <3>1. /\ ~Unborn(s, r)' /\ (Known(r)' <=> Known(r))
          /\ Here(s)'.rows = Here(s).rows
      BY <1>1, <1>4, <1>6 DEF Unborn, Known, Has
    <3> QED BY <1>1, <2>1, <2>2, <3>1 DEF ObjectOK
  <2>3. CASE y # r
    <3>1. ~Has(new, y)
      BY <1>2, <2>3 DEF Has
    <3>2. \A i \in DOMAIN levels'[s] : Has(levels[s][i].trail, y)' => Has(levels[s][i].trail, y)
      <4>1. Has(b.trail, y) => Has(Here(s).trail, y)
        BY <1>2, <1>4, <1>6, <3>1, JoinedHas DEF Levels
      <4> QED BY <1>6, <4>1 DEF Has
    <3>3. /\ \A q \in Sessions : object'[q][y] = object[q][y]
          /\ object[s][y].state \notin {"pending", "doomed"}
          /\ object[s][y].state = "persistent" /\ object[s][y].gone => object[s][y].wasGone
      BY <1>1, <2>1 DEF ObjectOK
    <3> QED BY <1>1, <1>4, <1>6, <1>7, <2>1, <3>2, <3>3, ObjectStays, ZenonT(30)
  <2> QED BY <2>2, <2>3
<1>13. DoingOK(s)'
  BY <1>6, <1>8 DEF DoingOK, Idle
<1>14. ASSUME NEW i \in DOMAIN levels'[s]
       PROVE  LevelOK(s, i)' /\ EntriesOK(s, i)' /\ BlockTells(s, i)'
  <2>1. LevelOK(s, i)'
    <3>1. LevelOK(s, i) /\ \A y : Known(y)' <=> Known(y)
      BY <1>1, <1>6, <1>14 DEF SessionOK, Known, Has
    <3>2. i > 1 => levels'[s][i - 1].rows = levels[s][i - 1].rows
      BY <1>6, <1>7, <1>14
    <3> QED BY <1>6, <1>7, <1>14, <3>1, <3>2 DEF LevelOK
  <2>2. EntriesOK(s, i)'
    BY <1>1, <1>6, <1>7, <1>11, <1>14 DEF SessionOK, EntriesOK, Known, Has
  <2>3. BlockTells(s, i)'
    BY <1>1, <1>6, <1>7, <1>11, <1>14 DEF SessionOK, BlockTells
  <2> QED BY <2>1, <2>2, <2>3
<1>15. BlocksAgree(s)' /\ RemovedStay(s)' /\ ClaimsOK(s)'
  BY <1>1, <1>4, <1>6, <1>7, SameWrites DEF SessionOK
<1>16. SessionOK(s)'
  BY <1>12, <1>13, <1>14, <1>15 DEF SessionOK
<1>17. \A i \in DOMAIN levels'[s] : \A y \in levels'[s][i].locked : Free(s, y)
  BY <1>6, <1>7, OwnLocks
<1> QED BY <1>1, <1>6, <1>8, <1>9, <1>10, <1>16, <1>17, OneSession

LEMMA EntriesTyped ==
  ASSUME Types, NEW q \in Sessions, SessionOK(q), NEW i \in DOMAIN levels[q]
  PROVE  Entries(q, i) \in Seq(Entry)
<1>1. levels[q][i].trail \in Seq(Entry)
  BY Fields
<1>2. Coming(q, i) \in Seq(Entry)
  <2>1. CASE i = Top(q) /\ doing[q].step = "recording"
    <3>1. PICK r : r = doing[q].row
      OBVIOUS
    <3>2. /\ r \in Rows /\ doing[q].how \in Kinds
          /\ object[q][r].state \in {"persistent", "deleted"}
      BY <2>1, <3>1 DEF SessionOK, DoingOK
    <3>3. object[q][r].value \in Values /\ pending[q][r] \in Diff \cup {None}
      BY <3>2 DEF SessionOK, ObjectOK, Types
    <3>4. EntriesOf(q, r) \in Seq(Entry)
      BY <3>2, <3>3, EntryOf
    <3> QED BY <2>1, <3>1, <3>4 DEF Coming
  <2>2. CASE ~(i = Top(q) /\ doing[q].step = "recording")
    BY <2>2 DEF Coming
  <2> QED BY <2>1, <2>2
<1> QED BY <1>1, <1>2, Joined DEF Entries

LEMMA Ended ==
  ASSUME Types, NEW s \in Sessions, End(s)
  PROVE  /\ levels' \in [Sessions -> Seq(Levels)] /\ levels'[s] = <<>>
         /\ object' \in [Sessions -> [Rows -> Instances]]
         /\ \A r \in Rows : object'[s][r] = Absent
         /\ pending' \in [Sessions -> [Rows -> Diff \cup {None}]]
         /\ unsaved' \in [Sessions -> SUBSET Rows] /\ calls' \in 0 .. MaxCalls
         /\ doing' \in [Sessions -> [step : Stages, row : Rows \cup {None},
                                     how : Kinds \cup {None}]]
         /\ \A q \in Sessions \ {s} : /\ levels'[q] = levels[q] /\ object'[q] = object[q]
                                      /\ pending'[q] = pending[q] /\ doing'[q] = doing[q]
         /\ SessionOK(s)'
<1>1. levels' \in [Sessions -> Seq(Levels)] /\ levels'[s] = <<>>
      /\ \A q \in Sessions \ {s} : levels'[q] = levels[q]
  BY DEF End, Types
<1>2. /\ object' \in [Sessions -> [Rows -> Instances]]
      /\ \A r \in Rows : object'[s][r] = Absent
      /\ \A q \in Sessions \ {s} : object'[q] = object[q]
  <2>1. Absent \in Instances
    BY DEF Absent, Instances
  <2> HIDE DEF Absent
  <2> QED BY <2>1 DEF End, Types
<1>3. /\ pending' \in [Sessions -> [Rows -> Diff \cup {None}]]
      /\ \A q \in Sessions \ {s} : pending'[q] = pending[q]
      /\ unsaved' \in [Sessions -> SUBSET Rows] /\ calls' \in 0 .. MaxCalls
  BY DEF End, Types
<1>4. /\ doing'[s] = [step |-> "done", row |-> None, how |-> None]
      /\ \A q \in Sessions \ {s} : doing'[q] = doing[q]
      /\ doing' \in [Sessions -> [step : Stages, row : Rows \cup {None},
                                  how : Kinds \cup {None}]]
  BY DEF End, Types, Idle, Stages
<1>5. DOMAIN levels'[s] = {}
  BY <1>1
<1>6. DoingOK(s)'
  BY <1>1, <1>4 DEF DoingOK, Idle
<1>7. ASSUME NEW r \in Rows PROVE ObjectOK(s, r)'
  <2>1. object'[s][r] = Absent
    BY <1>2
  <2>2. Absent.state = "absent" /\ ~Absent.gone
    BY DEF Absent
  <2> HIDE DEF Absent
  <2> QED BY <1>5, <2>1, <2>2 DEF ObjectOK, Unborn
<1>8. SessionOK(s)'
  BY <1>5, <1>6, <1>7 DEF SessionOK, BlocksAgree, RemovedStay, ClaimsOK
<1> QED BY <1>1, <1>2, <1>3, <1>4, <1>8

LEMMA RollbackKeeps ==
  ASSUME IInv, NEW s \in Sessions, Rollback(s)
  PROVE  IInv'
<1>1. /\ Types /\ doing[s].step # "done" /\ End(s)
      /\ UNCHANGED <<rows, trail, stray, neglected>>
  BY DEF IInv, Rollback
<1>2. Types'
  BY <1>1, Ended DEF Types
<1>3. \A r \in Rows : object'[s][r].state = "absent"
  BY <1>1, Ended DEF Absent
<1>4. DOMAIN levels'[s] = {}
  BY <1>1, Ended
<1> QED BY <1>1, <1>2, <1>3, <1>4, Ended, OneSession

(* The session is where it was, in a block more or a block less.           *)
LEMMA SameHere ==
  ASSUME IInv, Types', NEW s \in Sessions, NEW n \in Nat, NEW b \in Levels,
         UNCHANGED <<rows, trail, stray, object, pending, doing>>, doing[s].step = "idle",
         \A q \in Sessions \ {s} : levels'[q] = levels[q],
         Top(s)' = n + 1, DOMAIN levels'[s] = 1 .. n + 1, Here(s)' = b, levels'[s][n + 1] = b,
         \A i \in 1 .. n : i \in DOMAIN levels[s] /\ levels'[s][i] = levels[s][i],
         b.rows = Here(s).rows, b.trail = Here(s).trail, b.locked = Here(s).locked,
         b.claimed = Here(s).claimed, b.stray = Here(s).stray,
         LevelOK(s, n + 1)', BlocksAgree(s)', RemovedStay(s)', ClaimsOK(s)'
  PROVE  IInv'
<1>1. /\ Types /\ SessionOK(s) /\ DoingOK(s)
      /\ Top(s) \in Nat \ {0} /\ Top(s) \in DOMAIN levels[s]
      /\ Here(s) = levels[s][Top(s)] /\ Here(s) \in Levels
      /\ DOMAIN levels[s] = 1 .. Top(s)
  BY Begun DEF IInv, SessionOK
<1>2. \A i \in DOMAIN levels'[s] : \E k \in DOMAIN levels[s] :
         /\ levels'[s][i].locked = levels[s][k].locked
         /\ levels'[s][i].rows = levels[s][k].rows
         /\ levels'[s][i].trail = levels[s][k].trail
         /\ levels'[s][i].stray = levels[s][k].stray
         /\ i # n + 1 => k = i
  <2>1. ASSUME NEW i \in DOMAIN levels'[s]
        PROVE  (i \in 1 .. n) \/ i = n + 1
    OBVIOUS
  <2> QED BY <1>1, <2>1
<1>3. ASSUME NEW r \in Rows PROVE ObjectOK(s, r)'
  <2>1. \A i \in DOMAIN levels'[s] : \E k \in DOMAIN levels[s] :
           /\ r \in levels'[s][i].locked => r \in levels[s][k].locked
           /\ r \in DOMAIN levels'[s][i].rows => r \in DOMAIN levels[s][k].rows
           /\ Has(levels[s][i].trail, r)' => Has(levels[s][k].trail, r)
    BY <1>2 DEF Has
  <2> QED BY <1>1, <1>3, <2>1, Calm, ObjectStays DEF SessionOK
<1>4. DoingOK(s)'
  <2>1. levels'[s] # <<>>
    <3>1. n + 1 \in DOMAIN levels'[s]
      OBVIOUS
    <3> QED BY <3>1
  <2> QED BY <1>1, <2>1 DEF DoingOK
<1>5. /\ \A i \in DOMAIN levels[s] : Entries(s, i) = levels[s][i].trail
      /\ \A i \in DOMAIN levels'[s] : Entries(s, i)' = levels'[s][i].trail
  <2>1. ASSUME NEW i \in DOMAIN levels'[s]
        PROVE  levels'[s][i].trail \o <<>> = levels'[s][i].trail
    BY DEF Types, Levels
  <2> QED BY <1>1, <2>1, Quiet DEF Entries, Coming
<1>6. ASSUME NEW i \in DOMAIN levels'[s]
      PROVE  LevelOK(s, i)' /\ EntriesOK(s, i)' /\ BlockTells(s, i)'
  <2>1. PICK k \in DOMAIN levels[s] :
         /\ levels'[s][i].locked = levels[s][k].locked
         /\ levels'[s][i].rows = levels[s][k].rows
         /\ levels'[s][i].trail = levels[s][k].trail
         /\ levels'[s][i].stray = levels[s][k].stray
         /\ i # n + 1 => k = i
    BY <1>2, <1>6
  <2>2. LevelOK(s, i)'
    <3>1. CASE i # n + 1
      <4>1. levels'[s][i] = levels[s][i] /\ (i > 1 => levels'[s][i - 1] = levels[s][i - 1])
        <5>1. i \in 1 .. n /\ (i > 1 => i - 1 \in 1 .. n)
          BY <1>6, <3>1
        <5> QED BY <5>1
      <4> QED BY <1>1, <2>1, <3>1, <4>1 DEF SessionOK, LevelOK, Known, Has
    <3> QED BY <3>1
  <2>3. EntriesOK(s, k) /\ BlockTells(s, k)
    BY <1>1 DEF SessionOK
  <2>4. Entries(s, i)' = Entries(s, k)
    BY <1>5, <1>6, <2>1
  <2>5. EntriesOK(s, i)'
    BY <2>1, <2>3, <2>4 DEF EntriesOK, Known, Has
  <2>6. Seen(levels[s][i])' = Seen(levels[s][k])
    BY <2>1 DEF Seen
  <2>7. BlockTells(s, i)'
    BY <2>1, <2>3, <2>4, <2>6 DEF BlockTells
  <2> QED BY <2>2, <2>5, <2>7
<1>7. SessionOK(s)'
  BY <1>3, <1>4, <1>6 DEF SessionOK
<1>8. \A i \in DOMAIN levels'[s] : \A y \in levels'[s][i].locked : Free(s, y)
  BY <1>2, OwnLocks
<1> QED BY <1>1, <1>7, <1>8, OneSession

LEMMA EnterKeeps ==
  ASSUME IInv, NEW s \in Sessions, EnterTransaction(s)
  PROVE  IInv'
<1> PICK n : n = Top(s)
  OBVIOUS
<1> PICK b : b = Block(s, {}, {}, {})
  OBVIOUS
<1>1. /\ Types /\ SessionOK(s) /\ DoingOK(s) /\ doing[s].step = "idle"
      /\ n \in Nat \ {0} /\ n \in DOMAIN levels[s]
      /\ Here(s) = levels[s][n] /\ Here(s) \in Levels /\ DOMAIN levels[s] = 1 .. n
      /\ levels[s] \in Seq(Levels) /\ Len(levels[s]) = n
      /\ levels' = [levels EXCEPT ![s] = Append(levels[s], b)]
      /\ UNCHANGED <<rows, trail, stray, neglected, object, pending, doing, unsaved>>
      /\ calls' \in 0 .. MaxCalls
  BY Begun, ModelAssumption DEF EnterTransaction, IInv, SessionOK, Top, Types, Call
<1>2. /\ b \in Levels /\ b.rows = Here(s).rows /\ b.trail = Here(s).trail
      /\ b.locked = Here(s).locked /\ b.claimed = Here(s).claimed /\ b.stray = Here(s).stray
      /\ b.inserted = {} /\ b.updated = {} /\ b.removed = {}
  <2> PICK h : h = Here(s)
    OBVIOUS
  <2>1. h \in Levels /\ b = [h EXCEPT !.inserted = {}, !.updated = {}, !.removed = {}]
    BY <1>1 DEF Block
  <2>2. /\ b \in Levels /\ b.rows = h.rows /\ b.trail = h.trail
        /\ b.locked = h.locked /\ b.claimed = h.claimed /\ b.stray = h.stray
        /\ b.inserted = {} /\ b.updated = {} /\ b.removed = {}
    BY <2>1 DEF Levels
  <2> QED BY <2>2
<1>3. /\ levels' \in [Sessions -> Seq(Levels)]
      /\ \A q \in Sessions \ {s} : levels'[q] = levels[q]
      /\ Top(s)' = n + 1 /\ DOMAIN levels'[s] = 1 .. n + 1
      /\ Here(s)' = b /\ levels'[s][n + 1] = b
      /\ \A i \in 1 .. n : i \in DOMAIN levels[s] /\ levels'[s][i] = levels[s][i]
  <2> PICK v : v = Append(levels[s], b)
    OBVIOUS
  <2>1. /\ v \in Seq(Levels) /\ Len(v) = n + 1 /\ v[n + 1] = b
        /\ \A i \in 1 .. n : v[i] = levels[s][i]
    BY <1>1, <1>2, AppendProperties
  <2>2. levels'[s] = v /\ \A q \in Sessions \ {s} : levels'[q] = levels[q]
    BY <1>1 DEF Types
  <2>3. levels' \in [Sessions -> Seq(Levels)]
    BY <1>1, <2>1, <2>2 DEF Types
  <2>4. DOMAIN v = 1 .. n + 1
    BY <2>1
  <2> QED BY <1>1, <2>1, <2>2, <2>3, <2>4 DEF Top, Here
<1>4. Types'
  BY <1>1, <1>3 DEF Types
<1>5. LevelOK(s, n + 1)'
  <2>1. levels'[s][n + 1 - 1] = levels[s][n] /\ n + 1 > 1 /\ LevelOK(s, n)
    BY <1>1, <1>3 DEF SessionOK
  <2> QED BY <1>1, <1>2, <1>3, <2>1 DEF LevelOK
<1>6. ASSUME NEW i \in 1 .. n, NEW y
      PROVE  /\ Overwritten(s, i, n + 1, y)' <=> Overwritten(s, i, n, y)
             /\ Removed(s, i, n + 1, y)' <=> Removed(s, i, n, y)
  <2>1. /\ \A j \in i + 1 .. n + 1 : (j \in i + 1 .. n /\ j \in 1 .. n) \/ j = n + 1
        /\ \A j \in i + 1 .. n : j \in i + 1 .. n + 1 /\ j \in 1 .. n
    <3>1. n \in Nat /\ i \in Nat /\ 1 <= i
      BY <1>1
    <3> QED BY <3>1
  <2> QED BY <1>2, <1>3, <2>1 DEF Overwritten, Removed
<1>7. ASSUME NEW i \in 1 .. n, NEW k \in 1 .. n, NEW y
      PROVE  /\ Overwritten(s, i, k, y)' <=> Overwritten(s, i, k, y)
             /\ Removed(s, i, k, y)' <=> Removed(s, i, k, y)
  <2>1. \A j \in i + 1 .. k : j \in 1 .. n
    BY <1>1
  <2> QED BY <1>3, <2>1 DEF Overwritten, Removed
<1>8. ASSUME NEW y
      PROVE  /\ ~Overwritten(s, n + 1, n + 1, y)' /\ ~Removed(s, n + 1, n + 1, y)'
             /\ ~Overwritten(s, n, n, y) /\ ~Removed(s, n, n, y)
  BY <1>1 DEF Overwritten, Removed
<1>9. BlocksAgree(s)'
  <2>1. ASSUME NEW i \in 1 .. n + 1, NEW k \in 1 .. n + 1, i < k
        PROVE  /\ levels'[s][i].claimed \subseteq levels'[s][k].claimed
               /\ \A r \in Rows : ~Overwritten(s, i, k, r)' /\ ~Removed(s, i, k, r)' =>
                    /\ r \in DOMAIN levels'[s][i].rows <=> r \in DOMAIN levels'[s][k].rows
                    /\ r \in DOMAIN levels'[s][i].rows =>
                         levels'[s][i].rows[r] = levels'[s][k].rows[r]
    <3>1. i \in 1 .. n
      BY <1>1, <2>1
    <3>2. CASE k \in 1 .. n
      BY <1>1, <1>3, <1>7, <2>1, <3>1, <3>2 DEF SessionOK, BlocksAgree
    <3>3. CASE k = n + 1
      <4>1. CASE i = n
        BY <1>1, <1>2, <1>3, <3>3, <4>1
      <4>2. CASE i # n
        <5>1. i < n /\ n \in 1 .. n
          BY <1>1, <3>1, <4>2
        <5>2. /\ levels[s][i].claimed \subseteq levels[s][n].claimed
              /\ \A r \in Rows : ~Overwritten(s, i, n, r) /\ ~Removed(s, i, n, r) =>
                   /\ r \in DOMAIN levels[s][i].rows <=> r \in DOMAIN levels[s][n].rows
                   /\ r \in DOMAIN levels[s][i].rows =>
                        levels[s][i].rows[r] = levels[s][n].rows[r]
          BY <1>1, <3>1, <5>1 DEF SessionOK, BlocksAgree
        <5> QED BY <1>1, <1>2, <1>3, <1>6, <3>1, <3>3, <5>2
      <4> QED BY <4>1, <4>2
    <3> QED BY <2>1, <3>2, <3>3, <1>1
  <2> QED BY <1>3, <2>1 DEF BlocksAgree
<1>10. RemovedStay(s)'
  <2>1. ASSUME NEW j \in 1 .. n + 1, NEW y \in levels'[s][j].removed
        PROVE  /\ object[s][y].state = "deleted"
               /\ \A k \in j .. n + 1 : y \in DOMAIN levels'[s][k].rows
                                        /\ levels'[s][k].rows[y] = None
               /\ \A k \in j + 1 .. n + 1 :
                    y \notin levels'[s][k].inserted \cup levels'[s][k].updated
                              \cup levels'[s][k].removed
    <3>1. j \in 1 .. n
      <4>1. j # n + 1
        BY <1>2, <1>3, <2>1
      <4> QED BY <1>1, <4>1
    <3>2. /\ object[s][y].state = "deleted"
          /\ \A k \in j .. n : y \in DOMAIN levels[s][k].rows /\ levels[s][k].rows[y] = None
          /\ \A k \in j + 1 .. n :
               y \notin levels[s][k].inserted \cup levels[s][k].updated
                         \cup levels[s][k].removed
      BY <1>1, <1>3, <2>1, <3>1 DEF SessionOK, RemovedStay
    <3>3. /\ \A k \in j .. n + 1 : (k \in j .. n /\ k \in 1 .. n) \/ k = n + 1
          /\ \A k \in j + 1 .. n + 1 : (k \in j + 1 .. n /\ k \in 1 .. n) \/ k = n + 1
          /\ n \in j .. n
      BY <1>1, <3>1
    <3> QED BY <1>1, <1>2, <1>3, <3>2, <3>3
  <2> QED BY <1>1, <1>3, <2>1 DEF RemovedStay
<1>11. ClaimsOK(s)'
  <2>1. ASSUME NEW i \in 1 .. n + 1, NEW y \in levels'[s][i].claimed,
               ~Overwritten(s, i, n + 1, y)',
               \/ object[s][y].state \in {"persistent", "doomed"}
               \/ object[s][y].state = "deleted" /\ Removed(s, i, n + 1, y)'
        PROVE  Seen(levels[s][i])'[y] = [value |-> object[s][y].base,
                                         deleted |-> object[s][y].wasGone]
    <3>1. CASE i \in 1 .. n
      <4>1. Seen(levels[s][i])' = Seen(levels[s][i])
        BY <1>1, <1>3, <3>1 DEF Seen
      <4>2. /\ i \in DOMAIN levels[s] /\ y \in levels[s][i].claimed /\ Top(s) = n
            /\ ClaimsOK(s)
        BY <1>1, <1>3, <2>1, <3>1 DEF SessionOK
      <4>3. /\ ~Overwritten(s, i, n, y)
            /\ Removed(s, i, n + 1, y)' => Removed(s, i, n, y)
        BY <1>6, <2>1, <3>1
      <4> QED BY <2>1, <4>1, <4>2, <4>3 DEF ClaimsOK
    <3>2. CASE i = n + 1
      <4>1. Seen(levels[s][i])' = Seen(levels[s][n])
        BY <1>1, <1>2, <1>3, <3>2 DEF Seen
      <4>2. /\ object[s][y].state \in {"persistent", "doomed"}
            /\ y \in levels[s][n].claimed
        BY <1>1, <1>2, <1>3, <1>8, <2>1, <3>2
      <4> QED BY <1>1, <1>8, <4>1, <4>2 DEF SessionOK, ClaimsOK
    <3> QED BY <1>1, <3>1, <3>2
  <2>2. object' = object /\ DOMAIN levels'[s] = 1 .. n + 1 /\ Top(s)' = n + 1
    BY <1>1, <1>3
  <2> QED BY <2>1, <2>2 DEF ClaimsOK
<1> QED BY <1>1, <1>2, <1>3, <1>4, <1>5, <1>9, <1>10, <1>11, SameHere

LEMMA Leaving ==
  ASSUME NEW s \in Sessions, Types, DoingOK(s), LeaveTransaction(s), NEW n \in Nat, Top(s) = n + 2
  PROVE  /\ levels' \in [Sessions -> Seq(Levels)]
         /\ \A q \in Sessions \ {s} : levels'[q] = levels[q]
         /\ Top(s)' = n + 1 /\ DOMAIN levels'[s] = 1 .. n + 1
         /\ Here(s)' = levels'[s][n + 1] /\ levels'[s][n + 1] \in Levels
         /\ \A i \in 1 .. n : levels'[s][i] = levels[s][i]
         /\ levels'[s][n + 1].rows = levels[s][n + 2].rows
         /\ levels'[s][n + 1].trail = levels[s][n + 2].trail
         /\ levels'[s][n + 1].locked = levels[s][n + 2].locked
         /\ levels'[s][n + 1].claimed = levels[s][n + 2].claimed
         /\ levels'[s][n + 1].stray = levels[s][n + 2].stray
         /\ levels'[s][n + 1].inserted = levels[s][n + 2].inserted \cup levels[s][n + 1].inserted
         /\ levels'[s][n + 1].updated = levels[s][n + 2].updated \cup levels[s][n + 1].updated
         /\ levels'[s][n + 1].removed = levels[s][n + 2].removed \cup levels[s][n + 1].removed
<1> PICK outer : outer = levels[s][n + 1]
  OBVIOUS
<1> PICK inner : inner = levels[s][n + 2]
  OBVIOUS
<1>1. levels[s] \in Seq(Levels) /\ Len(levels[s]) = n + 2
  BY DEF Types, Top
<1>2. outer \in Levels /\ inner \in Levels /\ Here(s) = inner
  BY <1>1 DEF Here
<1>3. PICK b : b = Block(s, inner.inserted \cup outer.inserted,
                         inner.updated \cup outer.updated, inner.removed \cup outer.removed)
  OBVIOUS
<1>4. levels' = [levels EXCEPT ![s] = Append(Front(Front(levels[s])), b)]
  <2>1. Top(s) - 1 = n + 1
    OBVIOUS
  <2> QED BY <1>2, <1>3, <2>1 DEF LeaveTransaction
<1>5. /\ b \in Levels /\ b.rows = inner.rows /\ b.trail = inner.trail
      /\ b.locked = inner.locked /\ b.claimed = inner.claimed /\ b.stray = inner.stray
      /\ b.inserted = inner.inserted \cup outer.inserted
      /\ b.updated = inner.updated \cup outer.updated
      /\ b.removed = inner.removed \cup outer.removed
  <2>1. PICK ins : ins = inner.inserted \cup outer.inserted
    OBVIOUS
  <2>2. PICK upd : upd = inner.updated \cup outer.updated
    OBVIOUS
  <2>3. PICK rem : rem = inner.removed \cup outer.removed
    OBVIOUS
  <2>4. b = [inner EXCEPT !.inserted = ins, !.updated = upd, !.removed = rem]
    BY <1>2, <1>3, <2>1, <2>2, <2>3 DEF Block
  <2>5. ins \in SUBSET Rows /\ upd \in SUBSET Rows /\ rem \in SUBSET Rows
    BY <1>2, <2>1, <2>2, <2>3 DEF Levels
  <2>6. /\ b \in Levels /\ b.rows = inner.rows /\ b.trail = inner.trail
        /\ b.locked = inner.locked /\ b.claimed = inner.claimed /\ b.stray = inner.stray
        /\ b.inserted = ins /\ b.updated = upd /\ b.removed = rem
    BY <1>2, <2>4, <2>5 DEF Levels
  <2> QED BY <2>1, <2>2, <2>3, <2>6
<1>6. PICK w : w = Front(Front(levels[s]))
  OBVIOUS
<1>7. w \in Seq(Levels) /\ Len(w) = n /\ \A i \in 1 .. n : w[i] = levels[s][i]
  <2>1. PICK u : u = Front(levels[s])
    OBVIOUS
  <2>2. levels[s] # <<>> /\ Len(levels[s]) - 1 = n + 1
    BY <1>1
  <2>3. u \in Seq(Levels) /\ Len(u) = n + 1 /\ \A i \in 1 .. n + 1 : u[i] = levels[s][i]
    BY <1>1, <2>1, <2>2, FrontFacts
  <2>4. u # <<>> /\ Len(u) - 1 = n
    BY <2>3
  <2>5. w \in Seq(Levels) /\ Len(w) = n /\ \A i \in 1 .. n : w[i] = u[i]
    BY <1>6, <2>1, <2>3, <2>4, FrontFacts
  <2> QED BY <2>3, <2>5
<1>8. PICK v : v = Append(w, b)
  OBVIOUS
<1>9. /\ v \in Seq(Levels) /\ Len(v) = n + 1 /\ v[n + 1] = b
      /\ \A i \in 1 .. n : v[i] = levels[s][i]
  BY <1>5, <1>7, <1>8, AppendProperties
<1>10. levels' = [levels EXCEPT ![s] = v]
  BY <1>4, <1>6, <1>8
<1>11. levels'[s] = v /\ \A q \in Sessions \ {s} : levels'[q] = levels[q]
  BY <1>10 DEF Types
<1>12. levels' \in [Sessions -> Seq(Levels)]
  BY <1>9, <1>10 DEF Types
<1>13. DOMAIN v = 1 .. n + 1
  BY <1>9
<1> QED BY <1>5, <1>9, <1>11, <1>12, <1>13 DEF Top, Here

LEMMA LeaveKeeps ==
  ASSUME IInv, NEW s \in Sessions, LeaveTransaction(s)
  PROVE  IInv'
<1>1. /\ Types /\ SessionOK(s) /\ DoingOK(s) /\ doing[s].step = "idle"
      /\ object' = object
      /\ UNCHANGED <<rows, trail, stray, neglected, object, pending, doing, unsaved, calls>>
  BY DEF LeaveTransaction, IInv, SessionOK
<1>2. PICK n \in Nat : Top(s) = n + 2
  <2>1. Top(s) \in Nat /\ Top(s) > 1
    BY <1>1, Begun DEF LeaveTransaction
  <2>2. Top(s) - 2 \in Nat /\ Top(s) = (Top(s) - 2) + 2
    BY <2>1
  <2> QED BY <2>2
<1>3. PICK outer : outer = levels[s][n + 1]
  OBVIOUS
<1>4. PICK inner : inner = levels[s][n + 2]
  OBVIOUS
<1>13. PICK b : b = levels'[s][n + 1]
  OBVIOUS
<1>14. /\ levels' \in [Sessions -> Seq(Levels)]
       /\ \A q \in Sessions \ {s} : levels'[q] = levels[q]
       /\ Here(s)' = b /\ b \in Levels
  BY <1>1, <1>2, <1>13, Leaving
<1>15. /\ DOMAIN levels[s] = 1 .. n + 2 /\ \A i \in 1 .. n : i \in DOMAIN levels[s]
       /\ n + 1 \in DOMAIN levels[s] /\ n + 2 \in DOMAIN levels[s]
       /\ Here(s) = inner
  BY <1>1, <1>2, <1>4, Begun
<1>16. Types'
  BY <1>1, <1>14 DEF Types
<1>17. \A i \in 1 .. n : levels'[s][i] = levels[s][i]
  BY <1>1, <1>2, Leaving
<1>18. /\ b.rows = inner.rows /\ b.trail = inner.trail /\ b.locked = inner.locked
       /\ b.claimed = inner.claimed /\ b.stray = inner.stray
       /\ b.inserted = inner.inserted \cup outer.inserted
       /\ b.updated = inner.updated \cup outer.updated
       /\ b.removed = inner.removed \cup outer.removed
  BY <1>1, <1>2, <1>3, <1>4, <1>13, Leaving
<1>19. Top(s)' = n + 1 /\ DOMAIN levels'[s] = 1 .. n + 1
  BY <1>1, <1>2, Leaving
<1>5. ASSUME NEW i \in 1 .. n, NEW y
      PROVE  /\ Overwritten(s, i, n + 1, y)' <=> Overwritten(s, i, n + 2, y)
             /\ Removed(s, i, n + 1, y)' <=> Removed(s, i, n + 2, y)
  <2>1. /\ \A j \in i + 1 .. n + 2 : j \in i + 1 .. n \/ j \in {n + 1, n + 2}
        /\ \A j \in i + 1 .. n + 1 : j \in i + 1 .. n \/ j = n + 1
        /\ \A j \in i + 1 .. n : j \in i + 1 .. n + 1 /\ j \in i + 1 .. n + 2 /\ j \in 1 .. n
        /\ n + 1 \in i + 1 .. n + 1 /\ n + 1 \in i + 1 .. n + 2 /\ n + 2 \in i + 1 .. n + 2
    BY <1>1, <1>2, <1>3, <1>4, <1>15
  <2> QED BY <1>3, <1>4, <1>13, <1>17, <1>18, <2>1 DEF Overwritten, Removed
<1>6. ASSUME NEW i \in 1 .. n, NEW k \in 1 .. n, NEW y
      PROVE  /\ Overwritten(s, i, k, y)' <=> Overwritten(s, i, k, y)
             /\ Removed(s, i, k, y)' <=> Removed(s, i, k, y)
  <2>1. \A j \in i + 1 .. k : j \in 1 .. n
    OBVIOUS
  <2> QED BY <1>17, <2>1 DEF Overwritten, Removed
<1>7. ASSUME NEW y
      PROVE  /\ ~Overwritten(s, n + 1, n + 1, y)' /\ ~Removed(s, n + 1, n + 1, y)'
             /\ ~Overwritten(s, n + 2, n + 2, y)
  BY DEF Overwritten, Removed
<1>8. DOMAIN outer.rows \subseteq DOMAIN inner.rows
  <2>1. ASSUME NEW y \in DOMAIN outer.rows, y \notin DOMAIN inner.rows PROVE FALSE
    <3>1. y \in Rows
      <4>1. DOMAIN outer.rows \subseteq Rows
        BY <1>1, <1>3, <1>15, Fields, SeenRow DEF Types
      <4> QED BY <2>1, <4>1
    <3>2. LevelOK(s, n + 2) /\ BlocksAgree(s)
      BY <1>1, <1>15 DEF SessionOK
    <3>3. y \notin inner.inserted \cup inner.updated \cup inner.removed
      BY <1>4, <2>1, <3>2 DEF LevelOK
    <3>4. \A j \in n + 1 + 1 .. n + 2 : j = n + 2
      OBVIOUS
    <3>5. ~Overwritten(s, n + 1, n + 2, y) /\ ~Removed(s, n + 1, n + 2, y)
      BY <1>4, <3>3, <3>4 DEF Overwritten, Removed
    <3>6. n + 1 < n + 2 /\ n + 1 \in DOMAIN levels[s] /\ n + 2 \in DOMAIN levels[s]
      BY <1>15
    <3> QED BY <1>3, <1>4, <2>1, <3>1, <3>2, <3>5, <3>6 DEF BlocksAgree
  <2> QED BY <2>1
<1>9. LevelOK(s, n + 1)'
  <2>1. /\ LevelOK(s, n + 2) /\ LevelOK(s, n + 1) /\ n + 2 > 1 /\ n + 2 - 1 = n + 1
    BY <1>1, <1>15 DEF SessionOK
  <2>2. /\ b.claimed \subseteq b.locked /\ DOMAIN b.rows \subseteq b.locked
        /\ b.inserted \cup b.updated \cup b.removed \subseteq DOMAIN b.rows
        /\ b.inserted \cap Old = {}
    BY <1>3, <1>4, <1>8, <1>18, <2>1 DEF LevelOK
  <2>3. ASSUME NEW y \in DOMAIN b.rows
        PROVE  \/ Known(y) \/ y \in b.inserted
               \/ n + 1 > 1 /\ y \in DOMAIN levels[s][n + 1 - 1].rows
    BY <1>3, <1>4, <1>18, <2>1, <2>3 DEF LevelOK
  <2>4. n + 1 > 1 => levels'[s][n + 1 - 1] = levels[s][n + 1 - 1]
    <3>1. n + 1 > 1 => n + 1 - 1 \in 1 .. n
      OBVIOUS
    <3> QED BY <1>17, <3>1
  <2>5. \A y : Known(y)' <=> Known(y)
    BY <1>1 DEF Known, Has
  <2> QED BY <1>13, <2>2, <2>3, <2>4, <2>5 DEF LevelOK
<1>10. BlocksAgree(s)'
  <2>1. ASSUME NEW i \in 1 .. n + 1, NEW k \in 1 .. n + 1, i < k
        PROVE  /\ levels'[s][i].claimed \subseteq levels'[s][k].claimed
               /\ \A r \in Rows : ~Overwritten(s, i, k, r)' /\ ~Removed(s, i, k, r)' =>
                    /\ r \in DOMAIN levels'[s][i].rows <=> r \in DOMAIN levels'[s][k].rows
                    /\ r \in DOMAIN levels'[s][i].rows =>
                         levels'[s][i].rows[r] = levels'[s][k].rows[r]
    <3>1. i \in 1 .. n
      BY <2>1
    <3>2. CASE k \in 1 .. n
      BY <1>1, <1>6, <1>15, <1>17, <2>1, <3>1, <3>2 DEF SessionOK, BlocksAgree
    <3>3. CASE k = n + 1
      <4>1. i < n + 2 /\ n + 2 \in DOMAIN levels[s] /\ i \in DOMAIN levels[s]
        BY <1>15, <3>1
      <4>2. /\ levels[s][i].claimed \subseteq inner.claimed
            /\ \A r \in Rows : ~Overwritten(s, i, n + 2, r) /\ ~Removed(s, i, n + 2, r) =>
                 /\ r \in DOMAIN levels[s][i].rows <=> r \in DOMAIN inner.rows
                 /\ r \in DOMAIN levels[s][i].rows => levels[s][i].rows[r] = inner.rows[r]
        BY <1>1, <1>4, <4>1 DEF SessionOK, BlocksAgree
      <4> QED BY <1>5, <1>13, <1>17, <1>18, <3>1, <3>3, <4>2
    <3> QED BY <2>1, <3>2, <3>3
  <2> QED BY <1>19, <2>1 DEF BlocksAgree
<1>11. RemovedStay(s)'
  <2>1. ASSUME NEW j \in 1 .. n + 1, NEW y \in levels'[s][j].removed
        PROVE  /\ object[s][y].state = "deleted"
               /\ \A k \in j .. n + 1 : y \in DOMAIN levels'[s][k].rows
                                        /\ levels'[s][k].rows[y] = None
               /\ \A k \in j + 1 .. n + 1 :
                    y \notin levels'[s][k].inserted \cup levels'[s][k].updated
                              \cup levels'[s][k].removed
    <3>1. \A m \in DOMAIN levels[s] : y \in levels[s][m].removed =>
            /\ object[s][y].state = "deleted"
            /\ \A k \in m .. n + 2 : y \in DOMAIN levels[s][k].rows /\ levels[s][k].rows[y] = None
            /\ \A k \in m + 1 .. n + 2 :
                 y \notin levels[s][k].inserted \cup levels[s][k].updated
                           \cup levels[s][k].removed
      BY <1>1, <1>2 DEF SessionOK, RemovedStay
    <3>2. CASE j \in 1 .. n
      <4>1. /\ \A k \in j .. n + 1 : (k \in j .. n + 2 /\ k \in 1 .. n) \/ k = n + 1
            /\ \A k \in j + 1 .. n + 1 : (k \in j + 1 .. n + 2 /\ k \in 1 .. n) \/ k = n + 1
            /\ n + 2 \in j .. n + 2 /\ n + 2 \in j + 1 .. n + 2 /\ n + 1 \in j + 1 .. n + 2
            /\ j \in DOMAIN levels[s]
        BY <1>15, <3>2
      <4>2. y \in levels[s][j].removed
        BY <1>17, <2>1, <3>2
      <4> QED BY <1>3, <1>4, <1>13, <1>17, <1>18, <3>1, <4>1, <4>2
    <3>3. CASE j = n + 1
      <4>1. \A k \in j .. n + 1 : k = n + 1
        BY <3>3
      <4>2. \A k \in j + 1 .. n + 1 : FALSE
        BY <3>3
      <4>3. n + 2 \in n + 2 .. n + 2 /\ n + 2 \in n + 1 .. n + 2
            /\ n + 2 \in DOMAIN levels[s] /\ n + 1 \in DOMAIN levels[s]
        BY <1>15
      <4>4. y \in inner.removed \/ y \in outer.removed
        BY <1>13, <1>18, <2>1, <3>3
      <4>5. object[s][y].state = "deleted" /\ y \in DOMAIN inner.rows /\ inner.rows[y] = None
        BY <1>3, <1>4, <3>1, <4>3, <4>4
      <4> QED BY <1>13, <1>18, <4>1, <4>2, <4>5
    <3> QED BY <3>2, <3>3
  <2>2. object' = object /\ DOMAIN levels'[s] = 1 .. n + 1 /\ Top(s)' = n + 1
    BY <1>1, <1>19
  <2> QED BY <2>1, <2>2 DEF RemovedStay
<1>12. ClaimsOK(s)'
  <2>1. ASSUME NEW i \in 1 .. n + 1, NEW y \in levels'[s][i].claimed,
               ~Overwritten(s, i, n + 1, y)',
               \/ object[s][y].state \in {"persistent", "doomed"}
               \/ object[s][y].state = "deleted" /\ Removed(s, i, n + 1, y)'
        PROVE  Seen(levels[s][i])'[y] = [value |-> object[s][y].base,
                                         deleted |-> object[s][y].wasGone]
    <3>1. CASE i \in 1 .. n
      <4>1. Seen(levels[s][i])' = Seen(levels[s][i])
        BY <1>1, <1>17, <3>1 DEF Seen
      <4>2. /\ i \in DOMAIN levels[s] /\ y \in levels[s][i].claimed
            /\ ~Overwritten(s, i, n + 2, y)
            /\ \/ object[s][y].state \in {"persistent", "doomed"}
               \/ object[s][y].state = "deleted" /\ Removed(s, i, n + 2, y)
        BY <1>5, <1>15, <1>17, <2>1, <3>1
      <4> QED BY <1>1, <1>2, <4>1, <4>2 DEF SessionOK, ClaimsOK
    <3>2. CASE i = n + 1
      <4>1. Seen(levels[s][i])' = Seen(inner)
        BY <1>1, <1>13, <1>18, <3>2 DEF Seen
      <4>2. /\ object[s][y].state \in {"persistent", "doomed"}
            /\ y \in levels[s][n + 2].claimed /\ n + 2 \in DOMAIN levels[s]
        BY <1>4, <1>7, <1>13, <1>15, <1>18, <2>1, <3>2
      <4> QED BY <1>1, <1>2, <1>4, <1>7, <4>1, <4>2 DEF SessionOK, ClaimsOK
    <3> QED BY <3>1, <3>2
  <2>2. object' = object /\ DOMAIN levels'[s] = 1 .. n + 1 /\ Top(s)' = n + 1
    BY <1>1, <1>19
  <2> QED BY <2>1, <2>2 DEF ClaimsOK
<1> QED BY <1>1, <1>9, <1>10, <1>11, <1>12, <1>13, <1>14, <1>15, <1>16, <1>17, <1>18, <1>19, SameHere

(* What an instance is once its block is rolled back.                      *)
LEMMA RollsBack ==
  ASSUME Types, NEW s \in Sessions, NEW r \in Rows, NEW o, o = object[s][r],
         NEW p, p = RolledBack(s, r), NEW level, level = Here(s)
  PROVE  /\ p \in Instances
         /\ \/ /\ r \in level.inserted \/ o.state = "pending"
               /\ p.state = IF o.state = "expired" THEN "expired" ELSE "transient"
               /\ p.id = o.id /\ p.value = o.value /\ p.base = o.base
               /\ p.gone = o.gone /\ p.wasGone = o.wasGone
            \/ /\ r \notin level.inserted /\ o.state # "pending"
               /\ r \in level.updated \/ Changed(o)
               /\ p.state = "expired"
            \/ /\ r \notin level.inserted /\ o.state # "pending"
               /\ r \notin level.updated /\ ~Changed(o)
               /\ r \in level.removed \/ o.state = "doomed"
               /\ p.state = "persistent"
               /\ p.id = o.id /\ p.value = o.value /\ p.base = o.base
               /\ p.gone = o.gone /\ p.wasGone = o.wasGone
            \/ /\ r \notin level.inserted \cup level.updated \cup level.removed
               /\ o.state \notin {"pending", "doomed"} /\ ~Changed(o)
               /\ p = o
<1>1. o \in Instances
  BY DEF Types
<1>2. CASE r \in level.inserted \/ o.state = "pending"
  <2>1. PICK x : x = IF o.state = "expired" THEN "expired" ELSE "transient"
    OBVIOUS
  <2>2. p = [o EXCEPT !.state = x]
    BY <1>2, <2>1 DEF RolledBack
  <2> QED BY <1>1, <1>2, <2>1, <2>2 DEF Instances
<1>3. CASE /\ r \notin level.inserted /\ o.state # "pending"
           /\ r \in level.updated \/ Changed(o)
  <2>1. p = [Absent EXCEPT !.state = "expired"]
    BY <1>3 DEF RolledBack
  <2>2. p = [state |-> "expired", id |-> FALSE, value |-> None, base |-> None,
             gone |-> FALSE, wasGone |-> FALSE]
    BY <2>1 DEF Absent
  <2>3. p \in Instances
    BY <2>2 DEF Instances
  <2>4. p.state = "expired"
    BY <2>2
  <2> QED BY <1>3, <2>3, <2>4
<1>4. CASE /\ r \notin level.inserted /\ o.state # "pending"
           /\ r \notin level.updated /\ ~Changed(o)
           /\ r \in level.removed \/ o.state = "doomed"
  <2>1. p = [o EXCEPT !.state = "persistent"]
    BY <1>4 DEF RolledBack
  <2> QED BY <1>1, <1>4, <2>1 DEF Instances
<1>5. CASE /\ r \notin level.inserted \cup level.updated \cup level.removed
           /\ o.state \notin {"pending", "doomed"} /\ ~Changed(o)
  <2>1. p = o
    BY <1>5 DEF RolledBack
  <2> QED BY <1>1, <1>5, <2>1
<1> QED BY <1>2, <1>3, <1>4, <1>5

LEMMA AbortKeeps ==
  ASSUME IInv, NEW s \in Sessions, AbortTransaction(s)
  PROVE  IInv'
<1>1. /\ Types /\ SessionOK(s) /\ DoingOK(s) /\ doing[s].step # "done"
      /\ UNCHANGED <<rows, trail, stray, neglected, pending, unsaved, calls>>
  BY DEF AbortTransaction, IInv, SessionOK
<1>2. PICK n \in Nat \ {0} : Top(s) = n + 1
  <2>1. Top(s) \in Nat /\ Top(s) > 1
    BY <1>1, Begun DEF AbortTransaction
  <2>2. Top(s) - 1 \in Nat \ {0} /\ Top(s) = (Top(s) - 1) + 1
    BY <2>1
  <2> QED BY <2>2
<1>3. PICK inner : inner = levels[s][n + 1]
  OBVIOUS
<1>4. /\ DOMAIN levels[s] = 1 .. n + 1 /\ \A i \in 1 .. n : i \in DOMAIN levels[s]
      /\ n + 1 \in DOMAIN levels[s] /\ Here(s) = inner /\ n \in 1 .. n /\ inner \in Levels
  BY <1>1, <1>2, <1>3, Begun
<1>5. PICK u : u = Front(levels[s])
  OBVIOUS
<1>6. u \in Seq(Levels) /\ Len(u) = n /\ \A i \in 1 .. n : u[i] = levels[s][i]
  <2>1. levels[s] \in Seq(Levels) /\ levels[s] # <<>> /\ Len(levels[s]) = n + 1
    BY <1>1, <1>2 DEF Types, DoingOK, Top
  <2>2. Len(levels[s]) - 1 = n
    BY <2>1
  <2> QED BY <1>5, <2>1, <2>2, FrontFacts
<1>7. levels' = [levels EXCEPT ![s] = u]
  BY <1>5 DEF AbortTransaction
<1>8. levels'[s] = u /\ \A q \in Sessions \ {s} : levels'[q] = levels[q]
  BY <1>1, <1>7 DEF Types
<1>9. levels' \in [Sessions -> Seq(Levels)]
  BY <1>1, <1>6, <1>7 DEF Types
<1>10. DOMAIN levels'[s] = 1 .. n /\ Top(s)' = n /\ Here(s)' = levels'[s][n] /\ levels'[s] # <<>>
  <2>1. DOMAIN u = 1 .. n /\ u # <<>>
    BY <1>6
  <2> QED BY <1>6, <1>8, <2>1 DEF Top, Here
<1>11. \A i \in 1 .. n : levels'[s][i] = levels[s][i]
  BY <1>6, <1>8
<1>12. /\ doing'[s] = Idle /\ doing'[s].step = "idle"
       /\ \A q \in Sessions \ {s} : doing'[q] = doing[q]
       /\ doing' \in [Sessions -> [step : Stages, row : Rows \cup {None}, how : Kinds \cup {None}]]
  BY <1>1 DEF AbortTransaction, Types, Idle, Stages
<1>13. /\ \A r \in Rows : object'[s][r] = RolledBack(s, r)
       /\ \A q \in Sessions \ {s} : object'[q] = object[q]
       /\ object' \in [Sessions -> [Rows -> Instances]]
  <2>1. \A r \in Rows : RolledBack(s, r) \in Instances
    BY <1>1, RollsBack
  <2> QED BY <1>1, <2>1 DEF AbortTransaction, Types
<1>14. Types'
  BY <1>1, <1>9, <1>12, <1>13 DEF Types
<1>15. LevelOK(s, n + 1) /\ n + 1 > 1 /\ n + 1 - 1 = n
  BY <1>1, <1>4 DEF SessionOK
<1>16. ASSUME NEW r \in Rows, r \in DOMAIN inner.rows, r \notin inner.inserted
       PROVE  Known(r)' \/ r \in DOMAIN Here(s)'.rows
  <2>1. Known(r) \/ r \in DOMAIN levels[s][n].rows
    BY <1>3, <1>15, <1>16 DEF LevelOK
  <2> QED BY <1>1, <1>4, <1>10, <1>11, <2>1 DEF Known, Has
<1>17. ASSUME NEW r \in Rows, r \in inner.inserted \cup inner.updated \cup inner.removed
       PROVE  r \in DOMAIN inner.rows /\ object[s][r].state # "absent" /\ ~Unborn(s, r)
  <2>1. r \in DOMAIN inner.rows /\ r \in inner.locked
    BY <1>3, <1>15, <1>17 DEF LevelOK
  <2>2. ObjectOK(s, r)
    BY <1>1 DEF SessionOK
  <2> QED BY <1>3, <1>4, <2>1, <2>2 DEF ObjectOK
<1>18. ASSUME NEW r \in Rows PROVE ObjectOK(s, r)'
  <2>1. PICK o : o = object[s][r]
    OBVIOUS
  <2>2. PICK p : p = RolledBack(s, r)
    OBVIOUS
  <2>3. ObjectOK(s, r) /\ object'[s][r] = p /\ o \in Instances /\ (Known(r)' <=> Known(r))
    BY <1>1, <1>13, <2>1, <2>2 DEF SessionOK, Types, Known, Has
  <2>4. o.state = "doomed" \/ (o.state = "persistent" /\ ~Changed(o)) \/ o.state = "deleted" =>
          /\ o.id /\ o.value \in Values /\ o.base \in Values
          /\ o.state \in {"doomed", "deleted"} => (o.gone => o.wasGone)
          /\ o.state = "persistent" => o.gone = o.wasGone
          /\ Known(r) \/ r \in DOMAIN inner.rows
    BY <1>4, <2>1, <2>3 DEF ObjectOK, Changed
  <2>5. CASE /\ r \in inner.inserted \/ o.state = "pending"
             /\ p.state = IF o.state = "expired" THEN "expired" ELSE "transient"
             /\ p.id = o.id /\ p.value = o.value /\ p.base = o.base
             /\ p.gone = o.gone /\ p.wasGone = o.wasGone
    <3>1. CASE p.state = "expired"
      BY <2>3, <3>1 DEF ObjectOK, Unborn
    <3>2. CASE p.state = "transient"
      <4>1. o.state \notin {"absent", "expired"}
        BY <1>17, <2>1, <2>5, <3>2
      <4>2. o.state \in {"transient", "pending", "persistent", "doomed", "deleted"}
        BY <2>3, <4>1 DEF Instances
      <4>3. p.value \in Values /\ (p.id => p.base \in Values)
        BY <2>1, <2>3, <2>5, <4>2 DEF ObjectOK
      <4>4. r \notin Old
        <5>1. CASE r \in inner.inserted
          BY <1>3, <1>15, <5>1 DEF LevelOK
        <5>2. CASE o.state = "pending"
          BY <2>1, <2>3, <5>2 DEF ObjectOK
        <5> QED BY <2>5, <5>1, <5>2
      <4>5. ASSUME Unborn(s, r)' PROVE Unborn(s, r)
        <5>1. ~p.id /\ ~o.id
          BY <2>3, <2>5, <4>5 DEF Unborn
        <5>2. o.state \in {"transient", "pending"}
          BY <2>1, <2>3, <4>2, <5>1 DEF ObjectOK
        <5> QED BY <2>1, <5>1, <5>2 DEF Unborn
      <4>6. Unborn(s, r)' =>
              /\ ~p.gone /\ rows'[r] = None /\ ~Has(trail, r)'
              /\ \A i \in DOMAIN levels'[s] :
                   r \notin DOMAIN levels'[s][i].rows /\ ~Has(levels[s][i].trail, r)'
              /\ \A q \in Sessions \ {s} : object'[q][r].state = "absent"
        <5> HAVE Unborn(s, r)'
        <5>1. /\ Unborn(s, r) /\ p.gone = o.gone /\ rows' = rows /\ trail' = trail
          BY <1>1, <2>5, <4>5
        <5>2. /\ ~o.gone /\ rows[r] = None /\ ~Has(trail, r)
              /\ \A i \in DOMAIN levels[s] :
                   r \notin DOMAIN levels[s][i].rows /\ ~Has(levels[s][i].trail, r)
              /\ \A q \in Sessions \ {s} : object[q][r].state = "absent"
          BY <2>1, <2>3, <5>1 DEF ObjectOK
        <5>3. \A i \in DOMAIN levels'[s] : i \in DOMAIN levels[s] /\ levels'[s][i] = levels[s][i]
          BY <1>4, <1>10, <1>11
        <5>4. \A i \in DOMAIN levels'[s] : Has(levels[s][i].trail, r)' => Has(levels[s][i].trail, r)
          BY <5>3 DEF Has
        <5>5. \A q \in Sessions \ {s} : object'[q][r].state = "absent"
          BY <1>13, <5>2
        <5>6. ~Has(trail, r)'
          BY <5>1, <5>2 DEF Has
        <5> QED BY <5>1, <5>2, <5>3, <5>4, <5>5, <5>6
      <4> QED BY <2>3, <3>2, <4>3, <4>4, <4>6 DEF ObjectOK
    <3> QED BY <2>5, <3>1, <3>2
  <2>6. CASE p.state = "expired"
    BY <2>3, <2>6 DEF ObjectOK, Unborn
  <2>7. CASE /\ r \notin inner.inserted
             /\ r \in inner.removed \/ o.state = "doomed"
             /\ p.state = "persistent"
             /\ p.id = o.id /\ p.value = o.value /\ p.base = o.base
             /\ p.gone = o.gone /\ p.wasGone = o.wasGone
    <3>1. o.state \in {"doomed", "deleted"}
      <4>1. CASE r \in inner.removed
        BY <1>1, <1>3, <1>4, <2>1, <4>1 DEF SessionOK, RemovedStay
      <4> QED BY <2>7, <4>1
    <3>2. Known(r)' \/ r \in DOMAIN Here(s)'.rows
      BY <1>16, <2>3, <2>4, <2>7, <3>1
    <3>3. /\ p.value \in Values /\ p.base \in Values /\ p.id
          /\ p.gone => p.wasGone
      BY <2>4, <2>7, <3>1
    <3> QED BY <2>3, <2>7, <3>2, <3>3 DEF ObjectOK, Unborn
  <2>8. CASE /\ r \notin inner.inserted
             /\ o.state \notin {"pending", "doomed"} /\ ~Changed(o) /\ p = o
    <3>1. /\ object[s][r].state \notin {"pending", "doomed"}
          /\ object[s][r].state = "persistent" /\ object[s][r].gone => object[s][r].wasGone
      <4>1. o.state = "persistent" => o.gone = o.wasGone
        BY <2>8 DEF Changed
      <4> QED BY <2>1, <2>8, <4>1
    <3>2. r \in DOMAIN Here(s).rows => Known(r) \/ r \in DOMAIN Here(s)'.rows
      BY <1>4, <1>16, <2>3, <2>8
    <3>3. \A i \in DOMAIN levels'[s] : i \in DOMAIN levels[s] /\ levels'[s][i] = levels[s][i]
      BY <1>4, <1>10, <1>11
    <3>4. \A i \in DOMAIN levels'[s] :
            /\ r \in levels'[s][i].locked => r \in levels[s][i].locked
            /\ r \in DOMAIN levels'[s][i].rows => r \in DOMAIN levels[s][i].rows
            /\ Has(levels[s][i].trail, r)' => Has(levels[s][i].trail, r)
      BY <3>3 DEF Has
    <3>5. \A q \in Sessions : object'[q][r] = object[q][r]
      BY <1>13, <2>1, <2>3, <2>8
    <3> QED BY <1>1, <2>3, <3>1, <3>2, <3>3, <3>4, <3>5, ObjectStays
  <2> QED BY <1>1, <1>4, <2>1, <2>2, <2>5, <2>6, <2>7, <2>8, RollsBack
<1>19. DoingOK(s)'
  BY <1>10, <1>12 DEF DoingOK, Idle
<1>20. ASSUME NEW i \in 1 .. n
       PROVE  LevelOK(s, i)' /\ EntriesOK(s, i)' /\ BlockTells(s, i)'
  <2>1. /\ LevelOK(s, i) /\ EntriesOK(s, i) /\ BlockTells(s, i)
        /\ levels'[s][i] = levels[s][i]
    BY <1>1, <1>4, <1>11 DEF SessionOK
  <2>2. i > 1 => levels'[s][i - 1] = levels[s][i - 1]
    <3>1. i > 1 => i - 1 \in 1 .. n
      OBVIOUS
    <3> QED BY <1>11, <3>1
  <2>3. LevelOK(s, i)'
    BY <1>1, <2>1, <2>2 DEF LevelOK, Known, Has
  <2>4. Entries(s, i)' = Entries(s, i)
    <3>1. i # Top(s)
      BY <1>2
    <3>2. doing'[s].step # "recording"
      BY <1>12
    <3> QED BY <2>1, <3>1, <3>2 DEF Entries, Coming
  <2>5. EntriesOK(s, i)'
    BY <1>1, <2>1, <2>4 DEF EntriesOK, Known, Has
  <2>6. Seen(levels[s][i])' = Seen(levels[s][i])
    BY <1>1, <2>1 DEF Seen
  <2>7. BlockTells(s, i)'
    BY <1>1, <2>1, <2>4, <2>6 DEF BlockTells
  <2> QED BY <2>3, <2>5, <2>7
<1>21. ASSUME NEW i \in 1 .. n, NEW k \in 1 .. n, NEW y
       PROVE  /\ Overwritten(s, i, k, y)' <=> Overwritten(s, i, k, y)
              /\ Removed(s, i, k, y)' <=> Removed(s, i, k, y)
  <2>1. \A j \in i + 1 .. k : j \in 1 .. n
    OBVIOUS
  <2> QED BY <1>11, <2>1 DEF Overwritten, Removed
<1>22. BlocksAgree(s)'
  <2>1. ASSUME NEW i \in 1 .. n, NEW k \in 1 .. n, i < k
        PROVE  /\ levels'[s][i].claimed \subseteq levels'[s][k].claimed
               /\ \A r \in Rows : ~Overwritten(s, i, k, r)' /\ ~Removed(s, i, k, r)' =>
                    /\ r \in DOMAIN levels'[s][i].rows <=> r \in DOMAIN levels'[s][k].rows
                    /\ r \in DOMAIN levels'[s][i].rows =>
                         levels'[s][i].rows[r] = levels'[s][k].rows[r]
    BY <1>1, <1>4, <1>11, <1>21, <2>1 DEF SessionOK, BlocksAgree
  <2> QED BY <1>10, <2>1 DEF BlocksAgree
<1>23. RemovedStay(s)'
  <2>1. ASSUME NEW j \in 1 .. n, NEW y \in levels'[s][j].removed
        PROVE  /\ object'[s][y].state = "deleted"
               /\ \A k \in j .. n : y \in DOMAIN levels'[s][k].rows
                                    /\ levels'[s][k].rows[y] = None
               /\ \A k \in j + 1 .. n :
                    y \notin levels'[s][k].inserted \cup levels'[s][k].updated
                              \cup levels'[s][k].removed
    <3>1. y \in levels[s][j].removed /\ j \in DOMAIN levels[s] /\ y \in Rows
      BY <1>1, <1>4, <1>11, <2>1, Fields
    <3>2. /\ object[s][y].state = "deleted"
          /\ \A k \in j .. n + 1 : y \in DOMAIN levels[s][k].rows /\ levels[s][k].rows[y] = None
          /\ \A k \in j + 1 .. n + 1 :
               y \notin levels[s][k].inserted \cup levels[s][k].updated
                         \cup levels[s][k].removed
      BY <1>1, <1>2, <3>1 DEF SessionOK, RemovedStay
    <3>3. /\ \A k \in j .. n : k \in j .. n + 1 /\ k \in 1 .. n
          /\ \A k \in j + 1 .. n : k \in j + 1 .. n + 1 /\ k \in 1 .. n
          /\ n + 1 \in j + 1 .. n + 1
      OBVIOUS
    <3>4. y \notin inner.inserted \cup inner.updated \cup inner.removed
      BY <1>3, <3>2, <3>3
    <3>5. object'[s][y].state = "deleted"
      <4>1. PICK o : o = object[s][y]
        OBVIOUS
      <4>2. ~Changed(o) /\ o.state = "deleted"
        BY <3>2, <4>1 DEF Changed
      <4> QED BY <1>1, <1>4, <1>13, <3>1, <3>4, <4>1, <4>2, RollsBack
    <3> QED BY <1>11, <3>2, <3>3, <3>5
  <2> QED BY <1>10, <2>1 DEF RemovedStay
<1>24. ClaimsOK(s)'
  <2>1. ASSUME NEW i \in 1 .. n, NEW y \in levels'[s][i].claimed,
               ~Overwritten(s, i, n, y)',
               \/ object'[s][y].state \in {"persistent", "doomed"}
               \/ object'[s][y].state = "deleted" /\ Removed(s, i, n, y)'
        PROVE  Seen(levels[s][i])'[y] = [value |-> object'[s][y].base,
                                         deleted |-> object'[s][y].wasGone]
    <3>1. y \in levels[s][i].claimed /\ i \in DOMAIN levels[s] /\ y \in Rows
      BY <1>1, <1>4, <1>11, <2>1, Fields
    <3>2. PICK o : o = object[s][y]
      OBVIOUS
    <3>3. PICK p : p = RolledBack(s, y)
      OBVIOUS
    <3>4. object'[s][y] = p
      BY <1>13, <3>1, <3>3
    <3>5. ~Overwritten(s, i, n, y)
      BY <1>21, <1>4, <2>1
    <3>6. /\ \A j \in i + 1 .. n + 1 : j \in i + 1 .. n \/ j = n + 1
          /\ \A j \in i + 1 .. n : j \in i + 1 .. n + 1
          /\ n + 1 \in i + 1 .. n + 1
      OBVIOUS
    <3>7. y \notin inner.inserted \cup inner.updated => ~Overwritten(s, i, n + 1, y)
      BY <1>3, <3>5, <3>6 DEF Overwritten
    <3>8. y \in inner.removed => Removed(s, i, n + 1, y)
      BY <1>3, <3>6 DEF Removed
    <3>9. Removed(s, i, n, y)' => Removed(s, i, n + 1, y)
      <4>1. Removed(s, i, n, y)' => Removed(s, i, n, y)
        BY <1>4, <1>21
      <4> QED BY <3>6, <4>1 DEF Removed
    <3>10. y \in inner.removed => o.state = "deleted"
      BY <1>1, <1>3, <1>4, <3>2 DEF SessionOK, RemovedStay
    <3>11. /\ y \notin inner.inserted \cup inner.updated
           /\ p.base = o.base /\ p.wasGone = o.wasGone
           /\ \/ o.state \in {"persistent", "doomed"}
              \/ o.state = "deleted" /\ Removed(s, i, n + 1, y)
      <4>1. p.state \notin {"expired", "transient"}
        BY <2>1, <3>4
      <4>2. \/ /\ y \notin inner.inserted /\ y \notin inner.updated
               /\ y \in inner.removed \/ o.state = "doomed"
               /\ p.base = o.base /\ p.wasGone = o.wasGone
            \/ y \notin inner.inserted \cup inner.updated /\ p = o
        BY <1>1, <1>4, <3>1, <3>2, <3>3, <4>1, RollsBack
      <4> QED BY <2>1, <3>4, <3>8, <3>9, <3>10, <4>2
    <3>12. Seen(levels[s][i])[y] = [value |-> o.base, deleted |-> o.wasGone]
      BY <1>1, <1>2, <3>1, <3>2, <3>7, <3>11 DEF SessionOK, ClaimsOK
    <3>13. Seen(levels[s][i])' = Seen(levels[s][i])
      BY <1>1, <1>11, <2>1 DEF Seen
    <3> QED BY <3>4, <3>11, <3>12, <3>13
  <2> QED BY <1>10, <2>1 DEF ClaimsOK
<1>25. SessionOK(s)'
  BY <1>10, <1>18, <1>19, <1>20, <1>22, <1>23, <1>24 DEF SessionOK
<1>26. \A i \in DOMAIN levels'[s] : \A y \in levels'[s][i].locked : Free(s, y)
  BY <1>4, <1>10, <1>11, OwnLocks
<1>27. \A y \in Rows : object[s][y].state = "absent" => object'[s][y].state = "absent"
  <2>1. ASSUME NEW y \in Rows, object[s][y].state = "absent" PROVE object'[s][y].state = "absent"
    <3>1. PICK o : o = object[s][y]
      OBVIOUS
    <3>2. ~Changed(o) /\ o.state = "absent" /\ y \notin inner.inserted \cup inner.updated \cup inner.removed
      BY <1>17, <2>1, <3>1 DEF Changed
    <3> QED BY <1>1, <1>4, <1>13, <3>1, <3>2, RollsBack
  <2> QED BY <2>1
<1> QED BY <1>1, <1>8, <1>12, <1>13, <1>14, <1>25, <1>26, <1>27, OneSession

(* What a session commits is what its block told.                          *)
LEMMA CommitKeeps ==
  ASSUME IInv, NEW s \in Sessions, Commit(s)
  PROVE  IInv'
<1>1. PICK mine : mine = levels[s][1]
  OBVIOUS
<1>2. /\ Types /\ SessionOK(s) /\ DoingOK(s) /\ doing[s].step = "idle" /\ Top(s) = 1 /\ End(s)
      /\ rows' = Seen(mine) /\ trail' = trail \o mine.trail /\ stray' = stray \cup mine.stray
      /\ neglected' = neglected \cup unsaved[s]
  BY <1>1 DEF Commit, IInv, SessionOK, Stored, Here
<1>3. /\ 1 \in DOMAIN levels[s] /\ mine \in Levels /\ mine.trail \in Seq(Entry)
      /\ mine.stray \subseteq Rows
  <2>1. 1 \in DOMAIN levels[s] /\ mine \in Levels
    BY <1>1, <1>2, Begun
  <2> QED BY <2>1 DEF Levels
<1>4. LevelOK(s, 1) /\ EntriesOK(s, 1) /\ BlockTells(s, 1) /\ Entries(s, 1) = mine.trail
  BY <1>1, <1>2, <1>3, Quiet DEF SessionOK
<1>5. /\ rows' \in [Rows -> Row \cup {None}]
      /\ \A r \in Rows : rows'[r] = IF r \in DOMAIN mine.rows THEN mine.rows[r] ELSE rows[r]
  BY <1>2, <1>3, SeenRow DEF Types
<1>6. trail \in Seq(Entry) /\ trail' \in Seq(Entry) /\ trail \o <<>> = trail
  BY <1>2, <1>3, Joined DEF Types
<1>7. Types'
  BY <1>2, <1>3, <1>5, <1>6, Ended DEF Types
<1>8. RowsTold'
  <2>1. ASSUME NEW r \in Rows, r \notin stray'
        PROVE  TellsOf(r)' /\ (rows'[r] # None => rows'[r].value \notin Invalid)
    <3>1. /\ Tells(trail \o mine.trail, r, rows'[r])
          /\ rows'[r] # None => rows'[r].value \notin Invalid
      BY <1>1, <1>2, <1>4, <2>1 DEF BlockTells
    <3> QED BY <1>2, <3>1 DEF TellsOf
  <2> QED BY <2>1 DEF RowsTold
<1>9. \A r : Known(r) => Known(r)'
  <2>1. \A r : Has(trail, r) => Has(trail, r)'
    <3>1. \A r : Has(trail, r) => Has(trail \o mine.trail, r)
      BY <1>3, <1>6, JoinedHas
    <3> QED BY <1>2, <3>1 DEF Has
  <2> QED BY <1>2, <2>1 DEF Known
<1>10. /\ \A q \in Sessions \ {s} : /\ levels'[q] = levels[q] /\ object'[q] = object[q]
                                    /\ pending'[q] = pending[q] /\ doing'[q] = doing[q]
       /\ \A r \in Rows : object'[s][r].state = "absent"
       /\ SessionOK(s)' /\ levels'[s] = <<>>
  BY <1>2, Ended DEF Absent
<1>11. ASSUME NEW q \in Sessions \ {s} PROVE SessionOK(q)'
  <2>1. SessionOK(q) /\ object'[q] = object[q] /\ levels'[q] = levels[q]
        /\ pending'[q] = pending[q] /\ doing'[q] = doing[q]
    BY <1>10 DEF IInv
  <2>2. \A i \in DOMAIN levels[q] : levels[q][i].locked \cap mine.locked = {}
    BY <1>1, <1>3 DEF IInv, LocksApart
  <2>3. DOMAIN mine.rows \subseteq mine.locked
    BY <1>1, <1>4 DEF LevelOK
  <2>4. DoingOK(q)'
    BY <2>1 DEF SessionOK, DoingOK
  <2>5. ASSUME NEW r \in Rows PROVE ObjectOK(q, r)'
    <3>1. ObjectOK(q, r) /\ ObjectOK(s, r)
      BY <1>2, <2>1 DEF SessionOK
    <3>2. PICK o : o = object[q][r]
      OBVIOUS
    <3>3. /\ object'[q][r] = o /\ (Unborn(q, r)' <=> Unborn(q, r))
          /\ Here(q)' = Here(q) /\ (Deleting(q, r)' <=> Deleting(q, r))
      BY <2>1, <3>2 DEF Unborn, Here, Top, Deleting
    <3>4. \A i \in DOMAIN levels'[q] : Has(levels[q][i].trail, r)' <=> Has(levels[q][i].trail, r)
      BY <2>1 DEF Has
    <3>5. ASSUME Unborn(q, r)
          PROVE  /\ rows'[r] = None /\ ~Has(trail, r)'
                 /\ \A t \in Sessions \ {q} : object'[t][r].state = "absent"
      <4>1. /\ object[s][r].state = "absent" /\ rows[r] = None /\ ~Has(trail, r)
            /\ \A t \in Sessions \ {q} : object[t][r].state = "absent"
        BY <3>1, <3>5 DEF ObjectOK
      <4>2. r \notin mine.locked /\ ~Has(mine.trail, r)
        BY <1>1, <1>3, <3>1, <4>1 DEF ObjectOK
      <4>3. rows'[r] = None
        BY <1>5, <2>3, <4>1, <4>2
      <4>4. ~Has(trail \o mine.trail, r)
        BY <1>3, <1>6, <4>1, <4>2, JoinedHas
      <4>5. ~Has(trail, r)'
        BY <1>2, <4>4 DEF Has
      <4> QED BY <1>10, <4>1, <4>3, <4>5
    <3>6. Known(r) => Known(r)'
      BY <1>9
    <3>7. /\ o.state \in {"transient", "pending", "persistent", "doomed", "deleted"} =>
               o.value \in Values /\ (o.id => o.base \in Values)
          /\ o.state \in {"transient", "pending"} => r \notin Old
          /\ o.state \in {"persistent", "doomed", "deleted"} =>
               o.id /\ (Known(r)' \/ r \in DOMAIN Here(q)'.rows)
          /\ o.state = "absent" =>
               /\ o = Absent
               /\ \A i \in DOMAIN levels'[q] :
                    r \notin levels'[q][i].locked /\ ~Has(levels[q][i].trail, r)'
          /\ o.state = "persistent" /\ o.gone => o.wasGone \/ Deleting(q, r)'
          /\ o.state \in {"doomed", "deleted"} /\ o.gone => o.wasGone
          /\ o.state = "pending" =>
               doing'[q].step = "flushing" /\ doing'[q].row = r /\ doing'[q].how # "delete"
          /\ o.state = "doomed" => Deleting(q, r)'
      BY <2>1, <3>1, <3>2, <3>3, <3>4, <3>6 DEF ObjectOK
    <3>8. Unborn(q, r)' =>
            /\ ~o.gone /\ rows'[r] = None /\ ~Has(trail, r)'
            /\ \A i \in DOMAIN levels'[q] :
                 r \notin DOMAIN levels'[q][i].rows /\ ~Has(levels[q][i].trail, r)'
            /\ \A t \in Sessions \ {q} : object'[t][r].state = "absent"
      BY <2>1, <3>1, <3>2, <3>3, <3>4, <3>5 DEF ObjectOK
    <3> QED BY <3>3, <3>7, <3>8 DEF ObjectOK
  <2>6. \A i : Entries(q, i)' = Entries(q, i)
    BY <2>1 DEF Entries, Coming, Top, EntriesOf
  <2>7. ASSUME NEW i \in DOMAIN levels[q]
        PROVE  LevelOK(q, i)' /\ EntriesOK(q, i)' /\ BlockTells(q, i)'
    <3>1. LevelOK(q, i) /\ EntriesOK(q, i) /\ BlockTells(q, i)
      BY <2>1 DEF SessionOK
    <3>2. LevelOK(q, i)'
      BY <1>9, <2>1, <3>1 DEF LevelOK
    <3>3. EntriesOK(q, i)'
      BY <1>9, <2>1, <2>6, <3>1 DEF EntriesOK
    <3>4. Entries(q, i) \in Seq(Entry)
      BY <1>2, <2>1, EntriesTyped
    <3>5. /\ levels[q][i] \in Levels /\ DOMAIN levels[q][i].rows \subseteq levels[q][i].locked
      BY <1>2, <2>7, <3>1, Fields DEF LevelOK
    <3>6. ASSUME NEW r \in Rows, r \notin stray', r \notin levels[q][i].stray
          PROVE  /\ Tells(trail' \o Entries(q, i), r, Seen(levels[q][i])'[r])
                 /\ Seen(levels[q][i])'[r] # None =>
                      Seen(levels[q][i])'[r].value \notin Invalid
                 /\ r \in DOMAIN levels[q][i].rows => Has(trail' \o Entries(q, i), r)
      <4>1. /\ r \notin stray /\ r \notin mine.stray /\ (Known(r) => Has(trail, r))
        BY <1>2, <3>6 DEF Known
      <4>2. /\ Tells(trail \o Entries(q, i), r, Seen(levels[q][i])[r])
            /\ Seen(levels[q][i])[r] # None => Seen(levels[q][i])[r].value \notin Invalid
            /\ r \in DOMAIN levels[q][i].rows => Has(trail \o Entries(q, i), r)
        BY <3>1, <3>6, <4>1 DEF BlockTells
      <4>3. Seen(levels[q][i])[r] = IF r \in DOMAIN levels[q][i].rows
                                    THEN levels[q][i].rows[r] ELSE rows[r]
        BY DEF Seen
      <4>4. Seen(levels[q][i])'[r] = IF r \in DOMAIN levels[q][i].rows
                                     THEN levels[q][i].rows[r] ELSE rows'[r]
        BY <2>1 DEF Seen
      <4>5. r \in DOMAIN levels[q][i].rows => Has(trail' \o Entries(q, i), r)
        <5>1. Has(trail \o Entries(q, i), r) => Has(trail, r) \/ Has(Entries(q, i), r)
          BY <1>6, <3>4, JoinedHas
        <5>2. Has(trail, r) => Has(trail \o mine.trail, r)
          BY <1>3, <1>6, JoinedHas
        <5>3. Has(trail \o mine.trail, r) \/ Has(Entries(q, i), r) =>
                Has((trail \o mine.trail) \o Entries(q, i), r)
          <6>1. trail \o mine.trail \in Seq(Entry)
            BY <1>2, <1>6
          <6> QED BY <3>4, <6>1, JoinedHas
        <5> QED BY <1>2, <4>2, <5>1, <5>2, <5>3
      <4>6. CASE r \in DOMAIN mine.rows
        <5>1. r \notin DOMAIN levels[q][i].rows
          BY <2>2, <2>3, <3>5, <4>6
        <5>2. Seen(levels[q][i])'[r] = rows'[r]
          BY <4>4, <5>1
        <5>3. /\ Tells(trail \o mine.trail, r, rows'[r])
              /\ rows'[r] # None => rows'[r].value \notin Invalid
          BY <1>1, <1>2, <1>4, <4>1 DEF BlockTells
        <5>4. PICK u : u = trail \o mine.trail
          OBVIOUS
        <5>5. u \in Seq(Entry) /\ u \o <<>> = u /\ <<>> \in Seq(Entry)
          BY <1>2, <1>6, <5>4
        <5>6. ASSUME NEW k \in DOMAIN Entries(q, i), Entries(q, i)[k].row = r
              PROVE  Entries(q, i)[k].event = "deleted" /\ Has(u, r)
          <6>1. Entries(q, i)[k].event = "deleted" /\ Known(r)
            BY <3>1, <5>1, <5>6 DEF EntriesOK
          <6>2. Has(trail \o mine.trail, r)
            BY <1>3, <1>6, <4>1, <6>1, JoinedHas
          <6> QED BY <5>4, <6>1, <6>2
        <5>7. Tells((u \o Entries(q, i)) \o <<>>, r, rows'[r])
          BY <3>4, <5>3, <5>4, <5>5, <5>6, TellsThrough
        <5>8. (u \o Entries(q, i)) \o <<>> = u \o Entries(q, i)
          <6>1. u \o Entries(q, i) \in Seq(Entry)
            BY <3>4, <5>5, Joined
          <6> QED BY <6>1
        <5> QED BY <1>2, <4>5, <5>2, <5>3, <5>4, <5>7, <5>8
      <4>7. CASE r \notin DOMAIN mine.rows
        <5>1. Seen(levels[q][i])'[r] = Seen(levels[q][i])[r]
          BY <1>5, <4>3, <4>4, <4>7
        <5>2. ASSUME NEW k \in DOMAIN mine.trail, mine.trail[k].row = r
              PROVE  mine.trail[k].event = "deleted" /\ Has(trail, r)
          BY <1>1, <1>4, <4>1, <4>7, <5>2 DEF EntriesOK
        <5>3. Tells((trail \o mine.trail) \o Entries(q, i), r, Seen(levels[q][i])[r])
          BY <1>3, <1>6, <3>4, <4>2, <5>2, TellsThrough
        <5> QED BY <1>2, <4>2, <4>5, <5>1, <5>3
      <4> QED BY <4>6, <4>7
    <3>7. BlockTells(q, i)'
      BY <2>1, <2>6, <3>6 DEF BlockTells
    <3> QED BY <3>2, <3>3, <3>7
  <2>8. BlocksAgree(q)'
    BY <2>1 DEF SessionOK, BlocksAgree, Overwritten, Removed
  <2>9. RemovedStay(q)'
    BY <2>1 DEF SessionOK, RemovedStay, Top
  <2>10. ClaimsOK(q)'
    <3>1. ASSUME NEW i \in DOMAIN levels[q], NEW r \in levels[q][i].claimed
          PROVE  Seen(levels[q][i])'[r] = Seen(levels[q][i])[r]
      <4>1. r \in Rows /\ LevelOK(q, i)
        BY <1>2, <2>1, Fields DEF SessionOK
      <4>2. r \notin DOMAIN mine.rows
        BY <2>2, <2>3, <3>1, <4>1 DEF LevelOK
      <4> QED BY <1>5, <2>1, <4>1, <4>2 DEF Seen
    <3>2. /\ \A i, k, r : Overwritten(q, i, k, r)' <=> Overwritten(q, i, k, r)
          /\ \A i, k, r : Removed(q, i, k, r)' <=> Removed(q, i, k, r)
          /\ Top(q)' = Top(q) /\ ClaimsOK(q)
      BY <2>1 DEF SessionOK, Overwritten, Removed, Top
    <3> QED BY <2>1, <3>1, <3>2 DEF ClaimsOK
  <2> QED BY <2>1, <2>4, <2>5, <2>7, <2>8, <2>9, <2>10 DEF SessionOK
<1>12. LocksApart'
  <2>1. DOMAIN levels'[s] = {}
    BY <1>10
  <2>2. ASSUME NEW q \in Sessions, NEW t \in Sessions, q # t,
               NEW i \in DOMAIN levels'[q], NEW k \in DOMAIN levels'[t]
        PROVE  levels'[q][i].locked \cap levels'[t][k].locked = {}
    <3>1. q # s /\ t # s
      BY <2>1, <2>2
    <3> QED BY <1>10, <2>2, <3>1 DEF IInv, LocksApart
  <2> QED BY <2>2 DEF LocksApart
<1> QED BY <1>7, <1>8, <1>10, <1>11, <1>12 DEF IInv

(***************************************************************************)
(* Flushes                                                                 *)
(***************************************************************************)

LEMMA WrittenRow ==
  ASSUME IInv, NEW s \in Sessions, doing[s].step # "done", NEW r \in Dirty(s),
         object[s][r].state = "persistent" => Stored(s)[r] # None
  PROVE  /\ r \in Rows /\ object[s][r].state \in {"pending", "doomed", "persistent"}
         /\ object[s][r].value \in Values /\ object[s][r].gone \in BOOLEAN
         /\ Written(s, r) \in Row \cup {None}
         /\ object[s][r].state = "doomed" => Written(s, r) = None
         /\ object[s][r].state = "pending" =>
              Written(s, r) = [value |-> object[s][r].value, deleted |-> object[s][r].gone]
         /\ object[s][r].state = "persistent" =>
              /\ Stored(s)[r] \in Row
              /\ Written(s, r) =
                   [value |-> IF object[s][r].value # object[s][r].base
                              THEN object[s][r].value ELSE Stored(s)[r].value,
                    deleted |-> IF object[s][r].gone # object[s][r].wasGone
                                THEN object[s][r].gone ELSE Stored(s)[r].deleted]
<1> PICK o : o = object[s][r]
  OBVIOUS
<1>1. r \in Rows /\ o.state \in {"pending", "doomed", "persistent"}
  BY DEF Dirty, Changed
<1>2. ObjectOK(s, r) /\ Types /\ SessionOK(s)
  BY <1>1 DEF IInv, SessionOK
<1>3. o.value \in Values /\ o.gone \in BOOLEAN
  BY <1>1, <1>2 DEF ObjectOK, Types, Instances
<1>4. Stored(s) \in [Rows -> Row \cup {None}]
  BY <1>2, Begun, SeenRow DEF SessionOK, Stored, Types
<1>5. CASE o.state = "doomed"
  <2>1. Written(s, r) = None
    BY <1>5 DEF Written
  <2> QED BY <1>1, <1>3, <1>5, <2>1
<1>6. CASE o.state = "pending"
  <2>1. Written(s, r) = [value |-> o.value, deleted |-> o.gone]
    BY <1>6 DEF Written
  <2>2. [value |-> o.value, deleted |-> o.gone] \in Row
    BY <1>3 DEF Row
  <2> QED BY <1>1, <1>3, <1>6, <2>1, <2>2
<1>7. CASE o.state = "persistent"
  <2> PICK x : x = Stored(s)[r]
    OBVIOUS
  <2> PICK v : v = IF o.value # o.base THEN o.value ELSE x.value
    OBVIOUS
  <2> PICK g : g = IF o.gone # o.wasGone THEN o.gone ELSE x.deleted
    OBVIOUS
  <2>1. x \in Row
    BY <1>1, <1>4, <1>7
  <2>2. x.value \in Values /\ x.deleted \in BOOLEAN
    BY <2>1 DEF Row
  <2>3. v \in Values /\ g \in BOOLEAN
    BY <1>3, <2>2
  <2>4. Written(s, r) = [value |-> v, deleted |-> g]
    BY <1>7 DEF Written
  <2>5. [value |-> v, deleted |-> g] \in Row
    BY <2>3 DEF Row
  <2> QED BY <1>1, <1>3, <1>7, <2>1, <2>4, <2>5
<1> QED BY <1>1, <1>5, <1>6, <1>7

(* What a flush makes of the session's block.                              *)
Flushed(s, astray, b) ==
  LET here == Here(s)
  IN /\ b \in Levels /\ levels' = [levels EXCEPT ![s][Top(s)] = b]
     /\ DOMAIN b.rows = Dirty(s) \cup DOMAIN here.rows
     /\ \A r \in Dirty(s) : b.rows[r] = Written(s, r)
     /\ \A r \in DOMAIN here.rows : r \notin Dirty(s) => b.rows[r] = here.rows[r]
     /\ b.inserted = here.inserted \cup {r \in Dirty(s) : object[s][r].state = "pending"}
     /\ b.updated = here.updated \cup {r \in Dirty(s) : object[s][r].state = "persistent"}
     /\ b.removed = here.removed \cup {r \in Dirty(s) : object[s][r].state = "doomed"}
     /\ b.locked = here.locked \cup Dirty(s) /\ b.claimed = here.claimed
     /\ b.trail = here.trail /\ b.stray = here.stray \cup (astray \cap Dirty(s))

LEMMA FlushWrites ==
  ASSUME IInv, NEW s \in Sessions, doing[s].step # "done", NEW astray, FlushAll(s, astray)
  PROVE  \E b : Flushed(s, astray, b)
<1> PICK D : D = Dirty(s)
  OBVIOUS
<1> PICK here : here = Here(s)
  OBVIOUS
<1>1. /\ here \in Levels /\ D \subseteq Rows
      /\ \A r \in D : object[s][r].state = "persistent" => Stored(s)[r] # None
  BY Begun DEF IInv, SessionOK, Dirty, FlushAll
<1>2. /\ here.rows \in [DOMAIN here.rows -> Row \cup {None}] /\ DOMAIN here.rows \subseteq Rows
      /\ here.inserted \subseteq Rows /\ here.updated \subseteq Rows
      /\ here.removed \subseteq Rows /\ here.locked \subseteq Rows
      /\ here.claimed \subseteq Rows /\ here.stray \subseteq Rows /\ here.trail \in Seq(Entry)
  BY <1>1, SeenRow DEF Levels, IInv, Types
<1> PICK new : new = [r \in D \cup DOMAIN here.rows |->
                        IF r \in D THEN Written(s, r) ELSE here.rows[r]]
  OBVIOUS
<1>3. new \in [D \cup DOMAIN here.rows -> Row \cup {None}]
  <2>1. \A r \in D : Written(s, r) \in Row \cup {None}
    BY <1>1, WrittenRow
  <2>2. \A r \in DOMAIN here.rows : here.rows[r] \in Row \cup {None}
    BY <1>2
  <2> QED BY <2>1, <2>2
<1>4. new \in PartialRows(Rows)
  <2> PICK E : E = D \cup DOMAIN here.rows
    OBVIOUS
  <2>1. E \in SUBSET Rows /\ new \in [E -> Row \cup {None}]
    BY <1>1, <1>2, <1>3
  <2> QED BY <2>1 DEF PartialRows
<1> PICK b : b = [here EXCEPT !.rows = new,
                    !.inserted = here.inserted \cup {r \in D : object[s][r].state = "pending"},
                    !.updated = here.updated \cup {r \in D : object[s][r].state = "persistent"},
                    !.removed = here.removed \cup {r \in D : object[s][r].state = "doomed"},
                    !.locked = here.locked \cup D,
                    !.stray = here.stray \cup (astray \cap D)]
  OBVIOUS
<1>5. /\ b.rows = new /\ b.trail = here.trail /\ b.claimed = here.claimed
      /\ b.inserted = here.inserted \cup {r \in D : object[s][r].state = "pending"}
      /\ b.updated = here.updated \cup {r \in D : object[s][r].state = "persistent"}
      /\ b.removed = here.removed \cup {r \in D : object[s][r].state = "doomed"}
      /\ b.locked = here.locked \cup D /\ b.stray = here.stray \cup (astray \cap D)
  BY <1>1 DEF Levels
<1>6. b \in Levels
  <2> PICK i, u, d, l, y :
         /\ i = here.inserted \cup {r \in D : object[s][r].state = "pending"}
         /\ u = here.updated \cup {r \in D : object[s][r].state = "persistent"}
         /\ d = here.removed \cup {r \in D : object[s][r].state = "doomed"}
         /\ l = here.locked \cup D /\ y = here.stray \cup (astray \cap D)
    OBVIOUS
  <2>1. /\ i \in SUBSET Rows /\ u \in SUBSET Rows /\ d \in SUBSET Rows
        /\ l \in SUBSET Rows /\ y \in SUBSET Rows
    BY <1>1, <1>2
  <2>2. b = [here EXCEPT !.rows = new, !.inserted = i, !.updated = u, !.removed = d,
                         !.locked = l, !.stray = y]
    OBVIOUS
  <2>3. b = [rows |-> new, trail |-> here.trail, inserted |-> i, updated |-> u,
             removed |-> d, locked |-> l, claimed |-> here.claimed, stray |-> y]
    BY <1>1, <2>2 DEF Levels
  <2> QED BY <1>2, <1>4, <2>1, <2>3 DEF Levels
<1>7. levels' = [levels EXCEPT ![s][Top(s)] = b]
  BY DEF FlushAll
<1>8. DOMAIN b.rows = D \cup DOMAIN here.rows
  BY <1>5
<1>9. \A r \in D : b.rows[r] = Written(s, r)
  BY <1>5
<1>10. \A r \in DOMAIN here.rows : r \notin D => b.rows[r] = here.rows[r]
  BY <1>5
<1>11. Flushed(s, astray, b) <=>
  /\ b \in Levels /\ levels' = [levels EXCEPT ![s][Top(s)] = b]
  /\ DOMAIN b.rows = D \cup DOMAIN here.rows
  /\ \A r \in D : b.rows[r] = Written(s, r)
  /\ \A r \in DOMAIN here.rows : r \notin D => b.rows[r] = here.rows[r]
  /\ b.inserted = here.inserted \cup {r \in D : object[s][r].state = "pending"}
  /\ b.updated = here.updated \cup {r \in D : object[s][r].state = "persistent"}
  /\ b.removed = here.removed \cup {r \in D : object[s][r].state = "doomed"}
  /\ b.locked = here.locked \cup D /\ b.claimed = here.claimed
  /\ b.trail = here.trail /\ b.stray = here.stray \cup (astray \cap D)
  BY DEF Flushed
<1>12. Flushed(s, astray, b)
  BY <1>5, <1>6, <1>7, <1>8, <1>9, <1>10, <1>11
<1> QED BY <1>12

(* What a flush makes of the session's instances.                          *)
LEMMA FlushCleans ==
  ASSUME IInv, NEW s \in Sessions, doing[s].step # "done", NEW astray, FlushAll(s, astray)
  PROVE  /\ object' \in [Sessions -> [Rows -> Instances]]
         /\ \A q \in Sessions \ {s} : object'[q] = object[q]
         /\ \A r \in Rows \ Dirty(s) : object'[s][r] = object[s][r]
         /\ \A r \in Dirty(s) :
              LET o == object[s][r]
                  p == object'[s][r]
              IN /\ p.value = o.value /\ p.gone = o.gone
                 /\ o.state = "doomed" =>
                      /\ p.state = "deleted" /\ p.id = o.id
                      /\ p.base = o.base /\ p.wasGone = o.wasGone
                 /\ o.state \in {"pending", "persistent"} =>
                      /\ p.state = "persistent" /\ p.id
                      /\ p.base = o.value /\ p.wasGone = o.gone
<1>1. /\ object \in [Sessions -> [Rows -> Instances]]
      /\ object' = [object EXCEPT ![s] = [r \in Rows |->
            IF r \in Dirty(s) THEN Clean(object[s][r]) ELSE object[s][r]]]
      /\ Dirty(s) \subseteq Rows
  BY DEF IInv, Types, FlushAll, Dirty
<1>2. /\ \A q \in Sessions \ {s} : object'[q] = object[q]
      /\ \A r \in Rows \ Dirty(s) : object'[s][r] = object[s][r]
      /\ \A r \in Dirty(s) : object'[s][r] = Clean(object[s][r])
  BY <1>1
<1>3. ASSUME NEW o \in Instances
      PROVE  /\ Clean(o) \in Instances
             /\ Clean(o).value = o.value /\ Clean(o).gone = o.gone
             /\ o.state = "doomed" =>
                  /\ Clean(o).state = "deleted" /\ Clean(o).id = o.id
                  /\ Clean(o).base = o.base /\ Clean(o).wasGone = o.wasGone
             /\ o.state # "doomed" =>
                  /\ Clean(o).state = "persistent" /\ Clean(o).id
                  /\ Clean(o).base = o.value /\ Clean(o).wasGone = o.gone
  BY DEF Clean, Instances
<1>4. \A r \in Rows : object[s][r] \in Instances
  BY <1>1
<1>5. object' \in [Sessions -> [Rows -> Instances]]
  BY <1>1, <1>2, <1>3, <1>4
<1> QED BY <1>1, <1>2, <1>3, <1>4, <1>5

(* The blocks and instances after a flush, whatever is done next.          *)
LEMMA FlushHolds ==
  ASSUME IInv, NEW s \in Sessions, doing[s].step \notin {"recording", "done"}, NEW astray,
         FlushAll(s, astray), NEW b, Flushed(s, astray, b), UNCHANGED <<rows, trail, stray>>
  PROVE  /\ levels' \in [Sessions -> Seq(Levels)]
         /\ object' \in [Sessions -> [Rows -> Instances]]
         /\ \A r \in Rows : ObjectOK(s, r)'
         /\ \A i \in DOMAIN levels'[s] : LevelOK(s, i)'
         /\ BlocksAgree(s)' /\ RemovedStay(s)' /\ ClaimsOK(s)'
         /\ \A q \in Sessions \ {s} : levels'[q] = levels[q] /\ object'[q] = object[q]
         /\ \A i \in DOMAIN levels'[s] : \A r \in levels'[s][i].locked : Free(s, r)
<1> PICK D : D = Dirty(s)
  OBVIOUS
<1> PICK T : T = Top(s)
  OBVIOUS
<1> PICK here : here = Here(s)
  OBVIOUS
<1>1. /\ Types /\ SessionOK(s) /\ DoingOK(s) /\ D \subseteq Rows
      /\ \A r \in D : object[s][r].state = "persistent" => Stored(s)[r] # None
      /\ \A r \in D : Free(s, r)
      /\ \A r \in D : object[s][r].state \in {"pending", "doomed", "persistent"}
      /\ \A r \in Rows : object[s][r].state \in {"pending", "doomed"} => r \in D
      /\ \A r \in Rows \ D : object[s][r].state = "persistent" =>
           object[s][r].gone = object[s][r].wasGone
  <2>1. /\ \A r \in D : object[s][r].state \in {"pending", "doomed", "persistent"}
        /\ \A r \in Rows : object[s][r].state \in {"pending", "doomed"} => r \in D
        /\ \A r \in Rows \ D : object[s][r].state = "persistent" =>
           object[s][r].gone = object[s][r].wasGone
    BY DEF Dirty, Changed
  <2>2. D \subseteq Rows /\ \A r \in D : Free(s, r)
    BY DEF FlushAll, Dirty
  <2>3. \A r \in D : object[s][r].state = "persistent" => Stored(s)[r] # None
    BY DEF FlushAll
  <2> QED BY <2>1, <2>2, <2>3 DEF IInv, SessionOK
<1>2. /\ b \in Levels /\ levels' = [levels EXCEPT ![s][Top(s)] = b]
      /\ DOMAIN b.rows = D \cup DOMAIN here.rows
      /\ \A r \in D : b.rows[r] = Written(s, r)
      /\ \A r \in DOMAIN here.rows : r \notin D => b.rows[r] = here.rows[r]
      /\ \A r : r \in b.inserted <=>
           r \in here.inserted \/ (r \in D /\ object[s][r].state = "pending")
      /\ \A r : r \in b.updated <=>
           r \in here.updated \/ (r \in D /\ object[s][r].state = "persistent")
      /\ \A r : r \in b.removed <=>
           r \in here.removed \/ (r \in D /\ object[s][r].state = "doomed")
      /\ b.locked = here.locked \cup D /\ b.claimed = here.claimed
      /\ b.trail = here.trail
  BY DEF Flushed
<1>3. /\ levels' \in [Sessions -> Seq(Levels)]
      /\ \A q \in Sessions \ {s} : levels'[q] = levels[q]
      /\ DOMAIN levels'[s] = DOMAIN levels[s] /\ DOMAIN levels[s] = 1 .. T
      /\ T \in Nat \ {0} /\ T \in DOMAIN levels[s]
      /\ Top(s)' = T /\ Here(s)' = b /\ levels'[s][T] = b
      /\ here = levels[s][T] /\ here \in Levels
      /\ \A i \in DOMAIN levels[s] : i # T => levels'[s][i] = levels[s][i]
  BY <1>1, <1>2, NewTop, ZenonT(30)
<1>4. /\ object' \in [Sessions -> [Rows -> Instances]]
      /\ \A q \in Sessions \ {s} : object'[q] = object[q]
      /\ \A r \in Rows \ D : object'[s][r] = object[s][r]
      /\ \A r \in D :
           LET o == object[s][r]
               p == object'[s][r]
           IN /\ p.value = o.value /\ p.gone = o.gone
              /\ o.state = "doomed" =>
                   /\ p.state = "deleted" /\ p.id = o.id
                   /\ p.base = o.base /\ p.wasGone = o.wasGone
              /\ o.state \in {"pending", "persistent"} =>
                   /\ p.state = "persistent" /\ p.id
                   /\ p.base = o.value /\ p.wasGone = o.gone
  BY FlushCleans
<1>5. \A r \in Rows : Known(r)' <=> Known(r)
  BY DEF Known, Has
<1>6. ASSUME NEW r \in Rows PROVE ObjectOK(s, r)'
  <2>1. ObjectOK(s, r)
    BY <1>1 DEF SessionOK
  <2>2. CASE r \notin D
    <3>1. \A i \in DOMAIN levels[s] :
             /\ r \in levels'[s][i].locked => r \in levels[s][i].locked
             /\ r \in DOMAIN levels'[s][i].rows => r \in DOMAIN levels[s][i].rows
             /\ levels'[s][i].trail = levels[s][i].trail
      BY <1>2, <1>3, <2>2
    <3>2. \A i \in DOMAIN levels'[s] : Has(levels[s][i].trail, r)' => Has(levels[s][i].trail, r)
      BY <1>3, <3>1 DEF Has
    <3>3. /\ \A q \in Sessions : object'[q][r] = object[q][r]
          /\ object[s][r].state \notin {"pending", "doomed"}
          /\ object[s][r].state = "persistent" /\ object[s][r].gone => object[s][r].wasGone
      BY <1>1, <1>4, <2>2
    <3>4. r \in DOMAIN here.rows => r \in DOMAIN Here(s)'.rows
      BY <1>2, <1>3
    <3> QED BY <1>3, <2>1, <3>1, <3>2, <3>3, <3>4, ObjectStays
  <2>3. CASE r \in D
    <3>1. r \in DOMAIN Here(s)'.rows
      BY <1>2, <1>3, <2>3
    <3> PICK o, p : o = object[s][r] /\ p = object'[s][r]
      OBVIOUS
    <3>2. o.value \in Values /\ (o.state = "doomed" => o.id /\ o.base \in Values
                                                       /\ (o.gone => o.wasGone))
      BY <1>1, <2>1, <2>3 DEF ObjectOK
    <3>3. CASE o.state = "doomed"
      <4>1. /\ p.value = o.value /\ p.gone = o.gone /\ p.state = "deleted" /\ p.id = o.id
            /\ p.base = o.base /\ p.wasGone = o.wasGone
        BY <1>4, <2>3, <3>3
      <4> QED BY <3>1, <3>2, <3>3, <4>1 DEF ObjectOK, Unborn
    <3>4. CASE o.state \in {"pending", "persistent"}
      <4>1. /\ p.value = o.value /\ p.gone = o.gone /\ p.state = "persistent" /\ p.id
            /\ p.base = o.value /\ p.wasGone = o.gone
        BY <1>4, <2>3, <3>4
      <4> QED BY <3>1, <3>2, <3>4, <4>1 DEF ObjectOK, Unborn
    <3> QED BY <1>1, <2>3, <3>3, <3>4
  <2> QED BY <2>2, <2>3
<1>7. ASSUME NEW i \in DOMAIN levels'[s] PROVE LevelOK(s, i)'
  <2>1. LevelOK(s, i)
    BY <1>1, <1>3, <1>7 DEF SessionOK
  <2>2. i \in Nat /\ i <= T /\ (i > 1 => i - 1 \in DOMAIN levels[s] /\ i - 1 # T)
    BY <1>3, <1>7
  <2>3. i > 1 => levels'[s][i - 1].rows = levels[s][i - 1].rows
    BY <1>3, <2>2
  <2>4. CASE i # T
    <3>1. levels'[s][i] = levels[s][i] /\ levels[s][i] \in Levels
      BY <1>1, <1>3, <1>7, <2>4, Fields
    <3>2. DOMAIN levels[s][i].rows \subseteq Rows
      BY <1>1, <3>1, SeenRow DEF Types
    <3>3. \A r \in DOMAIN levels[s][i].rows :
            \/ Known(r)' \/ r \in levels[s][i].inserted
            \/ (i > 1 /\ r \in DOMAIN levels'[s][i - 1].rows)
      BY <1>5, <2>1, <2>3, <3>2 DEF LevelOK
    <3> QED BY <2>1, <3>1, <3>3 DEF LevelOK
  <2>5. CASE i = T
    <3>1. /\ here.claimed \subseteq here.locked /\ DOMAIN here.rows \subseteq here.locked
          /\ here.inserted \cup here.updated \cup here.removed \subseteq DOMAIN here.rows
          /\ here.inserted \cap Old = {}
          /\ \A r \in DOMAIN here.rows :
               Known(r) \/ r \in here.inserted
                 \/ (i > 1 /\ r \in DOMAIN levels[s][i - 1].rows)
      BY <1>3, <2>1, <2>5 DEF LevelOK
    <3>2. \A r \in D : object[s][r].state = "pending" => r \notin Old
      BY <1>1 DEF SessionOK, ObjectOK
    <3>3. \A r \in D : object[s][r].state # "pending" => Known(r) \/ r \in DOMAIN here.rows
      BY <1>1 DEF SessionOK, ObjectOK
    <3>4. /\ b.claimed \subseteq b.locked /\ DOMAIN b.rows \subseteq b.locked
          /\ b.inserted \cup b.updated \cup b.removed \subseteq DOMAIN b.rows
          /\ b.inserted \cap Old = {}
      BY <1>2, <3>1, <3>2
    <3>5. DOMAIN b.rows \subseteq Rows
      BY <1>1, <1>2, SeenRow DEF Types
    <3>6. ASSUME NEW r \in DOMAIN b.rows
          PROVE  \/ Known(r)' \/ r \in b.inserted
                 \/ (i > 1 /\ r \in DOMAIN levels'[s][i - 1].rows)
      BY <1>2, <1>5, <2>3, <3>1, <3>3, <3>5
    <3> QED BY <1>3, <2>5, <3>4, <3>6 DEF LevelOK
  <2> QED BY <2>4, <2>5
<1>8. \A i, k \in DOMAIN levels[s] : \A j \in i + 1 .. k : j \in DOMAIN levels[s]
  BY <1>3
<1>9. \A j \in DOMAIN levels[s], r \in Rows :
         /\ r \in levels[s][j].inserted \cup levels[s][j].updated =>
              r \in levels'[s][j].inserted \cup levels'[s][j].updated
         /\ r \in levels[s][j].removed => r \in levels'[s][j].removed
         /\ r \notin D =>
              /\ r \in levels'[s][j].inserted \cup levels'[s][j].updated =>
                   r \in levels[s][j].inserted \cup levels[s][j].updated
              /\ r \in levels'[s][j].removed => r \in levels[s][j].removed
              /\ r \in DOMAIN levels'[s][j].rows <=> r \in DOMAIN levels[s][j].rows
              /\ r \in DOMAIN levels[s][j].rows => levels'[s][j].rows[r] = levels[s][j].rows[r]
  BY <1>2, <1>3
<1>10. ASSUME NEW i \in DOMAIN levels[s], NEW k \in DOMAIN levels[s], NEW r \in Rows
       PROVE  /\ Overwritten(s, i, k, r) => Overwritten(s, i, k, r)'
              /\ Removed(s, i, k, r) => Removed(s, i, k, r)'
              /\ r \notin D => /\ Overwritten(s, i, k, r)' => Overwritten(s, i, k, r)
                               /\ Removed(s, i, k, r)' => Removed(s, i, k, r)
  BY <1>8, <1>9 DEF Overwritten, Removed
<1>11. ASSUME NEW i \in DOMAIN levels[s], i < T, NEW r \in D
       PROVE  /\ object[s][r].state = "doomed" => Removed(s, i, T, r)'
              /\ object[s][r].state # "doomed" => Overwritten(s, i, T, r)'
  <2>1. T \in i + 1 .. T
    BY <1>3, <1>11
  <2>2. /\ object[s][r].state = "doomed" => r \in levels'[s][T].removed
        /\ object[s][r].state # "doomed" => r \in levels'[s][T].inserted \cup levels'[s][T].updated
    BY <1>1, <1>2, <1>3
  <2> QED BY <2>1, <2>2 DEF Overwritten, Removed
<1>12. BlocksAgree(s)'
  <2>1. ASSUME NEW i \in DOMAIN levels[s], NEW k \in DOMAIN levels[s], i < k
        PROVE  levels'[s][i].claimed \subseteq levels'[s][k].claimed
    <3>1. levels[s][i].claimed \subseteq levels[s][k].claimed
      BY <1>1, <2>1 DEF SessionOK, BlocksAgree
    <3>2. \A j \in DOMAIN levels[s] : levels'[s][j].claimed = levels[s][j].claimed
      BY <1>2, <1>3
    <3> QED BY <3>1, <3>2
  <2>2. ASSUME NEW i \in DOMAIN levels[s], NEW k \in DOMAIN levels[s], i < k, NEW r \in Rows,
               ~Overwritten(s, i, k, r)', ~Removed(s, i, k, r)'
        PROVE  /\ r \in DOMAIN levels'[s][i].rows <=> r \in DOMAIN levels'[s][k].rows
               /\ r \in DOMAIN levels'[s][i].rows =>
                    levels'[s][i].rows[r] = levels'[s][k].rows[r]
    <3>1. /\ r \in DOMAIN levels[s][i].rows <=> r \in DOMAIN levels[s][k].rows
          /\ r \in DOMAIN levels[s][i].rows =>
               levels[s][i].rows[r] = levels[s][k].rows[r]
      BY <1>1, <1>10, <2>2 DEF SessionOK, BlocksAgree
    <3>2. CASE k # T
      <4>1. i # T
        BY <1>3, <2>2
      <4> QED BY <1>3, <3>1, <3>2, <4>1
    <3>3. CASE k = T
      <4>1. r \notin D
        BY <1>11, <2>2, <3>3
      <4> QED BY <1>9, <3>1, <4>1
    <3> QED BY <3>2, <3>3
  <2> QED BY <1>3, <2>1, <2>2 DEF BlocksAgree
<1>13. RemovedStay(s)'
  <2>1. ASSUME NEW j \in DOMAIN levels[s], NEW r \in levels'[s][j].removed
        PROVE  /\ object'[s][r].state = "deleted"
               /\ \A k \in j .. T : r \in DOMAIN levels'[s][k].rows /\ levels'[s][k].rows[r] = None
               /\ \A k \in j + 1 .. T :
                    r \notin levels'[s][k].inserted \cup levels'[s][k].updated
                              \cup levels'[s][k].removed
    <3>1. /\ \A k \in j .. T : k \in DOMAIN levels[s]
          /\ \A k \in j + 1 .. T : k \in DOMAIN levels[s]
      BY <1>3
    <3>2. CASE r \in levels[s][j].removed
      <4>1. r \in Rows
        BY <1>1, <3>2, Fields
      <4>2. /\ object[s][r].state = "deleted"
            /\ \A k \in j .. T : r \in DOMAIN levels[s][k].rows /\ levels[s][k].rows[r] = None
            /\ \A k \in j + 1 .. T :
                 r \notin levels[s][k].inserted \cup levels[s][k].updated \cup levels[s][k].removed
        BY <1>1, <3>2 DEF SessionOK, RemovedStay
      <4>3. r \notin D
        BY <1>1, <4>2
      <4>4. object'[s][r].state = "deleted"
        BY <1>4, <4>1, <4>2, <4>3
      <4> QED BY <1>9, <3>1, <4>1, <4>2, <4>3, <4>4
    <3>3. CASE r \notin levels[s][j].removed
      <4>1. j = T /\ r \in D /\ object[s][r].state = "doomed"
        BY <1>2, <1>3, <2>1, <3>3
      <4>2. j .. T = {T} /\ j + 1 .. T = {}
        BY <1>3, <4>1
      <4>3. r \in DOMAIN b.rows /\ b.rows[r] = None
        <5>1. Written(s, r) = None
          BY <4>1 DEF Written
        <5> QED BY <1>2, <4>1, <5>1
      <4>4. object'[s][r].state = "deleted"
        BY <1>4, <4>1
      <4> QED BY <1>3, <4>2, <4>3, <4>4
    <3> QED BY <3>2, <3>3
  <2> QED BY <1>3, <2>1 DEF RemovedStay
<1>14. ClaimsOK(s)'
  <2>1. ASSUME NEW i \in DOMAIN levels[s], NEW r \in levels'[s][i].claimed,
               ~Overwritten(s, i, T, r)',
               \/ object'[s][r].state \in {"persistent", "doomed"}
               \/ object'[s][r].state = "deleted" /\ Removed(s, i, T, r)'
        PROVE  Seen(levels[s][i])'[r] = [value |-> object'[s][r].base,
                                         deleted |-> object'[s][r].wasGone]
    <3>1. r \in levels[s][i].claimed /\ r \in Rows /\ i <= T
      BY <1>1, <1>2, <1>3, <2>1, Fields
    <3>2. ~Overwritten(s, i, T, r)
      BY <1>3, <1>10, <2>1, <3>1
    <3>3. ASSUME \/ object[s][r].state \in {"persistent", "doomed"}
                 \/ object[s][r].state = "deleted" /\ Removed(s, i, T, r)
          PROVE  Seen(levels[s][i])[r] = [value |-> object[s][r].base,
                                          deleted |-> object[s][r].wasGone]
      BY <1>1, <3>1, <3>2, <3>3 DEF SessionOK, ClaimsOK
    <3>4. CASE r \notin D
      <4>1. object'[s][r] = object[s][r]
        BY <1>4, <3>1, <3>4
      <4>2. Removed(s, i, T, r)' => Removed(s, i, T, r)
        BY <1>3, <1>10, <3>1, <3>4
      <4>3. Seen(levels[s][i])'[r] = Seen(levels[s][i])[r]
        BY <1>9, <3>1, <3>4 DEF Seen
      <4> QED BY <2>1, <3>3, <4>1, <4>2, <4>3
    <3>5. CASE r \in D /\ i # T
      <4>1. object[s][r].state = "doomed"
        BY <1>3, <1>11, <2>1, <3>1, <3>5
      <4>2. object'[s][r].base = object[s][r].base /\ object'[s][r].wasGone = object[s][r].wasGone
        BY <1>4, <3>5, <4>1
      <4>3. Seen(levels[s][i])'[r] = Seen(levels[s][i])[r]
        BY <1>3, <3>1, <3>5 DEF Seen
      <4> QED BY <3>3, <4>1, <4>2, <4>3
    <3>6. CASE r \in D /\ i = T
      <4>1. T + 1 .. T = {}
        BY <1>3
      <4>2. object[s][r].state \in {"pending", "persistent"}
        <5>1. ~Removed(s, i, T, r)'
          BY <3>6, <4>1 DEF Removed
        <5> QED BY <1>1, <1>4, <2>1, <3>6, <5>1
      <4> PICK o : o = object[s][r]
        OBVIOUS
      <4>3. object'[s][r].base = o.value /\ object'[s][r].wasGone = o.gone
        BY <1>4, <3>6, <4>2
      <4>4. Seen(levels[s][i])'[r] = Written(s, r)
        BY <1>2, <1>3, <3>1, <3>6 DEF Seen
      <4>5. Written(s, r) = [value |-> o.value, deleted |-> o.gone]
        <5>1. CASE o.state = "pending"
          BY <1>1, <3>6, <5>1, WrittenRow DEF IInv
        <5>2. CASE o.state = "persistent"
          <6>1. Stored(s)[r] = [value |-> o.base, deleted |-> o.wasGone]
            BY <1>3, <3>3, <3>6, <5>2 DEF Stored
          <6>2. Written(s, r) =
                   [value |-> IF o.value # o.base THEN o.value ELSE Stored(s)[r].value,
                    deleted |-> IF o.gone # o.wasGone THEN o.gone ELSE Stored(s)[r].deleted]
            BY <1>1, <3>6, <5>2, WrittenRow
          <6>3. /\ (IF o.value # o.base THEN o.value ELSE Stored(s)[r].value) = o.value
                /\ (IF o.gone # o.wasGone THEN o.gone ELSE Stored(s)[r].deleted) = o.gone
            BY <6>1
          <6> QED BY <6>1, <6>2
        <5> QED BY <4>2, <5>1, <5>2
      <4> QED BY <4>3, <4>4, <4>5
    <3> QED BY <3>4, <3>5, <3>6
  <2> QED BY <1>3, <2>1 DEF ClaimsOK
<1>15. ASSUME NEW i \in DOMAIN levels'[s], NEW r \in levels'[s][i].locked PROVE Free(s, r)
  <2>1. r \in levels[s][i].locked \/ r \in D
    BY <1>2, <1>3, <1>15
  <2> QED BY <1>1, <1>3, <1>15, <2>1, OwnLocks
<1> QED BY <1>3, <1>4, <1>6, <1>7, <1>12, <1>13, <1>14, <1>15

LEMMA TellsHas ==
  ASSUME NEW u, NEW r, NEW x, Tells(u, r, x), x # None
  PROVE  Has(u, r)
BY DEF Tells, Has

LEMMA TellsAlike ==
  ASSUME NEW u, NEW r, NEW x, NEW y, Tells(u, r, x), x # None, y # None,
         y.value = x.value, y.deleted => x.deleted
  PROVE  Tells(u, r, y)
BY DEF Tells

(* A row whose value is not written tells no other story.                  *)
LEMMA OthersTell ==
  ASSUME IInv, NEW s \in Sessions, doing[s].step \notin {"recording", "done"}, NEW astray,
         FlushAll(s, astray), NEW b, Flushed(s, astray, b), NEW r \in Rows,
         r \notin stray \cup b.stray,
         object[s][r].state \notin {"pending", "doomed"},
         object[s][r].state = "persistent" /\ object[s][r].gone => object[s][r].wasGone,
         r \in Dirty(s) => object[s][r].value = object[s][r].base
  PROVE  LET u == trail \o Here(s).trail
         IN /\ Tells(u, r, Seen(b)[r]) /\ (Seen(b)[r] # None => Seen(b)[r].value \notin Invalid)
            /\ r \in DOMAIN b.rows => Has(u, r)
            /\ r \notin Dirty(s) => Seen(b)[r] = Stored(s)[r]
<1> PICK u : u = trail \o Here(s).trail
  OBVIOUS
<1> PICK x, y : x = Stored(s)[r] /\ y = Seen(b)[r]
  OBVIOUS
<1>1. /\ Types /\ SessionOK(s) /\ DoingOK(s) /\ Top(s) \in DOMAIN levels[s]
      /\ Here(s) = levels[s][Top(s)]
  BY Begun DEF IInv, SessionOK
<1>2. /\ DOMAIN b.rows = Dirty(s) \cup DOMAIN Here(s).rows
      /\ r \in Dirty(s) => b.rows[r] = Written(s, r)
      /\ r \in DOMAIN Here(s).rows /\ r \notin Dirty(s) => b.rows[r] = Here(s).rows[r]
      /\ r \notin stray \cup Here(s).stray
  BY DEF Flushed
<1>3. /\ Tells(u, r, x) /\ (x # None => x.value \notin Invalid)
      /\ r \in DOMAIN Here(s).rows => Has(u, r)
  <2>1. BlockTells(s, Top(s)) /\ Entries(s, Top(s)) = Here(s).trail
    BY <1>1, Quiet DEF SessionOK
  <2> QED BY <1>1, <1>2, <2>1 DEF BlockTells, Stored
<1>4. u \in Seq(Entry)
  BY <1>1, Fields, Joined DEF Types
<1>5. CASE r \notin Dirty(s)
  <2>1. y = x
    BY <1>2, <1>5 DEF Seen, Stored
  <2> QED BY <1>2, <1>3, <1>5, <2>1
<1>6. CASE r \in Dirty(s)
  <2> PICK o : o = object[s][r]
    OBVIOUS
  <2>1. o.state = "persistent" /\ o.value = o.base /\ o.gone # o.wasGone
    BY <1>6 DEF Dirty, Changed
  <2>2. o.gone = FALSE /\ x # None /\ x \in Row
    <3>1. x # None /\ o.gone \in BOOLEAN /\ o.wasGone \in BOOLEAN
      BY <1>1, <1>6, <2>1 DEF FlushAll, Types, Instances
    <3> QED BY <1>6, <2>1, <3>1, WrittenRow
  <2>3. Written(s, r) = [value |-> IF o.value # o.base THEN o.value ELSE x.value,
                         deleted |-> IF o.gone # o.wasGone THEN o.gone ELSE x.deleted]
    BY <1>6, <2>1, <2>2, WrittenRow
  <2>4. Written(s, r) = [value |-> x.value, deleted |-> FALSE]
    BY <2>1, <2>2, <2>3
  <2>5. y = Written(s, r)
    BY <1>2, <1>6 DEF Seen
  <2>6. y # None /\ y.value = x.value /\ ~y.deleted
    <3>1. Written(s, r) \in Row
      BY <2>2, <2>4 DEF Row
    <3>2. Written(s, r) # None
      BY <3>1, NoneAssumption
    <3> QED BY <2>4, <2>5, <3>2
  <2>7. Tells(u, r, y)
    BY <1>3, <2>2, <2>6, TellsAlike
  <2> QED BY <1>3, <1>6, <2>2, <2>6, <2>7, TellsHas
<1> QED BY <1>5, <1>6

LEMMA AutoflushKeeps ==
  ASSUME IInv, NEW s \in Sessions, Autoflush(s)
  PROVE  IInv'
<1> PICK a : a = ValueChanged(s)
  OBVIOUS
<1>1. /\ Types /\ SessionOK(s) /\ DoingOK(s) /\ doing[s].step \in {"idle", "saving"}
      /\ FlushAll(s, a)
      /\ UNCHANGED <<rows, trail, stray, neglected, pending, doing, unsaved, calls>>
  BY DEF IInv, SessionOK, Autoflush
<1>2. PICK b : Flushed(s, a, b)
  BY <1>1, FlushWrites
<1>3. /\ levels' \in [Sessions -> Seq(Levels)]
      /\ object' \in [Sessions -> [Rows -> Instances]]
      /\ \A r \in Rows : ObjectOK(s, r)'
      /\ \A i \in DOMAIN levels'[s] : LevelOK(s, i)'
      /\ BlocksAgree(s)' /\ RemovedStay(s)' /\ ClaimsOK(s)'
      /\ \A q \in Sessions \ {s} : levels'[q] = levels[q] /\ object'[q] = object[q]
      /\ \A i \in DOMAIN levels'[s] : \A r \in levels'[s][i].locked : Free(s, r)
  BY <1>1, <1>2, FlushHolds
<1>4. /\ DOMAIN levels'[s] = DOMAIN levels[s] /\ DOMAIN levels[s] = 1 .. Top(s)
      /\ Top(s) \in Nat \ {0} /\ Top(s) \in DOMAIN levels[s]
      /\ Top(s)' = Top(s) /\ Here(s)' = b /\ levels'[s][Top(s)] = b
      /\ Here(s) = levels[s][Top(s)] /\ Here(s) \in Levels
      /\ \A i \in DOMAIN levels[s] : i # Top(s) => levels'[s][i] = levels[s][i]
      /\ b.trail = Here(s).trail /\ DOMAIN Here(s).rows \subseteq DOMAIN b.rows
      /\ b.stray = Here(s).stray \cup (a \cap Dirty(s))
  BY <1>1, <1>2, NewTop DEF Flushed
<1>5. Types'
  BY <1>1, <1>3 DEF Types
<1>6. \A i \in DOMAIN levels[s] : Entries(s, i) = levels[s][i].trail
                                  /\ Entries(s, i)' = levels[s][i].trail
  <2>1. \A i \in DOMAIN levels[s] : levels'[s][i].trail = levels[s][i].trail
    BY <1>4
  <2>2. \A i \in DOMAIN levels[s] : levels[s][i].trail \o <<>> = levels[s][i].trail
    BY <1>1, Fields
  <2> QED BY <1>1, <2>1, <2>2 DEF Entries, Coming
<1>7. ASSUME NEW i \in DOMAIN levels'[s] PROVE EntriesOK(s, i)'
  <2>1. DOMAIN levels[s][i].rows \subseteq DOMAIN levels'[s][i].rows
    BY <1>4, <1>7
  <2>2. EntriesOK(s, i) /\ i \in DOMAIN levels[s]
    BY <1>1, <1>4, <1>7 DEF SessionOK
  <2> QED BY <1>1, <1>6, <2>1, <2>2 DEF EntriesOK, Known, Has
<1>8. ASSUME NEW i \in DOMAIN levels'[s] PROVE BlockTells(s, i)'
  <2>1. CASE i # Top(s)
    <3>1. levels'[s][i] = levels[s][i] /\ BlockTells(s, i) /\ Entries(s, i)' = Entries(s, i)
      BY <1>1, <1>4, <1>6, <1>8, <2>1 DEF SessionOK
    <3>2. Seen(levels[s][i])' = Seen(levels[s][i])
      BY <1>1, <3>1 DEF Seen
    <3> QED BY <1>1, <3>1, <3>2 DEF BlockTells
  <2>2. CASE i = Top(s)
    <3>1. Seen(levels[s][i])' = Seen(b) /\ Entries(s, i)' = Here(s).trail
      BY <1>1, <1>4, <1>6, <2>2 DEF Seen
    <3>2. ASSUME NEW r \in Rows, r \notin stray \cup b.stray
          PROVE  LET u == trail \o Here(s).trail
                 IN /\ Tells(u, r, Seen(b)[r])
                    /\ (Seen(b)[r] # None => Seen(b)[r].value \notin Invalid)
                    /\ r \in DOMAIN b.rows => Has(u, r)
      <4>1. /\ object[s][r].state \notin {"pending", "doomed"}
            /\ object[s][r].state = "persistent" /\ object[s][r].gone => object[s][r].wasGone
        BY <1>1, Calm
      <4>2. r \in Dirty(s) => object[s][r].value = object[s][r].base
        BY <1>4, <3>2 DEF ValueChanged
      <4>3. doing[s].step \notin {"recording", "done"}
        BY <1>1
      <4> QED BY <1>1, <1>2, <3>2, <4>1, <4>2, <4>3, OthersTell
    <3> QED BY <1>1, <1>4, <2>2, <3>1, <3>2 DEF BlockTells
  <2> QED BY <2>1, <2>2
<1>9. DoingOK(s)'
  <2>1. /\ DoingOK(s) /\ doing' = doing
        /\ levels'[s] = <<>> <=> levels[s] = <<>>
    <3>1. Top(s)' \in Nat \ {0}
      BY <1>4
    <3>2. levels'[s] # <<>> /\ levels[s] # <<>>
      BY <1>4
    <3> QED BY <1>1, <3>2
  <2>2. ASSUME doing[s].step = "saving", NEW r \in Rows, r = doing[s].row
        PROVE  \/ doing[s].how = "create" /\ object'[s][r].state = "transient" /\ ~object'[s][r].id
               \/ /\ doing[s].how = "update"
                  /\ object'[s][r].state \in {"transient", "persistent"} /\ object'[s][r].id
    <3>1. \/ doing[s].how = "create" /\ object[s][r].state = "transient" /\ ~object[s][r].id
          \/ /\ doing[s].how = "update"
             /\ object[s][r].state \in {"transient", "persistent"} /\ object[s][r].id
      BY <1>1, <2>2 DEF DoingOK
    <3>2. r \notin Dirty(s) => object'[s][r] = object[s][r]
      BY <1>1, FlushCleans
    <3>3. r \in Dirty(s) => object[s][r].state = "persistent"
      BY <3>1 DEF Dirty, Changed
    <3>4. r \in Dirty(s) => object'[s][r].state = "persistent" /\ object'[s][r].id
      BY <1>1, <3>3, FlushCleans
    <3> QED BY <3>1, <3>2, <3>3, <3>4
  <2>3. doing[s].step = "saving" => doing[s].row \in Rows
    BY <2>1 DEF DoingOK
  <2> QED BY <1>1, <2>1, <2>2, <2>3 DEF DoingOK
<1>10. SessionOK(s)'
  BY <1>3, <1>7, <1>8, <1>9 DEF SessionOK
<1>11. \A r \in Rows : object[s][r].state = "absent" => object'[s][r].state = "absent"
  <2>1. \A r \in Rows : object[s][r].state = "absent" => r \notin Dirty(s)
    BY DEF Dirty, Changed
  <2> QED BY <1>1, <2>1, FlushCleans
<1> QED BY <1>1, <1>3, <1>5, <1>10, <1>11, OneSession

LEMMA TellsUpdate ==
  ASSUME NEW u \in Seq(Entry), NEW e \in Entry, NEW r, NEW x, NEW y,
         e.row = r, e.event = "updated", Tells(u, r, x), x # None, y # None,
         y.value = e.new, y.deleted => x.deleted
  PROVE  Tells(u \o <<e>>, r, y)
BY TellsMore

(* What the entries to come tell of the row they are about.                *)
LEMMA FlushTells ==
  ASSUME IInv, NEW s \in Sessions, doing[s].step = "flushing", NEW r, r = doing[s].row,
         NEW astray, FlushAll(s, astray), NEW b, Flushed(s, astray, b),
         doing[s].how = "update" /\ object[s][r].state = "pending" => r \in astray,
         doing[s].how = "delete" /\ r \in ValueChanged(s) => r \in astray,
         NEW new,
         doing[s].how = "create" =>
           new = <<[row |-> r, event |-> "created", old |-> None, new |-> object[s][r].value]>>,
         doing[s].how = "delete" =>
           new = <<[row |-> r, event |-> "deleted", old |-> object[s][r].value, new |-> None]>>,
         doing[s].how = "update" /\ pending[s][r] = None => new = <<>>,
         doing[s].how = "update" /\ pending[s][r] # None =>
           new = <<[row |-> r, event |-> "updated", old |-> pending[s][r].old,
                    new |-> pending[s][r].new]>>
  PROVE  /\ r \in Rows /\ new \in Seq(Entry)
         /\ \A k \in DOMAIN new :
              /\ new[k].row = r
              /\ r \in DOMAIN b.rows \/ (new[k].event = "deleted" /\ Known(r))
         /\ r \notin stray \cup b.stray =>
              LET entries == (trail \o Here(s).trail) \o new
              IN /\ Tells(entries, r, Seen(b)[r])
                 /\ (Seen(b)[r] # None => Seen(b)[r].value \notin Invalid)
                 /\ r \in DOMAIN b.rows => Has(entries, r)
<1> PICK o : o = object[s][r]
  OBVIOUS
<1> PICK u : u = trail \o Here(s).trail
  OBVIOUS
<1> PICK x, y : x = Stored(s)[r] /\ y = Seen(b)[r]
  OBVIOUS
<1>1. /\ Types /\ SessionOK(s) /\ DoingOK(s) /\ Top(s) \in DOMAIN levels[s]
      /\ Here(s) = levels[s][Top(s)] /\ r \in Rows /\ doing[s].how \in Kinds
      /\ ObjectOK(s, r)
  BY Begun DEF IInv, SessionOK, DoingOK
<1>2. /\ \/ doing[s].how = "create" /\ o.state = "pending" /\ ~o.id
         \/ /\ doing[s].how = "update" /\ o.state \in {"pending", "persistent"} /\ o.id
            /\ pending[s][r] = IF o.value = o.base THEN None ELSE [old |-> o.base, new |-> o.value]
         \/ doing[s].how = "delete" /\ o.state = "doomed"
         \/ doing[s].how = "delete" /\ o.state = "persistent" /\ o.gone
      /\ doing[s].how # "delete" => o.value \notin Invalid
      /\ o.value \in Values /\ (o.id => o.base \in Values)
      /\ o.gone \in BOOLEAN /\ o.wasGone \in BOOLEAN
      /\ pending[s][r] \in Diff \cup {None}
  <2>1. o.gone \in BOOLEAN /\ o.wasGone \in BOOLEAN /\ pending[s][r] \in Diff \cup {None}
    BY <1>1 DEF Types, Instances
  <2>2. o.value \in Values /\ (o.id => o.base \in Values)
    BY <1>1 DEF DoingOK, ObjectOK
  <2> QED BY <1>1, <2>1, <2>2 DEF DoingOK
<1>3. /\ DOMAIN b.rows = Dirty(s) \cup DOMAIN Here(s).rows
      /\ r \in Dirty(s) => b.rows[r] = Written(s, r)
      /\ r \in DOMAIN Here(s).rows /\ r \notin Dirty(s) => b.rows[r] = Here(s).rows[r]
      /\ r \notin b.stray => r \notin Here(s).stray /\ (r \in Dirty(s) => r \notin astray)
      /\ r \in Dirty(s) => y = Written(s, r)
      /\ r \notin Dirty(s) => y = x
      /\ r \in Dirty(s) /\ o.state = "persistent" => x # None
  <2>1. /\ DOMAIN b.rows = Dirty(s) \cup DOMAIN Here(s).rows
        /\ r \in Dirty(s) => b.rows[r] = Written(s, r)
        /\ r \in DOMAIN Here(s).rows /\ r \notin Dirty(s) => b.rows[r] = Here(s).rows[r]
        /\ r \notin b.stray => r \notin Here(s).stray /\ (r \in Dirty(s) => r \notin astray)
    BY DEF Flushed
  <2>2. /\ r \in Dirty(s) => y = Written(s, r)
        /\ r \notin Dirty(s) => y = x
    BY <1>1, <2>1 DEF Seen, Stored
  <2>3. r \in Dirty(s) /\ o.state = "persistent" => x # None
    BY DEF FlushAll
  <2> QED BY <2>1, <2>2, <2>3
<1>4. r \in Dirty(s) <=> \/ o.state \in {"pending", "doomed"}
                         \/ o.state = "persistent" /\ (o.value # o.base \/ o.gone # o.wasGone)
  BY <1>1 DEF Dirty, Changed
<1>5. u \in Seq(Entry)
  BY <1>1, Fields, Joined DEF Types
<1>6. ASSUME r \notin stray \cup Here(s).stray
      PROVE  /\ Tells(u, r, x) /\ (x # None => x.value \notin Invalid)
             /\ r \in DOMAIN Here(s).rows => Has(u, r)
  <2>1. BlockTells(s, Top(s)) /\ Entries(s, Top(s)) = Here(s).trail
    BY <1>1, Quiet DEF SessionOK
  <2> QED BY <1>1, <1>6, <2>1 DEF BlockTells, Stored
<1>7. o.state \in {"persistent", "doomed"} => Known(r) \/ r \in DOMAIN Here(s).rows
  BY <1>1 DEF ObjectOK
<1>8. Has(trail, r) => Has(u, r)
  <2>1. trail \in Seq(Entry) /\ Here(s).trail \in Seq(Entry)
    BY <1>1, Fields DEF Types
  <2> QED BY <2>1, JoinedHas
<1>9. ASSUME NEW e \in Entry, e.row = r, new = <<e>>
      PROVE  /\ new \in Seq(Entry) /\ \A k \in DOMAIN new : new[k] = e
             /\ Has(u \o new, r)
  <2>1. new \in Seq(Entry) /\ (\A k \in DOMAIN new : new[k] = e) /\ 1 \in DOMAIN new
    BY <1>9
  <2>2. Has(new, r)
    BY <1>9, <2>1 DEF Has
  <2> QED BY <1>5, <2>1, <2>2, JoinedHas
<1>10. CASE doing[s].how = "create"
  <2> PICK e : e = [row |-> r, event |-> "created", old |-> None, new |-> o.value]
    OBVIOUS
  <2>1. e \in Entry /\ new = <<e>>
    BY <1>1, <1>2, <1>10 DEF Entry
  <2>2. r \in Dirty(s) /\ o.state = "pending" /\ ~o.id
    BY <1>2, <1>4, <1>10
  <2>3. /\ ~o.gone /\ ~Has(trail, r) /\ ~Has(Here(s).trail, r)
    BY <1>1, <2>2 DEF ObjectOK, Unborn
  <2>4. ~Has(u, r)
    <3>1. trail \in Seq(Entry) /\ Here(s).trail \in Seq(Entry)
      BY <1>1, Fields DEF Types
    <3> QED BY <2>3, <3>1, JoinedHas
  <2>5. y = [value |-> o.value, deleted |-> o.gone] /\ y \in Row
    <3>1. doing[s].step # "done"
      OBVIOUS
    <3>2. /\ Written(s, r) = [value |-> o.value, deleted |-> o.gone]
      BY <2>2, <3>1, WrittenRow
    <3>3. [value |-> o.value, deleted |-> o.gone] \in Row
      BY <1>2 DEF Row
    <3> QED BY <1>3, <2>2, <3>2, <3>3
  <2>6. y # None /\ y.value = o.value /\ ~y.deleted /\ e.new = o.value /\ e.row = r
        /\ e.event = "created"
    BY <2>3, <2>5, NoneAssumption
  <2>7. Tells(u \o <<e>>, r, y)
    BY <1>5, <2>1, <2>4, <2>6, TellsMore
  <2>8. y.value \notin Invalid
    BY <1>2, <1>10, <2>6
  <2>9. new \in Seq(Entry) /\ (\A k \in DOMAIN new : new[k].row = r) /\ Has(u \o new, r)
    BY <1>9, <2>1, <2>6
  <2>10. r \in DOMAIN b.rows
    BY <1>3, <2>2
  <2> QED BY <1>1, <2>1, <2>7, <2>8, <2>9, <2>10
<1>11. CASE doing[s].how = "delete"
  <2> PICK e : e = [row |-> r, event |-> "deleted", old |-> o.value, new |-> None]
    OBVIOUS
  <2>1. e \in Entry /\ new = <<e>>
    BY <1>1, <1>2, <1>11 DEF Entry
  <2>2. e.row = r /\ e.event = "deleted"
    OBVIOUS
  <2>3. o.state \in {"doomed", "persistent"}
    BY <1>2, <1>11
  <2>4. \A k \in DOMAIN new : /\ new[k].row = r
                              /\ r \in DOMAIN b.rows \/ (new[k].event = "deleted" /\ Known(r))
    BY <1>3, <1>7, <1>9, <2>1, <2>2, <2>3
  <2>5. ASSUME r \notin stray \cup b.stray
        PROVE  Tells(u \o <<e>>, r, y) /\ (y # None => y.value \notin Invalid)
    <3>1. Tells(u, r, x) /\ (x # None => x.value \notin Invalid) /\ Has(u, r)
      BY <1>3, <1>6, <1>7, <1>8, <2>3, <2>5 DEF Known
    <3>2. y # None => x # None /\ y.value = x.value
      <4>1. CASE o.state = "doomed"
        BY <1>3, <1>4, <4>1 DEF Written
      <4>2. CASE o.state = "persistent" /\ r \notin Dirty(s)
        BY <1>3, <4>2
      <4>3. CASE o.state = "persistent" /\ r \in Dirty(s)
        <5>1. o.value = o.base
          BY <1>1, <1>3, <1>11, <2>5, <4>3 DEF ValueChanged
        <5>2. doing[s].step # "done" /\ x # None
          BY <1>3, <4>3
        <5>3. y = [value |-> IF o.value # o.base THEN o.value ELSE x.value,
                   deleted |-> IF o.gone # o.wasGone THEN o.gone ELSE x.deleted]
          BY <1>3, <4>3, <5>2, WrittenRow
        <5> QED BY <5>1, <5>2, <5>3
      <4> QED BY <2>3, <4>1, <4>2, <4>3
    <3>3. Tells(u \o <<e>>, r, y)
      BY <1>5, <2>1, <2>2, <3>1, <3>2, TellsMore
    <3> QED BY <3>1, <3>2, <3>3
  <2> QED BY <1>1, <1>9, <2>1, <2>2, <2>4, <2>5
<1>12. CASE doing[s].how = "update" /\ o.value = o.base
  <2>1. new = <<>> /\ u \o new = u /\ new \in Seq(Entry) /\ DOMAIN new = {}
    <3>1. new = <<>>
      BY <1>2, <1>12
    <3> QED BY <1>5, <3>1
  <2>2. ASSUME r \notin stray \cup b.stray
        PROVE  /\ Tells(u, r, y) /\ (y # None => y.value \notin Invalid)
               /\ r \in DOMAIN b.rows => Has(u, r)
    <3>1. o.state = "persistent"
      BY <1>2, <1>3, <1>4, <1>12, <2>2
    <3>2. o.gone => o.wasGone
      <4>1. ~Deleting(s, r)
        BY <1>12 DEF Deleting
      <4> QED BY <1>1, <3>1, <4>1 DEF ObjectOK
    <3>3. doing[s].step \notin {"recording", "done"}
      OBVIOUS
    <3> QED BY <1>1, <1>12, <2>2, <3>1, <3>2, <3>3, OthersTell
  <2> QED BY <1>1, <2>1, <2>2
<1>13. CASE doing[s].how = "update" /\ o.value # o.base
  <2> PICK e : e = [row |-> r, event |-> "updated", old |-> o.base, new |-> o.value]
    OBVIOUS
  <2>1. e \in Entry /\ new = <<e>>
    <3>1. pending[s][r] = [old |-> o.base, new |-> o.value] /\ o.base \in Values
      BY <1>2, <1>13
    <3>2. pending[s][r] # None /\ pending[s][r].old = o.base /\ pending[s][r].new = o.value
      <4>1. [old |-> o.base, new |-> o.value] \in Diff
        BY <1>2, <3>1 DEF Diff
      <4> QED BY <3>1, <4>1, NoneAssumption
    <3>3. new = <<e>>
      BY <1>13, <3>2
    <3>4. e \in Entry
      BY <1>1, <1>2, <3>1 DEF Entry
    <3> QED BY <3>3, <3>4
  <2>2. e.row = r /\ e.event = "updated" /\ e.new = o.value
    OBVIOUS
  <2>3. r \in Dirty(s) /\ o.state \in {"pending", "persistent"}
    BY <1>2, <1>4, <1>13
  <2>4. \A k \in DOMAIN new : new[k].row = r
    BY <1>9, <2>1, <2>2
  <2>5. ASSUME r \notin stray \cup b.stray
        PROVE  Tells(u \o <<e>>, r, y) /\ (y # None => y.value \notin Invalid)
    <3>1. o.state = "persistent" /\ x # None
      BY <1>3, <1>13, <2>3, <2>5
    <3>2. o.gone => o.wasGone
      <4>1. ~Deleting(s, r)
        BY <1>13 DEF Deleting
      <4> QED BY <1>1, <3>1, <4>1 DEF ObjectOK
    <3>3. y = [value |-> IF o.value # o.base THEN o.value ELSE x.value,
               deleted |-> IF o.gone # o.wasGone THEN o.gone ELSE x.deleted] /\ y \in Row
      <4>1. doing[s].step # "done"
        OBVIOUS
      <4>2. /\ Written(s, r) = [value |-> IF o.value # o.base THEN o.value ELSE x.value,
                                deleted |-> IF o.gone # o.wasGone THEN o.gone ELSE x.deleted]
            /\ x \in Row
        BY <2>3, <3>1, <4>1, WrittenRow
      <4>3. x.deleted \in BOOLEAN
        BY <4>2 DEF Row
      <4>4. Written(s, r) = [value |-> o.value,
                             deleted |-> IF o.gone # o.wasGone THEN o.gone ELSE x.deleted]
        BY <1>13, <4>2
      <4>5. [value |-> o.value,
             deleted |-> IF o.gone # o.wasGone THEN o.gone ELSE x.deleted] \in Row
        BY <1>2, <4>3 DEF Row
      <4> QED BY <1>3, <2>3, <4>2, <4>4, <4>5
    <3>4. y # None /\ y.value = o.value /\ (y.deleted => x.deleted)
      <4>1. y # None
        BY <3>3, NoneAssumption
      <4>2. y.value = o.value
        BY <1>13, <3>3
      <4>3. y.deleted = IF o.gone # o.wasGone THEN o.gone ELSE x.deleted
        BY <3>3
      <4>4. o.gone # o.wasGone => o.gone = FALSE
        BY <1>2, <3>2
      <4>5. y.deleted => x.deleted
        BY <4>3, <4>4
      <4> QED BY <4>1, <4>2, <4>5
    <3>5. Tells(u, r, x)
      BY <1>3, <1>6, <2>5
    <3>6. Tells(u \o <<e>>, r, y)
      <4>1. /\ e.row = r /\ e.event = "updated" /\ Tells(u, r, x) /\ x # None /\ y # None
            /\ y.value = e.new /\ (y.deleted => x.deleted)
        BY <2>2, <3>1, <3>4, <3>5
      <4> QED BY <1>5, <2>1, <4>1, TellsUpdate, ZenonT(30)
    <3> QED BY <1>2, <1>13, <3>4, <3>6
  <2> QED BY <1>1, <1>3, <1>9, <2>1, <2>2, <2>3, <2>4, <2>5
<1> QED BY <1>1, <1>10, <1>11, <1>12, <1>13 DEF Kinds

LEMMA FlushKeeps ==
  ASSUME IInv, NEW s \in Sessions, Flush(s)
  PROVE  IInv'
<1> PICK r : r = doing[s].row
  OBVIOUS
<1> PICK T : T = Top(s)
  OBVIOUS
<1>1. PICK a :
         /\ FlushAll(s, a)
         /\ doing[s].how = "update" /\ object[s][r].state = "pending" => r \in a
         /\ doing[s].how = "delete" /\ r \in ValueChanged(s) => r \in a
         /\ \A y \in ValueChanged(s) : y # r => y \in a
  <2> PICK a : a = (ValueChanged(s) \ {r}) \cup
                     CASE doing[s].how = "create" -> {}
                       [] doing[s].how = "update" ->
                            IF object[s][r].state = "pending" THEN {r} ELSE {}
                       [] OTHER -> ValueChanged(s) \cap {r}
    OBVIOUS
  <2>1. FlushAll(s, a)
    BY DEF Flush
  <2>2. /\ doing[s].how = "update" /\ object[s][r].state = "pending" => r \in a
        /\ doing[s].how = "delete" /\ r \in ValueChanged(s) => r \in a
        /\ \A y \in ValueChanged(s) : y # r => y \in a
    OBVIOUS
  <2> QED BY <2>1, <2>2
<1>2. /\ Types /\ SessionOK(s) /\ DoingOK(s) /\ doing[s].step = "flushing"
      /\ r \in Rows /\ doing[s].how \in Kinds
      /\ FlushAll(s, a)
      /\ doing' = [doing EXCEPT ![s].step = "recording"]
      /\ UNCHANGED <<rows, trail, stray, neglected, pending, unsaved, calls>>
  BY <1>1 DEF IInv, SessionOK, DoingOK, Flush
<1>3. PICK b : Flushed(s, a, b)
  BY <1>2, FlushWrites
<1>4. /\ levels' \in [Sessions -> Seq(Levels)]
      /\ object' \in [Sessions -> [Rows -> Instances]]
      /\ \A y \in Rows : ObjectOK(s, y)'
      /\ \A i \in DOMAIN levels'[s] : LevelOK(s, i)'
      /\ BlocksAgree(s)' /\ RemovedStay(s)' /\ ClaimsOK(s)'
      /\ \A q \in Sessions \ {s} : levels'[q] = levels[q] /\ object'[q] = object[q]
      /\ \A i \in DOMAIN levels'[s] : \A y \in levels'[s][i].locked : Free(s, y)
  BY <1>2, <1>3, FlushHolds
<1>5. /\ DOMAIN levels'[s] = DOMAIN levels[s] /\ DOMAIN levels[s] = 1 .. T
      /\ T \in Nat \ {0} /\ T \in DOMAIN levels[s]
      /\ Top(s)' = T /\ levels'[s][T] = b
      /\ Here(s) = levels[s][T] /\ Here(s) \in Levels
      /\ \A i \in DOMAIN levels[s] : i # T => levels'[s][i] = levels[s][i]
      /\ b.trail = Here(s).trail /\ DOMAIN Here(s).rows \subseteq DOMAIN b.rows
      /\ b.stray = Here(s).stray \cup (a \cap Dirty(s))
  BY <1>2, <1>3, NewTop DEF Flushed
<1>6. /\ doing'[s].step = "recording" /\ doing'[s].row = r /\ doing'[s].how = doing[s].how
      /\ \A q \in Sessions \ {s} : doing'[q] = doing[q]
      /\ doing' \in [Sessions -> [step : Stages, row : Rows \cup {None}, how : Kinds \cup {None}]]
  BY <1>2 DEF Types, Stages
<1>7. Types'
  BY <1>2, <1>4, <1>6 DEF Types
<1>8. /\ object'[s][r].value = object[s][r].value
      /\ object'[s][r].state \in {"persistent", "deleted"}
  <2>1. object[s][r].state \in {"pending", "doomed", "persistent"}
    BY <1>2 DEF DoingOK
  <2>2. object[s][r].state \in {"pending", "doomed"} => r \in Dirty(s)
    BY <1>2 DEF Dirty
  <2> QED BY <1>2, <2>1, <2>2, FlushCleans
<1>9. PICK new :
         /\ Coming(s, T)' = new /\ (new = <<>> \/ \E e : new = <<e>>)
         /\ doing[s].how = "create" =>
              new = <<[row |-> r, event |-> "created", old |-> None, new |-> object[s][r].value]>>
         /\ doing[s].how = "delete" =>
              new = <<[row |-> r, event |-> "deleted", old |-> object[s][r].value, new |-> None]>>
         /\ doing[s].how = "update" /\ pending[s][r] = None => new = <<>>
         /\ doing[s].how = "update" /\ pending[s][r] # None =>
              new = <<[row |-> r, event |-> "updated", old |-> pending[s][r].old,
                       new |-> pending[s][r].new]>>
  <2> PICK new : new =
         IF doing[s].how = "create"
         THEN <<[row |-> r, event |-> "created", old |-> None, new |-> object[s][r].value]>>
         ELSE IF doing[s].how = "delete"
         THEN <<[row |-> r, event |-> "deleted", old |-> object[s][r].value, new |-> None]>>
         ELSE IF pending[s][r] = None THEN <<>>
         ELSE <<[row |-> r, event |-> "updated", old |-> pending[s][r].old,
                 new |-> pending[s][r].new]>>
    OBVIOUS
  <2>1. Coming(s, T)' = EntriesOf(s, doing[s].row)'
    BY <1>5, <1>6 DEF Coming
  <2>2. EntriesOf(s, doing[s].row)' = new
    BY <1>2, <1>6, <1>8 DEF EntriesOf, Kinds
  <2>3. Coming(s, T)' = new
    BY <2>1, <2>2
  <2>4. new = <<>> \/ \E e : new = <<e>>
    OBVIOUS
  <2> QED BY <2>3, <2>4
<1>10. /\ new \in Seq(Entry)
       /\ \A k \in DOMAIN new :
            /\ new[k].row = r
            /\ r \in DOMAIN b.rows \/ (new[k].event = "deleted" /\ Known(r))
       /\ r \notin stray \cup b.stray =>
            LET entries == (trail \o Here(s).trail) \o new
            IN /\ Tells(entries, r, Seen(b)[r])
               /\ (Seen(b)[r] # None => Seen(b)[r].value \notin Invalid)
               /\ r \in DOMAIN b.rows => Has(entries, r)
  <2>1. doing[s].step = "flushing" /\ r = doing[s].row /\ FlushAll(s, a) /\ Flushed(s, a, b)
    BY <1>2, <1>3
  <2>2. /\ doing[s].how = "update" /\ object[s][r].state = "pending" => r \in a
        /\ doing[s].how = "delete" /\ r \in ValueChanged(s) => r \in a
    BY <1>1
  <2> QED BY <1>9, <2>1, <2>2, FlushTells, SMTT(30)
<1>11. /\ Entries(s, T)' = Here(s).trail \o new
       /\ \A i \in DOMAIN levels[s] : i # T =>
            Entries(s, i)' = levels[s][i].trail /\ Entries(s, i) = levels[s][i].trail
       /\ Entries(s, T) = Here(s).trail
  <2>1. Entries(s, T)' = Here(s).trail \o new
    BY <1>5, <1>9 DEF Entries
  <2>2. \A i \in DOMAIN levels[s] : levels[s][i].trail \o <<>> = levels[s][i].trail
    BY <1>2, Fields
  <2>3. \A i \in DOMAIN levels[s] : i # T => Entries(s, i)' = levels[s][i].trail
    BY <1>5, <2>2 DEF Entries, Coming
  <2>4. \A i \in DOMAIN levels[s] : Entries(s, i) = levels[s][i].trail
    BY <1>2, Quiet
  <2> QED BY <1>5, <2>1, <2>3, <2>4
<1>12. trail \in Seq(Entry) /\ Here(s).trail \in Seq(Entry)
  BY <1>2, <1>5, Fields DEF Types
<1>13. ASSUME NEW i \in DOMAIN levels'[s] PROVE EntriesOK(s, i)'
  <2>1. EntriesOK(s, i) /\ i \in DOMAIN levels[s]
    BY <1>2, <1>5, <1>13 DEF SessionOK
  <2>2. CASE i # T
    <3>1. levels'[s][i] = levels[s][i] /\ Entries(s, i)' = Entries(s, i)
      BY <1>5, <1>11, <2>1, <2>2
    <3> QED BY <1>2, <2>1, <3>1 DEF EntriesOK, Known, Has
  <2>3. CASE i = T
    <3> PICK old : old = Here(s).trail
      OBVIOUS
    <3>1. /\ levels'[s][i] = b /\ Entries(s, i)' = old \o new
          /\ old \in Seq(Entry) /\ new \in Seq(Entry)
      BY <1>5, <1>10, <1>11, <1>12, <2>3
    <3>2. ASSUME NEW k \in DOMAIN (old \o new)
          PROVE  \/ (old \o new)[k].row \in DOMAIN b.rows
                 \/ (old \o new)[k].event = "deleted" /\ Known((old \o new)[k].row)
      <4>1. CASE k \in DOMAIN old
        <5>1. (old \o new)[k] = old[k]
          BY <3>1, <4>1, Joined
        <5>2. old[k].row \in DOMAIN Here(s).rows \/ (old[k].event = "deleted" /\ Known(old[k].row))
          BY <1>5, <1>11, <2>1, <2>3, <4>1 DEF EntriesOK
        <5> QED BY <1>5, <5>1, <5>2
      <4>2. CASE k \notin DOMAIN old
        <5>1. PICK m \in DOMAIN new : k = Len(old) + m
          BY <3>1, <3>2, <4>2, Joined
        <5>2. (old \o new)[k] = new[m]
          BY <3>1, <5>1, Joined
        <5> QED BY <1>10, <5>2
      <4> QED BY <4>1, <4>2
    <3>3. \A y : Known(y)' <=> Known(y)
      BY <1>2 DEF Known, Has
    <3> QED BY <3>1, <3>2, <3>3 DEF EntriesOK
  <2> QED BY <2>2, <2>3
<1>14. ASSUME NEW y \in Rows, y # r, y \notin stray \cup b.stray
       PROVE  LET entries == (trail \o Here(s).trail) \o new
              IN /\ Tells(entries, y, Seen(b)[y])
                 /\ (Seen(b)[y] # None => Seen(b)[y].value \notin Invalid)
                 /\ y \in DOMAIN b.rows => Has(entries, y)
  <2> PICK u : u = trail \o Here(s).trail
    OBVIOUS
  <2>1. u \in Seq(Entry)
    BY <1>12, Joined
  <2>2. /\ object[s][y].state \notin {"pending", "doomed"}
        /\ object[s][y].state = "persistent" /\ object[s][y].gone => object[s][y].wasGone
    <3>1. ObjectOK(s, y) /\ ~Deleting(s, y)
      BY <1>1, <1>2, <1>14 DEF SessionOK, Deleting
    <3> QED BY <1>14, <3>1 DEF ObjectOK
  <2>3. y \in Dirty(s) => object[s][y].value = object[s][y].base
    BY <1>1, <1>5, <1>14 DEF ValueChanged
  <2>4. doing[s].step \notin {"recording", "done"}
    BY <1>2
  <2>5. /\ Tells(u, y, Seen(b)[y])
        /\ (Seen(b)[y] # None => Seen(b)[y].value \notin Invalid)
        /\ y \in DOMAIN b.rows => Has(u, y)
    BY <1>2, <1>3, <1>14, <2>2, <2>3, <2>4, OthersTell
  <2>6. Tells(u \o new, y, Seen(b)[y])
    <3>1. CASE new = <<>>
      <4>1. u \o new = u
        BY <2>1, <3>1
      <4> QED BY <2>5, <4>1
    <3>2. CASE new # <<>>
      <4>1. PICK e : new = <<e>>
        BY <1>9, <3>2
      <4>2. e \in Entry /\ e.row # y
        <5>1. 1 \in DOMAIN new /\ new[1] = e
          BY <4>1
        <5> QED BY <1>10, <1>14, <5>1
      <4> QED BY <2>1, <2>5, <4>1, <4>2, TellsMore
    <3> QED BY <3>1, <3>2
  <2>7. Has(u, y) => Has(u \o new, y)
    BY <1>10, <2>1, JoinedHas
  <2> QED BY <2>5, <2>6, <2>7
<1>15. ASSUME NEW i \in DOMAIN levels'[s] PROVE BlockTells(s, i)'
  <2>1. CASE i # T
    <3>1. levels'[s][i] = levels[s][i] /\ BlockTells(s, i) /\ Entries(s, i)' = Entries(s, i)
      BY <1>2, <1>5, <1>11, <1>15, <2>1 DEF SessionOK
    <3>2. Seen(levels[s][i])' = Seen(levels[s][i])
      BY <1>2, <3>1 DEF Seen
    <3> QED BY <1>2, <3>1, <3>2 DEF BlockTells
  <2>2. CASE i = T
    <3>1. /\ Seen(levels[s][i])' = Seen(b) /\ Entries(s, i)' = Here(s).trail \o new
          /\ levels'[s][i] = b
      BY <1>2, <1>5, <1>11, <2>2 DEF Seen
    <3>2. trail \o (Here(s).trail \o new) = (trail \o Here(s).trail) \o new
      <4>1. new \in Seq(Entry)
        BY <1>10
      <4> QED BY <1>12, <4>1, JoinedThree, Zenon
    <3>3. ASSUME NEW y \in Rows, y \notin stray \cup b.stray
          PROVE  LET entries == trail \o (Here(s).trail \o new)
                 IN /\ Tells(entries, y, Seen(b)[y])
                    /\ (Seen(b)[y] # None => Seen(b)[y].value \notin Invalid)
                    /\ y \in DOMAIN b.rows => Has(entries, y)
      BY <1>10, <1>14, <3>2, <3>3
    <3> QED BY <1>2, <3>1, <3>3 DEF BlockTells
  <2> QED BY <2>1, <2>2
<1>16. DoingOK(s)'
  <2>1. levels'[s] # <<>>
    BY <1>4, <1>5
  <2>2. doing'[s].row \in Rows /\ doing'[s].how \in Kinds
    BY <1>2, <1>6
  <2> QED BY <1>6, <1>8, <2>1, <2>2 DEF DoingOK
<1>17. SessionOK(s)'
  BY <1>4, <1>13, <1>15, <1>16 DEF SessionOK
<1>18. \A y \in Rows : object[s][y].state = "absent" => object'[s][y].state = "absent"
  <2>1. \A y \in Rows : object[s][y].state = "absent" => y \notin Dirty(s)
    BY DEF Dirty, Changed
  <2> QED BY <1>2, <2>1, FlushCleans
<1> QED BY <1>2, <1>4, <1>6, <1>7, <1>17, <1>18, OneSession

(***************************************************************************)
(* The specification                                                       *)
(***************************************************************************)

(* What the sequence of a finite set holds.                                *)
LEMMA Listed ==
  ASSUME NEW S, IsFiniteSet(S)
  PROVE  /\ SetToSeq(S) \in Seq(S)
         /\ \A i, k \in DOMAIN SetToSeq(S) : SetToSeq(S)[i] = SetToSeq(S)[k] => i = k
         /\ \A e \in S : \E i \in DOMAIN SetToSeq(S) : SetToSeq(S)[i] = e
<1> PICK n : n = Cardinality(S)
  OBVIOUS
<1>1. n \in Nat /\ ExistsBijection(1 .. n, S)
  BY FS_CardinalityType
<1>2. \E f \in [1 .. n -> S] : IsInjective(f)
  BY <1>1 DEF ExistsBijection, Bijection, Injection
<1> PICK u : u = SetToSeq(S)
  OBVIOUS
<1>3. u \in [1 .. n -> S] /\ IsInjective(u)
  BY <1>2 DEF SetToSeq
<1>4. u \in Injection(1 .. n, S)
  BY <1>3 DEF Injection
<1>5. IsFiniteSet(1 .. n) /\ Cardinality(1 .. n) = n
  BY <1>1, FS_Interval
<1>6. u \in Surjection(1 .. n, S)
  BY <1>4, <1>5, FS_Injection
<1>7. u \in Seq(S) /\ DOMAIN u = 1 .. n
  BY <1>1, <1>3
<1> QED BY <1>3, <1>6, <1>7 DEF IsInjective, Surjection

LEMMA InitTells ==
  ASSUME Init
  PROVE  /\ trail \in Seq(Entry) /\ \A r \in Rows : TellsOf(r)
         /\ rows \in [Rows -> Row \cup {None}]
         /\ \A r \in Rows : rows[r] # None => rows[r].value \notin Invalid
<1> PICK entry : entry = [r \in Old |-> [row |-> r, event |-> "created", old |-> None, new |-> First]]
  OBVIOUS
<1> PICK S : S = {[row |-> r, event |-> "created", old |-> None, new |-> First] : r \in Old}
  OBVIOUS
<1>1. S \subseteq Entry
  BY ModelAssumption DEF Entry
<1>2. \A e \in S : e.event = "created" /\ e.new = First /\ e.row \in Old /\ e = entry[e.row]
  OBVIOUS
<1>3. \A r \in Old : entry[r] \in S /\ entry[r].row = r
  OBVIOUS
<1>4. IsFiniteSet(S)
  <2>1. entry \in [Old -> S]
    BY <1>3
  <2>2. entry \in Surjection(Old, S)
    BY <1>2, <2>1 DEF Surjection
  <2> QED BY <2>2, ModelAssumption, FS_Surjection
<1>5. /\ trail \in Seq(S)
      /\ \A i, k \in DOMAIN trail : trail[i] = trail[k] => i = k
      /\ \A e \in S : \E i \in DOMAIN trail : trail[i] = e
  BY <1>4, Listed DEF Init
<1>6. /\ trail \in Seq(Entry) /\ \A i \in DOMAIN trail : trail[i] \in S /\ i \in Nat
  BY <1>1, <1>5
<1>7. rows = [r \in Rows |-> IF r \in Old THEN [value |-> First, deleted |-> FALSE] ELSE None]
  BY DEF Init
<1>8. [value |-> First, deleted |-> FALSE] \in Row /\ First \notin Invalid
  BY ModelAssumption DEF Row
<1>9. ASSUME NEW r \in Rows PROVE TellsOf(r)
  <2>1. CASE r \in Old
    <3>1. PICK i \in DOMAIN trail : trail[i] = entry[r]
      BY <1>3, <1>5, <2>1
    <3>2. \A k \in DOMAIN trail : trail[k].row = r <=> k = i
      <4>1. \A k \in DOMAIN trail : trail[k].row = r => trail[k] = entry[r]
        BY <1>2, <1>6
      <4> QED BY <1>3, <1>5, <2>1, <3>1, <4>1
    <3>3. trail[i].event = "created" /\ trail[i].new = First /\ i \in Nat
      BY <1>2, <1>6
    <3>4. rows[r] # None /\ rows[r].value = First /\ rows[r].deleted = FALSE
      BY <1>7, <1>8, <2>1, NoneAssumption
    <3>5. {k \in DOMAIN trail : trail[k].row = r} = {i}
      BY <3>2
    <3>6. {k \in {i} : trail[k].event = "deleted"} = {}
      BY <3>3
    <3> QED BY <3>3, <3>4, <3>5, <3>6 DEF TellsOf, Tells
  <2>2. CASE r \notin Old
    <3>1. \A k \in DOMAIN trail : trail[k].row # r
      BY <1>2, <1>6, <2>2
    <3> QED BY <1>7, <2>2, <3>1 DEF TellsOf, Tells
  <2> QED BY <2>1, <2>2
<1>10. rows \in [Rows -> Row \cup {None}]
  BY <1>7, <1>8
<1>11. \A r \in Rows : rows[r] # None => rows[r].value \notin Invalid
  BY <1>7, <1>8
<1> QED BY <1>6, <1>9, <1>10, <1>11

LEMMA Begins ==
  ASSUME Init
  PROVE  IInv
<1>1. /\ stray = {} /\ neglected = {} /\ levels = [s \in Sessions |-> <<Nothing>>]
      /\ object = [s \in Sessions |-> [r \in Rows |-> Absent]]
      /\ pending = [s \in Sessions |-> [r \in Rows |-> None]]
      /\ doing = [s \in Sessions |-> Idle] /\ unsaved = [s \in Sessions |-> {}] /\ calls = 0
      /\ rows \in [Rows -> Row \cup {None}] /\ trail \in Seq(Entry)
  BY InitTells DEF Init
<1>2. /\ Nothing \in Levels /\ Nothing.trail = <<>> /\ Nothing.rows = <<>>
      /\ Nothing.inserted = {} /\ Nothing.updated = {} /\ Nothing.removed = {}
      /\ Nothing.locked = {} /\ Nothing.claimed = {} /\ Nothing.stray = {}
      /\ DOMAIN Nothing.rows = {}
  <2>1. <<>> \in [{} -> Row \cup {None}] /\ DOMAIN <<>> = {}
    OBVIOUS
  <2>2. {} \in SUBSET Rows /\ <<>> \in PartialRows(Rows)
    BY <2>1 DEF PartialRows
  <2> QED BY <2>1, <2>2 DEF Nothing, Levels
<1>3. Types
  <2>1. <<Nothing>> \in Seq(Levels)
    BY <1>2
  <2>2. /\ Absent \in Instances
        /\ Idle \in [step : Stages, row : Rows \cup {None}, how : Kinds \cup {None}]
    BY DEF Absent, Instances, Idle, Stages
  <2>3. calls \in 0 .. MaxCalls
    BY <1>1, ModelAssumption
  <2> QED BY <1>1, <2>1, <2>2, <2>3 DEF Types
<1>4. ASSUME NEW s \in Sessions
      PROVE  /\ levels[s] = <<Nothing>> /\ DOMAIN levels[s] = {1} /\ levels[s][1] = Nothing
             /\ Top(s) = 1 /\ Here(s) = Nothing /\ doing[s] = Idle /\ doing[s].step = "idle"
             /\ \A r \in Rows : object[s][r] = Absent
  BY <1>1 DEF Top, Here, Idle
<1>5. LocksApart
  BY <1>2, <1>4 DEF LocksApart
<1>6. RowsTold
  BY InitTells DEF RowsTold
<1>7. ASSUME NEW s \in Sessions PROVE SessionOK(s)
  <2>1. DoingOK(s)
    BY <1>4 DEF DoingOK, Idle
  <2>2. ASSUME NEW r \in Rows PROVE ObjectOK(s, r)
    <3>1. object[s][r] = Absent /\ Absent.state = "absent"
      BY <1>4 DEF Absent
    <3> QED BY <1>2, <1>4, <3>1 DEF ObjectOK, Has, Unborn
  <2>3. LevelOK(s, 1)
    BY <1>2, <1>4 DEF LevelOK
  <2>4. Entries(s, 1) = <<>>
    BY <1>2, <1>4 DEF Entries, Coming
  <2>5. EntriesOK(s, 1)
    BY <2>4 DEF EntriesOK
  <2>6. BlockTells(s, 1)
    <3>1. trail \o Entries(s, 1) = trail
      BY <1>1, <2>4
    <3>2. \A r \in Rows : Seen(Nothing)[r] = rows[r]
      BY <1>2 DEF Seen
    <3>3. \A r \in Rows : /\ Tells(trail, r, rows[r])
                          /\ rows[r] # None => rows[r].value \notin Invalid
      BY InitTells DEF TellsOf
    <3>4. levels[s][1] = Nothing /\ DOMAIN Nothing.rows = {}
      BY <1>2, <1>4
    <3> QED BY <3>1, <3>2, <3>3, <3>4 DEF BlockTells
  <2>7. BlocksAgree(s)
    BY <1>4 DEF BlocksAgree
  <2>8. RemovedStay(s) /\ ClaimsOK(s)
    BY <1>2, <1>4 DEF RemovedStay, ClaimsOK
  <2> QED BY <1>4, <2>1, <2>2, <2>3, <2>5, <2>6, <2>7, <2>8 DEF SessionOK
<1> QED BY <1>3, <1>5, <1>6, <1>7 DEF IInv

LEMMA StepKeeps ==
  ASSUME IInv, [Next]_vars
  PROVE  IInv'
<1>1. CASE Next
  <2> PICK s \in Sessions :
        \/ Autoflush(s) \/ Prepare(s) \/ Flush(s) \/ Record(s)
        \/ EnterTransaction(s) \/ LeaveTransaction(s) \/ AbortTransaction(s)
        \/ Commit(s) \/ Rollback(s)
        \/ \E found \in SUBSET Rows : Select(s, found)
        \/ \E r \in Rows :
             \/ Claim(s, r) \/ New(s, r) \/ Save(s, r) \/ Restore(s, r) \/ Delete(s, r)
             \/ \E v \in Values : Assign(s, r, v)
    BY <1>1 DEF Next
  <2>1. CASE Autoflush(s)
    BY <2>1, AutoflushKeeps
  <2>2. CASE Prepare(s)
    BY <2>2, PrepareKeeps
  <2>3. CASE Flush(s)
    BY <2>3, FlushKeeps
  <2>4. CASE Record(s)
    BY <2>4, RecordKeeps
  <2>5. CASE EnterTransaction(s)
    BY <2>5, EnterKeeps
  <2>6. CASE LeaveTransaction(s)
    BY <2>6, LeaveKeeps
  <2>7. CASE AbortTransaction(s)
    BY <2>7, AbortKeeps
  <2>8. CASE Commit(s)
    BY <2>8, CommitKeeps
  <2>9. CASE Rollback(s)
    BY <2>9, RollbackKeeps
  <2>10. CASE \E found \in SUBSET Rows : Select(s, found)
    BY <2>10, SelectKeeps
  <2>11. ASSUME NEW r \in Rows,
                \/ Claim(s, r) \/ New(s, r) \/ Save(s, r) \/ Restore(s, r) \/ Delete(s, r)
                \/ \E v \in Values : Assign(s, r, v)
         PROVE  IInv'
    <3>1. CASE Claim(s, r)
      BY <3>1, ClaimKeeps
    <3>2. CASE New(s, r)
      BY <3>2, NewKeeps
    <3>3. CASE Save(s, r)
      BY <3>3, SaveKeeps
    <3>4. CASE Restore(s, r)
      BY <3>4, RestoreKeeps
    <3>5. CASE Delete(s, r)
      BY <3>5, DeleteKeeps
    <3>6. CASE \E v \in Values : Assign(s, r, v)
      BY <3>6, AssignKeeps
    <3> QED BY <2>11, <3>1, <3>2, <3>3, <3>4, <3>5, <3>6
  <2> QED BY <2>1, <2>2, <2>3, <2>4, <2>5, <2>6, <2>7, <2>8, <2>9, <2>10, <2>11
<1>2. CASE UNCHANGED vars
  <2>1. UNCHANGED <<rows, trail, stray, neglected, levels, object, pending, doing, unsaved, calls>>
    BY <1>2 DEF vars
  <2>2. ASSUME NEW s \in Sessions PROVE SessionOK(s)'
    <3>1. SessionOK(s)
      BY DEF IInv
    <3>2. \A r \in Rows : Unborn(s, r) => \A q \in Sessions \ {s} : object'[q][r].state = "absent"
      BY <2>1, <3>1 DEF SessionOK, ObjectOK
    <3> QED BY <2>1, <3>1, <3>2, Untouched
  <2>3. Types'
    BY <2>1 DEF IInv, Types
  <2>4. LocksApart'
    BY <2>1 DEF IInv, LocksApart
  <2>5. RowsTold'
    BY <2>1 DEF IInv, RowsTold, TellsOf
  <2> QED BY <2>2, <2>3, <2>4, <2>5 DEF IInv
<1> QED BY <1>1, <1>2

(* The invariant holds in every state of every session's handler.          *)
THEOREM Inductive == Spec => []IInv
BY Begins, StepKeeps, PTL DEF Spec

(* The variables have their types: an instance that is not yet saved is    *)
(* of no old row, what is claimed is locked, and no two transactions have  *)
(* locked the same row.                                                    *)
THEOREM AuditedTypes == Spec => []TypeOK
<1>1. ASSUME IInv PROVE TypeOK
  <2>1. ASSUME NEW s \in Sessions
        PROVE  /\ doing[s].step \in {"idle", "saving", "flushing", "recording", "done"}
               /\ levels[s] = <<>> <=> doing[s].step = "done"
               /\ \A r \in Rows : object[s][r].state = "transient" => r \notin Old
               /\ \A i \in DOMAIN levels[s] :
                    /\ levels[s][i].claimed \subseteq levels[s][i].locked
                    /\ \A q \in Sessions \ {s} : \A k \in DOMAIN levels[q] :
                         levels[s][i].locked \cap levels[q][k].locked = {}
    <3>1. doing[s].step \in {"idle", "saving", "flushing", "recording", "done"}
      BY <1>1 DEF IInv, Types, Stages
    <3>2. levels[s] = <<>> <=> doing[s].step = "done"
      BY <1>1 DEF IInv, SessionOK, DoingOK
    <3>3. \A r \in Rows : object[s][r].state = "transient" => r \notin Old
      BY <1>1 DEF IInv, SessionOK, ObjectOK
    <3>4. \A i \in DOMAIN levels[s] : levels[s][i].claimed \subseteq levels[s][i].locked
      BY <1>1 DEF IInv, SessionOK, LevelOK
    <3>5. \A i \in DOMAIN levels[s] : \A q \in Sessions \ {s} : \A k \in DOMAIN levels[q] :
            levels[s][i].locked \cap levels[q][k].locked = {}
      BY <1>1 DEF IInv, LocksApart
    <3> QED BY <3>1, <3>2, <3>3, <3>4, <3>5
  <2>2. /\ rows \in [Rows -> Row \cup {None}] /\ trail \in Seq(Entry)
        /\ stray \in SUBSET Rows /\ neglected \in SUBSET Rows
        /\ object \in [Sessions -> [Rows -> Instances]]
        /\ pending \in [Sessions -> [Rows -> Diff \cup {None}]]
        /\ unsaved \in [Sessions -> SUBSET Rows] /\ calls \in 0 .. MaxCalls
    BY <1>1 DEF IInv, Types
  <2> QED BY <2>1, <2>2 DEF TypeOK
<1> QED BY <1>1, Inductive, PTL

(* Whatever any number of sessions commit, abort, catch and overtake, the  *)
(* changelog of a row tells how it is, unless a value of it was written by *)
(* something else than its own save() (audit_log.py:18-21, 175-189).       *)
THEOREM TrailAlwaysTells == Spec => []TrailTellsRows
<1>1. ASSUME IInv PROVE TrailTellsRows
  BY <1>1 DEF IInv, RowsTold, TrailTellsRows
<1> QED BY <1>1, Inductive, PTL

(* A value that the rules refuse is never what a save() has written        *)
(* (model.py:197-204, 489-509).                                            *)
THEOREM SavedAlwaysValid == Spec => []SavedAreValid
<1>1. ASSUME IInv PROVE SavedAreValid
  BY <1>1 DEF IInv, RowsTold, SavedAreValid
<1> QED BY <1>1, Inductive, PTL

(* What a session has claimed with find(for_update=True) stays as its      *)
(* instance believes, until its transaction or the savepoint ends          *)
(* (model.py:270-282, docs/database.md:110-115).                           *)
THEOREM ClaimedStaysCurrent == Spec => []ClaimedIsCurrent
<1>1. ASSUME IInv PROVE ClaimedIsCurrent
  <2>1. ASSUME NEW s \in Sessions, NEW i \in DOMAIN levels[s], NEW r \in levels[s][i].claimed,
               object[s][r].state = "persistent"
        PROVE  Stored(s)[r] = [value |-> object[s][r].base, deleted |-> object[s][r].wasGone]
    <3>1. Types /\ SessionOK(s) /\ levels[s] \in Seq(Levels) /\ levels[s] # <<>>
      BY <1>1, <2>1 DEF IInv, Types
    <3>2. DoingOK(s) /\ doing[s].step # "done"
      BY <3>1 DEF SessionOK, DoingOK
    <3>3. /\ Top(s) \in Nat \ {0} /\ Top(s) \in DOMAIN levels[s]
          /\ Here(s) = levels[s][Top(s)] /\ DOMAIN levels[s] = 1 .. Top(s)
      BY <3>1, <3>2, Begun
    <3>4. r \in levels[s][Top(s)].claimed
      <4>1. i = Top(s) \/ i < Top(s)
        BY <2>1, <3>3
      <4> QED BY <2>1, <3>1, <3>3, <4>1 DEF SessionOK, BlocksAgree
    <3>5. ~Overwritten(s, Top(s), Top(s), r)
      <4>1. Top(s) + 1 .. Top(s) = {}
        BY <3>3
      <4> QED BY <4>1 DEF Overwritten
    <3> QED BY <2>1, <3>1, <3>3, <3>4, <3>5 DEF SessionOK, ClaimsOK, Stored
  <2> QED BY <2>1 DEF ClaimedIsCurrent
<1> QED BY <1>1, Inductive, PTL

=============================================================================
