-------------------------- MODULE Database_proofs --------------------------
(***************************************************************************)
(* Proofs about what works on the rows of a database and beside them, as   *)
(* MCDatabase puts the parts together: for any requests, rows, keys,       *)
(* addresses and bounds.  Each part has an invariant of its own, which the *)
(* steps of the others leave alone.                                        *)
(***************************************************************************)
EXTENDS MCDatabase, FiniteSetTheorems, SequenceTheorems,
        NaturalsInduction, WellFoundedInduction, TLAPS

(***************************************************************************)
(* Cache                                                                   *)
(***************************************************************************)

Forgotten(k) == {w \in Writers : writer[w].step = "forgotten" /\ writer[w].key = k}

(* A remember() knows every request that is under way, and of what it does *)
(* not know the writes.                                                    *)
ReadersMeet ==
  \A r \in Readers : reader[r] # Cached!Idle =>
    /\ Cached!UnderWay(reader[r].key) \subseteq reader[r].beside
    /\ reader[r].step = "computed" =>
         source[reader[r].key] \subseteq reader[r].seen \cup reader[r].beside

(* A request that has forgotten the key and may still commit was under way *)
(* when the value of now was put.                                          *)
EntriesMeet ==
  \A k \in Keys : \A e \in entry[k] : Forgotten(k) \subseteq e.beside

CacheInv ==
  Cached!TypeOK /\ ReadersMeet /\ EntriesMeet /\ Cached!StaleOnlyByOverlap

Remembering ==
  [step : {"missed", "computed"}, key : Keys, seen : SUBSET Writers,
   beside : SUBSET Writers]
Writing == [step : {"written", "forgotten"}, key : Keys]

LEMMA CacheInit ==
  ASSUME Cached!Init
  PROVE  CacheInv
<1>1. Cached!TypeOK
  BY DEF Cached!Init, Cached!TypeOK
<1> QED
  BY <1>1 DEF Cached!Init, CacheInv, ReadersMeet, EntriesMeet, Cached!StaleOnlyByOverlap

LEMMA ReadersAre ==
  ASSUME CacheInv, NEW r \in Readers
  PROVE  /\ reader[r] \in {Cached!Idle} \cup Remembering
         /\ reader[r] # Cached!Idle => reader[r] \in Remembering
BY DEF CacheInv, Cached!TypeOK, Remembering

LEMMA WritersAre ==
  ASSUME CacheInv, NEW w \in Writers
  PROVE  /\ writer[w].step \in {"written", "forgotten"} <=> writer[w] \in Writing
         /\ writer[w] \in {Cached!New, Cached!Done} \cup Writing
<1>1. writer[w] \in {Cached!New, Cached!Done} \cup Writing
  BY DEF CacheInv, Cached!TypeOK, Writing
<1> QED BY <1>1 DEF Writing, Cached!New, Cached!Done

(* Who has forgotten is under way.                                         *)
LEMMA ForgottenAreUnderWay ==
  ASSUME NEW k \in Keys
  PROVE  Forgotten(k) \subseteq Cached!UnderWay(k)
BY DEF Forgotten, Cached!UnderWay, Cached!New, Cached!Done

(* A miss and the callback: a remember() begins with whoever is under way, *)
(* and has then seen all that is committed.                                *)
LEMMA CacheReads ==
  ASSUME CacheInv, NEW r \in Readers,
         (\E k \in Keys : Cached!Get(r, k)) \/ Cached!Callback(r)
  PROVE  CacheInv'
<1>1. UNCHANGED <<source, entry, writer, scan>>
  BY DEF Cached!Get, Cached!Callback
<1>2. \A k \in Keys : Cached!UnderWay(k) \in SUBSET Writers
  BY DEF Cached!UnderWay
<1> DEFINE Goes ==
      /\ reader' \in [Readers -> {Cached!Idle} \cup Remembering]
      /\ \A q \in Readers : q # r => reader'[q] = reader[q]
      /\ reader'[r] # Cached!Idle =>
           /\ Cached!UnderWay(reader'[r].key) \subseteq reader'[r].beside
           /\ reader'[r].step = "computed" =>
                source[reader'[r].key] \subseteq reader'[r].seen
<1>3. Goes
  <2>1. reader \in [Readers -> {Cached!Idle} \cup Remembering]
    BY DEF CacheInv, Cached!TypeOK, Remembering
  <2>2. ASSUME NEW k \in Keys, Cached!Get(r, k)
        PROVE  Goes
    <3>1. reader' = [reader EXCEPT ![r] = [step |-> "missed", key |-> k,
                       seen |-> {}, beside |-> Cached!UnderWay(k)]]
      BY <2>2 DEF Cached!Get
    <3> QED BY <2>1, <3>1, <1>2 DEF Remembering
  <2>3. CASE Cached!Callback(r) /\ reader' = [reader EXCEPT ![r] = Cached!Idle]
    BY <2>1, <2>3
  <2>4. CASE /\ Cached!Callback(r)
             /\ reader' = [reader EXCEPT ![r].step = "computed",
                                         ![r].seen = source[reader[r].key]]
    <3>1. reader[r] \in Remembering
      BY <2>4, ReadersAre DEF Cached!Callback, Cached!Idle
    <3>2. source[reader[r].key] \in SUBSET Writers
      BY <3>1 DEF CacheInv, Cached!TypeOK, Remembering
    <3>3. Cached!UnderWay(reader[r].key) \subseteq reader[r].beside
      BY <2>4 DEF CacheInv, ReadersMeet, Cached!Callback, Cached!Idle
    <3>4. /\ reader'[r] \in Remembering
          /\ reader'[r].key = reader[r].key /\ reader'[r].beside = reader[r].beside
          /\ reader'[r].seen = source[reader[r].key]
      BY <2>1, <2>4, <3>1, <3>2 DEF Remembering
    <3> QED BY <2>1, <2>4, <3>3, <3>4
  <2> QED BY <2>2, <2>3, <2>4 DEF Cached!Callback
<1>4. Cached!TypeOK'
  BY <1>1, <1>3 DEF CacheInv, Cached!TypeOK, Remembering
<1>5. ReadersMeet'
  BY <1>1, <1>3 DEF CacheInv, ReadersMeet, Cached!UnderWay
<1> QED
  BY <1>1, <1>4, <1>5 DEF CacheInv, EntriesMeet, Forgotten, Cached!StaleOnlyByOverlap

(* What is put knows what its remember() knew.                             *)
LEMMA CachePuts ==
  ASSUME CacheInv, NEW r \in Readers, Cached!Put(r)
  PROVE  CacheInv'
<1>1. reader[r] \in Remembering /\ reader[r] # Cached!Idle
  BY ReadersAre DEF Cached!Put, Cached!Idle
<1>2. PICK k \in Keys : k = reader[r].key
  BY <1>1 DEF Remembering
<1>3. PICK e : e = [seen |-> reader[r].seen, beside |-> reader[r].beside,
                    late |-> source[k] \ reader[r].seen]
  OBVIOUS
<1>4. /\ entry' = [entry EXCEPT ![k] = {e}]
      /\ reader' = [reader EXCEPT ![r] = Cached!Idle]
      /\ UNCHANGED <<source, writer, scan>>
  BY <1>2, <1>3 DEF Cached!Put
<1>5. e \in [seen : SUBSET Writers, beside : SUBSET Writers, late : SUBSET Writers]
  BY <1>1, <1>2, <1>3 DEF Remembering, CacheInv, Cached!TypeOK
<1>6. Forgotten(k) \subseteq e.beside /\ source[k] \subseteq e.seen \cup e.beside
  BY <1>1, <1>2, <1>3, ForgottenAreUnderWay DEF CacheInv, ReadersMeet, Cached!Put
<1>7. Cached!TypeOK'
  BY <1>4, <1>5 DEF CacheInv, Cached!TypeOK
<1>8. \A j \in Keys : entry'[j] = IF j = k THEN {e} ELSE entry[j]
  BY <1>4 DEF CacheInv, Cached!TypeOK
<1>9. EntriesMeet' /\ Cached!StaleOnlyByOverlap'
  BY <1>4, <1>6, <1>8 DEF CacheInv, EntriesMeet, Forgotten, Cached!StaleOnlyByOverlap
<1>10. ReadersMeet'
  BY <1>4 DEF CacheInv, Cached!TypeOK, ReadersMeet, Cached!UnderWay
<1> QED BY <1>7, <1>9, <1>10 DEF CacheInv

(* Removing an entry harms nobody, and nor does a request that ends        *)
(* without a commit.                                                       *)
LEMMA CacheRemoves ==
  ASSUME CacheInv, UNCHANGED <<source, reader>>, scan' \in SUBSET Keys,
         entry' = entry \/ (\E k \in Keys : Cached!Remove(k)),
         writer' \in [Writers -> {Cached!New, Cached!Done} \cup Writing],
         \A w \in Writers : writer'[w] # writer[w] =>
           \/ writer'[w] = Cached!Done
           \/ /\ writer[w] \in Writing /\ Cached!Remove(writer[w].key)
              /\ writer'[w] = [writer[w] EXCEPT !.step = "forgotten"]
  PROVE  CacheInv'
<1>1. \A k \in Keys : entry'[k] = entry[k] \/ entry'[k] = {}
  BY DEF Cached!Remove, CacheInv, Cached!TypeOK
<1>2. Cached!TypeOK'
  BY <1>1 DEF CacheInv, Cached!TypeOK, Cached!Remove, Writing
<1>3. \A k \in Keys : Cached!UnderWay(k)' \subseteq Cached!UnderWay(k)
  BY DEF Cached!UnderWay, Writing, Cached!New, Cached!Done
<1>4. ReadersMeet'
  <2> SUFFICES ASSUME NEW r \in Readers, reader[r] # Cached!Idle
               PROVE  Cached!UnderWay(reader[r].key)' \subseteq reader[r].beside
    BY DEF CacheInv, ReadersMeet
  <2>1. reader[r].key \in Keys /\ reader[r].key' = reader[r].key
    BY ReadersAre DEF Remembering
  <2> QED BY <1>3, <2>1 DEF CacheInv, ReadersMeet
<1>5. EntriesMeet'
  <2> SUFFICES ASSUME NEW k \in Keys, NEW e \in entry'[k], NEW w \in Writers,
                      writer'[w].step = "forgotten", writer'[w].key = k
               PROVE  w \in e.beside
    BY DEF EntriesMeet, Forgotten
  <2>1. e \in entry[k]
    BY <1>1
  <2>2. CASE writer'[w] = writer[w]
    BY <2>1, <2>2 DEF CacheInv, EntriesMeet, Forgotten
  <2>3. CASE writer'[w] = Cached!Done
    BY <2>3 DEF Cached!Done
  <2>4. CASE /\ writer[w] \in Writing /\ Cached!Remove(writer[w].key)
             /\ writer'[w] = [writer[w] EXCEPT !.step = "forgotten"]
    <3>1. writer[w].key = k
      BY <2>4 DEF Writing
    <3>2. entry'[k] = {}
      BY <2>4, <3>1 DEF Cached!Remove, CacheInv, Cached!TypeOK
    <3> QED BY <3>2
  <2> QED BY <2>2, <2>3, <2>4
<1> QED BY <1>1, <1>2, <1>4, <1>5 DEF CacheInv, Cached!StaleOnlyByOverlap

(* A request that begins to write is met by every remember() of its key,   *)
(* and one that commits has been met by whoever still has a value of it.   *)
LEMMA CacheWrites ==
  ASSUME CacheInv, NEW w \in Writers,
         (\E k \in Keys : Cached!Write(w, k)) \/ Cached!Commit(w)
  PROVE  CacheInv'
<1>1. ASSUME NEW k \in Keys, Cached!Write(w, k) PROVE CacheInv'
  <2>1. /\ writer' = [writer EXCEPT ![w] = [step |-> "written", key |-> k]]
        /\ UNCHANGED <<source, entry, scan>>
    BY <1>1 DEF Cached!Write
  <2>2. ASSUME NEW r \in Readers
        PROVE  /\ reader'[r] \in {Cached!Idle} \cup Remembering
               /\ reader'[r] # Cached!Idle =>
                    /\ reader[r] # Cached!Idle
                    /\ reader'[r].key = reader[r].key /\ reader'[r].seen = reader[r].seen
                    /\ reader'[r].step = reader[r].step
                    /\ reader[r].beside \subseteq reader'[r].beside
                    /\ reader[r].key = k => w \in reader'[r].beside
    <3>1. CASE reader[r] # Cached!Idle /\ reader[r].key = k
      <4>1. reader'[r] = [reader[r] EXCEPT !.beside = @ \cup {w}]
        BY <1>1, <3>1 DEF Cached!Write
      <4>2. reader[r] \in Remembering
        BY <3>1, ReadersAre
      <4> QED BY <3>1, <4>1, <4>2 DEF Remembering
    <3>2. CASE ~(reader[r] # Cached!Idle /\ reader[r].key = k)
      <4>1. reader'[r] = reader[r]
        BY <1>1, <3>2 DEF Cached!Write
      <4> QED BY <3>2, <4>1, ReadersAre
    <3> QED BY <3>1, <3>2
  <2>3. DOMAIN reader' = Readers /\ reader' = [r \in Readers |-> reader'[r]]
    BY <1>1 DEF Cached!Write
  <2>4. reader' \in [Readers -> {Cached!Idle} \cup Remembering]
    BY <2>2, <2>3
  <2>5. Cached!TypeOK'
    BY <2>1, <2>4 DEF CacheInv, Cached!TypeOK, Remembering
  <2>6. \A j \in Keys : Cached!UnderWay(j)' \subseteq
          Cached!UnderWay(j) \cup (IF j = k THEN {w} ELSE {})
    BY <2>1 DEF Cached!UnderWay, CacheInv, Cached!TypeOK
  <2>7. ReadersMeet'
    <3> SUFFICES ASSUME NEW r \in Readers, reader'[r] # Cached!Idle
                 PROVE  /\ Cached!UnderWay(reader[r].key)' \subseteq reader'[r].beside
                        /\ reader[r].step = "computed" =>
                             source[reader[r].key] \subseteq reader'[r].seen \cup reader'[r].beside
      BY <2>1, <2>2 DEF ReadersMeet
    <3>1. PICK j \in Keys : j = reader[r].key
      BY <2>2, ReadersAre DEF Remembering
    <3>2. Cached!UnderWay(j) \subseteq reader[r].beside
      BY <2>2, <3>1 DEF CacheInv, ReadersMeet
    <3>3. reader'[r].key = j
      BY <2>2, <3>1
    <3>4. reader[r].step = "computed" => source[j] \subseteq reader[r].seen \cup reader[r].beside
      BY <2>2, <3>1 DEF CacheInv, ReadersMeet
    <3> QED BY <2>2, <2>6, <3>1, <3>2, <3>3, <3>4
  <2>8. \A j \in Keys : Forgotten(j)' \subseteq Forgotten(j)
    BY <2>1 DEF Forgotten, CacheInv, Cached!TypeOK
  <2>9. EntriesMeet'
    BY <2>1, <2>8 DEF CacheInv, EntriesMeet
  <2> QED BY <2>1, <2>5, <2>7, <2>9 DEF CacheInv, Cached!StaleOnlyByOverlap
<1>2. CASE Cached!Commit(w)
  <2>1. writer[w] \in Writing /\ writer[w].step = "forgotten"
    BY <1>2, WritersAre DEF Cached!Commit
  <2>2. PICK k \in Keys : k = writer[w].key
    BY <2>1 DEF Writing
  <2>3. /\ source' = [source EXCEPT ![k] = @ \cup {w}]
        /\ writer' = [writer EXCEPT ![w] = Cached!Done]
        /\ UNCHANGED <<entry, reader, scan>>
    BY <1>2, <2>2 DEF Cached!Commit
  <2>4. Cached!TypeOK'
    BY <2>3 DEF CacheInv, Cached!TypeOK
  <2>5. \A j \in Keys : source'[j] = source[j] \cup (IF j = k THEN {w} ELSE {})
    BY <2>3 DEF CacheInv, Cached!TypeOK
  <2>6. w \in Forgotten(k) /\ w \in Cached!UnderWay(k)
    BY <2>1, <2>2, ForgottenAreUnderWay DEF Forgotten
  <2>7. \A j \in Keys : /\ Cached!UnderWay(j)' \subseteq Cached!UnderWay(j)
                        /\ Forgotten(j)' \subseteq Forgotten(j)
    BY <2>3 DEF Cached!UnderWay, Forgotten, CacheInv, Cached!TypeOK, Cached!Done
  <2>8. ReadersMeet'
    <3> SUFFICES ASSUME NEW r \in Readers, reader[r] # Cached!Idle
                 PROVE  /\ Cached!UnderWay(reader[r].key)' \subseteq reader[r].beside
                        /\ reader[r].step = "computed" =>
                             source'[reader[r].key] \subseteq reader[r].seen \cup reader[r].beside
      BY <2>3 DEF ReadersMeet
    <3>1. PICK j \in Keys : j = reader[r].key
      BY ReadersAre DEF Remembering
    <3>2. reader'[r].key = j
      BY <2>3, <3>1
    <3>3. Cached!UnderWay(j) \subseteq reader[r].beside
      BY <3>1 DEF CacheInv, ReadersMeet
    <3>4. reader[r].step = "computed" => source[j] \subseteq reader[r].seen \cup reader[r].beside
      BY <3>1 DEF CacheInv, ReadersMeet
    <3> QED BY <2>3, <2>5, <2>6, <2>7, <3>1, <3>2, <3>3, <3>4
  <2>9. EntriesMeet'
    BY <2>3, <2>7 DEF CacheInv, EntriesMeet
  <2>10. Cached!StaleOnlyByOverlap'
    <3> SUFFICES ASSUME NEW j \in Keys, NEW e \in entry[j]
                 PROVE  source'[j] \subseteq e.seen \cup e.beside
      BY <2>3 DEF Cached!StaleOnlyByOverlap
    <3>1. source[j] \subseteq e.seen \cup e.beside /\ Forgotten(j) \subseteq e.beside
      BY DEF CacheInv, EntriesMeet, Cached!StaleOnlyByOverlap
    <3> QED BY <2>5, <2>6, <3>1
  <2> QED BY <2>4, <2>8, <2>9, <2>10 DEF CacheInv
<1> QED BY <1>1, <1>2

LEMMA CacheInductive ==
  ASSUME CacheInv, [Cached!Next]_Cached!vars
  PROVE  CacheInv'
<1> USE DEF Writing
<1>1. ASSUME NEW r \in Readers, (\E k \in Keys : Cached!Get(r, k)) \/ Cached!Callback(r) \/ Cached!Put(r)
      PROVE  CacheInv'
  BY <1>1, CacheReads, CachePuts
<1>2. ASSUME NEW w \in Writers, (\E k \in Keys : Cached!Write(w, k)) \/ Cached!Commit(w)
      PROVE  CacheInv'
  BY <1>2, CacheWrites
<1>3. ASSUME NEW w \in Writers, Cached!Forget(w) PROVE CacheInv'
  <2>1. writer[w] \in Writing
    BY <1>3, WritersAre DEF Cached!Forget
  <2>2. writer' = [writer EXCEPT ![w] = [writer[w] EXCEPT !.step = "forgotten"]]
    BY <1>3 DEF Cached!Forget
  <2>3. /\ UNCHANGED <<source, reader>> /\ scan' \in SUBSET Keys
        /\ Cached!Remove(writer[w].key) /\ writer[w].key \in Keys
    BY <1>3, <2>1 DEF Cached!Forget, CacheInv, Cached!TypeOK
  <2>4. [writer[w] EXCEPT !.step = "forgotten"] \in Writing
    BY <2>1
  <2>5. writer' \in [Writers -> {Cached!New, Cached!Done} \cup Writing]
    BY <2>2, <2>4 DEF CacheInv, Cached!TypeOK
  <2>6. \A v \in Writers : writer'[v] # writer[v] =>
          v = w /\ writer'[v] = [writer[v] EXCEPT !.step = "forgotten"]
    BY <2>2 DEF CacheInv, Cached!TypeOK
  <2> QED BY <2>1, <2>3, <2>5, <2>6, CacheRemoves
<1>4. ASSUME NEW w \in Writers, Cached!Rollback(w) PROVE CacheInv'
  <2>1. /\ UNCHANGED <<source, reader, entry>> /\ scan' \in SUBSET Keys
        /\ writer' = [writer EXCEPT ![w] = Cached!Done]
    BY <1>4 DEF Cached!Rollback, CacheInv, Cached!TypeOK
  <2>2. /\ writer' \in [Writers -> {Cached!New, Cached!Done} \cup Writing]
        /\ \A v \in Writers : writer'[v] # writer[v] => writer'[v] = Cached!Done
    BY <2>1 DEF CacheInv, Cached!TypeOK
  <2> QED BY <2>1, <2>2, CacheRemoves
<1>5. ASSUME Cached!Flush \/ (\E k \in Keys : Cached!FlushOne(k) \/ Cached!Expire(k))
      PROVE  CacheInv'
  <2>1. /\ UNCHANGED <<source, reader, writer>> /\ scan' \in SUBSET Keys
        /\ entry' = entry \/ (\E k \in Keys : Cached!Remove(k))
    BY <1>5 DEF Cached!Flush, Cached!FlushOne, Cached!Expire, CacheInv, Cached!TypeOK
  <2>2. writer' \in [Writers -> {Cached!New, Cached!Done} \cup Writing]
    BY <2>1 DEF CacheInv, Cached!TypeOK
  <2> QED BY <2>1, <2>2, CacheRemoves
<1>6. CASE UNCHANGED Cached!vars
  <2>1. /\ UNCHANGED <<source, reader, writer, entry>> /\ scan' \in SUBSET Keys
        /\ writer' \in [Writers -> {Cached!New, Cached!Done} \cup Writing]
    BY <1>6 DEF Cached!vars, CacheInv, Cached!TypeOK
  <2> QED BY <2>1, CacheRemoves
<1> QED BY <1>1, <1>2, <1>3, <1>4, <1>5, <1>6 DEF Cached!Next

(***************************************************************************)
(* MultiFactor                                                             *)
(***************************************************************************)

MfaBounds == MaxSecrets \in Nat /\ MaxBatches \in Nat /\ PerBatch \in Nat

LEMMA MfaBound == MfaBounds
BY BoundsAssumption DEF MfaBounds

Profiles == [secret : Nat, enabled : BOOLEAN, codes : SUBSET Mfa!Codes]

TypesKept ==
  /\ account \in Profiles
  /\ user \in [Verifiers -> Profiles] /\ loaded \in [Verifiers -> Profiles]
  /\ verifying \in [Verifiers -> Mfa!Changes \cup {"new", "verify", "locking", "saved", "done"}]
  /\ verdict \in [Verifiers -> {"none", "refused", "totp", "recovery"}]
  /\ secrets \in Nat /\ batches \in Nat
  /\ spent \in [Mfa!Codes -> Nat]
  /\ disturbed \in BOOLEAN

OneClaims ==
  /\ claimed \subseteq Verifiers
  /\ \A q, r \in claimed : q = r

(* Codes are of batches that were issued, so those of the next are new.    *)
Issued(codes) == \A c \in codes : c[1] <= batches
CodesIssued ==
  /\ Issued(account.codes)
  /\ \A r \in Verifiers : Issued(user[r].codes) /\ Issued(loaded[r].codes)
  /\ Issued({c \in Mfa!Codes : spent[c] > 0})

Unspent(codes) == \A c \in codes : spent[c] = 0

SameSecret(one, other) ==
  one.secret = other.secret /\ one.enabled = other.enabled

(* A session that has anything to write has claimed the row.  If it is     *)
(* about codes of the row it has read the row since, and if it is about    *)
(* other codes nobody has used them.                                       *)
SessionIsTrue(r) ==
  /\ r \notin claimed /\ verifying[r] # "done" => user[r] = loaded[r] /\ verdict[r] # "recovery"
  /\ r \in claimed =>
       /\ verifying[r] = "saved"
       /\ verdict[r] # "none" =>
            /\ loaded[r] = account /\ SameSecret(user[r], account)
            /\ user[r].codes \subseteq account.codes
       /\ verdict[r] = "none" => user[r].codes = loaded[r].codes \/ Unspent(user[r].codes)
  /\ verifying[r] \notin {"saved", "done"} => verdict[r] = "none"

(* While changes come one after the other, what a change has loaded is     *)
(* still so, and what it is about to write can be passed.                  *)
ChangeIsTrue(r) ==
  /\ \A q \in Verifiers : Mfa!Changing(q) => q = r
  /\ SameSecret(loaded[r], account)
  /\ verifying[r] = "enroll" => ~account.enabled
  /\ verifying[r] = "saved" => (user[r].enabled => user[r].secret # Mfa!NoSecret)

ChangesApart ==
  ~disturbed =>
    /\ account.enabled => account.secret \in proven
    /\ \A r \in Verifiers : Mfa!Changing(r) => ChangeIsTrue(r)

MfaInv ==
  /\ TypesKept /\ OneClaims /\ CodesIssued /\ Mfa!SpentIsGone
  /\ \A r \in Verifiers : SessionIsTrue(r)
  /\ ChangesApart

LEMMA MfaInit ==
  ASSUME MfaBounds, Mfa!Init
  PROVE  MfaInv
<1>1. Mfa!Blank \in Profiles /\ account = Mfa!Blank
  BY DEF Mfa!Init, Profiles, Mfa!Blank, Mfa!NoSecret
<1>2. TypesKept /\ OneClaims
  BY <1>1 DEF Mfa!Init, TypesKept, OneClaims
<1>3. CodesIssued /\ Mfa!SpentIsGone
  BY DEF Mfa!Init, CodesIssued, Issued, Mfa!SpentIsGone, Mfa!Blank
<1>4. \A r \in Verifiers : SessionIsTrue(r)
  BY DEF Mfa!Init, SessionIsTrue
<1>5. ChangesApart
  BY DEF Mfa!Init, ChangesApart, Mfa!Changing, Mfa!Changes, Mfa!Blank
<1> QED BY <1>2, <1>3, <1>4, <1>5 DEF MfaInv

LEMMA LoadInductive ==
  ASSUME MfaBounds, MfaInv, NEW r \in Verifiers, NEW call \in Mfa!Changes \cup {"verify"}, Mfa!Load(r, call)
  PROVE  MfaInv'
<1>1. /\ user' = [user EXCEPT ![r] = account] /\ loaded' = [loaded EXCEPT ![r] = account]
      /\ verifying' = [verifying EXCEPT ![r] = call] /\ verifying[r] = "new"
      /\ UNCHANGED <<account, verdict, claimed, secrets, batches, spent, proven>>
  BY DEF Mfa!Load
<1>2. TypesKept'
  BY <1>1 DEF Mfa!Load, MfaInv, TypesKept, Mfa!Changing, Mfa!Changes
<1>3. OneClaims' /\ CodesIssued' /\ Mfa!SpentIsGone'
  BY <1>1 DEF MfaInv, TypesKept, OneClaims, CodesIssued, Issued, Mfa!SpentIsGone
<1>4. r \notin claimed /\ verdict[r] = "none"
  BY <1>1 DEF MfaInv, SessionIsTrue
<1>5. ASSUME NEW q \in Verifiers PROVE SessionIsTrue(q)'
  BY <1>1, <1>4 DEF MfaInv, TypesKept, SessionIsTrue, SameSecret, Unspent, Mfa!Changes
<1>6. ASSUME ~disturbed'
      PROVE  (account.enabled => account.secret \in proven)' /\ \A q \in Verifiers : Mfa!Changing(q)' => ChangeIsTrue(q)'
  <2>1. /\ ~disturbed
        /\ call \in Mfa!Changes => \A q \in Verifiers : ~Mfa!Changing(q)
        /\ call = "enroll" => ~account.enabled
    BY <1>6 DEF Mfa!Load, Mfa!Changes
  <2>2. \A q \in Verifiers : q # r => (Mfa!Changing(q)' <=> Mfa!Changing(q))
    BY <1>1 DEF Mfa!Changing, MfaInv, TypesKept
  <2>3. Mfa!Changing(r)' => call \in Mfa!Changes
    BY <1>1 DEF Mfa!Changing, MfaInv, TypesKept, Mfa!Changes
  <2>4. ASSUME NEW q \in Verifiers, Mfa!Changing(q)' PROVE ChangeIsTrue(q)'
    <3>1. CASE q = r
      <4>1. call \in Mfa!Changes /\ verifying'[r] = call /\ loaded'[r] = account
        BY <1>1, <2>3, <2>4, <3>1 DEF MfaInv, TypesKept
      <4>2. \A p \in Verifiers : Mfa!Changing(p)' => p = r
        BY <2>1, <2>2, <4>1
      <4> QED BY <1>1, <2>1, <3>1, <4>1, <4>2 DEF ChangeIsTrue, SameSecret, Mfa!Changes
    <3>2. CASE q # r
      <4>1. Mfa!Changing(q) /\ ChangeIsTrue(q) /\ call \notin Mfa!Changes
        BY <2>1, <2>2, <2>4, <3>2 DEF MfaInv, ChangesApart
      <4>2. \A p \in Verifiers : Mfa!Changing(p)' => p = q
        BY <2>2, <2>3, <4>1 DEF ChangeIsTrue
      <4> QED BY <1>1, <3>2, <4>1, <4>2 DEF ChangeIsTrue, SameSecret, MfaInv, TypesKept
    <3> QED BY <3>1, <3>2
  <2> QED BY <1>1, <2>1, <2>4 DEF MfaInv, ChangesApart
<1> QED BY <1>2, <1>3, <1>5, <1>6 DEF MfaInv, ChangesApart

(* What a request does before its commit changes its own session alone.    *)
LEMMA OwnSessionOnly ==
  ASSUME MfaBounds, MfaInv, NEW r \in Verifiers,
         verifying[r] \notin {"new", "saved", "done"},
         TypesKept', batches <= batches',
         UNCHANGED <<account, spent, proven, disturbed>>,
         claimed' = claimed \/ (claimed \subseteq {r} /\ claimed' = {r}),
         \A q \in Verifiers : q # r =>
           /\ user'[q] = user[q] /\ loaded'[q] = loaded[q]
           /\ verifying'[q] = verifying[q] /\ verdict'[q] = verdict[q],
         \A c \in user'[r].codes \cup loaded'[r].codes : c[1] <= batches',
         SessionIsTrue(r)',
         Mfa!Changing(r)' => Mfa!Changing(r),
         ~disturbed /\ Mfa!Changing(r)' => ChangeIsTrue(r)'
  PROVE  MfaInv'
<1>1. OneClaims'
  BY DEF MfaInv, OneClaims
<1>2. CodesIssued'
  <2>1. ASSUME NEW codes \in SUBSET Mfa!Codes, Issued(codes)
        PROVE  \A c \in codes : c[1] <= batches'
    BY <2>1, MfaBounds DEF MfaInv, TypesKept, Issued, Mfa!Codes, MfaBounds
  <2>2. /\ Issued(account.codes) /\ account.codes \in SUBSET Mfa!Codes
        /\ Issued({c \in Mfa!Codes : spent[c] > 0})
    BY DEF MfaInv, TypesKept, CodesIssued, Profiles
  <2>3. /\ \A c \in account.codes : c[1] <= batches'
        /\ \A c \in {d \in Mfa!Codes : spent[d] > 0} : c[1] <= batches'
    BY <2>1, <2>2
  <2>4. ASSUME NEW q \in Verifiers, q # r
        PROVE  /\ \A c \in user'[q].codes : c[1] <= batches'
               /\ \A c \in loaded'[q].codes : c[1] <= batches'
    <3>1. /\ user[q].codes \in SUBSET Mfa!Codes /\ loaded[q].codes \in SUBSET Mfa!Codes
          /\ Issued(user[q].codes) /\ Issued(loaded[q].codes)
      BY DEF MfaInv, TypesKept, CodesIssued, Profiles
    <3> QED BY <2>1, <2>4, <3>1
  <2> QED BY <2>3, <2>4 DEF CodesIssued, Issued
<1>3. Mfa!SpentIsGone'
  BY DEF MfaInv, Mfa!SpentIsGone
<1>4. ASSUME NEW q \in Verifiers PROVE SessionIsTrue(q)'
  BY DEF MfaInv, SessionIsTrue, Unspent, SameSecret
<1>5. ChangesApart'
  BY DEF MfaInv, ChangesApart, Mfa!Changing, ChangeIsTrue, SameSecret
<1> QED BY <1>1, <1>2, <1>3, <1>4, <1>5 DEF MfaInv

(* enroll() and disable() write no codes that could be used, and leave     *)
(* nobody enabled whose secret was not verified.                           *)
LEMMA SaveInductive ==
  ASSUME MfaBounds, MfaInv, NEW r \in Verifiers, NEW columns \in Profiles,
         verifying[r] \in Mfa!Changes, Mfa!Save(r, columns),
         batches' \in Nat, batches <= batches', secrets' \in Nat,
         UNCHANGED <<account, loaded, verdict, spent, proven, disturbed>>,
         columns.codes = loaded[r].codes \/ Unspent(columns.codes),
         \A c \in columns.codes : c[1] <= batches',
         ~disturbed => (columns.enabled => columns.secret # Mfa!NoSecret)
  PROVE  MfaInv'
<1>1. /\ user' = [user EXCEPT ![r] = columns]
      /\ verifying' = [verifying EXCEPT ![r] = "saved"]
      /\ IF columns = loaded[r] THEN claimed' = claimed
                                ELSE claimed \subseteq {r} /\ claimed' = {r}
  BY DEF Mfa!Save
<1>2. TypesKept'
  BY <1>1 DEF MfaInv, TypesKept
<1>3. r \notin claimed /\ verdict[r] = "none"
  BY DEF MfaInv, SessionIsTrue, Mfa!Changes
<1>4. SessionIsTrue(r)'
  BY <1>1, <1>3 DEF MfaInv, TypesKept, SessionIsTrue, Unspent
<1>5. Mfa!Changing(r)
  BY DEF Mfa!Changing
<1>6. ASSUME ~disturbed PROVE ChangeIsTrue(r)'
  <2>1. ChangeIsTrue(r)
    BY <1>5, <1>6 DEF MfaInv, ChangesApart
  <2>2. \A q \in Verifiers : Mfa!Changing(q)' => q = r
    BY <1>1, <2>1 DEF Mfa!Changing, ChangeIsTrue, MfaInv, TypesKept
  <2> QED BY <1>1, <1>6, <2>1, <2>2 DEF ChangeIsTrue, SameSecret, MfaInv, TypesKept
<1>7. \A c \in user'[r].codes \cup loaded'[r].codes : c[1] <= batches'
  <2>1. \A c \in loaded[r].codes : c[1] <= batches /\ c[1] \in Nat
    BY DEF MfaInv, TypesKept, Profiles, CodesIssued, Issued, Mfa!Codes, MfaBounds
  <2>2. \A c \in loaded[r].codes : c[1] <= batches'
    BY <2>1 DEF MfaInv, TypesKept
  <2> QED BY <1>1, <2>2 DEF MfaInv, TypesKept
<1>8. claimed' = claimed \/ (claimed \subseteq {r} /\ claimed' = {r})
  BY <1>1
<1>9. \A q \in Verifiers : q # r =>
        /\ user'[q] = user[q] /\ loaded'[q] = loaded[q]
        /\ verifying'[q] = verifying[q] /\ verdict'[q] = verdict[q]
  BY <1>1 DEF MfaInv, TypesKept
<1> QED BY <1>2, <1>4, <1>5, <1>6, <1>7, <1>8, <1>9, OwnSessionOnly DEF Mfa!Changes

(* Nothing is written by who was refused or has shown a TOTP word.         *)
LEMMA VerdictInductive ==
  ASSUME MfaBounds, MfaInv, NEW r \in Verifiers, verifying[r] \in {"confirm", "verify"},
         NEW v \in {"refused", "totp"},
         verifying' = [verifying EXCEPT ![r] = "saved"],
         verdict' = [verdict EXCEPT ![r] = v],
         UNCHANGED <<account, user, loaded, claimed, secrets, batches, spent, proven, disturbed>>
  PROVE  MfaInv'
<1>1. TypesKept'
  BY DEF MfaInv, TypesKept
<1>2. r \notin claimed /\ user[r] = loaded[r]
  BY DEF MfaInv, SessionIsTrue
<1>3. SessionIsTrue(r)' /\ ~Mfa!Changing(r)'
  BY <1>2 DEF SessionIsTrue, Mfa!Changing, Mfa!Changes, MfaInv, TypesKept
<1>4. \A c \in user'[r].codes \cup loaded'[r].codes : c[1] <= batches'
  BY DEF MfaInv, CodesIssued, Issued
<1>5. \A q \in Verifiers : q # r =>
        /\ user'[q] = user[q] /\ loaded'[q] = loaded[q]
        /\ verifying'[q] = verifying[q] /\ verdict'[q] = verdict[q]
  BY DEF MfaInv, TypesKept
<1>6. batches <= batches'
  BY DEF MfaInv, TypesKept
<1> QED BY <1>1, <1>3, <1>4, <1>5, <1>6, OwnSessionOnly

LEMMA EnrollInductive ==
  ASSUME MfaBounds, MfaInv, NEW r \in Verifiers, Mfa!Enroll(r)
  PROVE  MfaInv'
<1> DEFINE columns == [user[r] EXCEPT !.secret = secrets + 1]
<1>1. columns \in Profiles /\ columns.codes = user[r].codes /\ columns.enabled = user[r].enabled
  BY DEF MfaInv, TypesKept, Profiles
<1>2. user[r] = loaded[r]
  BY DEF Mfa!Enroll, MfaInv, SessionIsTrue, Mfa!Changes
<1>3. ~disturbed => ~columns.enabled
  BY <1>1, <1>2 DEF Mfa!Enroll, MfaInv, ChangesApart, Mfa!Changing, Mfa!Changes, ChangeIsTrue, SameSecret
<1>4. \A c \in columns.codes : c[1] <= batches
  BY <1>1 DEF MfaInv, CodesIssued, Issued
<1>5. /\ verifying[r] \in Mfa!Changes /\ Mfa!Save(r, columns) /\ batches' = batches /\ secrets' \in Nat
      /\ UNCHANGED <<account, loaded, verdict, spent, proven, disturbed>>
      /\ batches \in Nat
  BY DEF Mfa!Enroll, Mfa!Changes, MfaInv, TypesKept
<1> HIDE DEF columns
<1> QED BY <1>1, <1>2, <1>3, <1>4, <1>5, SaveInductive

(* The new codes are of a batch of which none can have been spent.         *)
LEMMA ConfirmInductive ==
  ASSUME MfaBounds, MfaInv, NEW r \in Verifiers, NEW s \in Nat, Mfa!Confirm(r, s)
  PROVE  MfaInv'
<1>1. CASE Mfa!Refuse(r)
  BY <1>1, VerdictInductive DEF Mfa!Refuse, Mfa!Confirm
<1>2. CASE ~Mfa!Refuse(r)
  <2> DEFINE columns == [user[r] EXCEPT !.enabled = TRUE,
                                        !.codes = {batches + 1} \X (1 .. PerBatch)]
  <2>1. /\ verifying[r] \in Mfa!Changes /\ Mfa!Save(r, columns)
        /\ Mfa!Verifies(r, s) /\ batches < MaxBatches /\ batches' = batches + 1
        /\ UNCHANGED <<account, loaded, verdict, secrets, spent, proven, disturbed>>
    BY <1>2 DEF Mfa!Confirm, Mfa!Changes
  <2>2. batches \in Nat /\ batches + 1 \in 1 .. MaxBatches
    BY <2>1 DEF MfaInv, TypesKept, MfaBounds
  <2>3. columns \in Profiles
    <3>1. {batches + 1} \X (1 .. PerBatch) \in SUBSET Mfa!Codes
      BY <2>2 DEF Mfa!Codes
    <3> QED BY <3>1 DEF MfaInv, TypesKept, Profiles
  <2>4. columns.codes = {batches + 1} \X (1 .. PerBatch) /\ columns.secret = user[r].secret
    BY DEF MfaInv, TypesKept, Profiles
  <2>5. \A c \in columns.codes : c \in Mfa!Codes /\ c[1] = batches + 1
    BY <2>2, <2>4 DEF Mfa!Codes
  <2>6. Unspent(columns.codes)
    BY <2>2, <2>5 DEF MfaInv, TypesKept, CodesIssued, Issued, Unspent
  <2>7. columns.secret # Mfa!NoSecret
    BY <2>1, <2>4 DEF Mfa!Verifies
  <2>8. /\ batches' \in Nat /\ batches <= batches' /\ secrets' \in Nat
        /\ \A c \in columns.codes : c[1] <= batches'
    BY <2>1, <2>2, <2>5 DEF MfaInv, TypesKept
  <2> HIDE DEF columns
  <2> QED BY <2>1, <2>3, <2>6, <2>7, <2>8, SaveInductive
<1> QED BY <1>1, <1>2

LEMMA DisableInductive ==
  ASSUME MfaBounds, MfaInv, NEW r \in Verifiers, Mfa!Disable(r)
  PROVE  MfaInv'
<1>1. Mfa!Blank \in Profiles /\ Mfa!Blank.codes = {} /\ ~Mfa!Blank.enabled
  BY DEF Mfa!Blank, Profiles, Mfa!NoSecret
<1>2. /\ verifying[r] \in Mfa!Changes /\ Mfa!Save(r, Mfa!Blank) /\ batches' = batches /\ secrets' = secrets
      /\ UNCHANGED <<account, loaded, verdict, spent, proven, disturbed>>
      /\ batches \in Nat /\ secrets \in Nat
  BY DEF Mfa!Disable, Mfa!Changes, MfaInv, TypesKept
<1> QED BY <1>1, <1>2, SaveInductive DEF Unspent

LEMMA VerifyInductive ==
  ASSUME MfaBounds, MfaInv, NEW r \in Verifiers, NEW s \in Nat, Mfa!Verify(r, s)
  PROVE  MfaInv'
<1>1. CASE Mfa!Refuse(r)
  BY <1>1, VerdictInductive DEF Mfa!Refuse, Mfa!Verify
<1>2. CASE verdict' = [verdict EXCEPT ![r] = "totp"] /\ verifying' = [verifying EXCEPT ![r] = "saved"]
           /\ UNCHANGED <<account, user, loaded, claimed, secrets, batches, spent, proven, disturbed>>
  BY <1>2, VerdictInductive DEF Mfa!Verify
<1>3. CASE verifying' = [verifying EXCEPT ![r] = "locking"]
           /\ UNCHANGED <<account, user, loaded, verdict, claimed, secrets, batches, spent,
                          proven, disturbed>>
  <2>1. verifying[r] = "verify"
    BY DEF Mfa!Verify
  <2>2. TypesKept'
    BY <1>3 DEF MfaInv, TypesKept
  <2>3. SessionIsTrue(r)' /\ ~Mfa!Changing(r)'
    BY <1>3, <2>1 DEF SessionIsTrue, Mfa!Changing, Mfa!Changes, MfaInv, TypesKept
  <2>4. \A c \in user'[r].codes \cup loaded'[r].codes : c[1] <= batches'
    BY <1>3 DEF MfaInv, CodesIssued, Issued
  <2>5. \A q \in Verifiers : q # r =>
          /\ user'[q] = user[q] /\ loaded'[q] = loaded[q]
          /\ verifying'[q] = verifying[q] /\ verdict'[q] = verdict[q]
    BY <1>3 DEF MfaInv, TypesKept
  <2>6. batches <= batches'
    BY <1>3 DEF MfaInv, TypesKept
  <2> QED BY <1>3, <2>1, <2>2, <2>3, <2>4, <2>5, <2>6, OwnSessionOnly
<1> QED BY <1>1, <1>2, <1>3 DEF Mfa!Verify

(* The row is read when its lock is held, and keeps what was read.         *)
LEMMA ConsumeInductive ==
  ASSUME MfaBounds, MfaInv, NEW r \in Verifiers, NEW word, Mfa!Consume(r, word)
  PROVE  MfaInv'
<1> DEFINE columns == [account EXCEPT !.codes = @ \ {word}]
<1>1. /\ verifying[r] = "locking" /\ claimed = {} /\ claimed' = {r}
      /\ loaded' = [loaded EXCEPT ![r] = account]
      /\ user' = [user EXCEPT ![r] = columns]
      /\ verifying' = [verifying EXCEPT ![r] = "saved"]
      /\ UNCHANGED <<account, secrets, batches, spent, proven, disturbed>>
  BY DEF Mfa!Consume, Mfa!Locked
<1>2. \E v \in {"recovery", "refused"} : verdict' = [verdict EXCEPT ![r] = v]
  BY DEF Mfa!Consume
<1>3. columns \in Profiles /\ SameSecret(columns, account) /\ columns.codes \subseteq account.codes
  BY DEF MfaInv, TypesKept, Profiles, SameSecret
<1> HIDE DEF columns
<1>4. TypesKept'
  BY <1>1, <1>2, <1>3 DEF MfaInv, TypesKept
<1>5. SessionIsTrue(r)' /\ ~Mfa!Changing(r)'
  BY <1>1, <1>2, <1>3 DEF SessionIsTrue, Mfa!Changing, Mfa!Changes, SameSecret, MfaInv, TypesKept
<1>6. \A c \in user'[r].codes \cup loaded'[r].codes : c[1] <= batches'
  BY <1>1, <1>3 DEF MfaInv, TypesKept, CodesIssued, Issued
<1>7. \A q \in Verifiers : q # r =>
        /\ user'[q] = user[q] /\ loaded'[q] = loaded[q]
        /\ verifying'[q] = verifying[q] /\ verdict'[q] = verdict[q]
  BY <1>1, <1>2 DEF MfaInv, TypesKept
<1>8. batches <= batches'
  BY <1>1 DEF MfaInv, TypesKept
<1> QED BY <1>1, <1>4, <1>5, <1>6, <1>7, <1>8, OwnSessionOnly

(***************************************************************************)
(* The end of a session                                                    *)
(***************************************************************************)

LEMMA MergedColumns ==
  ASSUME NEW old \in Profiles, NEW was \in Profiles, NEW is \in Profiles
  PROVE  /\ Mfa!Merge(old, was, is) \in Profiles
         /\ Mfa!Merge(old, was, is).secret = IF is.secret # was.secret THEN is.secret ELSE old.secret
         /\ Mfa!Merge(old, was, is).enabled = IF is.enabled # was.enabled THEN is.enabled ELSE old.enabled
         /\ Mfa!Merge(old, was, is).codes = IF is.codes # was.codes THEN is.codes ELSE old.codes
         /\ is = was => Mfa!Merge(old, was, is) = old
<1> DEFINE merged == [secret |-> IF is.secret # was.secret THEN is.secret ELSE old.secret,
                      enabled |-> IF is.enabled # was.enabled THEN is.enabled ELSE old.enabled,
                      codes |-> IF is.codes # was.codes THEN is.codes ELSE old.codes]
<1>1. DOMAIN old = {"secret", "enabled", "codes"}
  BY DEF Profiles
<1>2. Mfa!Merge(old, was, is) = merged
  BY <1>1 DEF Mfa!Merge
<1>3. merged \in Profiles
  BY DEF Profiles
<1>4. is = was => merged = old
  BY DEF Profiles
<1> QED BY <1>2, <1>3, <1>4

(* The row as a commit leaves it: with nothing to write, as it was.        *)
LEMMA CommitWrites ==
  ASSUME MfaBounds, MfaInv, NEW r \in Verifiers, Mfa!Commit(r)
  PROVE  /\ TypesKept'
         /\ r \notin claimed => account' = account /\ spent' = spent
         /\ verdict[r] # "none" => SameSecret(account', account) /\ account'.codes \subseteq account.codes
         /\ r \in claimed /\ verdict[r] # "none" => account'.codes = user[r].codes
         /\ account'.codes = account.codes \/ account'.codes = user[r].codes
         /\ user[r].codes = loaded[r].codes => account'.codes = account.codes
<1>1. /\ verifying[r] = "saved" /\ account' = Mfa!Merge(account, loaded[r], user[r])
      /\ verifying' = [verifying EXCEPT ![r] = "done"]
      /\ UNCHANGED <<user, loaded, verdict, secrets, batches, disturbed>>
  BY DEF Mfa!Commit, Mfa!Release
<1>2. account \in Profiles /\ loaded[r] \in Profiles /\ user[r] \in Profiles /\ spent \in [Mfa!Codes -> Nat]
  BY DEF MfaInv, TypesKept
<1>3. account' \in Profiles
  BY <1>1, <1>2, MergedColumns
<1>4. spent' \in [Mfa!Codes -> Nat]
  BY <1>2 DEF Mfa!Commit
<1>5. TypesKept'
  BY <1>1, <1>3, <1>4 DEF MfaInv, TypesKept
<1>6. ASSUME r \notin claimed PROVE account' = account /\ spent' = spent
  <2>1. user[r] = loaded[r] /\ verdict[r] # "recovery"
    BY <1>1, <1>6 DEF MfaInv, SessionIsTrue
  <2>2. spent' = spent
    BY <1>2, <2>1 DEF Mfa!Commit
  <2> QED BY <1>1, <1>2, <2>1, <2>2, MergedColumns
<1>7. account'.codes = account.codes \/ account'.codes = user[r].codes
  BY <1>1, <1>2, MergedColumns
<1>8. user[r].codes = loaded[r].codes => account'.codes = account.codes
  BY <1>1, <1>2, MergedColumns
<1>9. ASSUME r \in claimed, verdict[r] # "none"
      PROVE  SameSecret(account', account) /\ account'.codes = user[r].codes /\ account'.codes \subseteq account.codes
  <2>1. /\ loaded[r] = account /\ SameSecret(user[r], account)
        /\ user[r].codes \subseteq account.codes
    BY <1>9 DEF MfaInv, SessionIsTrue
  <2> QED BY <1>1, <1>2, <2>1, MergedColumns DEF SameSecret
<1> QED BY <1>5, <1>6, <1>7, <1>8, <1>9 DEF SameSecret

(* A word is spent once, and is gone with the commit that spends it.       *)
LEMMA CommitSpends ==
  ASSUME MfaBounds, MfaInv, NEW r \in Verifiers, Mfa!Commit(r)
  PROVE  CodesIssued' /\ Mfa!SpentIsGone'
<1>1. CASE r \notin claimed
  BY <1>1, CommitWrites DEF Mfa!Commit, MfaInv, CodesIssued, Issued, Mfa!SpentIsGone
<1>2. CASE r \in claimed
  <2>1. account.codes \in SUBSET Mfa!Codes /\ loaded[r].codes \in SUBSET Mfa!Codes
    BY DEF MfaInv, TypesKept, Profiles
  <2>2. \A c \in Mfa!Codes : spent[c] \in Nat /\ (spent[c] > 0 => spent[c] = 1 /\ c \notin account.codes)
    BY DEF MfaInv, TypesKept, Mfa!SpentIsGone
  <2>3. CASE verdict[r] = "recovery"
    <3>1. account'.codes = user[r].codes /\ loaded[r] = account /\ user[r].codes \subseteq account.codes
      BY <1>2, <2>3, CommitWrites DEF MfaInv, SessionIsTrue
    <3>2. \A c \in Mfa!Codes : spent'[c] =
            IF c \in account.codes \ user[r].codes THEN spent[c] + 1 ELSE spent[c]
      BY <2>3, <3>1 DEF Mfa!Commit
    <3>3. Mfa!SpentIsGone'
      BY <2>1, <2>2, <3>1, <3>2 DEF Mfa!SpentIsGone
    <3>4. Issued({c \in Mfa!Codes : spent[c] > 0}) /\ Issued(account.codes)
      BY DEF MfaInv, CodesIssued
    <3>5. Issued({c \in Mfa!Codes : spent'[c] > 0})
      BY <3>2, <3>4 DEF Issued
    <3> QED BY <3>1, <3>3, <3>4, <3>5 DEF Mfa!Commit, MfaInv, CodesIssued, Issued
  <2>4. CASE verdict[r] # "recovery"
    <3>1. spent' = spent
      BY <2>4 DEF Mfa!Commit, MfaInv, TypesKept
    <3>2. \A c \in account'.codes : spent[c] = 0 \/ c \in account.codes
      <4>1. CASE verdict[r] = "none"
        BY <1>2, <4>1, CommitWrites DEF MfaInv, SessionIsTrue, Unspent
      <4>2. CASE verdict[r] # "none"
        BY <4>2, CommitWrites
      <4> QED BY <4>1, <4>2
    <3>3. Mfa!SpentIsGone'
      BY <2>2, <3>1, <3>2 DEF Mfa!SpentIsGone
    <3>4. account'.codes = account.codes \/ account'.codes = user[r].codes
      BY CommitWrites
    <3> QED BY <3>1, <3>3, <3>4 DEF Mfa!Commit, MfaInv, CodesIssued, Issued
  <2> QED BY <2>3, <2>4
<1> QED BY <1>1, <1>2

LEMMA CommitInductive ==
  ASSUME MfaBounds, MfaInv, NEW r \in Verifiers, Mfa!Commit(r)
  PROVE  MfaInv'
<1>1. /\ verifying[r] = "saved" /\ account' = Mfa!Merge(account, loaded[r], user[r])
      /\ verifying' = [verifying EXCEPT ![r] = "done"] /\ claimed' = claimed \ {r}
      /\ proven' = IF user[r].enabled /\ verdict[r] = "none"
                   THEN proven \cup ({user[r].secret} \ {Mfa!NoSecret}) ELSE proven
      /\ UNCHANGED <<user, loaded, verdict, secrets, batches, disturbed>>
  BY DEF Mfa!Commit, Mfa!Release
<1>2. OneClaims'
  BY <1>1 DEF MfaInv, OneClaims
<1>3. ASSUME NEW q \in Verifiers PROVE SessionIsTrue(q)'
  <2>1. CASE q = r
    BY <1>1, <2>1 DEF MfaInv, TypesKept, SessionIsTrue
  <2>2. CASE q # r /\ q \in claimed
    <3>1. account' = account /\ spent' = spent
      BY <2>2, CommitWrites DEF MfaInv, OneClaims
    <3> QED BY <1>1, <2>2, <3>1 DEF MfaInv, TypesKept, SessionIsTrue, SameSecret, Unspent
  <2>3. CASE q # r /\ q \notin claimed
    BY <1>1, <2>3 DEF MfaInv, TypesKept, SessionIsTrue
  <2> QED BY <2>1, <2>2, <2>3
<1>4. ASSUME ~disturbed'
      PROVE  /\ account'.enabled => account'.secret \in proven'
             /\ \A q \in Verifiers : Mfa!Changing(q)' => ChangeIsTrue(q)'
  <2>1. /\ ~disturbed
        /\ account.enabled => account.secret \in proven
        /\ \A q \in Verifiers : Mfa!Changing(q) => ChangeIsTrue(q)
    BY <1>1, <1>4 DEF MfaInv, ChangesApart
  <2>2. \A q \in Verifiers : Mfa!Changing(q)' <=> Mfa!Changing(q) /\ q # r
    BY <1>1 DEF Mfa!Changing, Mfa!Changes, MfaInv, TypesKept
  <2>3. CASE verdict[r] = "none"
    <3>1. Mfa!Changing(r) /\ ChangeIsTrue(r)
      BY <1>1, <2>1, <2>3 DEF Mfa!Changing
    <3>2. \A q \in Verifiers : ~Mfa!Changing(q)'
      BY <2>2, <3>1 DEF ChangeIsTrue
    <3>3. account \in Profiles /\ loaded[r] \in Profiles /\ user[r] \in Profiles
      BY DEF MfaInv, TypesKept
    <3>4. account'.secret = user[r].secret /\ account'.enabled = user[r].enabled
      BY <1>1, <3>1, <3>3, MergedColumns DEF ChangeIsTrue, SameSecret
    <3> QED BY <1>1, <2>3, <3>1, <3>2, <3>4 DEF ChangeIsTrue
  <2>4. CASE verdict[r] # "none"
    <3>1. SameSecret(account', account) /\ proven' = proven
      BY <1>1, <2>4, CommitWrites
    <3>2. ASSUME NEW q \in Verifiers, Mfa!Changing(q)' PROVE ChangeIsTrue(q)'
      <4>1. q # r /\ ChangeIsTrue(q)
        BY <2>1, <2>2, <3>2
      <4>2. verifying'[q] = verifying[q]
        BY <1>1, <4>1 DEF MfaInv, TypesKept
      <4> QED BY <1>1, <2>2, <3>1, <4>1, <4>2 DEF ChangeIsTrue, SameSecret
    <3> QED BY <2>1, <3>1, <3>2 DEF SameSecret
  <2> QED BY <2>3, <2>4
<1> QED BY <1>2, <1>3, <1>4, CommitWrites, CommitSpends DEF MfaInv, ChangesApart

LEMMA RollbackInductive ==
  ASSUME MfaBounds, MfaInv, NEW r \in Verifiers, Mfa!Rollback(r)
  PROVE  MfaInv'
<1>1. /\ verifying' = [verifying EXCEPT ![r] = "done"] /\ claimed' = claimed \ {r}
      /\ UNCHANGED <<account, user, loaded, verdict, secrets, batches, spent, proven, disturbed>>
  BY DEF Mfa!Rollback, Mfa!Release
<1>2. TypesKept' /\ OneClaims' /\ CodesIssued' /\ Mfa!SpentIsGone'
  BY <1>1 DEF MfaInv, TypesKept, OneClaims, CodesIssued, Issued, Mfa!SpentIsGone
<1>3. ASSUME NEW q \in Verifiers PROVE SessionIsTrue(q)'
  BY <1>1 DEF MfaInv, TypesKept, SessionIsTrue, SameSecret, Unspent
<1>4. \A q \in Verifiers : Mfa!Changing(q)' <=> Mfa!Changing(q) /\ q # r
  BY <1>1 DEF Mfa!Changing, Mfa!Changes, MfaInv, TypesKept
<1>5. ASSUME NEW q \in Verifiers, ~disturbed, Mfa!Changing(q)' PROVE ChangeIsTrue(q)'
  <2>1. q # r /\ ChangeIsTrue(q)
    BY <1>4, <1>5 DEF MfaInv, ChangesApart
  <2>2. verifying'[q] = verifying[q]
    BY <1>1, <2>1 DEF MfaInv, TypesKept
  <2> QED BY <1>1, <1>4, <2>1, <2>2 DEF ChangeIsTrue, SameSecret
<1> QED BY <1>1, <1>2, <1>3, <1>5 DEF MfaInv, ChangesApart

LEMMA MfaInductive ==
  ASSUME MfaBounds, MfaInv, [Mfa!Next]_Mfa!vars
  PROVE  MfaInv'
<1>1. CASE UNCHANGED Mfa!vars
  BY <1>1 DEF Mfa!vars, MfaInv, TypesKept, OneClaims, CodesIssued, Issued, Mfa!SpentIsGone,
              SessionIsTrue, SameSecret, Unspent, ChangesApart, Mfa!Changing, ChangeIsTrue
<1>2. ASSUME NEW r \in Verifiers, NEW s \in 0 .. secrets, Mfa!Confirm(r, s) \/ Mfa!Verify(r, s)
      PROVE  MfaInv'
  <2>1. s \in Nat
    BY DEF MfaInv, TypesKept
  <2> QED BY <1>2, <2>1, ConfirmInductive, VerifyInductive
<1>3. CASE Mfa!Next
  BY <1>2, <1>3, LoadInductive, EnrollInductive, DisableInductive, CommitInductive,
     RollbackInductive, ConsumeInductive DEF Mfa!Next
<1> QED BY <1>1, <1>3


LEMMA MfaHolds ==
  ASSUME MfaInv
  PROVE  Mfa!SpentIsGone /\ Mfa!EnabledCanPass
BY DEF MfaInv, ChangesApart, Mfa!EnabledCanPass

(***************************************************************************)
(* WebhookDelivery                                                         *)
(***************************************************************************)

(* Each attempt sends at most once, and a row of the log is committed      *)
(* with the end of its job.                                                *)
HookInv ==
  /\ Hook!TypeOK
  /\ \A j \in Deliveries :
       /\ received[j] <= posts[j] /\ posts[j] <= attempts[j]
       /\ delivery[j] = "queued" => attempts[j] < MaxAttempts
       /\ delivery[j] = "running" => posts[j] < attempts[j]
       /\ log[j] # <<>> => delivery[j] = "done"

LEMMA HookInit ==
  ASSUME Hook!Init
  PROVE  HookInv
BY BoundsAssumption
   DEF Hook!Init, HookInv, Hook!TypeOK, Hook!Stages, Hook!Answers

LEMMA HookInductive ==
  ASSUME HookInv, [Hook!Next]_Hook!vars
  PROVE  HookInv'
<1> USE DEF HookInv, Hook!TypeOK, Hook!Stages, Hook!Answers, Hook!Become
<1>0. MaxAttempts \in Nat \ {0}
  BY BoundsAssumption
<1> USE <1>0
<1>1. CASE UNCHANGED Hook!vars
  BY <1>1 DEF Hook!vars
<1>2. ASSUME NEW j \in Deliveries, Hook!Toggle(j) PROVE HookInv'
  BY <1>2 DEF Hook!Toggle
<1>3. ASSUME NEW j \in Deliveries, Hook!Fetch(j) PROVE HookInv'
  BY <1>3 DEF Hook!Fetch
<1>4. ASSUME NEW j \in Deliveries, NEW a1 \in Hook!Answers, Hook!Post(j, a1)
      PROVE  HookInv'
  <2>1. PICK got \in {0, 1} : received' = [received EXCEPT ![j] = @ + got]
    BY <1>4 DEF Hook!Post
  <2>2. /\ posts' = [posts EXCEPT ![j] = @ + 1] /\ delivery[j] = "running"
        /\ delivery' = [delivery EXCEPT ![j] = "posted"]
        /\ answer' = [answer EXCEPT ![j] = a1]
        /\ UNCHANGED <<active, attempts, log>>
    BY <1>4 DEF Hook!Post
  <2>3. /\ posts[j] \in Nat /\ posts[j] < attempts[j] /\ attempts[j] \in 0 .. MaxAttempts
        /\ received[j] \in Nat /\ received[j] <= posts[j]
    BY <2>2
  <2>4. /\ posts[j] + 1 \in 0 .. MaxAttempts /\ posts[j] + 1 <= attempts[j]
        /\ received[j] + got \in 0 .. MaxAttempts /\ received[j] + got <= posts[j] + 1
    <3>1. \A m, n, k, l \in Nat : l \in {0, 1} /\ m < n /\ n <= MaxAttempts /\ k <= m =>
            /\ m + 1 \in 0 .. MaxAttempts /\ m + 1 <= n
            /\ k + l \in 0 .. MaxAttempts /\ k + l <= m + 1
      OBVIOUS
    <3> QED BY <2>3, <3>1
  <2>5. Hook!TypeOK'
    <3>1. posts' \in [Deliveries -> 0 .. MaxAttempts]
      BY <2>2, <2>4
    <3>2. received' \in [Deliveries -> 0 .. MaxAttempts]
      BY <2>1, <2>4
    <3>3. answer' \in [Deliveries -> Hook!Answers]
      BY <2>2
    <3>4. delivery' \in [Deliveries -> Hook!Stages]
      BY <2>2
    <3> QED BY <2>2, <3>1, <3>2, <3>3, <3>4
  <2> QED BY <2>1, <2>2, <2>4, <2>5
<1>5. ASSUME NEW j \in Deliveries,
             Hook!CreateRow(j) \/ Hook!CreateRowFails(j) \/ Hook!CommitFails(j)
               \/ Hook!Retry(j) \/ Hook!Crash(j)
      PROVE  HookInv'
  <2>1. /\ delivery' = [delivery EXCEPT ![j] = delivery'[j]]
        /\ delivery'[j] \in Hook!Stages \ {"running", "done"}
        /\ delivery[j] \notin {"done", "buried", "lost"}
        /\ delivery'[j] = "queued" => attempts[j] < MaxAttempts
        /\ UNCHANGED <<active, attempts, answer, log, posts, received>>
    BY <1>5 DEF Hook!CreateRow, Hook!CreateRowFails, Hook!CommitFails, Hook!Retry,
                Hook!Crash, Hook!Over
  <2> QED BY <2>1
<1>6. ASSUME NEW j \in Deliveries, Hook!Commit(j) PROVE HookInv'
  <2>1. log' \in [Deliveries -> Seq(Hook!Answers \ {"none"})]
    <3>1. CASE answer[j] = "none"
      BY <1>6, <3>1 DEF Hook!Commit
    <3>2. CASE answer[j] # "none"
      <4>1. answer[j] \in Hook!Answers \ {"none"} /\ log[j] \in Seq(Hook!Answers \ {"none"})
        BY <3>2
      <4>2. Append(log[j], answer[j]) \in Seq(Hook!Answers \ {"none"})
        BY <4>1
      <4> QED BY <1>6, <3>2, <4>2 DEF Hook!Commit
    <3> QED BY <3>1, <3>2
  <2>2. \A i \in Deliveries : i # j => log'[i] = log[i]
    BY <1>6 DEF Hook!Commit
  <2> QED BY <1>6, <2>1, <2>2 DEF Hook!Commit
<1> QED BY <1>1, <1>2, <1>3, <1>4, <1>5, <1>6 DEF Hook!Next

(* Nothing follows a logged success, as its job is done.                   *)
LEMMA HookStep ==
  ASSUME HookInv, [Hook!Next]_Hook!vars, NEW j \in Deliveries,
         \E i \in DOMAIN log[j] : log[j][i] = "2xx"
  PROVE  posts'[j] = posts[j] /\ Len(log'[j]) = Len(log[j])
<1>1. delivery[j] = "done"
  BY DEF HookInv, Hook!TypeOK
<1>2. posts'[j] = posts[j] /\ log'[j] = log[j]
  <2>1. CASE Hook!Next
    <3>1. PICK i \in Deliveries :
            \/ Hook!Toggle(i) \/ Hook!Fetch(i) \/ Hook!CreateRow(i) \/ Hook!CreateRowFails(i)
            \/ \E a1 \in Hook!Answers : Hook!Post(i, a1)
            \/ Hook!Commit(i) \/ Hook!CommitFails(i) \/ Hook!Retry(i) \/ Hook!Crash(i)
      BY <2>1 DEF Hook!Next
    <3>2. CASE i = j
      BY <1>1, <3>1, <3>2
         DEF Hook!Toggle, Hook!Fetch, Hook!CreateRow, Hook!CreateRowFails, Hook!Post,
             Hook!Commit, Hook!CommitFails, Hook!Retry, Hook!Crash
    <3>3. CASE i # j
      BY <3>1, <3>3
         DEF HookInv, Hook!TypeOK, Hook!Toggle, Hook!Fetch, Hook!CreateRow,
             Hook!CreateRowFails, Hook!Post, Hook!Commit, Hook!CommitFails, Hook!Retry,
             Hook!Crash
    <3> QED BY <3>2, <3>3
  <2> QED BY <2>1 DEF Hook!vars
<1> QED BY <1>2

(***************************************************************************)
(* Admin                                                                   *)
(***************************************************************************)

(* What a page can hold: a text that is no value only in a column of time. *)
Texts ==
  {t \in [Pages!Columns -> Pages!Cells \cup {Pages!Garbled}] :
     \A c \in Pages!Columns \ Moments : t[c] # Pages!Garbled}
Forms ==
  {Pages!NoForm} \cup [kind : {"new"}, texts : Texts]
    \cup [kind : {"edit"}, id : Managed, texts : Texts]
Updates ==
  {Pages!NoTask}
    \cup [pc : {"found", "saved"}, id : Managed, found : Pages!Row, held : Pages!Row]

(* A PUT works on the page that is open, and holds what that page says, or *)
(* what it has found.                                                      *)
AdminInv ==
  /\ live \in [Managed -> {"no", "live", "deleted"}] /\ cells \in [Managed -> Pages!Row]
  /\ allowed \subseteq Admins
  /\ form \in [Admins -> Forms] /\ task \in [Admins -> Updates]
  /\ \A x \in Admins :
       /\ task[x] # Pages!NoTask => form[x] # Pages!NoForm /\ form[x].kind = "edit"
       /\ task[x].pc = "saved" => task[x].held = Pages!Assigned(x)

LEMMA Parsed ==
  ASSUME NEW t \in Texts, ~Pages!Unparsable(t)
  PROVE  t \in Pages!Row
BY DEF Texts, Pages!Unparsable, Pages!Row

LEMMA AdminInit ==
  ASSUME Pages!Init
  PROVE  AdminInv
BY DEF Pages!Init, AdminInv, Forms, Updates, Pages!NoForm, Pages!NoTask

(* Steps that open, fill in or close the page of somebody who is idle.     *)
LEMMA FormStep ==
  ASSUME AdminInv, NEW x \in Admins, Pages!Idle(x), NEW f \in Forms,
         form' = [form EXCEPT ![x] = f],
         live' \in [Managed -> {"no", "live", "deleted"}],
         cells' \in [Managed -> Pages!Row], UNCHANGED <<allowed, task>>
  PROVE  AdminInv'
<1>1. task[x] = Pages!NoTask
  BY DEF Pages!Idle
<1>2. ASSUME NEW y \in Admins
      PROVE /\ task'[y] # Pages!NoTask => form'[y] # Pages!NoForm /\ form'[y].kind = "edit"
            /\ task'[y].pc = "saved" => task'[y].held = Pages!Assigned(y)'
  <2>1. CASE y = x
    BY <1>1, <2>1 DEF Pages!NoTask
  <2>2. CASE y # x
    BY <2>2 DEF AdminInv, Pages!Assigned
  <2> QED BY <2>1, <2>2
<1>3. form' \in [Admins -> Forms]
  BY DEF AdminInv
<1> QED BY <1>2, <1>3 DEF AdminInv

LEMMA AdminInductive ==
  ASSUME AdminInv, [Pages!Next]_Pages!vars
  PROVE  AdminInv'
<1>1. CASE UNCHANGED Pages!vars
  BY <1>1 DEF Pages!vars, AdminInv, Pages!Assigned
<1>2. ASSUME NEW x \in Admins, Pages!OpenNew(x) PROVE AdminInv'
  <2>1. [kind |-> "new", texts |-> [c \in Pages!Columns |-> Pages!Unset]] \in Forms
    BY DEF Forms, Texts, Pages!Cells, Pages!Unset, Pages!Garbled
  <2> QED BY <1>2, <2>1, FormStep DEF Pages!OpenNew, AdminInv
<1>3. ASSUME NEW x \in Admins, NEW i \in Managed, Pages!OpenEdit(x, i) PROVE AdminInv'
  <2>1. [c \in Pages!Columns |-> Pages!Shown(c, cells[i][c])] \in Texts
    BY DEF AdminInv, Texts, Pages!Row, Pages!Cells, Pages!Shown, Pages!Garbled, Pages!Odd,
           Pages!Unset
  <2>2. [kind |-> "edit", id |-> i,
         texts |-> [c \in Pages!Columns |-> Pages!Shown(c, cells[i][c])]] \in Forms
    BY <2>1 DEF Forms
  <2> QED BY <1>3, <2>2, FormStep DEF Pages!OpenEdit, AdminInv
<1>4. ASSUME NEW x \in Admins, Pages!FillIn(x) PROVE AdminInv'
  <2>0. PICK c \in Pages!Columns :
          \E t \in Pages!TextsOf(c) : form' = [form EXCEPT ![x].texts[c] = t]
    BY <1>4 DEF Pages!FillIn
  <2>1. PICK t \in Pages!TextsOf(c) : form' = [form EXCEPT ![x].texts[c] = t]
    BY <2>0
  <2>2. form[x] \in Forms \ {Pages!NoForm} /\ form[x].texts \in Texts
    BY <1>4 DEF Pages!FillIn, AdminInv, Forms
  <2>3. [form[x].texts EXCEPT ![c] = t] \in Texts
    BY <2>2 DEF Texts, Pages!TextsOf, Pages!Cells, Pages!Unset, Pages!Garbled, Pages!Odd
  <2>4. [form[x] EXCEPT !.texts[c] = t] \in Forms
    BY <2>2, <2>3 DEF Forms
  <2>5. form' = [form EXCEPT ![x] = [form[x] EXCEPT !.texts[c] = t]]
    BY <2>1
  <2> QED BY <1>4, <2>4, <2>5, FormStep DEF Pages!FillIn, AdminInv
<1>5. ASSUME NEW x \in Admins, Pages!Create(x) PROVE AdminInv'
  <2>1. Pages!NoForm \in Forms /\ form' = [form EXCEPT ![x] = Pages!NoForm]
    BY <1>5 DEF Forms, Pages!Create, Pages!Close
  <2>2. live' \in [Managed -> {"no", "live", "deleted"}] /\ cells' \in [Managed -> Pages!Row]
    <3>1. CASE UNCHANGED <<live, cells>>
      BY <3>1 DEF AdminInv
    <3>2. CASE ~UNCHANGED <<live, cells>>
      <4>1. ~Pages!Unparsable(form[x].texts)
        BY <1>5, <3>2 DEF Pages!Create
      <4>2. form[x].kind = "new"
        BY <1>5 DEF Pages!Create
      <4>3. form[x].texts \in Texts
        BY <4>2 DEF AdminInv, Forms, Pages!NoForm
      <4> QED BY <1>5, <3>2, <4>1, <4>3, Parsed DEF Pages!Create, AdminInv
    <3> QED BY <3>1, <3>2
  <2> QED BY <1>5, <2>1, <2>2, FormStep DEF Pages!Create
<1>6. ASSUME NEW x \in Admins, Pages!Find(x) PROVE AdminInv'
  <2>1. CASE ~(Pages!May(x) /\ live[form[x].id] = "live")
    <3>1. Pages!NoForm \in Forms /\ form' = [form EXCEPT ![x] = Pages!NoForm]
      BY <1>6, <2>1 DEF Forms, Pages!Close, Pages!Find
    <3> QED BY <1>6, <2>1, <3>1, FormStep DEF Pages!Find, AdminInv
  <2>2. CASE Pages!May(x) /\ live[form[x].id] = "live"
    <3> DEFINE update == [pc |-> "found", id |-> form[x].id,
                          found |-> cells[form[x].id], held |-> cells[form[x].id]]
    <3>1. /\ form[x].kind = "edit" /\ task' = [task EXCEPT ![x] = update]
          /\ UNCHANGED <<live, cells, allowed, form>>
      BY <1>6, <2>2 DEF Pages!Find
    <3>2. form[x].id \in Managed /\ form[x] # Pages!NoForm
      BY <3>1 DEF AdminInv, Forms, Pages!NoForm
    <3>3. update \in Updates /\ update.pc # "saved"
      BY <3>2 DEF AdminInv, Updates
    <3> HIDE DEF update
    <3>4. task' \in [Admins -> Updates]
      BY <3>1, <3>3 DEF AdminInv
    <3>5. task'[x] = update /\ \A y \in Admins : y # x => task'[y] = task[y]
      BY <3>1 DEF AdminInv
    <3>6. ASSUME NEW y \in Admins
          PROVE /\ task'[y] # Pages!NoTask => form'[y] # Pages!NoForm /\ form'[y].kind = "edit"
                /\ task'[y].pc = "saved" => task'[y].held = Pages!Assigned(y)'
      <4>1. CASE y = x
        BY <3>1, <3>2, <3>3, <3>5, <4>1
      <4>2. CASE y # x
        BY <3>1, <3>5, <4>2 DEF AdminInv, Pages!Assigned
      <4> QED BY <4>1, <4>2
    <3> QED BY <3>1, <3>4, <3>6 DEF AdminInv
  <2> QED BY <2>1, <2>2
<1>7. ASSUME NEW x \in Admins, Pages!Save(x) PROVE AdminInv'
  <2>1. /\ task[x].pc = "found"
        /\ task' = [task EXCEPT ![x] = [task[x] EXCEPT !.pc = "saved",
                                                       !.held = Pages!Assigned(x)]]
        /\ UNCHANGED <<live, cells, allowed, form>>
    BY <1>7 DEF Pages!Save
  <2>2. /\ task[x] \in [pc : {"found", "saved"}, id : Managed, found : Pages!Row,
                        held : Pages!Row]
        /\ task[x] # Pages!NoTask
    BY <2>1 DEF AdminInv, Updates, Pages!NoTask
  <2>3. form[x].texts \in Texts
    BY <2>2 DEF AdminInv, Forms, Pages!NoForm
  <2>4. Pages!Assigned(x) \in Pages!Row
    BY <2>2, <2>3, Parsed DEF Pages!Assigned
  <2>5. PICK u : u = [task[x] EXCEPT !.pc = "saved", !.held = Pages!Assigned(x)]
    OBVIOUS
  <2>6. /\ u \in Updates /\ u.found = task[x].found /\ u.held = Pages!Assigned(x)
        /\ u # Pages!NoTask
    BY <2>2, <2>4, <2>5 DEF Updates, Pages!NoTask
  <2>7. task' = [task EXCEPT ![x] = u] /\ task' \in [Admins -> Updates]
    BY <2>1, <2>5, <2>6 DEF AdminInv
  <2>8. task'[x] = u /\ \A y \in Admins : y # x => task'[y] = task[y]
    BY <2>7 DEF AdminInv
  <2>9. Pages!Assigned(x)' = Pages!Assigned(x)
    BY <2>1, <2>6, <2>8 DEF Pages!Assigned
  <2>10. ASSUME NEW y \in Admins
         PROVE /\ task'[y] # Pages!NoTask => form'[y] # Pages!NoForm /\ form'[y].kind = "edit"
               /\ task'[y].pc = "saved" => task'[y].held = Pages!Assigned(y)'
    <3>1. CASE y = x
      BY <2>1, <2>2, <2>6, <2>8, <2>9, <3>1 DEF AdminInv
    <3>2. CASE y # x
      BY <2>1, <2>8, <3>2 DEF AdminInv, Pages!Assigned
    <3> QED BY <3>1, <3>2
  <2> QED BY <2>1, <2>7, <2>10 DEF AdminInv
<1>8. ASSUME NEW x \in Admins, Pages!Commit(x) PROVE AdminInv'
  <2>1. /\ task[x].pc = "saved" /\ form' = [form EXCEPT ![x] = Pages!NoForm]
        /\ task' = [task EXCEPT ![x] = Pages!NoTask] /\ UNCHANGED <<live, allowed>>
        /\ cells' \in {cells, [cells EXCEPT ![task[x].id] = Pages!Flushed(x)]}
    BY <1>8 DEF Pages!Commit, Pages!Close
  <2>2. task[x] \in [pc : {"found", "saved"}, id : Managed, found : Pages!Row,
                     held : Pages!Row]
    BY <2>1 DEF AdminInv, Updates, Pages!NoTask
  <2>3. Pages!Flushed(x) \in Pages!Row
    BY <2>2 DEF AdminInv, Pages!Flushed, Pages!Row
  <2>4. cells' \in [Managed -> Pages!Row]
    BY <2>1, <2>2, <2>3 DEF AdminInv
  <2>5. form' \in [Admins -> Forms] /\ task' \in [Admins -> Updates]
    BY <2>1 DEF AdminInv, Forms, Updates
  <2>6. ASSUME NEW y \in Admins
         PROVE /\ task'[y] # Pages!NoTask => form'[y] # Pages!NoForm /\ form'[y].kind = "edit"
               /\ task'[y].pc = "saved" => task'[y].held = Pages!Assigned(y)'
    BY <2>1 DEF AdminInv, Pages!Assigned, Pages!NoTask
  <2> QED BY <2>1, <2>4, <2>5, <2>6 DEF AdminInv
<1>9. ASSUME NEW x \in Admins, NEW i \in Managed, Pages!Destroy(x, i) PROVE AdminInv'
  BY <1>9 DEF Pages!Destroy, AdminInv, Pages!Assigned
<1>10. ASSUME NEW x \in Admins, Pages!Regard(x) PROVE AdminInv'
  BY <1>10 DEF Pages!Regard, AdminInv, Pages!Assigned
<1> QED BY <1>1, <1>2, <1>3, <1>4, <1>5, <1>6, <1>7, <1>8, <1>9, <1>10 DEF Pages!Next

LEMMA CreateStep ==
  ASSUME AdminInv, NEW x \in Admins, Pages!Create(x)
  PROVE  Pages!Harmless
<1>1. task' = task /\ task[x] = Pages!NoTask /\ form[x].kind = "new" /\ form[x] # Pages!NoForm
  BY DEF Pages!Create, Pages!Idle, Pages!NoForm
<1>2. CASE UNCHANGED <<live, cells>>
  BY <1>1, <1>2 DEF Pages!Harmless
<1>3. CASE ~UNCHANGED <<live, cells>>
  <2>1. x \in allowed /\ ~Pages!Unparsable(form[x].texts)
    BY <1>3 DEF Pages!Create, Pages!May
  <2>2. PICK i \in Managed : /\ live[i] = "no" /\ live' = [live EXCEPT ![i] = "live"]
                             /\ cells' = [cells EXCEPT ![i] = form[x].texts]
    BY <1>3 DEF Pages!Create
  <2>3. /\ \A j \in Managed : j # i => live'[j] = live[j] /\ cells'[j] = cells[j]
        /\ cells'[i] = form[x].texts
    BY <2>2 DEF AdminInv
  <2>4. Pages!Explains(x, i)
    BY <1>1, <2>1, <2>2, <2>3 DEF Pages!Explains
  <2> QED BY <1>1, <2>1, <2>2, <2>3, <2>4 DEF Pages!Harmless
<1> QED BY <1>2, <1>3

LEMMA CommitStep ==
  ASSUME AdminInv, NEW x \in Admins, Pages!Commit(x)
  PROVE  Pages!Harmless
<1>1. /\ task[x].pc = "saved" /\ live' = live /\ task' = [task EXCEPT ![x] = Pages!NoTask]
      /\ cells' \in {cells, [cells EXCEPT ![task[x].id] = Pages!Flushed(x)]}
  BY DEF Pages!Commit
<1>2. /\ task[x] \in [pc : {"found", "saved"}, id : Managed, found : Pages!Row,
                      held : Pages!Row]
      /\ task[x] # Pages!NoTask
  BY <1>1 DEF AdminInv, Updates, Pages!NoTask
<1>3. form[x] # Pages!NoForm /\ task[x].held = Pages!Assigned(x)
  BY <1>1, <1>2 DEF AdminInv
<1>4. ASSUME Pages!Unparsable(form[x].texts) PROVE cells' = cells
  <2>1. task[x].held = task[x].found
    BY <1>3, <1>4 DEF Pages!Assigned
  <2>2. Pages!Dirty(x) = {}
    BY <2>1 DEF Pages!Dirty
  <2>3. Pages!Flushed(x) = cells[task[x].id]
    BY <1>2, <2>2 DEF Pages!Flushed, AdminInv, Pages!Row
  <2> QED BY <1>1, <1>2, <2>3 DEF AdminInv
<1>5. ASSUME NEW i \in Managed, cells'[i] # cells[i] PROVE Pages!Explains(x, i)
  <2>1. i = task[x].id /\ cells'[i] = Pages!Flushed(x)
    BY <1>1, <1>2, <1>5 DEF AdminInv
  <2>2. ~Pages!Unparsable(form[x].texts)
    BY <1>4, <1>5
  <2>3. task[x].held = form[x].texts
    BY <1>3, <2>2 DEF Pages!Assigned
  <2>4. \A c \in Pages!Columns : Pages!Flushed(x)[c] \in {cells[i][c], form[x].texts[c]}
    BY <2>1, <2>3 DEF Pages!Flushed
  <2> QED BY <1>2, <1>3, <2>1, <2>2, <2>4 DEF Pages!Explains
<1>6. \A y \in Admins : task[y] = Pages!NoTask => task'[y] = Pages!NoTask
  BY <1>1 DEF AdminInv
<1> QED BY <1>1, <1>5, <1>6 DEF Pages!Harmless

LEMMA AdminStep ==
  ASSUME AdminInv, [Pages!Next]_Pages!vars
  PROVE  Pages!Harmless
<1>1. CASE UNCHANGED Pages!vars
  BY <1>1 DEF Pages!vars, Pages!Harmless
<1>2. ASSUME NEW x \in Admins,
             Pages!OpenNew(x) \/ Pages!FillIn(x) \/ Pages!Save(x) \/ Pages!Regard(x)
               \/ Pages!Find(x)
      PROVE Pages!Harmless
  <2>1. live' = live /\ cells' = cells
    BY <1>2 DEF Pages!OpenNew, Pages!FillIn, Pages!Save, Pages!Regard, Pages!Find
  <2>2. \A y \in Admins :
          task[y] = Pages!NoTask /\ task'[y] # Pages!NoTask => y \in allowed
    <3>1. CASE Pages!Find(x)
      BY <3>1 DEF AdminInv, Pages!Find, Pages!May
    <3>2. CASE Pages!Save(x)
      BY <3>2 DEF AdminInv, Pages!Save, Pages!NoTask
    <3>3. CASE Pages!OpenNew(x) \/ Pages!FillIn(x) \/ Pages!Regard(x)
      BY <3>3 DEF Pages!OpenNew, Pages!FillIn, Pages!Regard
    <3> QED BY <1>2, <3>1, <3>2, <3>3
  <2> QED BY <2>1, <2>2 DEF Pages!Harmless
<1>3. ASSUME NEW x \in Admins, NEW i \in Managed, Pages!OpenEdit(x, i) \/ Pages!Destroy(x, i)
      PROVE Pages!Harmless
  BY <1>3 DEF AdminInv, Pages!Harmless, Pages!OpenEdit, Pages!Destroy, Pages!May
<1>4. ASSUME NEW x \in Admins, Pages!Create(x) \/ Pages!Commit(x) PROVE Pages!Harmless
  BY <1>4, CreateStep, CommitStep
<1> QED BY <1>1, <1>2, <1>3, <1>4 DEF Pages!Next

(***************************************************************************)
(* Accounts                                                                *)
(***************************************************************************)

(* A stored address is in lower case and was committed by a request for it.*)
StoredAreMade ==
  \A e \in Spellings : users[e] # "none" =>
    /\ Lower(e) = e
    /\ \E q \in Signups : request[q].stage = "done" /\ Lower(request[q].typed) = e

(* What a request has inserted, and whom it has found.                     *)
OwnAndKnown(r) ==
  /\ request[r].stage # "idle" => request[r].typed \in Spellings
  /\ request[r].own # Signup!Nobody =>
       /\ request[r].own = Lower(request[r].typed)
       /\ request[r].stage \in {"saved", "pushed", "known", "answered"}
  /\ request[r].stage \in {"saved", "pushed"} => request[r].own # Signup!Nobody
  /\ request[r].stage \in {"known", "answered"} /\ request[r].own = Signup!Nobody =>
       users[request[r].typed] # "none"
  /\ request[r].stage = "taken" => users[Lower(request[r].typed)] # "none"

(* The mail and the cookie are ahead of the row.                           *)
MailIsAhead ==
  \A e \in welcomed :
    users[e] # "none" \/ e \in lost \/ \E r \in Signups : request[r].own = e
CookieIsAhead(r) ==
  session[r] # Signup!Nobody =>
    \/ users[session[r]] # "none"
    \/ session[r] \in lost
    \/ request[r].own = session[r] /\ request[r].stage = "answered"

AccountInv ==
  /\ Signup!TypeOK /\ StoredAreMade /\ MailIsAhead
  /\ \A r \in Signups : OwnAndKnown(r) /\ CookieIsAhead(r)

AccountRequests ==
  [stage : {"idle", "new", "saved", "pushed", "known", "answered", "done", "taken",
            "crashed"},
   op : {"none", "register", "oauth"}, typed : Spellings \cup {Signup!Nobody},
   own : Spellings \cup {Signup!Nobody}, healthy : BOOLEAN]

LEMMA AccountInit ==
  ASSUME Signup!Init
  PROVE  AccountInv
BY DEF Signup!Init, AccountInv, Signup!TypeOK, StoredAreMade, MailIsAhead, OwnAndKnown,
       CookieIsAhead, Signup!Idle, Signup!Nobody

(* A step that keeps what was typed.                                       *)
LEMMA RequestGoes ==
  ASSUME Signup!TypeOK, NEW r \in Signups,
         NEW stg \in {"pushed", "known", "done", "crashed"},
         NEW own \in Spellings \cup {Signup!Nobody}, NEW h \in BOOLEAN,
         \/ own = request[r].own
              /\ request' = [request EXCEPT ![r].stage = stg, ![r].healthy = h]
         \/ own = request[r].own /\ request' = [request EXCEPT ![r].stage = stg]
         \/ request' = [request EXCEPT ![r].stage = stg, ![r].own = own]
  PROVE  /\ request' \in [Signups -> AccountRequests]
         /\ \A q \in Signups : q # r => request'[q] = request[q]
         /\ request'[r].typed = request[r].typed /\ request'[r].own = own
         /\ request'[r].stage = stg
<1>1. request \in [Signups -> AccountRequests]
  BY DEF Signup!TypeOK, AccountRequests
<1>2. PICK mid : mid = [request EXCEPT ![r].stage = stg]
  OBVIOUS
<1>3. /\ mid \in [Signups -> AccountRequests] /\ mid[r].typed = request[r].typed
      /\ mid[r].own = request[r].own /\ mid[r].stage = stg
      /\ \A q \in Signups : q # r => mid[q] = request[q]
  BY <1>1, <1>2 DEF AccountRequests
<1>4. \/ own = mid[r].own /\ request' \in {mid, [mid EXCEPT ![r].healthy = h]}
      \/ request' = [mid EXCEPT ![r].own = own]
  BY <1>2, <1>3
<1>5. ASSUME own = mid[r].own, request' = [mid EXCEPT ![r].healthy = h]
      PROVE  /\ request' \in [Signups -> AccountRequests]
             /\ \A q \in Signups : q # r => request'[q] = mid[q]
             /\ request'[r].typed = mid[r].typed /\ request'[r].own = own
             /\ request'[r].stage = mid[r].stage
  BY <1>3, <1>5 DEF AccountRequests
<1>6. ASSUME request' = [mid EXCEPT ![r].own = own]
      PROVE  /\ request' \in [Signups -> AccountRequests]
             /\ \A q \in Signups : q # r => request'[q] = mid[q]
             /\ request'[r].typed = mid[r].typed /\ request'[r].own = own
             /\ request'[r].stage = mid[r].stage
  BY <1>3, <1>6 DEF AccountRequests
<1> QED BY <1>3, <1>4, <1>5, <1>6

(* A step of one request, of which the others see that an address may have *)
(* been stored, welcomed or lost.                                          *)
LEMMA RequestStep ==
  ASSUME AccountInv, NEW r \in Signups, Signup!TypeOK',
         \A q \in Signups : q # r => request'[q] = request[q] /\ session'[q] = session[q],
         request[r].stage # "done",
         \A e \in Spellings : users[e] # "none" => users'[e] # "none",
         \A e \in Spellings : users[e] = "none" /\ users'[e] # "none" =>
           /\ request'[r].stage = "done" /\ Lower(request'[r].typed) = e
           /\ Lower(e) = e,
         lost \subseteq lost',
         OwnAndKnown(r)', CookieIsAhead(r)',
         \A e \in welcomed' : e \in welcomed \/ request'[r].own = e,
         request[r].own \in welcomed =>
           \/ request'[r].own = request[r].own
           \/ request[r].own \in lost' \/ users'[request[r].own] # "none"
  PROVE  AccountInv'
<1>1. StoredAreMade'
  BY DEF AccountInv, StoredAreMade
<1>2. MailIsAhead'
  <2> SUFFICES ASSUME NEW e \in welcomed'
               PROVE  \/ users'[e] # "none" \/ e \in lost'
                      \/ \E q \in Signups : request'[q].own = e
    BY DEF MailIsAhead
  <2>1. e \in Spellings
    BY DEF Signup!TypeOK
  <2>2. CASE e \in welcomed /\ request[r].own # e
    BY <2>1, <2>2 DEF AccountInv, MailIsAhead
  <2>3. CASE e \in welcomed /\ request[r].own = e
    BY <2>1, <2>3
  <2>4. CASE e \notin welcomed
    BY <2>4
  <2> QED BY <2>2, <2>3, <2>4
<1>3. ASSUME NEW q \in Signups, q # r PROVE OwnAndKnown(q)' /\ CookieIsAhead(q)'
  <2>1. OwnAndKnown(q) /\ CookieIsAhead(q) /\ request'[q] = request[q] /\ session'[q] = session[q]
    BY <1>3 DEF AccountInv
  <2>2. OwnAndKnown(q)'
    BY <2>1, AddressAssumption DEF OwnAndKnown
  <2>3. session[q] \in Spellings \cup {Signup!Nobody}
    BY DEF AccountInv, Signup!TypeOK
  <2>4. CookieIsAhead(q)'
    BY <2>1, <2>3 DEF CookieIsAhead
  <2> QED BY <2>2, <2>4
<1> QED BY <1>1, <1>2, <1>3 DEF AccountInv

LEMMA AccountInductive ==
  ASSUME AccountInv, [Signup!Next]_Signup!vars
  PROVE  AccountInv'
<1> USE AddressAssumption
<1> USE DEF Signup!Nobody
<1>1. CASE UNCHANGED Signup!vars
  BY <1>1 DEF Signup!vars, AccountInv, Signup!TypeOK, StoredAreMade, MailIsAhead,
              OwnAndKnown, CookieIsAhead
<1>2. ASSUME NEW r \in Signups, NEW e \in Spellings, Signup!Register(r, e) \/ Signup!OauthCallback(r, e)
      PROVE AccountInv'
  <2>1. PICK op \in {"register", "oauth"}, stg \in {"new", "known"} :
          /\ request' = [request EXCEPT ![r] =
               [Signup!Idle EXCEPT !.stage = stg, !.op = op, !.typed = e]]
          /\ stg = "known" => users[e] # "none"
    BY <1>2 DEF Signup!Register, Signup!OauthCallback, Signup!Start
  <2>2. /\ request[r].stage = "idle" /\ UNCHANGED <<users, session, welcomed, lost>>
    BY <1>2 DEF Signup!Register, Signup!OauthCallback, Signup!At
  <2>3. /\ request'[r].stage = stg /\ request'[r].typed = e /\ request'[r].own = Signup!Nobody
        /\ Signup!TypeOK' /\ \A q \in Signups : q # r => request'[q] = request[q]
    BY <2>1, <2>2 DEF AccountInv, Signup!TypeOK, Signup!Idle
  <2>4. OwnAndKnown(r)' /\ CookieIsAhead(r)'
    BY <2>1, <2>2, <2>3 DEF AccountInv, OwnAndKnown, CookieIsAhead
  <2>5. request[r].own = Signup!Nobody
    BY <2>2 DEF AccountInv, OwnAndKnown
  <2> QED BY <2>2, <2>3, <2>4, <2>5, RequestStep DEF AccountInv, Signup!TypeOK
<1>3. ASSUME NEW r \in Signups, Signup!Save(r) PROVE AccountInv'
  <2> DEFINE e == Lower(request[r].typed)
  <2>1. /\ request[r].stage = "new" /\ UNCHANGED <<users, session, welcomed, lost>>
        /\ request[r].typed \in Spellings /\ e \in Spellings /\ request[r].own = Signup!Nobody
    BY <1>3 DEF Signup!Save, Signup!At, AccountInv, OwnAndKnown
  <2>2. \/ users[e] # "none" /\ request' = [request EXCEPT ![r].stage = "taken"]
        \/ \E stg \in {"saved", "known"} :
             request' = [request EXCEPT ![r].own = e, ![r].stage = stg]
    BY <1>3 DEF Signup!Save, Signup!Stored, Signup!Goes
  <2> HIDE DEF e
  <2>3. /\ Signup!TypeOK' /\ \A q \in Signups : q # r => request'[q] = request[q]
        /\ request'[r].typed = request[r].typed
        /\ \/ request'[r].stage = "taken" /\ users[e] # "none" /\ request'[r].own = Signup!Nobody
           \/ request'[r].stage \in {"saved", "known"} /\ request'[r].own = e
    BY <2>1, <2>2, SMTT(30) DEF AccountInv, Signup!TypeOK
  <2>4. OwnAndKnown(r)' /\ CookieIsAhead(r)'
    BY <2>1, <2>3 DEF AccountInv, OwnAndKnown, CookieIsAhead, e
  <2> QED BY <2>1, <2>3, <2>4, RequestStep DEF AccountInv, Signup!TypeOK
<1>4. ASSUME NEW r \in Signups, Signup!PushWelcome(r) \/ Signup!React(r) PROVE AccountInv'
  <2>1. /\ request[r].stage \in {"saved", "pushed"}
        /\ UNCHANGED <<users, session, lost>>
        /\ welcomed' \in {welcomed, welcomed \cup {request[r].own}}
        /\ \E stg \in {"pushed", "known"}, h \in BOOLEAN :
             \/ request' = [request EXCEPT ![r].stage = stg]
             \/ request' = [request EXCEPT ![r].stage = stg, ![r].healthy = h]
    BY <1>4 DEF Signup!PushWelcome, Signup!React, Signup!At, Signup!Goes
  <2>2. /\ request[r].own \in Spellings /\ request[r].typed \in Spellings
        /\ request[r].own = Lower(request[r].typed)
    BY <2>1 DEF AccountInv, OwnAndKnown
  <2>3. /\ Signup!TypeOK' /\ \A q \in Signups : q # r => request'[q] = request[q]
        /\ request'[r].typed = request[r].typed /\ request'[r].own = request[r].own
        /\ request'[r].stage \in {"pushed", "known"}
    BY <2>1, <2>2, RequestGoes, ZenonT(60) DEF AccountInv, Signup!TypeOK, AccountRequests
  <2>4. OwnAndKnown(r)' /\ CookieIsAhead(r)'
    BY <2>1, <2>2, <2>3 DEF AccountInv, OwnAndKnown, CookieIsAhead
  <2> QED BY <2>1, <2>3, <2>4, RequestStep DEF AccountInv, Signup!TypeOK
<1>5. ASSUME NEW r \in Signups, Signup!Answer(r) PROVE AccountInv'
  <2>1. /\ request[r].stage = "known" /\ UNCHANGED <<users, welcomed, lost>>
        /\ request' = [request EXCEPT ![r].stage = "answered"]
        /\ session' = [session EXCEPT ![r] = IF request[r].own = Signup!Nobody
                         THEN request[r].typed ELSE request[r].own]
    BY <1>5 DEF Signup!Answer, Signup!At, Signup!Goes
  <2>2. /\ request[r].typed \in Spellings
        /\ request[r].own = Signup!Nobody => users[request[r].typed] # "none"
        /\ request[r].own # Signup!Nobody => request[r].own = Lower(request[r].typed)
    BY <2>1 DEF AccountInv, OwnAndKnown
  <2>3. /\ Signup!TypeOK'
        /\ \A q \in Signups : q # r => request'[q] = request[q] /\ session'[q] = session[q]
        /\ request'[r].typed = request[r].typed /\ request'[r].own = request[r].own
        /\ request'[r].stage = "answered"
        /\ session'[r] = IF request[r].own = Signup!Nobody
                         THEN request[r].typed ELSE request[r].own
    BY <2>1, <2>2 DEF AccountInv, Signup!TypeOK
  <2>4. OwnAndKnown(r)' /\ CookieIsAhead(r)'
    BY <2>1, <2>2, <2>3 DEF AccountInv, OwnAndKnown, CookieIsAhead
  <2> QED BY <2>1, <2>3, <2>4, RequestStep
<1>6. ASSUME NEW r \in Signups, Signup!Commit(r) PROVE AccountInv'
  <2>1. /\ request[r].stage = "answered" /\ UNCHANGED <<session, welcomed, lost>>
        /\ request' = [request EXCEPT ![r].stage = "done", ![r].own = Signup!Nobody]
        /\ users' = IF request[r].own = Signup!Nobody THEN users
                    ELSE [users EXCEPT ![request[r].own] = "live"]
    BY <1>6 DEF Signup!Commit, Signup!At
  <2>2. /\ request[r].typed \in Spellings
        /\ request[r].own # Signup!Nobody =>
             /\ request[r].own = Lower(request[r].typed) /\ request[r].own \in Spellings
             /\ Lower(request[r].own) = request[r].own
    BY <2>1 DEF AccountInv, OwnAndKnown
  <2>3. users' \in [Spellings -> {"none", "live", "deleted"}]
    BY <2>1, <2>2 DEF AccountInv, Signup!TypeOK
  <2>4. /\ Signup!TypeOK'
        /\ \A q \in Signups : q # r => request'[q] = request[q]
        /\ request'[r].typed = request[r].typed /\ request'[r].own = Signup!Nobody
        /\ request'[r].stage = "done"
    BY <2>1, <2>3, RequestGoes DEF AccountInv, Signup!TypeOK, AccountRequests
  <2>5. /\ \A e \in Spellings : users[e] # "none" => users'[e] # "none"
        /\ \A e \in Spellings : users[e] = "none" /\ users'[e] # "none" => e = request[r].own
        /\ request[r].own # Signup!Nobody => users'[request[r].own] # "none"
    BY <2>1, <2>2 DEF AccountInv, Signup!TypeOK
  <2>6. OwnAndKnown(r)'
    BY <2>2, <2>4 DEF OwnAndKnown
  <2>7. CookieIsAhead(r)'
    <3>1. CookieIsAhead(r) /\ session[r] \in Spellings \cup {Signup!Nobody}
      BY DEF AccountInv, Signup!TypeOK
    <3> QED BY <2>1, <2>5, <3>1 DEF CookieIsAhead
  <2>8. welcomed \subseteq Spellings
    BY DEF AccountInv, Signup!TypeOK
  <2> QED BY <2>1, <2>2, <2>4, <2>5, <2>6, <2>7, <2>8, RequestStep
<1>7. ASSUME NEW r \in Signups, Signup!RollBack(r) PROVE AccountInv'
  <2>1. /\ request[r].stage \in {"new", "saved", "pushed", "known", "answered"}
        /\ UNCHANGED <<users, session, welcomed>>
        /\ request' = [request EXCEPT ![r].stage = "crashed", ![r].own = Signup!Nobody]
        /\ lost' = IF request[r].own \in welcomed \/ request[r].stage = "answered"
                   THEN lost \cup ({request[r].own} \ {Signup!Nobody}) ELSE lost
    BY <1>7 DEF Signup!RollBack, Signup!Lose, Signup!At
  <2>2. request[r].typed \in Spellings /\ request[r].own \in Spellings \cup {Signup!Nobody}
    BY <2>1 DEF AccountInv, OwnAndKnown, Signup!TypeOK
  <2>3. lost \subseteq lost' /\ lost' \subseteq Spellings
    BY <2>1, <2>2 DEF AccountInv, Signup!TypeOK
  <2>4. /\ Signup!TypeOK'
        /\ \A q \in Signups : q # r => request'[q] = request[q]
        /\ request'[r].typed = request[r].typed /\ request'[r].own = Signup!Nobody
        /\ request'[r].stage = "crashed"
    BY <2>1, <2>3, RequestGoes DEF AccountInv, Signup!TypeOK, AccountRequests
  <2>5. OwnAndKnown(r)'
    BY <2>2, <2>4 DEF OwnAndKnown
  <2>6. CookieIsAhead(r)'
    BY <2>1, <2>3, <2>4 DEF AccountInv, CookieIsAhead
  <2>7. welcomed \subseteq Spellings
    BY DEF AccountInv, Signup!TypeOK
  <2>8. request[r].own \in welcomed => request[r].own \in lost'
    BY <2>1, <2>7
  <2> QED BY <2>1, <2>3, <2>4, <2>5, <2>6, <2>8, RequestStep
<1>8. ASSUME NEW e \in Spellings, Signup!Delete(e) PROVE AccountInv'
  BY <1>8 DEF Signup!Delete, AccountInv, Signup!TypeOK, StoredAreMade, MailIsAhead,
              OwnAndKnown, CookieIsAhead
<1> QED BY <1>1, <1>2, <1>3, <1>4, <1>5, <1>6, <1>7, <1>8 DEF Signup!Next

LEMMA AccountsAreSound ==
  ASSUME AccountInv
  PROVE  Signup!OneAccountEach /\ Signup!WelcomedExist /\ Signup!TakenForAReason
<1>1. Signup!OneAccountEach
  BY DEF AccountInv, StoredAreMade, Signup!OneAccountEach
<1>2. Signup!WelcomedExist
  BY DEF AccountInv, MailIsAhead, CookieIsAhead, Signup!WelcomedExist
<1>3. ASSUME NEW r \in Signups, request[r].stage = "taken"
      PROVE  \E q \in Signups \ {r} : request[q].stage = "done"
                                      /\ Lower(request[q].typed) = Lower(request[r].typed)
  <2>1. request[r].typed \in Spellings /\ Lower(request[r].typed) \in Spellings
    BY <1>3, AddressAssumption DEF AccountInv, OwnAndKnown
  <2>2. users[Lower(request[r].typed)] # "none"
    BY <1>3 DEF AccountInv, OwnAndKnown
  <2>3. PICK q \in Signups : request[q].stage = "done"
                             /\ Lower(request[q].typed) = Lower(request[r].typed)
    BY <2>1, <2>2 DEF AccountInv, StoredAreMade
  <2> QED BY <1>3, <2>3
<1>4. Signup!TakenForAReason
  BY <1>3 DEF Signup!TakenForAReason, Signup!At, Signup!Stored
<1> QED BY <1>1, <1>2, <1>4

(***************************************************************************)
(* Outbound                                                                *)
(***************************************************************************)

(* What was passed over, and why a call that was is as Isolated has it.    *)
Past(c) == dispatch # "dispatching" \/ Outward!Before(c, at)
Accounted(c) ==
  \/ c \in made \cup broken
  \/ /\ c \in raised /\ Outward!UsesSession(c)
     /\ \E d \in Outward!Calls : Outward!TakesTransaction(d) /\ Outward!Before(d, c)
  \/ \E d \in raised : d[1] = c[1] /\ Outward!Before(d, c) /\ ~Outward!Caught(d)

OutInv ==
  /\ Outward!TypeOK
  /\ dispatch = "dispatching" => at \in Outward!Calls
  /\ \A c \in Outward!Calls : Past(c) => Accounted(c)
  /\ ~healthy => \E d \in Outward!Calls : Outward!TakesTransaction(d) /\ Past(d)
  /\ dispatch = "failed" => ~healthy

LEMMA CallsOf ==
  ASSUME listeners \in Applications
  PROVE  /\ Len(listeners) \in Nat \ {0}
         /\ \A l \in 1 .. Len(listeners) : Len(listeners[l]) \in Nat \ {0}
         /\ \A c : c \in Outward!Calls <=>
              \E l \in 1 .. Len(listeners) : \E i \in 1 .. Len(listeners[l]) : c = <<l, i>>
<1>1. PICK S : listeners \in Seq(Seq(S))
  BY ApplicationAssumption
<1>2. listeners # <<>> /\ \A l \in DOMAIN listeners : listeners[l] # <<>>
  BY ApplicationAssumption
<1>3. /\ DOMAIN listeners = 1 .. Len(listeners) /\ Len(listeners) \in Nat \ {0}
      /\ \A l \in 1 .. Len(listeners) : listeners[l] \in Seq(S)
  BY <1>1, <1>2
<1>4. \A l \in 1 .. Len(listeners) : Len(listeners[l]) \in Nat \ {0}
  BY <1>2, <1>3
<1> QED BY <1>3, <1>4 DEF Outward!Calls

LEMMA OutInit ==
  ASSUME Outward!Init
  PROVE  OutInv
<1>1. at = <<1, 1>> /\ at \in Outward!Calls /\ listeners \in Applications
  BY CallsOf DEF Outward!Init
<1>2. \A c \in Outward!Calls : ~Past(c)
  BY <1>1, CallsOf DEF Outward!Init, Past, Outward!Before
<1> QED BY <1>1, <1>2 DEF Outward!Init, OutInv, Outward!TypeOK

(* dispatch() goes on behind a call that is accounted for.                 *)
LEMMA Advances ==
  ASSUME OutInv, dispatch = "dispatching", NEW here \in Outward!Calls, here = at,
         NEW next \in {Outward!NextCall, Outward!NextListener}, Outward!Advance(next),
         UNCHANGED listeners, healthy' \in BOOLEAN,
         made \subseteq made', raised \subseteq raised', broken \subseteq broken',
         made' \subseteq made \cup {at}, raised' \subseteq raised \cup {at},
         broken' \subseteq raised',
         next # Outward!NextCall => at \in raised' /\ ~Outward!Caught(at),
         Accounted(here)',
         ~healthy' => ~healthy \/ Outward!TakesTransaction(here)'
  PROVE  OutInv'
<1>1. at \in Outward!Calls /\ listeners \in Applications
  BY DEF OutInv, Outward!TypeOK
<1>2. PICK l \in 1 .. Len(listeners) : \E i \in 1 .. Len(listeners[l]) : at = <<l, i>>
  BY <1>1, CallsOf
<1>3. PICK i \in 1 .. Len(listeners[l]) : at = <<l, i>>
  BY <1>2
<1>4. /\ Len(listeners) \in Nat \ {0} /\ Len(listeners[l]) \in Nat \ {0}
      /\ l \in Nat /\ i \in Nat /\ at[1] = l /\ at[2] = i
  BY <1>1, <1>3, CallsOf
<1>5. /\ (next = <<l, i + 1>> /\ i < Len(listeners[l])) \/ next = <<l + 1, 1>>
      /\ next = <<l + 1, 1>> /\ i < Len(listeners[l]) => at \in raised' /\ ~Outward!Caught(at)
  BY <1>4 DEF Outward!NextCall, Outward!NextListener
<1>6. at' = next /\ dispatch' = IF next[1] > Len(listeners) THEN "answered" ELSE dispatch
  BY DEF Outward!Advance
<1>7. Outward!Calls' = Outward!Calls
  BY DEF Outward!Calls
<1>8. Outward!TypeOK'
  <2>1. at' \in Nat \X Nat
    BY <1>4, <1>5, <1>6
  <2>2. dispatch' \in {"dispatching", "answered"}
    BY <1>6
  <2> QED BY <1>1, <1>7, <2>1, <2>2 DEF OutInv, Outward!TypeOK
<1>9. dispatch' = "dispatching" => at' \in Outward!Calls
  <2>1. CASE next = <<l, i + 1>> /\ i < Len(listeners[l])
    <3>1. i + 1 \in 1 .. Len(listeners[l])
      BY <1>4, <2>1
    <3> QED BY <1>1, <1>6, <2>1, <3>1, CallsOf
  <2>2. CASE next = <<l + 1, 1>>
    <3>1. l + 1 > Len(listeners) => dispatch' = "answered"
      BY <1>6, <2>2
    <3>2. l + 1 <= Len(listeners) => <<l + 1, 1>> \in Outward!Calls
      <4>1. l + 1 <= Len(listeners)
              => l + 1 \in 1 .. Len(listeners) /\ Len(listeners[l + 1]) \in Nat \ {0}
        BY <1>1, <1>4, CallsOf
      <4>2. l + 1 <= Len(listeners) => 1 \in 1 .. Len(listeners[l + 1])
        BY <4>1
      <4> QED BY <1>1, <4>1, <4>2, CallsOf
    <3> QED BY <1>4, <1>6, <2>2, <3>1, <3>2
  <2> QED BY <1>5, <2>1, <2>2
<1>10. ASSUME NEW c \in Outward!Calls
       PROVE  /\ Past(c) \/ c = at => Past(c)'
              /\ Past(c)' => \/ Past(c) \/ c = at
                             \/ /\ c[1] = at[1] /\ Outward!Before(at, c)
                                /\ at \in raised' /\ ~Outward!Caught(at)
  <2>1. PICK m \in 1 .. Len(listeners) : \E k \in 1 .. Len(listeners[m]) : c = <<m, k>>
    BY <1>1, CallsOf
  <2>2. PICK k \in 1 .. Len(listeners[m]) : c = <<m, k>>
    BY <2>1
  <2>3. /\ m \in Nat /\ k \in Nat /\ c[1] = m /\ c[2] = k /\ m <= Len(listeners)
        /\ k <= Len(listeners[m]) /\ Len(listeners[m]) \in Nat
    BY <1>1, <2>2, CallsOf
  <2>4. Past(c) <=> m < l \/ (m = l /\ k < i)
    BY <1>4, <2>3 DEF Past, Outward!Before
  <2>5. c = at <=> m = l /\ k = i
    BY <1>3, <2>2
  <2>6. Outward!Before(at, c) <=> l < m \/ (m = l /\ i < k)
    BY <1>4, <2>3 DEF Outward!Before
  <2>7. CASE next = <<l, i + 1>> /\ i < Len(listeners[l])
    <3>1. Past(c)' <=> m < l \/ (m = l /\ k < i + 1)
      BY <1>4, <1>6, <2>3, <2>7 DEF Past, Outward!Before
    <3> QED BY <1>4, <2>3, <2>4, <2>5, <3>1
  <2>8. CASE next = <<l + 1, 1>>
    <3>1. Past(c)' <=> m <= l
      <4>1. Past(c)' <=> l + 1 > Len(listeners) \/ m < l + 1 \/ (m = l + 1 /\ k < 1)
        BY <1>4, <1>6, <2>3, <2>8 DEF Past, Outward!Before
      <4>2. ~(k < 1) /\ l \in Nat
        BY <1>4, <2>2
      <4> QED BY <1>4, <2>3, <4>1, <4>2
    <3>2. m = l /\ i < k => i < Len(listeners[l])
      BY <1>4, <2>3
    <3> QED BY <1>4, <1>5, <2>3, <2>4, <2>5, <2>6, <2>8, <3>1, <3>2
  <2> QED BY <1>5, <2>7, <2>8
<1>11. ASSUME NEW c \in Outward!Calls
       PROVE  /\ Outward!TakesTransaction(c) => Outward!TakesTransaction(c)'
              /\ Accounted(c) => Accounted(c)'
              /\ Outward!Caught(c)' = Outward!Caught(c)
              /\ Outward!UsesSession(c)' = Outward!UsesSession(c)
  <2>1. /\ Outward!Kind(c)' = Outward!Kind(c)
        /\ Outward!InSavepoint(c)' = Outward!InSavepoint(c)
    BY DEF Outward!Kind, Outward!InSavepoint
  <2>2. /\ Outward!Caught(c)' = Outward!Caught(c)
        /\ Outward!UsesSession(c)' = Outward!UsesSession(c)
    BY <2>1 DEF Outward!Caught, Outward!UsesSession
  <2>3. \A d \in Outward!Calls :
          /\ Outward!TakesTransaction(d) => Outward!TakesTransaction(d)'
          /\ ~Outward!Caught(d) => ~Outward!Caught(d)'
    BY DEF Outward!TakesTransaction, Outward!UsesSession, Outward!InSavepoint,
           Outward!Kind, Outward!Caught
  <2>4. raised \subseteq Outward!Calls
    BY DEF OutInv, Outward!TypeOK
  <2>5. Accounted(c) => Accounted(c)'
    <3>1. CASE c \in made \cup broken
      BY <3>1 DEF Accounted
    <3>2. CASE /\ c \in raised /\ Outward!UsesSession(c)
               /\ \E d \in Outward!Calls : Outward!TakesTransaction(d) /\ Outward!Before(d, c)
      BY <1>7, <2>2, <2>3, <3>2 DEF Accounted, Outward!Before
    <3>3. CASE \E d \in raised : d[1] = c[1] /\ Outward!Before(d, c) /\ ~Outward!Caught(d)
      BY <2>3, <2>4, <3>3 DEF Accounted, Outward!Before
    <3> QED BY <3>1, <3>2, <3>3 DEF Accounted
  <2> QED BY <2>2, <2>3, <2>5
<1>12. ASSUME NEW c \in Outward!Calls, Past(c)' PROVE Accounted(c)'
  <2>1. CASE Past(c)
    BY <1>11, <2>1 DEF OutInv
  <2>2. CASE c = at
    <3>1. c = here
      BY <2>2
    <3> QED BY <3>1
  <2>3. CASE /\ c[1] = at[1] /\ Outward!Before(at, c)
             /\ at \in raised' /\ ~Outward!Caught(at)
    BY <1>1, <1>11, <2>3 DEF Accounted, Outward!Before
  <2> QED BY <1>10, <1>12, <2>1, <2>2, <2>3
<1>13. ~healthy' => \E d \in Outward!Calls : Outward!TakesTransaction(d)' /\ Past(d)'
  BY <1>1, <1>10, <1>11 DEF OutInv
<1> QED BY <1>6, <1>7, <1>8, <1>9, <1>12, <1>13 DEF OutInv

LEMMA OutInductive ==
  ASSUME OutInv, [Outward!Next]_Outward!vars
  PROVE  OutInv'
<1>1. CASE UNCHANGED Outward!vars
  BY <1>1 DEF Outward!vars, OutInv, Outward!TypeOK, Outward!Calls, Past, Accounted,
              Outward!TakesTransaction, Outward!UsesSession, Outward!InSavepoint,
              Outward!Kind, Outward!Caught, Outward!Before
<1>2. CASE Outward!Commit
  <2>1. Outward!Calls' = Outward!Calls
    BY <1>2 DEF Outward!Commit, Outward!Calls
  <2>2. \A c \in Outward!Calls :
          /\ Past(c) /\ Past(c)' /\ Accounted(c)' = Accounted(c)
          /\ Outward!TakesTransaction(c)' = Outward!TakesTransaction(c)
    BY <1>2, <2>1 DEF Outward!Commit, Past, Accounted,
              Outward!TakesTransaction, Outward!UsesSession, Outward!InSavepoint,
              Outward!Kind, Outward!Caught, Outward!Before
  <2> QED BY <1>2, <2>1, <2>2 DEF Outward!Commit, OutInv, Outward!TypeOK
<1>3. CASE Outward!Dispatch
  <2>1. dispatch = "dispatching" /\ at \in Outward!Calls
    BY <1>3 DEF Outward!Dispatch, OutInv
  <2>2. PICK here \in Outward!Calls : here = at
    BY <2>1
  <2>3. UNCHANGED listeners /\ healthy \in BOOLEAN
        /\ broken \subseteq raised
    BY <1>3 DEF Outward!Dispatch, Outward!Create, Outward!Query, Outward!Push,
       Outward!SendMail, Outward!Record, Outward!Broadcast, Outward!NotSetUp,
       Outward!Refuse, Outward!Succeed, Outward!Fail, Outward!Raise, OutInv, Outward!TypeOK
  <2>4. /\ Outward!Kind(here)' = Outward!Kind(here)
        /\ Outward!InSavepoint(here)' = Outward!InSavepoint(here)
        /\ Outward!Caught(here)' = Outward!Caught(here)
        /\ Outward!UsesSession(here)' = Outward!UsesSession(here)
    BY <2>3 DEF Outward!Kind, Outward!InSavepoint, Outward!Caught, Outward!UsesSession
  <2>5. CASE Outward!Succeed
    <3>1. Accounted(here)'
      BY <2>2, <2>5 DEF Accounted, Outward!Succeed
    <3>2. Outward!NextCall \in {Outward!NextCall, Outward!NextListener}
      OBVIOUS
    <3> QED BY <2>1, <2>2, <2>3, <2>5, <3>1, <3>2, Advances DEF Outward!Succeed
  <2>6. CASE Outward!Fail /\ (UNCHANGED healthy \/ (Outward!FlushFails(at)
                                                    /\ Outward!UsesSession(at)))
    <3>1. /\ Outward!Advance(IF Outward!Caught(at) THEN Outward!NextCall
                                                   ELSE Outward!NextListener)
          /\ raised' = raised \cup {at} /\ broken' = broken \cup {at} /\ made' = made
      BY <2>6 DEF Outward!Fail, Outward!Raise
    <3>2. Accounted(here)'
      BY <2>2, <3>1 DEF Accounted
    <3>3. healthy' \in BOOLEAN /\ (~healthy' => ~healthy \/ Outward!TakesTransaction(here)')
      <4>1. CASE UNCHANGED healthy
        BY <2>3, <4>1
      <4>2. CASE Outward!FlushFails(at) /\ Outward!UsesSession(at)
        <5>1. Outward!InSavepoint(here) \in BOOLEAN
          <6>1. PICK l \in 1 .. Len(listeners) : \E i \in 1 .. Len(listeners[l]) : here = <<l, i>>
            BY CallsOf DEF OutInv, Outward!TypeOK
          <6>2. PICK i \in 1 .. Len(listeners[l]) : here = <<l, i>>
            BY <6>1
          <6>3. listeners \in Seq(Seq([kind : {"create", "record", "query", "push", "mail",
                  "send", "broadcast", "unset"}, savepoint : BOOLEAN]))
            BY ApplicationAssumption DEF OutInv, Outward!TypeOK
          <6>4. listeners[l][i] \in [kind : {"create", "record", "query", "push", "mail",
                  "send", "broadcast", "unset"}, savepoint : BOOLEAN]
            <7> DEFINE One == [kind : {"create", "record", "query", "push", "mail",
                                "send", "broadcast", "unset"}, savepoint : BOOLEAN]
            <7>1. listeners \in Seq(Seq(One))
              BY <6>3
            <7> HIDE DEF One
            <7>2. listeners[l] \in Seq(One)
              BY <6>1, <7>1
            <7>3. listeners[l][i] \in One
              BY <6>2, <7>2
            <7> QED BY <7>3 DEF One
          <6> QED BY <6>2, <6>4 DEF Outward!InSavepoint
        <5>2. healthy' = Outward!InSavepoint(here)
          BY <2>2, <4>2 DEF Outward!FlushFails
        <5> QED BY <2>2, <2>4, <3>1, <4>2, <5>1, <5>2 DEF Outward!TakesTransaction
      <4> QED BY <2>6, <4>1, <4>2
    <3>4. CASE Outward!Caught(at)
      <4>1. Outward!NextCall \in {Outward!NextCall, Outward!NextListener}
        OBVIOUS
      <4> QED BY <2>1, <2>2, <2>3, <3>1, <3>2, <3>3, <3>4, <4>1, Advances
    <3>5. CASE ~Outward!Caught(at)
      <4>1. Outward!NextListener \in {Outward!NextCall, Outward!NextListener}
        OBVIOUS
      <4> QED BY <2>1, <2>2, <2>3, <3>1, <3>2, <3>3, <3>5, <4>1, Advances
    <3> QED BY <3>4, <3>5
  <2>7. CASE Outward!Refuse
    <3>1. /\ Outward!Advance(IF Outward!Caught(at) THEN Outward!NextCall
                                                   ELSE Outward!NextListener)
          /\ raised' = raised \cup {at} /\ broken' = broken /\ made' = made
          /\ healthy' = healthy /\ ~healthy /\ Outward!UsesSession(here)
      BY <2>2, <2>3, <2>7 DEF Outward!Refuse, Outward!Raise, Outward!Works
    <3>2. Accounted(here)'
      <4>1. PICK d \in Outward!Calls : Outward!TakesTransaction(d) /\ Past(d)
        BY <3>1 DEF OutInv
      <4>2. Outward!Before(d, here)
        BY <2>1, <2>2, <4>1 DEF Past
      <4>3. Outward!TakesTransaction(d)' /\ d \in Outward!Calls'
        BY <2>3, <3>1, <4>1 DEF Outward!TakesTransaction, Outward!UsesSession,
           Outward!InSavepoint, Outward!Kind, Outward!Calls
      <4>4. Outward!Before(d, here)'
        BY <4>2 DEF Outward!Before
      <4> QED BY <2>2, <2>4, <3>1, <4>3, <4>4 DEF Accounted
    <3>3. CASE Outward!Caught(at)
      <4>1. Outward!NextCall \in {Outward!NextCall, Outward!NextListener}
        OBVIOUS
      <4> QED BY <2>1, <2>2, <2>3, <3>1, <3>2, <3>3, <4>1, Advances
    <3>4. CASE ~Outward!Caught(at)
      <4>1. Outward!NextListener \in {Outward!NextCall, Outward!NextListener}
        OBVIOUS
      <4> QED BY <2>1, <2>2, <2>3, <3>1, <3>2, <3>4, <4>1, Advances
    <3> QED BY <3>3, <3>4
  <2>8. Outward!Kind(at) \in {"create", "record"} => Outward!UsesSession(at)
    BY DEF Outward!UsesSession
  <2>9. CASE Outward!Create \/ Outward!Record
    BY <2>5, <2>6, <2>8, <2>9 DEF Outward!Create, Outward!Record
  <2>10. CASE Outward!Query \/ Outward!Push \/ Outward!SendMail \/ Outward!Broadcast
                \/ Outward!NotSetUp
    BY <2>5, <2>6, <2>10 DEF Outward!Query, Outward!Push, Outward!SendMail,
       Outward!Broadcast, Outward!NotSetUp
  <2> QED BY <1>3, <2>7, <2>9, <2>10 DEF Outward!Dispatch
<1> QED BY <1>1, <1>2, <1>3 DEF Outward!Next

LEMMA ReactionsAreApart ==
  ASSUME OutInv
  PROVE  Outward!Isolated /\ Outward!ToldIsKept
<1>1. Outward!Isolated
  BY DEF OutInv, Past, Accounted, Outward!Isolated
<1>2. Outward!ToldIsKept
  BY DEF OutInv, Outward!ToldIsKept
<1> QED BY <1>1, <1>2

(***************************************************************************)
(* Queries                                                                 *)
(***************************************************************************)

(* The variable holds the tenant of the innermost block, and each block    *)
(* will put back that of the one around it.                                *)
TenantOfBlock(t) ==
  /\ blocks[t] \in Seq(Find!Scopes) /\ resets[t] \in Seq(Find!Scopes)
  /\ Len(blocks[t]) = Len(resets[t]) /\ Len(blocks[t]) <= MaxNesting
  /\ context[t] = IF blocks[t] = <<>> THEN Find!Nothing ELSE Head(blocks[t])
  /\ \A i \in 1 .. Len(blocks[t]) :
       resets[t][i] = IF i < Len(blocks[t]) THEN blocks[t][i + 1] ELSE Find!Nothing

Indexed(i, w) == i \in DOMAIN stored /\ stored[i].word = w

(* The index leads to the words that are stored, if there is one.          *)
FindInv ==
  /\ dialect \in Find!Dialects /\ triggers \in BOOLEAN
  /\ DOMAIN stored \subseteq Searched /\ \A i \in DOMAIN stored : stored[i] \in Find!Row
  /\ hits \subseteq Searched \X Words
  /\ triggers => \A i \in Searched, w \in Words : <<i, w>> \in hits <=> Indexed(i, w)
  /\ blocks = [t \in Tasks |-> blocks[t]] /\ resets = [t \in Tasks |-> resets[t]]
  /\ context \in [Tasks -> Find!Scopes]
  /\ \A t \in Tasks : TenantOfBlock(t)
  /\ puts \in 0 .. MaxPuts
  /\ Find!FindsWhatIsThere

LEMMA FindInit ==
  ASSUME Find!Init
  PROVE  FindInv
<1>1. \A t \in Tasks : TenantOfBlock(t)
  BY BoundsAssumption DEF Find!Init, TenantOfBlock
<1>2. Find!FindsWhatIsThere
  BY DEF Find!Init, Find!FindsWhatIsThere
<1>3. DOMAIN stored = {}
  BY DEF Find!Init
<1> QED BY <1>1, <1>2, <1>3, BoundsAssumption DEF Find!Init, FindInv, Find!Scopes, Indexed

LEMMA Blocks ==
  ASSUME FindInv, NEW t \in Tasks,
         \/ \E scope \in Find!Scopes :
              /\ Len(blocks[t]) < MaxNesting
              /\ blocks' = [blocks EXCEPT ![t] = <<scope>> \o @]
              /\ context' = [context EXCEPT ![t] = scope]
              /\ resets' = [resets EXCEPT ![t] = <<context[t]>> \o @]
         \/ /\ blocks[t] # <<>>
            /\ context' = [context EXCEPT ![t] = Head(resets[t])]
            /\ resets' = [resets EXCEPT ![t] = Tail(@)]
            /\ blocks' = [blocks EXCEPT ![t] = Tail(@)]
  PROVE  /\ blocks' = [u \in Tasks |-> blocks'[u]] /\ resets' = [u \in Tasks |-> resets'[u]]
         /\ context' \in [Tasks -> Find!Scopes]
         /\ \A u \in Tasks : TenantOfBlock(u)'
<1>1. /\ TenantOfBlock(t) /\ context[t] \in Find!Scopes
      /\ blocks = [u \in Tasks |-> blocks[u]] /\ resets = [u \in Tasks |-> resets[u]]
      /\ context \in [Tasks -> Find!Scopes]
      /\ MaxNesting \in Nat /\ Find!Nothing \in Find!Scopes
  BY BoundsAssumption DEF FindInv, Find!Scopes
<1>2. \A u \in Tasks : u # t =>
        blocks'[u] = blocks[u] /\ resets'[u] = resets[u] /\ context'[u] = context[u]
  BY <1>1
<1>3. TenantOfBlock(t)' /\ context'[t] \in Find!Scopes
  <2>1. ASSUME NEW scope \in Find!Scopes, Len(blocks[t]) < MaxNesting,
               blocks'[t] = <<scope>> \o blocks[t], context'[t] = scope,
               resets'[t] = <<context[t]>> \o resets[t]
        PROVE  TenantOfBlock(t)' /\ context'[t] \in Find!Scopes
    <3>1. /\ Len(blocks'[t]) = Len(blocks[t]) + 1 /\ Len(resets'[t]) = Len(blocks[t]) + 1
          /\ blocks'[t] \in Seq(Find!Scopes) /\ resets'[t] \in Seq(Find!Scopes)
          /\ Head(blocks'[t]) = scope /\ blocks'[t] # <<>> /\ Len(blocks[t]) \in Nat
      BY <1>1, <2>1 DEF TenantOfBlock
    <3>2. /\ resets'[t][1] = context[t]
          /\ \A i \in 1 .. Len(blocks[t]) :
               resets'[t][i + 1] = resets[t][i] /\ blocks'[t][i + 1] = blocks[t][i]
      BY <1>1, <2>1, <3>1 DEF TenantOfBlock
    <3>3. blocks[t] # <<>> => context[t] = blocks[t][1] /\ Len(blocks[t]) > 0
      BY <1>1 DEF TenantOfBlock
    <3>4. blocks[t] = <<>> => context[t] = Find!Nothing /\ Len(blocks[t]) = 0
      BY <1>1 DEF TenantOfBlock
    <3>5. ASSUME NEW i \in 1 .. Len(blocks[t]) + 1
          PROVE  resets'[t][i] = IF i < Len(blocks[t]) + 1 THEN blocks'[t][i + 1]
                                 ELSE Find!Nothing
      <4>1. CASE i = 1
        <5>1. blocks[t] # <<>> => 1 \in 1 .. Len(blocks[t])
          BY <3>1, <3>3
        <5> QED BY <3>1, <3>2, <3>3, <3>4, <4>1, <5>1
      <4>2. CASE i # 1
        <5>1. i - 1 \in 1 .. Len(blocks[t]) /\ (i - 1) + 1 = i
          BY <3>1, <4>2
        <5>2. resets'[t][i] = resets[t][i - 1]
          BY <3>2, <5>1
        <5>3. resets[t][i - 1] = IF i - 1 < Len(blocks[t]) THEN blocks[t][i] ELSE Find!Nothing
          BY <1>1, <5>1 DEF TenantOfBlock
        <5>4. i < Len(blocks[t]) + 1 => blocks'[t][i + 1] = blocks[t][i]
          BY <3>1, <3>2
        <5> QED BY <3>1, <5>1, <5>2, <5>3, <5>4
      <4> QED BY <4>1, <4>2
    <3>6. Len(blocks[t]) + 1 <= MaxNesting
      BY <1>1, <2>1, <3>1
    <3> QED BY <2>1, <3>1, <3>5, <3>6 DEF TenantOfBlock
  <2>2. ASSUME blocks[t] # <<>>, context'[t] = Head(resets[t]),
               resets'[t] = Tail(resets[t]), blocks'[t] = Tail(blocks[t])
        PROVE  TenantOfBlock(t)' /\ context'[t] \in Find!Scopes
    <3>1. /\ Len(blocks[t]) \in Nat \ {0} /\ Len(resets[t]) = Len(blocks[t])
          /\ blocks[t] \in Seq(Find!Scopes) /\ resets[t] \in Seq(Find!Scopes)
          /\ resets[t] # <<>> /\ Len(blocks[t]) <= MaxNesting
      BY <1>1, <2>2 DEF TenantOfBlock
    <3>2. /\ Len(blocks'[t]) = Len(blocks[t]) - 1 /\ Len(resets'[t]) = Len(blocks[t]) - 1
          /\ blocks'[t] \in Seq(Find!Scopes) /\ resets'[t] \in Seq(Find!Scopes)
          /\ \A i \in 1 .. Len(blocks[t]) - 1 :
               resets'[t][i] = resets[t][i + 1] /\ blocks'[t][i] = blocks[t][i + 1]
      BY <2>2, <3>1
    <3>3. context'[t] = resets[t][1] /\ context'[t] \in Find!Scopes
      BY <2>2, <3>1
    <3>4. resets[t][1] = IF 1 < Len(blocks[t]) THEN blocks[t][2] ELSE Find!Nothing
      BY <1>1, <3>1 DEF TenantOfBlock
    <3>5. context'[t] = IF blocks'[t] = <<>> THEN Find!Nothing ELSE Head(blocks'[t])
      BY <3>1, <3>2, <3>3, <3>4
    <3>6. ASSUME NEW i \in 1 .. Len(blocks[t]) - 1
          PROVE  resets'[t][i] = IF i < Len(blocks[t]) - 1 THEN blocks'[t][i + 1]
                                 ELSE Find!Nothing
      <4>1. i + 1 \in 1 .. Len(blocks[t])
        BY <3>1
      <4>2. resets[t][i + 1] = IF i + 1 < Len(blocks[t]) THEN blocks[t][i + 2]
                               ELSE Find!Nothing
        BY <1>1, <4>1 DEF TenantOfBlock
      <4>3. i < Len(blocks[t]) - 1 => blocks'[t][i + 1] = blocks[t][i + 2]
        BY <3>1, <3>2
      <4> QED BY <3>1, <3>2, <4>2, <4>3
    <3> QED BY <1>1, <3>1, <3>2, <3>3, <3>5, <3>6 DEF TenantOfBlock
  <2> QED BY <1>1, <2>1, <2>2
<1>4. \A u \in Tasks : TenantOfBlock(u)' /\ context'[u] \in Find!Scopes
  <2>1. ASSUME NEW u \in Tasks, u # t PROVE TenantOfBlock(u)' /\ context'[u] \in Find!Scopes
    BY <1>1, <1>2, <2>1 DEF FindInv, TenantOfBlock
  <2> QED BY <1>3, <2>1
<1> QED BY <1>1, <1>4

(* What is written reaches the index.                                      *)
LEMMA Writes ==
  ASSUME FindInv, NEW i \in Searched, NEW before, NEW after, NEW new,
         Find!Write(new, before, after),
         DOMAIN new \subseteq Searched, \A j \in DOMAIN new : new[j] \in Find!Row,
         \A j \in Searched : j # i =>
           /\ j \in DOMAIN new <=> j \in DOMAIN stored
           /\ j \in DOMAIN stored => new[j] = stored[j],
         before = IF i \in DOMAIN stored THEN {<<i, stored[i].word>>} ELSE {},
         after = IF i \in DOMAIN new THEN {<<i, new[i].word>>} ELSE {}
  PROVE  FindInv'
<1>1. /\ puts < MaxPuts /\ puts' = puts + 1 /\ stored' = new /\ found' = {}
      /\ hits' = IF triggers THEN (hits \ before) \cup after ELSE hits
      /\ UNCHANGED <<dialect, triggers, context, resets, blocks>>
  BY DEF Find!Write, Find!Kept
<1>2. puts' \in 0 .. MaxPuts
  BY <1>1, BoundsAssumption DEF FindInv
<1>3. after \subseteq Searched \X Words
  BY DEF Find!Row
<1>4. hits' \subseteq Searched \X Words
  BY <1>1, <1>3 DEF FindInv
<1>5. ASSUME triggers, NEW j \in Searched, NEW w \in Words
      PROVE  <<j, w>> \in hits' <=> Indexed(j, w)'
  <2>1. <<j, w>> \in hits <=> Indexed(j, w)
    BY <1>5 DEF FindInv
  <2>2. hits' = (hits \ before) \cup after
    BY <1>1, <1>5
  <2>3. CASE j # i
    <3>1. <<j, w>> \notin before /\ <<j, w>> \notin after
      BY <2>3
    <3> QED BY <1>1, <2>1, <2>2, <2>3, <3>1 DEF Indexed
  <2>4. CASE j = i
    <3>1. <<j, w>> \in after <=> Indexed(j, w)'
      BY <1>1, <2>4 DEF Indexed
    <3>2. <<j, w>> \in hits => <<j, w>> \in before
      BY <2>1, <2>4 DEF Indexed
    <3> QED BY <2>2, <3>1, <3>2
  <2> QED BY <2>3, <2>4
<1>6. \A t \in Tasks : TenantOfBlock(t)'
  BY <1>1 DEF FindInv, TenantOfBlock
<1>7. Find!FindsWhatIsThere'
  BY <1>1 DEF Find!FindsWhatIsThere
<1> QED BY <1>1, <1>2, <1>4, <1>5, <1>6, <1>7 DEF FindInv

LEMMA FindInductive ==
  ASSUME FindInv, [Find!Next]_Find!vars
  PROVE  FindInv'
<1>1. CASE UNCHANGED Find!vars
  BY <1>1 DEF Find!vars, FindInv, TenantOfBlock, Indexed, Find!FindsWhatIsThere
<1>2. ASSUME NEW t \in Tasks, Find!AsTenant(t) \/ Find!LeaveTenant(t) PROVE FindInv'
  <2>1. found' = {} /\ UNCHANGED <<dialect, stored, triggers, hits, puts>>
    BY <1>2 DEF Find!AsTenant, Find!LeaveTenant
  <2>2. /\ blocks' = [u \in Tasks |-> blocks'[u]] /\ resets' = [u \in Tasks |-> resets'[u]]
        /\ context' \in [Tasks -> Find!Scopes]
        /\ \A u \in Tasks : TenantOfBlock(u)'
    BY <1>2, Blocks DEF Find!AsTenant, Find!LeaveTenant, Find!PutBack
  <2> QED BY <2>1, <2>2 DEF FindInv, Indexed, Find!FindsWhatIsThere
<1>3. ASSUME NEW t \in Tasks, Find!Create(t) PROVE FindInv'
  <2>1. PICK i \in Searched \ DOMAIN stored : \E w \in Words, own \in Find!Scopes :
          LET new == [tenant |-> IF own = Find!Nothing THEN context[t] ELSE own,
                      word |-> w, deleted |-> FALSE]
          IN  Find!Write(Find!Put(i, new), {}, Find!Entry(i, new))
    BY <1>3 DEF Find!Create
  <2>2. PICK new \in Find!Row : Find!Write(Find!Put(i, new), {}, Find!Entry(i, new))
    BY <2>1 DEF FindInv, Find!Row
  <2> DEFINE next == Find!Put(i, new)
  <2>3. /\ DOMAIN next = DOMAIN stored \cup {i} /\ next[i] = new
        /\ \A j \in DOMAIN stored : j # i => next[j] = stored[j]
    BY DEF Find!Put
  <2>4. /\ DOMAIN next \subseteq Searched /\ \A j \in DOMAIN next : next[j] \in Find!Row
    BY <2>3 DEF FindInv
  <2>5. Find!Write(next, {}, Find!Entry(i, new))
    BY <2>2
  <2>6. /\ {} = IF i \in DOMAIN stored THEN {<<i, stored[i].word>>} ELSE {}
        /\ Find!Entry(i, new) = IF i \in DOMAIN next THEN {<<i, next[i].word>>} ELSE {}
    BY <2>1, <2>3 DEF Find!Entry
  <2>7. \A j \in Searched : j # i =>
          /\ j \in DOMAIN next <=> j \in DOMAIN stored
          /\ j \in DOMAIN stored => next[j] = stored[j]
    BY <2>3
  <2> HIDE DEF next
  <2> QED BY <2>1, <2>4, <2>5, <2>6, <2>7, Writes
<1>4. CASE Find!Change
  <2>1. PICK i \in DOMAIN stored : \E w \in Words, gone \in BOOLEAN :
          LET new == [stored[i] EXCEPT !.word = w, !.deleted = gone]
          IN Find!Write(Find!Put(i, new), Find!Entry(i, stored[i]), Find!Entry(i, new))
    BY <1>4 DEF Find!Change
  <2>2. PICK new \in Find!Row :
          Find!Write(Find!Put(i, new), Find!Entry(i, stored[i]), Find!Entry(i, new))
    BY <2>1 DEF FindInv, Find!Row
  <2> DEFINE next == Find!Put(i, new)
  <2>3. /\ DOMAIN next = DOMAIN stored \cup {i} /\ next[i] = new
        /\ \A j \in DOMAIN stored : j # i => next[j] = stored[j]
    BY DEF Find!Put
  <2>4. /\ DOMAIN next \subseteq Searched /\ \A j \in DOMAIN next : next[j] \in Find!Row
    BY <2>3 DEF FindInv
  <2>5. Find!Write(next, Find!Entry(i, stored[i]), Find!Entry(i, new))
    BY <2>2
  <2>6. /\ Find!Entry(i, stored[i]) =
             IF i \in DOMAIN stored THEN {<<i, stored[i].word>>} ELSE {}
        /\ Find!Entry(i, new) = IF i \in DOMAIN next THEN {<<i, next[i].word>>} ELSE {}
    BY <2>1, <2>3 DEF Find!Entry
  <2>7. \A j \in Searched : j # i =>
          /\ j \in DOMAIN next <=> j \in DOMAIN stored
          /\ j \in DOMAIN stored => next[j] = stored[j]
    BY <2>3
  <2>8. i \in Searched
    BY <2>1 DEF FindInv
  <2> HIDE DEF next
  <2> QED BY <2>4, <2>5, <2>6, <2>7, <2>8, Writes
<1>5. CASE Find!HardDelete
  <2>1. PICK i \in DOMAIN stored :
          Find!Write([j \in DOMAIN stored \ {i} |-> stored[j]], Find!Entry(i, stored[i]), {})
    BY <1>5 DEF Find!HardDelete
  <2> DEFINE next == [j \in DOMAIN stored \ {i} |-> stored[j]]
  <2>2. DOMAIN next = DOMAIN stored \ {i} /\ \A j \in DOMAIN next : next[j] = stored[j]
    OBVIOUS
  <2>3. Find!Write(next, Find!Entry(i, stored[i]), {})
    BY <2>1
  <2>4. /\ Find!Entry(i, stored[i]) =
             IF i \in DOMAIN stored THEN {<<i, stored[i].word>>} ELSE {}
        /\ {} = IF i \in DOMAIN next THEN {<<i, next[i].word>>} ELSE {}
    BY <2>1, <2>2 DEF Find!Entry
  <2>5. /\ DOMAIN next \subseteq Searched /\ \A j \in DOMAIN next : next[j] \in Find!Row
        /\ i \in Searched
    BY <2>1, <2>2 DEF FindInv
  <2>6. \A j \in Searched : j # i =>
          /\ j \in DOMAIN next <=> j \in DOMAIN stored
          /\ j \in DOMAIN stored => next[j] = stored[j]
    BY <2>2
  <2> HIDE DEF next
  <2> QED BY <2>3, <2>4, <2>5, <2>6, Writes
<1>6. CASE Find!CreateIndex
  <2>1. /\ found' = {} /\ hits' = Find!Backfill
        /\ UNCHANGED <<dialect, stored, context, resets, blocks, puts>>
        /\ triggers' = TRUE
    BY <1>6 DEF Find!CreateIndex
  <2>2. \A i, w : <<i, w>> \in hits' <=> Indexed(i, w)
    BY <2>1 DEF Find!Backfill, Find!Entry, Indexed
  <2>3. hits' \subseteq Searched \X Words
    BY <2>1 DEF Find!Backfill, Find!Entry, FindInv, Find!Row
  <2> QED BY <2>1, <2>2, <2>3 DEF FindInv, TenantOfBlock, Indexed, Find!FindsWhatIsThere
<1>7. CASE Find!DropIndex
  BY <1>7 DEF Find!DropIndex, FindInv, TenantOfBlock, Indexed, Find!FindsWhatIsThere
<1>8. ASSUME NEW t \in Tasks, Find!Read(t) PROVE FindInv'
  <2>1. PICK kind \in Find!Reads : \E all \in BOOLEAN, w \in Words :
          /\ kind = "search" => triggers
          /\ found' = {[kind |-> kind, all |-> all, task |-> t,
                        word |-> IF kind = "search" THEN w ELSE Find!Nothing,
                        scope |-> IF blocks[t] = <<>> THEN Find!Nothing
                                  ELSE Head(blocks[t]),
                        ids |-> Find!Scoped(kind, context[t]) \cap Find!Live(all)
                                  \cap Find!Matching(kind, w)]}
    BY <1>8 DEF Find!Read
  <2>2. PICK all \in BOOLEAN : \E w \in Words :
          /\ kind = "search" => triggers
          /\ found' = {[kind |-> kind, all |-> all, task |-> t,
                        word |-> IF kind = "search" THEN w ELSE Find!Nothing,
                        scope |-> IF blocks[t] = <<>> THEN Find!Nothing
                                  ELSE Head(blocks[t]),
                        ids |-> Find!Scoped(kind, context[t]) \cap Find!Live(all)
                                  \cap Find!Matching(kind, w)]}
    BY <2>1
  <2>3. PICK w \in Words :
          /\ kind = "search" => triggers
          /\ found' = {[kind |-> kind, all |-> all, task |-> t,
                        word |-> IF kind = "search" THEN w ELSE Find!Nothing,
                        scope |-> IF blocks[t] = <<>> THEN Find!Nothing
                                  ELSE Head(blocks[t]),
                        ids |-> Find!Scoped(kind, context[t]) \cap Find!Live(all)
                                  \cap Find!Matching(kind, w)]}
    BY <2>2
  <2>4. UNCHANGED <<dialect, stored, triggers, hits, context, resets, blocks, puts>>
    BY <1>8 DEF Find!Read
  <2>5. context[t] = IF blocks[t] = <<>> THEN Find!Nothing ELSE Head(blocks[t])
    BY DEF FindInv, TenantOfBlock
  <2>6. \A i \in DOMAIN stored :
          kind = "search" => (<<i, w>> \in hits <=> stored[i].word = w)
    BY <2>3 DEF FindInv, Indexed
  <2>7. Find!Scoped(kind, context[t]) \cap Find!Live(all) \cap Find!Matching(kind, w)
          = {i \in DOMAIN stored :
               /\ context[t] \in {Find!Nothing, stored[i].tenant}
               /\ all \/ ~ stored[i].deleted
               /\ kind = "search" => stored[i].word = w}
    BY <2>6 DEF Find!Scoped, Find!Live, Find!Matching
  <2>8. Find!FindsWhatIsThere'
    BY <2>3, <2>4, <2>5, <2>7 DEF Find!FindsWhatIsThere
  <2> QED BY <2>4, <2>8 DEF FindInv, TenantOfBlock, Indexed
<1> QED BY <1>1, <1>2, <1>3, <1>4, <1>5, <1>6, <1>7, <1>8 DEF Find!Next

(***************************************************************************)
(* UnitOfWork                                                              *)
(***************************************************************************)

Piece == [kind : Work!Kinds, rows : SUBSET Work!Writes]

(* The block of a handler that stands for level i of one of its sessions.  *)
Level(kind, i, x) ==
  [kind |-> IF i = 1 THEN kind ELSE "savepoint", rows |-> x]

(* The blocks c of a handler are those of the request's session, with the  *)
(* levels q, and after them those of the job's, with the levels j: level   *)
(* by level with the same rows.                                            *)
Matches(c, q, j) ==
  /\ c \in Seq(Piece) /\ q \in Seq(SUBSET Work!Writes) /\ j \in Seq(SUBSET Work!Writes)
  /\ Len(c) = Len(q) + Len(j)
  /\ Len(c) > 0 => Len(q) > 0
  /\ \A i \in 1 .. Len(q) : c[i] = Level("request", i, q[i])
  /\ \A i \in 1 .. Len(j) : c[Len(q) + i] = Level("job", i, j[i])

LEMMA Levels ==
  ASSUME NEW k, NEW x, NEW i \in Nat \ {0}
  PROVE  /\ Level(k, i, x).kind = IF i = 1 THEN k ELSE "savepoint"
         /\ Level(k, i, x).rows = x
         /\ i # 1 => Work!Block("savepoint") = Level(k, i, {})
BY DEF Level, Work!Block

LEMMA Pieces ==
  /\ Work!Block("job") = Level("job", 1, {})
  /\ Work!Block("savepoint") \in Piece /\ Work!Block("job") \in Piece
BY DEF Level, Work!Block, Piece, Work!Kinds, Work!SessionNames

LEMMA IsLevel ==
  ASSUME NEW p \in Piece, NEW k, NEW x, NEW i \in Nat \ {0},
         p.kind = Level(k, i, x).kind, NEW y, p.rows = y
  PROVE  p = Level(k, i, y)
BY DEF Level, Piece

(* A new block inside the others.                                          *)
LEMMA Deeper ==
  ASSUME NEW c, NEW q, NEW j, Matches(c, q, j), c # <<>>
  PROVE  /\ j = <<>> => Matches(Append(c, Work!Block("savepoint")), Append(q, {}), j)
         /\ j # <<>> => Matches(Append(c, Work!Block("savepoint")), q, Append(j, {}))
         /\ j = <<>> => Matches(Append(c, Work!Block("job")), q, <<{}>>)
<1> DEFINE sp == Work!Block("savepoint")
           jb == Work!Block("job")
<1>0. /\ \A i \in 1 .. Len(q) : c[i] = Level("request", i, q[i])
      /\ \A i \in 1 .. Len(j) : c[Len(q) + i] = Level("job", i, j[i])
  BY DEF Matches
<1>1. /\ c \in Seq(Piece) /\ q \in Seq(SUBSET Work!Writes) /\ j \in Seq(SUBSET Work!Writes)
      /\ Len(c) \in Nat /\ Len(q) \in Nat /\ Len(j) \in Nat
      /\ Len(c) = Len(q) + Len(j) /\ Len(c) > 0 /\ Len(q) > 0
  BY DEF Matches
<1>2. /\ sp \in Piece /\ jb \in Piece /\ jb = Level("job", 1, {})
      /\ sp = Level("request", Len(q) + 1, {})
      /\ Len(j) > 0 => sp = Level("job", Len(j) + 1, {})
  <2>1. /\ Len(q) + 1 \in Nat \ {0} /\ Len(q) + 1 # 1
        /\ Len(j) + 1 \in Nat \ {0} /\ (Len(j) > 0 => Len(j) + 1 # 1)
    BY <1>1
  <2> QED BY <2>1, Levels, Pieces
<1> HIDE DEF sp, jb
<1>3. ASSUME NEW e \in Piece
      PROVE  /\ Append(c, e) \in Seq(Piece) /\ Len(Append(c, e)) = Len(c) + 1
             /\ Append(c, e)[Len(c) + 1] = e
             /\ \A i \in 1 .. Len(c) : Append(c, e)[i] = c[i]
  BY <1>1
<1>4. ASSUME NEW s \in Seq(SUBSET Work!Writes)
      PROVE  /\ Append(s, {}) \in Seq(SUBSET Work!Writes)
             /\ Len(Append(s, {})) = Len(s) + 1
             /\ Append(s, {})[Len(s) + 1] = {}
             /\ \A i \in 1 .. Len(s) : Append(s, {})[i] = s[i]
  OBVIOUS
<1>5. ASSUME j = <<>> PROVE Matches(Append(c, sp), Append(q, {}), j)
  <2>1. Len(j) = 0 /\ Len(q) = Len(c)
    BY <1>1, <1>5
  <2>2. ASSUME NEW i \in 1 .. Len(q) + 1
        PROVE  Append(c, sp)[i] = Level("request", i, Append(q, {})[i])
    <3>1. CASE i = Len(q) + 1
      BY <1>1, <1>2, <1>3, <1>4, <2>1, <3>1
    <3>2. CASE i # Len(q) + 1
      <4>1. i \in 1 .. Len(q)
        BY <1>1, <3>2
      <4> QED BY <1>0, <1>1, <1>2, <1>3, <1>4, <2>1, <4>1
    <3> QED BY <3>1, <3>2
  <2> QED BY <1>1, <1>2, <1>3, <1>4, <2>1, <2>2 DEF Matches
<1>6. ASSUME j # <<>> PROVE Matches(Append(c, sp), q, Append(j, {}))
  <2>1. Len(j) > 0
    BY <1>1, <1>6
  <2>2. ASSUME NEW i \in 1 .. Len(q) PROVE Append(c, sp)[i] = Level("request", i, q[i])
    <3>1. i \in 1 .. Len(c)
      BY <1>1
    <3> QED BY <1>0, <1>2, <1>3, <3>1
  <2>3. ASSUME NEW i \in 1 .. Len(j) + 1
        PROVE  Append(c, sp)[Len(q) + i] = Level("job", i, Append(j, {})[i])
    <3>1. CASE i = Len(j) + 1
      <4>1. Len(q) + i = Len(c) + 1
        BY <1>1, <3>1
      <4>2. Append(c, sp)[Len(q) + i] = sp /\ Append(j, {})[i] = {}
        BY <1>1, <1>2, <1>3, <1>4, <3>1, <4>1
      <4> QED BY <1>2, <2>1, <3>1, <4>2
    <3>2. CASE i # Len(j) + 1
      <4>1. i \in 1 .. Len(j) /\ Len(q) + i \in 1 .. Len(c)
        BY <1>1, <3>2
      <4>2. Append(c, sp)[Len(q) + i] = c[Len(q) + i] /\ Append(j, {})[i] = j[i]
        BY <1>1, <1>2, <1>3, <1>4, <4>1
      <4> QED BY <1>0, <4>1, <4>2
    <3> QED BY <3>1, <3>2
  <2>4. /\ Append(j, {}) \in Seq(SUBSET Work!Writes) /\ Append(c, sp) \in Seq(Piece)
        /\ Len(Append(c, sp)) = Len(q) + Len(Append(j, {}))
        /\ Len(Append(j, {})) = Len(j) + 1
    BY <1>1, <1>2, <1>3, <1>4
  <2> HIDE DEF Matches
  <2> QED BY <1>1, <2>2, <2>3, <2>4 DEF Matches
<1>7. ASSUME j = <<>> PROVE Matches(Append(c, jb), q, <<{}>>)
  <2>1. /\ Len(j) = 0 /\ Len(q) = Len(c) /\ Len(<<{}>>) = 1 /\ <<{}>>[1] = {}
        /\ <<{}>> \in Seq(SUBSET Work!Writes)
    BY <1>1, <1>7
  <2>2. ASSUME NEW i \in 1 .. Len(q) PROVE Append(c, jb)[i] = Level("request", i, q[i])
    BY <1>0, <1>1, <1>2, <1>3, <2>1
  <2>3. Append(c, jb)[Len(q) + 1] = Level("job", 1, {})
    BY <1>1, <1>2, <1>3, <2>1
  <2>4. \A i \in 1 .. Len(<<{}>>) : Append(c, jb)[Len(q) + i] = Level("job", i, <<{}>>[i])
    <3>1. \A i \in 1 .. Len(<<{}>>) : i = 1
      BY <2>1
    <3> QED BY <2>1, <2>3, <3>1
  <2> QED BY <1>1, <1>2, <1>3, <2>1, <2>2, <2>4 DEF Matches
<1> QED BY <1>5, <1>6, <1>7 DEF sp, jb

(* The innermost block and its level are given more rows.                  *)
LEMMA Rewritten ==
  ASSUME NEW c, NEW q, NEW j, Matches(c, q, j), c # <<>>,
         NEW more \in SUBSET Work!Writes
  PROVE  LET e == [c EXCEPT ![Len(c)].rows = @ \cup more]
         IN  /\ j = <<>> => /\ Len(q) > 0
                            /\ Matches(e, [q EXCEPT ![Len(q)] = @ \cup more], j)
             /\ j # <<>> => /\ Len(j) > 0
                            /\ Matches(e, q, [j EXCEPT ![Len(j)] = @ \cup more])
<1> DEFINE e == [c EXCEPT ![Len(c)].rows = @ \cup more]
           x == [q EXCEPT ![Len(q)] = @ \cup more]
           y == [j EXCEPT ![Len(j)] = @ \cup more]
<1>0. /\ \A i \in 1 .. Len(q) : c[i] = Level("request", i, q[i])
      /\ \A i \in 1 .. Len(j) : c[Len(q) + i] = Level("job", i, j[i])
  BY DEF Matches
<1>1. /\ c \in Seq(Piece) /\ q \in Seq(SUBSET Work!Writes) /\ j \in Seq(SUBSET Work!Writes)
      /\ Len(c) \in Nat /\ Len(q) \in Nat /\ Len(j) \in Nat
      /\ Len(c) = Len(q) + Len(j) /\ Len(c) > 0 /\ Len(q) > 0
  BY DEF Matches
<1>2. c = [i \in 1 .. Len(c) |-> c[i]] /\ \A i \in 1 .. Len(c) : c[i] \in Piece
  BY <1>1
<1>3. /\ Len(e) = Len(c) /\ e \in Seq(Piece)
      /\ \A i \in 1 .. Len(c) : i # Len(c) => e[i] = c[i]
      /\ e[Len(c)] \in Piece /\ e[Len(c)].kind = c[Len(c)].kind
      /\ e[Len(c)].rows = c[Len(c)].rows \cup more
  <2>1. c[Len(c)] \in Piece /\ Len(c) \in 1 .. Len(c)
    BY <1>1, <1>2
  <2>2. [c[Len(c)] EXCEPT !.rows = c[Len(c)].rows \cup more] \in Piece
    BY <2>1 DEF Piece
  <2>3. e = [c EXCEPT ![Len(c)] = [c[Len(c)] EXCEPT !.rows = c[Len(c)].rows \cup more]]
    BY <2>1, <1>2
  <2> DEFINE last == [c[Len(c)] EXCEPT !.rows = c[Len(c)].rows \cup more]
  <2> HIDE DEF last
  <2>4. e = [c EXCEPT ![Len(c)] = last] /\ last \in Piece
    BY <2>2, <2>3 DEF last
  <2> HIDE DEF e
  <2>5. /\ e \in Seq(Piece) /\ Len(e) = Len(c) /\ e[Len(c)] = last
        /\ \A i \in 1 .. Len(c) : i # Len(c) => e[i] = c[i]
    BY <1>1, <2>1, <2>4
  <2>6. last.kind = c[Len(c)].kind /\ last.rows = c[Len(c)].rows \cup more
    BY <2>1 DEF last, Piece
  <2> QED BY <2>4, <2>5, <2>6
<1> HIDE DEF e
<1>4. ASSUME j = <<>> PROVE Matches(e, x, j)
  <2>1. Len(j) = 0 /\ Len(q) = Len(c)
    BY <1>1, <1>4
  <2>2. /\ x \in Seq(SUBSET Work!Writes) /\ Len(x) = Len(q)
        /\ x[Len(q)] = q[Len(q)] \cup more
        /\ \A i \in 1 .. Len(q) : i # Len(q) => x[i] = q[i]
    BY <1>1
  <2> HIDE DEF x
  <2>3. e[Len(q)] = Level("request", Len(q), x[Len(q)])
    <3>1. c[Len(q)] = Level("request", Len(q), q[Len(q)])
      BY <1>0, <1>1
    <3>2. Len(q) \in Nat \ {0}
      BY <1>1
    <3>3. /\ e[Len(c)].kind = Level("request", Len(q), q[Len(q)]).kind
          /\ e[Len(c)].rows = x[Len(q)]
      BY <1>3, <2>1, <2>2, <3>1, <3>2, Levels
    <3> QED BY <1>3, <2>1, <3>2, <3>3, IsLevel
  <2>4. \A i \in 1 .. Len(x) : e[i] = Level("request", i, x[i])
    BY <1>0, <1>1, <1>3, <2>1, <2>2, <2>3
  <2> QED BY <1>1, <1>3, <2>1, <2>2, <2>4 DEF Matches
<1>5. ASSUME j # <<>> PROVE Matches(e, q, y) /\ Len(j) > 0
  <2>1. Len(j) > 0
    BY <1>1, <1>5
  <2>2. /\ y \in Seq(SUBSET Work!Writes) /\ Len(y) = Len(j)
        /\ y[Len(j)] = j[Len(j)] \cup more
        /\ \A i \in 1 .. Len(j) : i # Len(j) => y[i] = j[i]
    BY <1>1, <2>1
  <2> HIDE DEF y
  <2>3. ASSUME NEW i \in 1 .. Len(q) PROVE e[i] = Level("request", i, q[i])
    <3>1. i \in 1 .. Len(c) /\ i # Len(c)
      BY <1>1, <2>1
    <3> QED BY <1>0, <1>3, <3>1
  <2>4. ASSUME NEW i \in 1 .. Len(j) PROVE e[Len(q) + i] = Level("job", i, y[i])
    <3>1. /\ Len(q) + i \in 1 .. Len(c) /\ (Len(q) + i = Len(c) <=> i = Len(j))
          /\ i \in Nat \ {0}
      BY <1>1
    <3>2. c[Len(q) + i] = Level("job", i, j[i])
      BY <1>0
    <3>3. CASE i = Len(j)
      <4>1. c[Len(c)] = Level("job", i, j[i])
        BY <3>1, <3>2, <3>3
      <4>2. /\ e[Len(c)].kind = Level("job", i, j[i]).kind
            /\ e[Len(c)].rows = y[i]
        BY <1>3, <2>2, <3>1, <3>3, <4>1, Levels
      <4> QED BY <1>3, <3>1, <3>3, <4>2, IsLevel
    <3>4. CASE i # Len(j)
      BY <1>3, <2>2, <3>1, <3>2, <3>4
    <3> QED BY <3>3, <3>4
  <2> QED BY <1>1, <1>3, <2>1, <2>2, <2>3, <2>4 DEF Matches
<1> QED BY <1>1, <1>4, <1>5 DEF e

(* All but the last element.                                               *)
LEMMA Fronts ==
  ASSUME NEW S, NEW s \in Seq(S), s # <<>>
  PROVE  /\ Work!Front(s) \in Seq(S) /\ Len(Work!Front(s)) = Len(s) - 1
         /\ \A i \in 1 .. Len(s) - 1 : Work!Front(s)[i] = s[i]
         /\ Work!Last(s) = s[Len(s)] /\ Work!Last(s) \in S
         /\ Len(s) \in Nat \ {0}
<1>1. Len(s) \in Nat \ {0}
  BY EmptySeq
<1>2. SubSeq(s, 1, Len(s) - 1) \in Seq(S)
  BY <1>1
<1>3. Len(SubSeq(s, 1, Len(s) - 1)) = Len(s) - 1
  <2>1. CASE Len(s) = 1
    BY <2>1, SubSeqEmpty
  <2>2. CASE Len(s) # 1
    <3>1. Len(s) - 1 \in 1 .. Len(s)
      BY <1>1, <2>2
    <3> QED BY <1>1, <3>1
  <2> QED BY <2>1, <2>2
<1>4. \A i \in 1 .. Len(s) - 1 : SubSeq(s, 1, Len(s) - 1)[i] = s[i]
  BY <1>1
<1> QED BY <1>1, <1>2, <1>3, <1>4 DEF Work!Front, Work!Last

(* The innermost block is left.                                            *)
LEMMA Shallower ==
  ASSUME NEW c \in Seq(Piece), NEW q \in Seq(SUBSET Work!Writes),
         NEW j \in Seq(SUBSET Work!Writes), Matches(c, q, j), c # <<>>
  PROVE  /\ Work!Last(c) = c[Len(c)] /\ Work!Last(c) \in Piece
         /\ Work!Last(c).kind = "savepoint" =>
              /\ Work!Front(c) # <<>>
              /\ j = <<>> => /\ Matches(Work!Front(c), Work!Front(q), j)
                             /\ q[Len(q)] = Work!Last(c).rows
              /\ j # <<>> => /\ Matches(Work!Front(c), q, Work!Front(j))
                             /\ j[Len(j)] = Work!Last(c).rows
                             /\ Work!Front(j) # <<>>
         /\ Work!Last(c).kind = "job" =>
              /\ Matches(Work!Front(c), q, <<>>) /\ Work!Front(c) # <<>>
              /\ Len(j) = 1 /\ j[1] = Work!Last(c).rows
         /\ Work!Last(c).kind = "request" =>
              /\ Len(c) = 1 /\ j = <<>> /\ Len(q) = 1 /\ q[1] = Work!Last(c).rows
<1>0. /\ \A i \in 1 .. Len(q) : c[i] = Level("request", i, q[i])
      /\ \A i \in 1 .. Len(j) : c[Len(q) + i] = Level("job", i, j[i])
  BY DEF Matches
<1>1. /\ c \in Seq(Piece) /\ q \in Seq(SUBSET Work!Writes) /\ j \in Seq(SUBSET Work!Writes)
      /\ Len(c) \in Nat /\ Len(q) \in Nat /\ Len(j) \in Nat
      /\ Len(c) = Len(q) + Len(j) /\ Len(c) > 0 /\ Len(q) > 0
  BY DEF Matches
<1>2. /\ Work!Front(c) \in Seq(Piece) /\ Len(Work!Front(c)) = Len(c) - 1
      /\ \A i \in 1 .. Len(c) - 1 : Work!Front(c)[i] = c[i]
      /\ Work!Last(c) = c[Len(c)] /\ Work!Last(c) \in Piece
  BY <1>1, Fronts
<1>3. /\ Work!Front(q) \in Seq(SUBSET Work!Writes) /\ Len(Work!Front(q)) = Len(q) - 1
      /\ \A i \in 1 .. Len(q) - 1 : Work!Front(q)[i] = q[i]
  <2>1. q # <<>>
    BY <1>1
  <2> QED BY <1>1, <2>1, Fronts
<1>4. CASE j = <<>>
  <2>1. Len(j) = 0 /\ Len(q) = Len(c)
    BY <1>1, <1>4
  <2>2. Work!Last(c) = Level("request", Len(q), q[Len(q)])
    BY <1>0, <1>1, <1>2, <2>1
  <2>3. /\ Work!Last(c).kind = IF Len(q) = 1 THEN "request" ELSE "savepoint"
        /\ Work!Last(c).rows = q[Len(q)]
    <3>1. Len(q) \in Nat \ {0}
      BY <1>1
    <3> QED BY <2>2, <3>1 DEF Level
  <2>4. ASSUME Len(q) # 1 PROVE Matches(Work!Front(c), Work!Front(q), j)
    <3>1. \A i \in 1 .. Len(q) - 1 : Work!Front(c)[i] = Level("request", i, Work!Front(q)[i])
      BY <1>0, <1>1, <1>2, <1>3, <2>1
    <3> QED BY <1>1, <1>2, <1>3, <2>1, <2>4, <3>1 DEF Matches
  <2>5. Len(q) # 1 => Work!Front(c) # <<>>
    BY <1>1, <1>2, <2>1
  <2> QED BY <1>2, <1>4, <2>1, <2>3, <2>4, <2>5
<1>5. CASE j # <<>>
  <2>1. Len(j) > 0 /\ Len(c) > 1 /\ Len(j) \in 1 .. Len(j)
    BY <1>1, <1>5
  <2>2. Work!Last(c) = Level("job", Len(j), j[Len(j)])
    BY <1>0, <1>1, <1>2, <2>1
  <2>3. /\ Work!Last(c).kind = IF Len(j) = 1 THEN "job" ELSE "savepoint"
        /\ Work!Last(c).rows = j[Len(j)]
    <3>1. Len(j) \in Nat \ {0}
      BY <1>1, <2>1
    <3> QED BY <2>2, <3>1 DEF Level
  <2>4. /\ Work!Front(j) \in Seq(SUBSET Work!Writes) /\ Len(Work!Front(j)) = Len(j) - 1
        /\ \A i \in 1 .. Len(j) - 1 : Work!Front(j)[i] = j[i]
    BY <1>1, <1>5, Fronts
  <2>5. Work!Front(c) # <<>>
    BY <1>1, <1>2, <2>1
  <2>6. \A i \in 1 .. Len(q) : Work!Front(c)[i] = Level("request", i, q[i])
    <3>1. \A i \in 1 .. Len(q) : i \in 1 .. Len(c) - 1
      BY <1>1, <2>1
    <3> QED BY <1>0, <1>2, <3>1
  <2>7. Matches(Work!Front(c), q, Work!Front(j))
    <3>1. ASSUME NEW i \in 1 .. Len(j) - 1
          PROVE  Work!Front(c)[Len(q) + i] = Level("job", i, Work!Front(j)[i])
      <4>1. Len(q) + i \in 1 .. Len(c) - 1 /\ i \in 1 .. Len(j)
        BY <1>1
      <4> QED BY <1>0, <1>2, <2>4, <4>1
    <3>2. Len(Work!Front(c)) = Len(q) + Len(Work!Front(j))
      BY <1>1, <1>2, <2>4
    <3> QED BY <1>1, <1>2, <2>4, <2>6, <3>1, <3>2 DEF Matches
  <2>8. Len(j) # 1 => Work!Front(j) # <<>>
    BY <1>1, <2>1, <2>4
  <2>9. ASSUME Len(j) = 1 PROVE Matches(Work!Front(c), q, <<>>)
    <3>1. Len(Work!Front(c)) = Len(q) /\ <<>> \in Seq(SUBSET Work!Writes) /\ Len(<<>>) = 0
      BY <1>1, <1>2, <2>9
    <3> QED BY <1>1, <1>2, <2>6, <3>1 DEF Matches
  <2> QED BY <1>2, <1>5, <2>3, <2>5, <2>7, <2>8, <2>9
<1> QED BY <1>4, <1>5

(* What the program knows of a request, its ContextVar and the levels of   *)
(* its sessions, is what the text of its handler says.                     *)
BlocksAndLevels(r) ==
  /\ Matches(code[r], nesting[r]["request"], nesting[r]["job"])
  /\ code[r] = <<>> <=> stage[r] \in {"new", "closed"}
  /\ current[r] = IF code[r] = <<>> THEN None
                  ELSE IF nesting[r]["job"] = <<>> THEN "request" ELSE "job"
  /\ stage[r] = "answered" => Len(code[r]) = 1

WorkInv ==
  /\ nesting \in [Handlers -> [Work!SessionNames -> Seq(SUBSET Work!Writes)]]
  /\ code \in [Handlers -> Seq(Piece)]
  /\ current \in [Handlers -> Work!SessionNames \cup {None}]
  /\ stage \in [Handlers -> {"new", "running", "raising", "answered", "closed"}]
  /\ told \in [Handlers -> {"nothing", "ok", "error"}]
  /\ writes \in [Handlers -> 0 .. MaxWrites] /\ failures \in 0 .. MaxFailures
  /\ visible \in SUBSET Work!Writes /\ due \in SUBSET Work!Writes
  /\ visible = due
  /\ \A r \in Handlers : BlocksAndLevels(r)

LEMMA WorkInit ==
  ASSUME Work!Init
  PROVE  WorkInv
<1>1. Matches(<<>>, <<>>, <<>>)
  <2>1. <<>> \in Seq(Piece) /\ <<>> \in Seq(SUBSET Work!Writes) /\ Len(<<>>) = 0
    OBVIOUS
  <2> QED BY <2>1 DEF Matches
<1>2. \A r \in Handlers : BlocksAndLevels(r)
  BY <1>1 DEF Work!Init, BlocksAndLevels, Work!SessionNames
<1>3. MaxWrites \in Nat /\ MaxFailures \in Nat
  BY BoundsAssumption
<1> QED BY <1>2, <1>3 DEF Work!Init, WorkInv, Work!SessionNames

(* What a step may do to the levels of one session.                        *)
LEMMA OneSession ==
  ASSUME WorkInv, NEW r \in Handlers, NEW s \in Work!SessionNames,
         NEW x \in Seq(SUBSET Work!Writes), nesting' = [nesting EXCEPT ![r][s] = x]
  PROVE  /\ nesting' \in [Handlers -> [Work!SessionNames -> Seq(SUBSET Work!Writes)]]
         /\ \A t \in Handlers : t # r => nesting'[t] = nesting[t]
         /\ nesting'[r][s] = x
         /\ \A u \in Work!SessionNames : u # s => nesting'[r][u] = nesting[r][u]
BY DEF WorkInv

(* A request whose own state stays sound, while that of the others does    *)
(* not change.                                                             *)
LEMMA OneRequest ==
  ASSUME WorkInv, NEW r \in Handlers,
         nesting' \in [Handlers -> [Work!SessionNames -> Seq(SUBSET Work!Writes)]],
         code' \in [Handlers -> Seq(Piece)],
         current' \in [Handlers -> Work!SessionNames \cup {None}],
         stage' \in [Handlers -> {"new", "running", "raising", "answered", "closed"}],
         \A t \in Handlers : t # r =>
           /\ nesting'[t] = nesting[t] /\ code'[t] = code[t]
           /\ current'[t] = current[t] /\ stage'[t] = stage[t],
         BlocksAndLevels(r)',
         told' \in [Handlers -> {"nothing", "ok", "error"}],
         writes' \in [Handlers -> 0 .. MaxWrites], failures' \in 0 .. MaxFailures,
         visible' \in SUBSET Work!Writes, visible' = due'
  PROVE  WorkInv'
<1>1. ASSUME NEW t \in Handlers, t # r PROVE BlocksAndLevels(t)'
  <2>1. BlocksAndLevels(t)
    BY DEF WorkInv
  <2>2. /\ nesting'[t] = nesting[t] /\ code'[t] = code[t]
        /\ current'[t] = current[t] /\ stage'[t] = stage[t]
    BY <1>1
  <2> QED BY <2>1, <2>2 DEF BlocksAndLevels
<1> QED BY <1>1 DEF WorkInv

LEMMA WorkFacts ==
  ASSUME WorkInv, NEW r \in Handlers
  PROVE  /\ Matches(code[r], nesting[r]["request"], nesting[r]["job"])
         /\ code[r] = <<>> <=> stage[r] \in {"new", "closed"}
         /\ current[r] = IF code[r] = <<>> THEN None
                         ELSE IF nesting[r]["job"] = <<>> THEN "request" ELSE "job"
         /\ stage[r] = "answered" => Len(code[r]) = 1
         /\ code[r] = <<>> => nesting[r]["request"] = <<>> /\ nesting[r]["job"] = <<>>
         /\ code[r] \in Seq(Piece)
         /\ nesting[r]["request"] \in Seq(SUBSET Work!Writes)
         /\ nesting[r]["job"] \in Seq(SUBSET Work!Writes)
         /\ nesting[r]["job"] = <<>> <=> Len(nesting[r]["job"]) = 0
<1> DEFINE q == nesting[r]["request"]
           j == nesting[r]["job"]
<1>1. Matches(code[r], q, j)
  BY DEF WorkInv, BlocksAndLevels
<1>2. /\ Len(q) \in Nat /\ Len(j) \in Nat /\ Len(code[r]) = Len(q) + Len(j)
      /\ q \in Seq(SUBSET Work!Writes) /\ j \in Seq(SUBSET Work!Writes)
      /\ code[r] \in Seq(Piece)
  BY <1>1 DEF Matches
<1> HIDE DEF q, j
<1>3. code[r] = <<>> => Len(q) = 0 /\ Len(j) = 0
  BY <1>2
<1>4. (Len(q) = 0 => q = <<>>) /\ (Len(j) = 0 <=> j = <<>>)
  BY <1>2, EmptySeq
<1> QED BY <1>1, <1>2, <1>3, <1>4 DEF WorkInv, BlocksAndLevels, q, j

(* Of a request that has begun: its innermost block, and the others.       *)
LEMMA Inner ==
  ASSUME WorkInv, NEW r \in Handlers, stage[r] \notin {"new", "closed"},
         NEW c, c = code[r], NEW q, q = nesting[r]["request"],
         NEW j, j = nesting[r]["job"]
  PROVE  /\ Matches(c, q, j) /\ c # <<>>
         /\ Work!Last(c) = c[Len(c)] /\ Work!Last(c) \in Piece
         /\ Work!Last(c).rows \in SUBSET Work!Writes
         /\ Work!Last(c).kind = "savepoint" =>
              /\ Work!Front(c) # <<>>
              /\ j = <<>> => /\ Matches(Work!Front(c), Work!Front(q), j)
                             /\ q[Len(q)] = Work!Last(c).rows
              /\ j # <<>> => /\ Matches(Work!Front(c), q, Work!Front(j))
                             /\ j[Len(j)] = Work!Last(c).rows
                             /\ Work!Front(j) # <<>>
         /\ Work!Last(c).kind = "job" =>
              /\ Matches(Work!Front(c), q, <<>>) /\ Work!Front(c) # <<>>
              /\ Len(j) = 1 /\ j[1] = Work!Last(c).rows
         /\ Work!Last(c).kind = "request" =>
              /\ Len(c) = 1 /\ j = <<>> /\ Len(q) = 1 /\ q[1] = Work!Last(c).rows
<1>1. /\ Matches(c, q, j) /\ c # <<>>
      /\ c \in Seq(Piece) /\ q \in Seq(SUBSET Work!Writes)
      /\ j \in Seq(SUBSET Work!Writes)
  BY WorkFacts
<1>2. Work!Last(c) \in Piece
  BY <1>1, Shallower
<1>3. Work!Last(c).rows \in SUBSET Work!Writes
  BY <1>2 DEF Piece
<1>4. Work!Last(c).kind = "savepoint" =>
        /\ Work!Front(c) # <<>>
        /\ j = <<>> => /\ Matches(Work!Front(c), Work!Front(q), j)
                       /\ q[Len(q)] = Work!Last(c).rows
        /\ j # <<>> => /\ Matches(Work!Front(c), q, Work!Front(j))
                       /\ j[Len(j)] = Work!Last(c).rows
                       /\ Work!Front(j) # <<>>
  BY <1>1, Shallower, SMTT(30)
<1>5. Work!Last(c).kind = "job" =>
        /\ Matches(Work!Front(c), q, <<>>) /\ Work!Front(c) # <<>>
        /\ Len(j) = 1 /\ j[1] = Work!Last(c).rows
  BY <1>1, Shallower
<1>6. /\ Work!Last(c).kind = "request" =>
           Len(c) = 1 /\ j = <<>> /\ Len(q) = 1 /\ q[1] = Work!Last(c).rows
      /\ Work!Last(c) = c[Len(c)]
  BY <1>1, Shallower
<1> QED BY <1>1, <1>2, <1>3, <1>4, <1>5, <1>6

LEMMA WorkTypes ==
  ASSUME WorkInv
  PROVE  /\ nesting \in [Handlers -> [Work!SessionNames -> Seq(SUBSET Work!Writes)]]
         /\ code \in [Handlers -> Seq(Piece)]
         /\ current \in [Handlers -> Work!SessionNames \cup {None}]
         /\ stage \in [Handlers -> {"new", "running", "raising", "answered", "closed"}]
         /\ told \in [Handlers -> {"nothing", "ok", "error"}]
         /\ writes \in [Handlers -> 0 .. MaxWrites] /\ failures \in 0 .. MaxFailures
         /\ visible \in SUBSET Work!Writes /\ due \in SUBSET Work!Writes /\ visible = due
         /\ MaxWrites \in Nat /\ MaxFailures \in Nat
         /\ "request" \in Work!SessionNames /\ "job" \in Work!SessionNames
         /\ Work!SessionNames = {"request", "job"}
BY BoundsAssumption DEF WorkInv, Work!SessionNames

LEMMA WorkBegins ==
  ASSUME WorkInv, NEW r \in Handlers, Work!Begin(r)
  PROVE  WorkInv'
<1>1. /\ nesting' = [nesting EXCEPT ![r]["request"] = <<{}>>]
      /\ code' = [code EXCEPT ![r] = <<Work!Block("request")>>]
      /\ current' = [current EXCEPT ![r] = "request"]
      /\ stage' = [stage EXCEPT ![r] = "running"]
      /\ UNCHANGED <<told, visible, due, writes, failures>>
      /\ stage[r] = "new"
  BY DEF Work!Begin, Work!SetLevels
<1>2. /\ Work!Block("request") \in Piece
      /\ Work!Block("request") = Level("request", 1, {})
  BY DEF Work!Block, Piece, Level, Work!Kinds, Work!SessionNames
<1>3. /\ <<Work!Block("request")>> \in Seq(Piece)
      /\ <<{}>> \in Seq(SUBSET Work!Writes) /\ <<>> \in Seq(SUBSET Work!Writes)
      /\ Len(<<Work!Block("request")>>) = 1 /\ Len(<<{}>>) = 1 /\ Len(<<>>) = 0
  BY <1>2
<1>4. Matches(<<Work!Block("request")>>, <<{}>>, <<>>)
  <2>1. \A i \in 1 .. Len(<<{}>>) :
          <<Work!Block("request")>>[i] = Level("request", i, <<{}>>[i])
    BY <1>2, <1>3
  <2> QED BY <1>3, <2>1 DEF Matches
<1>5. /\ nesting' \in [Handlers -> [Work!SessionNames -> Seq(SUBSET Work!Writes)]]
      /\ \A t \in Handlers : t # r => nesting'[t] = nesting[t]
      /\ nesting'[r]["request"] = <<{}>> /\ nesting'[r]["job"] = nesting[r]["job"]
  BY <1>1, <1>3, OneSession, WorkTypes
<1>6. nesting[r]["job"] = <<>>
  BY <1>1, WorkFacts
<1>7. code'[r] = <<Work!Block("request")>> /\ current'[r] = "request" /\ stage'[r] = "running"
  BY <1>1, WorkTypes
<1>8. BlocksAndLevels(r)'
  BY <1>3, <1>4, <1>5, <1>6, <1>7 DEF BlocksAndLevels
<1>9. /\ code' \in [Handlers -> Seq(Piece)]
      /\ current' \in [Handlers -> Work!SessionNames \cup {None}]
      /\ stage' \in [Handlers -> {"new", "running", "raising", "answered", "closed"}]
      /\ \A t \in Handlers : t # r =>
           code'[t] = code[t] /\ current'[t] = current[t] /\ stage'[t] = stage[t]
  BY <1>1, <1>3, WorkTypes
<1> QED BY <1>1, <1>5, <1>8, <1>9, WorkTypes, OneRequest

(* A block of the text is that of a job where the session of a job is open. *)
LEMMA JobBlock ==
  ASSUME WorkInv, NEW r \in Handlers
  PROVE  "job" \in Work!KindsOf(r) <=> nesting[r]["job"] # <<>>
<1> DEFINE q == nesting[r]["request"]
           j == nesting[r]["job"]
<1>1. /\ Len(q) \in Nat /\ Len(j) \in Nat /\ Len(code[r]) = Len(q) + Len(j)
      /\ \A i \in 1 .. Len(q) : code[r][i] = Level("request", i, q[i])
      /\ \A i \in 1 .. Len(j) : code[r][Len(q) + i] = Level("job", i, j[i])
      /\ DOMAIN code[r] = 1 .. Len(code[r])
      /\ j = <<>> <=> Len(j) = 0
  <2>1. Matches(code[r], q, j) /\ (j = <<>> <=> Len(j) = 0)
    BY WorkFacts
  <2> HIDE DEF q, j
  <2> QED BY <2>1 DEF Matches
<1> HIDE DEF q, j
<1>2. ASSUME Len(j) = 0, NEW i \in DOMAIN code[r] PROVE code[r][i].kind # "job"
  <2>1. i \in 1 .. Len(q) /\ i \in Nat \ {0}
    BY <1>1, <1>2
  <2>2. code[r][i].kind = IF i = 1 THEN "request" ELSE "savepoint"
    BY <1>1, <2>1, Levels
  <2> QED BY <2>2
<1>3. ASSUME Len(j) # 0 PROVE \E i \in DOMAIN code[r] : code[r][i].kind = "job"
  <2>1. 1 \in 1 .. Len(j) /\ 1 \in Nat \ {0} /\ Len(q) + 1 \in DOMAIN code[r]
    BY <1>1, <1>3
  <2>2. code[r][Len(q) + 1].kind = "job"
    BY <1>1, <2>1, Levels
  <2> QED BY <2>1, <2>2
<1> QED BY <1>1, <1>2, <1>3 DEF Work!KindsOf, j

(* What a step does that changes one session and the blocks of its request. *)
LEMMA Moved ==
  ASSUME WorkInv, NEW r \in Handlers, NEW s \in Work!SessionNames,
         NEW x \in Seq(SUBSET Work!Writes), NEW c \in Seq(Piece),
         nesting' = [nesting EXCEPT ![r][s] = x], code' = [code EXCEPT ![r] = c]
  PROVE  /\ nesting' \in [Handlers -> [Work!SessionNames -> Seq(SUBSET Work!Writes)]]
         /\ code' \in [Handlers -> Seq(Piece)]
         /\ \A t \in Handlers : t # r => nesting'[t] = nesting[t] /\ code'[t] = code[t]
         /\ code'[r] = c /\ nesting'[r][s] = x
         /\ \A u \in Work!SessionNames : u # s => nesting'[r][u] = nesting[r][u]
<1>1. /\ code' \in [Handlers -> Seq(Piece)] /\ code'[r] = c
      /\ \A t \in Handlers : t # r => code'[t] = code[t]
  <2>1. code \in [Handlers -> Seq(Piece)]
    BY DEF WorkInv
  <2> QED BY <2>1
<1>2. /\ nesting' \in [Handlers -> [Work!SessionNames -> Seq(SUBSET Work!Writes)]]
      /\ \A t \in Handlers : t # r => nesting'[t] = nesting[t]
      /\ nesting'[r][s] = x
      /\ \A u \in Work!SessionNames : u # s => nesting'[r][u] = nesting[r][u]
  BY OneSession
<1> QED BY <1>1, <1>2

LEMMA WorkWrites ==
  ASSUME WorkInv, NEW r \in Handlers, Work!Write(r)
  PROVE  WorkInv'
<1> DEFINE q == nesting[r]["request"]
           j == nesting[r]["job"]
<1>1. PICK row : row = <<r, writes'[r]>>
  OBVIOUS
<1>2. /\ stage[r] \in {"running", "answered"} /\ writes[r] < MaxWrites
      /\ writes' = [writes EXCEPT ![r] = @ + 1]
      /\ code' = [code EXCEPT ![r][Len(code[r])].rows = @ \cup {row}]
      /\ Len(nesting[r][current[r]]) # 0 =>
           nesting' = [nesting EXCEPT ![r][current[r]][Len(nesting[r][current[r]])]
                         = @ \cup {row}]
      /\ UNCHANGED <<stage, told, current, visible, due, failures>>
  BY <1>1 DEF Work!Write
<1>3. {row} \in SUBSET Work!Writes /\ writes' \in [Handlers -> 0 .. MaxWrites]
  <2>1. writes' \in [Handlers -> 0 .. MaxWrites] /\ writes'[r] \in 1 .. MaxWrites
    BY <1>2, WorkTypes
  <2> QED BY <1>1, <2>1 DEF Work!Writes
<1>4. Matches(code[r], q, j) /\ code[r] # <<>>
  BY <1>2, WorkFacts
<1> DEFINE e == [code[r] EXCEPT ![Len(code[r])].rows = @ \cup {row}]
<1>5. code' = [code EXCEPT ![r] = e]
  BY <1>2
<1>6. CASE j = <<>>
  <2> DEFINE x == [q EXCEPT ![Len(q)] = @ \cup {row}]
  <2>1. Matches(e, x, j) /\ Len(q) > 0
    BY <1>3, <1>4, <1>6, Rewritten
  <2>2. current[r] = "request"
    BY <1>4, <1>6, WorkFacts
  <2>3. nesting' = [nesting EXCEPT ![r]["request"] = x]
    BY <1>2, <2>1, <2>2
  <2>4. x \in Seq(SUBSET Work!Writes) /\ e \in Seq(Piece) /\ Len(e) = Len(code[r]) /\ e # <<>>
    <3>1. e \in Seq(Piece) /\ x \in Seq(SUBSET Work!Writes) /\ Len(x) = Len(q)
      BY <2>1, WorkFacts DEF Matches
    <3>2. Len(e) = Len(code[r])
      BY WorkFacts
    <3> QED BY <1>4, <3>1, <3>2, WorkFacts, EmptySeq
  <2> HIDE DEF x, e
  <2>5. /\ nesting' \in [Handlers -> [Work!SessionNames -> Seq(SUBSET Work!Writes)]]
        /\ code' \in [Handlers -> Seq(Piece)]
        /\ \A t \in Handlers : t # r => nesting'[t] = nesting[t] /\ code'[t] = code[t]
        /\ code'[r] = e /\ nesting'[r]["request"] = x /\ nesting'[r]["job"] = j
    BY <1>5, <2>3, <2>4, Moved, WorkTypes
  <2>6. BlocksAndLevels(r)'
    BY <1>2, <1>6, <2>1, <2>2, <2>4, <2>5, WorkFacts DEF BlocksAndLevels
  <2> QED BY <1>2, <1>3, <2>5, <2>6, WorkTypes, OneRequest
<1>7. CASE j # <<>>
  <2> DEFINE x == [j EXCEPT ![Len(j)] = @ \cup {row}]
  <2>1. Matches(e, q, x) /\ Len(j) > 0
    BY <1>3, <1>4, <1>7, Rewritten
  <2>2. current[r] = "job"
    BY <1>4, <1>7, WorkFacts
  <2>3. nesting' = [nesting EXCEPT ![r]["job"] = x]
    BY <1>2, <2>1, <2>2
  <2>4. /\ x \in Seq(SUBSET Work!Writes) /\ e \in Seq(Piece) /\ Len(e) = Len(code[r])
        /\ e # <<>> /\ x # <<>>
    <3>1. e \in Seq(Piece) /\ x \in Seq(SUBSET Work!Writes)
      BY <2>1 DEF Matches
    <3>2. Len(e) = Len(code[r]) /\ Len(x) = Len(j)
      BY WorkFacts
    <3> QED BY <1>4, <2>1, <3>1, <3>2, WorkFacts, EmptySeq
  <2> HIDE DEF x, e
  <2>5. /\ nesting' \in [Handlers -> [Work!SessionNames -> Seq(SUBSET Work!Writes)]]
        /\ code' \in [Handlers -> Seq(Piece)]
        /\ \A t \in Handlers : t # r => nesting'[t] = nesting[t] /\ code'[t] = code[t]
        /\ code'[r] = e /\ nesting'[r]["job"] = x /\ nesting'[r]["request"] = q
    BY <1>5, <2>3, <2>4, Moved, WorkTypes
  <2>6. BlocksAndLevels(r)'
    BY <1>2, <1>7, <2>1, <2>2, <2>4, <2>5, WorkFacts DEF BlocksAndLevels
  <2> QED BY <1>2, <1>3, <2>5, <2>6, WorkTypes, OneRequest
<1> QED BY <1>6, <1>7

LEMMA WorkEnters ==
  ASSUME WorkInv, NEW r \in Handlers, Work!EnterTransaction(r) \/ Work!EnterJob(r)
  PROVE  WorkInv'
<1> DEFINE q == nesting[r]["request"]
           j == nesting[r]["job"]
           sp == Append(code[r], Work!Block("savepoint"))
           jb == Append(code[r], Work!Block("job"))
<1>1. /\ stage[r] = "running"
      /\ UNCHANGED <<stage, told, visible, due, writes, failures>>
  BY DEF Work!EnterTransaction, Work!EnterJob
<1>2. /\ Matches(code[r], q, j) /\ code[r] # <<>>
      /\ current[r] = IF j = <<>> THEN "request" ELSE "job"
  BY <1>1, WorkFacts
<1>3. /\ sp \in Seq(Piece) /\ sp # <<>> /\ jb \in Seq(Piece) /\ jb # <<>>
      /\ \A s \in Seq(SUBSET Work!Writes) :
           Append(s, {}) \in Seq(SUBSET Work!Writes) /\ Append(s, {}) # <<>>
      /\ <<{}>> \in Seq(SUBSET Work!Writes) /\ <<{}>> # <<>>
  <2>1. ASSUME NEW p \in Piece
        PROVE  Append(code[r], p) \in Seq(Piece) /\ Append(code[r], p) # <<>>
    <3>1. code[r] \in Seq(Piece)
      BY WorkFacts
    <3>2. Len(Append(code[r], p)) = Len(code[r]) + 1 /\ Len(code[r]) \in Nat
      BY <3>1
    <3> QED BY <3>1, <3>2
  <2>2. ASSUME NEW s \in Seq(SUBSET Work!Writes)
        PROVE  Append(s, {}) \in Seq(SUBSET Work!Writes) /\ Append(s, {}) # <<>>
    <3>1. Len(Append(s, {})) = Len(s) + 1 /\ Len(s) \in Nat
      OBVIOUS
    <3> QED BY <3>1
  <2>3. <<{}>> \in Seq(SUBSET Work!Writes) /\ <<{}>> # <<>>
    OBVIOUS
  <2> QED BY <2>1, <2>2, <2>3, Pieces
<1> HIDE DEF sp, jb
<1>4. CASE Work!EnterTransaction(r) /\ j = <<>>
  <2>1. /\ nesting' = [nesting EXCEPT ![r]["request"] = Append(q, {})]
        /\ code' = [code EXCEPT ![r] = sp] /\ current' = current
    BY <1>2, <1>4 DEF Work!EnterTransaction, Work!SetLevels, sp
  <2>2. Matches(sp, Append(q, {}), j)
    BY <1>2, <1>4, Deeper DEF sp
  <2>3. /\ nesting' \in [Handlers -> [Work!SessionNames -> Seq(SUBSET Work!Writes)]]
        /\ code' \in [Handlers -> Seq(Piece)]
        /\ \A t \in Handlers : t # r => nesting'[t] = nesting[t] /\ code'[t] = code[t]
        /\ code'[r] = sp /\ nesting'[r]["request"] = Append(q, {})
        /\ nesting'[r]["job"] = j
    BY <1>3, <2>1, Moved, WorkTypes, WorkFacts, SMTT(30)
  <2>4. BlocksAndLevels(r)'
    BY <1>1, <1>2, <1>3, <1>4, <2>1, <2>2, <2>3 DEF BlocksAndLevels
  <2> QED BY <1>1, <2>1, <2>3, <2>4, WorkTypes, OneRequest
<1>5. CASE Work!EnterTransaction(r) /\ j # <<>>
  <2>1. /\ nesting' = [nesting EXCEPT ![r]["job"] = Append(j, {})]
        /\ code' = [code EXCEPT ![r] = sp] /\ current' = current
    BY <1>2, <1>5 DEF Work!EnterTransaction, Work!SetLevels, sp
  <2>2. Matches(sp, q, Append(j, {}))
    BY <1>2, <1>5, Deeper DEF sp
  <2>3. /\ nesting' \in [Handlers -> [Work!SessionNames -> Seq(SUBSET Work!Writes)]]
        /\ code' \in [Handlers -> Seq(Piece)]
        /\ \A t \in Handlers : t # r => nesting'[t] = nesting[t] /\ code'[t] = code[t]
        /\ code'[r] = sp /\ nesting'[r]["job"] = Append(j, {})
        /\ nesting'[r]["request"] = q
    BY <1>3, <2>1, Moved, WorkTypes, WorkFacts, SMTT(30)
  <2>4. BlocksAndLevels(r)'
    BY <1>1, <1>2, <1>3, <1>5, <2>1, <2>2, <2>3, WorkFacts DEF BlocksAndLevels
  <2> QED BY <1>1, <2>1, <2>3, <2>4, WorkTypes, OneRequest
<1>6. CASE Work!EnterJob(r)
  <2>1. /\ nesting' = [nesting EXCEPT ![r]["job"] = <<{}>>]
        /\ code' = [code EXCEPT ![r] = jb] /\ current' = [current EXCEPT ![r] = "job"]
        /\ j = <<>>
    BY <1>6, JobBlock DEF Work!EnterJob, Work!SetLevels, jb
  <2>2. Matches(jb, q, <<{}>>)
    BY <1>2, <2>1, Deeper DEF jb
  <2>3. /\ nesting' \in [Handlers -> [Work!SessionNames -> Seq(SUBSET Work!Writes)]]
        /\ code' \in [Handlers -> Seq(Piece)]
        /\ \A t \in Handlers : t # r => nesting'[t] = nesting[t] /\ code'[t] = code[t]
        /\ code'[r] = jb /\ nesting'[r]["job"] = <<{}>> /\ nesting'[r]["request"] = q
    <3>1. PICK x \in Seq(SUBSET Work!Writes) : x = <<{}>>
      BY <1>3
    <3>2. nesting' = [nesting EXCEPT ![r]["job"] = x]
      BY <2>1, <3>1
    <3>4. code' = [code EXCEPT ![r] = jb] /\ jb \in Seq(Piece) /\ "job" \in Work!SessionNames
      BY <1>3, <2>1, WorkTypes
    <3>3. /\ nesting' \in [Handlers -> [Work!SessionNames -> Seq(SUBSET Work!Writes)]]
          /\ code' \in [Handlers -> Seq(Piece)]
          /\ \A t \in Handlers : t # r => nesting'[t] = nesting[t] /\ code'[t] = code[t]
          /\ code'[r] = jb /\ nesting'[r]["job"] = x
          /\ \A u \in Work!SessionNames : u # "job" => nesting'[r][u] = nesting[r][u]
      BY <3>2, <3>4, Moved, ZenonT(60)
    <3> QED BY <3>1, <3>3, WorkTypes
  <2>4. /\ current' \in [Handlers -> Work!SessionNames \cup {None}] /\ current'[r] = "job"
        /\ \A t \in Handlers : t # r => current'[t] = current[t]
    BY <2>1, WorkTypes
  <2>5. BlocksAndLevels(r)'
    BY <1>1, <1>3, <2>2, <2>3, <2>4 DEF BlocksAndLevels
  <2> QED BY <1>1, <2>3, <2>4, <2>5, WorkTypes, OneRequest
<1> QED BY <1>4, <1>5, <1>6

LEMMA WorkLeaves ==
  ASSUME WorkInv, NEW r \in Handlers,
         Work!LeaveTransaction(r) \/ Work!TransactionRaises(r)
  PROVE  WorkInv'
<1> DEFINE q == nesting[r]["request"]
           j == nesting[r]["job"]
           last == Work!Last(code[r])
<1>1. /\ stage[r] \in {"running", "raising"} /\ last.kind = "savepoint"
      /\ UNCHANGED <<stage, told, current, visible, due, writes, failures>>
  BY WorkTypes DEF Work!LeaveTransaction, Work!TransactionRaises, Work!Innermost
<1>2. /\ Matches(code[r], q, j) /\ code[r] # <<>>
      /\ current[r] = IF j = <<>> THEN "request" ELSE "job"
  BY <1>1, WorkFacts
<1>3. /\ Work!Front(code[r]) # <<>> /\ last \in Piece /\ last.rows \in SUBSET Work!Writes
      /\ j = <<>> => /\ Matches(Work!Front(code[r]), Work!Front(q), j)
                     /\ q[Len(q)] = last.rows
      /\ j # <<>> => /\ Matches(Work!Front(code[r]), q, Work!Front(j))
                     /\ j[Len(j)] = last.rows /\ Work!Front(j) # <<>>
  <2>1. stage[r] \notin {"new", "closed"}
    BY <1>1
  <2> QED BY <1>1, <2>1, Inner
<1>4. /\ Len(Work!Front(code[r])) = Len(code[r]) - 1
      /\ j = <<>> => q # <<>> /\ Len(Work!Front(q)) = Len(q) - 1
      /\ j # <<>> => Len(Work!Front(j)) = Len(j) - 1
  <2>1. q # <<>>
    <3>1. Len(code[r]) \in Nat \ {0}
      BY <1>2, WorkFacts, EmptySeq
    <3>2. Len(q) > 0
      <4> HIDE DEF q, j
      <4> QED BY <1>2, <3>1 DEF Matches
    <3> QED BY <3>2, WorkFacts
  <2> QED BY <1>2, <2>1, Fronts, WorkFacts
<1>5. ASSUME NEW s \in Work!SessionNames, NEW x \in Seq(SUBSET Work!Writes),
             NEW c \in Seq(Piece), c # <<>>,
             nesting' = [nesting EXCEPT ![r][s] = x], code' = [code EXCEPT ![r] = c],
             \/ s = "request" /\ j = <<>> /\ Matches(c, x, j)
             \/ s = "job" /\ j # <<>> /\ x # <<>> /\ Matches(c, q, x)
      PROVE  WorkInv'
  <2>1. /\ nesting' \in [Handlers -> [Work!SessionNames -> Seq(SUBSET Work!Writes)]]
        /\ code' \in [Handlers -> Seq(Piece)]
        /\ \A t \in Handlers : t # r => nesting'[t] = nesting[t] /\ code'[t] = code[t]
        /\ code'[r] = c /\ nesting'[r][s] = x
        /\ \A u \in Work!SessionNames : u # s => nesting'[r][u] = nesting[r][u]
    BY <1>5, Moved, ZenonT(60)
  <2>2. BlocksAndLevels(r)'
    <3>1. CASE s = "request"
      <4>1. nesting'[r]["request"] = x /\ nesting'[r]["job"] = j
        BY <2>1, <3>1, WorkTypes
      <4> QED BY <1>1, <1>2, <1>5, <2>1, <3>1, <4>1 DEF BlocksAndLevels
    <3>2. CASE s = "job"
      <4>1. nesting'[r]["job"] = x /\ nesting'[r]["request"] = q
        BY <2>1, <3>2, WorkTypes
      <4> QED BY <1>1, <1>2, <1>5, <2>1, <3>2, <4>1 DEF BlocksAndLevels
    <3> QED BY <3>1, <3>2, WorkTypes
  <2> QED BY <1>1, <2>1, <2>2, WorkTypes, OneRequest
<1>6. CASE Work!TransactionRaises(r)
  <2>1. /\ nesting' = [nesting EXCEPT ![r][current[r]] = Work!Front(nesting[r][current[r]])]
        /\ code' = [code EXCEPT ![r] = Work!Front(code[r])]
    BY <1>6 DEF Work!TransactionRaises, Work!SetLevels
  <2>2. Work!Front(code[r]) \in Seq(Piece)
    BY <1>2, Fronts, WorkFacts
  <2>3. CASE j = <<>>
    <3>1. Work!Front(q) \in Seq(SUBSET Work!Writes)
      BY <1>4, <2>3, Fronts, WorkFacts
    <3>2. nesting' = [nesting EXCEPT ![r]["request"] = Work!Front(q)]
      BY <1>2, <2>1, <2>3
    <3> QED BY <1>3, <1>5, <2>1, <2>2, <2>3, <3>1, <3>2, WorkTypes
  <2>4. CASE j # <<>>
    <3>1. Work!Front(j) \in Seq(SUBSET Work!Writes)
      BY <2>4, Fronts, WorkFacts
    <3>2. nesting' = [nesting EXCEPT ![r]["job"] = Work!Front(j)]
      BY <1>2, <2>1, <2>4
    <3> QED BY <1>3, <1>5, <2>1, <2>2, <2>4, <3>1, <3>2, WorkTypes
  <2> QED BY <2>3, <2>4
<1>7. CASE Work!LeaveTransaction(r)
  <2> DEFINE c == Work!Front(code[r])
             e == [c EXCEPT ![Len(c)].rows = @ \cup last.rows]
  <2>1. code' = [code EXCEPT ![r] = e]
    <3>1. code' = [code EXCEPT ![r] =
            [c EXCEPT ![Len(code[r]) - 1].rows = @ \cup last.rows]]
      BY <1>7 DEF Work!LeaveTransaction, Work!Innermost
    <3> QED BY <1>4, <3>1
  <2>2. CASE j = <<>>
    <3> DEFINE f == Work!Front(q)
               x == [f EXCEPT ![Len(f)] = @ \cup last.rows]
    <3>1. nesting' = [nesting EXCEPT ![r]["request"] = x]
      BY <1>2, <1>3, <1>4, <1>7, <2>2 DEF Work!LeaveTransaction, Work!SetLevels
    <3>2. Matches(e, x, j)
      BY <1>3, <2>2, Rewritten
    <3>3. e \in Seq(Piece) /\ x \in Seq(SUBSET Work!Writes)
      BY <3>2 DEF Matches
    <3>4. e # <<>>
      BY <1>3
    <3> HIDE DEF x, e
    <3> QED BY <1>5, <2>1, <2>2, <3>1, <3>2, <3>3, <3>4, WorkTypes
  <2>3. CASE j # <<>>
    <3> DEFINE f == Work!Front(j)
               x == [f EXCEPT ![Len(f)] = @ \cup last.rows]
    <3>1. nesting' = [nesting EXCEPT ![r]["job"] = x]
      BY <1>2, <1>3, <1>4, <1>7, <2>3 DEF Work!LeaveTransaction, Work!SetLevels
    <3>2. Matches(e, q, x)
      BY <1>3, <2>3, Rewritten
    <3>3. e \in Seq(Piece) /\ x \in Seq(SUBSET Work!Writes)
      BY <3>2 DEF Matches
    <3>4. e # <<>> /\ x # <<>>
      BY <1>3, <2>3
    <3> HIDE DEF x, e
    <3> QED BY <1>5, <2>1, <2>3, <3>1, <3>2, <3>3, <3>4, WorkTypes
  <2> QED BY <2>2, <2>3
<1> QED BY <1>6, <1>7

LEMMA WorkRaises ==
  ASSUME WorkInv, NEW r \in Handlers,
         \/ Work!Raise(r) \/ Work!Catch(r) \/ Work!RespondHandled(r)
         \/ \E status \in {"ok", "error"} : Work!Respond(r, status)
  PROVE  WorkInv'
<1>1. PICK now \in {"running", "raising", "answered"} :
        /\ stage' = [stage EXCEPT ![r] = now]
        /\ now = "answered" => Work!Last(code[r]).kind = "request"
  <2>1. CASE Work!Raise(r)
    BY <2>1 DEF Work!Raise
  <2>2. CASE Work!Catch(r)
    BY <2>2 DEF Work!Catch
  <2>3. CASE Work!RespondHandled(r)
    BY <2>3 DEF Work!RespondHandled, Work!Innermost
  <2>4. CASE \E status \in {"ok", "error"} : Work!Respond(r, status)
    BY <2>4 DEF Work!Respond, Work!Innermost
  <2> QED BY <2>1, <2>2, <2>3, <2>4
<1>2. /\ told' \in [Handlers -> {"nothing", "ok", "error"}]
      /\ UNCHANGED <<current, nesting, visible, code, due, writes, failures>>
      /\ stage[r] \in {"running", "raising", "answered"}
  <2>1. CASE Work!Raise(r)
    BY <2>1, WorkTypes DEF Work!Raise
  <2>2. CASE Work!Catch(r)
    BY <2>2, WorkTypes DEF Work!Catch
  <2>3. CASE Work!RespondHandled(r)
    BY <2>3, WorkTypes DEF Work!RespondHandled
  <2>4. ASSUME NEW status \in {"ok", "error"}, Work!Respond(r, status)
        PROVE  /\ told' \in [Handlers -> {"nothing", "ok", "error"}]
               /\ UNCHANGED <<current, nesting, visible, code, due, writes, failures>>
               /\ stage[r] \in {"running", "raising", "answered"}
    BY <2>4, WorkTypes DEF Work!Respond
  <2> QED BY <2>1, <2>2, <2>3, <2>4
<1>3. code[r] # <<>> /\ Matches(code[r], nesting[r]["request"], nesting[r]["job"])
  BY <1>2, WorkFacts
<1>4. now = "answered" => Len(code[r]) = 1
  BY <1>1, <1>3, Shallower, WorkFacts
<1>5. stage'[r] = now /\ \A t \in Handlers : t # r => stage'[t] = stage[t]
  BY <1>1, WorkTypes
<1>6. BlocksAndLevels(r)'
  <2>1. current[r] = IF code[r] = <<>> THEN None
                     ELSE IF nesting[r]["job"] = <<>> THEN "request" ELSE "job"
    BY WorkFacts
  <2> QED BY <1>1, <1>2, <1>3, <1>4, <1>5, <2>1 DEF BlocksAndLevels
<1>7. stage' \in [Handlers -> {"new", "running", "raising", "answered", "closed"}]
  BY <1>1, WorkTypes
<1> QED BY <1>2, <1>5, <1>6, <1>7, WorkTypes, OneRequest

LEMMA WorkJobEnds ==
  ASSUME WorkInv, NEW r \in Handlers, Work!LeaveJob(r) \/ Work!JobRaises(r)
  PROVE  WorkInv'
<1> DEFINE q == nesting[r]["request"]
           j == nesting[r]["job"]
           last == Work!Last(code[r])
           c == Work!Front(code[r])
<1>1. /\ stage[r] \in {"running", "raising"} /\ last.kind = "job"
      /\ code' = [code EXCEPT ![r] = c]
      /\ nesting' = [nesting EXCEPT ![r]["job"] = <<>>]
      /\ current' = [current EXCEPT ![r] = "request"]
      /\ UNCHANGED <<told, writes>>
  BY DEF Work!LeaveJob, Work!JobRaises, Work!Innermost, Work!CloseJob, Work!SetLevels
<1>2. Matches(code[r], q, j) /\ code[r] # <<>>
  BY <1>1, WorkFacts
<1>3. Matches(c, q, <<>>) /\ c # <<>> /\ Len(j) = 1 /\ j[1] = last.rows /\ last \in Piece
  <2>1. stage[r] \notin {"new", "closed"}
    BY <1>1
  <2> QED BY <1>1, <2>1, Inner
<1>4. c \in Seq(Piece) /\ <<>> \in Seq(SUBSET Work!Writes)
  BY <1>3 DEF Matches
<1> HIDE DEF c
<1>5. /\ nesting' \in [Handlers -> [Work!SessionNames -> Seq(SUBSET Work!Writes)]]
      /\ code' \in [Handlers -> Seq(Piece)]
      /\ \A t \in Handlers : t # r => nesting'[t] = nesting[t] /\ code'[t] = code[t]
      /\ code'[r] = c /\ nesting'[r]["job"] = <<>> /\ nesting'[r]["request"] = q
  <2>1. PICK x \in Seq(SUBSET Work!Writes) : x = <<>>
    BY <1>4
  <2>2. nesting' = [nesting EXCEPT ![r]["job"] = x]
    BY <1>1, <2>1
  <2> QED BY <1>1, <1>4, <2>1, <2>2, Moved, WorkTypes
<1>6. /\ current' \in [Handlers -> Work!SessionNames \cup {None}] /\ current'[r] = "request"
      /\ \A t \in Handlers : t # r => current'[t] = current[t]
  BY <1>1, WorkTypes
<1>7. Work!All(j) = last.rows /\ last.rows \in SUBSET Work!Writes
  <2>1. DOMAIN j = {1}
    BY <1>3, WorkFacts
  <2> QED BY <1>3, <2>1 DEF Work!All, Piece
<1>8. /\ stage' \in [Handlers -> {"new", "running", "raising", "answered", "closed"}]
      /\ \A t \in Handlers : t # r => stage'[t] = stage[t]
      /\ stage'[r] \in {"running", "raising"}
      /\ failures' \in 0 .. MaxFailures
      /\ visible' \in SUBSET Work!Writes /\ visible' = due'
  <2>1. CASE Work!LeaveJob(r)
    <3>1. CASE UNCHANGED <<stage, failures>> /\ visible' = visible \cup last.rows
                 /\ due' = due \cup last.rows
      BY <1>1, <1>7, <3>1, WorkTypes
    <3>2. CASE /\ failures < MaxFailures /\ failures' = failures + 1
               /\ stage' = [stage EXCEPT ![r] = "raising"]
               /\ UNCHANGED <<visible, due>>
      BY <3>2, WorkTypes
    <3> QED BY <1>7, <2>1, <3>1, <3>2 DEF Work!LeaveJob, Work!Innermost
  <2>2. CASE Work!JobRaises(r)
    BY <1>1, <2>2, WorkTypes DEF Work!JobRaises
  <2> QED BY <2>1, <2>2
<1>9. BlocksAndLevels(r)'
  BY <1>3, <1>5, <1>6, <1>8 DEF BlocksAndLevels
<1> QED BY <1>1, <1>5, <1>6, <1>8, <1>9, WorkTypes, OneRequest

LEMMA WorkEnds ==
  ASSUME WorkInv, NEW r \in Handlers, Work!End(r) \/ Work!EndRaises(r)
  PROVE  WorkInv'
<1> DEFINE q == nesting[r]["request"]
           j == nesting[r]["job"]
           last == Work!Last(code[r])
<1>1. /\ stage[r] \in {"answered", "raising"}
      /\ stage[r] = "raising" => last.kind = "request"
      /\ stage' = [stage EXCEPT ![r] = "closed"]
      /\ code' = [code EXCEPT ![r] = <<>>]
      /\ current' = [current EXCEPT ![r] = None]
      /\ nesting' = [nesting EXCEPT ![r]["request"] = <<>>]
      /\ UNCHANGED writes
  BY DEF Work!End, Work!EndRaises, Work!Innermost, Work!Close, Work!SetLevels
<1>2. Matches(code[r], q, j) /\ code[r] # <<>>
  BY <1>1, WorkFacts
<1>3. /\ last \in Piece /\ Len(code[r]) = 1
      /\ last.kind = "request" => j = <<>> /\ Len(q) = 1 /\ q[1] = last.rows
  <2>1. stage[r] \notin {"new", "closed"}
    BY <1>1
  <2>2. /\ last \in Piece
        /\ last.kind = "request" =>
             Len(code[r]) = 1 /\ j = <<>> /\ Len(q) = 1 /\ q[1] = last.rows
    BY <2>1, Inner
  <2>3. stage[r] = "answered" => Len(code[r]) = 1
    BY WorkFacts
  <2> QED BY <1>1, <2>2, <2>3
<1>4. last.kind = "request"
  <2>1. last = code[r][1]
    <3>1. stage[r] \notin {"new", "closed"}
      BY <1>1
    <3>2. last = code[r][Len(code[r])]
      BY <3>1, Inner
    <3> QED BY <1>3, <3>2
  <2>2. Len(q) \in Nat \ {0} /\ \A i \in 1 .. Len(q) : code[r][i] = Level("request", i, q[i])
    <3> HIDE DEF q, j
    <3> QED BY <1>2, <1>3 DEF Matches
  <2>3. last = Level("request", 1, q[1])
    BY <2>1, <2>2
  <2> QED BY <2>3, Levels
<1>5. Work!All(q) = last.rows /\ last.rows \in SUBSET Work!Writes
  <2>1. DOMAIN q = {1}
    BY <1>3, <1>4, WorkFacts
  <2> QED BY <1>3, <1>4, <2>1 DEF Work!All, Piece
<1>6. /\ nesting' \in [Handlers -> [Work!SessionNames -> Seq(SUBSET Work!Writes)]]
      /\ code' \in [Handlers -> Seq(Piece)]
      /\ \A t \in Handlers : t # r => nesting'[t] = nesting[t] /\ code'[t] = code[t]
      /\ code'[r] = <<>> /\ nesting'[r]["request"] = <<>> /\ nesting'[r]["job"] = <<>>
  <2>0. <<>> \in Seq(SUBSET Work!Writes) /\ <<>> \in Seq(Piece)
    OBVIOUS
  <2>1. PICK x \in Seq(SUBSET Work!Writes) : x = <<>>
    BY <2>0
  <2>2. nesting' = [nesting EXCEPT ![r]["request"] = x]
    BY <1>1, <2>1
  <2>3. PICK c \in Seq(Piece) : c = <<>>
    BY <2>0
  <2>4. code' = [code EXCEPT ![r] = c]
    BY <1>1, <2>3
  <2> QED BY <1>3, <1>4, <2>1, <2>2, <2>3, <2>4, Moved, WorkTypes
<1>7. /\ current' \in [Handlers -> Work!SessionNames \cup {None}] /\ current'[r] = None
      /\ stage' \in [Handlers -> {"new", "running", "raising", "answered", "closed"}]
      /\ stage'[r] = "closed"
      /\ \A t \in Handlers : t # r => current'[t] = current[t] /\ stage'[t] = stage[t]
  BY <1>1, WorkTypes
<1>8. Matches(<<>>, <<>>, <<>>)
  <2>1. <<>> \in Seq(Piece) /\ <<>> \in Seq(SUBSET Work!Writes) /\ Len(<<>>) = 0
    OBVIOUS
  <2> QED BY <2>1 DEF Matches
<1>9. BlocksAndLevels(r)'
  BY <1>6, <1>7, <1>8 DEF BlocksAndLevels
<1>10. /\ told' \in [Handlers -> {"nothing", "ok", "error"}] /\ failures' \in 0 .. MaxFailures
       /\ visible' \in SUBSET Work!Writes /\ visible' = due'
  <2>1. CASE Work!End(r)
    <3>1. /\ visible' = IF told[r] = "ok" THEN visible \cup last.rows ELSE visible
          /\ due' = IF told[r] = "ok" THEN due \cup last.rows ELSE due
          /\ UNCHANGED <<told, failures>>
      BY <1>5, <2>1 DEF Work!End, Work!Commits, Work!Innermost
    <3> QED BY <1>5, <3>1, WorkTypes
  <2>2. CASE Work!EndRaises(r)
    BY <2>2, WorkTypes DEF Work!EndRaises
  <2> QED BY <2>1, <2>2
<1> QED BY <1>1, <1>6, <1>7, <1>9, <1>10, WorkTypes, OneRequest

LEMMA WorkInductive ==
  ASSUME WorkInv, [Work!Next]_Work!vars
  PROVE  WorkInv'
<1>1. CASE UNCHANGED Work!vars
  BY <1>1 DEF Work!vars, WorkInv, BlocksAndLevels
<1>2. CASE Work!Next
  BY <1>2, WorkBegins, WorkWrites, WorkEnters, WorkLeaves, WorkJobEnds, WorkRaises, WorkEnds
     DEF Work!Next
<1> QED BY <1>1, <1>2

LEMMA WorkIsSound ==
  ASSUME WorkInv
  PROVE  Work!VisibleAsWritten /\ Work!OwnSession
<1>1. ASSUME NEW r \in Handlers
      PROVE  IF stage[r] \in {"new", "closed"} THEN current[r] = None
             ELSE current[r] = IF "job" \in Work!KindsOf(r) THEN "job" ELSE "request"
  BY JobBlock, WorkFacts
<1> QED BY <1>1, WorkTypes DEF Work!VisibleAsWritten, Work!OwnSession

(***************************************************************************)
(* Pagination                                                              *)
(***************************************************************************)

LEMMA MultipliedUp ==
  ASSUME NEW m \in Nat, NEW n \in Nat, NEW d \in Nat, m <= n
  PROVE  m * d <= n * d
<1>1. PICK k \in Nat : n = m + k
  <2>1. n - m \in Nat /\ n = m + (n - m)
    OBVIOUS
  <2> QED BY <2>1
<1>2. n * d = m * d + k * d
  BY <1>1
<1>3. k * d \in Nat /\ m * d \in Nat
  BY <1>1
<1> QED BY <1>2, <1>3

(* -(-total // per_page) pages hold the rows, and no page less does.       *)
LEMMA Ceiling ==
  ASSUME NEW p \in Nat, NEW n \in Nat, NEW d \in Nat \ {0}
  PROVE  p < (n + d - 1) \div d <=> p * d < n
<1>1. PICK k \in Nat : k = (n + d - 1) \div d
  <2>1. n + d - 1 \in Nat
    OBVIOUS
  <2> QED BY <2>1
<1>2. k * d <= n + d - 1 /\ n + d - 1 < (k + 1) * d
  <2>1. PICK r \in 0 .. d - 1 : n + d - 1 = d * k + r
    BY <1>1
  <2>2. (k + 1) * d = d * k + d /\ k * d = d * k /\ d * k \in Nat
    OBVIOUS
  <2> QED BY <2>1, <2>2
<1>3. (p + 1) * d = p * d + d /\ p * d \in Nat /\ k * d \in Nat /\ (k + 1) * d = k * d + d
  OBVIOUS
<1>4. ASSUME p < k PROVE p * d < n
  <2>1. p + 1 <= k
    BY <1>4
  <2>2. (p + 1) * d <= k * d
    BY <2>1, MultipliedUp
  <2> QED BY <1>2, <1>3, <2>2
<1>5. ASSUME k <= p PROVE n <= p * d
  <2>1. k * d <= p * d
    BY <1>5, MultipliedUp
  <2> QED BY <1>2, <1>3, <2>1
<1> QED BY <1>1, <1>3, <1>4, <1>5

LEMMA Inserted ==
  ASSUME NEW S, NEW s \in Seq(S), NEW e \in S, NEW p \in 1 .. Len(s) + 1
  PROVE  LET t == Listing!InsertAt(s, p, e)
         IN  /\ t \in Seq(S) /\ Len(t) = Len(s) + 1 /\ t[p] = e
             /\ \A i \in 1 .. p - 1 : t[i] = s[i]
             /\ \A i \in p .. Len(s) : t[i + 1] = s[i]
<1>1. /\ SubSeq(s, 1, p - 1) \in Seq(S) /\ SubSeq(s, p, Len(s)) \in Seq(S)
      /\ <<e>> \in Seq(S) /\ Len(<<e>>) = 1 /\ <<e>>[1] = e
      /\ Len(s) \in Nat /\ p \in Nat \ {0}
  OBVIOUS
<1>2. /\ Len(SubSeq(s, 1, p - 1)) = p - 1
      /\ \A i \in 1 .. p - 1 : SubSeq(s, 1, p - 1)[i] = s[i]
  <2>1. CASE p = 1
    BY <2>1, SubSeqEmpty
  <2>2. CASE p # 1
    <3>1. p - 1 \in 1 .. Len(s)
      BY <1>1, <2>2
    <3> QED BY <1>1, <3>1
  <2> QED BY <2>1, <2>2
<1>3. /\ Len(SubSeq(s, p, Len(s))) = Len(s) - p + 1
      /\ \A i \in 1 .. Len(s) - p + 1 : SubSeq(s, p, Len(s))[i] = s[p + i - 1]
  <2>1. CASE p = Len(s) + 1
    BY <1>1, <2>1, SubSeqEmpty
  <2>2. CASE p # Len(s) + 1
    <3>1. p \in 1 .. Len(s)
      BY <1>1, <2>2
    <3> QED BY <1>1, <3>1
  <2> QED BY <2>1, <2>2
<1> DEFINE u == SubSeq(s, 1, p - 1)
           v == SubSeq(s, p, Len(s))
           t == (u \o <<e>>) \o v
<1> HIDE DEF u, v
<1>4. /\ u \o <<e>> \in Seq(S) /\ Len(u \o <<e>>) = p
      /\ \A i \in 1 .. p - 1 : (u \o <<e>>)[i] = u[i]
      /\ (u \o <<e>>)[p] = e
  BY <1>1, <1>2 DEF u, v
<1>5. /\ t \in Seq(S) /\ Len(t) = Len(s) + 1
      /\ \A i \in 1 .. p : t[i] = (u \o <<e>>)[i]
      /\ \A i \in 1 .. Len(s) - p + 1 : t[p + i] = v[i]
  <2> DEFINE w == u \o <<e>>
  <2> HIDE DEF w
  <2>1. w \in Seq(S) /\ v \in Seq(S) /\ Len(w) = p /\ Len(v) = Len(s) - p + 1 /\ t = w \o v
    BY <1>1, <1>3, <1>4 DEF v, w
  <2> HIDE DEF t
  <2>2. t \in Seq(S) /\ Len(t) = p + (Len(s) - p + 1)
    BY <1>1, <2>1
  <2>3. \A i \in 1 .. p : t[i] = w[i]
    BY <1>1, <2>1
  <2>4. \A x \in 1 .. Len(w) + Len(v) :
          t[x] = IF x <= Len(w) THEN w[x] ELSE v[x - Len(w)]
    BY <2>1, ConcatProperties
  <2>5. ASSUME NEW i \in 1 .. Len(s) - p + 1 PROVE t[p + i] = v[i]
    <3> DEFINE x == p + i
    <3>1. /\ x \in 1 .. Len(w) + Len(v) /\ x - Len(w) = i /\ ~(x <= Len(w))
      BY <1>1, <2>1
    <3> HIDE DEF x
    <3>2. t[x] = v[i]
      BY <2>4, <3>1
    <3> QED BY <3>2 DEF x
  <2>6. Len(t) = Len(s) + 1
    BY <1>1, <2>2
  <2>7. \A i \in 1 .. Len(s) - p + 1 : t[p + i] = v[i]
    BY <2>5
  <2> QED BY <2>2, <2>3, <2>6, <2>7 DEF w
<1> HIDE DEF t
<1>6. ASSUME NEW i \in p .. Len(s) PROVE t[i + 1] = s[i]
  <2>1. i - p + 1 \in 1 .. Len(s) - p + 1 /\ p + (i - p + 1) = i + 1 /\ p + (i - p + 1) - 1 = i
    BY <1>1
  <2>2. t[i + 1] = v[i - p + 1]
    BY <1>5, <2>1
  <2>3. v[i - p + 1] = s[i]
    BY <1>3, <2>1 DEF v
  <2> QED BY <2>2, <2>3
<1>7. t[p] = e /\ \A i \in 1 .. p - 1 : t[i] = s[i]
  BY <1>1, <1>2, <1>4, <1>5 DEF u
<1> QED BY <1>5, <1>6, <1>7 DEF Listing!InsertAt, t, u, v

LEMMA Removed ==
  ASSUME NEW S, NEW s \in Seq(S), NEW p \in 1 .. Len(s)
  PROVE  LET t == Listing!RemoveAt(s, p)
         IN  /\ t \in Seq(S) /\ Len(t) = Len(s) - 1
             /\ \A i \in 1 .. p - 1 : t[i] = s[i]
             /\ \A i \in p .. Len(s) - 1 : t[i] = s[i + 1]
<1>1. /\ SubSeq(s, 1, p - 1) \in Seq(S) /\ SubSeq(s, p + 1, Len(s)) \in Seq(S)
      /\ Len(s) \in Nat \ {0} /\ p \in Nat \ {0}
  OBVIOUS
<1>2. /\ Len(SubSeq(s, 1, p - 1)) = p - 1
      /\ \A i \in 1 .. p - 1 : SubSeq(s, 1, p - 1)[i] = s[i]
  <2>1. CASE p = 1
    BY <2>1, SubSeqEmpty
  <2>2. CASE p # 1
    <3>1. p - 1 \in 1 .. Len(s)
      BY <1>1, <2>2
    <3> QED BY <1>1, <3>1
  <2> QED BY <2>1, <2>2
<1>3. /\ Len(SubSeq(s, p + 1, Len(s))) = Len(s) - p
      /\ \A i \in 1 .. Len(s) - p : SubSeq(s, p + 1, Len(s))[i] = s[p + i]
  <2>1. CASE p = Len(s)
    BY <1>1, <2>1, SubSeqEmpty
  <2>2. CASE p # Len(s)
    <3>1. p + 1 \in 1 .. Len(s)
      BY <1>1, <2>2
    <3>2. Len(SubSeq(s, p + 1, Len(s))) = Len(s) - (p + 1) + 1
      BY <1>1, <3>1
    <3>3. \A i \in 1 .. Len(s) - p : SubSeq(s, p + 1, Len(s))[i] = s[(p + 1) + i - 1]
      BY <1>1, <3>1
    <3> QED BY <1>1, <3>2, <3>3
  <2> QED BY <2>1, <2>2
<1> DEFINE u == SubSeq(s, 1, p - 1)
           v == SubSeq(s, p + 1, Len(s))
           t == u \o v
<1>4. u \in Seq(S) /\ v \in Seq(S) /\ Len(u) = p - 1 /\ Len(v) = Len(s) - p
  BY <1>1, <1>2, <1>3
<1> HIDE DEF u, v
<1>5. /\ t \in Seq(S) /\ Len(t) = Len(s) - 1
      /\ \A i \in 1 .. p - 1 : t[i] = u[i]
  <2>1. t \in Seq(S) /\ Len(t) = (p - 1) + (Len(s) - p)
    BY <1>4
  <2>2. \A i \in 1 .. Len(u) : t[i] = u[i]
    BY <1>4
  <2> QED BY <1>1, <1>4, <2>1, <2>2
<1>6. ASSUME NEW i \in p .. Len(s) - 1 PROVE t[i] = s[i + 1]
  <2>1. i - (p - 1) \in 1 .. Len(s) - p /\ i \in p .. (p - 1) + (Len(s) - p)
    BY <1>1
  <2>2. t[i] = v[i - (p - 1)]
    BY <1>1, <1>4, <2>1
  <2>3. v[i - (p - 1)] = s[p + (i - (p - 1))] /\ p + (i - (p - 1)) = i + 1
    BY <1>1, <1>3, <2>1 DEF v
  <2> QED BY <2>2, <2>3
<1> HIDE DEF t
<1> QED BY <1>2, <1>5, <1>6 DEF Listing!RemoveAt, t, u, v

-----------------------------------------------------------------------------
(* No row changes its place while ~shifted: what has been received is what *)
(* the listing begins with, as far as the pages go.                        *)
Walked ==
  /\ Len(items) <= Len(table) /\ \A i \in 1 .. Len(items) : items[i] = table[i]
  /\ walk # "done" => Len(items) = (page - 1) * perPage
  /\ page > 1 => (page - 1) * perPage < Len(table)
  /\ walk = "done" /\ page > 1 => (page - 1) * perPage < Len(items)
  /\ walk = "selecting" => total <= Len(table)
  /\ \E n \in 0 .. Len(table) :
       /\ first = {table[i] : i \in 1 .. n}
       /\ walk = "selecting" => n <= total
       /\ walk = "done" => n <= Len(items)

PageInv ==
  /\ table \in Seq(Listed) /\ Listing!IsInjective(table)
  /\ perPage \in Sizes /\ page \in Nat \ {0} /\ total \in Nat
  /\ walk \in {"counting", "selecting", "done"}
  /\ items \in Seq(Listed) /\ first \in SUBSET Listed
  /\ shifted \in BOOLEAN /\ changes \in 0 .. MaxChanges
  /\ ~shifted => Walked

LEMMA PageInit ==
  ASSUME Listing!Init
  PROVE  PageInv
<1> DEFINE all == Listing!SetToSeq(Listed)
           size == Cardinality(Listed)
<1>0. Listing!Cardinality(Listed) = size
  BY DEF Listing!Cardinality, Cardinality
<1>1. size \in Nat /\ ExistsBijection(1 .. size, Listed)
  BY ListingAssumption, FS_CardinalityType
<1>2. all \in [1 .. size -> Listed] /\ Listing!IsInjective(all)
  <2>1. PICK f : f \in Bijection(1 .. size, Listed)
    BY <1>1 DEF ExistsBijection
  <2>2. f \in [1 .. size -> Listed] /\ IsInjective(f)
    BY <2>1 DEF Bijection, Injection
  <2>3. Listing!IsInjective(f)
    BY <2>2 DEF IsInjective, Listing!IsInjective
  <2>4. \E g \in [1 .. size -> Listed] : Listing!IsInjective(g)
    BY <2>2, <2>3
  <2> QED BY <1>0, <2>4 DEF Listing!SetToSeq
<1>3. PICK n \in 0 .. size : table = SubSeq(all, 1, n)
  BY <1>0 DEF Listing!Init
<1> HIDE DEF all, size
<1>4. all \in Seq(Listed) /\ Len(all) = size
  BY <1>1, <1>2
<1>5. /\ table \in Seq(Listed) /\ Len(table) = n /\ \A i \in 1 .. n : table[i] = all[i]
  <2>1. CASE n = 0
    BY <1>3, <2>1, SubSeqEmpty
  <2>2. CASE n # 0
    <3>1. n \in 1 .. Len(all)
      BY <1>1, <1>4, <2>2
    <3>2. table \in Seq(Listed)
      BY <1>3, <1>4, <3>1
    <3> QED BY <1>3, <1>4, <3>1, <3>2
  <2> QED BY <2>1, <2>2
<1>6. Listing!IsInjective(table)
  <2>1. ASSUME NEW i \in 1 .. n, NEW k \in 1 .. n, table[i] = table[k] PROVE i = k
    <3>1. i \in 1 .. size /\ k \in 1 .. size /\ all[i] = all[k]
      BY <1>1, <1>5, <2>1
    <3> QED BY <1>2, <3>1 DEF Listing!IsInjective
  <2>2. DOMAIN table = 1 .. n
    BY <1>5
  <2> QED BY <2>1, <2>2 DEF Listing!IsInjective
<1>7. DOMAIN table = 1 .. n
  BY <1>5
<1>10. /\ perPage \in Sizes /\ page = 1 /\ total = 0 /\ walk = "counting" /\ items = <<>>
      /\ first = {table[i] : i \in 1 .. n} /\ shifted = FALSE /\ changes = 0
  BY <1>7 DEF Listing!Init, Listing!ToSet
<1>8. first \in SUBSET Listed
  BY <1>5, <1>10
<1>9. Walked
  <2>1. Len(items) = 0 /\ (page - 1) * perPage = 0 /\ items \in Seq(Listed)
    BY <1>10, ListingAssumption
  <2>2. n \in 0 .. Len(table) /\ n = Len(table)
    BY <1>1, <1>5
  <2>3. \E m \in 0 .. Len(table) :
          /\ first = {table[i] : i \in 1 .. m}
          /\ walk = "selecting" => m <= total
          /\ walk = "done" => m <= Len(items)
    BY <1>10, <2>2
  <2> QED BY <1>10, <2>1, <2>2, <2>3 DEF Walked
<1>11. MaxChanges \in Nat /\ items \in Seq(Listed) /\ page \in Nat \ {0} /\ total \in Nat
  BY <1>10, BoundsAssumption
<1>12. perPage \in Sizes /\ walk = "counting" /\ shifted \in BOOLEAN
  BY <1>10
<1>14. changes \in 0 .. MaxChanges
  BY <1>10, <1>11
<1>13. table \in Seq(Listed)
  BY <1>5
<1> HIDE DEF Walked
<1> QED BY <1>6, <1>8, <1>9, <1>11, <1>12, <1>13, <1>14 DEF PageInv

(* A new row that nothing else has, in a listing where all differ.         *)
LEMMA AllDiffer ==
  ASSUME NEW s \in Seq(Listed), Listing!IsInjective(s)
  PROVE  /\ \A e \in Listed, p \in 1 .. Len(s) + 1 :
              (\A i \in 1 .. Len(s) : s[i] # e) =>
                Listing!IsInjective(Listing!InsertAt(s, p, e))
         /\ \A p \in 1 .. Len(s) :
              /\ Listing!IsInjective(Listing!RemoveAt(s, p))
              /\ \A i \in 1 .. Len(s) - 1 : Listing!RemoveAt(s, p)[i] # s[p]
<1>0. /\ \A i, k \in 1 .. Len(s) : s[i] = s[k] => i = k
      /\ Len(s) \in Nat
  BY DEF Listing!IsInjective
<1>1. ASSUME NEW e \in Listed, NEW p \in 1 .. Len(s) + 1, \A i \in 1 .. Len(s) : s[i] # e
      PROVE  Listing!IsInjective(Listing!InsertAt(s, p, e))
  <2>1. PICK t : t = Listing!InsertAt(s, p, e)
    OBVIOUS
  <2>2. /\ t \in Seq(Listed) /\ Len(t) = Len(s) + 1 /\ t[p] = e
        /\ \A i \in 1 .. p - 1 : t[i] = s[i]
        /\ \A i \in p .. Len(s) : t[i + 1] = s[i]
    BY <2>1, Inserted
  <2>3. \A i \in 1 .. Len(s) + 1 : i # p =>
          \E k \in 1 .. Len(s) : t[i] = s[k] /\ i = IF k < p THEN k ELSE k + 1
    <3>1. ASSUME NEW i \in 1 .. Len(s) + 1, i < p
          PROVE  \E k \in 1 .. Len(s) : t[i] = s[k] /\ i = IF k < p THEN k ELSE k + 1
      <4>1. i \in 1 .. p - 1 /\ i \in 1 .. Len(s)
        BY <1>0, <3>1
      <4> QED BY <2>2, <3>1, <4>1
    <3>2. ASSUME NEW i \in 1 .. Len(s) + 1, i > p
          PROVE  \E k \in 1 .. Len(s) : t[i] = s[k] /\ i = IF k < p THEN k ELSE k + 1
      <4>1. i - 1 \in p .. Len(s) /\ i - 1 \in 1 .. Len(s) /\ (i - 1) + 1 = i
        BY <1>0, <3>2
      <4>2. t[i] = s[i - 1]
        BY <2>2, <4>1
      <4> QED BY <4>1, <4>2
    <3> QED BY <1>0, <3>1, <3>2
  <2>4. ASSUME NEW i \in 1 .. Len(s) + 1, NEW k \in 1 .. Len(s) + 1, t[i] = t[k]
        PROVE  i = k
    <3>1. CASE i = p /\ k # p
      BY <1>1, <2>2, <2>3, <2>4, <3>1
    <3>2. CASE i # p /\ k = p
      BY <1>1, <2>2, <2>3, <2>4, <3>2
    <3>3. CASE i # p /\ k # p
      <4>1. PICK x \in 1 .. Len(s) : t[i] = s[x] /\ i = IF x < p THEN x ELSE x + 1
        BY <2>3, <3>3
      <4>2. PICK y \in 1 .. Len(s) : t[k] = s[y] /\ k = IF y < p THEN y ELSE y + 1
        BY <2>3, <3>3
      <4>3. x = y
        BY <1>0, <2>4, <4>1, <4>2
      <4> QED BY <4>1, <4>2, <4>3
    <3> QED BY <3>1, <3>2, <3>3
  <2>5. DOMAIN t = 1 .. Len(s) + 1
    BY <2>2
  <2> QED BY <2>1, <2>4, <2>5 DEF Listing!IsInjective
<1>2. ASSUME NEW p \in 1 .. Len(s)
      PROVE  /\ Listing!IsInjective(Listing!RemoveAt(s, p))
             /\ \A i \in 1 .. Len(s) - 1 : Listing!RemoveAt(s, p)[i] # s[p]
  <2>1. PICK t : t = Listing!RemoveAt(s, p)
    OBVIOUS
  <2>2. /\ t \in Seq(Listed) /\ Len(t) = Len(s) - 1
        /\ \A i \in 1 .. p - 1 : t[i] = s[i]
        /\ \A i \in p .. Len(s) - 1 : t[i] = s[i + 1]
    BY <2>1, Removed
  <2>3. ASSUME NEW i \in 1 .. Len(s) - 1
        PROVE  \E k \in 1 .. Len(s) :
                 t[i] = s[k] /\ k # p /\ i = IF k < p THEN k ELSE k - 1
    <3>1. CASE i < p
      <4>1. i \in 1 .. p - 1 /\ i \in 1 .. Len(s)
        BY <1>0, <3>1
      <4> QED BY <2>2, <3>1, <4>1
    <3>2. CASE i >= p
      <4>1. i \in p .. Len(s) - 1 /\ i + 1 \in 1 .. Len(s) /\ (i + 1) - 1 = i /\ i + 1 > p
        BY <1>0, <3>2
      <4>2. t[i] = s[i + 1]
        BY <2>2, <4>1
      <4> QED BY <4>1, <4>2
    <3> QED BY <1>0, <3>1, <3>2
  <2>4. ASSUME NEW i \in 1 .. Len(s) - 1, NEW k \in 1 .. Len(s) - 1, t[i] = t[k]
        PROVE  i = k
    <3>1. PICK x \in 1 .. Len(s) : t[i] = s[x] /\ x # p /\ i = IF x < p THEN x ELSE x - 1
      BY <2>3
    <3>2. PICK y \in 1 .. Len(s) : t[k] = s[y] /\ y # p /\ k = IF y < p THEN y ELSE y - 1
      BY <2>3
    <3>3. x = y
      BY <1>0, <2>4, <3>1, <3>2
    <3> QED BY <3>1, <3>2, <3>3
  <2>5. DOMAIN t = 1 .. Len(s) - 1
    BY <1>0, <2>2
  <2>6. \A i \in 1 .. Len(s) - 1 : t[i] # s[p]
    BY <1>0, <2>3
  <2> QED BY <2>1, <2>4, <2>5, <2>6 DEF Listing!IsInjective
<1> QED BY <1>1, <1>2

(* A row is written: unless one left its place, the listing only grows.    *)
LEMMA Grows ==
  ASSUME PageInv, NEW next \in Seq(Listed), Listing!IsInjective(next), Listing!Write(next)
  PROVE  PageInv'
<1>1. /\ table' = next /\ changes' \in 0 .. MaxChanges
      /\ shifted' = (shifted \/ ~Listing!IsPrefix(table, next))
      /\ walk # "done"
      /\ UNCHANGED <<perPage, page, total, walk, items, first>>
  BY BoundsAssumption DEF Listing!Write, PageInv
<1>2. table' \in Seq(Listed) /\ Listing!IsInjective(table') /\ shifted' \in BOOLEAN
  BY <1>1 DEF PageInv
<1>3. ASSUME ~shifted' PROVE Walked'
  <2>1. ~shifted /\ Listing!IsPrefix(table, next)
    BY <1>1, <1>3
  <2>2. /\ table \in Seq(Listed) /\ Len(table) \in Nat /\ Len(next) \in Nat
        /\ Len(table) <= Len(next) /\ SubSeq(table, 1, Len(table)) = SubSeq(next, 1, Len(table))
    BY <2>1 DEF PageInv, Listing!IsPrefix
  <2>3. ASSUME NEW i \in 1 .. Len(table) PROVE table[i] = next[i]
    <3>1. Len(table) \in 1 .. Len(table) /\ Len(table) \in 1 .. Len(next)
      BY <2>2
    <3>2. SubSeq(table, 1, Len(table))[i] = table[i]
      BY <2>2, <3>1
    <3>3. SubSeq(next, 1, Len(table))[i] = next[i]
      BY <2>2, <3>1
    <3> QED BY <2>2, <3>2, <3>3
  <2>4. Walked
    BY <2>1 DEF PageInv
  <2>5. PICK n \in 0 .. Len(table) :
          first = {table[i] : i \in 1 .. n} /\ (walk = "selecting" => n <= total)
    BY <2>4 DEF Walked
  <2>6. n \in 0 .. Len(next) /\ first = {next[i] : i \in 1 .. n}
    <3>1. \A i \in 1 .. n : table[i] = next[i]
      BY <2>2, <2>3
    <3> QED BY <2>2, <2>5, <3>1
  <2>7. /\ Len(items) <= Len(next) /\ \A i \in 1 .. Len(items) : items[i] = next[i]
        /\ Len(items) = (page - 1) * perPage
        /\ page > 1 => (page - 1) * perPage < Len(next)
        /\ walk = "selecting" => total <= Len(next)
    <3>1. /\ Len(items) <= Len(table) /\ \A i \in 1 .. Len(items) : items[i] = table[i]
          /\ Len(items) = (page - 1) * perPage
          /\ page > 1 => Len(items) < Len(table)
          /\ walk = "selecting" => total <= Len(table)
      BY <1>1, <2>4 DEF Walked
    <3>2. Len(items) \in Nat /\ total \in Nat
      BY DEF PageInv
    <3> QED BY <2>2, <2>3, <3>1, <3>2
  <2>8. \E m \in 0 .. Len(next) :
          /\ first = {next[i] : i \in 1 .. m}
          /\ walk = "selecting" => m <= total
          /\ walk = "done" => m <= Len(items)
    BY <1>1, <2>5, <2>6
  <2> QED BY <1>1, <2>7, <2>8 DEF Walked
<1> QED BY <1>1, <1>2, <1>3 DEF PageInv

LEMMA Selected ==
  ASSUME PageInv, Listing!Select
  PROVE  PageInv'
<1> DEFINE from == (page - 1) * perPage
           upto == page * perPage
           end == IF upto < Len(table) THEN upto ELSE Len(table)
<1>1. /\ walk = "selecting" /\ items' = items \o SubSeq(table, from + 1, end)
      /\ UNCHANGED <<table, perPage, total, first, shifted, changes>>
      /\ IF page < Listing!TotalPages(total) THEN walk' = "counting" /\ page' = page + 1
                                             ELSE walk' = "done" /\ page' = page
  BY DEF Listing!Select, Listing!Items, Listing!HasNext
<1>2. /\ table \in Seq(Listed) /\ items \in Seq(Listed) /\ Len(table) \in Nat
      /\ Len(items) \in Nat /\ page \in Nat \ {0} /\ perPage \in Nat \ {0} /\ total \in Nat
  BY ListingAssumption DEF PageInv
<1>3. /\ from \in Nat /\ upto \in Nat /\ upto = from + perPage
      /\ (page + 1 - 1) * perPage = upto
  BY <1>2
<1>4. page < Listing!TotalPages(total) <=> upto < total
  BY <1>2, Ceiling DEF Listing!TotalPages
<1> HIDE DEF from, upto
<1>5. end \in Nat /\ end <= Len(table)
  BY <1>2, <1>3
<1>6. /\ page' \in Nat \ {0} /\ walk' \in {"counting", "done"}
  BY <1>1, <1>2
<1>7. SubSeq(table, from + 1, end) \in Seq(Listed)
  BY <1>2, <1>3, <1>5
<1>8. items' \in Seq(Listed)
  BY <1>1, <1>2, <1>7
<1>9. ASSUME ~shifted' PROVE Walked'
  <2>1. Walked /\ Len(items) = from /\ from <= Len(table) /\ (page > 1 => from < Len(table))
    BY <1>1, <1>9 DEF PageInv, Walked, from
  <2>2. PICK n \in 0 .. Len(table) :
          first = {table[i] : i \in 1 .. n} /\ n <= total /\ total <= Len(table)
    BY <1>1, <2>1 DEF Walked
  <2>3. from <= end
    BY <1>2, <1>3, <2>1
  <2>4. /\ Len(SubSeq(table, from + 1, end)) = end - from
        /\ \A i \in 1 .. end - from : SubSeq(table, from + 1, end)[i] = table[from + i]
    <3>1. CASE from = end
      BY <1>3, <1>5, <3>1, SubSeqEmpty
    <3>2. CASE from # end
      <4>1. from + 1 \in 1 .. Len(table) /\ end \in 1 .. Len(table) /\ from + 1 <= end
        BY <1>2, <1>3, <1>5, <2>3, <3>2
      <4>2. Len(SubSeq(table, from + 1, end)) = end - (from + 1) + 1
        BY <1>2, <4>1
      <4>3. \A i \in 1 .. end - from :
              SubSeq(table, from + 1, end)[i] = table[(from + 1) + i - 1]
        BY <1>2, <1>3, <1>5, <4>1
      <4> QED BY <1>3, <1>5, <4>2, <4>3
    <3> QED BY <3>1, <3>2
  <2>5. Len(items') = end /\ \A i \in 1 .. end : items'[i] = table[i]
    <3> DEFINE v == SubSeq(table, from + 1, end)
    <3> HIDE DEF v
    <3>1. /\ items' = items \o v /\ v \in Seq(Listed) /\ Len(v) = end - from
          /\ \A i \in 1 .. end - from : v[i] = table[from + i]
      BY <1>1, <1>7, <2>4 DEF v
    <3>2. /\ Len(items') = Len(items) + Len(v)
          /\ \A x \in 1 .. Len(items) + Len(v) :
               items'[x] = IF x <= Len(items) THEN items[x] ELSE v[x - Len(items)]
      BY <1>2, <3>1, ConcatProperties
    <3>3. Len(items) + Len(v) = end
      BY <1>3, <1>5, <2>1, <3>1
    <3>4. ASSUME NEW x \in 1 .. end PROVE items'[x] = table[x]
      <4>1. CASE x <= from
        BY <1>2, <1>3, <2>1, <3>2, <3>3, <4>1 DEF Walked
      <4>2. CASE ~(x <= from)
        <5>1. x - from \in 1 .. end - from /\ from + (x - from) = x
          BY <1>3, <1>5, <4>2
        <5>2. items'[x] = v[x - from]
          BY <2>1, <3>2, <3>3, <4>2
        <5> QED BY <3>1, <5>1, <5>2
      <4> QED BY <4>1, <4>2
    <3> QED BY <3>2, <3>3, <3>4
  <2>6. CASE page < Listing!TotalPages(total)
    <3>1. upto < total /\ walk' = "counting" /\ page' = page + 1
      BY <1>1, <1>4, <2>6
    <3>2. end = upto /\ upto < Len(table)
      BY <1>2, <1>3, <2>2, <3>1
    <3>3. (page' - 1) * perPage' = upto
      <4>1. page' - 1 = page /\ perPage' = perPage
        BY <1>1, <1>2, <3>1
      <4> QED BY <4>1 DEF upto
    <3> QED BY <1>1, <1>5, <2>2, <2>5, <3>1, <3>2, <3>3 DEF Walked
  <2>7. CASE ~(page < Listing!TotalPages(total))
    <3>1. ~(upto < total) /\ walk' = "done" /\ page' = page
      BY <1>1, <1>4, <2>7
    <3>2. n <= end
      BY <1>2, <1>3, <2>2, <3>1
    <3>3. (page' - 1) * perPage' = from
      BY <1>1, <3>1 DEF from
    <3>4. page > 1 => from < end
      BY <1>2, <1>3, <2>1
    <3> QED BY <1>1, <1>5, <2>1, <2>2, <2>5, <3>1, <3>2, <3>3, <3>4 DEF Walked
  <2> QED BY <2>6, <2>7
<1> QED BY <1>1, <1>6, <1>8, <1>9 DEF PageInv

LEMMA PageInductive ==
  ASSUME PageInv, [Listing!Next]_Listing!vars
  PROVE  PageInv'
<1>0. /\ table \in Seq(Listed) /\ Listing!IsInjective(table) /\ Len(table) \in Nat
      /\ DOMAIN table = 1 .. Len(table)
  BY DEF PageInv
<1>1. CASE UNCHANGED Listing!vars
  BY <1>1 DEF Listing!vars, PageInv, Walked
<1>2. CASE Listing!Count
  <2>1. /\ walk = "counting" /\ walk' = "selecting" /\ total' = Len(table)
        /\ UNCHANGED <<table, perPage, page, items, first, shifted, changes>>
    BY <1>2 DEF Listing!Count
  <2>2. ~shifted => Walked'
    BY <1>0, <2>1 DEF PageInv, Walked
  <2> QED BY <1>0, <2>1, <2>2 DEF PageInv
<1>3. CASE Listing!Select
  BY <1>3, Selected
<1>4. ASSUME NEW p \in 1 .. Len(table) + 1, NEW id \in Listed, Listing!Insert(id, p)
      PROVE  PageInv'
  <2>1. \A i \in 1 .. Len(table) : table[i] # id
    BY <1>0, <1>4 DEF Listing!Insert, Listing!ToSet
  <2>2. /\ Listing!InsertAt(table, p, id) \in Seq(Listed)
        /\ Listing!IsInjective(Listing!InsertAt(table, p, id))
    BY <1>0, <2>1, Inserted, AllDiffer
  <2>3. Listing!Write(Listing!InsertAt(table, p, id))
    BY <1>4 DEF Listing!Insert
  <2> QED BY <2>2, <2>3, Grows
<1>5. ASSUME NEW p \in DOMAIN table, Listing!Delete(p) PROVE PageInv'
  <2>1. /\ Listing!RemoveAt(table, p) \in Seq(Listed)
        /\ Listing!IsInjective(Listing!RemoveAt(table, p))
    BY <1>0, Removed, AllDiffer
  <2>2. Listing!Write(Listing!RemoveAt(table, p))
    BY <1>5 DEF Listing!Delete
  <2> QED BY <2>1, <2>2, Grows
<1>6. ASSUME NEW p \in DOMAIN table, NEW o \in DOMAIN table, Listing!Update(p, o)
      PROVE  PageInv'
  <2>1. PICK t : t = Listing!RemoveAt(table, p)
    BY Zenon
  <2>2. /\ t \in Seq(Listed) /\ Listing!IsInjective(t) /\ Len(t) = Len(table) - 1
        /\ \A i \in 1 .. Len(table) - 1 : t[i] # table[p]
    BY <1>0, <2>1, Removed, AllDiffer
  <2>3. o \in 1 .. Len(t) + 1 /\ table[p] \in Listed
    BY <1>0, <2>2
  <2>4. /\ Listing!InsertAt(t, o, table[p]) \in Seq(Listed)
        /\ Listing!IsInjective(Listing!InsertAt(t, o, table[p]))
    BY <2>2, <2>3, Inserted, AllDiffer
  <2>5. Listing!Write(Listing!InsertAt(t, o, table[p]))
    BY <1>6, <2>1 DEF Listing!Update
  <2> QED BY <2>4, <2>5, Grows
<1> QED BY <1>1, <1>2, <1>3, <1>4, <1>5, <1>6 DEF Listing!Next

LEMMA WalksMeetAll ==
  ASSUME PageInv
  PROVE  Listing!WalkMeetsAll
<1> SUFFICES ASSUME ~shifted
             PROVE  /\ Listing!IsInjective(items)
                    /\ walk = "done" => first \subseteq Listing!ToSet(items)
                    /\ walk = "done" /\ page > 1 => Len(items) > (page - 1) * perPage
  BY DEF Listing!WalkMeetsAll
<1>1. /\ table \in Seq(Listed) /\ items \in Seq(Listed) /\ Len(table) \in Nat /\ Len(items) \in Nat
      /\ Len(items) <= Len(table) /\ \A i \in 1 .. Len(items) : items[i] = table[i]
      /\ \A i, k \in 1 .. Len(table) : table[i] = table[k] => i = k
      /\ DOMAIN items = 1 .. Len(items)
  BY DEF PageInv, Walked, Listing!IsInjective
<1>2. Listing!IsInjective(items)
  BY <1>1 DEF Listing!IsInjective
<1>3. ASSUME walk = "done" PROVE first \subseteq Listing!ToSet(items)
  <2>1. PICK n \in 0 .. Len(table) : first = {table[i] : i \in 1 .. n} /\ n <= Len(items)
    BY <1>3 DEF PageInv, Walked
  <2>2. \A i \in 1 .. n : i \in DOMAIN items /\ table[i] = items[i]
    BY <1>1, <2>1
  <2> QED BY <2>1, <2>2 DEF Listing!ToSet
<1>4. walk = "done" /\ page > 1 => Len(items) > (page - 1) * perPage
  <2>1. perPage \in Nat /\ page \in Nat
    BY ListingAssumption DEF PageInv
  <2>2. (page - 1) * perPage \in Int
    BY <2>1
  <2>3. walk = "done" /\ page > 1 => (page - 1) * perPage < Len(items)
    BY DEF PageInv, Walked
  <2> QED BY <1>1, <2>2, <2>3
<1> QED BY <1>2, <1>3, <1>4

(***************************************************************************)
(* Schedule                                                                *)
(***************************************************************************)

(* A set of numbers has a least one.                                       *)
LEMMA Least ==
  ASSUME NEW T \in SUBSET Nat, T # {}
  PROVE  \E n \in T : \A k \in T : n <= k
<1>1. PICK n \in T : \A k \in T : <<k, n>> \notin OpToRel(<, Nat)
  BY WFMin, NatLessThanWellFounded, Zenon
<1>2. \A k \in T : ~(k < n)
  BY <1>1, Zenon DEF OpToRel
<1> QED BY <1>2

LEMMA FirstPlace ==
  ASSUME NEW places \in SUBSET DOMAIN Events, places # {}
  PROVE  Cron!Earliest(places) \in places
<1>1. places \in SUBSET Nat
  BY CronAssumption
<1>2. \E i \in places : \A k \in places : i <= k
  BY <1>1, Least
<1> QED BY <1>2 DEF Cron!Earliest

Minutes == FirstMinute .. LastMinute
Phases == {"none", "loading", "between", "running", "done", "dead"}

CronTypes ==
  /\ present \in Minutes /\ process \in [Minutes -> Phases]
  /\ clock \in [Minutes -> Minutes] /\ agenda \in [Minutes -> SUBSET DOMAIN Events]
  /\ handled \in [Minutes -> SUBSET Cron!EventSet]
  /\ expires \in [Cron!EventSet -> Nat] /\ starts \in [Cron!EventSet -> Seq(Minutes)]
  /\ crashes \in 0 .. MaxKilled

(* What a process has handled and what it has still to run are what is due.*)
Shared(m) ==
  DueAt[clock[m]] = handled[m] \cup {Events[i] : i \in agenda[m]}
Dues ==
  \A m \in Minutes :
    /\ process[m] \in {"none", "loading"} => handled[m] = {}
    /\ process[m] \in {"between", "running"} => Shared(m)
    /\ process[m] = "running" => agenda[m] # {} /\ Cron!Upcoming(m) \in handled[m]
    /\ process[m] = "done" => handled[m] = DueAt[clock[m]]

(* The key of an event does not expire within a window of its last start.  *)
KeysKept ==
  \A e \in Cron!EventSet :
    LET n == Len(starts[e]) IN
      n > 0 => starts[e][n] <= present /\ starts[e][n] + OverlapOf[e] <= expires[e]

CronInv == CronTypes /\ Dues /\ KeysKept /\ Cron!StartsApart

LEMMA CronNames ==
  /\ Cron!MinuteSet = Minutes /\ Minutes \subseteq Nat
  /\ \A i \in DOMAIN Events : Events[i] \in Cron!EventSet
  /\ \A e \in Cron!EventSet : OverlapOf[e] \in Nat
BY CronAssumption DEF Cron!MinuteSet, Minutes, Cron!EventSet

LEMMA CronInit ==
  ASSUME Cron!Init
  PROVE  CronInv
<1>1. Cron!MinuteSet = Minutes /\ FirstMinute \in Minutes
  BY CronAssumption DEF Cron!MinuteSet, Minutes
<1>2. CronTypes
  BY <1>1, CronAssumption DEF Cron!Init, CronTypes, Phases
<1> QED BY <1>1, <1>2 DEF Cron!Init, CronInv, Dues, KeysKept, Cron!StartsApart

LEMMA CronReads ==
  ASSUME CronInv, NEW m \in Minutes, Cron!ReadClock(m)
  PROVE  CronInv'
<1> USE DEF CronInv
<1>1. PICK ones : ones = {i \in DOMAIN Events : Cron!CronMatches(Crontab[Events[i]], Cron!At(present))}
  OBVIOUS
<1>2. /\ clock' = [clock EXCEPT ![m] = present] /\ agenda' = [agenda EXCEPT ![m] = ones]
      /\ process[m] = "loading" /\ process' = [process EXCEPT ![m] = "between"]
      /\ UNCHANGED <<present, handled, expires, starts, crashes>>
  BY <1>1 DEF Cron!ReadClock, Cron!Become
<1>3. DueAt[present] = {Events[i] : i \in ones}
  <2>1. DueAt[present] = {e \in Cron!EventSet : Cron!CronMatches(Crontab[e], Cron!At(present))}
    BY CronAssumption, CronNames DEF CronTypes
  <2>2. Cron!EventSet = {Events[i] : i \in DOMAIN Events}
    BY DEF Cron!EventSet
  <2> QED BY <1>1, <2>1, <2>2
<1>4. CronTypes'
  BY <1>1, <1>2 DEF CronTypes, Phases
<1>5. Dues'
  BY <1>2, <1>3 DEF Dues, CronTypes, Shared, Cron!Upcoming
<1> QED BY <1>2, <1>4, <1>5 DEF KeysKept, Cron!StartsApart

(* The first on the list is handled, before it is taken from the list.     *)
LEMMA UpcomingIs ==
  ASSUME CronTypes, NEW m \in Minutes, agenda[m] # {}
  PROVE  /\ Cron!Upcoming(m) \in Cron!EventSet
         /\ Cron!Others(m) \in SUBSET DOMAIN Events
         /\ {Events[i] : i \in agenda[m]} =
              {Cron!Upcoming(m)} \cup {Events[i] : i \in Cron!Others(m)}
<1>1. Cron!Earliest(agenda[m]) \in agenda[m] /\ agenda[m] \in SUBSET DOMAIN Events
  BY FirstPlace DEF CronTypes
<1> QED BY <1>1, CronNames DEF Cron!Upcoming, Cron!Others

LEMMA CronStarts ==
  ASSUME CronInv, NEW m \in Minutes, Cron!StartEvent(m)
  PROVE  CronInv'
<1> USE DEF CronInv
<1>1. PICK e : e = Cron!Upcoming(m)
  OBVIOUS
<1>2. /\ process[m] = "between" /\ agenda[m] # {} /\ process' = [process EXCEPT ![m] = "running"]
      /\ Cron!Allowed(e)
      /\ handled' = [handled EXCEPT ![m] = handled[m] \cup {e}]
      /\ starts' = [starts EXCEPT ![e] = Append(starts[e], present)]
      /\ expires' = [expires EXCEPT ![e] = present + OverlapOf[e]]
      /\ UNCHANGED <<present, clock, agenda, crashes>>
  BY <1>1 DEF Cron!StartEvent, Cron!Become, Cron!Handle
<1>3. /\ e \in Cron!EventSet /\ OverlapOf[e] \in Nat /\ present \in Nat
      /\ e \in {Events[i] : i \in agenda[m]}
  BY <1>1, <1>2, UpcomingIs, CronNames DEF CronTypes
<1>4. CronTypes'
  <2>1. Append(starts[e], present) \in Seq(Minutes) /\ present + OverlapOf[e] \in Nat
    BY <1>3 DEF CronTypes
  <2>2. starts' \in [Cron!EventSet -> Seq(Minutes)] /\ expires' \in [Cron!EventSet -> Nat]
    BY <1>2, <2>1 DEF CronTypes
  <2> QED BY <1>2, <1>3, <2>2 DEF CronTypes, Phases
<1>5. Dues'
  <2>1. Cron!Upcoming(m)' = e
    BY <1>1, <1>2 DEF Cron!Upcoming
  <2>2. DueAt[clock[m]] = handled'[m] \cup {Events[i] : i \in agenda[m]}
    BY <1>2, <1>3 DEF Dues, CronTypes, Shared
  <2>3. ASSUME NEW k \in Minutes, k # m
        PROVE  /\ process'[k] = process[k] /\ handled'[k] = handled[k] /\ agenda'[k] = agenda[k]
               /\ clock'[k] = clock[k]
    BY <1>2, <2>3 DEF CronTypes
  <2>4. ASSUME NEW k \in Minutes
        PROVE  /\ process'[k] \in {"none", "loading"} => handled'[k] = {}
               /\ process'[k] \in {"between", "running"} =>
                    DueAt[clock'[k]] = handled'[k] \cup {Events[i] : i \in agenda'[k]}
               /\ process'[k] = "running" =>
                    agenda'[k] # {} /\ Events[Cron!Earliest(agenda'[k])] \in handled'[k]
               /\ process'[k] = "done" => handled'[k] = DueAt[clock'[k]]
    <3>1. CASE k = m
      BY <1>1, <1>2, <2>2, <3>1 DEF CronTypes, Cron!Upcoming
    <3>2. CASE k # m
      BY <2>3, <3>2 DEF Dues, Shared, Cron!Upcoming
    <3> QED BY <3>1, <3>2
  <2> QED BY <2>4 DEF Dues, Shared, Cron!Upcoming
<1>6. /\ starts[e] \in Seq(Minutes) /\ Len(starts[e]) \in Nat
      /\ Len(starts'[e]) = Len(starts[e]) + 1 /\ starts'[e][Len(starts[e]) + 1] = present
      /\ \A i \in 1 .. Len(starts[e]) : starts'[e][i] = starts[e][i]
      /\ \A o \in Cron!EventSet \ {e} : starts'[o] = starts[o] /\ expires'[o] = expires[o]
      /\ expires'[e] = present + OverlapOf[e]
  BY <1>2, <1>3 DEF CronTypes
<1>7. KeysKept'
  BY <1>2, <1>3, <1>6 DEF KeysKept
<1>8. Len(starts[e]) > 0 => present >= starts[e][Len(starts[e])] + OverlapOf[e]
  <2>1. \A n \in 1 .. Len(starts[e]) : starts[e][n] \in Nat
    <3>1. Minutes \subseteq Nat
      BY CronNames
    <3> QED BY <1>6, <3>1, ElementOfSeq
  <2>2. Len(starts[e]) > 0 =>
          /\ starts[e][Len(starts[e])] <= present
          /\ starts[e][Len(starts[e])] + OverlapOf[e] <= expires[e]
    BY <1>3 DEF KeysKept
  <2>3. OverlapOf[e] = 0 \/ expires[e] <= present
    BY <1>2 DEF Cron!Allowed
  <2>4. expires[e] \in Nat
    BY <1>3 DEF CronTypes
  <2>5. ASSUME NEW n \in Nat, n <= present, n + OverlapOf[e] <= expires[e]
        PROVE  present >= n + OverlapOf[e]
    BY <1>3, <2>3, <2>4, <2>5
  <2> QED BY <1>6, <2>1, <2>2, <2>5
<1>9. Cron!StartsApart'
  <2> SUFFICES ASSUME NEW o \in Cron!EventSet, NEW i \in 1 .. Len(starts'[o]) - 1
               PROVE  starts'[o][i + 1] >= starts'[o][i] + OverlapOf[o]
    BY DEF Cron!StartsApart
  <2>1. CASE o # e
    BY <1>6, <2>1 DEF Cron!StartsApart
  <2>2. CASE o = e /\ i = Len(starts[e])
    BY <1>6, <1>8, <2>2
  <2>3. CASE o = e /\ i # Len(starts[e])
    <3>1. i \in 1 .. Len(starts[e]) - 1 /\ i + 1 \in 1 .. Len(starts[e])
      BY <1>6, <2>3
    <3> QED BY <1>6, <2>3, <3>1 DEF Cron!StartsApart
  <2> QED BY <2>1, <2>2, <2>3
<1> QED BY <1>4, <1>5, <1>7, <1>9

(* Keys that expire later keep the starts as far apart.                    *)
LEMMA KeysLast ==
  ASSUME CronTypes, KeysKept, expires' \in [Cron!EventSet -> Nat],
         \A e \in Cron!EventSet : expires[e] <= expires'[e],
         starts' = starts, present' \in Minutes, present <= present'
  PROVE  KeysKept'
<1>1. present \in Nat /\ present' \in Nat
  BY CronNames DEF CronTypes
<1>2. ASSUME NEW e \in Cron!EventSet, Len(starts[e]) > 0
      PROVE  starts[e][Len(starts[e])] \in Nat
  <2>1. starts[e] \in Seq(Minutes) /\ Len(starts[e]) \in 1 .. Len(starts[e])
    BY <1>2 DEF CronTypes
  <2>2. starts[e][Len(starts[e])] \in Minutes
    BY <2>1, ElementOfSeq
  <2> QED BY <2>2, CronNames
<1>3. \A e \in Cron!EventSet : expires[e] \in Nat /\ expires'[e] \in Nat /\ OverlapOf[e] \in Nat
  BY CronNames DEF CronTypes
<1>4. ASSUME NEW e \in Cron!EventSet, Len(starts[e]) > 0
      PROVE  /\ starts[e][Len(starts[e])] <= present'
             /\ starts[e][Len(starts[e])] + OverlapOf[e] <= expires'[e]
  <2>1. PICK n \in Nat : n = starts[e][Len(starts[e])]
    BY <1>2, <1>4
  <2>2. n <= present /\ n + OverlapOf[e] <= expires[e]
    BY <1>4, <2>1 DEF KeysKept
  <2>3. expires[e] \in Nat /\ expires'[e] \in Nat /\ OverlapOf[e] \in Nat
    BY <1>3
  <2>4. expires[e] <= expires'[e] /\ present <= present'
    OBVIOUS
  <2>5. n <= present' /\ n + OverlapOf[e] <= expires'[e]
    BY <1>1, <2>2, <2>3, <2>4
  <2> QED BY <2>1, <2>5
<1>5. starts' = starts
  OBVIOUS
<1>6. ASSUME NEW e \in Cron!EventSet, Len(starts'[e]) > 0
      PROVE  /\ starts'[e][Len(starts'[e])] <= present'
             /\ starts'[e][Len(starts'[e])] + OverlapOf[e] <= expires'[e]
  BY <1>4, <1>5, <1>6
<1> QED BY <1>6 DEF KeysKept

(* What a hit() leaves that is cut short expires no earlier.               *)
LEMMA CutShortLasts ==
  ASSUME CronTypes, NEW e \in Cron!EventSet, expires' \in Cron!CutShort(e)
  PROVE  /\ expires' \in [Cron!EventSet -> Nat]
         /\ \A o \in Cron!EventSet : expires[o] <= expires'[o]
<1>1. present \in Nat /\ present <= LastMinute /\ LastMinute \in Nat /\ OverlapOf[e] \in Nat
  BY CronNames, CronAssumption DEF CronTypes, Minutes
<1>2. expires \in [Cron!EventSet -> Nat]
  BY DEF CronTypes
<1>3. CASE expires' = expires
  BY <1>2, <1>3
<1>4. ASSUME NEW t \in {present + OverlapOf[e], Cron!Never(e)}, Cron!Allowed(e), OverlapOf[e] > 0,
             expires' = [expires EXCEPT ![e] = t]
      PROVE  /\ expires' \in [Cron!EventSet -> Nat]
             /\ \A o \in Cron!EventSet : expires[o] <= expires'[o]
  <2>1. t \in Nat /\ present <= t
    BY <1>1 DEF Cron!Never
  <2>2. expires[e] <= present
    BY <1>1, <1>4 DEF Cron!Allowed
  <2>3. expires[e] <= t
    BY <1>1, <1>2, <2>1, <2>2
  <2> QED BY <1>2, <1>4, <2>1, <2>3
<1> QED BY <1>3, <1>4 DEF Cron!CutShort

(* Whoever leaves the upcoming event behind has handled it.                *)
LEMMA CronGoesOn ==
  ASSUME CronInv, NEW m \in Minutes,
         \/ Cron!SkipEvent(m) \/ Cron!HitFails(m)
         \/ \E fails \in BOOLEAN : Cron!EndEvent(m, fails)
  PROVE  CronInv'
<1> USE DEF CronInv
<1>1. PICK e : e = Cron!Upcoming(m)
  OBVIOUS
<1>2. /\ process[m] \in {"between", "running"} /\ process' = [process EXCEPT ![m] = "between"]
      /\ agenda[m] # {} /\ agenda' = [agenda EXCEPT ![m] = Cron!Others(m)]
      /\ handled' = [handled EXCEPT ![m] = handled[m] \cup {e}]
      /\ UNCHANGED <<present, clock, starts, crashes>>
      /\ expires' \in Cron!CutShort(e)
  <2>1. ASSUME Cron!SkipEvent(m) \/ Cron!HitFails(m)
        PROVE  /\ handled' = [handled EXCEPT ![m] = handled[m] \cup {e}]
               /\ process[m] = "between" /\ process' = [process EXCEPT ![m] = "between"]
    <3>1. handled' = [handled EXCEPT ![m] = handled[m] \cup {e}] /\ process[m] = "between"
      BY <1>1, <2>1 DEF Cron!SkipEvent, Cron!HitFails, Cron!Handle
    <3>2. process' = process
      BY <2>1 DEF Cron!SkipEvent, Cron!HitFails
    <3>3. process' = [process EXCEPT ![m] = "between"]
      BY <3>1, <3>2 DEF CronTypes
    <3> QED BY <3>1, <3>3
  <2>2. ASSUME NEW fails \in BOOLEAN, Cron!EndEvent(m, fails)
        PROVE  handled' = [handled EXCEPT ![m] = handled[m] \cup {e}]
    BY <1>1, <2>2 DEF Cron!EndEvent, Dues, CronTypes
  <2>3. expires' \in Cron!CutShort(e)
    BY <1>1 DEF Cron!EndEvent, Cron!SkipEvent, Cron!HitFails, Cron!CutShort
  <2> QED BY <2>1, <2>2, <2>3
          DEF Cron!EndEvent, Cron!SkipEvent, Cron!HitFails, Cron!Become, Dues, CronTypes
<1>3. /\ e \in Cron!EventSet /\ Cron!Others(m) \in SUBSET DOMAIN Events
      /\ {Events[i] : i \in agenda[m]} = {e} \cup {Events[i] : i \in Cron!Others(m)}
  BY <1>1, <1>2, UpcomingIs
<1>4. /\ expires' \in [Cron!EventSet -> Nat]
      /\ \A o \in Cron!EventSet : expires[o] <= expires'[o]
  BY <1>2, <1>3, CutShortLasts
<1>5. CronTypes'
  BY <1>2, <1>3, <1>4 DEF CronTypes, Phases
<1>6. Dues'
  <2>1. DueAt[clock[m]] = handled[m] \cup {e} \cup {Events[i] : i \in Cron!Others(m)}
    BY <1>2, <1>3 DEF Dues, Shared
  <2>2. ASSUME NEW k \in Minutes
        PROVE  /\ process'[k] \in {"none", "loading"} => handled'[k] = {}
               /\ process'[k] \in {"between", "running"} =>
                    DueAt[clock'[k]] = handled'[k] \cup {Events[i] : i \in agenda'[k]}
               /\ process'[k] = "running" =>
                    agenda'[k] # {} /\ Events[Cron!Earliest(agenda'[k])] \in handled'[k]
               /\ process'[k] = "done" => handled'[k] = DueAt[clock'[k]]
    <3>1. CASE k = m
      BY <1>2, <2>1, <3>1 DEF CronTypes
    <3>2. CASE k # m
      <4>1. /\ process'[k] = process[k] /\ handled'[k] = handled[k] /\ agenda'[k] = agenda[k]
            /\ clock'[k] = clock[k]
        BY <1>2, <3>2 DEF CronTypes
      <4> QED BY <4>1 DEF Dues, Shared, Cron!Upcoming
    <3> QED BY <3>1, <3>2
  <2> QED BY <2>2 DEF Dues, Shared, Cron!Upcoming
<1>7. KeysKept'
  <2>1. present' \in Minutes /\ present <= present'
    BY <1>2, CronNames DEF CronTypes
  <2> QED BY <1>2, <1>4, <2>1, KeysLast
<1> QED BY <1>2, <1>5, <1>6, <1>7 DEF Cron!StartsApart

LEMMA CronRest ==
  ASSUME CronInv,
         \/ Cron!Tick \/ Cron!Spawn \/ UNCHANGED Cron!vars
         \/ \E m \in Minutes : Cron!Exit(m) \/ Cron!Crash(m)
  PROVE  CronInv'
<1> USE DEF CronInv
<1>0. /\ expires' \in [Cron!EventSet -> Nat]
      /\ \A e \in Cron!EventSet : expires[e] <= expires'[e]
  <2>1. CASE expires' = expires
    BY <2>1 DEF CronTypes
  <2>2. CASE expires' # expires
    <3>1. PICK m \in Minutes : agenda[m] # {} /\ expires' \in Cron!CutShort(Cron!Upcoming(m))
      BY <2>2 DEF Cron!Tick, Cron!Spawn, Cron!vars, Cron!Exit, Cron!Crash
    <3> QED BY <3>1, UpcomingIs, CutShortLasts
  <2> QED BY <2>1, <2>2
<1>1. /\ UNCHANGED <<clock, agenda, handled, starts>>
      /\ present' \in Minutes /\ present' >= present /\ crashes' \in 0 .. MaxKilled
      /\ process' \in [Minutes -> Phases]
      /\ \A m \in Minutes :
           \/ process'[m] = process[m]
           \/ process[m] = "none" /\ process'[m] = "loading"
           \/ process[m] = "between" /\ agenda[m] = {} /\ process'[m] = "done"
           \/ process'[m] = "dead"
  <2> USE CronAssumption DEF CronTypes, Phases
  <2>1. CASE Cron!Tick
    BY <2>1 DEF Cron!Tick, Minutes
  <2>2. CASE Cron!Spawn
    BY <2>2, CronNames DEF Cron!Spawn, Cron!Become
  <2>3. CASE UNCHANGED Cron!vars
    BY <2>3, CronNames DEF Cron!vars
  <2>4. ASSUME NEW m \in Minutes, Cron!Exit(m) \/ Cron!Crash(m)
        PROVE  /\ UNCHANGED <<present, clock, agenda, handled, starts>>
               /\ crashes' \in 0 .. MaxKilled
               /\ \/ process[m] = "between" /\ agenda[m] = {} /\ process' = [process EXCEPT ![m] = "done"]
                  \/ process' = [process EXCEPT ![m] = "dead"]
    BY <2>4, SMTT(30) DEF Cron!Exit, Cron!Crash, Cron!Become
  <2>5. CASE \E m \in Minutes : Cron!Exit(m) \/ Cron!Crash(m)
    <3>1. PICK m \in Minutes : Cron!Exit(m) \/ Cron!Crash(m)
      BY <2>5
    <3>2. present' >= present
      BY <2>4, <3>1, CronNames
    <3> QED BY <2>4, <3>1, <3>2, ZenonT(60)
  <2> QED BY <2>1, <2>2, <2>3, <2>5
<1>2. CronTypes'
  BY <1>0, <1>1 DEF CronTypes
<1>3. Dues'
  <2>1. ASSUME NEW m \in Minutes
        PROVE  /\ process'[m] \in {"none", "loading"} => handled[m] = {}
               /\ process'[m] \in {"between", "running"} => Shared(m)
               /\ process'[m] = "running" => agenda[m] # {} /\ Cron!Upcoming(m) \in handled[m]
               /\ process'[m] = "done" => handled[m] = DueAt[clock[m]]
    <3>1. agenda[m] = {} /\ Shared(m) => handled[m] = DueAt[clock[m]]
      BY DEF Shared
    <3>2. /\ process[m] \in {"none", "loading"} => handled[m] = {}
          /\ process[m] \in {"between", "running"} => Shared(m)
          /\ process[m] = "running" => agenda[m] # {} /\ Cron!Upcoming(m) \in handled[m]
          /\ process[m] = "done" => handled[m] = DueAt[clock[m]]
      BY DEF Dues
    <3> QED BY <1>1, <3>1, <3>2
  <2>2. \A m \in Minutes : Shared(m)' = Shared(m) /\ Cron!Upcoming(m)' = Cron!Upcoming(m)
    BY <1>1 DEF Shared, Cron!Upcoming
  <2> QED BY <1>1, <2>1, <2>2 DEF Dues
<1>4. KeysKept'
  BY <1>0, <1>1, KeysLast, CronNames DEF CronTypes
<1> QED BY <1>1, <1>2, <1>3, <1>4 DEF Cron!StartsApart

LEMMA CronInductive ==
  ASSUME CronInv, [Cron!Next]_(Cron!vars)
  PROVE  CronInv'
BY CronNames, CronReads, CronStarts, CronGoesOn, CronRest DEF Cron!Next

(* A run that is over has handled what was due in its minute.              *)
LEMMA CronHolds ==
  ASSUME CronInv
  PROVE  RunsWhatIsDue
BY CronNames DEF CronInv, Dues, RunsWhatIsDue

(***************************************************************************)
(* All the parts together                                                  *)
(***************************************************************************)

databaseVars ==
  <<view, vars, blockVars, mfaVars, adminVars, readVars, eventVars, hookVars,
    cacheVars, cronVars, userVars, pageVars>>

DatabaseInv ==
  /\ WorkInv /\ MfaInv /\ AdminInv /\ FindInv /\ OutInv /\ HookInv
  /\ CacheInv /\ CronInv /\ AccountInv /\ PageInv

(* What a step keeps of the delivery log and of the admin pages.           *)
LoggedStep ==
  [\A j \in Deliveries : (\E i \in DOMAIN log[j] : log[j][i] = "2xx") =>
     posts'[j] = posts[j] /\ Len(log'[j]) = Len(log[j])]_Hook!vars
PagesStep == [Pages!Harmless]_Pages!vars

LEMMA DatabaseBegins ==
  ASSUME DatabaseInit
  PROVE  DatabaseInv
BY MfaBound, WorkInit, MfaInit, AdminInit, FindInit, OutInit, HookInit, CacheInit,
   CronInit, AccountInit, PageInit
   DEF DatabaseInit, DatabaseInv

(* A step of one part leaves the variables of the others alone.            *)
LEMMA StepsOfParts ==
  ASSUME [DatabaseNext]_databaseVars
  PROVE  /\ [Work!Next]_Work!vars /\ [Mfa!Next]_Mfa!vars /\ [Pages!Next]_Pages!vars
         /\ [Find!Next]_Find!vars /\ [Outward!Next]_Outward!vars
         /\ [Hook!Next]_Hook!vars /\ [Cached!Next]_Cached!vars /\ [Cron!Next]_(Cron!vars)
         /\ [Signup!Next]_Signup!vars /\ [Listing!Next]_Listing!vars
<1>1. /\ UNCHANGED blockVars => UNCHANGED Work!vars
      /\ UNCHANGED mfaVars => UNCHANGED Mfa!vars
      /\ UNCHANGED adminVars => UNCHANGED Pages!vars
      /\ UNCHANGED readVars => UNCHANGED Find!vars
      /\ UNCHANGED eventVars => UNCHANGED Outward!vars
      /\ UNCHANGED hookVars => UNCHANGED Hook!vars
      /\ UNCHANGED cacheVars => UNCHANGED Cached!vars
      /\ UNCHANGED cronVars => UNCHANGED Cron!vars
      /\ UNCHANGED userVars => UNCHANGED Signup!vars
      /\ UNCHANGED pageVars => UNCHANGED Listing!vars
  BY DEF blockVars, Work!vars, mfaVars, Mfa!vars, adminVars, Pages!vars, readVars,
         Find!vars, eventVars, Outward!vars, hookVars, Hook!vars, cacheVars,
         Cached!vars, cronVars, Cron!vars, userVars, Signup!vars, pageVars, Listing!vars
<1>2. /\ Work!Next \/ UNCHANGED blockVars
      /\ Mfa!Next \/ UNCHANGED mfaVars
      /\ Pages!Next \/ UNCHANGED adminVars
      /\ Find!Next \/ UNCHANGED readVars
      /\ Outward!Next \/ UNCHANGED eventVars
      /\ Hook!Next \/ UNCHANGED hookVars
      /\ Cached!Next \/ UNCHANGED cacheVars
      /\ Cron!Next \/ UNCHANGED cronVars
      /\ Signup!Next \/ UNCHANGED userVars
      /\ Listing!Next \/ UNCHANGED pageVars
  BY DEF DatabaseNext, databaseVars
<1> QED BY <1>1, <1>2

LEMMA DatabaseSteps ==
  ASSUME DatabaseInv, [DatabaseNext]_databaseVars
  PROVE  DatabaseInv'
<1>1. /\ WorkInv /\ MfaInv /\ AdminInv /\ FindInv /\ OutInv /\ HookInv
      /\ CacheInv /\ CronInv /\ AccountInv /\ PageInv
  BY DEF DatabaseInv
<1>2. WorkInv' /\ MfaInv' /\ AdminInv'
  BY <1>1, StepsOfParts, MfaBound, WorkInductive, MfaInductive, AdminInductive
<1>3. FindInv' /\ OutInv' /\ HookInv'
  BY <1>1, StepsOfParts, FindInductive, OutInductive, HookInductive
<1>4. CacheInv' /\ CronInv' /\ AccountInv' /\ PageInv'
  BY <1>1, StepsOfParts, CacheInductive, CronInductive, AccountInductive, PageInductive
<1> QED BY <1>2, <1>3, <1>4 DEF DatabaseInv

LEMMA PartsHold == DatabaseSpec => []DatabaseInv
<1>1. DatabaseInit => DatabaseInv
  BY DatabaseBegins
<1>2. DatabaseInv /\ [DatabaseNext]_databaseVars => DatabaseInv'
  BY DatabaseSteps
<1> QED BY <1>1, <1>2, PTL DEF DatabaseSpec, databaseVars

(* WorkIsKept, which run Database checks for one request: whatever blocks  *)
(* and jobs requests enter, leave, raise out of and catch, the database    *)
(* has what the text of their handlers says, and code finds the session of *)
(* the block that it is in (db/session.py:91-106, 148-178, 220-232). This  *)
(* is for any number of requests and any depth of blocks.                  *)
THEOREM WorkIsAlwaysKept == DatabaseSpec => []WorkIsKept
<1>1. DatabaseInv => WorkIsKept
  BY WorkIsSound DEF DatabaseInv, WorkIsKept
<1> QED BY <1>1, PartsHold, PTL

(* AccountsHold, which run Database checks: whatever requests to register, *)
(* to be found and to log out overlap, and fail, an address has one        *)
(* account, who is welcomed or logged in exists and who is refused has a   *)
(* reason; no recovery code grants two requests, and while changes come    *)
(* one after the other who is enabled can pass (auth_controller.py:48-76,  *)
(* 139-154, user.py:37-41, mfa.py:120-192).                                *)
THEOREM AccountsAlwaysHold == DatabaseSpec => []AccountsHold
<1>1. DatabaseInv => AccountsHold
  BY AccountsAreSound, MfaHolds DEF DatabaseInv, AccountsHold
<1> QED BY <1>1, PartsHold, PTL

(* FindsWhatIsThere, which run Database checks for two rows and four: a    *)
(* read that succeeds returns the rows of its scope, a search index has    *)
(* the rows with their words, and a walk along the pages of a listing, of  *)
(* any size, meets every row once unless one left its place                *)
(* (db/model.py:35-51, 248-267, 355-411, search.py:54-71,                  *)
(* tenancy.py:68-72).                                                      *)
THEOREM AlwaysFindsWhatIsThere == DatabaseSpec => []FindsWhatIsThere
<1>1. DatabaseInv => FindsWhatIsThere
  BY WalksMeetAll DEF DatabaseInv, FindInv, FindsWhatIsThere
<1> QED BY <1>1, PartsHold, PTL

(* ReactionsApart, which run Database checks for three listeners: of any   *)
(* number with any calls, those of one are made whatever became of the     *)
(* others', but for a flush that failed outside of transaction(), without  *)
(* which the work of a request that was answered is kept (events.py,       *)
(* notifications.py, webhooks.py, db/session.py:227).                      *)
THEOREM ReactionsStayApart == DatabaseSpec => []ReactionsApart
<1>1. DatabaseInv => ReactionsApart
  BY ReactionsAreApart DEF DatabaseInv, ReactionsApart
<1> QED BY <1>1, PartsHold, PTL

(* StaleOnlyByOverlap, which run Database checks on one key: whatever      *)
(* callbacks, requests, commits, flushes and expiries overlap, a cached    *)
(* value lacks the committed writes only of requests that were under way,  *)
(* between their first write and their commit, at some time of the         *)
(* remember() that put it (cache.py:48-61, post_controller.py:60-63,       *)
(* 75-78, db/session.py:226-227).                                          *)
THEOREM AlwaysStaleOnlyByOverlap == DatabaseSpec => []StaleOnlyByOverlap
<1>1. DatabaseInv => StaleOnlyByOverlap
  BY DEF DatabaseInv, CacheInv, StaleOnlyByOverlap
<1> QED BY <1>1, PartsHold, PTL

(* RunsWhatIsDue, which run Database checks for four events: of any events,*)
(* with any expressions and windows, a run that ends has started or skipped*)
(* what is due in the minute that it has read, whatever raises, overlaps   *)
(* or dies, and none that is without_overlapping() starts twice within its *)
(* window (schedule.py:144-147, 170-193, 215-243).                         *)
THEOREM AlwaysRunsWhatIsDue == DatabaseSpec => []RunsWhatIsDue
<1>1. DatabaseInv => RunsWhatIsDue
  BY CronHolds DEF DatabaseInv
<1> QED BY <1>1, PartsHold, PTL

(* LoggedIsLast, which run Database checks on one delivery: once the log   *)
(* has an answer of 2xx nothing more is posted or logged, also when the    *)
(* commit fails after the answer (webhooks.py:127-173).                    *)
THEOREM NothingAfterSuccess == DatabaseSpec => LoggedIsLast
<1>1. DatabaseInv /\ [DatabaseNext]_databaseVars => LoggedStep
  BY StepsOfParts, HookStep DEF DatabaseInv, LoggedStep
<1> QED BY <1>1, PartsHold, PTL
        DEF DatabaseSpec, databaseVars, LoggedIsLast, Hook!LoggedIsLast, LoggedStep

(* StalePagesAreHarmless, which run Database checks on one row and two     *)
(* admins: no page brings a deleted row back, a row changes only into what *)
(* one page says each field of which can be parsed, and who is not let in  *)
(* begins nothing (admin.py:93-117, 333-340, 361-411).                     *)
THEOREM StalePagesStayHarmless == DatabaseSpec => StalePagesAreHarmless
<1>1. DatabaseInv /\ [DatabaseNext]_databaseVars => PagesStep
  BY StepsOfParts, AdminStep DEF DatabaseInv, PagesStep
<1> QED BY <1>1, PartsHold, PTL
        DEF DatabaseSpec, databaseVars, StalePagesAreHarmless,
            Pages!StalePagesAreHarmless, PagesStep

=============================================================================
