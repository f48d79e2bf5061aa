------------------------------- MODULE Cache -------------------------------
(***************************************************************************)
(* src/src/zeython/cache.py between the requests of the generated          *)
(* PostController (docs/caching.md:36-51): callers of remember() in front  *)
(* of a source of values, requests that write to the source, forget() the  *)
(* key and are committed after that, flush() and expiry.  A RedisCache     *)
(* command is one step; InMemoryCache does the same under its lock, and    *)
(* flushes in one step.                                                    *)
(*                                                                         *)
(* The source of a key is the set of the requests whose writes to it have  *)
(* been committed; a value is the source as a callback has read it.        *)
(***************************************************************************)
EXTENDS Naturals

CONSTANTS Keys, Readers, Writers

VARIABLES
  source,   \* the requests whose writes to what a key is made from are committed
  entry,    \* the cached value, if there is one
  reader,   \* of a caller of remember(): its step, its key, what it has read
  writer,   \* of a request that writes: its step and its key
  scan      \* the keys that flush() has still to delete

vars == <<source, entry, reader, writer, scan>>

Idle == [step |-> "idle"]
New == [step |-> "new"]
Done == [step |-> "done"]

(* `beside` and `late` are for the properties: the writers of its key that *)
(* were under way at some time of the remember() that put the value, and   *)
(* the writes that the value lacked when it was put.                       *)
TypeOK ==
  /\ source \in [Keys -> SUBSET Writers]
  /\ entry \in [Keys -> SUBSET [seen : SUBSET Writers, beside : SUBSET Writers,
                                late : SUBSET Writers]]
  /\ \A k \in Keys : \A e, f \in entry[k] : e = f
  /\ reader \in [Readers -> {Idle} \cup
       [step : {"missed", "computed"}, key : Keys, seen : SUBSET Writers,
        beside : SUBSET Writers]]
  /\ writer \in [Writers -> {New, Done} \cup [step : {"written", "forgotten"}, key : Keys]]
  /\ scan \in SUBSET Keys

Init ==
  /\ source = [k \in Keys |-> {}] /\ entry = [k \in Keys |-> {}]
  /\ reader = [r \in Readers |-> Idle] /\ writer = [w \in Writers |-> New]
  /\ scan = {}

UnderWay(k) == {w \in Writers : writer[w] \notin {New, Done} /\ writer[w].key = k}

(***************************************************************************)
(* remember(): get(), the callback, put()                                  *)
(***************************************************************************)

(* A hit is returned and changes nothing.                                  *)
Get(r, k) ==
  /\ reader[r] = Idle /\ entry[k] = {}
  /\ reader' = [reader EXCEPT ![r] =
       [step |-> "missed", key |-> k, seen |-> {}, beside |-> UnderWay(k)]]
  /\ UNCHANGED <<source, entry, writer, scan>>

(* The callback reads what is committed, or raises, as put() may.          *)
Callback(r) ==
  /\ reader[r].step = "missed"
  /\ reader' \in {[reader EXCEPT ![r] = Idle],
                  [reader EXCEPT ![r].step = "computed",
                                 ![r].seen = source[reader[r].key]]}
  /\ UNCHANGED <<source, entry, writer, scan>>

(* Whatever was put or forgotten meanwhile.                                *)
Put(r) ==
  /\ reader[r].step = "computed"
  /\ entry' = [entry EXCEPT ![reader[r].key] =
       {[seen |-> reader[r].seen, beside |-> reader[r].beside,
         late |-> source[reader[r].key] \ reader[r].seen]}]
  /\ reader' = [reader EXCEPT ![r] = Idle]
  /\ UNCHANGED <<source, writer, scan>>

(***************************************************************************)
(* A request that writes: store() or destroy()                             *)
(***************************************************************************)

Remove(k) == entry' = [entry EXCEPT ![k] = {}]

(* Post.create() and delete() flush in the session of the request: nobody  *)
(* else sees it yet.                                                       *)
Write(w, k) ==
  /\ writer[w] = New
  /\ writer' = [writer EXCEPT ![w] = [step |-> "written", key |-> k]]
  /\ reader' = [r \in Readers |->
       IF reader[r] # Idle /\ reader[r].key = k
         THEN [reader[r] EXCEPT !.beside = @ \cup {w}] ELSE reader[r]]
  /\ UNCHANGED <<source, entry, scan>>

(* Mutant: an entry that was put is not removed.                           *)
ForgetNothing(w) ==
  /\ writer[w].step = "written"
  /\ writer' = [writer EXCEPT ![w].step = "forgotten"]
  /\ UNCHANGED <<source, entry, reader, scan>>

Forget(w) ==
  /\ writer[w].step = "written"
  /\ Remove(writer[w].key)
  /\ writer' = [writer EXCEPT ![w].step = "forgotten"]
  /\ UNCHANGED <<source, reader, scan>>

(* DatabaseSessionMiddleware commits when the response has been sent.      *)
Commit(w) ==
  /\ writer[w].step = "forgotten"
  /\ source' = [source EXCEPT ![writer[w].key] = @ \cup {w}]
  /\ writer' = [writer EXCEPT ![w] = Done]
  /\ UNCHANGED <<entry, reader, scan>>

(* What comes after the write, forget() included, or the commit raises.    *)
Rollback(w) ==
  /\ writer[w].step \in {"written", "forgotten"}
  /\ writer' = [writer EXCEPT ![w] = Done]
  /\ UNCHANGED <<source, entry, reader, scan>>

(***************************************************************************)
(* What else removes entries                                               *)
(***************************************************************************)

(* scan_iter() finds what is there all the time, and perhaps what comes.   *)
Flush ==
  /\ scan = {}
  /\ \E found \in SUBSET Keys : {k \in Keys : entry[k] # {}} \subseteq found /\ scan' = found
  /\ UNCHANGED <<source, entry, reader, writer>>

FlushOne(k) ==
  /\ k \in scan /\ scan' = scan \ {k}
  /\ Remove(k)
  /\ UNCHANGED <<source, reader, writer>>

(* The ttl is over: Redis drops the entry, get() deletes it.               *)
Expire(k) ==
  /\ entry[k] # {} /\ Remove(k)
  /\ UNCHANGED <<source, reader, writer, scan>>

Next ==
  \/ \E r \in Readers : (\E k \in Keys : Get(r, k)) \/ Callback(r) \/ Put(r)
  \/ \E w \in Writers :
       (\E k \in Keys : Write(w, k)) \/ Forget(w) \/ Commit(w) \/ Rollback(w)
  \/ Flush
  \/ \E k \in Keys : FlushOne(k) \/ Expire(k)

Spec == Init /\ [][Next]_vars

(* A cached value lacks the committed writes only of requests that were    *)
(* under way, between their first write and their commit, at some time of  *)
(* the remember() that put it: a write that had been committed when it was *)
(* called is in the value, and one that begins when it has returned takes  *)
(* the value away (cache.py:48-61, post_controller.py:60-63, 75-78).       *)
StaleOnlyByOverlap ==
  \A k \in Keys : \A e \in entry[k] : source[k] \subseteq e.seen \cup e.beside

(* The list is invalidated whenever a post is created, "so reads stay fast *)
(* without serving stale data past a create" (docs/caching.md:36-38): what *)
(* a value lacks is what it lacked when it was put.  The code forgets the  *)
(* key before the commit, and a value that was put between the two goes    *)
(* stale with the commit and stays.                                        *)
FreshPastCreate ==
  \A k \in Keys : \A e \in entry[k] : source[k] \subseteq e.seen \cup e.late
=============================================================================
