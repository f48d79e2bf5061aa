------------------------------ MODULE Storage ------------------------------
(***************************************************************************)
(* File storage (storage.py): store_upload(), put() over a key that exists,*)
(* delete() and the signed download, by concurrent tasks.  LocalStorage    *)
(* writes in a thread, which opens the file, and so empties it, before it  *)
(* writes; the thread goes on when the task that awaits it is cancelled.   *)
(* S3Storage makes every command one request.                              *)
(* A file is named by the task whose bytes it holds.                       *)
(***************************************************************************)
EXTENDS Integers

CONSTANTS Tasks,      \* 1, 2, ...; an upload's random key is its task
          MaxTime,    \* bound: the clock
          Lifetimes   \* expires_in of temporary_url()

Keys == Tasks
Absent == 0
Empty == -1
Mixed == -2

VARIABLES backend,    \* "local" or "s3"
          file,       \* [Keys -> whose bytes, or absent, empty, mixed]
          pc, key,    \* where a task is, and the key it works on
          thread,     \* what its to_thread() still has to do
          read,       \* what a download answers
          told,       \* keys that store_upload() returned
          links,      \* tokens given out
          now,
          replaced, deleted

taskVars == <<pc, key, thread, read>>
noteVars == <<told, links, replaced, deleted>>
vars == <<backend, file, taskVars, now, noteVars>>

Init ==
  /\ backend \in {"local", "s3"} /\ file = [k \in Keys |-> Absent]
  /\ pc = [t \in Tasks |-> "new"] /\ key = [t \in Tasks |-> t]
  /\ thread = [t \in Tasks |-> "none"] /\ read = [t \in Tasks |-> Absent]
  /\ told = {} /\ links = {} /\ now = 0 /\ replaced = {} /\ deleted = {}

Goto(t, place) == pc' = [pc EXCEPT ![t] = place]

(* Tasks are numbered in the order in which they start.                    *)
Start(t, place, k, work) ==
  /\ pc[t] = "new" /\ Goto(t, place)
  /\ \A u \in Tasks : u < t => pc[u] # "new"
  /\ key' = [key EXCEPT ![t] = k] /\ thread' = [thread EXCEPT ![t] = work]
  /\ UNCHANGED <<backend, file, read, now>>

FirstWrite == IF backend = "local" THEN "open" ELSE "write"

(* An extension that is not allowed or active content, no bytes, too many. *)
Refuse(t) ==
  /\ Start(t, "422", t, "none") /\ UNCHANGED noteVars

Upload(t) ==
  /\ Start(t, "uploading", t, FirstWrite) /\ UNCHANGED noteVars

Replace(t) ==
  /\ \E k \in told :
       /\ Start(t, "putting", k, FirstWrite)
       /\ replaced' = replaced \cup {k}
  /\ UNCHANGED <<told, links, deleted>>

Delete(t) ==
  /\ \E k \in told : Start(t, "deleting", k, "unlink")
  /\ UNCHANGED noteVars

(* The steps of the threads.                                               *)
Opens(t) == thread[t] = "open"
Opened(t) == [file EXCEPT ![key[t]] = Empty]

(* Bytes that another thread has written since the file was emptied may be *)
(* longer than these.                                                      *)
Written(t) ==
  IF backend = "local" /\ file[key[t]] # Empty THEN {t, Mixed} ELSE {t}

(* Who had opened the file before it was removed writes to no file.        *)
Unlinked(t) ==
  [u \in Tasks |->
     IF u = t THEN "none"
     ELSE IF backend = "local" /\ thread[u] = "write" /\ key[u] = key[t]
     THEN "write to nothing" ELSE thread[u]]

ThreadStep(t) ==
  /\ \/ /\ Opens(t) /\ file' = Opened(t)
        /\ thread' = [thread EXCEPT ![t] = "write"]
     \/ /\ thread[t] = "write"
        /\ \E bytes \in Written(t) : file' = [file EXCEPT ![key[t]] = bytes]
        /\ thread' = [thread EXCEPT ![t] = "none"]
     \/ /\ thread[t] = "write to nothing" /\ UNCHANGED file
        /\ thread' = [thread EXCEPT ![t] = "none"]
     \/ /\ thread[t] = "unlink" /\ file' = [file EXCEPT ![key[t]] = Absent]
        /\ thread' = Unlinked(t)
  /\ UNCHANGED <<backend, pc, key, read, now, noteVars>>

(* A mutant: the thread is started and not waited for.                     *)
NotAwaited(t) == TRUE

(* await storage.put() returns, and so does what called it.                *)
Awaited(t) == thread[t] = "none"

Return(t) ==
  /\ pc[t] \in {"uploading", "putting", "deleting"} /\ Awaited(t)
  /\ Goto(t, "200")
  /\ told' = IF pc[t] = "uploading" THEN told \cup {key[t]} ELSE told
  /\ deleted' = IF pc[t] = "deleting" THEN deleted \cup {key[t]} ELSE deleted
  /\ UNCHANGED <<backend, file, key, thread, read, now, links, replaced>>

(* The client goes away: the task ends, its thread does not.               *)
Cancel(t) ==
  /\ pc[t] \in {"uploading", "putting", "deleting", "verified", "exists"}
  /\ Goto(t, "cancelled")
  /\ UNCHANGED <<backend, file, key, thread, read, now, noteVars>>

TemporaryUrl(k) ==
  /\ k \in told
  /\ \E e \in Lifetimes :
       links' = links \cup {[key |-> k, exp |-> now + e]}
  /\ UNCHANGED <<backend, file, taskVars, now, told, replaced, deleted>>

(* _serve_signed_download(): the token, then exists(), then get().         *)
Expired(l) == l.exp < now

Verify(t) ==
  /\ backend = "local"
  /\ \E l \in links :
       Start(t, IF Expired(l) THEN "404" ELSE "verified", l.key, "none")
  /\ UNCHANGED noteVars

Exists(t) ==
  /\ pc[t] = "verified"
  /\ Goto(t, IF file[key[t]] = Absent THEN "404" ELSE "exists")
  /\ UNCHANGED <<backend, file, key, thread, read, now, noteVars>>

Get(t) ==
  /\ pc[t] = "exists"
  /\ Goto(t, IF file[key[t]] = Absent THEN "500" ELSE "200")
  /\ read' = [read EXCEPT ![t] = file[key[t]]]
  /\ UNCHANGED <<backend, file, key, thread, now, noteVars>>

Tick ==
  /\ now < MaxTime /\ now' = now + 1
  /\ UNCHANGED <<backend, file, taskVars, noteVars>>

Next ==
  \/ \E t \in Tasks :
       \/ Refuse(t) \/ Upload(t) \/ Replace(t) \/ Delete(t)
       \/ ThreadStep(t) \/ Return(t) \/ Cancel(t)
       \/ Verify(t) \/ Exists(t) \/ Get(t)
  \/ \E k \in Keys : TemporaryUrl(k)
  \/ Tick

Spec == Init /\ [][Next]_vars

-----------------------------------------------------------------------------
(* Files hold somebody's bytes, and only what was started is in a thread.  *)
TypeOK ==
  /\ backend \in {"local", "s3"}
  /\ file \in [Keys -> Tasks \cup {Absent, Empty, Mixed}]
  /\ key \in [Tasks -> Keys] /\ told \subseteq Keys
  /\ \A t \in Tasks : pc[t] \in {"new", "422"} => thread[t] = "none"
  /\ \A l \in links : l.key \in told /\ l.exp <= MaxTime + 3
  /\ read \in [Tasks -> Keys \cup {Absent, Empty, Mixed}]

(* Who knows a key gets all of its bytes or nothing: store_upload() gives  *)
(* out no key before its file is complete, and nobody, not even the thread *)
(* of a cancelled upload, writes that file again or brings it back once it *)
(* is deleted - unless the application puts over the key itself            *)
(* (storage.py:91-101, 304-306, 350-354).                                  *)
UploadsAreWhole ==
  \A k \in told \ replaced :
    /\ file[k] \in {k, Absent} /\ (k \in deleted => file[k] = Absent)
    /\ \A t \in Tasks : key[t] = k /\ t # k => read[t] \in {k, Absent}

(* What the code does not do: a download that finds no file answers 404,   *)
(* "This link is invalid or has expired" (storage.py:352-354).             *)
MissingIs404 == \A t \in Tasks : pc[t] # "500"

=============================================================================
