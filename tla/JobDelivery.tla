---------------------------- MODULE JobDelivery ----------------------------
(***************************************************************************)
(* What a zeython queue promises for one pushed job, whatever driver runs  *)
(* it: the job waits, is attempted at most max_attempts times, and ends    *)
(* either done, given up after exactly max_attempts attempts, or lost      *)
(* with the process that carried it.  src/src/zeython/queue.py, classes    *)
(* Job and Queue.  The drivers' modules are shown to implement this one.   *)
(***************************************************************************)
EXTENDS Naturals

CONSTANTS Jobs,         \* one element per call of Queue.push
          MaxAttempts   \* Job.max_attempts

VARIABLES status,       \* where the job is in its life
          tries         \* how many times handle() was started for it

deliveryVars == <<status, tries>>

Status == {"new", "queued", "running", "done", "failed", "lost"}

Init == /\ status = [j \in Jobs |-> "new"]
        /\ tries = [j \in Jobs |-> 0]

Become(j, from, to) == /\ status[j] \in from
                       /\ status' = [status EXCEPT ![j] = to]

(* Queue.push() *)
Push(j) == Become(j, {"new"}, "queued") /\ UNCHANGED tries

(* Queue._invoke() is entered for an attempt that is still allowed. *)
Start(j) == /\ Become(j, {"queued"}, "running")
            /\ tries[j] < MaxAttempts[j]
            /\ tries' = [tries EXCEPT ![j] = @ + 1]

Succeed(j) == Become(j, {"running"}, "done") /\ UNCHANGED tries

(* handle() raised and an attempt is left. *)
Retry(j) == /\ Become(j, {"running"}, "queued")
            /\ tries[j] < MaxAttempts[j]
            /\ UNCHANGED tries

(* handle() raised on the last attempt. *)
GiveUp(j) == /\ Become(j, {"running"}, "failed")
             /\ tries[j] = MaxAttempts[j]
             /\ UNCHANGED tries

(* The process that carried the job went away. *)
Lose(j) == Become(j, {"queued", "running"}, "lost") /\ UNCHANGED tries

Next == \E j \in Jobs : Push(j) \/ Start(j) \/ Succeed(j) \/ Retry(j)
                          \/ GiveUp(j) \/ Lose(j)

Spec == Init /\ [][Next]_deliveryVars

=============================================================================
