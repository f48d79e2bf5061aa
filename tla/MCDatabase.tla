----------------------------- MODULE MCDatabase -----------------------------
(***************************************************************************)
(* What works on the rows of a database, and on what is kept beside them,  *)
(* for TLC: the records of handlers in two sessions, the blocks of one     *)
(* handler, the second factor of a user, the admin pages, reads of tenants *)
(* and searches, what an event sets off, the delivery log of webhooks, the *)
(* cache, the schedule, who signs up and the pages of a listing. A         *)
(* behaviour takes the steps of one of them; the others stay as they began.*)
(***************************************************************************)
EXTENDS AuditedModel, TLC

CONSTANTS
  s1, s2, a, b, r1,
  Handlers, MaxWrites, MaxBlocks, MaxFailures,        \* UnitOfWork
  Verifiers, MaxSecrets, MaxBatches, PerBatch,        \* MultiFactor
  Admins, Managed, Ruled, NotNull, Moments,           \* Admin
  Tasks, Searched, Tenants, Words, MaxNesting,
  MaxPuts,                                            \* Queries
  Applications,                                       \* Outbound
  Deliveries, MaxAttempts,                            \* WebhookDelivery
  Keys, Readers, Writers,                             \* Cache
  Events, Crontab, OverlapOf, FirstMinute,
  LastMinute, MaxKilled, DueAt,                       \* Schedule
  Signups, Spellings, Lower(_),                       \* Accounts
  Listed, Sizes, MaxChanges                           \* Pagination

ASSUME BoundsAssumption ==
  /\ {MaxWrites, MaxBlocks, MaxFailures, MaxSecrets, MaxBatches, PerBatch,
      MaxNesting, MaxPuts, MaxChanges} \subseteq Nat
  /\ MaxAttempts \in Nat \ {0}

(* strip() and lower() change nothing that they have returned.             *)
ASSUME AddressAssumption ==
  /\ \A e \in Spellings : Lower(e) \in Spellings /\ Lower(Lower(e)) = Lower(e)
  /\ "nobody" \notin Spellings

(* An event has listeners, and each makes calls.                           *)
ASSUME ApplicationAssumption ==
  \A app \in Applications :
    /\ app \in Seq(Seq([kind : {"create", "record", "query", "push", "mail", "send",
                                "broadcast", "unset"}, savepoint : BOOLEAN]))
    /\ app # <<>> /\ \A l \in DOMAIN app : app[l] # <<>>

(* paginate() raises a ValueError for a per_page below 1, and a table has  *)
(* finitely many rows.                                                     *)
ASSUME ListingAssumption == Sizes \subseteq Nat \ {0} /\ IsFiniteSet(Listed)

VARIABLES
  view,  \* which of them
  stage, told, current, nesting, visible, code, due,
  writes, failures,                                   \* UnitOfWork
  account, user, loaded, verifying, verdict,
  claimed, secrets, batches, spent, proven,
  disturbed,                                          \* MultiFactor
  live, cells, allowed, form, task,                   \* Admin
  dialect, stored, triggers, hits, context, resets,
  blocks, found, puts,                                \* Queries
  listeners, at, healthy, dispatch, made, raised,
  broken,                                             \* Outbound
  active, delivery, attempts, answer, log, posts,
  received,                                           \* WebhookDelivery
  source, entry, reader, writer, scan,                \* Cache
  present, process, clock, agenda, handled, expires,
  starts, crashes,                                    \* Schedule
  users, request, session, welcomed, lost,            \* Accounts
  table, perPage, page, total, walk, items, first,
  shifted, changes                                    \* Pagination

blockVars ==
  <<stage, told, current, nesting, visible, code, due, writes, failures>>
mfaVars ==
  <<account, user, loaded, verifying, verdict, claimed, secrets,
  batches, spent, proven, disturbed>>
adminVars ==
  <<live, cells, allowed, form, task>>
readVars ==
  <<dialect, stored, triggers, hits, context, resets, blocks,
  found, puts>>
eventVars ==
  <<listeners, at, healthy, dispatch, made, raised, broken>>
hookVars ==
  <<active, delivery, attempts, answer, log, posts, received>>
cacheVars ==
  <<source, entry, reader, writer, scan>>
cronVars ==
  <<present, process, clock, agenda, handled, expires, starts,
  crashes>>
userVars ==
  <<users, request, session, welcomed, lost>>
pageVars ==
  <<table, perPage, page, total, walk, items, first, shifted, changes>>

(* Sessions differ in name alone.                                          *)
AnySession == Permutations(Sessions)

Work ==
  INSTANCE UnitOfWork
    WITH Requests <- Handlers, MaxDepth <- MaxBlocks, levels <- nesting

Mfa ==
  INSTANCE MultiFactor
    WITH Requests <- Verifiers, row <- account, stage <- verifying

Pages ==
  INSTANCE Admin
    WITH Ids <- Managed, row <- cells

Find ==
  INSTANCE Queries
    WITH Ids <- Searched, MaxDepth <- MaxNesting, MaxWrites <- MaxPuts,
         rows <- stored, writes <- puts

(* Listeners that write and send mail, write in a savepoint, notify, notify *)
(* over a channel that is not set up, and fire a webhook of two endpoints.  *)
Plain(kinds) ==
  [i \in 1 .. Len(kinds) |-> [kind |-> kinds[i], savepoint |-> FALSE]]
Writer == Plain(<<"create", "send">>)
Menu == {Writer, <<[kind |-> "create", savepoint |-> TRUE]>>,
         Plain(<<"record", "mail", "broadcast">>), Plain(<<"unset", "mail">>),
         Plain(<<"query", "push", "push">>)}
Apps == [1 .. 3 -> Menu]

Outward ==
  INSTANCE Outbound
    WITH stage <- dispatch

Hook ==
  INSTANCE WebhookDelivery
    WITH Jobs <- Deliveries, stage <- delivery

Cached == INSTANCE Cache

EventList == <<"tick", "late", "weekly", "either">>
Star == [star |-> TRUE, lo |-> 0, hi |-> 0, step |-> 1]
Exactly(n) == [star |-> FALSE, lo |-> n, hi |-> n, step |-> 1]
Fields(minute, hour, day, weekday) ==
  [minute |-> {minute}, hour |-> {hour}, day |-> {day}, month |-> {Star},
   weekday |-> {weekday}]

(* "* * * * *", "59 23 * * *", "0 0 * * 0" and "*/2 * 31 * 0".             *)
FourCrons == [e \in {"tick", "late", "weekly", "either"} |->
  CASE e = "tick" -> Fields(Star, Star, Star, Star)
    [] e = "late" -> Fields(Exactly(59), Exactly(23), Star, Star)
    [] e = "weekly" -> Fields(Exactly(0), Exactly(0), Star, Exactly(0))
    [] e = "either" ->
         Fields([Star EXCEPT !.step = 2], Star, Exactly(31), Exactly(0))]
TwoOverlaps == [e \in {"tick", "late", "weekly", "either"} |->
  CASE e = "tick" -> 2 [] e = "either" -> 3 [] OTHER -> 0]

(* When crontab(5) has them run: in the last minute of January and in the  *)
(* first ones of February, a Sunday.                                       *)
TurnOfTheMonth == [m \in 44639 .. 44641 |->
  CASE m = 44639 -> {"tick", "late"}
    [] m = 44640 -> {"tick", "weekly", "either"}
    [] m = 44641 -> {"tick"}]

Cron ==
  INSTANCE Schedule
    WITH Schedules <- Events, Expression <- Crontab, Window <- OverlapOf,
         Opening <- FirstMinute, Closing <- LastMinute, MaxCrashes <- MaxKilled,
         now <- present, at <- clock, due <- agenda

(* DueAt is what the expressions mean, for two months at most.             *)
ASSUME CronAssumption ==
  /\ Events \in Seq(Cron!EventSet) /\ OverlapOf \in [Cron!EventSet -> Nat]
  /\ {FirstMinute, LastMinute, MaxKilled} \subseteq Nat
  /\ FirstMinute <= LastMinute /\ LastMinute < 59 * 1440
  /\ \A m \in Cron!MinuteSet :
       DueAt[m] = {e \in Cron!EventSet : Cron!CronMatches(Crontab[e], Cron!At(m))}

(* Two spellings of one address, and requests that find an account.        *)
OneAddress(spelling) == "ada"

Signup == INSTANCE Accounts WITH Requests <- Signups, InLower <- Lower

Listing ==
  INSTANCE Pagination
    WITH Ids <- Listed, MaxWrites <- MaxChanges, received <- items,
         writes <- changes

DatabaseInit ==
  /\ view \in {"rows", "blocks", "second factor", "admin", "reads", "events",
               "webhooks", "cache", "schedule", "accounts", "pages"}
  /\ Init
  /\ Work!Init
  /\ Mfa!Init
  /\ Pages!Init
  /\ view = "admin" \/ (/\ live = [i \in Managed |-> "no"]
                        /\ cells = [i \in Managed |->
                             [c \in Pages!Columns |-> "minute"]])
  /\ Find!Init
  /\ view = "reads" \/ dialect = "sqlite"
  /\ Outward!Init
  /\ view = "events" \/ listeners = CHOOSE app \in Applications : TRUE
  /\ Hook!Init
  /\ Cached!Init
  /\ Cron!Init
  /\ Signup!Init
  /\ Listing!Init
  /\ view = "pages" \/ (table = <<>> /\ perPage = CHOOSE n \in Sizes : TRUE)

DatabaseNext ==
  \/ /\ view = "rows" /\ Next
     /\ UNCHANGED <<view, blockVars, mfaVars, adminVars, readVars, eventVars,
                  hookVars, cacheVars, cronVars, userVars, pageVars>>
  \/ /\ view = "blocks" /\ Work!Next
     /\ UNCHANGED <<view, vars, mfaVars, adminVars, readVars, eventVars, hookVars,
                  cacheVars, cronVars, userVars, pageVars>>
  \/ /\ view = "second factor" /\ Mfa!Next
     /\ UNCHANGED <<view, vars, blockVars, adminVars, readVars, eventVars,
                  hookVars, cacheVars, cronVars, userVars, pageVars>>
  \/ /\ view = "admin" /\ Pages!Next
     /\ UNCHANGED <<view, vars, blockVars, mfaVars, readVars, eventVars, hookVars,
                  cacheVars, cronVars, userVars, pageVars>>
  \/ /\ view = "reads" /\ Find!Next
     /\ UNCHANGED <<view, vars, blockVars, mfaVars, adminVars, eventVars,
                  hookVars, cacheVars, cronVars, userVars, pageVars>>
  \/ /\ view = "events" /\ Outward!Next
     /\ UNCHANGED <<view, vars, blockVars, mfaVars, adminVars, readVars, hookVars,
                  cacheVars, cronVars, userVars, pageVars>>
  \/ /\ view = "webhooks" /\ Hook!Next
     /\ UNCHANGED <<view, vars, blockVars, mfaVars, adminVars, readVars,
                  eventVars, cacheVars, cronVars, userVars, pageVars>>
  \/ /\ view = "cache" /\ Cached!Next
     /\ UNCHANGED <<view, vars, blockVars, mfaVars, adminVars, readVars,
                  eventVars, hookVars, cronVars, userVars, pageVars>>
  \/ /\ view = "schedule" /\ Cron!Next
     /\ UNCHANGED <<view, vars, blockVars, mfaVars, adminVars, readVars,
                  eventVars, hookVars, cacheVars, userVars, pageVars>>
  \/ /\ view = "accounts" /\ Signup!Next
     /\ UNCHANGED <<view, vars, blockVars, mfaVars, adminVars, readVars,
                  eventVars, hookVars, cacheVars, cronVars, pageVars>>
  \/ /\ view = "pages" /\ Listing!Next
     /\ UNCHANGED <<view, vars, blockVars, mfaVars, adminVars, readVars,
                  eventVars, hookVars, cacheVars, cronVars, userVars>>

DatabaseSpec ==
  DatabaseInit /\ [][DatabaseNext]_
    <<view, vars, blockVars, mfaVars, adminVars, readVars, eventVars,
      hookVars, cacheVars, cronVars, userVars, pageVars>>

(* What does not change is as good as in the initial state: each property  *)
(* of a part below looks at it where it moves.                             *)
AllTypeOK ==
  CASE view = "rows" -> TypeOK
    [] view = "blocks" -> Work!TypeOK
    [] view = "second factor" -> Mfa!TypeOK
    [] view = "admin" -> Pages!TypeOK
    [] view = "reads" -> Find!TypeOK
    [] view = "events" -> Outward!TypeOK
    [] view = "webhooks" -> Hook!TypeOK
    [] view = "cache" -> Cached!TypeOK
    [] view = "schedule" -> Cron!TypeOK
    [] view = "accounts" -> Signup!TypeOK
    [] view = "pages" -> Listing!TypeOK

(* UnitOfWork's properties of the rows that are committed, and of the      *)
(* session that the code of a request finds (db/session.py:91-106,         *)
(* 220-229).                                                               *)
WorkIsKept ==
  view = "blocks" => Work!VisibleAsWritten /\ Work!OwnSession

(* Accounts' properties of who signs up, and MultiFactor's: no code twice, *)
(* and nobody is locked out (auth_controller.py:48-76, 139-154,            *)
(* user.py:37-41, mfa.py:120-173).                                         *)
AccountsHold ==
  /\ view = "accounts" =>
       Signup!OneAccountEach /\ Signup!WelcomedExist /\ Signup!TakenForAReason
  /\ view = "second factor" => Mfa!SpentIsGone /\ Mfa!EnabledCanPass

(* Admin's property of pages that are out of date (admin.py:93-117,        *)
(* 333-340, 361-411).                                                      *)
StalePagesAreHarmless == Pages!StalePagesAreHarmless

(* "a failing rule redirects back to the form with the error shown instead *)
(* of saving" (docs/admin.md:65-66), as Admin puts it.                     *)
RulesHold == view = "admin" => Pages!RulesHold

(* Queries' property of what reads find, and Pagination's of walks through *)
(* a listing (db/model.py:35-51, 248-267, 355-411, search.py:54-71,        *)
(* tenancy.py:68-72).                                                      *)
FindsWhatIsThere ==
  /\ view = "reads" => Find!FindsWhatIsThere
  /\ view = "pages" => Listing!WalkMeetsAll

(* Outbound's properties of what one event sets off (events.py,            *)
(* notifications.py, webhooks.py, db/session.py:227).                      *)
ReactionsApart ==
  view = "events" => Outward!Isolated /\ Outward!ToldIsKept

(* WebhookDelivery's property of the delivery log (webhooks.py:127-173).   *)
LoggedIsLast == Hook!LoggedIsLast

(* Cache's property of remember() beside requests that write and forget    *)
(* (cache.py:48-61, post_controller.py:60-63, 75-78).                      *)
StaleOnlyByOverlap == view = "cache" => Cached!StaleOnlyByOverlap

(* "reads stay fast without serving stale data past a create"              *)
(* (docs/caching.md:36-38), as Cache puts it.                              *)
FreshPastCreate == view = "cache" => Cached!FreshPastCreate

(* Schedule's property of without_overlapping(), and of each run that ends *)
(* that it has started or skipped every event of its minute, or reported   *)
(* that its hit() raised, also those after one that raised                 *)
(* (schedule.py:55-89, 144-147, 170-193, 221-241).                         *)
RunsWhatIsDue ==
  view = "schedule" =>
    /\ Cron!StartsApart
    /\ \A m \in Cron!MinuteSet :
         process[m] = "done" => handled[m] = DueAt[clock[m]]

=============================================================================
