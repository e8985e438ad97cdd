---------------------------- MODULE DomainEvents ----------------------------
(***************************************************************************)
(* Durable domain events and what is made of them.                         *)
(*                                                                         *)
(* A business transaction looks for an event with its idempotency key,     *)
(* inserts one if there is none, and commits the event with the change.    *)
(* After the commit a task of the same process hands the event to its      *)
(* consumers in one transaction of its own: the day's statistics and the   *)
(* audit log, and the healing, which counts events of the hour in Redis    *)
(* and reports a spike once.  Consumers swallow their exceptions; a        *)
(* statement that fails leaves the transaction aborted, and the Redis      *)
(* commands of the healing run all the same.                               *)
(*                                                                         *)
(* Events of one restaurant, one day and one type, one that healing        *)
(* watches (payment.failed, ai.escalated).  Every transaction of the model *)
(* is begun once.  The upsert of the statistics holds the row of the day   *)
(* until the task's transaction ends, so that recorded tasks run in turn.  *)
(* An insight counts as present for six hours, longer than the model looks *)
(* at; the mute (30 minutes) and the hour of the counter do end.           *)
(***************************************************************************)
EXTENDS Naturals

CONSTANTS
    Txs,         \* business transactions that emit an event
    Keys,        \* idempotency keys
    Threshold,   \* events of an hour that make a spike
    MaxMishaps,  \* bound on processes that die and commands that fail
    NoKey        \* no key

ASSUME ThresholdAssumption == Threshold \in Nat \ {0}
ASSUME MishapsAssumption   == MaxMishaps \in Nat
ASSUME NoKeyAssumption     == NoKey \notin Keys

VARIABLES
    tx,        \* what each business transaction is doing
    stored,    \* keys committed in system_events
    task,      \* what the consumer task of each transaction is doing
    counted,   \* how often an event is in the day's statistics, and the audit log
    counter,   \* heal:counter of the hour, in Redis
    mute,      \* heal:mute is set in Redis
    insight,   \* an insight about the spike is committed
    overlap,   \* keys that two open transactions carried at one time
    failed,    \* transactions undone by the unique key
    missed,    \* keys whose task died or was rolled back
    spoilt,    \* a task that had seen the spike died or was rolled back
    mishaps    \* processes that died and commands that failed so far

business == <<tx, stored, overlap, failed>>
redis    == <<counter, mute>>
results  == <<counted, insight, missed, spoilt>>
vars     == <<business, task, redis, results, mishaps>>

TxPcs   == {"unborn", "absent", "present", "inserted", "over"}
TaskPcs == {"none", "new", "counting", "spike", "muted", "ending", "over"}

NoTask == [pc |-> "none", aborted |-> FALSE, reports |-> FALSE]

TxType   == tx \in [Txs -> [pc : TxPcs, key : Keys \cup {NoKey}]]
TaskType == task \in [Txs -> [pc : TaskPcs, aborted : BOOLEAN, reports : BOOLEAN]]
SetsType == stored \cup overlap \cup missed \subseteq Keys /\ failed \subseteq Txs
NumbersType == counted \in [Keys -> Nat] /\ counter \in Nat /\ mishaps \in 0..MaxMishaps
FlagsType == mute \in BOOLEAN /\ insight \in BOOLEAN /\ spoilt \in BOOLEAN

\* A transaction that has begun has a key, and a task follows a transaction.
KeysFit == \A t \in Txs : tx[t].pc # "unborn" <=> tx[t].key # NoKey
TasksFit == \A t \in Txs : task[t].pc # "none" => tx[t].pc = "over"

\* Every variable keeps its type, and the tasks belong to their transactions.
TypeOK == TxType /\ TaskType /\ SetsType /\ NumbersType /\ FlagsType /\ KeysFit /\ TasksFit

Init ==
    /\ tx      = [t \in Txs |-> [pc |-> "unborn", key |-> NoKey]]
    /\ stored  = {}
    /\ task    = [t \in Txs |-> NoTask]
    /\ counted = [k \in Keys |-> 0]
    /\ counter = 0
    /\ mute    = FALSE
    /\ insight = FALSE
    /\ overlap = {} /\ failed = {} /\ missed = {} /\ spoilt = FALSE
    /\ mishaps = 0

-----------------------------------------------------------------------------
\* The business transaction.

Open(t) == tx[t].pc \in {"absent", "present", "inserted"}

\* Bug: the key is not looked for.
ExistingNever(k) == FALSE

\* emit_system_event finds a committed event with the key.
Existing(k) == k \in stored

\* An event that exists is ignored: nothing is inserted and nobody is told.
LookUp(t, k) ==
    /\ tx[t].pc = "unborn"
    /\ tx' = [tx EXCEPT ![t] = [pc |-> IF Existing(k) THEN "present" ELSE "absent", key |-> k]]
    /\ overlap' = IF \E u \in Txs \ {t} : Open(u) /\ tx[u].key = k
                  THEN overlap \cup {k} ELSE overlap
    /\ UNCHANGED <<stored, failed, task, redis, results, mishaps>>

\* The insertion waits for another of the same key to commit or roll back; a
\* key committed by then breaks the constraint and with it the business change.
Insert(t) ==
    /\ tx[t].pc = "absent"
    /\ \A u \in Txs : tx[u].pc = "inserted" => tx[u].key # tx[t].key
    /\ IF tx[t].key \in stored
       THEN /\ tx' = [tx EXCEPT ![t].pc = "over"]
            /\ failed' = failed \cup {t}
       ELSE /\ tx' = [tx EXCEPT ![t].pc = "inserted"]
            /\ UNCHANGED failed
    /\ UNCHANGED <<stored, overlap, task, redis, results, mishaps>>

\* Bug: the consumers are scheduled when the event is inserted.
ScheduledAlways(committed) == TRUE

\* Listeners of after_commit are not called for a rollback.
Scheduled(committed) == committed

\* The rest of the request succeeds and commits, or fails and is rolled back.
Finish(t, committed) ==
    /\ tx[t].pc \in {"present", "inserted"}
    /\ tx' = [tx EXCEPT ![t].pc = "over"]
    /\ IF tx[t].pc = "inserted"
       THEN /\ stored' = IF committed THEN stored \cup {tx[t].key} ELSE stored
            /\ task' = IF Scheduled(committed) THEN [task EXCEPT ![t].pc = "new"] ELSE task
       ELSE UNCHANGED <<stored, task>>
    /\ UNCHANGED <<overlap, failed, redis, results, mishaps>>

-----------------------------------------------------------------------------
\* The task of one event.

\* Another task has written the day's row and not ended.
DayLocked(t) ==
    \E u \in Txs \ {t} : task[u].pc \notin {"none", "new", "over"} /\ ~task[u].aborted

\* A fault may happen, and is counted when it does.
Fault(happens) == mishaps' = IF happens THEN mishaps + 1 ELSE mishaps
MayFail == mishaps < MaxMishaps

\* analytics_consumer and audit_consumer.  When a statement fails the
\* transaction is aborted and nothing it does afterwards can be committed.
Record(t, fails) ==
    /\ task[t].pc = "new"
    /\ fails => MayFail
    /\ ~fails => ~DayLocked(t)
    /\ task' = [task EXCEPT ![t].pc = "counting", ![t].aborted = fails]
    /\ Fault(fails)
    /\ UNCHANGED <<business, redis, results>>

\* Bug: one event too many.
SpikeLate(n) == n > Threshold

\* The count of the hour that is worth an insight.
Spike(n) == n >= Threshold

\* Bug: a step that does not exist.
AfterCountMisspelt(n) == IF Spike(n) THEN "spike" ELSE "end"

\* A spike goes on to the mute; otherwise there is only the commit left.
AfterCount(n) == IF Spike(n) THEN "spike" ELSE "ending"

\* maybe_trigger_realtime_healing counts the event; without Redis it gives up.
Count(t, fails) ==
    /\ task[t].pc = "counting"
    /\ fails => MayFail
    /\ counter' = IF fails THEN counter ELSE counter + 1
    /\ task' = [task EXCEPT ![t].pc = IF fails THEN "ending" ELSE AfterCount(counter + 1)]
    /\ Fault(fails)
    /\ UNCHANGED <<business, mute, results>>

\* try_acquire_healing_mute; without Redis it goes on as if it had the mute.
Mute(t, fails) ==
    /\ task[t].pc = "spike"
    /\ fails => MayFail
    /\ mute' = (mute \/ ~fails)
    /\ task' = [task EXCEPT ![t].pc = IF mute /\ ~fails THEN "ending" ELSE "muted"]
    /\ Fault(fails)
    /\ UNCHANGED <<business, counter, results>>

\* _create_insight_if_new; in an aborted transaction it raises.
Report(t) ==
    /\ task[t].pc = "muted"
    /\ task' = [task EXCEPT ![t].pc = "ending", ![t].reports = ~insight /\ ~task[t].aborted]
    /\ spoilt' = (spoilt \/ task[t].aborted)
    /\ UNCHANGED <<business, redis, counted, insight, missed, mishaps>>

\* What is lost with a task: its event, and the report it was to make.
Lose(t) ==
    /\ missed' = missed \cup {tx[t].key}
    /\ spoilt' = (spoilt \/ task[t].pc \in {"spike", "muted"} \/ task[t].reports)
    /\ UNCHANGED <<counted, insight>>

\* The commit of the task, or its rollback when it is aborted or cannot commit.
End(t, fails) ==
    /\ task[t].pc = "ending"
    /\ fails => MayFail /\ ~task[t].aborted
    /\ IF fails \/ task[t].aborted
       THEN Lose(t)
       ELSE /\ counted' = [counted EXCEPT ![tx[t].key] = @ + 1]
            /\ insight' = (insight \/ task[t].reports)
            /\ UNCHANGED <<missed, spoilt>>
    /\ task' = [task EXCEPT ![t] = [NoTask EXCEPT !.pc = "over"]]
    /\ Fault(fails)
    /\ UNCHANGED <<business, redis>>

-----------------------------------------------------------------------------
\* The process dies: an open transaction is rolled back, a task is gone.
Crash(t) ==
    /\ MayFail
    /\ \/ /\ Open(t)
          /\ tx' = [tx EXCEPT ![t].pc = "over"]
          /\ UNCHANGED <<task, results>>
       \/ /\ task[t].pc \notin {"none", "over"}
          /\ Lose(t)
          /\ task' = [task EXCEPT ![t] = [NoTask EXCEPT !.pc = "over"]]
          /\ UNCHANGED tx
    /\ Fault(TRUE)
    /\ UNCHANGED <<stored, overlap, failed, redis>>

\* Thirty minutes pass.
MuteExpires == mute /\ mute' = FALSE /\ UNCHANGED <<business, task, counter, results, mishaps>>

\* The hour is over: the counter has a new key.
HourEnds == counter > 0 /\ counter' = 0 /\ UNCHANGED <<business, task, mute, results, mishaps>>

Next ==
    \/ \E t \in Txs :
          \/ \E k \in Keys : LookUp(t, k)
          \/ Insert(t)
          \/ Report(t)
          \/ Crash(t)
          \/ \E b \in BOOLEAN : \/ Finish(t, b) \/ Record(t, b) \/ Count(t, b)
                                \/ Mute(t, b) \/ End(t, b)
    \/ MuteExpires
    \/ HourEnds

Spec == Init /\ [][Next]_vars

-----------------------------------------------------------------------------
Underway(t) == task[t].pc \notin {"none", "over"}

\* An event is in the statistics and in the audit log only if the change it
\* tells of was committed, once, and is missing there only while its task runs
\* or when that died or was rolled back: nothing takes such a task up again.
CountsFollowStore ==
    \A k \in Keys :
        /\ counted[k] <= (IF k \in stored THEN 1 ELSE 0)
        /\ k \in stored \ missed /\ (\A t \in Txs : tx[t].key = k => ~Underway(t))
           => counted[k] = 1

\* A spike of the hour is reported when no task is left that could report it,
\* unless the task that saw it died or was rolled back: the mute it took keeps
\* the tasks after it from reporting for half an hour.
SpikeReported ==
    counter >= Threshold /\ (\A t \in Txs : ~Underway(t)) => insight \/ spoilt

\* The unique key of an event undoes a business change only when another
\* transaction carried the same key at the same time: a repeated delivery that
\* comes after the first one is done is ignored and does no harm.
FailureNeedsOverlap == \A t \in failed : tx[t].key \in overlap
=============================================================================
