---------------------------- MODULE ChannelMessages ----------------------------
(***************************************************************************)
(* One row of channel_messages (app/services/messaging_gateway.py): the    *)
(* durable inbox and outbox between the application and the WhatsApp       *)
(* gateway (services/messaging-gateway).                                   *)
(*                                                                         *)
(* An inbound row is handed to the chat pipeline, an outbound one is       *)
(* posted to the gateway, which sends it and reports back.  Whoever made   *)
(* the row works on it at once; every minute a cron takes up what is due:  *)
(* not yet taken, failed some time ago, or taken five minutes ago by a     *)
(* process that has not been heard of since.                               *)
(*                                                                         *)
(* A handler that applies a status reads the row, flushes and commits; as  *)
(* it looks at nothing it has read, it is one step here.                   *)
(*                                                                         *)
(* Its names are its own, as ChatProofs extends it beside ChatSerializer.  *)
(***************************************************************************)
EXTENDS Naturals

CONSTANTS
    Workers,      \* processes: each handles one request or cron tick at a time
    MaxAttempts,  \* a failure after so many attempts is final (5 in the code)
    MaxMishaps,   \* bound: processes that die, and dispatches on demand
    CallFaults    \* what may go wrong: "call", "slow"

ASSUME MessageAssumption ==
    /\ MaxAttempts \in Nat \ {0}
    /\ MaxMishaps \in Nat
    /\ CallFaults \subseteq {"call", "slow"}

VARIABLES
    direction,    \* of the row: "in" or "out"
    entry,        \* the row: status, attempt_count, whether next_attempt_at has come, whether
                  \* processing_at is five minutes ago, whether it has an external_message_id
    log,          \* delivery_status of the chat message, "none" for an inbound one
    worker,       \* what each process is doing
    gateway,      \* the POST /v1/send of each process, which outlives its caller
    copies,       \* how often WhatsApp, or the pipeline, has got the message: once,
                  \* twice, or more than that, which is the same here
    mishaps,      \* deaths and dispatches on demand so far
    excused,      \* two processes took up the row at once, a success was not heard of, or
                  \* a process died or was slow with the row in hand (history)
    resent        \* an operator has pressed "send again" (history)

history == <<mishaps, excused, resent>>

messageVars == <<direction, entry, log, worker, gateway, copies, history>>

-----------------------------------------------------------------------------

Waiting == {"pending", "received", "retrying"}

\* "sent" is sent, delivered or read: the code tells them apart nowhere.
Statuses == {"absent", "processing", "failed", "processed", "sent"} \cup Waiting

Steps == {"idle", "load", "take", "call", "wait", "apply", "fail", "give_up", "process",
          "finish", "raise", "resend", "enqueue", "refresh", "finalize", "linger"}

Makers == {"background", "bot", "operator"}

\* operator: the process serves admin_send_message; fair: it has made the row
\* or seen it due.
Idle == [at |-> "idle", operator |-> FALSE, fair |-> FALSE, taken |-> FALSE, attempts |-> 0]

Calls == {"none", "asked", "reporting", "failing", "ok", "error"}

MessageInit ==
    /\ direction \in {"in", "out"}
    /\ entry = [status |-> "absent", attempts |-> 0, due |-> TRUE, stale |-> FALSE, external |-> FALSE]
    /\ log = IF direction = "in" THEN "none" ELSE "sending"
    /\ worker = [w \in Workers |-> Idle]
    /\ gateway = [w \in Workers |-> "none"]
    /\ copies = 0
    /\ mishaps = 0
    /\ excused = FALSE /\ resent = FALSE

At(w, s) == worker[w].at = s

Becomes(w, x) == worker' = [worker EXCEPT ![w] = x]

Move(w, s) == Becomes(w, [worker[w] EXCEPT !.at = s])

\* The gateway's end of the call of process w.
Replies(w, s) == gateway' = [gateway EXCEPT ![w] = s]

\* The process is free again once a call it has given up is over.
Rest(w) ==
    IF gateway[w] \in {"none", "ok", "error"}
    THEN Becomes(w, Idle) /\ Replies(w, "none")
    ELSE Becomes(w, [Idle EXCEPT !.at = "linger"]) /\ UNCHANGED gateway

Rested(w) ==
    /\ At(w, "linger") /\ gateway[w] \in {"ok", "error"}
    /\ Rest(w)
    /\ UNCHANGED <<direction, entry, log, copies, history>>

\* A status is applied to the row and to its chat message.
Applied(status) ==
    /\ entry' = [entry EXCEPT !.status = status, !.external = @ \/ status = "sent"]
    /\ log' = status

-----------------------------------------------------------------------------
(* Who takes up the row. *)

\* The row is made: by the gateway's POST /inbound, whose repetitions find it
\* (unique key), by a reply of the bot or by a message of an operator.
Make(w, k) ==
    /\ At(w, "idle")
    /\ entry.status = "absent"
    /\ \/ k = "background" /\ direction = "in"
       \/ k = "bot" /\ direction = "out"
       \/ k = "operator" /\ direction = "out"
    /\ entry' = [entry EXCEPT !.status = IF direction = "in" THEN "received" ELSE "pending"]
    /\ Becomes(w, [Idle EXCEPT !.at = "load", !.operator = (k = "operator"), !.fair = TRUE])
    /\ UNCHANGED <<direction, log, gateway, copies, history>>

\* list_due_inbound_messages, list_due_outbound_messages
Due ==
    \/ entry.status \in Waiting /\ entry.due
    \/ entry.status = "processing" /\ entry.stale

\* Mutant of Listed: the cron lists whatever is not final.
ListedUnsettled == entry.status \in Waiting \cup {"processing"}

Listed == Due

\* The cron's list is made here and worked off later.
List(w) ==
    /\ At(w, "idle")
    /\ Listed
    /\ Becomes(w, [Idle EXCEPT !.at = "load", !.fair = Due])
    /\ UNCHANGED <<direction, entry, log, gateway, copies, history>>

\* POST /gateway/outbound/{id}/dispatch, for any row at any time.
OnDemand(w) ==
    /\ At(w, "idle")
    /\ direction = "out" /\ entry.status # "absent"
    /\ mishaps < MaxMishaps
    /\ mishaps' = mishaps + 1
    /\ excused' = TRUE
    /\ Move(w, "load")
    /\ UNCHANGED <<direction, entry, log, gateway, copies, resent>>

-----------------------------------------------------------------------------
(* dispatch_outbound_message and process_channel_message up to the call. *)

\* A process that made or listed the row finds that another has it.
Races(w) == excused' = (excused \/ (worker[w].fair /\ ~Due))

Load(w) ==
    /\ At(w, "load")
    /\ Becomes(w, [worker[w] EXCEPT !.at = "take", !.taken = entry.status = "processing",
                                             !.attempts = entry.attempts])
    /\ Races(w)
    /\ UNCHANGED <<direction, entry, log, gateway, copies, mishaps, resent>>

\* Attempts beyond the last make no difference.
Attempt(n) == IF n < MaxAttempts THEN n + 1 ELSE n

\* Not a claim: nothing is asked of the status, and only columns that differ
\* from those loaded are written.
Take(w) ==
    /\ At(w, "take")
    /\ LET n == Attempt(worker[w].attempts)
       IN /\ entry' = [entry EXCEPT !.status = IF worker[w].taken THEN @ ELSE "processing",
                                !.attempts = n, !.stale = FALSE]
          /\ Becomes(w, IF direction = "in" THEN [Idle EXCEPT !.at = "process"]
                        ELSE [Idle EXCEPT !.at = "call", !.attempts = n,
                                          !.operator = worker[w].operator])
    /\ Races(w)
    /\ UNCHANGED <<direction, log, gateway, copies, mishaps, resent>>

-----------------------------------------------------------------------------
(* The call to the gateway, and the gateway (server.js, /v1/send). *)

Post(w) ==
    /\ At(w, "call")
    /\ Move(w, "wait")
    /\ Replies(w, "asked")
    /\ UNCHANGED <<direction, entry, log, copies, history>>

\* MESSAGING_GATEWAY_URL is not set.
NoGateway(w) ==
    /\ At(w, "call")
    /\ Move(w, "give_up")
    /\ UNCHANGED <<direction, entry, log, gateway, copies, history>>

\* No such connection (409), or sendMessage throws.
Refuse(w) ==
    /\ gateway[w] = "asked"
    /\ \E s \in {"error", "failing"} : Replies(w, s)
    /\ UNCHANGED <<direction, entry, log, worker, copies, history>>

Another == IF copies = 0 THEN 1 ELSE 2

\* Mutant of Accept: the gateway reports before it sends, and does not send.
AcceptUnsent(w) ==
    /\ gateway[w] = "asked"
    /\ Replies(w, "reporting")
    /\ UNCHANGED <<direction, entry, log, worker, copies, history>>

\* WhatsApp takes the message; the idempotency key is not looked at.
Accept(w) ==
    /\ gateway[w] = "asked"
    /\ copies' = Another
    /\ Replies(w, "reporting")
    /\ UNCHANGED <<direction, entry, log, worker, history>>

\* The gateway tells the application before it answers the caller.  When that
\* fails it reports and answers a failure, although the message is out.
Report(w) ==
    /\ gateway[w] = "reporting"
    /\ \/ Applied("sent") /\ Replies(w, "ok") /\ UNCHANGED excused
       \/ /\ "call" \in CallFaults
          /\ Applied("sent") \/ UNCHANGED <<entry, log>>
          /\ Replies(w, "failing")
          /\ excused' = TRUE
    /\ UNCHANGED <<direction, worker, copies, mishaps, resent>>

ReportFailure(w) ==
    /\ gateway[w] = "failing"
    /\ Replies(w, "error")
    /\ Applied("failed") \/ UNCHANGED <<entry, log>>
    /\ UNCHANGED <<direction, worker, copies, history>>

\* The caller hears of an outcome, or of none: a timeout, or a broken
\* connection to a gateway that may be dead or still at work.
Hear(w) ==
    /\ At(w, "wait")
    /\ \/ gateway[w] = "ok" /\ Move(w, "apply") /\ UNCHANGED excused
       \/ gateway[w] = "error" /\ Move(w, "fail") /\ UNCHANGED excused
       \/ /\ "call" \in CallFaults
          /\ gateway[w] # "error"
          /\ Move(w, "fail")
          /\ excused' = TRUE
    /\ UNCHANGED <<direction, entry, log, gateway, copies, mishaps, resent>>

-----------------------------------------------------------------------------
(* After the call. *)

\* An operator's request looks at the chat message once more.
AfterSend(w) ==
    IF worker[w].operator
    THEN Becomes(w, [Idle EXCEPT !.at = "refresh", !.operator = TRUE]) /\ UNCHANGED gateway
    ELSE Rest(w)

Apply(w) ==
    /\ At(w, "apply")
    /\ Applied("sent")
    /\ AfterSend(w)
    /\ UNCHANGED <<direction, copies, history>>

\* Mutant of FinalAfter: a failure is always retried.
FinalNever(attempts) == FALSE

FinalAfter(attempts) == attempts >= MaxAttempts

\* _mark_outbound_failed, whatever the status is by now.
MarkFailed(w) ==
    /\ worker[w].at \in {"fail", "give_up"}
    /\ LET final == At(w, "give_up") \/ FinalAfter(worker[w].attempts)
       IN entry' = [entry EXCEPT !.status = IF final THEN "failed" ELSE "retrying", !.due = final]
    /\ log' = "failed"
    /\ AfterSend(w)
    /\ UNCHANGED <<direction, copies, history>>

Outcome(w) == Apply(w) \/ MarkFailed(w)

-----------------------------------------------------------------------------
(* process_inbound_message and what follows.  A message whose retries are     *)
(* used up inside, or which waits in the chat's queue, counts as processed.  *)

Pipeline(w) ==
    /\ At(w, "process")
    /\ copies' \in {copies, Another}
    /\ \/ Move(w, "finish") /\ UNCHANGED excused
       \/ "call" \in CallFaults /\ Move(w, "raise") /\ excused' = (excused \/ copies' # copies)
    /\ UNCHANGED <<direction, entry, log, gateway, mishaps, resent>>

Finish(w) ==
    /\ At(w, "finish")
    /\ entry' = [entry EXCEPT !.status = "processed", !.due = TRUE]
    /\ Rest(w)
    /\ UNCHANGED <<direction, log, copies, history>>

\* The row is read again: its attempts, not the process's, decide.
PipelineRaises(w) ==
    /\ At(w, "raise")
    /\ entry' = [entry EXCEPT !.status = IF FinalAfter(entry.attempts) THEN "failed" ELSE "retrying",
                          !.due = FALSE]
    /\ Rest(w)
    /\ UNCHANGED <<direction, log, copies, history>>

-----------------------------------------------------------------------------
(* The operator: what is left to do after a send, and "send again". *)

\* resend_failed_chat_message: asked of the message as loaded; once here.
Resend(w) ==
    /\ At(w, "idle")
    /\ log = "failed" /\ ~resent
    /\ resent' = TRUE
    /\ Move(w, "resend")
    /\ UNCHANGED <<direction, entry, log, gateway, copies, mishaps, excused>>

Resending(w) ==
    /\ At(w, "resend")
    /\ log' = "sending"
    /\ Move(w, "enqueue")
    /\ UNCHANGED <<direction, entry, gateway, copies, history>>

\* The idempotency key is made of the chat message and its text: the second
\* row of the same message breaks the unique index, and nothing is sent.  (The
\* resend strips the text and makes the address from the phone: with a text
\* that has blanks at its ends, or an address that is no phone number, the key
\* is another, and so is the row, which is not the one of this module.)
EnqueueAgain(w) ==
    /\ At(w, "enqueue")
    /\ entry.status # "absent"
    /\ Move(w, "refresh")
    /\ UNCHANGED <<direction, entry, log, gateway, copies, history>>

Refresh(w) ==
    /\ At(w, "refresh")
    /\ IF log = "sending" THEN Move(w, "finalize") /\ UNCHANGED gateway ELSE Rest(w)
    /\ UNCHANGED <<direction, entry, log, copies, history>>

Finalize(w) ==
    /\ At(w, "finalize")
    /\ log' = IF worker[w].operator THEN "sent" ELSE "failed"
    /\ Rest(w)
    /\ UNCHANGED <<direction, entry, copies, history>>

-----------------------------------------------------------------------------
(* WhatsApp's own reports, time, and faults. *)

\* messages.update: posted by external id, late, any number of times, or not.
Ack ==
    /\ entry.external
    /\ Applied("sent")
    /\ UNCHANGED <<direction, worker, gateway, copies, history>>

\* next_attempt_at comes.
BackoffEnds ==
    /\ entry.status = "retrying" /\ ~entry.due
    /\ entry' = [entry EXCEPT !.due = TRUE]
    /\ UNCHANGED <<direction, log, worker, gateway, copies, history>>

\* Between taking a row and writing its outcome.
Holds(w) ==
    worker[w].at \in {"call", "wait", "apply", "fail", "give_up", "process", "finish", "raise"}

\* Five minutes have passed.  A send ends before, by its timeout; the pipeline
\* may not.
GoesStale ==
    /\ entry.status = "processing" /\ ~entry.stale
    /\ (\E w \in Workers : Holds(w)) => direction = "in" /\ "slow" \in CallFaults
    /\ entry' = [entry EXCEPT !.stale = TRUE]
    /\ excused' = (excused \/ \E w \in Workers : Holds(w))
    /\ UNCHANGED <<direction, log, worker, gateway, copies, mishaps, resent>>

\* The process dies, or its job is cancelled after 300 s.
Dies(w) ==
    /\ worker[w].at \notin {"idle", "linger"}
    /\ mishaps < MaxMishaps
    /\ mishaps' = mishaps + 1
    /\ Rest(w)
    /\ excused' = (excused \/ Holds(w))
    /\ UNCHANGED <<direction, entry, log, copies, resent>>

-----------------------------------------------------------------------------

Gateway(w) == Refuse(w) \/ Accept(w) \/ Report(w) \/ ReportFailure(w)

Dispatch(w) ==
    \/ Load(w) \/ Take(w) \/ Post(w) \/ NoGateway(w) \/ Hear(w) \/ Outcome(w)
    \/ Pipeline(w) \/ Finish(w) \/ PipelineRaises(w)
    \/ Resending(w) \/ EnqueueAgain(w) \/ Refresh(w) \/ Finalize(w)
    \/ Rested(w)

Time == BackoffEnds \/ GoesStale

MessageNext ==
    \/ \E w \in Workers :
        \/ \E k \in Makers : Make(w, k)
        \/ List(w) \/ OnDemand(w) \/ Resend(w) \/ Dispatch(w) \/ Gateway(w) \/ Dies(w)
    \/ Ack
    \/ Time

\* The event loop runs what is started, the gateway handles what it is asked,
\* time passes, and the cron ticks every minute.
MessageFairness ==
    /\ \A w \in Workers : WF_messageVars(Dispatch(w)) /\ WF_messageVars(Gateway(w))
    /\ WF_messageVars(\E w \in Workers : List(w))
    /\ WF_messageVars(BackoffEnds) /\ WF_messageVars(GoesStale)

MessageSpec == MessageInit /\ [][MessageNext]_messageVars /\ MessageFairness
-----------------------------------------------------------------------------
(* Properties. *)

\* Rows, processes and calls take only the values the code knows, and the
\* attempts are counted up to the limit.
MessageTypeOK ==
    /\ direction \in {"in", "out"}
    /\ entry \in [status : Statuses, attempts : 0..MaxAttempts, due : BOOLEAN,
                stale : BOOLEAN, external : BOOLEAN]
    /\ log \in {"none", "sending", "sent", "failed"}
    /\ worker \in [Workers -> [at : Steps, operator : BOOLEAN, fair : BOOLEAN,
                               taken : BOOLEAN, attempts : 0..MaxAttempts]]
    /\ gateway \in [Workers -> Calls]
    /\ copies \in 0..2 /\ mishaps \in 0..MaxMishaps
    /\ excused \in BOOLEAN /\ resent \in BOOLEAN

\* Staff see "sent" only when WhatsApp has the message: in the row always, in
\* the chat up to a second operator who sends it again meanwhile.
SentMeansAccepted ==
    /\ entry.status = "sent" => copies > 0
    /\ log = "sent" => copies > 0 \/ resent

\* The guest gets a message twice, or the pipeline processes it twice, only
\* after a race of two that both found it due, a success that was not
\* reported, a pipeline slower than five minutes, a death, or on demand: the
\* retries themselves, the cron and repeated events do not duplicate.
DuplicateNeedsCause == copies > 1 => excused

\* A message does not hang: it is sent, processed or given up, whatever fails,
\* as long as processes do not die for ever.
Settles ==
    entry.status \in Waiting \cup {"processing"}
        ~> entry.status \in {"sent", "failed", "processed"}

-----------------------------------------------------------------------------
(* What the documentation says and the code does not do. *)

\* docs/MESSAGING_GATEWAY_MVP.md: a worker claims a message atomically, and a
\* repetition makes no second reply.  So with nobody dead, slow or unheard
\* (CallFaults = {}, no mishaps) the message is delivered once.
OnceEach == copies <= 1
=============================================================================
