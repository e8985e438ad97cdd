---------------------------- MODULE AgentActions ----------------------------
(***************************************************************************)
(* Actions the agent proposes and the staff decide.                        *)
(*                                                                         *)
(* Senders (the hourly insight delivery, the daily digest, the weekly      *)
(* digest of the cron and of the panel) put a proposal into the database   *)
(* and its confirmation link into a Telegram message, each in one          *)
(* transaction that ends after the message went out.  Requests of the      *)
(* staff (preview, confirm, reject in the panel, the link of Telegram)     *)
(* read a proposal, wait for the command, and write it by its primary key: *)
(* PostgreSQL makes the second of two writers wait for the first one's     *)
(* commit, and nothing makes it look at the row again.                     *)
(*                                                                         *)
(* One insight of one restaurant and one period of each digest.  A request *)
(* that finds the proposal in a state it refuses changes nothing and is no *)
(* step.  Proposals are numbered in the order of their insertion.          *)
(***************************************************************************)
EXTENDS Naturals

CONSTANTS
    Senders,       \* the senders at work, a subset of AllSenders
    Requests,      \* requests of the staff under way at one time
    MaxProposals,  \* bound on the proposals ever inserted
    MaxMishaps,    \* bound on senders that die and messages not heard to arrive
    NoProposal     \* a value that is not a proposal

AllSenders == {"deliver", "daily", "weekly", "admin"}

ASSUME SendersAssumption == Senders \subseteq AllSenders
ASSUME BoundsAssumption  == MaxProposals \in Nat /\ MaxMishaps \in Nat
ASSUME NoProposalAssumption == NoProposal \notin 1..MaxProposals

VARIABLES
    row,        \* agent_action_proposals: status, idempotency key, whether a preview is stored
    linked,     \* proposals whose link reached the owner's chat
    sender,     \* what each sender is doing, in its open transaction
    once,       \* the cron senders whose key for this period is in Redis
    delivered,  \* an InsightDelivery row of the insight is committed
    request,    \* what each request is doing, in its open transaction
    effects,    \* how often the command of each proposal was carried out, counted to 2
    rejected,   \* proposals whose rejection was committed
    told,       \* messages about the insight that reached the chat, counted to 2
    lost,       \* proposals a request wrote over a status it had not seen
    overlap,    \* keys two senders held uncommitted proposals of at one time
    mishaps     \* senders that died and messages not heard to arrive so far

data    == <<row, linked, once, delivered>>
history == <<effects, rejected, told, lost, overlap, mishaps>>
vars    == <<data, sender, request, history>>

Proposals == 1..MaxProposals
Kinds     == {"preview", "confirm", "link", "reject"}

\* Statuses other transactions can see; "free" numbers are not used yet,
\* "pending" rows are inserted and not committed, "void" ones rolled back.
Visible  == {"proposed", "previewed", "applied", "rejected"}
Statuses == Visible \cup {"free", "pending", "void"}

\* The idempotency key under which a sender proposes.
Key(s) == CASE s = "deliver" -> "insight"
            [] s = "daily"   -> "daily"
            [] OTHER         -> "weekly"
Keys == {"insight", "daily", "weekly"}

\* Senders that take a key in Redis before anything else, once per period.
ClaimsKey(s) == s \in {"daily", "weekly"}

\* Senders whose session is committed at the end.  daily_os_digest closes
\* its session without a commit.
Commits(s) == s # "daily"

\* Senders whose transaction survives a message that did not go out: the
\* delivery is recorded as failed, the weekly cron records the failure.
CommitsFailure(s) == s \in {"deliver", "weekly"}

SenderIdle  == [pc |-> "idle", p |-> NoProposal]
RequestIdle == [pc |-> "idle", kind |-> "preview", p |-> NoProposal, seen |-> "free"]

\* Rows, transactions and requests; a request works on a committed proposal.
RowType     == row \in [Proposals -> [status : Statuses, key : Keys, preview : BOOLEAN]]
SenderType  == sender \in [Senders -> [pc : {"idle", "proposed", "ending"},
                                       p  : Proposals \cup {NoProposal}]]
RequestType == request \in [Requests -> [pc : {"idle", "read", "written"}, kind : Kinds,
                                         p : Proposals \cup {NoProposal}, seen : Visible \cup {"free"}]]
SenderHas   == \A s \in Senders : sender[s].pc # "idle" => sender[s].p \in Proposals
RequestHas  == \A r \in Requests : request[r].pc # "idle" =>
                  request[r].p \in Proposals /\ row[request[r].p].status \in Visible

\* What is recorded beside them.
RecordType ==
    /\ linked \cup rejected \cup lost \subseteq Proposals
    /\ once \subseteq Senders /\ overlap \subseteq Keys
    /\ delivered \in BOOLEAN
CountType == effects \in [Proposals -> 0..2] /\ told \in 0..2 /\ mishaps \in 0..MaxMishaps

\* Every variable keeps its type, and what is worked on exists.
TypeOK == /\ RowType /\ SenderType /\ RequestType /\ SenderHas /\ RequestHas
          /\ RecordType /\ CountType

Init ==
    /\ row = [p \in Proposals |-> [status |-> "free", key |-> "insight", preview |-> FALSE]]
    /\ linked = {}
    /\ sender = [s \in Senders |-> SenderIdle]
    /\ once = {}
    /\ delivered = FALSE
    /\ request = [r \in Requests |-> RequestIdle]
    /\ effects = [p \in Proposals |-> 0]
    /\ rejected = {}
    /\ told = 0
    /\ lost = {}
    /\ overlap = {}
    /\ mishaps = 0

-----------------------------------------------------------------------------
\* Senders.

\* Bug: the deliveries made before are not looked at.
DueAlways(s) == TRUE

\* An insight with a delivery is passed over.
Due(s) == s = "deliver" => ~delivered

\* Bug: only an undecided proposal that nobody looked at yet counts.
ExistingProposed(key) == {p \in Proposals : row[p].key = key /\ row[p].status = "proposed"}

\* Proposals propose_agent_action returns instead of making one.
Existing(key) ==
    {p \in Proposals : row[p].key = key /\ row[p].status \in Visible \ {"rejected"}}

Holding(key) == {s \in Senders : /\ sender[s].p # NoProposal
                                 /\ row[sender[s].p].status = "pending"
                                 /\ row[sender[s].p].key = key}

\* The newest of some proposals.
Newest(ps) == {p \in ps : \A q \in ps : q <= p}

\* A tick of the cron, or the button of the panel: the key of the period is
\* taken, the newest live proposal of the idempotency key is used, and
\* without one a row is added.
Propose(s) ==
    /\ sender[s].pc = "idle"
    /\ Due(s)
    /\ s \notin once
    /\ once' = IF ClaimsKey(s) THEN once \cup {s} ELSE once
    /\ \/ \E p \in Newest(Existing(Key(s))) :
             /\ sender' = [sender EXCEPT ![s] = [pc |-> "proposed", p |-> p]]
             /\ UNCHANGED <<row, overlap>>
       \/ \E p \in Proposals :
             /\ Existing(Key(s)) = {}
             /\ row[p].status = "free" /\ \A q \in 1..(p - 1) : row[q].status # "free"
             /\ sender' = [sender EXCEPT ![s] = [pc |-> "proposed", p |-> p]]
             /\ row' = [row EXCEPT ![p] = [status |-> "pending", key |-> Key(s), preview |-> FALSE]]
             /\ overlap' = IF Holding(Key(s)) # {} THEN overlap \cup {Key(s)} ELSE overlap
    /\ UNCHANGED <<linked, delivered, request, effects, rejected, told, lost, mishaps>>

\* The end of the sender's transaction: the proposal it inserted appears or
\* is gone, and with it the record that the insight was delivered.
Settled(s, commit) ==
    [row EXCEPT ![sender[s].p].status =
        IF @ = "pending" THEN (IF commit THEN "proposed" ELSE "void") ELSE @]

\* The message with the link.  It may have reached the chat although the
\* sender heard an error.
Send(s) ==
    /\ sender[s].pc = "proposed"
    /\ \E reached, heard \in BOOLEAN :
          /\ heard => reached
          /\ mishaps' = mishaps + (IF heard THEN 0 ELSE 1)
          /\ mishaps' <= MaxMishaps
          /\ linked' = IF reached THEN linked \cup {sender[s].p} ELSE linked
          /\ told' = IF reached /\ s = "deliver" /\ told < 2 THEN told + 1 ELSE told
          /\ IF heard \/ CommitsFailure(s)
               THEN /\ sender' = [sender EXCEPT ![s].pc = "ending"]
                    /\ UNCHANGED row
               ELSE /\ sender' = [sender EXCEPT ![s] = SenderIdle]
                    /\ row' = Settled(s, FALSE)
    /\ UNCHANGED <<once, delivered, request, effects, rejected, lost, overlap>>

Finish(s) ==
    /\ sender[s].pc = "ending"
    /\ row' = Settled(s, Commits(s))
    /\ delivered' = (delivered \/ s = "deliver")
    /\ sender' = [sender EXCEPT ![s] = SenderIdle]
    /\ UNCHANGED <<linked, once, request, history>>

\* The process dies, or an exception goes through the session: a rollback.
SenderFails(s) ==
    /\ mishaps < MaxMishaps
    /\ sender[s].pc # "idle"
    /\ row' = Settled(s, FALSE)
    /\ sender' = [sender EXCEPT ![s] = SenderIdle]
    /\ mishaps' = mishaps + 1
    /\ UNCHANGED <<linked, once, delivered, request, effects, rejected, told, lost, overlap>>

-----------------------------------------------------------------------------
\* Requests of the staff.

\* Bug: an applied proposal can be confirmed again.
AcceptsApplied(kind) == IF kind = "confirm" THEN {"previewed", "applied"} ELSE {"proposed", "previewed"}

\* Statuses each request goes on from; every command of the registry wants a
\* preview before it is confirmed, and the link makes the missing one itself.
Accepts(kind) ==
    IF kind = "confirm" THEN {"previewed"} ELSE {"proposed", "previewed"}

Begin(r) ==
    /\ request[r].pc = "idle"
    /\ \E kind \in Kinds, p \in Proposals :
          /\ kind = "link" => p \in linked
          /\ row[p].status \in Accepts(kind)
          /\ request' = [request EXCEPT ![r] =
                [pc |-> "read", kind |-> kind, p |-> p, seen |-> row[p].status]]
    /\ UNCHANGED <<data, sender, history>>

Carries(kind) == kind \in {"confirm", "link"}

\* Bug: the intermediate status of a confirmation is the one that stays.
LeavesConfirmed(r) == IF Carries(request[r].kind) THEN "confirmed" ELSE "rejected"

\* The status a request leaves.  The mapper writes a column only when it
\* differs from what was read: a second preview leaves the status alone.
Leaves(r) ==
    LET kind == request[r].kind IN
    CASE kind \in {"confirm", "link"}                          -> "applied"
      [] kind = "reject"                                       -> "rejected"
      [] kind = "preview" /\ request[r].seen = "proposed"      -> "previewed"
      [] kind = "preview" /\ request[r].seen # "proposed"      -> row[request[r].p].status

StoresPreview(r) == \/ request[r].kind = "preview"
                    \/ request[r].kind = "link" /\ request[r].seen = "proposed"

\* A write that undoes or repeats what was committed after the read.
Overwrites(r) ==
    LET now == row[request[r].p].status IN
    now # request[r].seen /\ (Carries(request[r].kind) \/ Leaves(r) # now)

\* UPDATE by primary key: waits while another transaction holds the row.
Write(r) ==
    /\ request[r].pc = "read"
    /\ \A q \in Requests : ~(request[q].pc = "written" /\ request[q].p = request[r].p)
    /\ request' = [request EXCEPT ![r].pc = "written"]
    /\ lost' = IF Overwrites(r) THEN lost \cup {request[r].p} ELSE lost
    /\ UNCHANGED <<data, sender, effects, rejected, told, overlap, mishaps>>

\* The command is carried out in the same transaction, then it commits.
Commit(r) ==
    LET p == request[r].p IN
    /\ request[r].pc = "written"
    /\ row' = [row EXCEPT ![p].status = Leaves(r),
                          ![p].preview = @ \/ StoresPreview(r)]
    /\ effects' = IF Carries(request[r].kind) /\ effects[p] < 2
                    THEN [effects EXCEPT ![p] = @ + 1] ELSE effects
    /\ rejected' = IF request[r].kind = "reject" THEN rejected \cup {p} ELSE rejected
    /\ request' = [request EXCEPT ![r] = RequestIdle]
    /\ UNCHANGED <<linked, once, delivered, sender, told, lost, overlap, mishaps>>

\* The command refuses the role or fails, or the process dies: a rollback.
Abort(r) ==
    /\ request[r].pc # "idle"
    /\ request' = [request EXCEPT ![r] = RequestIdle]
    /\ UNCHANGED <<data, sender, history>>

Next ==
    \/ \E s \in Senders : Propose(s) \/ Send(s) \/ Finish(s) \/ SenderFails(s)
    \/ \E r \in Requests : Begin(r) \/ Write(r) \/ Commit(r) \/ Abort(r)

Spec == Init /\ [][Next]_vars

-----------------------------------------------------------------------------
\* Properties.

\* A proposal is decided once: its command is carried out at most once and
\* never together with a rejection, unless a request wrote over a status that
\* had changed since it read it (confirm_agent_action reads without a lock).
\* No order of requests that see each other's commits gets there.
DecidedOnce ==
    \A p \in Proposals \ lost :
        /\ effects[p] < 2
        /\ ~(effects[p] > 0 /\ p \in rejected)

\* No command is carried out that nobody was shown a preview of.
PreviewedFirst == \A p \in Proposals : effects[p] > 0 => row[p].preview

\* Two live proposals of one idempotency key (propose_agent_action looks the
\* key up and then inserts, nothing is unique) are two senders that looked
\* before either committed, or a rejected proposal a stale write brought back.
DuplicateNeedsOverlap ==
    \A p, q \in Proposals :
        (/\ p # q
         /\ row[p].key = row[q].key
         /\ {row[p].status, row[q].status} \subseteq {"proposed", "previewed", "applied"})
            => row[p].key \in overlap \/ lost # {}

\* The owner hears of an insight twice only when the delivery died between
\* its message and its commit.
ResentNeedsMishap == told > 1 => mishaps > 0

\* A link in the chat whose senders are done leads to a stored proposal, when
\* no sender died and every message was heard to arrive: the digests are built to carry
\* links the owner can confirm.
LinkLeadsToProposal ==
    (mishaps = 0 /\ \A s \in Senders : sender[s].pc = "idle")
        => \A p \in linked : row[p].status \in Visible
=============================================================================
