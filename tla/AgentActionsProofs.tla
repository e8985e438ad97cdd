-------------------------- MODULE AgentActionsProofs --------------------------
(***************************************************************************)
(* Theorems about AgentActions, for any of the senders, any number of      *)
(* requests and proposals and any number of mishaps.                       *)
(***************************************************************************)
EXTENDS AgentActions, TLAPS

USE BoundsAssumption, NoProposalAssumption

-----------------------------------------------------------------------------
(* What the steps do to the rows *)

\* The end of a sender's transaction decides a pending proposal, and nothing else.
LEMMA SettledRow ==
    ASSUME TypeOK, NEW s \in Senders, sender[s].pc # "idle", NEW commit \in BOOLEAN,
           row' = Settled(s, commit)
    PROVE  /\ RowType'
           /\ \A p \in Proposals :
                 /\ row'[p].key = row[p].key /\ row'[p].preview = row[p].preview
                 /\ row'[p].status # row[p].status =>
                       /\ p = sender[s].p /\ row[p].status = "pending"
                       /\ row'[p].status \in {"proposed", "void"}
                 /\ p = sender[s].p => row'[p].status # "pending"
<1>1. sender[s].p \in Proposals
    BY DEF TypeOK, SenderHas
<1>2. row' = [row EXCEPT ![sender[s].p].status =
                  IF @ = "pending" THEN (IF commit THEN "proposed" ELSE "void") ELSE @]
    BY DEF Settled
<1> QED BY <1>1, <1>2 DEF TypeOK, RowType, Statuses, Visible

\* The commit of a request: the proposal stays visible, its key stays, and a
\* preview is never taken back.
LEMMA CommittedRow ==
    ASSUME TypeOK, NEW r \in Requests, Commit(r)
    PROVE  /\ request[r].p \in Proposals /\ row[request[r].p].status \in Visible
           /\ RowType'
           /\ \A p \in Proposals :
                 /\ row'[p].key = row[p].key
                 /\ p # request[r].p => row'[p] = row[p]
                 /\ p = request[r].p => /\ row'[p].status = Leaves(r)
                                        /\ row'[p].preview = (row[p].preview \/ StoresPreview(r))
           /\ Leaves(r) \in Visible
<1>1. request[r].p \in Proposals /\ row[request[r].p].status \in Visible
    BY DEF TypeOK, RequestHas, Commit
<1>2. Leaves(r) \in Visible
    BY <1>1 DEF TypeOK, RequestType, Kinds, Leaves, Visible
<1>3. row' = [row EXCEPT ![request[r].p].status = Leaves(r),
                         ![request[r].p].preview = @ \/ StoresPreview(r)]
    BY DEF Commit
<1>4. StoresPreview(r) \in BOOLEAN
    BY DEF StoresPreview
<1>5. RowType'
    BY <1>1, <1>2, <1>3, <1>4 DEF TypeOK, RowType, Statuses
<1>6. ASSUME NEW p \in Proposals
      PROVE  /\ row'[p].key = row[p].key
             /\ p # request[r].p => row'[p] = row[p]
             /\ p = request[r].p => /\ row'[p].status = Leaves(r)
                                    /\ row'[p].preview = (row[p].preview \/ StoresPreview(r))
    BY <1>1, <1>3 DEF TypeOK, RowType
<1> QED BY <1>1, <1>2, <1>5, <1>6

\* A proposal is either reused as it is, or a free number becomes pending.
LEMMA ProposedRow ==
    ASSUME TypeOK, NEW s \in Senders, Propose(s)
    PROVE  /\ RowType'
           /\ \E p \in Proposals :
                 /\ sender' = [sender EXCEPT ![s] = [pc |-> "proposed", p |-> p]]
                 /\ \A q \in Proposals : q # p => row'[q] = row[q]
                 /\ \/ row' = row /\ overlap' = overlap
                    \/ /\ row[p].status = "free" /\ row'[p].status = "pending"
                       /\ row'[p].key = Key(s) /\ Existing(Key(s)) = {}
                       /\ overlap' = IF Holding(Key(s)) # {} THEN overlap \cup {Key(s)} ELSE overlap
<1>1. CASE \E p \in Newest(Existing(Key(s))) :
              /\ sender' = [sender EXCEPT ![s] = [pc |-> "proposed", p |-> p]]
              /\ UNCHANGED <<row, overlap>>
    BY <1>1 DEF TypeOK, RowType, Newest, Existing
<1>2. ASSUME NEW p \in Proposals, Existing(Key(s)) = {}, row[p].status = "free",
             sender' = [sender EXCEPT ![s] = [pc |-> "proposed", p |-> p]],
             row' = [row EXCEPT ![p] = [status |-> "pending", key |-> Key(s), preview |-> FALSE]],
             overlap' = IF Holding(Key(s)) # {} THEN overlap \cup {Key(s)} ELSE overlap
      PROVE  /\ RowType'
             /\ \A q \in Proposals : q # p => row'[q] = row[q]
             /\ row'[p].status = "pending" /\ row'[p].key = Key(s)
    <2>1. Key(s) \in Keys
        BY DEF Key, Keys
    <2> QED BY <1>2, <2>1 DEF TypeOK, RowType, Statuses
<1> QED BY <1>1, <1>2 DEF Propose

-----------------------------------------------------------------------------
(* Types *)

LEMMA TypeInit == Init => TypeOK
<1> SUFFICES ASSUME Init PROVE TypeOK
    OBVIOUS
<1> USE DEF Init
<1>1. RowType
    BY DEF RowType, Statuses, Keys
<1>2. SenderType /\ SenderHas
    BY DEF SenderType, SenderHas, SenderIdle
<1>3. RequestType /\ RequestHas
    BY DEF RequestType, RequestHas, RequestIdle, Kinds
<1>4. RecordType
    BY DEF RecordType
<1>5. CountType
    BY DEF CountType
<1> QED BY <1>1, <1>2, <1>3, <1>4, <1>5 DEF TypeOK

\* A row that was visible stays so, which is all a request needs of the others.
LEMMA RequestsKept ==
    ASSUME TypeOK, UNCHANGED request,
           \A p \in Proposals : row[p].status \in Visible => row'[p].status \in Visible
    PROVE  RequestType' /\ RequestHas'
BY DEF TypeOK, RequestType, RequestHas

LEMMA TypeSender ==
    ASSUME TypeOK, NEW s \in Senders, Propose(s) \/ Send(s) \/ Finish(s) \/ SenderFails(s)
    PROVE  TypeOK'
<1>0. /\ SenderType /\ SenderHas /\ RecordType /\ CountType
      /\ \A b \in BOOLEAN : sender[s].pc # "idle" /\ row' = Settled(s, b) =>
            RowType' /\ \A p \in Proposals : row[p].status \in Visible => row'[p].status \in Visible
    BY SettledRow DEF TypeOK, Visible
<1>1. CASE Propose(s)
    <2>1. RowType' /\ SenderType' /\ SenderHas'
        BY <1>0, <1>1, ProposedRow DEF SenderType, SenderHas
    <2>2. RequestType' /\ RequestHas'
        BY <1>1, ProposedRow, RequestsKept DEF Propose, Visible
    <2>3. RecordType'
        BY <1>0, <1>1 DEF Propose, RecordType, Key, Keys
    <2>4. CountType'
        BY <1>0, <1>1 DEF Propose, CountType
    <2> QED BY <2>1, <2>2, <2>3, <2>4 DEF TypeOK
<1>2. CASE Send(s)
    <2>1. /\ sender[s].pc = "proposed" /\ sender[s].p \in Proposals
          /\ sender' \in {[sender EXCEPT ![s].pc = "ending"], [sender EXCEPT ![s] = SenderIdle]}
          /\ row' = row \/ row' = Settled(s, FALSE)
          /\ linked' \in {linked, linked \cup {sender[s].p}}
          /\ UNCHANGED <<once, delivered, request, effects, rejected, lost, overlap>>
        BY <1>0, <1>2 DEF Send, SenderHas
    <2>2. told' \in 0..2 /\ mishaps' \in 0..MaxMishaps
        BY <1>0, <1>2 DEF Send, CountType
    <2>3. RowType' /\ RequestType' /\ RequestHas'
        BY <1>0, <2>1, RequestsKept DEF TypeOK, RowType
    <2>4. SenderType' /\ SenderHas'
        BY <1>0, <2>1 DEF SenderType, SenderHas, SenderIdle
    <2>5. RecordType' /\ CountType'
        BY <1>0, <2>1, <2>2 DEF RecordType, CountType
    <2> QED BY <2>3, <2>4, <2>5 DEF TypeOK
<1>3. CASE Finish(s) \/ SenderFails(s)
    <2>1. /\ sender[s].pc # "idle" /\ sender' = [sender EXCEPT ![s] = SenderIdle]
          /\ \E b \in BOOLEAN : row' = Settled(s, b)
          /\ UNCHANGED <<linked, once, request, effects, rejected, told, lost, overlap>>
        BY <1>3 DEF Finish, SenderFails, Commits, history
    <2>2. delivered' \in BOOLEAN
        BY <1>0, <1>3 DEF Finish, SenderFails, RecordType
    <2>3. mishaps' \in 0..MaxMishaps
        <3>1. mishaps \in 0..MaxMishaps
            BY <1>0 DEF CountType
        <3>2. CASE Finish(s)
            BY <3>1, <3>2 DEF Finish, history
        <3>3. CASE SenderFails(s)
            BY <3>1, <3>3 DEF SenderFails
        <3> QED BY <1>3, <3>2, <3>3
    <2>4. RowType' /\ RequestType' /\ RequestHas'
        BY <1>0, <2>1, RequestsKept
    <2>5. SenderType' /\ SenderHas'
        BY <1>0, <2>1 DEF SenderType, SenderHas, SenderIdle
    <2>6. RecordType' /\ CountType'
        BY <1>0, <2>1, <2>2, <2>3 DEF RecordType, CountType
    <2> QED BY <2>4, <2>5, <2>6 DEF TypeOK
<1> QED BY <1>1, <1>2, <1>3

LEMMA TypeRequest ==
    ASSUME TypeOK, NEW r \in Requests, Begin(r) \/ Write(r) \/ Commit(r) \/ Abort(r)
    PROVE  TypeOK'
<1>0. RequestType /\ RequestHas /\ RecordType /\ CountType
    BY DEF TypeOK
<1>1. CASE Begin(r)
    <2>1. UNCHANGED <<data, sender, history>>
        BY <1>1 DEF Begin
    <2>2. RequestType' /\ RequestHas'
        BY <1>0, <1>1, <2>1 DEF Begin, data, Accepts, Visible, RequestType, RequestHas
    <2> QED BY <2>1, <2>2 DEF TypeOK, data, history, RowType, SenderType, SenderHas, RecordType, CountType
<1>2. CASE Write(r)
    <2>1. UNCHANGED <<data, sender, effects, rejected, told, overlap, mishaps>>
          /\ request' = [request EXCEPT ![r].pc = "written"] /\ request[r].pc = "read"
        BY <1>2 DEF Write
    <2>2. RequestType' /\ RequestHas'
        BY <1>0, <2>1 DEF data, RequestType, RequestHas
    <2>3. lost' \subseteq Proposals
        BY <1>0, <1>2 DEF Write, RecordType, RequestHas
    <2> QED BY <2>1, <2>2, <2>3 DEF TypeOK, data, RowType, SenderType, SenderHas, RecordType, CountType
<1>3. CASE Commit(r)
    <2>1. /\ request[r].p \in Proposals /\ request' = [request EXCEPT ![r] = RequestIdle]
          /\ rejected' \in {rejected, rejected \cup {request[r].p}}
          /\ UNCHANGED <<linked, once, delivered, sender, told, lost, overlap, mishaps>>
        BY <1>3, CommittedRow DEF Commit
    <2>2. RowType' /\ \A p \in Proposals : row[p].status \in Visible => row'[p].status \in Visible
        BY <1>3, CommittedRow
    <2>3. RequestType' /\ RequestHas'
        BY <1>0, <2>1, <2>2 DEF RequestType, RequestHas, RequestIdle, Kinds
    <2>4. effects' \in [Proposals -> 0..2]
        BY <1>0, <1>3, <2>1 DEF Commit, CountType
    <2> QED BY <1>0, <2>1, <2>2, <2>3, <2>4 DEF TypeOK, SenderType, SenderHas, RecordType, CountType
<1>4. CASE Abort(r)
    <2>1. UNCHANGED <<data, sender, history>> /\ request' = [request EXCEPT ![r] = RequestIdle]
        BY <1>4 DEF Abort
    <2>2. RequestType' /\ RequestHas'
        BY <1>0, <2>1 DEF data, RequestType, RequestHas, RequestIdle, Kinds
    <2> QED BY <2>1, <2>2 DEF TypeOK, data, history, RowType, SenderType, SenderHas, RecordType, CountType
<1> QED BY <1>1, <1>2, <1>3, <1>4

LEMMA TypeNext == TypeOK /\ [Next]_vars => TypeOK'
<1> SUFFICES ASSUME TypeOK, [Next]_vars PROVE TypeOK'
    OBVIOUS
<1>1. CASE UNCHANGED vars
    BY <1>1 DEF vars, data, history, TypeOK, RowType, SenderType, SenderHas, RequestType, RequestHas,
                RecordType, CountType
<1> QED BY <1>1, TypeSender, TypeRequest DEF Next

\* Every variable keeps its type, and every request has a committed proposal
\* to work on, whatever the others commit or undo.
THEOREM TypeCorrect == Spec => []TypeOK
BY TypeInit, TypeNext, PTL DEF Spec

-----------------------------------------------------------------------------
(* Decisions *)

\* The row of a request that has written is its own until it commits.
OneWriter ==
    \A r, q \in Requests :
        request[r].pc = "written" /\ request[q].pc = "written" /\ request[r].p = request[q].p
            => r = q

\* What a request goes on from.
SeenOpen ==
    \A r \in Requests : request[r].pc # "idle" => request[r].seen \in {"proposed", "previewed"}

\* A write over an unseen status has been recorded as such.
WritesSeen ==
    \A r \in Requests : request[r].pc = "written" /\ Overwrites(r) => request[r].p \in lost

\* The status tells what was done.
StatusTells ==
    \A p \in Proposals \ lost :
        /\ effects[p] < 2
        /\ effects[p] > 0 => row[p].status = "applied"
        /\ p \in rejected => row[p].status = "rejected"

DecisionInv == OneWriter /\ SeenOpen /\ WritesSeen /\ StatusTells

LEMMA DecisionInit == Init => DecisionInv
BY DEF Init, RequestIdle, DecisionInv, OneWriter, SeenOpen, WritesSeen, StatusTells

\* A sender settles pending proposals only, which no request has.
LEMMA DecisionSender ==
    ASSUME TypeOK, DecisionInv, NEW s \in Senders,
           Propose(s) \/ Send(s) \/ Finish(s) \/ SenderFails(s)
    PROVE  DecisionInv'
<1>1. UNCHANGED <<request, effects, rejected, lost>>
    BY DEF Propose, Send, Finish, SenderFails, history
<1>2. \A p \in Proposals : row[p].status \in Visible => row'[p].status = row[p].status
    <2>1. CASE Propose(s)
        BY <2>1, ProposedRow DEF Visible
    <2>2. CASE sender[s].pc # "idle" /\ \E b \in BOOLEAN : row' = Settled(s, b)
        BY <2>2, SettledRow DEF Visible
    <2>3. CASE row' = row
        BY <2>3
    <2> QED BY <2>1, <2>2, <2>3 DEF Send, Finish, SenderFails, Commits
<1>3. ASSUME NEW r \in Requests, request[r].pc = "written"
      PROVE  Overwrites(r)' <=> Overwrites(r)
    <2>1. request[r].p \in Proposals /\ row[request[r].p].status \in Visible
        BY <1>3 DEF TypeOK, RequestHas
    <2>2. row'[request[r].p].status = row[request[r].p].status
        BY <1>2, <2>1
    <2> QED BY <1>1, <2>2 DEF Overwrites, Leaves
<1>4. OneWriter' /\ SeenOpen'
    BY <1>1 DEF DecisionInv, OneWriter, SeenOpen
<1>5. WritesSeen'
    BY <1>1, <1>3 DEF DecisionInv, WritesSeen
<1>6. StatusTells'
    BY <1>1, <1>2 DEF DecisionInv, StatusTells, Visible
<1> QED BY <1>4, <1>5, <1>6 DEF DecisionInv

LEMMA DecisionRequest ==
    ASSUME TypeOK, DecisionInv, NEW r \in Requests,
           Begin(r) \/ Write(r) \/ Commit(r) \/ Abort(r)
    PROVE  DecisionInv'
<1> USE DEF DecisionInv
<1>0. RequestType /\ RequestHas /\ effects \in [Proposals -> 0..2]
    BY DEF TypeOK, CountType
<1>1. CASE Begin(r) \/ Abort(r)
    <2>1. /\ UNCHANGED <<row, effects, rejected, lost>> /\ request'[r].pc # "written"
          /\ request'[r].pc # "idle" => request'[r].seen \in {"proposed", "previewed"}
          /\ \A q \in Requests : q # r => request'[q] = request[q]
        BY <1>0, <1>1 DEF Begin, Abort, Accepts, RequestIdle, RequestType, data, history
    <2>2. OneWriter' /\ SeenOpen'
        BY <2>1 DEF OneWriter, SeenOpen
    <2>3. WritesSeen'
        <3>1. ASSUME NEW q \in Requests, q # r PROVE Overwrites(q)' <=> Overwrites(q)
            BY <2>1, <3>1 DEF Overwrites, Leaves
        <3> QED BY <2>1, <3>1 DEF WritesSeen
    <2>4. StatusTells'
        BY <2>1 DEF StatusTells
    <2> QED BY <2>2, <2>3, <2>4
<1>2. CASE Write(r)
    <2>1. /\ UNCHANGED <<row, effects, rejected>> /\ request' = [request EXCEPT ![r].pc = "written"]
          /\ request[r].pc = "read" /\ lost' = IF Overwrites(r) THEN lost \cup {request[r].p} ELSE lost
          /\ \A q \in Requests : ~(request[q].pc = "written" /\ request[q].p = request[r].p)
        BY <1>2 DEF Write, data
    <2>2. OneWriter' /\ SeenOpen'
        BY <1>0, <2>1 DEF OneWriter, SeenOpen, RequestType
    <2>3. WritesSeen'
        <3>1. ASSUME NEW q \in Requests PROVE Overwrites(q)' <=> Overwrites(q)
            BY <1>0, <2>1 DEF Overwrites, Leaves, RequestType
        <3> QED BY <1>0, <2>1, <3>1 DEF WritesSeen, RequestType
    <2>4. StatusTells'
        BY <2>1 DEF StatusTells
    <2> QED BY <2>2, <2>3, <2>4
<1>3. CASE Commit(r)
    <2> DEFINE p == request[r].p
    <2>1. /\ request[r].pc = "written" /\ request' = [request EXCEPT ![r] = RequestIdle]
          /\ effects' = IF Carries(request[r].kind) /\ effects[p] < 2
                           THEN [effects EXCEPT ![p] = @ + 1] ELSE effects
          /\ rejected' = IF request[r].kind = "reject" THEN rejected \cup {p} ELSE rejected
          /\ lost' = lost
        BY <1>3 DEF Commit
    <2>2. /\ p \in Proposals /\ row[p].status \in Visible /\ row'[p].status = Leaves(r)
          /\ \A q \in Proposals : q # p => row'[q] = row[q]
        BY <1>3, CommittedRow
    <2>3. OneWriter' /\ SeenOpen'
        BY <1>0, <2>1 DEF OneWriter, SeenOpen, RequestIdle, RequestType
    <2>4. WritesSeen'
        <3>1. ASSUME NEW q \in Requests, request'[q].pc = "written"
              PROVE  /\ q # r /\ request'[q] = request[q] /\ request[q].p # p
                     /\ Overwrites(q)' <=> Overwrites(q)
            <4>1. q # r /\ request'[q] = request[q] /\ request[q].p # p
                BY <1>0, <2>1, <3>1 DEF OneWriter, RequestIdle, RequestType
            <4>2. row'[request[q].p] = row[request[q].p]
                BY <1>0, <2>2, <3>1, <4>1 DEF RequestHas
            <4> QED BY <4>1, <4>2 DEF Overwrites, Leaves
        <3> QED BY <2>1, <3>1 DEF WritesSeen
    <2>5. ASSUME NEW q \in Proposals \ lost
          PROVE  /\ effects'[q] < 2
                 /\ effects'[q] > 0 => row'[q].status = "applied"
                 /\ q \in rejected' => row'[q].status = "rejected"
        <3>1. CASE q # p
            BY <1>0, <2>1, <2>2, <3>1 DEF StatusTells
        <3>2. CASE q = p
            <4>1. ~Overwrites(r) /\ request[r].seen \in {"proposed", "previewed"}
                BY <2>1, <3>2 DEF WritesSeen, SeenOpen
            <4>2. /\ effects[p] < 2 /\ (effects[p] > 0 => row[p].status = "applied")
                  /\ (p \in rejected => row[p].status = "rejected")
                BY <2>2, <3>2 DEF StatusTells
            <4>3. CASE row[p].status = request[r].seen
                <5>1. effects[p] = 0 /\ p \notin rejected
                    BY <1>0, <2>2, <4>1, <4>2, <4>3
                <5>2. CASE Carries(request[r].kind)
                    <6>1. Leaves(r) = "applied" /\ request[r].kind # "reject"
                        BY <5>2 DEF Leaves, Carries
                    <6>2. effects'[p] = 1 /\ rejected' = rejected
                        BY <1>0, <2>1, <2>2, <5>1, <5>2, <6>1
                    <6> QED BY <2>2, <3>2, <5>1, <6>1, <6>2
                <5>3. CASE ~Carries(request[r].kind)
                    <6>1. request[r].kind = "reject" => Leaves(r) = "rejected"
                        BY <5>3 DEF Leaves
                    <6> QED BY <2>1, <2>2, <3>2, <5>1, <5>3, <6>1
                <5> QED BY <5>2, <5>3
            <4>4. CASE row[p].status # request[r].seen
                <5>1. ~Carries(request[r].kind) /\ Leaves(r) = row[p].status
                    BY <4>1, <4>4 DEF Overwrites
                <5>2. request[r].kind = "reject" => Leaves(r) = "rejected"
                    BY <5>1 DEF Leaves, Carries
                <5> QED BY <2>1, <2>2, <3>2, <4>2, <5>1, <5>2
            <4> QED BY <4>3, <4>4
        <3> QED BY <3>1, <3>2
    <2>6. StatusTells'
        BY <2>1, <2>5 DEF StatusTells
    <2> QED BY <2>3, <2>4, <2>6
<1> QED BY <1>1, <1>2, <1>3

LEMMA DecisionNext == TypeOK /\ DecisionInv /\ [Next]_vars => DecisionInv'
<1> SUFFICES ASSUME TypeOK, DecisionInv, [Next]_vars PROVE DecisionInv'
    OBVIOUS
<1>1. CASE UNCHANGED vars
    BY <1>1 DEF vars, data, history, DecisionInv, OneWriter, SeenOpen, WritesSeen, StatusTells,
                Overwrites, Leaves
<1> QED BY <1>1, DecisionSender, DecisionRequest DEF Next

\* confirm_agent_action and reject_agent_action read without a lock and write
\* by primary key: a decision is taken once unless it was taken over a status
\* its request had not seen.
THEOREM DecisionsStand == Spec => []DecidedOnce
<1>1. Spec => []DecisionInv
    BY TypeCorrect, DecisionInit, DecisionNext, PTL DEF Spec
<1>2. DecisionInv => DecidedOnce
    BY DEF DecisionInv, StatusTells, DecidedOnce
<1> QED BY <1>1, <1>2, PTL

-----------------------------------------------------------------------------
(* Duplicates *)

Live    == {"proposed", "previewed", "applied"}
Pending == Live \cup {"pending"}

\* A pending row is in the hands of the sender that inserted it.
PendingHeld ==
    \A p \in Proposals : row[p].status = "pending" =>
        \E s \in Senders : sender[s].p = p /\ sender[s].pc # "idle"

\* Two rows of one key, committed or not, have met.
Twins ==
    \A p, q \in Proposals :
        (/\ p # q /\ row[p].key = row[q].key
         /\ row[p].status \in Pending /\ row[q].status \in Pending)
            => row[p].key \in overlap \/ lost # {}

DuplicateInv == PendingHeld /\ Twins

LEMMA DuplicateInit == Init => DuplicateInv
BY DEF Init, DuplicateInv, PendingHeld, Twins, Pending, Live

LEMMA DuplicatePropose ==
    ASSUME TypeOK, DuplicateInv, NEW s \in Senders, Propose(s)
    PROVE  DuplicateInv'
<1> USE DEF DuplicateInv
<1>0. RowType /\ SenderType /\ NoProposal \notin Proposals /\ UNCHANGED lost /\ sender[s].pc = "idle"
    BY DEF TypeOK, Propose, Proposals
<1>1. PICK p \in Proposals :
          /\ sender' = [sender EXCEPT ![s] = [pc |-> "proposed", p |-> p]]
          /\ \A q \in Proposals : q # p => row'[q] = row[q]
          /\ \/ row' = row /\ overlap' = overlap
             \/ /\ row[p].status = "free" /\ row'[p].status = "pending"
                /\ row'[p].key = Key(s) /\ Existing(Key(s)) = {}
                /\ overlap' = IF Holding(Key(s)) # {} THEN overlap \cup {Key(s)} ELSE overlap
    BY ProposedRow
<1>2. PendingHeld'
    BY <1>0, <1>1 DEF PendingHeld, SenderType
<1>3. CASE row' = row /\ overlap' = overlap
    BY <1>0, <1>2, <1>3 DEF Twins
<1>4. ASSUME row'[p].status = "pending", row'[p].key = Key(s), Existing(Key(s)) = {},
             overlap' = IF Holding(Key(s)) # {} THEN overlap \cup {Key(s)} ELSE overlap
      PROVE  Twins'
    <2>1. ASSUME NEW q \in Proposals, q # p, row'[q].key = Key(s), row'[q].status \in Pending
          PROVE  Key(s) \in overlap'
        <3>1. row[q].key = Key(s) /\ row[q].status \in Pending
            BY <1>1, <2>1
        <3>2. row[q].status = "pending"
            BY <1>4, <3>1 DEF Existing, Pending, Live, Visible
        <3>3. PICK u \in Senders : sender[u].p = q
            BY <3>2 DEF PendingHeld
        <3>4. u \in Holding(Key(s))
            BY <1>0, <3>1, <3>2, <3>3 DEF Holding
        <3> QED BY <1>4, <3>4
    <2>2. ASSUME NEW q \in Proposals, NEW u \in Proposals, q # p, u # p, q # u,
                 row'[q].key = row'[u].key, row'[q].status \in Pending, row'[u].status \in Pending
          PROVE  row'[q].key \in overlap' \/ lost' # {}
        <3>1. row[q].key \in overlap \/ lost # {}
            BY <1>1, <2>2 DEF Twins
        <3> QED BY <1>0, <1>1, <1>4, <2>2, <3>1
    <2> QED BY <1>4, <2>1, <2>2 DEF Twins
<1> QED BY <1>1, <1>2, <1>3, <1>4

LEMMA DuplicateSettle ==
    ASSUME TypeOK, DuplicateInv, NEW s \in Senders, Send(s) \/ Finish(s) \/ SenderFails(s)
    PROVE  DuplicateInv'
<1> USE DEF DuplicateInv
<1>0. SenderType /\ UNCHANGED <<overlap, lost>> /\ sender[s].pc # "idle"
    BY DEF TypeOK, Send, Finish, SenderFails, history
<1>1. CASE row' = row
    <2>1. sender' \in {[sender EXCEPT ![s].pc = "ending"], [sender EXCEPT ![s] = SenderIdle]}
        BY DEF Send, Finish, SenderFails
    <2>2. CASE sender' = [sender EXCEPT ![s].pc = "ending"]
        BY <1>0, <1>1, <2>2 DEF PendingHeld, Twins, SenderType
    <2>3. CASE sender' = [sender EXCEPT ![s] = SenderIdle] /\ row[sender[s].p].status # "pending"
        BY <1>0, <1>1, <2>3 DEF PendingHeld, Twins, SenderType, SenderIdle
    <2>4. CASE sender' = [sender EXCEPT ![s] = SenderIdle] /\ row[sender[s].p].status = "pending"
        <3>1. sender[s].p \in Proposals
            BY <1>0 DEF TypeOK, SenderHas
        <3>2. ~(\E b \in BOOLEAN : row' = Settled(s, b))
            BY <1>0, <1>1, <2>4, <3>1, SettledRow
        <3>3. sender' = [sender EXCEPT ![s].pc = "ending"]
            BY <3>2 DEF Send, Finish, SenderFails, Commits
        <3> QED BY <2>2, <3>3
    <2> QED BY <2>1, <2>2, <2>3, <2>4
<1>2. CASE /\ \E b \in BOOLEAN : row' = Settled(s, b)
           /\ sender' = [sender EXCEPT ![s] = SenderIdle]
    <2>1. \A p \in Proposals :
             /\ row'[p].key = row[p].key
             /\ row'[p].status = "pending" => row[p].status = "pending" /\ p # sender[s].p
             /\ row'[p].status \in Pending => row[p].status \in Pending
        BY <1>0, <1>2, SettledRow DEF Pending, Live
    <2>2. PendingHeld'
        BY <1>0, <1>2, <2>1 DEF PendingHeld, SenderType, SenderIdle
    <2>3. Twins'
        BY <1>0, <2>1 DEF Twins
    <2> QED BY <2>2, <2>3
<1> QED BY <1>1, <1>2 DEF Send, Finish, SenderFails, Commits

\* Only a write over an unseen status brings a rejected proposal back.
LEMMA DuplicateRequest ==
    ASSUME TypeOK, DecisionInv, DuplicateInv, NEW r \in Requests,
           Begin(r) \/ Write(r) \/ Commit(r) \/ Abort(r)
    PROVE  DuplicateInv'
<1> USE DEF DuplicateInv
<1>0. UNCHANGED <<sender, overlap>> /\ lost \subseteq lost'
    BY DEF Begin, Write, Commit, Abort, history
<1>1. CASE row' = row
    BY <1>0, <1>1 DEF PendingHeld, Twins
<1>2. CASE Commit(r)
    <2>1. /\ request[r].p \in Proposals /\ row'[request[r].p].status = Leaves(r)
          /\ row[request[r].p].status \in Visible /\ Leaves(r) \in Visible
          /\ \A p \in Proposals : row'[p].key = row[p].key /\ (p # request[r].p => row'[p] = row[p])
        BY <1>2, CommittedRow
    <2>2. Leaves(r) \in Pending => row[request[r].p].status \in Pending \/ lost # {}
        <3>1. SUFFICES ASSUME row[request[r].p].status = "rejected", lost = {}
                       PROVE  Leaves(r) = "rejected"
            BY <2>1 DEF Visible, Pending, Live
        <3>2. ~Overwrites(r) /\ request[r].seen # "rejected"
            BY <1>2, <3>1 DEF Commit, DecisionInv, WritesSeen, SeenOpen
        <3> QED BY <3>1, <3>2 DEF Overwrites
    <2>3. \A p \in Proposals : row'[p].status = "pending" => row[p].status = "pending"
        BY <2>1 DEF Visible
    <2>4. PendingHeld'
        BY <1>0, <2>3 DEF PendingHeld
    <2>5. \A p \in Proposals : row'[p].status \in Pending => row[p].status \in Pending \/ lost # {}
        BY <2>1, <2>2
    <2>6. Twins'
        BY <1>0, <2>1, <2>5 DEF Twins
    <2> QED BY <2>4, <2>6
<1> QED BY <1>1, <1>2 DEF Begin, Write, Abort, data

LEMMA DuplicateNext == TypeOK /\ DecisionInv /\ DuplicateInv /\ [Next]_vars => DuplicateInv'
<1> SUFFICES ASSUME TypeOK, DecisionInv, DuplicateInv, [Next]_vars PROVE DuplicateInv'
    OBVIOUS
<1>1. CASE UNCHANGED vars
    BY <1>1 DEF vars, data, history, DuplicateInv, PendingHeld, Twins
<1> QED BY <1>1, DuplicatePropose, DuplicateSettle, DuplicateRequest DEF Next

\* propose_agent_action looks a key up and inserts in two steps: two live
\* proposals of one key come from senders that overlapped, or from a write
\* over a rejection.
THEOREM DuplicatesOverlap == Spec => []DuplicateNeedsOverlap
<1>1. Spec => []DecisionInv
    BY TypeCorrect, DecisionInit, DecisionNext, PTL DEF Spec
<1>2. Spec => []DuplicateInv
    BY <1>1, TypeCorrect, DuplicateInit, DuplicateNext, PTL DEF Spec
<1>3. DuplicateInv => DuplicateNeedsOverlap
    BY DEF DuplicateInv, Twins, Pending, Live, DuplicateNeedsOverlap
<1> QED BY <1>2, <1>3, PTL

-----------------------------------------------------------------------------
(* Previews *)

\* A preview is stored before anything else is made of it.
PreviewInv ==
    /\ \A p \in Proposals : effects[p] > 0 => row[p].preview /\ row[p].status \in Visible
    /\ \A p \in Proposals : row[p].status = "previewed" => row[p].preview
    /\ \A r \in Requests : request[r].pc # "idle" =>
          /\ request[r].seen = "previewed" => row[request[r].p].preview
          /\ request[r].kind = "confirm" => request[r].seen = "previewed"
          /\ request[r].seen \in {"proposed", "previewed"}

LEMMA PreviewInit == Init => PreviewInv
BY DEF Init, PreviewInv, RequestIdle

LEMMA PreviewSender ==
    ASSUME TypeOK, PreviewInv, NEW s \in Senders,
           Propose(s) \/ Send(s) \/ Finish(s) \/ SenderFails(s)
    PROVE  PreviewInv'
<1>1. UNCHANGED <<request, effects>>
    BY DEF Propose, Send, Finish, SenderFails, history
<1>2. \A p \in Proposals :
         /\ row[p].status \in Visible => row'[p].status = row[p].status /\ row'[p].preview = row[p].preview
         /\ row'[p].status = "previewed" => row[p].status = "previewed"
    <2>1. CASE Propose(s)
        BY <2>1, ProposedRow DEF Visible
    <2>2. CASE sender[s].pc # "idle" /\ \E b \in BOOLEAN : row' = Settled(s, b)
        BY <2>2, SettledRow DEF Visible
    <2>3. CASE row' = row
        BY <2>3
    <2> QED BY <2>1, <2>2, <2>3 DEF Send, Finish, SenderFails, Commits
<1> QED BY <1>1, <1>2 DEF TypeOK, RequestHas, PreviewInv, Visible

LEMMA PreviewRequest ==
    ASSUME TypeOK, PreviewInv, NEW r \in Requests,
           Begin(r) \/ Write(r) \/ Commit(r) \/ Abort(r)
    PROVE  PreviewInv'
<1>0. RequestType /\ RequestHas /\ RowType /\ effects \in [Proposals -> 0..2]
    BY DEF TypeOK, CountType
<1>1. CASE Begin(r)
    <2>1. UNCHANGED <<row, effects>>
        BY <1>1 DEF Begin, data, history
    <2>2. PICK kind \in Kinds, p \in Proposals :
             /\ row[p].status \in Accepts(kind)
             /\ request' = [request EXCEPT ![r] =
                   [pc |-> "read", kind |-> kind, p |-> p, seen |-> row[p].status]]
        BY <1>1 DEF Begin
    <2> QED BY <1>0, <2>1, <2>2 DEF PreviewInv, Accepts, RequestType
<1>2. CASE Write(r)
    BY <1>0, <1>2 DEF Write, data, PreviewInv, RequestType
<1>3. CASE Abort(r)
    BY <1>0, <1>3 DEF Abort, data, history, PreviewInv, RequestIdle, RequestType
<1>4. CASE Commit(r)
    <2> DEFINE p == request[r].p
    <2>1. /\ p \in Proposals /\ row'[p].status = Leaves(r) /\ Leaves(r) \in Visible
          /\ row'[p].preview = (row[p].preview \/ StoresPreview(r))
          /\ row[p].status \in Visible /\ row[p].preview \in BOOLEAN
          /\ \A q \in Proposals : q # p => row'[q] = row[q]
        BY <1>0, <1>4, CommittedRow DEF RowType
    <2>2. /\ request[r].pc = "written" /\ request' = [request EXCEPT ![r] = RequestIdle]
          /\ effects' = IF Carries(request[r].kind) /\ effects[p] < 2
                           THEN [effects EXCEPT ![p] = @ + 1] ELSE effects
        BY <1>4 DEF Commit
    <2>3. request[r].kind \in {"confirm", "link", "preview"} => row'[p].preview
        BY <2>1, <2>2 DEF PreviewInv, StoresPreview
    <2>4. Leaves(r) = "previewed" => row'[p].preview
        BY <1>0, <2>1, <2>3 DEF Leaves, RequestType, Kinds
    <2>5. effects'[p] > 0 => row'[p].preview
        BY <1>0, <2>1, <2>2, <2>3 DEF Carries, PreviewInv
    <2>6. \A q \in Proposals : q # p => effects'[q] = effects[q]
        BY <1>0, <2>2
    <2>7. \A q \in Proposals : row[q].preview => row'[q].preview
        BY <2>1
    <2>8. \A q \in Requests : request'[q].pc # "idle" => request'[q] = request[q] /\ request[q].p \in Proposals
        BY <1>0, <2>2 DEF RequestIdle, RequestType, RequestHas
    <2> QED BY <2>1, <2>4, <2>5, <2>6, <2>7, <2>8 DEF PreviewInv
<1> QED BY <1>1, <1>2, <1>3, <1>4

LEMMA PreviewNext == TypeOK /\ PreviewInv /\ [Next]_vars => PreviewInv'
<1> SUFFICES ASSUME TypeOK, PreviewInv, [Next]_vars PROVE PreviewInv'
    OBVIOUS
<1>1. CASE UNCHANGED vars
    BY <1>1 DEF vars, data, history, PreviewInv
<1> QED BY <1>1, PreviewSender, PreviewRequest DEF Next

\* No command is carried out of which nobody was shown a preview, by the panel
\* or by a link, however stale the request.
THEOREM PreviewsComeFirst == Spec => []PreviewedFirst
<1>1. Spec => []PreviewInv
    BY TypeCorrect, PreviewInit, PreviewNext, PTL DEF Spec
<1>2. PreviewInv => PreviewedFirst
    BY DEF PreviewInv, PreviewedFirst
<1> QED BY <1>1, <1>2, PTL

-----------------------------------------------------------------------------
(* Deliveries *)

\* Without a mishap an insight is told of in one delivery, which is recorded
\* or about to be.
ToldInv ==
    mishaps = 0 =>
        /\ told <= 1
        /\ told > 0 => delivered \/ \E s \in Senders : s = "deliver" /\ sender[s].pc = "ending"
        /\ \A s \in Senders : s = "deliver" /\ sender[s].pc = "proposed" => told = 0

LEMMA ToldInit == Init => ToldInv
BY DEF Init, ToldInv, SenderIdle

LEMMA ToldNext == TypeOK /\ ToldInv /\ [Next]_vars => ToldInv'
<1> SUFFICES ASSUME TypeOK, ToldInv, [Next]_vars PROVE ToldInv'
    OBVIOUS
<1>0. SenderType /\ CountType
    BY DEF TypeOK
<1>1. ASSUME NEW s \in Senders, Propose(s) PROVE ToldInv'
    <2>1. /\ sender[s].pc = "idle" /\ (s = "deliver" => ~delivered)
          /\ sender'[s].pc = "proposed" /\ \A u \in Senders : u # s => sender'[u] = sender[u]
          /\ UNCHANGED <<told, mishaps, delivered>>
        BY <1>0, <1>1 DEF Propose, Due, SenderType
    <2> QED BY <1>0, <2>1 DEF ToldInv, CountType
<1>2. ASSUME NEW s \in Senders, Send(s) PROVE ToldInv'
    <2>1. CASE mishaps' = 0
        <3>1. PICK reached, heard \in BOOLEAN :
                /\ heard => reached
                /\ mishaps' = mishaps + (IF heard THEN 0 ELSE 1)
                /\ told' = IF reached /\ s = "deliver" /\ told < 2 THEN told + 1 ELSE told
                /\ heard => sender' = [sender EXCEPT ![s].pc = "ending"]
            BY <1>2 DEF Send
        <3>2. mishaps \in Nat
            BY <1>0, BoundsAssumption DEF CountType
        <3>3. CASE heard
            <4>1. reached /\ mishaps = 0 /\ sender' = [sender EXCEPT ![s].pc = "ending"]
                BY <3>1, <3>2, <3>3, <2>1
            <4>2. told' = IF s = "deliver" /\ told < 2 THEN told + 1 ELSE told
                BY <3>1, <4>1
            <4>3. sender[s].pc = "proposed" /\ UNCHANGED delivered
                BY <1>2 DEF Send
            <4>4. /\ sender'[s].pc = "ending"
                  /\ \A u \in Senders : u # s => sender'[u] = sender[u]
                BY <1>0, <4>1 DEF SenderType
            <4> QED BY <1>0, <4>1, <4>2, <4>3, <4>4 DEF ToldInv, CountType
        <3>4. CASE ~heard
            BY <3>1, <3>2, <3>4, <2>1
        <3> QED BY <3>3, <3>4
    <2> QED BY <2>1 DEF ToldInv
<1>3. ASSUME NEW s \in Senders, Finish(s) PROVE ToldInv'
    BY <1>0, <1>3 DEF Finish, history, ToldInv, SenderType, SenderIdle
<1>4. ASSUME NEW s \in Senders, SenderFails(s) PROVE ToldInv'
    BY <1>0, <1>4 DEF SenderFails, ToldInv, CountType
<1>5. CASE UNCHANGED <<sender, told, mishaps, delivered>>
    BY <1>5 DEF ToldInv
<1> QED BY <1>1, <1>2, <1>3, <1>4, <1>5 DEF Next, vars, data, history, Begin, Write, Commit, Abort

\* deliver_insights commits after its message: the owner hears of an insight
\* twice only after a death or an answer that was lost.
THEOREM ResendsHaveCause == Spec => []ResentNeedsMishap
<1>1. Spec => []ToldInv
    BY TypeCorrect, ToldInit, ToldNext, PTL DEF Spec
<1>2. TypeOK /\ ToldInv => ResentNeedsMishap
    BY DEF TypeOK, CountType, ToldInv, ResentNeedsMishap
<1> QED BY <1>1, <1>2, TypeCorrect, PTL
=============================================================================
