-------------------------- MODULE DialogSessionProofs --------------------------
(***************************************************************************)
(* Theorems about DialogSession, for any number of handlers and of orders. *)
(***************************************************************************)
EXTENDS DialogSession, TLAPS

USE ConstantsAssumption

-----------------------------------------------------------------------------
(* The invariant *)

Rows == [state : States, version : Nat, pending : Orders \cup {NoOrder},
         paused : BOOLEAN, snoozed : BOOLEAN]

Caches == [state : States \cup {Missing}, pending : Orders \cup {NoOrder}]

OrderRows == [Orders -> {"absent", "draft", "confirmed", "cancelled"}]

Jobs == [kind : Kinds, at : Steps, state : States, version : Nat,
         pending : Orders \cup {NoOrder}, next : States, mute : BOOLEAN,
         then : {"done", "llm", "closing"}, drops : SUBSET Orders, durable : BOOLEAN,
         reply : Replies, under : BOOLEAN, alone : BOOLEAN]

\* Where a message is from its first look at the row until it is over.
Looked == Steps \ {"idle", "refill", "preflight", "restore", "restore_state", "restoring",
                   "admin", "close", "closing", "done"}

\* What is so of a job, given the row: an operator's guest is still his, and
\* the version read, while it is the row's, vouches for the state read.
Sound(j, row) ==
    /\ j.under => j.kind = "message" /\ j.at \in {"refill", "preflight", "heed", "resume"} /\ Served(row)
    /\ j.at = "admin" => j.kind \in Operators
    /\ j.at = "refill" => j.kind \in {"message"} \cup Operators
    /\ j.version <= row.version
    /\ j.version # 0 => j.at \in Looked
    /\ j.version # 0 /\ j.at \in {"clear", "clearing"} => j.durable /\ j.then # "closing"
    /\ j.version # 0 /\ j.at = "synced" => j.version < row.version
    /\ j.version # 0 /\ j.at # "clearing" /\ j.version = row.version /\ j.state = row.state => j.alone

DialogInv == TypeOK /\ \A r \in Requests : Sound(job[r], db)

\* The variables of which only the type is claimed.
RestFits ==
    /\ cache' \in Caches
    /\ orders' \in OrderRows
    /\ nudged' \subseteq Orders
    /\ locked' \in Requests \cup {NoRequest}

LEMMA TypeParts ==
    ASSUME DialogInv
    PROVE  /\ db \in Rows /\ cache \in Caches /\ orders \in OrderRows /\ nudged \subseteq Orders
           /\ locked \in Requests \cup {NoRequest} /\ job \in [Requests -> Jobs]
           /\ \A r \in Requests : job[r] \in Jobs /\ Sound(job[r], db)
BY DEF DialogInv, TypeOK, Rows, Caches, OrderRows, Jobs

LEMMA FreshJob == NewJob \in Jobs /\ NewJob.version = 0 /\ NewJob.at = "idle" /\ ~NewJob.under
BY DEF NewJob, Jobs, Kinds, Steps, States, Replies

LEMMA EndedFits ==
    ASSUME NEW j \in Jobs, NEW answer \in Replies
    PROVE  /\ Ended(j, answer) \in Jobs
           /\ \A row \in Rows : Sound(Ended(j, answer), row)
           /\ Ended(j, answer).at = "done" /\ ~Ended(j, answer).under
<1>1. PICK b \in BOOLEAN : Ended(j, answer) = [NewJob EXCEPT !.at = "done", !.reply = answer, !.alone = b]
    BY DEF Ended
<1>2. /\ Ended(j, answer) \in Jobs
      /\ Ended(j, answer).at = "done" /\ ~Ended(j, answer).under /\ Ended(j, answer).version = 0
    BY <1>1, FreshJob DEF Jobs, Steps
<1> QED BY <1>2 DEF Sound, Rows

LEMMA DialogInit == Init => DialogInv
<1> SUFFICES ASSUME Init PROVE DialogInv
    OBVIOUS
<1>1. PICK before \in States : \E s \in AllowedTransitions[before] :
        LET asking == s \in {"awaiting_order_payment", "confirming_order"} IN
        \E o \in IF asking THEN Orders ELSE {NoOrder} :
            /\ db = [state |-> s, version |-> 1, pending |-> o,
                     paused |-> FALSE, snoozed |-> FALSE]
            /\ orders = [x \in Orders |-> IF x = o THEN "draft" ELSE "absent"]
            /\ cache \in {[state |-> s, pending |-> o], [state |-> before, pending |-> NoOrder],
                          [state |-> Missing, pending |-> NoOrder]}
    BY DEF Init
<1>2. AllowedTransitions[before] \subseteq States
    BY DEF AllowedTransitions, States
<1>3. PICK s \in States, o \in Orders \cup {NoOrder} :
            /\ db = [state |-> s, version |-> 1, pending |-> o,
                     paused |-> FALSE, snoozed |-> FALSE]
            /\ orders = [x \in Orders |-> IF x = o THEN "draft" ELSE "absent"]
            /\ cache \in {[state |-> s, pending |-> o], [state |-> before, pending |-> NoOrder],
                          [state |-> Missing, pending |-> NoOrder]}
    BY <1>1, <1>2
<1>4. db \in Rows /\ cache \in Caches /\ orders \in OrderRows
    BY <1>3 DEF Rows, Caches, OrderRows
<1>5. \A r \in Requests : job[r] = NewJob
    BY DEF Init
<1>6. Sound(NewJob, db)
    BY <1>3, FreshJob DEF Sound
<1>7. job \in [Requests -> Jobs] /\ nudged \subseteq Orders /\ locked \in Requests \cup {NoRequest}
    BY FreshJob DEF Init
<1> QED BY <1>4, <1>5, <1>6, <1>7 DEF DialogInv, TypeOK, Rows, Caches, OrderRows, Jobs

\* A step of one job that leaves the row.
LEMMA StepKeeps ==
    ASSUME DialogInv, NEW r \in Requests, NEW j \in Jobs, Sound(j, db), Becomes(r, j),
           db' = db, RestFits
    PROVE  DialogInv'
<1>1. job' \in [Requests -> Jobs] /\ \A q \in Requests : job'[q] = IF q = r THEN j ELSE job[q]
    BY TypeParts DEF Becomes
<1>2. \A q \in Requests : Sound(job'[q], db)
    BY <1>1, TypeParts
<1>3. \A q \in Requests : Sound(job[q], db)'
    BY <1>2 DEF Sound, Served
<1>4. db' \in Rows
    BY TypeParts
<1> QED BY <1>1, <1>3, <1>4 DEF DialogInv, TypeOK, RestFits, Rows, Caches, OrderRows, Jobs

\* A row keeps its version only if it keeps its state.
Follows(row) ==
    row.version = db.version + 1 \/ (row.version = db.version /\ row.state = db.state)

\* What a job has of a write by another.
LEMMA OthersKeep ==
    ASSUME DialogInv, NEW row \in Rows, Follows(row), NEW q \in Requests, NEW alone \in BOOLEAN,
           alone = (job[q].alone /\ row.version = db.version) \/ alone = job[q].alone,
           NEW j, j = [job[q] EXCEPT !.under = @ /\ Served(row), !.alone = alone]
    PROVE  j \in Jobs /\ Sound(j, row)
<1>1. job[q] \in Jobs /\ Sound(job[q], db) /\ db \in Rows
    BY TypeParts
<1>2. PICK under \in BOOLEAN : under = (job[q].under /\ Served(row))
    BY <1>1 DEF Jobs
<1>3. j = [job[q] EXCEPT !.under = under, !.alone = alone]
    BY <1>2
<1>4. /\ j \in Jobs /\ j.under = under /\ j.alone = alone
      /\ j.at = job[q].at /\ j.kind = job[q].kind /\ j.version = job[q].version
      /\ j.state = job[q].state /\ j.durable = job[q].durable /\ j.then = job[q].then
    BY <1>1, <1>3 DEF Jobs
<1>5. j.version <= row.version /\ (j.version < db.version => j.version < row.version)
      /\ (j.version = row.version => row.version = db.version /\ row.state = db.state)
    BY <1>1, <1>4 DEF Sound, Follows, Rows, Jobs
<1>6. j.under => job[q].under /\ Served(row)
    BY <1>2, <1>4
<1>7. job[q].alone /\ row.version = db.version => j.alone
    BY <1>4
<1> QED BY <1>1, <1>4, <1>5, <1>6, <1>7 DEF Sound

LEMMA WriteKeeps ==
    ASSUME DialogInv, NEW r \in Requests, NEW row \in Rows, NEW j \in Jobs, WriteRow(r, row, j),
           Follows(row), ~j.under, Sound(j, row), RestFits
    PROVE  DialogInv'
<1>0. job \in [Requests -> Jobs] /\ \A q \in Requests : job[q] \in Jobs
    BY TypeParts
<1>1. DOMAIN job' = Requests /\ \A q \in Requests : job'[q] \in Jobs /\ Sound(job'[q], row)
    <2>1. job' = [q \in Requests |->
                 IF q = r THEN [j EXCEPT !.under = @ /\ Served(row)]
                 ELSE [job[q] EXCEPT !.under = @ /\ Served(row),
                                     !.alone = @ /\ row.version = db.version]]
        BY DEF WriteRow
    <2>2. ASSUME NEW q \in Requests, q # r PROVE job'[q] \in Jobs /\ Sound(job'[q], row)
        <3>1. job'[q] = [job[q] EXCEPT !.under = @ /\ Served(row), !.alone = @ /\ row.version = db.version]
            BY <2>1, <2>2
        <3>2. PICK alone \in BOOLEAN : alone = (job[q].alone /\ row.version = db.version)
            BY <1>0 DEF Jobs
        <3>3. job'[q] = [job[q] EXCEPT !.under = @ /\ Served(row), !.alone = alone]
            BY <3>1, <3>2
        <3> QED BY <3>2, <3>3, OthersKeep
    <2>3. job'[r] = j
        <3>1. job'[r] = [j EXCEPT !.under = @ /\ Served(row)]
            BY <2>1
        <3>2. (j.under /\ Served(row)) = FALSE /\ j.under = FALSE
            BY DEF Jobs
        <3>3. job'[r] = [j EXCEPT !.under = FALSE]
            BY <3>1, <3>2
        <3> QED BY <3>2, <3>3 DEF Jobs
    <2> QED BY <2>1, <2>2, <2>3
<1>2. db' = row
    BY DEF WriteRow
<1>3. \A q \in Requests : Sound(job[q], db)'
    BY <1>1, <1>2 DEF Sound, Served
<1>4. job' \in [Requests -> Jobs]
    <2>1. job' = [q \in Requests |-> job'[q]]
        BY DEF WriteRow
    <2> QED BY <1>1, <2>1
<1> QED BY <1>2, <1>3, <1>4 DEF DialogInv, TypeOK, RestFits, Rows, Caches, OrderRows, Jobs

-----------------------------------------------------------------------------
(* The steps *)

\* A job that has not looked at the row, or has forgotten it.
LEMMA UnreadSound ==
    ASSUME NEW j \in Jobs, NEW row \in Rows, j.version = 0, ~j.under, j.at \notin {"admin", "refill"}
    PROVE  Sound(j, row)
BY DEF Sound, Rows

\* A message that goes on with what it has read.
LEMMA OnwardSound ==
    ASSUME DialogInv, NEW r \in Requests, NEW j \in Jobs,
           job[r].at \in Looked \ {"heed", "resume", "clearing"}, j.at \in Looked \ {"synced"},
           j.version = job[r].version, j.state = job[r].state, j.alone = job[r].alone,
           j.under = job[r].under,
           j.at \in {"clear", "clearing"} => j.durable /\ j.then # "closing"
    PROVE  Sound(j, db)
<1>1. Sound(job[r], db)
    BY TypeParts
<1>2. j.at \notin {"admin", "refill"} /\ job[r].at \notin {"refill", "preflight", "heed", "resume"}
    BY DEF Looked
<1> QED BY <1>1, <1>2 DEF Sound

LEMMA CachedFits ==
    ASSUME DialogInv
    PROVE  CachedState \in States /\ Pending \in Orders \cup {NoOrder}
BY TypeParts DEF CachedState, Pending, Caches, Rows

LEMMA BumpFits ==
    ASSUME NEW row \in Rows
    PROVE  /\ Bump(row) \in Rows /\ Bump(row).version = row.version + 1 /\ Bump(row).state = row.state
           /\ Bump(row).pending = row.pending /\ Bump(row).paused = row.paused
           /\ Bump(row).snoozed = row.snoozed
BY DEF Bump, Rows

LEMMA FinishKeeps ==
    ASSUME DialogInv, NEW r \in Requests, NEW answer \in Replies, Finish(r, answer), db' = db, RestFits
    PROVE  DialogInv'
BY TypeParts, EndedFits, StepKeeps DEF Finish

LEMMA ReadKeeps ==
    ASSUME DialogInv, NEW r \in Requests, (\E k \in Kinds : ReadState(r, k)) \/ Refill(r)
    PROVE  DialogInv'
<1>0. job[r] \in Jobs /\ Sound(job[r], db) /\ db \in Rows /\ cache \in Caches
    BY TypeParts
<1>1. ASSUME NEW k \in Kinds, ReadState(r, k) PROVE DialogInv'
    <2>1. RestFits /\ db' = db /\ k \in {"message"} \cup Operators /\ job[r].version = 0
        BY <1>0, <1>1, TypeParts DEF ReadState, RestFits, Sound, Looked, At
    <2>2. PICK under \in BOOLEAN : under = (k = "message" /\ Served(db))
        OBVIOUS
    <2>3. CASE cache.state = Missing
        <3> DEFINE j == [job[r] EXCEPT !.kind = k, !.under = under, !.at = "refill",
                                       !.state = db.state, !.pending = db.pending]
        <3>1. j \in Jobs
            BY ZenonT(60), <1>0, <2>1, <2>2 DEF Jobs, Rows, Steps
        <3>2. Becomes(r, j)
            BY <1>1, <2>2, <2>3 DEF ReadState
        <3>3. Sound(j, db)
            BY <1>0, <2>1, <2>2 DEF Jobs, Rows, Sound
        <3> HIDE DEF j
        <3> QED BY <2>1, <3>1, <3>2, <3>3, StepKeeps
    <2>4. CASE cache.state # Missing
        <3> DEFINE j == [job[r] EXCEPT !.kind = k, !.under = under, !.at = FirstStep(k),
                                       !.state = cache.state]
        <3>1. j \in Jobs
            BY ZenonT(60), <1>0, <2>1, <2>2, <2>4 DEF Jobs, Caches, Steps, FirstStep
        <3>2. Becomes(r, j)
            BY <1>1, <2>2, <2>4 DEF ReadState
        <3>3. Sound(j, db)
            BY <1>0, <2>1, <2>2 DEF Jobs, Rows, Sound, FirstStep
        <3> HIDE DEF j
        <3> QED BY <2>1, <3>1, <3>2, <3>3, StepKeeps
    <2> QED BY <2>3, <2>4
<1>2. CASE Refill(r)
    <2> DEFINE j == [job[r] EXCEPT !.at = FirstStep(job[r].kind), !.pending = NoOrder]
    <2>1. job[r].version = 0 /\ job[r].at = "refill" /\ db' = db
        BY <1>0, <1>2 DEF Refill, Sound, Looked, At
    <2>2. RestFits
        BY <1>0, <1>2, TypeParts DEF Refill, RestFits, Caches, Jobs
    <2>3. j \in Jobs
        BY <1>0 DEF Jobs, Steps, FirstStep
    <2>4. Becomes(r, j)
        BY <1>2 DEF Refill
    <2>5. Sound(j, db)
        BY <1>0, <2>1 DEF Jobs, Rows, Sound, FirstStep
    <2> HIDE DEF j
    <2> QED BY <2>1, <2>2, <2>3, <2>4, <2>5, StepKeeps
<1> QED BY <1>1, <1>2

LEMMA PreflightKeeps ==
    ASSUME DialogInv, NEW r \in Requests, Preflight(r)
    PROVE  DialogInv'
<1>0. job[r] \in Jobs /\ Sound(job[r], db) /\ db \in Rows /\ cache \in Caches
      /\ db' = db /\ job[r].at = "preflight"
    BY TypeParts DEF Preflight, At
<1>1. RestFits
    BY <1>0, TypeParts DEF Preflight, RestFits, Caches, States
<1>2. PICK mute \in BOOLEAN, alone \in BOOLEAN :
          mute = (db.paused \/ db.snoozed) /\ alone = (job[r].state = db.state)
    BY <1>0 DEF Rows
<1>2a. job[r].state = db.state => alone = TRUE
    BY <1>2
<1> DEFINE j(at) == [job[r] EXCEPT !.version = db.version, !.mute = mute, !.alone = alone, !.at = at]
<1>3. \/ HumanInDb /\ \E at \in {"resume", "heed"} : Becomes(r, j(at))
      \/ Becomes(r, Ended(j("preflight"), "sent"))
      \/ ~HumanInDb /\ ~(db.paused \/ db.snoozed) /\ job[r].state # "human_mode"
         /\ Becomes(r, j(job[r].state))
    <2>1. j("preflight") = [job[r] EXCEPT !.version = db.version, !.mute = mute, !.alone = alone]
        BY <1>0 DEF Jobs
    <2>2. Ended(j("preflight"), "sent") = Ended(job[r], "sent")
        BY DEF Ended
    <2> QED BY <1>2, <2>1, <2>2 DEF Preflight, Finish
<1>4. \A at \in Steps : /\ j(at) \in Jobs /\ j(at).at = at /\ j(at).version = db.version
                        /\ j(at).under = job[r].under /\ j(at).state = job[r].state
                        /\ j(at).alone = alone /\ j(at).kind = job[r].kind
    BY <1>0 DEF Jobs, Rows
<1> HIDE DEF j
<1>5. ASSUME HumanInDb, NEW at \in {"resume", "heed"}, Becomes(r, j(at)) PROVE DialogInv'
    <2>0. at \in Steps /\ at \in Looked
        BY DEF Steps, Looked
    <2>a. PICK w \in Jobs : w = j(at)
        BY <1>4, <2>0
    <2>b. /\ w.at = at /\ w.version = db.version /\ w.under = job[r].under
          /\ w.state = job[r].state /\ w.alone = alone /\ w.kind = job[r].kind
        BY <1>4, <2>0, <2>a
    <2>d. w.state = db.state => w.alone
        BY <1>2a, <2>b
    <2>e. w.under => w.kind = "message" /\ Served(db)
        BY <1>0, <2>b DEF Sound
    <2>c. Sound(w, db)
        BY <1>0, <2>0, <2>b, <2>d, <2>e DEF Sound, Rows
    <2> QED BY <1>0, <1>1, <1>5, <2>a, <2>c, StepKeeps
<1>6. CASE Becomes(r, Ended(j("preflight"), "sent"))
    <2>1. "preflight" \in Steps /\ "sent" \in Replies
        BY DEF Steps, Replies
    <2> QED BY <1>0, <1>1, <1>4, <1>6, <2>1, EndedFits, StepKeeps
<1>7. CASE ~HumanInDb /\ ~(db.paused \/ db.snoozed) /\ job[r].state # "human_mode"
           /\ Becomes(r, j(job[r].state))
    <2>1. job[r].state \in {"chatting", "awaiting_order_payment", "confirming_order", "confirming_booking"}
        BY <1>0, <1>7 DEF Jobs, States
    <2>2. job[r].state \in Steps /\ job[r].state \in Looked
          /\ job[r].state \notin {"clear", "clearing", "synced", "admin", "refill"}
        BY <2>1 DEF Steps, Bot, Looked
    <2>3. ~job[r].under
        BY <1>0, <1>7 DEF Sound, Served, HumanInDb
    <2>a. PICK w \in Jobs : w = j(job[r].state)
        BY <1>4, <2>2
    <2>b. /\ w.at = job[r].state /\ w.version = db.version /\ w.under = job[r].under
          /\ w.state = job[r].state /\ w.alone = alone
        BY <1>4, <2>2, <2>a
    <2>d. w.state = db.state => w.alone
        BY <1>2a, <2>b
    <2>e. ~w.under
        BY <2>3, <2>b
    <2>c. Sound(w, db)
        BY <1>0, <2>2, <2>b, <2>d, <2>e DEF Sound, Rows
    <2>4. Sound(j(job[r].state), db)
        BY <2>a, <2>c
    <2> QED BY <1>0, <1>1, <1>4, <1>7, <2>2, <2>4, StepKeeps
<1> QED BY <1>3, <1>5, <1>6, <1>7

LEMMA HeedKeeps ==
    ASSUME DialogInv, NEW r \in Requests, Heed(r)
    PROVE  DialogInv'
<1>0. job[r] \in Jobs /\ Sound(job[r], db) /\ db \in Rows /\ cache \in Caches
      /\ db' = db /\ job[r].at = "heed"
    BY TypeParts DEF Heed, At
<1>1. RestFits
    BY <1>0, TypeParts DEF Heed, RestFits, Caches, States
<1>2. CASE Finish(r, "sent")
    BY <1>0, <1>1, <1>2, FinishKeeps DEF Replies
<1>3. CASE Move(r, "resume")
    <2>1. PICK w : w = [job[r] EXCEPT !.at = "resume"]
        OBVIOUS
    <2>2. w \in Jobs /\ w.at = "resume" /\ w.version = job[r].version /\ w.under = job[r].under
          /\ w.state = job[r].state /\ w.alone = job[r].alone /\ w.kind = job[r].kind
        BY <1>0, <2>1 DEF Jobs, Steps
    <2>3. Sound(w, db)
        BY <1>0, <2>2 DEF Sound, Looked, Steps
    <2> QED BY <1>0, <1>1, <1>3, <2>1, <2>2, <2>3, StepKeeps DEF Move
<1> QED BY <1>2, <1>3 DEF Heed

LEMMA ResumeKeeps ==
    ASSUME DialogInv, NEW r \in Requests, Resume(r) \/ Resumed(r)
    PROVE  DialogInv'
<1>0. job[r] \in Jobs /\ Sound(job[r], db) /\ db \in Rows /\ cache \in Caches
    BY TypeParts
<1>1. CASE Resume(r)
    <2> DEFINE j == [job[r] EXCEPT !.at = "resumed", !.under = FALSE]
               row == [Bump(db) EXCEPT !.state = "chatting"]
    <2>1. RestFits /\ WriteRow(r, row, j)
        BY <1>1, TypeParts DEF Resume, RestFits
    <2>2. row \in Rows /\ row.version = db.version + 1
        BY <1>0, BumpFits DEF Rows, States
    <2>3. /\ j \in Jobs /\ ~j.under /\ j.at = "resumed" /\ j.version <= db.version
        BY <1>0 DEF Jobs, Steps, Sound
    <2> HIDE DEF j, row
    <2>4. Sound(j, row)
        BY <1>0, <2>2, <2>3 DEF Sound, Looked, Steps, Rows, Jobs
    <2> QED BY <2>1, <2>2, <2>3, <2>4, WriteKeeps DEF Follows
<1>2. CASE Resumed(r)
    <2>1. RestFits /\ db' = db
        BY <1>0, <1>2, TypeParts DEF Resumed, RestFits, Caches, States
    <2>2. CASE job[r].mute
        BY <1>2, <2>1, <2>2, FinishKeeps DEF Resumed, Finish, Replies
    <2>3. CASE ~job[r].mute
        <3> DEFINE j == [job[r] EXCEPT !.at = "chatting", !.state = "chatting", !.version = 0]
        <3>1. Becomes(r, j)
            BY <1>2, <2>3 DEF Resumed
        <3>2. j \in Jobs /\ j.version = 0 /\ j.at = "chatting" /\ ~j.under
            BY <1>0, <1>2 DEF Jobs, Steps, States, Bot, Resumed, At, Sound
        <3> HIDE DEF j
        <3> QED BY <1>0, <2>1, <3>1, <3>2, UnreadSound, StepKeeps
    <2> QED BY <2>2, <2>3
<1> QED BY <1>1, <1>2

\* A job that is j up to where it is.
Same(j, k) ==
    /\ j.version = k.version /\ j.state = k.state /\ j.alone = k.alone /\ j.under = k.under

LEMMA OnwardKeeps ==
    ASSUME DialogInv, NEW r \in Requests, NEW j \in Jobs, Same(j, job[r]), Becomes(r, j),
           job[r].at \in Looked \ {"heed", "resume", "clearing"}, j.at \in Looked \ {"synced"},
           j.at \in {"clear", "clearing"} => j.durable /\ j.then # "closing",
           db' = db, RestFits
    PROVE  DialogInv'
BY OnwardSound, StepKeeps DEF Same

\* A message begins to clear the pending order.
LEMMA ClearingKeeps ==
    ASSUME DialogInv, NEW r \in Requests, NEW j \in Jobs, Same(j, job[r]),
           NEW drops \in SUBSET Orders, NEW then \in {"done", "llm"}, Becomes(r, Clearing(j, drops, then)),
           job[r].at \in Looked \ {"heed", "resume", "clearing"}, db' = db, RestFits
    PROVE  DialogInv'
<1>1. PICK w : w = Clearing(j, drops, then)
    OBVIOUS
<1>2. w \in Jobs /\ Same(w, job[r]) /\ w.at = "clear" /\ w.durable /\ w.then # "closing"
    BY <1>1 DEF Clearing, Jobs, Same, Steps
<1> QED BY <1>1, <1>2, OnwardKeeps DEF Looked, Steps

LEMMA AnswersKeep ==
    ASSUME DialogInv, NEW r \in Requests,
           PaymentAnswer(r) \/ ConfirmationAnswer(r) \/ ConfirmPending(r) \/ BookingAnswer(r)
    PROVE  DialogInv'
<1>0. /\ job[r] \in Jobs /\ Sound(job[r], db) /\ db \in Rows /\ cache \in Caches /\ orders \in OrderRows
      /\ Pending \in Orders \cup {NoOrder} /\ CachedState \in States
    BY TypeParts, CachedFits
<1>1. job[r].at \in Looked \ {"heed", "resume", "clearing"} /\ db' = db
    BY DEF PaymentAnswer, ConfirmationAnswer, ConfirmPending, BookingAnswer, Looked, Steps, Bot, At
<1>2. RestFits
    <2>1. CASE PaymentAnswer(r) \/ ConfirmationAnswer(r)
        BY <1>0, <2>1, TypeParts DEF PaymentAnswer, ConfirmationAnswer, Recalled, RestFits, Caches
    <2>2. CASE ConfirmPending(r)
        BY <1>0, <2>2, TypeParts DEF ConfirmPending, RestFits, OrderRows
    <2>3. CASE BookingAnswer(r)
        BY <1>0, <2>3, TypeParts DEF BookingAnswer, RestFits, Caches, States
    <2> QED BY <2>1, <2>2, <2>3
<1>3. \A drops \in SUBSET Orders, then \in {"done", "llm"}, j \in Jobs :
          Same(j, job[r]) /\ Becomes(r, Clearing(j, drops, then)) => DialogInv'
    BY <1>1, <1>2, ClearingKeeps
<1>4. \A j \in Jobs : Becomes(r, Ended(j, "sent")) \/ Becomes(r, Ended(j, "failed")) => DialogInv'
    BY <1>0, <1>1, <1>2, EndedFits, StepKeeps DEF Replies
<1>5. PICK j \in Jobs : j = [job[r] EXCEPT !.pending = Pending]
    BY <1>0 DEF Jobs
<1>6. Same(j, job[r]) /\ Same(job[r], job[r])
    BY <1>0, <1>5 DEF Jobs, Same
<1>7. \A at \in {"sync", "write", "confirm"}, n \in States :
          Becomes(r, [j EXCEPT !.at = at, !.next = n]) => DialogInv'
    <2> SUFFICES ASSUME NEW at \in {"sync", "write", "confirm"}, NEW n \in States,
                        Becomes(r, [j EXCEPT !.at = at, !.next = n])
                 PROVE  DialogInv'
        OBVIOUS
    <2>1. PICK w : w = [j EXCEPT !.at = at, !.next = n]
        OBVIOUS
    <2>2. w \in Jobs /\ Same(w, job[r]) /\ w.at = at
        BY <1>0, <1>6, <2>1 DEF Jobs, Same, Steps, Bot
    <2>3. w.at \in Looked \ {"synced"} /\ w.at \notin {"clear", "clearing"}
        BY <2>2 DEF Looked, Steps, Bot
    <2> QED BY <1>1, <1>2, <2>1, <2>2, <2>3, OnwardKeeps
<1>8. CASE PaymentAnswer(r)
    <2>1. \/ Becomes(r, Clearing(j, {}, "done"))
          \/ Pending # NoOrder /\ Becomes(r, Clearing(j, {Pending}, "done"))
          \/ Becomes(r, [j EXCEPT !.at = "sync", !.next = "chatting"])
          \/ \E n \in States : Becomes(r, [j EXCEPT !.at = "write", !.next = n])
          \/ Becomes(r, Ended(j, "failed"))
        BY <1>5, <1>8 DEF PaymentAnswer, States
    <2> QED BY <1>0, <1>3, <1>4, <1>6, <1>7, <2>1 DEF States
<1>9. CASE ConfirmationAnswer(r)
    <2>1. \/ Becomes(r, Clearing(j, {}, "done"))
          \/ Pending # NoOrder /\ Becomes(r, Clearing(j, {Pending}, "done"))
          \/ Becomes(r, [j EXCEPT !.at = "sync", !.next = "chatting"])
          \/ Becomes(r, [j EXCEPT !.at = "write", !.next = "chatting"])
          \/ Becomes(r, [j EXCEPT !.at = "confirm"])
          \/ Becomes(r, Ended(job[r], "sent"))
        BY <1>5, <1>9 DEF ConfirmationAnswer, Finish
    <2>2. [j EXCEPT !.at = "confirm"] = [j EXCEPT !.at = "confirm", !.next = j.next] /\ j.next \in States
        BY DEF Jobs
    <2> QED BY <1>0, <1>3, <1>4, <1>6, <1>7, <2>1, <2>2 DEF States
<1>10. CASE ConfirmPending(r)
    <2>1. Becomes(r, Clearing(job[r], {}, "done"))
        BY <1>10 DEF ConfirmPending
    <2> QED BY <1>0, <1>3, <1>6, <2>1
<1>11. CASE BookingAnswer(r)
    <2>1. Becomes(r, Ended(job[r], "sent"))
        BY <1>11 DEF BookingAnswer, Finish
    <2> QED BY <1>0, <1>4, <2>1
<1> QED BY <1>8, <1>9, <1>10, <1>11

LEMMA WriteStateKeeps ==
    ASSUME DialogInv, NEW r \in Requests, WriteState(r) \/ Synced(r)
    PROVE  DialogInv'
<1>0. job[r] \in Jobs /\ Sound(job[r], db) /\ db \in Rows /\ cache \in Caches
    BY TypeParts
<1>1. CASE WriteState(r)
    <2>1. PICK at, j, row :
              /\ at \in {"store", "synced"} /\ j \in Jobs
              /\ j = [job[r] EXCEPT !.at = at, !.pending = NoOrder]
              /\ row = [Bump(db) EXCEPT !.state = job[r].next]
              /\ WriteRow(r, row, j)
        <3>1. \A at \in {"store", "synced"} : [job[r] EXCEPT !.at = at, !.pending = NoOrder] \in Jobs
            BY <1>0 DEF Jobs, Steps, Bot
        <3>2. \E at \in {"store", "synced"} :
                 WriteRow(r, [Bump(db) EXCEPT !.state = job[r].next],
                          [job[r] EXCEPT !.at = at, !.pending = NoOrder])
            BY <1>1 DEF WriteState
        <3> QED BY <3>1, <3>2
    <2>2. row \in Rows /\ row.version = db.version + 1
        BY <1>0, <2>1, BumpFits DEF Rows, Jobs
    <2>3. Same(j, job[r]) /\ j.at = at
        BY <1>0, <2>1 DEF Jobs, Same
    <2>4. ~job[r].under /\ job[r].version <= db.version
        BY <1>0, <1>1 DEF WriteState, Sound
    <2>5. Sound(j, row)
        BY <1>0, <2>1, <2>2, <2>3, <2>4 DEF Sound, Same, Looked, Steps, Bot, Rows, Jobs
    <2>6. RestFits
        BY <1>1, TypeParts DEF WriteState, RestFits
    <2> QED BY <2>1, <2>2, <2>3, <2>4, <2>5, <2>6, WriteKeeps DEF Follows, Same
<1>2. CASE Synced(r)
    <2>1. RestFits /\ db' = db /\ job[r].at = "synced"
        BY <1>0, <1>2, TypeParts DEF Synced, RestFits, Caches, Jobs, At
    <2>2. PICK j : j = [job[r] EXCEPT !.at = "chatting", !.state = "chatting"] /\ Becomes(r, j)
        BY <1>2 DEF Synced
    <2>3. j \in Jobs /\ j.version = job[r].version /\ j.at = "chatting" /\ ~j.under
        BY <1>0, <2>1, <2>2 DEF Jobs, Steps, Bot, States, Sound
    <2>4. j.version # 0 => j.version < db.version
        BY <1>0, <2>1, <2>3 DEF Sound
    <2>5. Sound(j, db)
        BY <1>0, <2>3, <2>4 DEF Sound, Looked, Steps, Bot, Rows, Jobs
    <2> QED BY <2>1, <2>2, <2>3, <2>5, StepKeeps
<1> QED BY <1>1, <1>2

LEMMA ClearKeeps ==
    ASSUME DialogInv, NEW r \in Requests, Clear(r) \/ ClearCommit(r)
    PROVE  DialogInv'
<1>0. /\ job[r] \in Jobs /\ Sound(job[r], db) /\ db \in Rows /\ cache \in Caches /\ CachedState \in States
      /\ orders \in OrderRows
    BY TypeParts, CachedFits
<1>1. CASE Clear(r)
    <2>1. RestFits /\ db' = db /\ job[r].at = "clear"
        <3>1. cache' \in Caches /\ locked' \in Requests \cup {NoRequest}
            BY <1>0, <1>1, TypeParts DEF Clear, Caches, Rows
        <3> QED BY <1>1, <3>1, TypeParts DEF Clear, RestFits, At
    <2>2. PICK j : j = [job[r] EXCEPT !.at = "clearing", !.state = CachedState] /\ Becomes(r, j)
        BY <1>1 DEF Clear
    <2>3. /\ j \in Jobs /\ j.version = job[r].version /\ j.at = "clearing" /\ j.under = job[r].under
          /\ j.durable = job[r].durable /\ j.then = job[r].then
        BY <1>0, <2>2 DEF Jobs, Steps
    <2>4. Sound(j, db)
        BY <1>0, <2>1, <2>3 DEF Sound, Looked, Steps
    <2> QED BY <2>1, <2>2, <2>3, <2>4, StepKeeps
<1>2. CASE ClearCommit(r)
    <2>0. ~job[r].under /\ job[r].version <= db.version /\ "sent" \in Replies
        BY <1>0, <1>2 DEF ClearCommit, At, Sound, Replies
    <2>1. PICK j : /\ j = IF job[r].then = "done" THEN Ended(job[r], "sent")
                          ELSE [job[r] EXCEPT !.at = job[r].then, !.state = "chatting"]
                   /\ IF job[r].durable
                      THEN /\ WriteRow(r, [Bump(db) EXCEPT !.pending = NoOrder], j)
                           /\ orders' = [o \in Orders |->
                                IF o \in job[r].drops /\ orders[o] = "draft" THEN "cancelled" ELSE orders[o]]
                           /\ Undo
                      ELSE Becomes(r, j) /\ UNCHANGED <<db, orders, locked>>
        BY <1>2 DEF ClearCommit
    <2>2. RestFits
        <3>1. cache' \in Caches
            BY <1>0, <1>2 DEF ClearCommit, Cleared, Caches, States
        <3>2. orders' \in OrderRows /\ locked' \in Requests \cup {NoRequest}
            BY <1>0, <2>1, TypeParts DEF OrderRows, Undo
        <3> QED BY <1>2, <3>1, <3>2, TypeParts DEF ClearCommit, RestFits
    <2>3. /\ j \in Jobs /\ ~j.under /\ j.at \in {"done", "llm", "closing"}
          /\ j.version = 0 \/ (j.at # "done" /\ j.version = job[r].version /\ j.at = job[r].then)
        <3>1. CASE job[r].then = "done"
            BY <1>0, <2>0, <2>1, <3>1, EndedFits DEF Ended, NewJob
        <3>2. CASE job[r].then # "done"
            BY ZenonT(60), <1>0, <2>0, <2>1, <3>2 DEF Jobs, Steps, Bot, States
        <3> QED BY <3>1, <3>2
    <2>4. CASE job[r].durable
        <3>1. PICK row : row = [Bump(db) EXCEPT !.pending = NoOrder] /\ WriteRow(r, row, j)
            BY <2>1, <2>4
        <3>2. row \in Rows /\ row.version = db.version + 1
            BY <1>0, <3>1, BumpFits DEF Rows
        <3>3. j.version # 0 => j.at = "llm"
            BY <1>0, <1>2, <2>3 DEF ClearCommit, At, Sound
        <3>4. Sound(j, row)
            BY <1>0, <2>0, <2>3, <3>2, <3>3 DEF Sound, Looked, Steps, Bot, Rows, Jobs
        <3> QED BY <2>2, <2>3, <3>1, <3>2, <3>4, WriteKeeps DEF Follows
    <2>5. CASE ~job[r].durable
        <3>1. j.version = 0
            BY <1>0, <1>2, <2>3, <2>5 DEF ClearCommit, At, Sound
        <3> QED BY <1>0, <2>1, <2>2, <2>3, <2>5, <3>1, UnreadSound, StepKeeps
    <2> QED BY <2>4, <2>5
<1> QED BY <1>1, <1>2

LEMMA TalkKeeps ==
    ASSUME DialogInv, NEW r \in Requests, Talk(r) \/ Answer(r)
    PROVE  DialogInv'
<1>0. job[r] \in Jobs /\ cache \in Caches /\ db' = db /\ {"sent", "dropped"} \subseteq Replies
    BY TypeParts DEF Talk, Answer, Replies
<1>1. job[r].at \in Looked \ {"heed", "resume", "clearing"}
    BY DEF Talk, Answer, Looked, Steps, Bot, At
<1>2. RestFits
    BY <1>0, TypeParts DEF Talk, Answer, RestFits, Caches, States
<1>3. ASSUME NEW at \in {"llm", "route"}, Move(r, at) PROVE DialogInv'
    <2>1. PICK j : j = [job[r] EXCEPT !.at = at] /\ Becomes(r, j)
        BY <1>3 DEF Move
    <2>2. j \in Jobs /\ Same(j, job[r]) /\ j.at = at
        BY <1>0, <2>1 DEF Jobs, Same, Steps, Bot
    <2>3. j.at \in Looked \ {"synced"} /\ j.at \notin {"clear", "clearing"}
        BY <2>2 DEF Looked, Steps, Bot
    <2> QED BY <1>0, <1>1, <1>2, <2>1, <2>2, <2>3, OnwardKeeps
<1>4. ASSUME NEW then \in {"done", "llm"}, Becomes(r, Clearing(job[r], Orders, then)) PROVE DialogInv'
    BY <1>0, <1>1, <1>2, <1>4, ClearingKeeps DEF Same
<1>5. ASSUME NEW answer \in {"sent", "dropped"}, Finish(r, answer) PROVE DialogInv'
    BY <1>0, <1>2, <1>5, FinishKeeps
<1> QED BY <1>3, <1>4, <1>5 DEF Talk, Answer

LEMMA RouteKeeps ==
    ASSUME DialogInv, NEW r \in Requests, Route(r)
    PROVE  DialogInv'
<1>0. job[r] \in Jobs /\ Sound(job[r], db) /\ db \in Rows /\ orders \in OrderRows /\ job[r].at = "route"
    BY TypeParts DEF Route, At
<1>1. PICK i \in Intents :
        LET o == i.pending
            j == [job[r] EXCEPT !.at = "store", !.next = i.state, !.pending = o]
        IN /\ o # NoOrder =>
                \/ orders[o] = "draft"
                \/ orders[o] = "absent" /\ Drafts = {}
           /\ orders' = IF o = NoOrder THEN orders ELSE [orders EXCEPT ![o] = "draft"]
           /\ IF i.state # "none" /\ RouteApplies(r)
              THEN WriteRow(r, [Bump(db) EXCEPT !.state = i.state,
                                   !.pending = IF o = NoOrder THEN @ ELSE o], j)
              ELSE Finish(r, "sent") /\ UNCHANGED db
    BY DEF Route
<1>2. i.state \in States \cup {"none"} /\ i.pending \in Orders \cup {NoOrder}
    BY DEF Intents, States
<1>3. RestFits
    BY <1>0, <1>1, <1>2, TypeParts DEF Route, RestFits, OrderRows
<1>4. CASE i.state # "none" /\ RouteApplies(r)
    <2>1. PICK row, j : /\ row = [Bump(db) EXCEPT !.state = i.state,
                                    !.pending = IF i.pending = NoOrder THEN @ ELSE i.pending]
                        /\ j = [job[r] EXCEPT !.at = "store", !.next = i.state, !.pending = i.pending]
                        /\ WriteRow(r, row, j)
        BY <1>1, <1>4
    <2>2. row \in Rows /\ row.version = db.version + 1
        BY <1>0, <1>2, <1>4, <2>1, BumpFits DEF Rows
    <2>3. j \in Jobs /\ Same(j, job[r]) /\ j.at = "store"
        BY <1>0, <1>2, <1>4, <2>1 DEF Jobs, Same, Steps
    <2>4. ~job[r].under /\ job[r].version <= db.version
        BY <1>0 DEF Sound
    <2>5. Sound(j, row)
        BY <1>0, <2>2, <2>3, <2>4 DEF Sound, Same, Looked, Steps, Rows, Jobs
    <2> QED BY <1>3, <2>1, <2>2, <2>3, <2>4, <2>5, WriteKeeps DEF Follows, Same
<1>5. CASE ~(i.state # "none" /\ RouteApplies(r))
    BY <1>1, <1>3, <1>5, FinishKeeps DEF Replies
<1> QED BY <1>4, <1>5

LEMMA StoreKeeps ==
    ASSUME DialogInv, NEW r \in Requests, StoreState(r) \/ StorePending(r)
    PROVE  DialogInv'
<1>0. job[r] \in Jobs /\ cache \in Caches /\ db' = db /\ "sent" \in Replies
    BY TypeParts DEF StoreState, StorePending, Replies
<1>1. RestFits
    BY <1>0, TypeParts DEF StoreState, StorePending, RestFits, Caches, Jobs
<1>2. CASE Finish(r, "sent")
    BY <1>0, <1>1, <1>2, FinishKeeps
<1>3. CASE StoreState(r) /\ Move(r, "store_order")
    <2>1. PICK j : j = [job[r] EXCEPT !.at = "store_order"] /\ Becomes(r, j)
        BY <1>3 DEF Move
    <2>2. j \in Jobs /\ Same(j, job[r]) /\ j.at = "store_order"
        BY <1>0, <2>1 DEF Jobs, Same, Steps
    <2>3. job[r].at \in Looked \ {"heed", "resume", "clearing"} /\ j.at \in Looked \ {"synced"}
        BY <1>3, <2>2 DEF StoreState, At, Looked, Steps
    <2> QED BY <1>0, <1>1, <2>1, <2>2, <2>3, OnwardKeeps
<1> QED BY <1>2, <1>3 DEF StoreState, StorePending

\* What a button writes.
LEMMA OrderedFits ==
    ASSUME NEW row \in Rows, NEW k \in Operators
    PROVE  /\ Ordered(k, row) \in Rows
           /\ k # "snooze_off" => Ordered(k, row).version = row.version + 1
           /\ k = "snooze_off" => /\ Ordered(k, row).version = row.version
                                  /\ Ordered(k, row).state = row.state
<1>1. CASE k = "snooze_off"
    BY <1>1 DEF Ordered, Rows
<1>2. ASSUME NEW b, b = Bump(row), k # "snooze_off"
      PROVE  Ordered(k, row) \in Rows /\ Ordered(k, row).version = b.version
    <2>1. b \in Rows
        BY <1>2, BumpFits
    <2>2. \/ Ordered(k, row) = [b EXCEPT !.state = "human_mode"]
          \/ Ordered(k, row) = [b EXCEPT !.state = "chatting"]
          \/ Ordered(k, row) = [b EXCEPT !.state = "human_mode", !.paused = TRUE]
          \/ Ordered(k, row) = [b EXCEPT !.state = "human_mode", !.paused = TRUE, !.snoozed = FALSE]
          \/ Ordered(k, row) = [b EXCEPT !.state = "chatting", !.paused = FALSE]
          \/ Ordered(k, row) = [b EXCEPT !.state = "chatting", !.paused = FALSE, !.snoozed = TRUE]
        BY <1>2 DEF Ordered, Operators
    <2> QED BY ZenonT(60), <2>1, <2>2 DEF Rows, States
<1> QED BY <1>1, <1>2, BumpFits

LEMMA OperateKeeps ==
    ASSUME DialogInv, NEW r \in Requests, Operate(r)
    PROVE  DialogInv'
<1>0. job[r] \in Jobs /\ Sound(job[r], db) /\ db \in Rows /\ job[r].at = "admin"
    BY TypeParts DEF Operate, At
<1>1. job[r].kind \in Operators /\ job[r].version = 0 /\ ~job[r].under
    BY <1>0 DEF Sound, Looked
<1>2. PICK row, j : /\ row = Ordered(job[r].kind, db)
                    /\ j = IF job[r].kind = "snooze_off" THEN Ended(job[r], "none")
                           ELSE [job[r] EXCEPT !.at = "store", !.next = row.state]
                    /\ WriteRow(r, row, j)
    BY DEF Operate
<1>3. row \in Rows /\ Follows(row)
    BY <1>0, <1>1, <1>2, OrderedFits DEF Follows
<1>4. j \in Jobs /\ ~j.under /\ j.version = 0 /\ j.at \in {"done", "store"}
    <2>1. CASE job[r].kind = "snooze_off"
        BY <1>0, <1>2, <2>1, EndedFits DEF Replies, Ended, NewJob
    <2>2. CASE job[r].kind # "snooze_off"
        BY <1>0, <1>1, <1>2, <1>3, <2>2 DEF Jobs, Rows, Steps
    <2> QED BY <2>1, <2>2
<1>5. RestFits
    BY TypeParts DEF Operate, RestFits
<1> QED BY <1>2, <1>3, <1>4, <1>5, UnreadSound, WriteKeeps

LEMMA SnoozeKeeps == ASSUME DialogInv, SnoozeEnds PROVE DialogInv'
<1>0. db \in Rows /\ job \in [Requests -> Jobs] /\ \A q \in Requests : job[q] \in Jobs
    BY TypeParts
<1>1. PICK row : row = [db EXCEPT !.snoozed = FALSE] /\ db' = row
    BY DEF SnoozeEnds
<1>2. row \in Rows /\ Follows(row)
    BY <1>0, <1>1 DEF Rows, Follows
<1>3. job' = [q \in Requests |-> [job[q] EXCEPT !.under = @ /\ Served(row)]]
    BY <1>1 DEF SnoozeEnds
<1>4. ASSUME NEW q \in Requests PROVE job'[q] \in Jobs /\ Sound(job'[q], row)
    <2>1. job'[q] = [job[q] EXCEPT !.under = @ /\ Served(row)]
        BY <1>3
    <2>2. PICK alone \in BOOLEAN : alone = job[q].alone
        BY <1>0 DEF Jobs
    <2>3. job'[q] = [job[q] EXCEPT !.under = @ /\ Served(row), !.alone = alone]
        BY <1>0, <2>1, <2>2 DEF Jobs
    <2> QED BY <1>2, <2>2, <2>3, OthersKeep
<1>5. job' \in [Requests -> Jobs]
    <2>1. job' = [q \in Requests |-> job'[q]]
        BY <1>3
    <2> QED BY <1>4, <2>1
<1>6. \A q \in Requests : Sound(job[q], db)'
    BY <1>1, <1>4 DEF Sound, Served
<1> QED BY <1>1, <1>2, <1>5, <1>6, TypeParts
        DEF SnoozeEnds, DialogInv, TypeOK, Rows, Caches, OrderRows, Jobs

\* The closing of an order, and the reminder: neither looks at the version.
LEMMA OrderJobsKeep ==
    ASSUME DialogInv, NEW r \in Requests,
           \/ \E k \in Kinds : CloseOrder(r, k)
           \/ Unpend(r) \/ CancelCommit(r) \/ FindDraft(r) \/ RestorePending(r) \/ RestoreState(r)
    PROVE  DialogInv'
<1>0. /\ job[r] \in Jobs /\ Sound(job[r], db) /\ db \in Rows /\ cache \in Caches /\ orders \in OrderRows
      /\ Pending \in Orders \cup {NoOrder} /\ db' = db
    BY TypeParts, CachedFits DEF CloseOrder, Unpend, CancelCommit, FindDraft, RestorePending, RestoreState
<1>1. RestFits
    <2>1. CASE (\E k \in Kinds : CloseOrder(r, k)) \/ CancelCommit(r)
        BY <1>0, <2>1, TypeParts DEF CloseOrder, CancelCommit, RestFits, OrderRows
    <2>2. CASE Unpend(r)
        BY <1>0, <2>2, TypeParts DEF Unpend, Recalled, RestFits, Caches
    <2>3. CASE FindDraft(r)
        BY <1>0, <2>3, TypeParts DEF FindDraft, Drafts, RestFits
    <2>4. CASE RestorePending(r) \/ RestoreState(r)
        BY <1>0, <2>4, TypeParts DEF RestorePending, RestoreState, RestFits, Caches, States, Jobs
    <2> QED BY <2>1, <2>2, <2>3, <2>4
<1>2. CASE CancelCommit(r)
    BY <1>0, <1>1, <1>2, FinishKeeps DEF CancelCommit, Replies
<1>3. CASE ~CancelCommit(r)
    <2>1. job[r].at \in {"idle", "close", "restore", "restore_state"}
        BY <1>3 DEF CloseOrder, Unpend, FindDraft, RestorePending, RestoreState, At
    <2>2. job[r].version = 0 /\ ~job[r].under
        BY <1>0, <2>1 DEF Sound, Looked
    <2>3. ASSUME NEW j \in Jobs, j.version = 0, ~j.under, j.at \notin {"admin", "refill"}, Becomes(r, j)
          PROVE  DialogInv'
        BY <1>0, <1>1, <2>3, UnreadSound, StepKeeps
    <2>4. ASSUME NEW k \in Kinds, CloseOrder(r, k) PROVE DialogInv'
        <3>1. PICK o, j :
                 o \in Orders /\ j = [job[r] EXCEPT !.kind = k, !.at = "close", !.pending = o] /\ Becomes(r, j)
            BY <2>4 DEF CloseOrder
        <3>2. j \in Jobs /\ j.version = 0 /\ ~j.under /\ j.at = "close"
            BY <1>0, <2>2, <3>1 DEF Jobs, Steps
        <3> QED BY <2>3, <3>1, <3>2
    <2>5. CASE Unpend(r)
        <3> DEFINE cleared == [job[r] EXCEPT !.at = "clear"]
                   unpended(at) == [job[r] EXCEPT !.then = "closing", !.at = at]
        <3>1. Becomes(r, cleared) \/ \E at \in {"clear", "closing"} : Becomes(r, unpended(at))
            BY <2>5 DEF Unpend, Move
        <3>2. cleared \in Jobs /\ cleared.version = 0 /\ ~cleared.under /\ cleared.at = "clear"
            BY <1>0, <2>2 DEF Jobs, Steps
        <3>3. \A at \in {"clear", "closing"} :
                 /\ unpended(at) \in Jobs /\ unpended(at).version = 0 /\ ~unpended(at).under
                 /\ unpended(at).at = at
            BY <1>0, <2>2 DEF Jobs, Steps
        <3> HIDE DEF cleared, unpended
        <3> QED BY <2>3, <3>1, <3>2, <3>3
    <2>6. CASE FindDraft(r)
        <3>1. PICK o, j :
                 o \in Orders /\ j = [job[r] EXCEPT !.kind = "recovery", !.at = "restore", !.pending = o] /\ Becomes(r, j)
            BY <2>6 DEF FindDraft, Drafts
        <3>2. j \in Jobs /\ j.version = 0 /\ ~j.under /\ j.at = "restore"
            BY <1>0, <2>2, <3>1 DEF Jobs, Steps, Kinds
        <3> QED BY <2>3, <3>1, <3>2
    <2>7. CASE RestorePending(r) \/ RestoreState(r)
        <3>1. PICK at, j :
                 /\ at \in {"restore_state", "restoring"}
                 /\ j = [job[r] EXCEPT !.at = at] /\ Becomes(r, j)
            BY <2>7 DEF RestorePending, RestoreState, Move
        <3>2. j \in Jobs /\ j.version = 0 /\ ~j.under /\ j.at = at
            BY <1>0, <2>2, <3>1 DEF Jobs, Steps
        <3> QED BY <2>3, <3>1, <3>2
    <2> QED BY <1>3, <2>4, <2>5, <2>6, <2>7
<1> QED BY <1>2, <1>3

LEMMA RemindedKeeps ==
    ASSUME DialogInv, NEW r \in Requests, Reminded(r)
    PROVE  DialogInv'
<1>0. job[r] \in Jobs /\ Sound(job[r], db) /\ db \in Rows
    BY TypeParts
<1>1. RestFits
    BY TypeParts DEF Reminded, Undo, RestFits
<1>2. ASSUME NEW row, row = [Bump(db) EXCEPT !.state = "confirming_order", !.pending = job[r].pending],
             NEW answer \in Replies, WriteRow(r, row, Ended(job[r], answer))
      PROVE  DialogInv'
    <2>1. row \in Rows /\ row.version = db.version + 1
        BY ZenonT(60), <1>0, <1>2, BumpFits DEF Rows, Jobs, States
    <2> QED BY <1>0, <1>1, <1>2, <2>1, EndedFits, WriteKeeps DEF Follows
<1>3. ASSUME NEW answer \in Replies, Finish(r, answer), UNCHANGED db PROVE DialogInv'
    BY <1>1, <1>3, FinishKeeps
<1>4. "none" \in Replies /\ "failed" \in Replies
    BY DEF Replies
<1> QED BY <1>2, <1>3, <1>4 DEF Reminded

LEMMA FaultsKeep ==
    ASSUME DialogInv, Expire \/ \E r \in Requests : Crash(r)
    PROVE  DialogInv'
<1>1. CASE Expire
    BY <1>1 DEF Expire, DialogInv, TypeOK, Sound, Served
<1>2. ASSUME NEW r \in Requests, Crash(r) PROVE DialogInv'
    <2>1. RestFits /\ db' = db /\ Finish(r, "failed")
        BY <1>2, TypeParts DEF Crash, RestFits
    <2> QED BY <2>1, FinishKeeps DEF Replies
<1> QED BY <1>1, <1>2

LEMMA DialogNext == DialogInv /\ [Next]_vars => DialogInv'
<1> SUFFICES ASSUME DialogInv, [Next]_vars PROVE DialogInv'
    OBVIOUS
<1>1. CASE UNCHANGED vars
    BY <1>1 DEF vars, DialogInv, TypeOK, Sound, Served
<1>2. ASSUME NEW r \in Requests, Message(r) PROVE DialogInv'
    BY <1>2, PreflightKeeps, HeedKeeps, ResumeKeeps, AnswersKeep, WriteStateKeeps, TalkKeeps, RouteKeeps DEF Message
<1>3. ASSUME NEW r \in Requests,
             \/ \E k \in Kinds : ReadState(r, k) \/ CloseOrder(r, k)
             \/ Refill(r) \/ Clear(r) \/ ClearCommit(r)
             \/ StoreState(r) \/ StorePending(r)
             \/ Operate(r) \/ Unpend(r) \/ CancelCommit(r)
             \/ FindDraft(r) \/ RestorePending(r) \/ RestoreState(r) \/ Reminded(r) \/ Crash(r)
      PROVE  DialogInv'
    BY <1>3, ReadKeeps, ClearKeeps, StoreKeeps, OperateKeeps, OrderJobsKeep, RemindedKeeps, FaultsKeep
<1> QED BY <1>1, <1>2, <1>3, SnoozeKeeps, FaultsKeep DEF Next

LEMMA DialogAlways == Spec => []DialogInv
BY DialogInit, DialogNext, PTL DEF Spec

\* The row, its cache and the jobs hold only states and steps the code knows.
THEOREM TypeCorrect == Spec => []TypeOK
BY DialogAlways, PTL DEF DialogInv

-----------------------------------------------------------------------------
(* Who answers, and into which session *)

\* BotYieldsToOperator: a message that finds the guest with an operator is with
\* the bot at no time until the guest is given back, because the row, and not
\* Redis, is asked, after the message is there.
THEOREM BotYields == Spec => []BotYieldsToOperator
<1>1. DialogInv => BotYieldsToOperator
    BY TypeParts DEF Sound, BotYieldsToOperator, Bot
<1> QED BY <1>1, DialogAlways, PTL

\* The route alone leads from "route" to "store".
LEMMA RouteAlone ==
    ASSUME DialogInv, [Next]_vars, NEW r \in Requests, job[r].at = "route", job'[r].at = "store"
    PROVE  Route(r) /\ RouteApplies(r)
<1>0. job \in [Requests -> Jobs]
    BY TypeParts
<1>1. ASSUME NEW q \in Requests, NEW j, Becomes(q, j) PROVE job'[q] = j /\ (q # r => job'[r] = job[r])
    BY <1>0, <1>1 DEF Becomes
<1>2. ASSUME NEW q \in Requests, NEW row, NEW j, WriteRow(q, row, j), q # r PROVE job'[r].at = job[r].at
    <2>1. job'[r] = [job[r] EXCEPT !.under = @ /\ Served(row), !.alone = @ /\ row.version = db.version]
        BY <1>2 DEF WriteRow
    <2> QED BY <1>0, <2>1 DEF Jobs
<1>3. ASSUME NEW q \in Requests, q # r
      PROVE  ~(\/ \E k \in Kinds : ReadState(q, k) \/ CloseOrder(q, k)
               \/ Refill(q) \/ Message(q) \/ Clear(q) \/ ClearCommit(q)
               \/ StoreState(q) \/ StorePending(q)
               \/ Operate(q) \/ Unpend(q) \/ CancelCommit(q)
               \/ FindDraft(q) \/ RestorePending(q) \/ RestoreState(q) \/ Reminded(q) \/ Crash(q))
    <2>1. \A j : ~Becomes(q, j)
        BY <1>1, <1>3
    <2>2. \A row, j : ~WriteRow(q, row, j)
        BY <1>2, <1>3
    <2> QED BY <2>1, <2>2 DEF ReadState, CloseOrder, Refill, Message, Preflight, Heed, Resume, Resumed,
            PaymentAnswer, ConfirmationAnswer, ConfirmPending, BookingAnswer, WriteState, Synced, Talk,
            Answer, Route, Clear, ClearCommit, StoreState, StorePending, Operate, Unpend, CancelCommit,
            FindDraft, RestorePending, RestoreState, Reminded, Crash, Finish, Move
<1>4. Message(r) \/ Crash(r) \/ SnoozeEnds \/ Expire \/ UNCHANGED vars
    <2>1. ~(\/ \E k \in Kinds : ReadState(r, k) \/ CloseOrder(r, k)
            \/ Refill(r) \/ Clear(r) \/ ClearCommit(r)
            \/ StoreState(r) \/ StorePending(r)
            \/ Operate(r) \/ Unpend(r) \/ CancelCommit(r)
            \/ FindDraft(r) \/ RestorePending(r) \/ RestoreState(r) \/ Reminded(r))
        BY DEF ReadState, CloseOrder, Refill, Clear, ClearCommit, StoreState, StorePending, Operate,
               Unpend, CancelCommit, FindDraft, RestorePending, RestoreState, Reminded, At
    <2> QED BY <1>3, <2>1 DEF Next
<1>5. ~SnoozeEnds /\ ~Expire /\ ~UNCHANGED vars
    <2>1. SnoozeEnds => job'[r].at = job[r].at
        <3>1. SnoozeEnds => \E served : job'[r] = [job[r] EXCEPT !.under = @ /\ served]
            BY DEF SnoozeEnds
        <3> QED BY <1>0, <3>1 DEF Jobs
    <2> QED BY <2>1 DEF Expire, vars
<1>a. ASSUME NEW answer, Finish(r, answer) PROVE FALSE
    <2>1. job'[r] = Ended(job[r], answer)
        BY <1>1, <1>a DEF Finish
    <2>2. Ended(job[r], answer).at = "done"
        BY DEF Ended, NewJob
    <2> QED BY <2>1, <2>2
<1>6. ~Crash(r)
    BY <1>a DEF Crash
<1>7. Route(r)
    BY <1>4, <1>5, <1>6 DEF Message, Preflight, Heed, Resume, Resumed, PaymentAnswer, ConfirmationAnswer,
            ConfirmPending, BookingAnswer, WriteState, Synced, Talk, Answer, At, Bot
<1>8. ~Finish(r, "sent")
    BY <1>a
<1> QED BY <1>7, <1>8 DEF Route

\* RouteFindsItsSession: the condition of the UPDATE, a version and a state,
\* is enough, since every other writer of the state counts the version up.
THEOREM RouteKeepsSession == Spec => RouteFindsItsSession
<1>1. ASSUME DialogInv, [Next]_vars
      PROVE  [\A r \in Requests :
                job[r].at = "route" /\ job'[r].at = "store"
                    => db.state = job[r].state /\ (job[r].version # 0 => job[r].alone)]_vars
    <2> SUFFICES ASSUME NEW r \in Requests, job[r].at = "route", job'[r].at = "store"
                 PROVE  db.state = job[r].state /\ (job[r].version # 0 => job[r].alone)
        OBVIOUS
    <2>1. RouteApplies(r)
        BY <1>1, RouteAlone
    <2> QED BY <1>1, <2>1, TypeParts DEF RouteApplies, Current, Sound
<1> QED BY <1>1, DialogAlways, PTL DEF Spec, RouteFindsItsSession
================================================================================
