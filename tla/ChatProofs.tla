----------------------------- MODULE ChatProofs -----------------------------
(***************************************************************************)
(* Theorems about a message on its way: first about ChatSerializer, in the *)
(* chat, for any number of jobs and messages, any limits and any faults;   *)
(* then about ChannelMessages, between the application and the gateway,    *)
(* for any number of processes, any limit of attempts and any faults.      *)
(***************************************************************************)
EXTENDS ChatSerializer, ChannelMessages, TLAPS, SequenceTheorems

USE ChatAssumption

-----------------------------------------------------------------------------
(* What the commands on the queue do *)

\* There is one place at most in the queue where m waits.
Single(m) == \A i, k \in DOMAIN queue : queue[i] = m /\ queue[k] = m => i = k

\* RPUSH
LEMMA QueueAppend ==
    ASSUME queue \in Seq(Messages), NEW x \in Messages, queue' = Append(queue, x)
    PROVE  /\ queue' \in Seq(Messages)
           /\ \A m : Queued(m)' <=> Queued(m) \/ m = x
           /\ \A m : Single(m) /\ (m = x => ~Queued(m)) => Single(m)'
<1>1. /\ queue' \in Seq(Messages)
      /\ Len(queue') = Len(queue) + 1
      /\ \A i \in 1..Len(queue) : queue'[i] = queue[i]
      /\ queue'[Len(queue) + 1] = x
    BY AppendProperties
<1>2. DOMAIN queue = 1..Len(queue) /\ DOMAIN queue' = 1..(Len(queue) + 1) /\ Len(queue) \in Nat
    BY <1>1, LenProperties
<1> QED BY <1>1, <1>2 DEF Queued, Single

\* LPOP
LEMMA QueuePop ==
    ASSUME queue \in Seq(Messages), queue # <<>>, queue' = Tail(queue)
    PROVE  /\ queue' \in Seq(Messages)
           /\ Head(queue) \in Messages
           /\ \A m : Queued(m) <=> Queued(m)' \/ m = Head(queue)
           /\ \A m : Single(m) => Single(m)' /\ (m = Head(queue) => ~Queued(m)')
<1>1. /\ queue' \in Seq(Messages)
      /\ Head(queue) \in Messages
      /\ Head(queue) = queue[1]
      /\ Len(queue') = Len(queue) - 1
      /\ \A i \in 1..Len(queue') : queue'[i] = queue[i + 1]
    BY HeadTailProperties
<1>2. /\ DOMAIN queue = 1..Len(queue) /\ DOMAIN queue' = 1..(Len(queue) - 1)
      /\ Len(queue) \in Nat \ {0}
    BY <1>1, LenProperties, EmptySeq
<1>3. ASSUME NEW m PROVE Queued(m) <=> Queued(m)' \/ m = Head(queue)
    <2>1. ASSUME NEW i \in DOMAIN queue, queue[i] = m PROVE Queued(m)' \/ m = Head(queue)
        <3>1. CASE i = 1
            BY <1>1, <2>1, <3>1
        <3>2. CASE i # 1
            <4>1. i - 1 \in DOMAIN queue' /\ queue'[i - 1] = m
                BY <1>1, <1>2, <2>1, <3>2
            <4> QED BY <4>1 DEF Queued
        <3> QED BY <3>1, <3>2
    <2>2. ASSUME NEW i \in DOMAIN queue', queue'[i] = m PROVE Queued(m)
        <3>1. i + 1 \in DOMAIN queue /\ queue[i + 1] = m
            BY <1>1, <1>2, <2>2
        <3> QED BY <3>1 DEF Queued
    <2>3. m = Head(queue) => Queued(m)
        BY <1>1, <1>2 DEF Queued
    <2> QED BY <2>1, <2>2, <2>3 DEF Queued
<1>4. ASSUME NEW m, Single(m) PROVE Single(m)' /\ (m = Head(queue) => ~Queued(m)')
    <2>1. ASSUME NEW i \in DOMAIN queue', queue'[i] = m
          PROVE  i + 1 \in DOMAIN queue /\ queue[i + 1] = m /\ i + 1 # 1 /\ i \in Int
        BY <1>1, <1>2, <2>1
    <2>2. Single(m)'
        BY <1>4, <2>1 DEF Single
    <2>3. m = Head(queue) => ~Queued(m)'
        BY <1>1, <1>2, <1>4, <2>1 DEF Single, Queued
    <2> QED BY <2>2, <2>3
<1> QED BY <1>1, <1>3, <1>4

-----------------------------------------------------------------------------
(* Types *)

\* What a job is sure of at a place in its program.
JobFits(j) ==
    /\ pc[j] \in Carrying => hand[j] \in Messages
    /\ pc[j] = "idle" => ~leaving[j]
    /\ pc[j] # "mark_failed" => tries[j] < MaxRetries
    /\ pc[j] # "release" => drained[j] < MaxDrain

TypeInv == TypeOK /\ \A j \in Jobs : JobFits(j)

LEMMA TypeInit == Init => TypeInv
<1>1. Init => queue \in Seq(Messages)
    BY EmptySeq DEF Init
<1> QED BY <1>1 DEF Init, TypeInv, TypeOK, JobFits, Pcs, Enqueuing, Processing, Carrying, Looping, Ended

\* The end of a job leaves its registers fit for nothing to follow.
LEMMA JobEnds ==
    ASSUME TypeInv, NEW j \in Jobs, NEW p \in {"ended", "crashed"}, End(j, p)
    PROVE  /\ pc' \in [Jobs -> Pcs] /\ leaving' \in [Jobs -> BOOLEAN]
           /\ tries' \in [Jobs -> 0..MaxRetries] /\ drained' \in [Jobs -> 0..MaxDrain]
           /\ lapsed' \in [Jobs -> BOOLEAN]
<1>1. /\ pc' = [pc EXCEPT ![j] = p] /\ leaving' = [leaving EXCEPT ![j] = FALSE]
      /\ tries' = [tries EXCEPT ![j] = 0] /\ drained' = [drained EXCEPT ![j] = 0]
      /\ lapsed' = [lapsed EXCEPT ![j] = FALSE]
    BY DEF End, Goto
<1> QED BY <1>1 DEF TypeInv, TypeOK, Pcs, Carrying, Looping, Ended

LEMMA TypeStart ==
    ASSUME TypeInv, NEW j \in Jobs, Start(j) \/ StartUnchecked(j)
    PROVE  TypeInv'
<1> USE DEF TypeInv, TypeOK, JobFits, Pcs, Enqueuing, Processing, Carrying, Looping, Ended, Goto, redis
<1>1. CASE Start(j)
    <2>1. TypeOK'
        <3>1. CASE Goto(j, "ended") /\ UNCHANGED <<row, old, lost, hand>>
            BY <1>1, <3>1 DEF Start
        <3>2. ASSUME NEW m \in Messages, row' = [row EXCEPT ![m] = "processing"], old' = old \ {m},
                     lost' = lost \ {m}, hand' = [hand EXCEPT ![j] = m], Goto(j, "check")
              PROVE  TypeOK'
            BY <1>1, <3>2 DEF Start
        <3> QED BY <1>1, <3>1, <3>2 DEF Start
    <2>2. ASSUME NEW k \in Jobs PROVE JobFits(k)'
        <3>1. CASE k = j
            BY <1>1, <3>1 DEF Start
        <3>2. CASE k # j
            BY <1>1, <3>2 DEF Start
        <3> QED BY <3>1, <3>2
    <2> QED BY <2>1, <2>2
<1>2. CASE StartUnchecked(j)
    BY <1>2 DEF StartUnchecked
<1> QED BY <1>1, <1>2

LEMMA TypeEnqueue ==
    ASSUME TypeInv, NEW j \in Jobs,
           Enqueue(j) \/ CheckFails(j) \/ MeasureFails(j) \/ TrimFails(j) \/ PushFails(j)
    PROVE  TypeInv'
<1> USE DEF TypeInv, TypeOK, JobFits, Pcs, Enqueuing, Processing, Carrying, Looping, Ended, Goto, redis, claims
<1>1. CASE Check(j) \/ CheckFails(j)
    <2>1. TypeOK'
        BY <1>1 DEF Check, CheckFails, Pushed
    <2>2. ASSUME NEW k \in Jobs PROVE JobFits(k)'
        <3>1. CASE k = j
            BY <1>1, <3>1 DEF Check, CheckFails, Pushed
        <3>2. CASE k # j
            BY <1>1, <3>2 DEF Check, CheckFails, Pushed
        <3> QED BY <3>1, <3>2
    <2> QED BY <2>1, <2>2
<1>2. CASE Measure(j) \/ MeasureFails(j)
    BY ZenonT(60), <1>2 DEF Measure, MeasureFails
<1>3. CASE Trim(j) \/ TrimFails(j)
    BY ZenonT(60), <1>3, QueuePop DEF Trim, TrimFails, DropHead, Drop
<1>4. CASE Push(j) \/ PushFails(j)
    <2>1. hand[j] \in Messages
        BY <1>4 DEF Push, PushFails
    <2>2. queue' \in Seq(Messages)
        BY <1>4, <2>1, QueueAppend DEF Push, PushFails
    <2>3. TypeOK'
        BY <1>4, <2>1, <2>2 DEF Push, PushFails, Pushed, Drop
    <2>4. ASSUME NEW k \in Jobs PROVE JobFits(k)'
        BY <1>4 DEF Push, PushFails, Pushed
    <2> QED BY <2>3, <2>4
<1> QED BY <1>1, <1>2, <1>3, <1>4 DEF Enqueue

LEMMA TypeLoop ==
    ASSUME TypeInv, NEW j \in Jobs,
           Loop(j) \/ AcquireFails(j) \/ DrainFails(j) \/ RenewFails(j) \/ ReleaseFails(j)
    PROVE  TypeInv'
<1> USE DEF TypeInv, TypeOK, JobFits, Pcs, Enqueuing, Processing, Carrying, Looping, Ended, Goto, End, redis, claims
<1>1. CASE Acquire(j) \/ AcquireFails(j)
    <2>1. TypeOK'
        <3>1. CASE Acquire(j)
            <4>1. CASE lock' = j /\ Goto(j, "drain") /\ UNCHANGED <<leaving, tries, drained, lapsed>>
                BY <3>1, <4>1 DEF Acquire
            <4>2. CASE End(j, "ended") /\ UNCHANGED lock
                BY <3>1, <4>2, JobEnds DEF Acquire
            <4> QED BY <3>1, <4>1, <4>2 DEF Acquire
        <3>2. CASE AcquireFails(j)
            BY <3>2 DEF AcquireFails
        <3> QED BY <1>1, <3>1, <3>2
    <2>2. ASSUME NEW k \in Jobs PROVE JobFits(k)'
        <3>1. CASE k = j
            BY <1>1, <3>1 DEF Acquire, AcquireFails
        <3>2. CASE k # j
            BY <1>1, <3>2 DEF Acquire, AcquireFails
        <3> QED BY <3>1, <3>2
    <2> QED BY <2>1, <2>2
<1>2. CASE Drain(j) \/ DrainFails(j)
    <2>1. TypeOK'
        <3>1. queue' \in Seq(Messages) /\ (queue # <<>> => Head(queue) \in Messages)
            BY <1>2, QueuePop, HeadTailProperties DEF Drain, DrainFails, DropHead
        <3>2. CASE Drain(j)
            <4>1. CASE queue = <<>>
                BY <3>1, <3>2, <4>1 DEF Drain
            <4>2. CASE queue # <<>>
                <5>1. Goto(j, "renew") /\ hand' = [hand EXCEPT ![j] = Head(queue)]
                    BY <3>2, <4>2 DEF Drain
                <5>2. pc' \in [Jobs -> Pcs] /\ hand' \in [Jobs -> Messages \cup {None}]
                    BY <3>1, <4>2, <5>1
                <5> QED BY <3>1, <3>2, <5>2 DEF Drain
            <4> QED BY <4>1, <4>2
        <3>3. CASE DrainFails(j)
            BY <3>1, <3>3 DEF DrainFails, DropHead, Drop
        <3> QED BY <1>2, <3>2, <3>3
    <2>2. ASSUME NEW k \in Jobs PROVE JobFits(k)'
        <3>1. CASE k = j
            BY <1>2, <3>1, QueuePop DEF Drain, DrainFails, DropHead, Drop
        <3>2. CASE k # j
            BY <1>2, <3>2 DEF Drain, DrainFails, DropHead, Drop
        <3> QED BY <3>1, <3>2
    <2> QED BY <2>1, <2>2
<1>3. CASE Renew(j) \/ RenewFails(j)
    BY ZenonT(60), <1>3 DEF Renew, RenewFails, PutBack
<1>4. CASE Release(j) \/ ReleaseFails(j)
    <2>1. TypeOK'
        <3>1. lock' \in Jobs \cup {None}
            BY <1>4 DEF Release, ReleaseFails, Released
        <3>2. End(j, "ended") /\ UNCHANGED <<claims, queue, hand, lost>>
            BY <1>4 DEF Release, ReleaseFails
        <3> QED BY <3>1, <3>2, JobEnds
    <2>2. ASSUME NEW k \in Jobs PROVE JobFits(k)'
        <3>1. CASE k = j
            BY <1>4, <3>1 DEF Release, ReleaseFails, Released
        <3>2. CASE k # j
            BY <1>4, <3>2 DEF Release, ReleaseFails, Released
        <3> QED BY <3>1, <3>2
    <2> QED BY <2>1, <2>2
<1> QED BY <1>1, <1>2, <1>3, <1>4 DEF Loop

LEMMA TypeProcess ==
    ASSUME TypeInv, NEW j \in Jobs, Process(j) \/ MarkFails(j)
    PROVE  TypeInv'
<1> USE DEF TypeInv, TypeOK, JobFits, Pcs, Enqueuing, Processing, Carrying, Looping, Ended, Goto, redis, claims
<1>1. CASE Succeed(j)
    BY <1>1 DEF Succeed
<1>2. CASE Raise(j)
    BY <1>2 DEF Raise
<1>3. CASE Mark(j)
    BY <1>3 DEF Mark, Processed
<1>4. CASE MarkFails(j)
    BY SMTT(30), <1>4 DEF MarkFails, Processed, Drop
<1> QED BY <1>1, <1>2, <1>3, <1>4 DEF Process

LEMMA TypeTime ==
    ASSUME TypeInv, Lapse \/ Forget \/ (\E j \in Jobs : Crash(j)) \/ (\E m \in Messages : Age(m))
    PROVE  TypeInv'
<1> USE DEF TypeInv, TypeOK, JobFits, Pcs, Enqueuing, Processing, Carrying, Looping, Ended, Goto, End, redis, claims
<1>1. CASE Lapse
    BY <1>1 DEF Lapse
<1>2. CASE Forget
    BY <1>2, EmptySeq DEF Forget
<1>3. ASSUME NEW j \in Jobs, Crash(j) PROVE TypeInv'
    BY <1>3 DEF Crash
<1>4. ASSUME NEW m \in Messages, Age(m) PROVE TypeInv'
    BY <1>4 DEF Age
<1> QED BY <1>1, <1>2, <1>3, <1>4

LEMMA TypeNext == TypeInv /\ [Next]_vars => TypeInv'
<1> SUFFICES ASSUME TypeInv, [Next]_vars PROVE TypeInv'
    OBVIOUS
<1>1. CASE UNCHANGED vars
    BY <1>1 DEF vars, TypeInv, TypeOK, JobFits, Carrying
<1> QED BY <1>1, TypeStart, TypeEnqueue, TypeLoop, TypeProcess, TypeTime DEF Next, Fail

\* The limits on retries and on the messages of a cycle hold, and a job has a
\* message wherever its program uses one.
THEOREM TypeCorrect == Spec => []TypeOK
<1>1. Spec => []TypeInv
    BY TypeInit, TypeNext, PTL DEF Spec
<1>2. TypeInv => TypeOK
    BY DEF TypeInv
<1> QED BY <1>1, <1>2, PTL
-----------------------------------------------------------------------------
(* The lock *)

\* A step of one job outside the commands on the lock moves it on its side of
\* the section.
LEMMA LockUntouched ==
    ASSUME TypeInv, HolderHasLock, NEW j \in Jobs, UNCHANGED <<lock, lapsed>>,
           \A k \in Jobs \ {j} : pc'[k] = pc[k] /\ leaving'[k] = leaving[k],
           InSection(j)' => InSection(j)
    PROVE  HolderHasLock'
BY DEF HolderHasLock, InSection, Looping

LEMMA LockNext == TypeInv /\ HolderHasLock /\ [Next]_vars => HolderHasLock'
<1> SUFFICES ASSUME TypeInv, HolderHasLock, [Next]_vars PROVE HolderHasLock'
    OBVIOUS
<1>0. /\ pc \in [Jobs -> Pcs] /\ leaving \in [Jobs -> BOOLEAN] /\ lapsed \in [Jobs -> BOOLEAN]
      /\ lock \in Jobs \cup {None} /\ \A j \in Jobs : pc[j] = "idle" => ~leaving[j]
    BY DEF TypeInv, TypeOK, JobFits, Carrying
<1>1. ASSUME NEW j \in Jobs, Start(j) \/ StartUnchecked(j) PROVE HolderHasLock'
    <2>1. /\ UNCHANGED <<lock, lapsed, leaving>> /\ ~leaving[j]
          /\ pc' = [pc EXCEPT ![j] = "check"] \/ pc' = [pc EXCEPT ![j] = "ended"]
        BY <1>0, <1>1 DEF Start, StartUnchecked, Goto, redis
    <2> QED BY <1>0, <2>1, LockUntouched DEF InSection, Enqueuing, Processing, Looping
<1>2. ASSUME NEW j \in Jobs,
             Enqueue(j) \/ CheckFails(j) \/ MeasureFails(j) \/ TrimFails(j) \/ PushFails(j)
      PROVE HolderHasLock'
    <2>1. /\ UNCHANGED <<lock, lapsed, leaving>> /\ pc[j] \in Enqueuing
          /\ \E p \in Enqueuing : pc' = [pc EXCEPT ![j] = p]
             \/ pc' = [pc EXCEPT ![j] = IF leaving[j] THEN "release" ELSE "acquire"]
        BY <1>2 DEF Enqueue, Check, Measure, Trim, Push, CheckFails, MeasureFails, TrimFails,
                    PushFails, Pushed, Goto, redis, Enqueuing, Carrying
    <2> QED BY <1>0, <2>1, LockUntouched DEF InSection, Enqueuing, Processing, Looping
<1>3. ASSUME NEW j \in Jobs, Acquire(j) PROVE HolderHasLock'
    BY <1>0, <1>3 DEF Acquire, HolderHasLock, InSection, Goto, End, Enqueuing, Processing, Looping
<1>4. ASSUME NEW j \in Jobs, AcquireFails(j) PROVE HolderHasLock'
    BY <1>0, <1>4 DEF AcquireFails, HolderHasLock, InSection, Goto, Enqueuing, Processing, Looping
<1>5. ASSUME NEW j \in Jobs,
             Drain(j) \/ DrainFails(j) \/ Renew(j) \/ RenewFails(j) \/ Process(j) \/ MarkFails(j)
      PROVE HolderHasLock'
    <2>1. /\ UNCHANGED <<lock, lapsed>> /\ InSection(j)
          /\ \A k \in Jobs \ {j} : pc'[k] = pc[k] /\ leaving'[k] = leaving[k]
        BY <1>0, <1>5 DEF Drain, DrainFails, Renew, RenewFails, PutBack, Process, Succeed, Raise, Mark,
                    MarkFails, Processed, Goto, redis, InSection, Processing, Looping
    <2> QED BY <2>1, LockUntouched
<1>6. ASSUME NEW j \in Jobs, Release(j) \/ ReleaseFails(j) \/ Crash(j) PROVE HolderHasLock'
    <2>1. /\ lock' = lock \/ (lock = j /\ lock' = None)
          /\ pc' = [pc EXCEPT ![j] = "ended"] \/ pc' = [pc EXCEPT ![j] = "crashed"]
          /\ leaving' = [leaving EXCEPT ![j] = FALSE] /\ lapsed' = [lapsed EXCEPT ![j] = FALSE]
        BY <1>6 DEF Release, ReleaseFails, Crash, Released, End, Goto, redis
    <2> QED BY <1>0, <2>1 DEF HolderHasLock, InSection, Enqueuing, Processing, Looping
<1>7. CASE Lapse
    BY <1>0, <1>7 DEF Lapse, HolderHasLock, InSection, Looping
<1>8. CASE UNCHANGED <<lock, lapsed, pc, leaving>>
    BY <1>8 DEF HolderHasLock, InSection, Looping
<1> QED BY <1>1, <1>2, <1>3, <1>4, <1>5, <1>6, <1>7, <1>8
        DEF Next, Loop, Fail, vars, Forget, Age, redis

\* The lock belongs to the job in the drain loop for as long as its lease has
\* not run out, whatever the other jobs release, lose or crash with.
THEOREM LockHeld == Spec => []HolderHasLock
<1>1. Init => HolderHasLock
    BY DEF Init, HolderHasLock, InSection, Enqueuing, Processing, Looping
<1>2. Spec => []TypeInv
    BY TypeInit, TypeNext, PTL DEF Spec
<1> QED BY <1>1, <1>2, LockNext, PTL DEF Spec

\* What the lock is for: two jobs are in the drain loop at once only if the
\* lease of one of them has run out.
THEOREM OverlapNeedsLapse ==
    Spec => [](\A j, k \in Jobs : InSection(j) /\ InSection(k) /\ j # k => lapsed[j] \/ lapsed[k])
<1>1. HolderHasLock =>
        \A j, k \in Jobs : InSection(j) /\ InSection(k) /\ j # k => lapsed[j] \/ lapsed[k]
    BY DEF HolderHasLock
<1> QED BY <1>1, LockHeld, PTL
-----------------------------------------------------------------------------
(* Nothing lost *)

\* A step that may only move a message, or drop it by name.
Accounted ==
    /\ lost \subseteq lost'
    /\ \A m \in Messages :
          /\ row'[m] = "processing" => row[m] = "processing"
          /\ Queued(m) => Queued(m)' \/ m \in lost' \/ \E j \in Jobs : Carries(j, m)'
          /\ \A j \in Jobs : Carries(j, m) =>
                \/ Queued(m)' \/ m \in lost' \/ row'[m] # "processing"
                \/ Carries(j, m)'

LEMMA AccountedKeeps == NothingLostSilently /\ Accounted => NothingLostSilently'
BY DEF NothingLostSilently, Accounted

LEMMA LostEnqueue ==
    ASSUME TypeInv, NEW j \in Jobs,
           Enqueue(j) \/ CheckFails(j) \/ MeasureFails(j) \/ TrimFails(j) \/ PushFails(j)
    PROVE  Accounted
<1>0. /\ pc \in [Jobs -> Pcs] /\ hand \in [Jobs -> Messages \cup {None}]
      /\ queue \in Seq(Messages) /\ row' = row
      /\ pc[j] \in Enqueuing /\ hand[j] \in Messages
    BY DEF TypeInv, TypeOK, JobFits, Enqueue, Check, Measure, Trim, Push, CheckFails, MeasureFails,
           TrimFails, PushFails, claims, Enqueuing, Carrying
<1>1. CASE hand' = hand
    <2>1. /\ \E p \in Enqueuing : pc' = [pc EXCEPT ![j] = p]
          /\ \/ UNCHANGED <<queue, lost>>
             \/ DropHead
        BY <1>0, <1>1 DEF Enqueue, Check, Measure, Trim, Push, CheckFails, MeasureFails,
           TrimFails, PushFails, Pushed, Goto, redis, Enqueuing, Carrying
    <2>2. \A m \in Messages, k \in Jobs : Carries(k, m) => Carries(k, m)'
        BY <1>0, <1>1, <2>1 DEF Carries, Carrying
    <2>3. CASE UNCHANGED <<queue, lost>>
        BY <1>0, <2>2, <2>3 DEF Accounted, Queued
    <2>4. CASE DropHead
        <3>1. lost' = lost \cup {Head(queue)} /\ \A m : Queued(m) => Queued(m)' \/ m = Head(queue)
            BY <1>0, <2>4, QueuePop DEF DropHead, Drop
        <3> QED BY <1>0, <2>2, <3>1 DEF Accounted
    <2> QED BY <2>1, <2>3, <2>4
<1>2. CASE Pushed(j)
    <2>0. PICK x \in Messages : x = hand[j]
        BY <1>0
    <2>1. /\ hand' = [hand EXCEPT ![j] = None]
          /\ \A k \in Jobs \ {j} : pc'[k] = pc[k]
        BY <1>0, <1>2 DEF Pushed, Goto
    <2>2. /\ lost' = lost \/ lost' = lost \cup {x}
          /\ \/ UNCHANGED queue /\ (Queued(x) \/ x \in lost')
             \/ queue' = Append(queue, x)
        BY <1>0, <1>2, <2>0 DEF Enqueue, Check, Measure, Trim, Push, CheckFails, MeasureFails,
           TrimFails, PushFails, Pushed, Goto, redis, Drop
    <2>3. \A m \in Messages : Queued(m) => Queued(m)'
        BY <1>0, <2>2, QueueAppend DEF Queued
    <2>4. Queued(x)' \/ x \in lost'
        BY <1>0, <2>2, <2>3, QueueAppend
    <2>5. ASSUME NEW m \in Messages, NEW k \in Jobs, Carries(k, m)
          PROVE  Queued(m)' \/ m \in lost' \/ Carries(k, m)'
        <3>1. CASE k = j
            BY <2>0, <2>4, <2>5, <3>1 DEF Carries, Carrying
        <3>2. CASE k # j
            BY <1>0, <2>1, <2>5, <3>2 DEF Carries, Carrying
        <3> QED BY <3>1, <3>2
    <2> QED BY <1>0, <2>2, <2>3, <2>5 DEF Accounted
<1> QED BY <1>1, <1>2 DEF Enqueue, Check, Measure, Trim, Push, CheckFails, MeasureFails, TrimFails, PushFails

LEMMA LostNext == TypeInv /\ NothingLostSilently /\ [Next]_vars => NothingLostSilently'
<1> SUFFICES ASSUME TypeInv, NothingLostSilently, [Next]_vars PROVE NothingLostSilently'
    OBVIOUS
<1>0. /\ pc \in [Jobs -> Pcs] /\ hand \in [Jobs -> Messages \cup {None}]
      /\ queue \in Seq(Messages)
      /\ row \in [Messages -> {"none", "processing", "done", "failed"}]
      /\ None \notin Messages
    BY DEF TypeInv, TypeOK
<1>1. ASSUME NEW j \in Jobs, Start(j) PROVE NothingLostSilently'
    <2>1. CASE Goto(j, "ended") /\ UNCHANGED <<row, lost, hand, queue>>
        BY <1>0, <1>1, <2>1 DEF Start, Goto, NothingLostSilently, Carries, Queued, Enqueuing, Processing, Carrying, Looping
    <2>2. ASSUME NEW m \in Messages, row' = [row EXCEPT ![m] = "processing"],
                 lost' = lost \ {m}, hand' = [hand EXCEPT ![j] = m], Goto(j, "check"), UNCHANGED queue
          PROVE  NothingLostSilently'
        <3>1. Carries(j, m)'
            BY <1>0, <2>2 DEF Carries, Goto, Enqueuing, Carrying
        <3>2. ASSUME NEW k \in Jobs, NEW n \in Messages, Carries(k, n) PROVE Carries(k, n)'
            BY <1>0, <1>1, <2>2, <3>2 DEF Start, Carries, Goto, Enqueuing, Processing, Carrying, Looping
        <3> QED BY <1>0, <2>2, <3>1, <3>2 DEF NothingLostSilently, Queued
    <2> QED BY <1>1, <2>1, <2>2 DEF Start, redis
<1>2. ASSUME NEW j \in Jobs, StartUnchecked(j) PROVE Accounted
    BY <1>0, <1>2 DEF StartUnchecked, Goto, redis, Accounted, Carries, Queued, Enqueuing, Processing, Carrying, Looping
<1>3. ASSUME NEW j \in Jobs, Acquire(j) \/ AcquireFails(j) \/ Release(j) \/ ReleaseFails(j) PROVE Accounted
    BY <1>0, <1>3 DEF Acquire, AcquireFails, Release, ReleaseFails, End, Goto, claims, Accounted, Carries,
                      Queued, Enqueuing, Processing, Carrying, Looping
<1>4. ASSUME NEW j \in Jobs, Drain(j) \/ DrainFails(j) PROVE Accounted
    <2>0. row' = row /\ pc[j] = "drain"
        BY <1>4 DEF Drain, DrainFails, claims
    <2>1. CASE Goto(j, "release") /\ UNCHANGED <<queue, hand, lost>>
        BY <1>0, <2>0, <2>1 DEF Goto, Accounted, Carries, Queued, Enqueuing, Processing, Carrying, Looping
    <2>2. CASE Goto(j, "release") /\ UNCHANGED hand /\ DropHead
        BY <1>0, <2>0, <2>2, QueuePop DEF DropHead, Drop, Goto, Accounted, Carries, Enqueuing, Processing, Carrying, Looping
    <2>3. CASE /\ queue # <<>> /\ queue' = Tail(queue) /\ Goto(j, "renew") /\ UNCHANGED lost
               /\ hand' = [hand EXCEPT ![j] = Head(queue)]
        <3>1. PICK x \in Messages : x = Head(queue)
            BY <1>0, <2>3, QueuePop
        <3>2. Carries(j, x)'
            BY <1>0, <2>3, <3>1 DEF Goto, Carries, Processing, Carrying, Looping
        <3> QED BY <1>0, <2>0, <2>3, <3>1, <3>2, QueuePop DEF Goto, Accounted, Carries, Enqueuing, Processing, Carrying, Looping
    <2> QED BY <1>4, <2>1, <2>2, <2>3 DEF Drain, DrainFails
<1>5. ASSUME NEW j \in Jobs, Renew(j) \/ RenewFails(j) \/ Succeed(j) \/ Raise(j) PROVE Accounted
    <2>1. /\ UNCHANGED <<row, queue, lost, hand>>
          /\ pc[j] \in Processing
          /\ \E p \in Enqueuing \cup Processing : pc' = [pc EXCEPT ![j] = p]
        BY <1>0, <1>5 DEF Renew, RenewFails, PutBack, Succeed, Raise, Goto, claims, redis, Enqueuing, Processing, Carrying, Looping
    <2> QED BY <1>0, <2>1 DEF Accounted, Carries, Carrying, Queued
<1>6. ASSUME NEW j \in Jobs, Mark(j) \/ MarkFails(j) PROVE Accounted
    <2>1. /\ hand[j] \in Messages /\ pc[j] \in Processing /\ UNCHANGED queue
          /\ \A k \in Jobs \ {j} : pc'[k] = pc[k] /\ hand'[k] = hand[k]
          /\ lost \subseteq lost'
          /\ hand[j] \in lost' \/ row'[hand[j]] # "processing"
          /\ \A m \in Messages : row'[m] = "processing" => row[m] = "processing"
        BY <1>0, <1>6 DEF TypeInv, JobFits, Mark, MarkFails, Processed, Goto, Drop, claims, redis, Processing, Carrying, Looping
    <2> QED BY <1>0, <2>1 DEF Accounted, Carries, Carrying, Queued
<1>7. ASSUME NEW j \in Jobs, Crash(j) PROVE Accounted
    BY <1>0, <1>7 DEF Crash, End, Goto, claims, redis, Accounted, Carries, Carrying, Queued
<1>8. CASE Forget
    <2>1. /\ row' = row /\ lost \subseteq lost' /\ \A m \in Messages : Queued(m) => m \in lost'
          /\ UNCHANGED <<pc, hand>>
        BY <1>8 DEF Forget, claims
    <2> QED BY <2>1, AccountedKeeps DEF Accounted, Carries, Enqueuing, Processing, Carrying, Looping
<1>9. CASE UNCHANGED <<row, queue, pc, hand, lost>>
    <2>1. \A m : Queued(m)' <=> Queued(m)
        BY <1>9 DEF Queued
    <2> QED BY <1>9, <2>1, AccountedKeeps DEF Accounted, Carries, Enqueuing, Processing, Carrying, Looping
<1> QED BY <1>1, <1>2, <1>3, <1>4, <1>5, <1>6, <1>7, <1>8, <1>9, LostEnqueue, AccountedKeeps
        DEF Next, Enqueue, Loop, Process, Fail, vars, Lapse, Age, redis, claims

\* What the put back, the deferral to another job's loop and the trimming are
\* arranged for: a message that was claimed and not answered is in the queue
\* or in a job's hands, or was dropped for a reason the code names.
THEOREM NothingLost == Spec => []NothingLostSilently
<1>1. Init => NothingLostSilently
    BY DEF Init, NothingLostSilently
<1>2. Spec => []TypeInv
    BY TypeInit, TypeNext, PTL DEF Spec
<1> QED BY <1>1, <1>2, LostNext, PTL DEF Spec
-----------------------------------------------------------------------------
(* One copy *)

\* One copy of m at most, and its row says that somebody has it.
Copies(m) ==
    /\ \A j, k \in Jobs : Carries(j, m) /\ Carries(k, m) => j = k
    /\ Single(m)
    /\ ~(Queued(m) /\ \E j \in Jobs : Carries(j, m))
    /\ (Queued(m) \/ \E j \in Jobs : Carries(j, m)) => row[m] = "processing" /\ m \notin old

CopyInv == \A m \in Messages \ unclaimed : Copies(m)

\* A step that makes no copy of m, and leaves the row of a copy alone.
NoNewCopy(m) ==
    /\ \A j \in Jobs : Carries(j, m)' => Carries(j, m)
    /\ Queued(m)' => Queued(m)
    /\ Single(m) => Single(m)'
    /\ (Queued(m)' \/ \E j \in Jobs : Carries(j, m)') => row'[m] = row[m] /\ (m \in old' => m \in old)

LEMMA NoNewCopyKeeps == \A m : Copies(m) /\ NoNewCopy(m) => Copies(m)'
BY DEF Copies, NoNewCopy

\* The queue as it was.
LEMMA QueueSame == queue' = queue => \A m : (Queued(m)' <=> Queued(m)) /\ (Single(m)' <=> Single(m))
BY DEF Queued, Single

LEMMA CopyStart ==
    ASSUME TypeInv, CopyInv, NEW j \in Jobs, Start(j) \/ StartUnchecked(j),
           NEW m \in Messages \ unclaimed'
    PROVE  Copies(m)'
<1>0. /\ pc \in [Jobs -> Pcs] /\ hand \in [Jobs -> Messages \cup {None}]
      /\ row \in [Messages -> {"none", "processing", "done", "failed"}]
      /\ queue' = queue /\ pc[j] = "idle" /\ unclaimed \subseteq unclaimed'
    BY DEF TypeInv, TypeOK, Start, StartUnchecked, redis
<1>1. Copies(m)
    BY <1>0 DEF CopyInv
<1>2. CASE Start(j)
    <2>1. CASE Goto(j, "ended") /\ UNCHANGED <<row, old, hand>>
        BY <1>0, <1>1, <2>1, QueueSame, NoNewCopyKeeps
           DEF Goto, NoNewCopy, Carries, Enqueuing, Processing, Carrying, Looping
    <2>2. ASSUME NEW x \in Messages, Claimable(x), row' = [row EXCEPT ![x] = "processing"],
                 old' = old \ {x}, hand' = [hand EXCEPT ![j] = x], Goto(j, "check")
          PROVE  Copies(m)'
        <3>1. \A k \in Jobs : k # j => (Carries(k, m)' <=> Carries(k, m))
            BY <1>0, <2>2 DEF Carries, Goto, Enqueuing, Processing, Carrying, Looping
        <3>2. Carries(j, m)' <=> x = m
            BY <1>0, <2>2 DEF Carries, Goto, Enqueuing, Carrying
        <3>3. CASE x = m
            BY <1>0, <1>1, <2>2, <3>1, <3>2, <3>3, QueueSame DEF Claimable, Copies
        <3>4. CASE x # m
            BY <1>0, <1>1, <2>2, <3>1, <3>2, <3>4, QueueSame, NoNewCopyKeeps DEF NoNewCopy
        <3> QED BY <3>3, <3>4
    <2> QED BY <1>2, <2>1, <2>2 DEF Start
<1>3. CASE StartUnchecked(j)
    <2>1. UNCHANGED <<row, old>> /\ \A k \in Jobs : Carries(k, m)' => Carries(k, m)
        BY <1>0, <1>3 DEF StartUnchecked, Carries, Carrying, Goto
    <2> QED BY <1>0, <1>1, <2>1, QueueSame, NoNewCopyKeeps DEF NoNewCopy
<1> QED BY <1>2, <1>3

LEMMA CopyEnqueue ==
    ASSUME TypeInv, NEW j \in Jobs, NEW m \in Messages, Copies(m),
           Enqueue(j) \/ CheckFails(j) \/ MeasureFails(j) \/ TrimFails(j) \/ PushFails(j)
    PROVE  Copies(m)'
<1>0. /\ pc \in [Jobs -> Pcs] /\ hand \in [Jobs -> Messages \cup {None}]
      /\ queue \in Seq(Messages) /\ UNCHANGED <<row, old>>
      /\ pc[j] \in Enqueuing /\ hand[j] \in Messages
    BY DEF TypeInv, TypeOK, JobFits, Enqueue, Check, Measure, Trim, Push, CheckFails, MeasureFails,
           TrimFails, PushFails, claims, Enqueuing, Carrying
<1>1. CASE hand' = hand
    <2>1. /\ \E p \in Enqueuing : pc' = [pc EXCEPT ![j] = p]
          /\ UNCHANGED queue \/ (queue # <<>> /\ queue' = Tail(queue))
        BY <1>0, <1>1 DEF Enqueue, Check, Measure, Trim, Push, CheckFails, MeasureFails,
           TrimFails, PushFails, Pushed, Goto, redis, Enqueuing, Carrying, DropHead
    <2>2. \A k \in Jobs : Carries(k, m)' => Carries(k, m)
        BY <1>0, <1>1, <2>1 DEF Carries, Carrying
    <2>3. (Queued(m)' => Queued(m)) /\ (Single(m) => Single(m)')
        BY <1>0, <2>1, QueueSame, QueuePop
    <2> QED BY <1>0, <2>2, <2>3, NoNewCopyKeeps DEF NoNewCopy
<1>2. CASE Pushed(j)
    <2>0. PICK x \in Messages : x = hand[j]
        BY <1>0
    <2>1. \A k \in Jobs : Carries(k, m)' => Carries(k, m) /\ k # j
        BY <1>0, <1>2, ChatAssumption DEF Pushed, Goto, Carries, Carrying
    <2>2. UNCHANGED queue \/ queue' = Append(queue, x)
        BY <1>0, <1>2, <2>0 DEF Enqueue, Check, Measure, Trim, Push, CheckFails, MeasureFails,
           TrimFails, PushFails, DropHead, Pushed, Goto, redis, Enqueuing, Carrying
    <2>3. CASE UNCHANGED queue
        BY <1>0, <2>1, <2>3, QueueSame, NoNewCopyKeeps DEF NoNewCopy
    <2>4. CASE queue' = Append(queue, x)
        <3>1. /\ Queued(m)' <=> Queued(m) \/ m = x
              /\ Single(m) /\ (m = x => ~Queued(m)) => Single(m)'
            BY <1>0, <2>4, QueueAppend
        <3>2. m = x => Carries(j, m)
            BY <1>0, <2>0 DEF Carries, Carrying
        <3> QED BY <1>0, <2>1, <3>1, <3>2 DEF Copies
    <2> QED BY <2>2, <2>3, <2>4
<1> QED BY <1>1, <1>2 DEF Enqueue, Check, Measure, Trim, Push, CheckFails, MeasureFails, TrimFails, PushFails

LEMMA CopyLoop ==
    ASSUME TypeInv, NEW j \in Jobs, NEW m \in Messages, Copies(m),
           Loop(j) \/ AcquireFails(j) \/ DrainFails(j) \/ RenewFails(j) \/ ReleaseFails(j)
    PROVE  Copies(m)'
<1>0. /\ pc \in [Jobs -> Pcs] /\ hand \in [Jobs -> Messages \cup {None}]
      /\ queue \in Seq(Messages) /\ UNCHANGED <<row, old>>
    BY DEF TypeInv, TypeOK, Loop, Acquire, Drain, Renew, Release, AcquireFails, DrainFails,
           RenewFails, ReleaseFails, claims
<1>1. CASE Acquire(j) \/ AcquireFails(j) \/ Release(j) \/ ReleaseFails(j)
    <2>1. UNCHANGED <<queue, hand>> /\ \A k \in Jobs : Carries(k, m)' => Carries(k, m)
        BY <1>0, <1>1 DEF Acquire, AcquireFails, Release, ReleaseFails, End, Goto, Carries,
                          Enqueuing, Processing, Carrying, Looping
    <2> QED BY <1>0, <2>1, QueueSame, NoNewCopyKeeps DEF NoNewCopy
<1>2. CASE Renew(j) \/ RenewFails(j)
    <2>1. UNCHANGED <<queue, hand>> /\ \A k \in Jobs : Carries(k, m)' => Carries(k, m)
        BY <1>0, <1>2 DEF Renew, RenewFails, PutBack, Goto, Carries, redis, Enqueuing, Processing, Carrying, Looping
    <2> QED BY <1>0, <2>1, QueueSame, NoNewCopyKeeps DEF NoNewCopy
<1>3. CASE DrainFails(j) \/ (Drain(j) /\ queue = <<>>)
    <2>1. /\ hand' = hand /\ \A k \in Jobs : Carries(k, m)' => Carries(k, m)
          /\ UNCHANGED queue \/ (queue # <<>> /\ queue' = Tail(queue))
        BY <1>0, <1>3 DEF Drain, DrainFails, DropHead, Goto, Carries, Enqueuing, Processing, Carrying, Looping
    <2>2. (Queued(m)' => Queued(m)) /\ (Single(m) => Single(m)')
        BY <1>0, <2>1, QueueSame, QueuePop
    <2> QED BY <1>0, <2>1, <2>2, NoNewCopyKeeps DEF NoNewCopy
<1>4. CASE Drain(j) /\ queue # <<>>
    <2>0. PICK x \in Messages : x = Head(queue)
        BY <1>0, <1>4, QueuePop DEF Drain
    <2>1. \A k \in Jobs : Carries(k, m)' => Carries(k, m) \/ (k = j /\ m = x)
        BY <1>0, <1>4, <2>0 DEF Drain, Goto, Carries, Enqueuing, Processing, Carrying, Looping
    <2>2. /\ Queued(m) <=> Queued(m)' \/ m = x
          /\ Single(m) => Single(m)' /\ (m = x => ~Queued(m)')
        BY <1>0, <1>4, <2>0, QueuePop DEF Drain
    <2> QED BY <1>0, <2>1, <2>2 DEF Copies
<1> QED BY <1>1, <1>2, <1>3, <1>4 DEF Loop

LEMMA CopyProcess ==
    ASSUME TypeInv, NEW j \in Jobs, NEW m \in Messages, Copies(m),
           Process(j) \/ MarkFails(j) \/ Crash(j)
    PROVE  Copies(m)'
<1>0. /\ pc \in [Jobs -> Pcs] /\ hand \in [Jobs -> Messages \cup {None}]
      /\ UNCHANGED <<queue, old>>
      /\ row \in [Messages -> {"none", "processing", "done", "failed"}]
    BY DEF TypeInv, TypeOK, Process, Succeed, Raise, Mark, MarkFails, Crash, claims, redis
<1>1. CASE Succeed(j) \/ Raise(j)
    <2>1. UNCHANGED <<row, hand>> /\ \A k \in Jobs : Carries(k, m)' => Carries(k, m)
        BY <1>0, <1>1 DEF Succeed, Raise, claims, Goto, Carries, Enqueuing, Processing, Carrying, Looping
    <2> QED BY <1>0, <2>1, QueueSame, NoNewCopyKeeps DEF NoNewCopy
<1>2. CASE MarkFails(j) \/ Crash(j)
    <2>1. row' = row /\ \A k \in Jobs : Carries(k, m)' => Carries(k, m)
        BY <1>0, <1>2 DEF MarkFails, Processed, Crash, End, claims, Goto, Carries, Enqueuing, Processing, Carrying, Looping
    <2> QED BY <1>0, <2>1, QueueSame, NoNewCopyKeeps DEF NoNewCopy
<1>3. CASE Mark(j)
    <2>1. /\ \A k \in Jobs : Carries(k, m)' => Carries(k, m) /\ k # j
          /\ row'[m] # row[m] => Carries(j, m)
        BY <1>0, <1>3, ChatAssumption DEF Mark, Processed, Goto, Carries, Enqueuing, Processing, Carrying, Looping
    <2>2. row'[m] # row[m] => ~Queued(m) /\ \A k \in Jobs : ~Carries(k, m)'
        BY <2>1 DEF Copies
    <2> QED BY <1>0, <2>1, <2>2, QueueSame, NoNewCopyKeeps DEF NoNewCopy
<1> QED BY <1>1, <1>2, <1>3 DEF Process

LEMMA CopyTime ==
    ASSUME TypeInv, NEW m \in Messages, Copies(m),
           Lapse \/ Forget \/ (\E n \in Messages : Age(n)) \/ UNCHANGED vars
    PROVE  Copies(m)'
<1>0. \A k \in Jobs : Carries(k, m)' => Carries(k, m)
    BY DEF Lapse, Forget, Age, vars, Carries, Carrying
<1>1. (Queued(m)' => Queued(m)) /\ (Single(m) => Single(m)')
    <2>1. CASE Forget
        BY <2>1 DEF Forget, Queued, Single
    <2>2. CASE queue' = queue
        BY <2>2, QueueSame
    <2> QED BY <2>1, <2>2 DEF Lapse, Age, vars, redis
<1>2. row' = row /\ (m \in old' => m \in old \/ (~Queued(m) /\ \A k \in Jobs : ~Carries(k, m)))
    BY DEF Lapse, Forget, Age, vars, claims
<1> QED BY <1>0, <1>1, <1>2, NoNewCopyKeeps DEF NoNewCopy

LEMMA CopyNext == TypeInv /\ CopyInv /\ [Next]_vars => CopyInv'
<1> SUFFICES ASSUME TypeInv, CopyInv, [Next]_vars, NEW m \in Messages \ unclaimed' PROVE Copies(m)'
    BY DEF CopyInv
<1>1. unclaimed \subseteq unclaimed'
    BY DEF Next, Start, StartUnchecked, Enqueue, Loop, Process, Fail, Check, CheckFails, Measure,
           MeasureFails, Trim, TrimFails, Push, PushFails, Acquire, AcquireFails, Drain, DrainFails,
           Renew, RenewFails, Release, ReleaseFails, Succeed, Raise, Mark, MarkFails, Crash, Lapse,
           Forget, Age, vars, claims
<1>2. Copies(m)
    BY <1>1 DEF CopyInv
<1> QED BY <1>1, <1>2, CopyStart, CopyEnqueue, CopyLoop, CopyProcess, CopyTime DEF Next, Fail

\* The claim in the table of message ids and the moves between the queue and
\* the jobs keep one copy of a message, whatever fails: two jobs never answer
\* the same message, if it was not let in without a claim.
THEOREM OneCopyKept == Spec => []OneCopy
<1>1. Init => CopyInv
    BY DEF Init, CopyInv, Copies, Single, Queued, Carries, Enqueuing, Processing, Carrying, Looping
<1>2. Spec => []TypeInv
    BY TypeInit, TypeNext, PTL DEF Spec
<1>3. Spec => []CopyInv
    BY <1>1, <1>2, CopyNext, PTL DEF Spec
<1>4. CopyInv => OneCopy
    BY DEF CopyInv, Copies, Single, OneCopy
<1> QED BY <1>3, <1>4, PTL

-----------------------------------------------------------------------------
(* Custody: the jobs implement MessageCustody *)

\* What the abstract specification sees of the messages, the hands and the
\* section stays as it is, of m, of job j.
PlaceStays(m) == PlaceOf(m)' = PlaceOf(m)
HandStays(j) == HandOf(j)' = HandOf(j)
SectionStays(j) ==
    /\ InSection(j)' <=> InSection(j)
    /\ InSection(j) => (lapsed'[j] <=> lapsed[j])

LEMMA PlacesStay ==
    ASSUME \A m \in Messages : PlaceStays(m) PROVE UNCHANGED Place
BY DEF Place, PlaceStays

LEMMA HandsStay ==
    ASSUME \A j \in Jobs : HandStays(j) PROVE UNCHANGED InHand
BY DEF InHand, HandStays

LEMMA SectionsStay ==
    ASSUME \A j \in Jobs : SectionStays(j) PROVE UNCHANGED <<Inside, Overdue>>
<1>1. Inside' = Inside
    BY DEF Inside, SectionStays
<1>2. Overdue' = Overdue
    BY <1>1 DEF Overdue, Inside, SectionStays
<1> QED BY <1>1, <1>2

LEMMA AllStays ==
    ASSUME \A m \in Messages : PlaceStays(m), \A j \in Jobs : HandStays(j) /\ SectionStays(j)
    PROVE  UNCHANGED Custody!custodyVars
BY PlacesStay, HandsStay, SectionsStay DEF Custody!custodyVars

\* One message is put somewhere.
LEMMA PutOne ==
    ASSUME NEW m \in Messages, NEW p, PlaceOf(m)' = p,
           \A x \in Messages : x # m => PlaceStays(x)
    PROVE  Custody!Put(m, p)
BY DEF Place, PlaceStays, Custody!Put

\* One job takes something into its hand, or has nothing any more.
LEMMA HasOne ==
    ASSUME NEW j \in Jobs, NEW x, HandOf(j)' = x, \A k \in Jobs : k # j => HandStays(k)
    PROVE  Custody!Has(j, x)
BY DEF InHand, HandStays, Custody!Has

LEMMA LeavesOne ==
    ASSUME NEW j \in Jobs, ~InSection(j)', \A k \in Jobs : k # j => SectionStays(k)
    PROVE  Custody!Leaves(j)
<1>1. Inside' = Inside \ {j}
    BY DEF Inside, SectionStays
<1>2. Overdue' = Overdue \ {j}
    BY <1>1 DEF Overdue, Inside, SectionStays
<1> QED BY <1>1, <1>2 DEF Custody!Leaves

\* Where a message is is decided by these five facts.
LEMMA SamePlace ==
    ASSUME NEW m,
           (m \in unclaimed)' <=> m \in unclaimed,
           Queued(m)' <=> Queued(m),
           (\E j \in Jobs : Carries(j, m))' <=> \E j \in Jobs : Carries(j, m),
           row'[m] = row[m],
           (m \in lost)' <=> m \in lost
    PROVE  PlaceStays(m)
BY DEF PlaceStays, PlaceOf

\* A hand is what Carries says of the messages that were claimed.
LEMMA HandCarries ==
    ASSUME TypeInv, NEW j \in Jobs
    PROVE  /\ HandOf(j) \in Messages \cup {None}
           /\ \A m \in Messages : HandOf(j) = m <=> Carries(j, m) /\ m \notin unclaimed
           /\ HandOf(j) # None => Carries(j, HandOf(j)) /\ HandOf(j) \in Messages \ unclaimed
           /\ None \notin Messages
<1>1. hand[j] \in Messages \cup {None} /\ (pc[j] \in Carrying => hand[j] \in Messages)
    BY DEF TypeInv, TypeOK, JobFits
<1>2. None \notin Messages
    BY ChatAssumption
<1>3. CASE pc[j] \in Carrying /\ hand[j] \notin unclaimed
    BY <1>1, <1>2, <1>3 DEF HandOf, Carries
<1>4. CASE ~(pc[j] \in Carrying /\ hand[j] \notin unclaimed)
    BY <1>1, <1>2, <1>4 DEF HandOf, Carries
<1> QED BY <1>3, <1>4

\* A message in a hand is nowhere else, and its row says so.
LEMMA HandAlone ==
    ASSUME TypeInv, CopyInv, NEW j \in Jobs, NEW m \in Messages \ unclaimed, Carries(j, m)
    PROVE  /\ ~Queued(m) /\ row[m] = "processing"
           /\ \A k \in Jobs : k # j => ~Carries(k, m)
           /\ HandOf(j) = m
           /\ PlaceOf(m) = "held"
<1>1. Copies(m)
    BY DEF CopyInv
<1>2. ~Queued(m) /\ row[m] = "processing" /\ \A k \in Jobs : k # j => ~Carries(k, m)
    BY <1>1 DEF Copies
<1>3. HandOf(j) = m
    BY HandCarries
<1> QED BY <1>2, <1>3 DEF PlaceOf

\* So is a message in the queue.
LEMMA QueuedAlone ==
    ASSUME TypeInv, CopyInv, NEW m \in Messages \ unclaimed, Queued(m)
    PROVE  /\ row[m] = "processing" /\ Single(m)
           /\ \A k \in Jobs : ~Carries(k, m)
           /\ PlaceOf(m) = "waiting"
<1>1. Copies(m)
    BY DEF CopyInv
<1> QED BY <1>1 DEF Copies, PlaceOf

\* A step that is one job's leaves the others as they are.
LEMMA OthersStay ==
    ASSUME TypeInv, NEW j \in Jobs, NEW k \in Jobs, k # j,
           UNCHANGED unclaimed,
           pc'[k] = pc[k], hand'[k] = hand[k], leaving'[k] = leaving[k], lapsed'[k] = lapsed[k]
    PROVE  /\ HandStays(k) /\ SectionStays(k)
           /\ \A m : Carries(k, m)' <=> Carries(k, m)
BY DEF HandStays, HandOf, SectionStays, InSection, Carries

\* A step of a job changes nothing of another's.
LEMMA OneJobMoves ==
    ASSUME TypeInv, NEW j \in Jobs,
           Start(j) \/ Enqueue(j) \/ Loop(j) \/ Process(j) \/ Fail(j),
           NEW k \in Jobs, k # j
    PROVE  /\ pc'[k] = pc[k] /\ hand'[k] = hand[k]
           /\ leaving'[k] = leaving[k] /\ lapsed'[k] = lapsed[k]
<1> USE DEF TypeInv, TypeOK, Goto, End, claims, redis
<1>1. CASE Start(j) \/ StartUnchecked(j)
    BY <1>1 DEF Start, StartUnchecked
<1>2. CASE Enqueue(j) \/ CheckFails(j) \/ MeasureFails(j) \/ TrimFails(j) \/ PushFails(j)
    BY <1>2 DEF Enqueue, Check, Measure, Trim, Push, CheckFails, MeasureFails, TrimFails, PushFails, Pushed
<1>3. CASE Loop(j) \/ AcquireFails(j) \/ DrainFails(j) \/ RenewFails(j) \/ ReleaseFails(j)
    BY <1>3 DEF Loop, Acquire, Drain, Renew, Release, AcquireFails, DrainFails, RenewFails, ReleaseFails,
                PutBack
<1>4. CASE Process(j) \/ MarkFails(j) \/ Crash(j)
    BY <1>4 DEF Process, Succeed, Raise, Mark, MarkFails, Crash, Processed
<1> QED BY <1>1, <1>2, <1>3, <1>4 DEF Fail

\* A step at which j keeps what it has, and nothing else happens.
LEMMA OneJobStays ==
    ASSUME TypeInv, NEW j \in Jobs,
           Enqueue(j) \/ Loop(j) \/ Process(j) \/ Fail(j),
           UNCHANGED <<claims, queue, lost>>,
           \A m \in Messages : Carries(j, m)' <=> Carries(j, m),
           HandStays(j), SectionStays(j)
    PROVE  UNCHANGED Custody!custodyVars
<1>1. UNCHANGED <<row, unclaimed, queue, lost>>
    BY DEF claims
<1>2. \A k \in Jobs : k # j => HandStays(k) /\ SectionStays(k) /\ \A m : Carries(k, m)' <=> Carries(k, m)
    BY <1>1, OneJobMoves, OthersStay
<1>3. ASSUME NEW m \in Messages PROVE PlaceStays(m)
    <2>1. (\E k \in Jobs : Carries(k, m))' <=> \E k \in Jobs : Carries(k, m)
        BY <1>2
    <2> QED BY <1>1, <2>1, SamePlace DEF Queued
<1> QED BY <1>2, <1>3, AllStays

\* A step at which j parts with m, and nothing else happens to another.
PartsWith(j, m) ==
    /\ Enqueue(j) \/ Loop(j) \/ Process(j) \/ Fail(j)
    /\ UNCHANGED unclaimed
    /\ Carries(j, m) /\ \A x \in Messages : ~Carries(j, x)'
    /\ \A x \in Messages : x # m =>
        (Queued(x)' <=> Queued(x)) /\ row'[x] = row[x] /\ ((x \in lost)' <=> x \in lost)

LEMMA Parting ==
    ASSUME TypeInv, CopyInv, NEW j \in Jobs, NEW m \in Messages, PartsWith(j, m)
    PROVE  /\ \A k \in Jobs : k # j => HandStays(k) /\ SectionStays(k)
           /\ \A x \in Messages : x # m => PlaceStays(x)
           /\ HandOf(j)' = None /\ Custody!Has(j, None)
           /\ m \in unclaimed => HandStays(j) /\ PlaceStays(m)
           /\ m \notin unclaimed =>
                /\ HandOf(j) = m /\ m # None
                /\ ~Queued(m) /\ row[m] = "processing" /\ \A k \in Jobs : ~Carries(k, m)'
<1>1. \A k \in Jobs : k # j => HandStays(k) /\ SectionStays(k) /\ \A x : Carries(k, x)' <=> Carries(k, x)
    BY OneJobMoves, OthersStay DEF PartsWith
<1>2. HandOf(j)' = None
    <2>1. TypeInv'
        BY TypeNext DEF Next, PartsWith
    <2>2. pc'[j] \in Carrying => hand'[j] \in Messages
        BY <2>1 DEF TypeInv, JobFits
    <2> QED BY <2>2 DEF HandOf, Carries, PartsWith
<1>3. ASSUME NEW x \in Messages, x # m PROVE PlaceStays(x)
    <2>1. ~Carries(j, x)
        BY <1>3 DEF PartsWith, Carries
    <2>2. (\E k \in Jobs : Carries(k, x))' <=> \E k \in Jobs : Carries(k, x)
        BY <1>1, <2>1 DEF PartsWith
    <2>3. (Queued(x)' <=> Queued(x)) /\ row'[x] = row[x] /\ ((x \in lost)' <=> x \in lost)
        BY <1>3 DEF PartsWith
    <2>4. (x \in unclaimed)' <=> x \in unclaimed
        BY DEF PartsWith
    <2> QED BY <2>2, <2>3, <2>4, SamePlace
<1>4. Custody!Has(j, None)
    BY <1>1, <1>2, HasOne
<1>5. CASE m \in unclaimed
    <2>1. HandOf(j) = None
        BY <1>5 DEF HandOf, Carries, PartsWith
    <2> QED BY <1>1, <1>2, <1>3, <1>4, <1>5, <2>1 DEF HandStays, PlaceStays, PlaceOf, PartsWith
<1>6. CASE m \notin unclaimed
    <2>1. /\ ~Queued(m) /\ row[m] = "processing" /\ HandOf(j) = m
          /\ \A k \in Jobs : k # j => ~Carries(k, m)
        BY <1>6, HandAlone DEF PartsWith
    <2>2. m # None
        BY ChatAssumption
    <2>3. \A k \in Jobs : ~Carries(k, m)'
        BY <1>1, <2>1 DEF PartsWith
    <2> QED BY <1>1, <1>2, <1>3, <1>4, <1>6, <2>1, <2>2, <2>3
<1> QED BY <1>5, <1>6

\* A message that was let in without a claim comes and goes unseen.
LEMMA PartingUnseen ==
    ASSUME TypeInv, CopyInv, NEW j \in Jobs, NEW m \in Messages, PartsWith(j, m),
           m \in unclaimed, SectionStays(j)
    PROVE  UNCHANGED Custody!custodyVars
BY Parting, AllStays

LEMMA GivesAway ==
    ASSUME TypeInv, CopyInv, NEW j \in Jobs, NEW m \in Messages, PartsWith(j, m),
           m \notin unclaimed, SectionStays(j),
           \/ PlaceOf(m)' \in {"waiting", "lost"}
           \/ PlaceOf(m)' = "settled" /\ InSection(j)
    PROVE  Custody!GiveAway(j)
<1>1. InHand[j] = m /\ m # None /\ Custody!Has(j, None)
    BY Parting DEF InHand
<1>2. Custody!Put(m, PlaceOf(m)')
    BY Parting, PutOne
<1>3. UNCHANGED Custody!section
    BY Parting, SectionsStay DEF Custody!section
<1>4. PlaceOf(m)' = "settled" /\ InSection(j) => j \in Inside
    BY DEF Inside
<1> QED BY <1>1, <1>2, <1>3, <1>4 DEF Custody!GiveAway

\* The head of the queue is lost.
LEMMA HeadSpilt ==
    ASSUME TypeInv, CopyInv, NEW j \in Jobs, Enqueue(j) \/ Loop(j) \/ Process(j) \/ Fail(j),
           DropHead, UNCHANGED claims,
           \A m \in Messages : Carries(j, m)' <=> Carries(j, m),
           HandStays(j), SectionStays(j)
    PROVE  [Custody!Next]_(Custody!custodyVars)
<1>1. PICK h \in Messages : h = Head(queue)
    BY QueuePop DEF TypeInv, TypeOK, DropHead
<1>2. \A m : Queued(m) <=> Queued(m)' \/ m = h
    BY <1>1, QueuePop DEF TypeInv, TypeOK, DropHead
<1>3. lost' = lost \cup {h} /\ UNCHANGED <<row, unclaimed>>
    BY <1>1 DEF DropHead, Drop, claims
<1>4. \A k \in Jobs : k # j => HandStays(k) /\ SectionStays(k) /\ \A m : Carries(k, m)' <=> Carries(k, m)
    BY <1>3, OneJobMoves, OthersStay
<1>5. ASSUME NEW m \in Messages, m # h PROVE PlaceStays(m)
    <2>1. (\E k \in Jobs : Carries(k, m))' <=> \E k \in Jobs : Carries(k, m)
        BY <1>4
    <2>2. (Queued(m)' <=> Queued(m)) /\ ((m \in lost)' <=> m \in lost)
        BY <1>2, <1>3, <1>5
    <2> QED BY <1>3, <2>1, <2>2, SamePlace
<1>6. CASE h \in unclaimed
    <2>1. PlaceStays(h)
        BY <1>3, <1>6 DEF PlaceStays, PlaceOf
    <2> QED BY <1>4, <1>5, <2>1, AllStays
<1>7. CASE h \notin unclaimed
    <2>1. /\ Queued(h) /\ row[h] = "processing" /\ Single(h)
          /\ \A k \in Jobs : ~Carries(k, h)
          /\ PlaceOf(h) = "waiting"
        BY <1>2, <1>7, QueuedAlone
    <2>2. ~Queued(h)'
        BY <1>1, <2>1, QueuePop DEF TypeInv, TypeOK, DropHead
    <2>3. \A k \in Jobs : ~Carries(k, h)'
        BY <1>4, <2>1
    <2>4. PlaceOf(h)' = "lost"
        BY <1>3, <1>7, <2>1, <2>2, <2>3 DEF PlaceOf
    <2>5. Place' = [m \in Messages |-> IF m \in {h} THEN "lost" ELSE Place[m]]
        BY <1>5, <2>1, <2>4 DEF Place, PlaceStays
    <2>6. UNCHANGED InHand /\ UNCHANGED Custody!section
        BY <1>4, HandsStay, SectionsStay DEF Custody!section
    <2>7. {h} \in SUBSET {m \in Messages : Place[m] = "waiting"}
        <3>1. Place[h] = "waiting"
            BY <2>1 DEF Place
        <3> QED BY <3>1
    <2>8. Custody!Spill
        BY <2>5, <2>6, <2>7 DEF Custody!Spill
    <2> QED BY <2>8 DEF Custody!Next
<1> QED BY <1>6, <1>7

LEMMA CustodyEnqueue ==
    ASSUME TypeInv, CopyInv, NEW j \in Jobs,
           Enqueue(j) \/ CheckFails(j) \/ MeasureFails(j) \/ TrimFails(j) \/ PushFails(j)
    PROVE  [Custody!Next]_(Custody!custodyVars)
<1>0. /\ Enqueue(j) \/ Loop(j) \/ Process(j) \/ Fail(j)
      /\ pc \in [Jobs -> Pcs] /\ hand \in [Jobs -> Messages \cup {None}]
      /\ queue \in Seq(Messages) /\ lost \subseteq Messages
      /\ UNCHANGED <<row, old, unclaimed, leaving, lapsed>>
      /\ pc[j] \in Enqueuing /\ hand[j] \in Messages
    BY DEF TypeInv, TypeOK, JobFits, Enqueue, Check, Measure, Trim, Push, CheckFails, MeasureFails,
           TrimFails, PushFails, claims, Enqueuing, Carrying, Fail
<1>1. PICK m \in Messages : m = hand[j]
    BY <1>0
<1>2. CASE hand' = hand
    <2>1. /\ \E p \in Enqueuing : pc' = [pc EXCEPT ![j] = p]
          /\ DropHead \/ UNCHANGED <<queue, lost>>
        BY <1>0, <1>2, ChatAssumption
           DEF Enqueue, Check, Measure, Trim, Push, CheckFails, MeasureFails,
           TrimFails, PushFails, Pushed, Goto, redis, Enqueuing
    <2>2. \A x \in Messages : Carries(j, x)' <=> Carries(j, x)
        BY <1>0, <1>2, <2>1 DEF Carries, Carrying
    <2>3. HandStays(j) /\ SectionStays(j)
        BY <1>0, <1>2, <2>1 DEF HandStays, HandOf, SectionStays, InSection, Carrying, Looping,
           Enqueuing, Processing
    <2> QED BY <1>0, <2>1, <2>2, <2>3, OneJobStays, HeadSpilt DEF claims
<1>3. CASE Pushed(j)
    <2>1. SectionStays(j)
        BY <1>0, <1>3 DEF Pushed, Goto, SectionStays, InSection, Looping, Enqueuing, Processing
    <2>2. Carries(j, m) /\ \A x \in Messages : ~Carries(j, x)'
        BY <1>0, <1>1, <1>3, ChatAssumption DEF Pushed, Goto, Carries, Carrying
    <2>3. \/ UNCHANGED <<queue, lost>> /\ Queued(m)
          \/ queue' = Append(queue, m) /\ lost' = lost
          \/ UNCHANGED queue /\ lost' = lost \cup {m}
        BY <1>0, <1>1, <1>3, ChatAssumption
           DEF Enqueue, Check, Measure, Trim, Push, CheckFails, MeasureFails,
           TrimFails, PushFails, Drop, Pushed, Goto, redis, Enqueuing
    <2>4. \A x \in Messages : x # m => (Queued(x)' <=> Queued(x)) /\ ((x \in lost)' <=> x \in lost)
        <3>1. CASE UNCHANGED queue
            BY <2>3, <3>1, QueueSame
        <3>2. CASE queue' = Append(queue, m)
            BY <1>0, <2>3, <3>2, QueueAppend
        <3> QED BY <2>3, <3>1, <3>2
    <2>5. PartsWith(j, m)
        BY <1>0, <2>2, <2>4 DEF PartsWith
    <2>6. CASE m \in unclaimed
        BY <2>1, <2>5, <2>6, PartingUnseen
    <2>7. CASE m \notin unclaimed
        <3>1. ~Queued(m) /\ row[m] = "processing" /\ \A k \in Jobs : ~Carries(k, m)'
            BY <2>5, <2>7, Parting
        <3>2. CASE queue' = Append(queue, m)
            <4>1. Queued(m)'
                BY <1>0, <3>2, QueueAppend
            <4>2. PlaceOf(m)' = "waiting"
                BY <1>0, <2>7, <4>1 DEF PlaceOf
            <4> QED BY <2>1, <2>5, <2>7, <4>2, GivesAway DEF Custody!Next
        <3>3. CASE UNCHANGED queue /\ lost' = lost \cup {m}
            <4>1. ~Queued(m)'
                BY <3>1, <3>3, QueueSame
            <4>2. PlaceOf(m)' = "lost"
                BY <1>0, <2>7, <3>1, <3>3, <4>1 DEF PlaceOf
            <4> QED BY <2>1, <2>5, <2>7, <4>2, GivesAway DEF Custody!Next
        <3> QED BY <2>3, <3>1, <3>2, <3>3
    <2> QED BY <2>6, <2>7
<1> QED BY <1>2, <1>3 DEF Enqueue, Check, Measure, Trim, Push, CheckFails, MeasureFails, TrimFails, PushFails

\* The lock is free: whoever is inside has overstayed, and j is not inside.
LEMMA Entering ==
    ASSUME TypeInv, HolderHasLock, NEW j \in Jobs, Loop(j) \/ Fail(j),
           UNCHANGED <<claims, queue, hand, lost>>,
           pc[j] = "acquire", Goto(j, "drain"),
           (lock = None /\ UNCHANGED lapsed) \/ lapsed' = [lapsed EXCEPT ![j] = TRUE]
    PROVE  Custody!Enter(j)
<1>1. /\ UNCHANGED <<row, unclaimed, queue, lost>>
      /\ pc \in [Jobs -> Pcs] /\ lapsed \in [Jobs -> BOOLEAN]
    BY DEF TypeInv, TypeOK, claims
<1>2. \A k \in Jobs : k # j => HandStays(k) /\ SectionStays(k) /\ \A m : Carries(k, m)' <=> Carries(k, m)
    BY <1>1, OneJobMoves, OthersStay
<1>3. ~InSection(j) /\ InSection(j)' /\ HandStays(j) /\ \A m : ~Carries(j, m) /\ ~Carries(j, m)'
    BY <1>1 DEF Goto, InSection, HandStays, HandOf, Carries, Carrying, Looping, Enqueuing, Processing
<1>4. ASSUME NEW m \in Messages PROVE PlaceStays(m)
    <2>1. (\E k \in Jobs : Carries(k, m))' <=> \E k \in Jobs : Carries(k, m)
        BY <1>2, <1>3
    <2> QED BY <1>1, <2>1, SamePlace DEF Queued
<1>5. UNCHANGED <<Place, InHand>>
    BY <1>2, <1>3, <1>4, PlacesStay, HandsStay
<1>6. j \notin Inside /\ Inside' = Inside \cup {j}
    BY <1>2, <1>3 DEF Inside, SectionStays
<1>7. CASE lapsed' = [lapsed EXCEPT ![j] = TRUE]
    <2>1. Overdue' = Overdue \cup {j}
        BY <1>1, <1>2, <1>6, <1>7 DEF Overdue, Inside, SectionStays
    <2> QED BY <1>5, <1>6, <2>1 DEF Custody!Enter
<1>8. CASE lock = None /\ UNCHANGED lapsed
    <2>1. Overdue' = Overdue \/ Overdue' = Overdue \cup {j}
        BY <1>1, <1>2, <1>6, <1>8 DEF Overdue, Inside, SectionStays
    <2>2. Inside \subseteq Overdue
        BY <1>8, ChatAssumption DEF Inside, Overdue, HolderHasLock
    <2> QED BY <1>5, <1>6, <2>1, <2>2 DEF Custody!Enter
<1> QED BY <1>7, <1>8

\* A job that has nothing in its hand leaves the section.
LEMMA Leaving ==
    ASSUME TypeInv, NEW j \in Jobs, Loop(j) \/ Process(j) \/ Fail(j),
           UNCHANGED <<claims, queue, lost>>,
           InSection(j), ~InSection(j)',
           \A m \in Messages : Carries(j, m)' <=> Carries(j, m),
           HandOf(j) = None, HandOf(j)' = None
    PROVE  Custody!Leave(j)
<1>1. UNCHANGED <<row, unclaimed, queue, lost>>
    BY DEF claims
<1>2. \A k \in Jobs : k # j => HandStays(k) /\ SectionStays(k) /\ \A m : Carries(k, m)' <=> Carries(k, m)
    BY <1>1, OneJobMoves, OthersStay
<1>3. ASSUME NEW m \in Messages PROVE PlaceStays(m)
    <2>1. (\E k \in Jobs : Carries(k, m))' <=> \E k \in Jobs : Carries(k, m)
        BY <1>2
    <2> QED BY <1>1, <2>1, SamePlace DEF Queued
<1>4. UNCHANGED <<Place, InHand>>
    BY <1>2, <1>3, PlacesStay, HandsStay DEF HandStays
<1>5. InHand[j] = None /\ j \in Inside /\ Custody!Leaves(j)
    BY <1>2, LeavesOne DEF InHand, Inside
<1> QED BY <1>4, <1>5 DEF Custody!Leave

LEMMA CustodyLoop ==
    ASSUME TypeInv, CopyInv, HolderHasLock, NEW j \in Jobs,
           Loop(j) \/ AcquireFails(j) \/ DrainFails(j) \/ RenewFails(j) \/ ReleaseFails(j)
    PROVE  [Custody!Next]_(Custody!custodyVars)
<1>0. /\ Loop(j) \/ Fail(j)
      /\ pc \in [Jobs -> Pcs] /\ hand \in [Jobs -> Messages \cup {None}]
      /\ lapsed \in [Jobs -> BOOLEAN] /\ leaving \in [Jobs -> BOOLEAN]
      /\ queue \in Seq(Messages) /\ UNCHANGED <<row, old, unclaimed>>
      /\ pc[j] \in Carrying => hand[j] \in Messages
    BY DEF TypeInv, TypeOK, JobFits, Loop, Acquire, Drain, Renew, Release, AcquireFails, DrainFails,
           RenewFails, ReleaseFails, claims, Fail
<1>1. CASE Acquire(j) \/ AcquireFails(j)
    <2>1. CASE Goto(j, "drain")
        <3>1. /\ UNCHANGED <<claims, queue, hand, lost>> /\ pc[j] = "acquire"
              /\ (lock = None /\ UNCHANGED lapsed) \/ lapsed' = [lapsed EXCEPT ![j] = TRUE]
            BY <1>0, <1>1, <2>1 DEF Acquire, AcquireFails, Goto, End
        <3> QED BY <1>0, <2>1, <3>1, Entering DEF Custody!Next
    <2>2. CASE End(j, "ended")
        <3>1. UNCHANGED <<claims, queue, hand, lost>> /\ pc[j] = "acquire"
            BY <1>1 DEF Acquire, AcquireFails
        <3>2. \A m \in Messages : Carries(j, m)' <=> Carries(j, m)
            BY <1>0, <2>2, <3>1 DEF End, Goto, Carries, Carrying, Enqueuing, Processing
        <3>3. HandStays(j) /\ SectionStays(j)
            BY <1>0, <2>2, <3>1 DEF End, Goto, HandStays, HandOf, SectionStays, InSection, Carrying,
               Looping, Enqueuing, Processing
        <3> QED BY <1>0, <3>1, <3>2, <3>3, OneJobStays
    <2> QED BY <1>1, <2>1, <2>2 DEF Acquire, AcquireFails
<1>2. CASE Release(j) \/ ReleaseFails(j)
    <2>1. /\ UNCHANGED <<claims, queue, hand, lost>> /\ pc[j] = "release"
          /\ pc' = [pc EXCEPT ![j] = "ended"]
        BY <1>2 DEF Release, ReleaseFails, End, Goto
    <2>2. /\ \A m \in Messages : Carries(j, m)' <=> Carries(j, m)
          /\ InSection(j) /\ ~InSection(j)' /\ HandOf(j) = None /\ HandOf(j)' = None
        BY <1>0, <2>1 DEF Carries, InSection, HandOf, Carrying, Looping, Enqueuing, Processing
    <2> QED BY <1>0, <2>1, <2>2, Leaving DEF Custody!Next
<1>3. CASE Renew(j) \/ RenewFails(j)
    <2>1. /\ UNCHANGED <<claims, queue, hand, lost, lapsed>> /\ pc[j] = "renew"
          /\ \/ pc' = [pc EXCEPT ![j] = "work"] /\ UNCHANGED leaving
             \/ pc' = [pc EXCEPT ![j] = "check"] /\ leaving' = [leaving EXCEPT ![j] = TRUE]
        BY <1>3 DEF Renew, RenewFails, PutBack, Goto, redis
    <2>2. \A m \in Messages : Carries(j, m)' <=> Carries(j, m)
        BY <1>0, <2>1 DEF Carries, Carrying, Enqueuing, Processing
    <2>3. HandStays(j) /\ SectionStays(j)
        BY <1>0, <2>1 DEF HandStays, HandOf, SectionStays, InSection, Carrying, Looping, Enqueuing, Processing
    <2> QED BY <1>0, <2>1, <2>2, <2>3, OneJobStays
<1>4. CASE DrainFails(j) \/ (Drain(j) /\ queue = <<>>)
    <2>1. /\ pc[j] = "drain" /\ pc' = [pc EXCEPT ![j] = "release"]
          /\ UNCHANGED <<claims, hand, leaving, lapsed>>
          /\ DropHead \/ UNCHANGED <<queue, lost>>
        BY <1>4 DEF Drain, DrainFails, Goto
    <2>2. \A m \in Messages : Carries(j, m)' <=> Carries(j, m)
        BY <1>0, <2>1 DEF Carries, Carrying, Enqueuing, Processing
    <2>3. HandStays(j) /\ SectionStays(j)
        BY <1>0, <2>1 DEF HandStays, HandOf, SectionStays, InSection, Carrying, Looping, Enqueuing, Processing
    <2> QED BY <1>0, <2>1, <2>2, <2>3, OneJobStays, HeadSpilt
<1>5. CASE Drain(j) /\ queue # <<>>
    <2>0. PICK h \in Messages : h = Head(queue)
        BY <1>0, <1>5, QueuePop DEF Drain
    <2>1. /\ pc[j] = "drain" /\ pc' = [pc EXCEPT ![j] = "renew"] /\ hand' = [hand EXCEPT ![j] = h]
          /\ queue' = Tail(queue)
          /\ UNCHANGED <<claims, lost, leaving, lapsed>>
        BY <1>5, <2>0 DEF Drain, Goto
    <2>2. /\ \A m : Queued(m) <=> Queued(m)' \/ m = h
          /\ Single(h) => ~Queued(h)'
        BY <1>0, <1>5, <2>0, <2>1, QueuePop
    <2>3. \A k \in Jobs : k # j => HandStays(k) /\ SectionStays(k) /\ \A m : Carries(k, m)' <=> Carries(k, m)
        BY <1>0, OneJobMoves, OthersStay
    <2>4. SectionStays(j)
        BY <1>0, <2>1 DEF SectionStays, InSection, Looping, Processing
    <2>5. \A m : ~Carries(j, m) /\ (Carries(j, m)' <=> m = h)
        BY <1>0, <2>1 DEF Carries, Carrying, Enqueuing, Processing
    <2>6. ASSUME NEW m \in Messages, m # h PROVE PlaceStays(m)
        <3>1. (\E k \in Jobs : Carries(k, m))' <=> \E k \in Jobs : Carries(k, m)
            BY <2>3, <2>5, <2>6
        <3>2. Queued(m)' <=> Queued(m)
            BY <2>2, <2>6
        <3> QED BY <1>0, <2>1, <3>1, <3>2, SamePlace
    <2>7. CASE h \in unclaimed
        <3>1. PlaceStays(h)
            BY <1>0, <2>7 DEF PlaceStays, PlaceOf
        <3>2. HandStays(j)
            BY <1>0, <2>1, <2>7 DEF HandStays, HandOf, Carrying, Enqueuing, Processing
        <3> QED BY <2>3, <2>4, <2>6, <3>1, <3>2, AllStays
    <2>8. CASE h \notin unclaimed
        <3>1. PlaceOf(h) = "waiting" /\ Single(h)
            BY <2>2, <2>8, QueuedAlone
        <3>2. PlaceOf(h)' = "held"
            BY <1>0, <2>2, <2>5, <2>8, <3>1 DEF PlaceOf
        <3>3. HandOf(j) = None /\ HandOf(j)' = h
            BY <1>0, <2>1, <2>8 DEF HandOf, Carrying, Enqueuing, Processing
        <3>4. Custody!Put(h, "held") /\ Custody!Has(j, h)
            BY <2>3, <2>6, <3>2, <3>3, PutOne, HasOne
        <3>5. UNCHANGED Custody!section
            BY <2>3, <2>4, SectionsStay DEF Custody!section
        <3>6. InHand[j] = None /\ j \in Inside /\ Place[h] = "waiting"
            BY <2>1, <3>1, <3>3 DEF InHand, Inside, InSection, Looping, Place
        <3> QED BY <3>4, <3>5, <3>6 DEF Custody!TakeUp, Custody!Next
    <2> QED BY <2>7, <2>8
<1> QED BY <1>1, <1>2, <1>3, <1>4, <1>5 DEF Loop

LEMMA CustodyProcess ==
    ASSUME TypeInv, CopyInv, NEW j \in Jobs, Process(j) \/ MarkFails(j) \/ Crash(j)
    PROVE  [Custody!Next]_(Custody!custodyVars)
<1>0. /\ Process(j) \/ Fail(j)
      /\ pc \in [Jobs -> Pcs] /\ hand \in [Jobs -> Messages \cup {None}]
      /\ lapsed \in [Jobs -> BOOLEAN] /\ leaving \in [Jobs -> BOOLEAN]
      /\ row \in [Messages -> {"none", "processing", "done", "failed"}]
      /\ lost \subseteq Messages
      /\ UNCHANGED <<queue, old, unclaimed>>
      /\ pc[j] \in Carrying => hand[j] \in Messages
    BY DEF TypeInv, TypeOK, JobFits, Process, Succeed, Raise, Mark, MarkFails, Crash, claims, redis, Fail
<1>1. CASE Succeed(j) \/ Raise(j)
    <2>1. /\ UNCHANGED <<claims, hand, lost, leaving, lapsed>> /\ pc[j] = "work"
          /\ \E p \in Processing : pc' = [pc EXCEPT ![j] = p]
        BY <1>1 DEF Succeed, Raise, Goto, Processing
    <2>2. \A m \in Messages : Carries(j, m)' <=> Carries(j, m)
        BY <1>0, <2>1 DEF Carries, Carrying, Processing
    <2>3. HandStays(j) /\ SectionStays(j)
        BY <1>0, <2>1 DEF HandStays, HandOf, SectionStays, InSection, Carrying, Looping, Processing
    <2> QED BY <1>0, <2>1, <2>2, <2>3, OneJobStays
<1>2. CASE Mark(j) \/ MarkFails(j)
    <2>0. PICK m \in Messages : m = hand[j]
        BY <1>0, <1>2 DEF Mark, MarkFails, Carrying, Processing
    <2>1. /\ pc[j] \in {"mark_done", "mark_failed"}
          /\ hand' = [hand EXCEPT ![j] = None] /\ \E p \in {"drain", "release"} : pc' = [pc EXCEPT ![j] = p]
          /\ UNCHANGED <<leaving, lapsed>>
        BY <1>2 DEF Mark, MarkFails, Processed, Goto
    <2>2. Carries(j, m) /\ \A x \in Messages : ~Carries(j, x)'
        BY <1>0, <2>0, <2>1 DEF Carries, Carrying, Enqueuing, Processing
    <2>3. SectionStays(j) /\ InSection(j)
        BY <1>0, <2>1 DEF SectionStays, InSection, Looping, Processing
    <2>4. \/ lost' = lost /\ \E r \in {"none", "done", "failed"} : row' = [row EXCEPT ![m] = r]
          \/ row' = row /\ lost' = lost \cup {m}
        BY <1>0, <1>2, <2>0 DEF Mark, MarkFails, Drop, claims
    <2>5. PartsWith(j, m)
        BY <1>0, <2>2, <2>4, QueueSame DEF PartsWith
    <2>6. CASE m \in unclaimed
        BY <2>3, <2>5, <2>6, PartingUnseen
    <2>7. CASE m \notin unclaimed
        <3>1. ~Queued(m)' /\ row[m] = "processing" /\ \A k \in Jobs : ~Carries(k, m)'
            BY <1>0, <2>5, <2>7, Parting, QueueSame
        <3>2. PlaceOf(m)' \in {"settled", "lost"}
            BY <1>0, <2>4, <2>7, <3>1 DEF PlaceOf
        <3> QED BY <2>3, <2>5, <2>7, <3>2, GivesAway DEF Custody!Next
    <2> QED BY <2>6, <2>7
<1>3. CASE Crash(j)
    <2>1. /\ lost' = lost \cup {m \in Messages : Carries(j, m)}
          /\ hand' = [hand EXCEPT ![j] = None] /\ pc' = [pc EXCEPT ![j] = "crashed"]
          /\ leaving' = [leaving EXCEPT ![j] = FALSE] /\ UNCHANGED claims
        BY <1>3 DEF Crash, End, Goto
    <2>2. /\ \A x \in Messages : ~Carries(j, x)'
          /\ ~InSection(j)' /\ HandOf(j)' = None
        BY <1>0, <2>1 DEF Carries, InSection, HandOf, Carrying, Looping, Enqueuing, Processing
    <2>3. CASE \E m \in Messages \ unclaimed : Carries(j, m)
        <3>1. PICK m \in Messages \ unclaimed : Carries(j, m)
            BY <2>3
        <3>2. lost' = lost \cup {m}
            BY <2>1, <3>1 DEF Carries
        <3>3. PartsWith(j, m)
            BY <1>0, <2>1, <2>2, <3>1, <3>2, QueueSame DEF PartsWith, claims
        <3>4. /\ HandOf(j) = m /\ m # None /\ ~Queued(m)' /\ row'[m] = "processing"
              /\ \A k \in Jobs : ~Carries(k, m)'
            BY <1>0, <2>1, <3>3, Parting, QueueSame DEF claims
        <3>5. PlaceOf(m)' = "lost"
            BY <1>0, <3>2, <3>4 DEF PlaceOf
        <3>6. Custody!Put(m, "lost") /\ Custody!Has(j, None) /\ Custody!Leaves(j)
            BY <2>2, <3>3, <3>5, Parting, PutOne, LeavesOne
        <3>7. InHand[j] = m
            BY <3>4 DEF InHand
        <3> QED BY <3>4, <3>6, <3>7 DEF Custody!Die, Custody!Next
    <2>4. CASE ~\E m \in Messages \ unclaimed : Carries(j, m)
        <3>1. HandStays(j) /\ HandOf(j) = None
            BY <2>2, <2>4, HandCarries DEF HandStays
        <3>2. \A k \in Jobs : k # j => HandStays(k) /\ SectionStays(k) /\ \A m : Carries(k, m)' <=> Carries(k, m)
            BY <1>0, OneJobMoves, OthersStay
        <3>3. ASSUME NEW m \in Messages PROVE PlaceStays(m)
            <4>1. CASE m \in unclaimed
                BY <1>0, <4>1 DEF PlaceStays, PlaceOf
            <4>2. CASE m \notin unclaimed
                <5>1. ~Carries(j, m) /\ ~Carries(j, m)'
                    BY <2>2, <2>4, <4>2
                <5>2. (\E k \in Jobs : Carries(k, m))' <=> \E k \in Jobs : Carries(k, m)
                    BY <3>2, <5>1
                <5>3. (m \in lost)' <=> m \in lost
                    BY <2>1, <5>1
                <5> QED BY <1>0, <2>1, <5>2, <5>3, SamePlace, QueueSame DEF claims
            <4> QED BY <4>1, <4>2
        <3>4. CASE InSection(j)
            <4>1. UNCHANGED <<Place, InHand>>
                BY <3>1, <3>2, <3>3, PlacesStay, HandsStay
            <4>2. InHand[j] = None /\ j \in Inside /\ Custody!Leaves(j)
                BY <2>2, <3>1, <3>2, <3>4, LeavesOne DEF InHand, Inside
            <4> QED BY <4>1, <4>2 DEF Custody!Leave, Custody!Next
        <3>5. CASE ~InSection(j)
            BY <2>2, <3>1, <3>2, <3>3, <3>5, AllStays DEF SectionStays
        <3> QED BY <3>4, <3>5
    <2> QED BY <2>3, <2>4
<1> QED BY <1>1, <1>2, <1>3 DEF Process

LEMMA CustodyStart ==
    ASSUME TypeInv, CopyInv, NothingLostSilently, NEW j \in Jobs, Start(j) \/ StartUnchecked(j)
    PROVE  [Custody!Next]_(Custody!custodyVars)
<1>0. /\ pc \in [Jobs -> Pcs] /\ hand \in [Jobs -> Messages \cup {None}]
      /\ row \in [Messages -> {"none", "processing", "done", "failed"}]
      /\ UNCHANGED <<queue, leaving, lapsed>> /\ pc[j] = "idle" /\ ~leaving[j]
    BY DEF TypeInv, TypeOK, JobFits, Start, StartUnchecked, redis
<1>1. \A k \in Jobs : k # j =>
        pc'[k] = pc[k] /\ hand'[k] = hand[k] /\ leaving'[k] = leaving[k] /\ lapsed'[k] = lapsed[k]
    BY OneJobMoves DEF Fail
<1>2. /\ \A k \in Jobs : k # j => SectionStays(k)
      /\ pc'[j] \in {"check", "ended"} => SectionStays(j) /\ ~InSection(j)
    BY <1>0, <1>1 DEF SectionStays, InSection, Looping, Enqueuing, Processing
<1>3. HandOf(j) = None /\ \A m : ~Carries(j, m)
    BY <1>0 DEF HandOf, Carries, Carrying, Enqueuing, Processing
<1>4. CASE Start(j) /\ Goto(j, "ended") /\ UNCHANGED <<row, old, lost, hand>>
    <2>1. UNCHANGED unclaimed /\ pc' = [pc EXCEPT ![j] = "ended"]
        BY <1>4 DEF Start, Goto
    <2>2. \A k \in Jobs : k # j => HandStays(k) /\ \A m : Carries(k, m)' <=> Carries(k, m)
        BY <1>1, <2>1, OthersStay
    <2>3. HandStays(j) /\ SectionStays(j) /\ \A m : ~Carries(j, m)'
        BY <1>0, <1>2, <1>3, <2>1 DEF HandStays, HandOf, Carries, Carrying, Enqueuing, Processing
    <2>4. ASSUME NEW m \in Messages PROVE PlaceStays(m)
        <3>1. (\E k \in Jobs : Carries(k, m))' <=> \E k \in Jobs : Carries(k, m)
            BY <1>3, <2>2, <2>3
        <3> QED BY <1>0, <1>4, <2>1, <3>1, SamePlace, QueueSame
    <2> QED BY <1>2, <2>2, <2>3, <2>4, AllStays
<1>5. ASSUME Start(j), NEW m \in Messages, Claimable(m), row' = [row EXCEPT ![m] = "processing"],
             lost' = lost \ {m}, hand' = [hand EXCEPT ![j] = m], Goto(j, "check")
      PROVE  [Custody!Next]_(Custody!custodyVars)
    <2>1. UNCHANGED unclaimed /\ pc' = [pc EXCEPT ![j] = "check"]
        BY <1>5 DEF Start, Goto
    <2>2. \A k \in Jobs : k # j => HandStays(k) /\ \A x : Carries(k, x)' <=> Carries(k, x)
        BY <1>1, <2>1, OthersStay
    <2>3. SectionStays(j) /\ ~InSection(j)
        BY <1>0, <1>2, <2>1
    <2>4. \A x : Carries(j, x)' <=> x = m
        BY <1>0, <1>5, <2>1 DEF Carries, Carrying, Enqueuing
    <2>5. ASSUME NEW x \in Messages, x # m PROVE PlaceStays(x)
        <3>1. (\E k \in Jobs : Carries(k, x))' <=> \E k \in Jobs : Carries(k, x)
            BY <1>3, <2>2, <2>4, <2>5
        <3>2. row'[x] = row[x] /\ ((x \in lost)' <=> x \in lost)
            BY <1>0, <1>5, <2>5
        <3> QED BY <1>0, <2>1, <3>1, <3>2, SamePlace, QueueSame
    <2>6. CASE m \in unclaimed
        <3>1. PlaceStays(m)
            BY <2>1, <2>6 DEF PlaceStays, PlaceOf
        <3>2. HandStays(j)
            BY <1>0, <1>3, <1>5, <2>1, <2>6 DEF HandStays, HandOf
        <3> QED BY <1>2, <2>2, <2>3, <2>5, <3>1, <3>2, AllStays
    <2>7. CASE m \notin unclaimed
        <3>1. ~Queued(m) /\ \A k \in Jobs : ~Carries(k, m)
            BY <1>5, <2>7 DEF CopyInv, Copies, Claimable
        <3>2. PlaceOf(m) \in {"settled", "lost"}
            BY <2>7, <3>1 DEF PlaceOf, NothingLostSilently
        <3>3. PlaceOf(m)' = "held"
            BY <1>0, <2>1, <2>4, <2>7, <3>1, QueueSame DEF PlaceOf
        <3>4. HandOf(j)' = m
            BY <1>0, <1>5, <2>1, <2>7 DEF HandOf, Carrying, Enqueuing
        <3>5. Custody!Put(m, "held") /\ Custody!Has(j, m)
            BY <2>2, <2>5, <3>3, <3>4, PutOne, HasOne
        <3>6. UNCHANGED Custody!section
            BY <1>2, <2>3, SectionsStay DEF Custody!section
        <3>7. InHand[j] = None /\ j \notin Inside /\ Place[m] \in {"settled", "lost"}
            BY <1>3, <2>3, <3>2 DEF InHand, Inside, Place
        <3> QED BY <3>5, <3>6, <3>7 DEF Custody!LetIn, Custody!Next
    <2> QED BY <2>6, <2>7
<1>6. ASSUME StartUnchecked(j), NEW m \in Messages, hand' = [hand EXCEPT ![j] = m],
             unclaimed' = unclaimed \cup {m}
      PROVE  [Custody!Next]_(Custody!custodyVars)
    <2>1. UNCHANGED <<row, lost>> /\ pc' = [pc EXCEPT ![j] = "check"]
        BY <1>6 DEF StartUnchecked, Goto
    <2>2. \A k \in Jobs : SectionStays(k)
        BY <1>0, <1>2, <2>1
    <2>3. HandOf(j)' = None
        BY <1>0, <1>6, <2>1 DEF HandOf
    <2>4. ASSUME NEW k \in Jobs, k # j
          PROVE  /\ HandOf(k)' = IF HandOf(k) = m THEN None ELSE HandOf(k)
                 /\ \A x : Carries(k, x)' <=> Carries(k, x)
        <3>1. pc'[k] = pc[k] /\ hand'[k] = hand[k]
            BY <1>1, <2>4
        <3>2. None # m
            BY ChatAssumption
        <3> QED BY <1>6, <3>1, <3>2 DEF HandOf, Carries
    <2>5. \A x : Carries(j, x)' => x = m
        BY <1>0, <1>6 DEF Carries
    <2>6. ASSUME NEW x \in Messages, x # m PROVE PlaceStays(x)
        <3>1. (\E k \in Jobs : Carries(k, x))' <=> \E k \in Jobs : Carries(k, x)
            BY <1>3, <2>4, <2>5, <2>6
        <3>2. (x \in unclaimed)' <=> x \in unclaimed
            BY <1>6, <2>6
        <3> QED BY <1>0, <2>1, <3>1, <3>2, SamePlace, QueueSame
    <2>7. PlaceOf(m)' = "unchecked"
        BY <1>6 DEF PlaceOf
    <2>8. CASE m \in unclaimed
        <3>1. PlaceStays(m)
            BY <2>7, <2>8 DEF PlaceStays, PlaceOf
        <3>2. \A k \in Jobs : HandOf(k) # m
            BY <2>8, HandCarries
        <3>3. \A k \in Jobs : HandStays(k)
            BY <1>3, <2>3, <2>4, <3>2 DEF HandStays
        <3> QED BY <2>2, <2>6, <3>1, <3>3, AllStays
    <2>9. CASE m \notin unclaimed
        <3>1. Custody!Put(m, "unchecked")
            BY <2>6, <2>7, PutOne
        <3>2. Place[m] # "unchecked"
            BY <2>9 DEF Place, PlaceOf
        <3>3. None # m
            BY ChatAssumption
        <3>4. InHand' = [k \in Jobs |-> IF InHand[k] = m THEN None ELSE InHand[k]]
            BY <1>3, <2>3, <2>4, <3>3 DEF InHand
        <3>5. UNCHANGED Custody!section
            BY <2>2, SectionsStay DEF Custody!section
        <3> QED BY <3>1, <3>2, <3>4, <3>5 DEF Custody!LetInUnchecked, Custody!Next
    <2> QED BY <2>8, <2>9
<1> QED BY <1>4, <1>5, <1>6 DEF Start, StartUnchecked

LEMMA CustodyTime ==
    ASSUME TypeInv, CopyInv, Lapse \/ Forget \/ (\E m \in Messages : Age(m)) \/ UNCHANGED vars
    PROVE  [Custody!Next]_(Custody!custodyVars)
<1>0. /\ UNCHANGED <<row, unclaimed, pc, hand, leaving>>
      /\ lapsed \in [Jobs -> BOOLEAN] /\ lock \in Jobs \cup {None}
    BY DEF TypeInv, TypeOK, Lapse, Forget, Age, vars, claims
<1>1. \A j \in Jobs : HandStays(j) /\ (InSection(j)' <=> InSection(j)) /\ \A m : Carries(j, m)' <=> Carries(j, m)
    BY <1>0 DEF HandStays, HandOf, InSection, Carries
<1>2. CASE (\E m \in Messages : Age(m)) \/ UNCHANGED vars
    <2>1. UNCHANGED <<queue, lost, lapsed>>
        BY <1>2 DEF Age, vars, redis
    <2>2. \A m \in Messages : PlaceStays(m)
        BY <1>0, <1>1, <2>1, SamePlace, QueueSame
    <2> QED BY <1>1, <2>1, <2>2, AllStays DEF SectionStays
<1>3. CASE Lapse
    <2>1. /\ UNCHANGED <<queue, lost>> /\ lock \in Jobs /\ lapsed' = [lapsed EXCEPT ![lock] = TRUE]
        BY <1>0, <1>3 DEF Lapse
    <2>2. \A m \in Messages : PlaceStays(m)
        BY <1>0, <1>1, <2>1, SamePlace, QueueSame
    <2>3. CASE InSection(lock) /\ ~lapsed[lock]
        <3>1. Inside' = Inside /\ Overdue' = Overdue \cup {lock} /\ lock \in Inside \ Overdue
            BY <1>0, <1>1, <2>1, <2>3 DEF Inside, Overdue
        <3>2. UNCHANGED <<Place, InHand>>
            BY <1>1, <2>2, PlacesStay, HandsStay
        <3> QED BY <2>1, <3>1, <3>2 DEF Custody!Overstay, Custody!Next
    <2>4. CASE ~(InSection(lock) /\ ~lapsed[lock])
        <3>1. \A j \in Jobs : SectionStays(j)
            BY <1>0, <1>1, <2>1, <2>4 DEF SectionStays
        <3> QED BY <1>1, <2>2, <3>1, AllStays
    <2> QED BY <2>3, <2>4
<1>4. CASE Forget
    <2>1. /\ queue' = <<>> /\ lost' = lost \cup {m \in Messages : Queued(m)} /\ lapsed' = lapsed
        BY <1>4 DEF Forget
    <2>2. \A m : ~Queued(m)'
        BY <2>1 DEF Queued
    <2> DEFINE S == {m \in Messages : Place[m] = "waiting"}
    <2>3. ASSUME NEW m \in Messages PROVE PlaceOf(m)' = IF m \in S THEN "lost" ELSE PlaceOf(m)
        <3>1. CASE Queued(m) /\ m \notin unclaimed
            <4>1. row[m] = "processing" /\ PlaceOf(m) = "waiting" /\ \A k \in Jobs : ~Carries(k, m)
                BY <3>1, QueuedAlone
            <4>2. m \in S
                BY <4>1 DEF Place
            <4>3. PlaceOf(m)' = "lost"
                BY <1>0, <1>1, <2>1, <2>2, <3>1, <4>1 DEF PlaceOf
            <4> QED BY <4>2, <4>3
        <3>2. CASE ~(Queued(m) /\ m \notin unclaimed)
            <4>1. m \notin S
                BY <3>2 DEF PlaceOf, Place
            <4>2. PlaceStays(m)
                <5>1. CASE m \in unclaimed
                    BY <1>0, <5>1 DEF PlaceStays, PlaceOf
                <5>2. CASE m \notin unclaimed
                    <6>1. (Queued(m)' <=> Queued(m)) /\ ((m \in lost)' <=> m \in lost)
                        BY <2>1, <2>2, <3>2, <5>2
                    <6>2. (\E k \in Jobs : Carries(k, m))' <=> \E k \in Jobs : Carries(k, m)
                        BY <1>1
                    <6> QED BY <1>0, <6>1, <6>2, SamePlace
                <5> QED BY <5>1, <5>2
            <4> QED BY <4>1, <4>2 DEF PlaceStays
        <3> QED BY <3>1, <3>2
    <2>4. Place' = [m \in Messages |-> IF m \in S THEN "lost" ELSE Place[m]]
        BY <2>3 DEF Place
    <2>5. UNCHANGED InHand /\ UNCHANGED Custody!section
        BY <1>1, <2>1, HandsStay, SectionsStay DEF SectionStays, Custody!section
    <2>6. Custody!Spill
        BY <2>4, <2>5 DEF Custody!Spill
    <2> QED BY <2>6 DEF Custody!Next
<1> QED BY <1>2, <1>3, <1>4

\* The jobs, with every step of theirs and every fault, keep the custody of
\* the messages that MessageCustody promises: Start is LetIn, Push GiveAway,
\* Drain TakeUp, Mark GiveAway again, Acquire Enter, and so on; steps that move
\* no message change nothing there.
THEOREM CustodyKept == Spec => KeepsCustody
<1>1. Init => Custody!Init
    <2>1. SUFFICES ASSUME Init PROVE Custody!Init
        OBVIOUS
    <2>2. ASSUME NEW j \in Jobs
          PROVE  ~InSection(j) /\ HandOf(j) = None /\ \A m : ~Carries(j, m)
        <3>1. pc[j] = "idle" /\ ~leaving[j]
            BY <2>1 DEF Init
        <3>2. pc[j] \notin Carrying /\ pc[j] \notin Looping
            BY <3>1 DEF Carrying, Looping, Enqueuing, Processing
        <3> QED BY <3>1, <3>2 DEF InSection, HandOf, Carries
    <2>3. ASSUME NEW m \in Messages
          PROVE  PlaceOf(m) = "settled"
        <3>1. ~Queued(m) /\ m \notin lost /\ m \notin unclaimed /\ row[m] = "none"
            BY <2>1 DEF Init, Queued
        <3>2. ~ \E j \in Jobs : Carries(j, m)
            BY <2>2
        <3> QED BY <3>1, <3>2 DEF PlaceOf
    <2> QED BY <2>2, <2>3 DEF Custody!Init, Place, InHand, Inside, Overdue
<1>2. TypeInv /\ CopyInv /\ NothingLostSilently /\ HolderHasLock /\ [Next]_vars
        => [Custody!Next]_(Custody!custodyVars)
    BY CustodyStart, CustodyEnqueue, CustodyLoop, CustodyProcess, CustodyTime DEF Next, Fail
<1>3. Init => TypeInv /\ CopyInv
    BY TypeInit DEF Init, CopyInv, Copies, Single, Queued, Carries, Carrying, Enqueuing, Processing
<1>4. TypeInv /\ CopyInv /\ [Next]_vars => (TypeInv /\ CopyInv)'
    BY TypeNext, CopyNext
<1> QED BY <1>1, <1>2, <1>3, <1>4, LockHeld, NothingLost, PTL DEF Spec, KeepsCustody, Custody!Spec

-----------------------------------------------------------------------------
(* ChannelMessages: types                                                     *)

USE MessageAssumption

Doing == [at : Steps, operator : BOOLEAN, fair : BOOLEAN, taken : BOOLEAN, attempts : 0..MaxAttempts]

Entries == [status : Statuses, attempts : 0..MaxAttempts, due : BOOLEAN, stale : BOOLEAN,
            external : BOOLEAN]

\* The type invariant, with names for its sets.
EntryInv ==
    /\ direction \in {"in", "out"}
    /\ entry \in Entries
    /\ log \in {"none", "sending", "sent", "failed"}
    /\ worker \in [Workers -> Doing]
    /\ gateway \in [Workers -> Calls]
    /\ copies \in 0..2 /\ mishaps \in 0..MaxMishaps
    /\ excused \in BOOLEAN /\ resent \in BOOLEAN

LEMMA EntryInit == MessageInit => EntryInv
<1> SUFFICES ASSUME MessageInit PROVE EntryInv
    OBVIOUS
<1>1. entry \in Entries
    BY DEF MessageInit, Entries, Statuses
<1>2. worker \in [Workers -> Doing]
    BY DEF MessageInit, Doing, Idle, Steps
<1>3. excused \in BOOLEAN /\ resent \in BOOLEAN
    BY Zenon DEF MessageInit
<1> QED BY <1>1, <1>2, <1>3 DEF MessageInit, EntryInv, Calls

LEMMA IdleFits ==
    /\ Idle \in Doing
    /\ \A s \in Steps, o \in BOOLEAN, f \in BOOLEAN :
        /\ [Idle EXCEPT !.at = s] \in Doing
        /\ [Idle EXCEPT !.at = s, !.operator = o] \in Doing
        /\ [Idle EXCEPT !.at = s, !.fair = f] \in Doing
        /\ [Idle EXCEPT !.at = s, !.operator = o, !.fair = f] \in Doing
<1>1. Idle \in Doing
    BY DEF Idle, Doing, Steps
<1>2. ASSUME NEW d \in Doing, NEW s \in Steps, NEW o \in BOOLEAN, NEW f \in BOOLEAN
      PROVE  /\ [d EXCEPT !.at = s] \in Doing
             /\ [d EXCEPT !.at = s, !.operator = o] \in Doing
             /\ [d EXCEPT !.at = s, !.fair = f] \in Doing
             /\ [d EXCEPT !.at = s, !.operator = o, !.fair = f] \in Doing
    BY DEF Doing
<1> QED BY <1>1, <1>2

LEMMA BecomesFits ==
    ASSUME EntryInv, NEW w \in Workers, NEW x \in Doing, Becomes(w, x)
    PROVE  worker' \in [Workers -> Doing]
BY DEF EntryInv, Becomes

LEMMA MoveFits ==
    ASSUME EntryInv, NEW w \in Workers, NEW s \in Steps, Move(w, s)
    PROVE  worker' \in [Workers -> Doing]
<1>1. [worker[w] EXCEPT !.at = s] \in Doing
    BY DEF EntryInv, Doing
<1> QED BY <1>1, BecomesFits DEF Move

LEMMA RestFits ==
    ASSUME EntryInv, NEW w \in Workers, Rest(w)
    PROVE  worker' \in [Workers -> Doing] /\ gateway' \in [Workers -> Calls]
<1>1. CASE Becomes(w, Idle) /\ Replies(w, "none")
    <2>1. worker' \in [Workers -> Doing]
        BY <1>1, IdleFits, BecomesFits
    <2> QED BY <1>1, <2>1 DEF Replies, EntryInv, Calls
<1>2. CASE Becomes(w, [Idle EXCEPT !.at = "linger"]) /\ UNCHANGED gateway
    <2>1. [Idle EXCEPT !.at = "linger"] \in Doing
        BY IdleFits DEF Steps
    <2> QED BY <1>2, <2>1, BecomesFits DEF EntryInv
<1> QED BY <1>1, <1>2 DEF Rest

LEMMA AppliedFits ==
    ASSUME EntryInv, NEW s \in {"sent", "failed"}, Applied(s)
    PROVE  entry' \in Entries /\ log' \in {"none", "sending", "sent", "failed"}
BY DEF EntryInv, Applied, Entries, Statuses

LEMMA AfterSendFits ==
    ASSUME EntryInv, NEW w \in Workers, AfterSend(w)
    PROVE  worker' \in [Workers -> Doing] /\ gateway' \in [Workers -> Calls]
<1>1. [Idle EXCEPT !.at = "refresh", !.operator = TRUE] \in Doing
    BY IdleFits DEF Steps
<1> QED BY <1>1, BecomesFits, RestFits DEF AfterSend, EntryInv

LEMMA RepliesFits ==
    ASSUME EntryInv, NEW w \in Workers, NEW s \in Calls, Replies(w, s)
    PROVE  gateway' \in [Workers -> Calls]
BY DEF EntryInv, Replies

LEMMA AnotherFits == copies \in 0..2 => Another \in 1..2
BY DEF Another

LEMMA EntryNext == EntryInv /\ [MessageNext]_messageVars => EntryInv'
<1> SUFFICES ASSUME EntryInv, [MessageNext]_messageVars PROVE EntryInv'
    OBVIOUS
<1>0. \A s \in {"idle", "load", "take", "call", "wait", "apply", "fail", "give_up", "process",
                "finish", "raise", "resend", "enqueue", "refresh", "finalize", "linger"} : s \in Steps
    BY DEF Steps
<1>1. ASSUME NEW w \in Workers, NEW k \in Makers, Make(w, k) PROVE EntryInv'
    <2>1. [Idle EXCEPT !.at = "load", !.operator = (k = "operator"), !.fair = TRUE] \in Doing
        BY <1>0, IdleFits
    <2>2. worker' \in [Workers -> Doing]
        BY <1>1, <2>1, BecomesFits DEF Make
    <2>3. entry' \in Entries
        BY <1>1 DEF Make, EntryInv, Entries, Statuses, Waiting
    <2> QED BY <1>1, <2>2, <2>3 DEF Make, EntryInv, history
<1>2. ASSUME NEW w \in Workers, List(w) \/ OnDemand(w) \/ Resend(w) PROVE EntryInv'
    <2>1. CASE List(w)
        <3>1. [Idle EXCEPT !.at = "load", !.fair = Due] \in Doing
            BY <1>0, IdleFits DEF Due
        <3>2. worker' \in [Workers -> Doing]
            BY <2>1, <3>1, BecomesFits DEF List
        <3> QED BY <2>1, <3>2 DEF List, EntryInv, history
    <2>2. CASE OnDemand(w)
        <3>1. worker' \in [Workers -> Doing]
            BY <1>0, <2>2, MoveFits DEF OnDemand
        <3> QED BY <2>2, <3>1 DEF OnDemand, EntryInv
    <2>3. CASE Resend(w)
        <3>1. worker' \in [Workers -> Doing]
            BY <1>0, <2>3, MoveFits DEF Resend
        <3> QED BY <2>3, <3>1 DEF Resend, EntryInv
    <2> QED BY <1>2, <2>1, <2>2, <2>3
<1>3. ASSUME NEW w \in Workers, Load(w) PROVE EntryInv'
    <2>1. [worker[w] EXCEPT !.at = "take", !.taken = entry.status = "processing",
                            !.attempts = entry.attempts] \in Doing
        BY ZenonT(60), <1>0 DEF EntryInv, Doing, Entries
    <2>2. worker' \in [Workers -> Doing]
        BY <1>3, <2>1, BecomesFits DEF Load
    <2>3. excused' \in BOOLEAN
        BY <1>3 DEF Load, Races, EntryInv
    <2> QED BY <1>3, <2>2, <2>3 DEF Load, EntryInv
<1>4. ASSUME NEW w \in Workers, Take(w) PROVE EntryInv'
    <2>1. PICK n \in 0..MaxAttempts : n = Attempt(worker[w].attempts)
        BY DEF Attempt, EntryInv, Doing
    <2>2. entry' \in Entries
        BY <1>4, <2>1 DEF Take, EntryInv, Entries, Statuses
    <2>3. [Idle EXCEPT !.at = "call", !.attempts = n, !.operator = worker[w].operator] \in Doing
        BY <1>0 DEF Idle, Doing, EntryInv
    <2>4. [Idle EXCEPT !.at = "process"] \in Doing
        BY <1>0, IdleFits
    <2>5. worker' \in [Workers -> Doing]
        BY <1>4, <2>1, <2>3, <2>4, BecomesFits DEF Take
    <2>6. excused' \in BOOLEAN
        BY <1>4 DEF Take, Races, EntryInv
    <2> QED BY <1>4, <2>2, <2>5, <2>6 DEF Take, EntryInv
<1>5. ASSUME NEW w \in Workers, Post(w) \/ NoGateway(w) \/ Hear(w) PROVE EntryInv'
    <2>1. worker' \in [Workers -> Doing]
        BY <1>0, <1>5, MoveFits DEF Post, NoGateway, Hear
    <2>2. gateway' \in [Workers -> Calls]
        BY <1>5, RepliesFits DEF Post, NoGateway, Hear, Calls, EntryInv
    <2> QED BY <1>5, <2>1, <2>2 DEF Post, NoGateway, Hear, EntryInv, history
<1>6. ASSUME NEW w \in Workers, Gateway(w) PROVE EntryInv'
    <2>1. gateway' \in [Workers -> Calls]
        BY <1>6, RepliesFits DEF Gateway, Refuse, Accept, Report, ReportFailure, Calls
    <2>2. entry' \in Entries /\ log' \in {"none", "sending", "sent", "failed"}
        BY <1>6, AppliedFits DEF Gateway, Refuse, Accept, Report, ReportFailure, EntryInv
    <2>3. copies' \in 0..2
        BY <1>6, AnotherFits DEF Gateway, Refuse, Accept, Report, ReportFailure, EntryInv
    <2>4. excused' \in BOOLEAN
        BY <1>6 DEF Gateway, Refuse, Accept, Report, ReportFailure, EntryInv, history
    <2> QED BY <1>6, <2>1, <2>2, <2>3, <2>4 DEF Gateway, Refuse, Accept, Report, ReportFailure, EntryInv, history
<1>7. ASSUME NEW w \in Workers, Outcome(w) PROVE EntryInv'
    <2>1. worker' \in [Workers -> Doing] /\ gateway' \in [Workers -> Calls]
        BY <1>7, AfterSendFits DEF Outcome, Apply, MarkFailed
    <2>2. entry' \in Entries /\ log' \in {"none", "sending", "sent", "failed"}
        <3>1. CASE Apply(w)
            BY <3>1, AppliedFits DEF Apply
        <3>2. CASE MarkFailed(w)
            BY <3>2 DEF MarkFailed, EntryInv, Entries, Statuses, Waiting, FinalAfter
        <3> QED BY <1>7, <3>1, <3>2 DEF Outcome
    <2> QED BY <1>7, <2>1, <2>2 DEF Outcome, Apply, MarkFailed, EntryInv, history
<1>8. ASSUME NEW w \in Workers, Pipeline(w) PROVE EntryInv'
    <2>1. worker' \in [Workers -> Doing]
        BY <1>0, <1>8, MoveFits DEF Pipeline
    <2>2. copies' \in 0..2
        BY <1>8, AnotherFits DEF Pipeline, EntryInv
    <2>3. excused' \in BOOLEAN
        BY <1>8 DEF Pipeline, EntryInv
    <2> QED BY <1>8, <2>1, <2>2, <2>3 DEF Pipeline, EntryInv
<1>9. ASSUME NEW w \in Workers, Finish(w) \/ PipelineRaises(w) PROVE EntryInv'
    <2>1. worker' \in [Workers -> Doing] /\ gateway' \in [Workers -> Calls]
        BY <1>9, RestFits DEF Finish, PipelineRaises
    <2>2. entry' \in Entries
        BY ZenonT(60), <1>9
        DEF Finish, PipelineRaises, EntryInv, Entries, Statuses, Waiting, FinalAfter
    <2> QED BY <1>9, <2>1, <2>2 DEF Finish, PipelineRaises, EntryInv, history
<1>10. ASSUME NEW w \in Workers, Resending(w) \/ EnqueueAgain(w) PROVE EntryInv'
    <2>1. worker' \in [Workers -> Doing]
        BY <1>0, <1>10, MoveFits DEF Resending, EnqueueAgain
    <2> QED BY <1>10, <2>1 DEF Resending, EnqueueAgain, EntryInv, history
<1>11. ASSUME NEW w \in Workers, Refresh(w) \/ Finalize(w) \/ Rested(w) \/ Dies(w) PROVE EntryInv'
    <2>1. worker' \in [Workers -> Doing] /\ gateway' \in [Workers -> Calls]
        BY <1>0, <1>11, MoveFits, RestFits DEF Refresh, Finalize, Rested, Dies, EntryInv
    <2>2. excused' \in BOOLEAN
        BY <1>11 DEF Refresh, Finalize, Rested, Dies, EntryInv, history
    <2> QED BY <1>11, <2>1, <2>2 DEF Refresh, Finalize, Rested, Dies, EntryInv, history
<1>12. CASE Ack
    BY <1>12, AppliedFits DEF Ack, EntryInv, history
<1>13. CASE Time
    BY <1>13 DEF Time, BackoffEnds, GoesStale, EntryInv, Entries, history
<1>14. CASE UNCHANGED messageVars
    BY <1>14 DEF messageVars, history, EntryInv
<1> QED BY <1>1, <1>2, <1>3, <1>4, <1>5, <1>6, <1>7, <1>8, <1>9, <1>10, <1>11, <1>12, <1>13, <1>14
        DEF MessageNext, Dispatch

\* The row of a message, its chat message, the processes that work on it and
\* their calls to the gateway take only the values the code knows, and the
\* attempts are counted up to the limit, for any limit.
THEOREM MessageTypeCorrect == MessageSpec => []MessageTypeOK
<1>1. EntryInv => MessageTypeOK
    BY DEF EntryInv, MessageTypeOK, Entries, Doing
<1> QED BY <1>1, EntryInit, EntryNext, PTL DEF MessageSpec

-----------------------------------------------------------------------------
(* A message that is called sent is out *)

\* Whatever says that the message is out, in the row, in the chat, at the
\* gateway or in the hands of a process, says so after it is; and nobody
\* finds the chat message unfinished but after "send again".
OutInv ==
    /\ SentMeansAccepted
    /\ entry.external => copies > 0
    /\ \A w \in Workers :
        /\ gateway[w] \in {"reporting", "ok"} => copies > 0
        /\ At(w, "apply") => copies > 0
        /\ worker[w].at \in {"resend", "enqueue", "finalize"} => resent
        /\ At(w, "refresh") /\ ~resent => log # "sending"

LEMMA OutInit == MessageInit => OutInv
BY DEF MessageInit, OutInv, SentMeansAccepted, At, Idle

LEMMA WorkerNow ==
    ASSUME EntryInv, NEW w \in Workers, NEW x, Becomes(w, x)
    PROVE  \A v \in Workers : worker'[v] = IF v = w THEN x ELSE worker[v]
BY DEF EntryInv, Becomes

LEMMA GatewayNow ==
    ASSUME EntryInv, NEW w \in Workers, NEW s, Replies(w, s)
    PROVE  \A v \in Workers : gateway'[v] = IF v = w THEN s ELSE gateway[v]
BY DEF EntryInv, Replies

\* How a process is moved on.
LEMMA MoveNow ==
    ASSUME EntryInv, NEW w \in Workers, NEW s, Move(w, s)
    PROVE  /\ worker'[w].at = s
           /\ worker'[w].operator = worker[w].operator
           /\ worker'[w].fair = worker[w].fair
           /\ worker'[w].taken = worker[w].taken
           /\ \A v \in Workers : v # w => worker'[v] = worker[v]
<1>1. worker' = [worker EXCEPT ![w] = [worker[w] EXCEPT !.at = s]]
    BY DEF Move, Becomes
<1>2. worker[w] \in Doing /\ worker \in [Workers -> Doing]
    BY DEF EntryInv
<1> QED BY <1>1, <1>2 DEF Doing

\* A process that rests is idle, or lingers as long as its call goes on.
LEMMA RestNow ==
    ASSUME EntryInv, NEW w \in Workers, Rest(w)
    PROVE  /\ \/ gateway[w] \in {"none", "ok", "error"} /\ worker'[w].at = "idle" /\ gateway'[w] = "none"
              \/ gateway[w] \in {"asked", "reporting", "failing"} /\ worker'[w].at = "linger"
                 /\ gateway'[w] = gateway[w]
           /\ \A v \in Workers : v # w => worker'[v] = worker[v] /\ gateway'[v] = gateway[v]
<1>1. worker \in [Workers -> Doing] /\ gateway \in [Workers -> Calls]
    BY DEF EntryInv
<1>2. CASE gateway[w] \in {"none", "ok", "error"}
    <2>1. worker' = [worker EXCEPT ![w] = Idle] /\ gateway' = [gateway EXCEPT ![w] = "none"]
        BY <1>2 DEF Rest, Becomes, Replies
    <2> QED BY <1>1, <1>2, <2>1 DEF Idle
<1>3. CASE gateway[w] \notin {"none", "ok", "error"}
    <2>1. worker' = [worker EXCEPT ![w] = [Idle EXCEPT !.at = "linger"]] /\ gateway' = gateway
        BY <1>3 DEF Rest, Becomes
    <2>2. [Idle EXCEPT !.at = "linger"].at = "linger"
        BY DEF Idle
    <2> QED BY <1>1, <1>3, <2>1, <2>2 DEF Calls
<1> QED BY <1>2, <1>3

\* After a send an operator's request looks at the chat message again.
LEMMA AfterSendNow ==
    ASSUME EntryInv, NEW w \in Workers, AfterSend(w)
    PROVE  /\ \/ worker'[w].at = "refresh" /\ gateway'[w] = gateway[w]
              \/ gateway[w] \in {"none", "ok", "error"} /\ worker'[w].at = "idle" /\ gateway'[w] = "none"
              \/ gateway[w] \in {"asked", "reporting", "failing"} /\ worker'[w].at = "linger"
                 /\ gateway'[w] = gateway[w]
           /\ \A v \in Workers : v # w => worker'[v] = worker[v] /\ gateway'[v] = gateway[v]
<1>1. CASE worker[w].operator
    <2>1. /\ worker' = [worker EXCEPT ![w] = [Idle EXCEPT !.at = "refresh", !.operator = TRUE]]
          /\ gateway' = gateway
        BY <1>1 DEF AfterSend, Becomes
    <2>2. [Idle EXCEPT !.at = "refresh", !.operator = TRUE].at = "refresh"
        BY DEF Idle
    <2> QED BY <2>1, <2>2 DEF EntryInv
<1>2. CASE ~worker[w].operator
    BY <1>2, RestNow DEF AfterSend
<1> QED BY <1>1, <1>2

LEMMA AppliedNow ==
    ASSUME EntryInv, NEW s, Applied(s)
    PROVE  /\ entry'.status = s /\ entry'.stale = entry.stale /\ log' = s
           /\ entry'.external = (entry.external \/ s = "sent")
BY DEF EntryInv, Entries, Applied

LEMMA OutNext == EntryInv /\ OutInv /\ [MessageNext]_messageVars => OutInv'
<1> SUFFICES ASSUME EntryInv, OutInv, [MessageNext]_messageVars PROVE OutInv'
    OBVIOUS
<1> USE DEF OutInv, SentMeansAccepted, At
<1>1. ASSUME NEW w \in Workers, NEW k \in Makers, Make(w, k) PROVE OutInv'
    <2>1. worker'[w].at = "load" /\ \A v \in Workers : v # w => worker'[v] = worker[v]
        BY <1>1 DEF Make, Becomes, EntryInv, Doing, Idle
    <2>2. entry'.status \in {"received", "pending"} /\ entry'.external = entry.external
        BY <1>1 DEF Make, EntryInv, Entries
    <2> QED BY <1>1, <2>1, <2>2 DEF Make, history
<1>2. ASSUME NEW w \in Workers, List(w) PROVE OutInv'
    <2>1. worker'[w].at = "load" /\ \A v \in Workers : v # w => worker'[v] = worker[v]
        BY <1>2 DEF List, Becomes, EntryInv, Doing, Idle
    <2> QED BY <1>2, <2>1 DEF List, history
<1>3. ASSUME NEW w \in Workers, OnDemand(w) PROVE OutInv'
    BY <1>3, MoveNow DEF OnDemand
<1>4. ASSUME NEW w \in Workers, Resend(w) PROVE OutInv'
    BY <1>4, MoveNow DEF Resend
<1>5. ASSUME NEW w \in Workers, Load(w) PROVE OutInv'
    <2>1. worker'[w].at = "take" /\ \A v \in Workers : v # w => worker'[v] = worker[v]
        BY <1>5 DEF Load, Becomes, EntryInv, Doing
    <2> QED BY <1>5, <2>1 DEF Load
<1>6. ASSUME NEW w \in Workers, Take(w) PROVE OutInv'
    <2>1. /\ worker'[w].at \in {"call", "process"}
          /\ \A v \in Workers : v # w => worker'[v] = worker[v]
        BY <1>6 DEF Take, Becomes, EntryInv, Doing, Idle
    <2>2. entry'.status \in {entry.status, "processing"} /\ entry'.external = entry.external
        BY <1>6 DEF Take, EntryInv, Entries
    <2> QED BY <1>6, <2>1, <2>2 DEF Take
<1>7. ASSUME NEW w \in Workers, Post(w) PROVE OutInv'
    BY <1>7, MoveNow, GatewayNow DEF Post, history
<1>8. ASSUME NEW w \in Workers, NoGateway(w) PROVE OutInv'
    BY <1>8, MoveNow DEF NoGateway, history
<1>9. ASSUME NEW w \in Workers, Hear(w) PROVE OutInv'
    BY <1>9, MoveNow DEF Hear
<1>10. ASSUME NEW w \in Workers, Refuse(w) PROVE OutInv'
    BY <1>10, GatewayNow DEF Refuse, history
<1>11. ASSUME NEW w \in Workers, Accept(w) PROVE OutInv'
    <2>1. copies' > 0
        BY <1>11, AnotherFits DEF Accept, EntryInv
    <2> QED BY <1>11, <2>1 DEF Accept, history
<1>12. ASSUME NEW w \in Workers, Report(w) PROVE OutInv'
    <2>1. copies > 0
        BY <1>12 DEF Report
    <2> QED BY <1>12, <2>1, AppliedNow DEF Report
<1>13. ASSUME NEW w \in Workers, ReportFailure(w) PROVE OutInv'
    <2>1. CASE Applied("failed")
        <3>1. entry'.status = "failed" /\ entry'.external = entry.external /\ log' = "failed"
            BY <2>1 DEF Applied, EntryInv, Entries
        <3> QED BY <1>13, <3>1, GatewayNow DEF ReportFailure, history
    <2>2. CASE UNCHANGED <<entry, log>>
        BY <1>13, <2>2, GatewayNow DEF ReportFailure, history
    <2> QED BY <1>13, <2>1, <2>2 DEF ReportFailure
<1>14. ASSUME NEW w \in Workers, Apply(w) PROVE OutInv'
    <2>1. copies > 0
        BY <1>14 DEF Apply
    <2> QED BY <1>14, <2>1, AppliedNow, AfterSendNow DEF Apply, history
<1>15. ASSUME NEW w \in Workers, MarkFailed(w) PROVE OutInv'
    <2>1. entry'.status \in {"failed", "retrying"} /\ entry'.external = entry.external
        BY <1>15 DEF MarkFailed, EntryInv, Entries
    <2> QED BY <1>15, <2>1, AfterSendNow DEF MarkFailed, history
<1>16. ASSUME NEW w \in Workers, Pipeline(w) PROVE OutInv'
    <2>1. copies > 0 => copies' > 0
        BY <1>16, AnotherFits DEF Pipeline, EntryInv
    <2> QED BY <1>16, <2>1, MoveNow DEF Pipeline
<1>17. ASSUME NEW w \in Workers, Finish(w) PROVE OutInv'
    <2>1. entry'.status = "processed" /\ entry'.external = entry.external
        BY <1>17 DEF Finish, EntryInv, Entries
    <2> QED BY <1>17, <2>1, RestNow DEF Finish, history
<1>18. ASSUME NEW w \in Workers, PipelineRaises(w) PROVE OutInv'
    <2>1. entry'.status \in {"failed", "retrying"} /\ entry'.external = entry.external
        BY <1>18 DEF PipelineRaises, EntryInv, Entries
    <2> QED BY <1>18, <2>1, RestNow DEF PipelineRaises, history
<1>19. ASSUME NEW w \in Workers, Resending(w) PROVE OutInv'
    BY <1>19, MoveNow DEF Resending, history
<1>20. ASSUME NEW w \in Workers, EnqueueAgain(w) PROVE OutInv'
    BY <1>20, MoveNow DEF EnqueueAgain, history
<1>21. ASSUME NEW w \in Workers, Refresh(w) PROVE OutInv'
    <2>1. CASE log = "sending"
        BY <1>21, <2>1, MoveNow DEF Refresh, history
    <2>2. CASE log # "sending"
        BY <1>21, <2>2, RestNow DEF Refresh, history
    <2> QED BY <2>1, <2>2
<1>22. ASSUME NEW w \in Workers, Finalize(w) PROVE OutInv'
    <2>1. resent /\ resent' /\ log' \in {"sent", "failed"}
        BY <1>22 DEF Finalize, history
    <2> QED BY <1>22, <2>1, RestNow DEF Finalize, history
<1>23. ASSUME NEW w \in Workers, Rested(w) PROVE OutInv'
    BY <1>23, RestNow DEF Rested, history
<1>24. ASSUME NEW w \in Workers, Dies(w) PROVE OutInv'
    BY <1>24, RestNow DEF Dies
<1>25. CASE Ack
    BY <1>25, AppliedNow DEF Ack, history
<1>26. CASE Time
    <2>1. entry'.status = entry.status /\ entry'.external = entry.external
        BY <1>26 DEF Time, BackoffEnds, GoesStale, EntryInv, Entries
    <2> QED BY <1>26, <2>1 DEF Time, BackoffEnds, GoesStale, history
<1>27. CASE UNCHANGED messageVars
    BY <1>27 DEF messageVars, history
<1> QED BY <1>1, <1>2, <1>3, <1>4, <1>5, <1>6, <1>7, <1>8, <1>9, <1>10, <1>11, <1>12, <1>13, <1>14,
           <1>15, <1>16, <1>17, <1>18, <1>19, <1>20, <1>21, <1>22, <1>23, <1>24, <1>25, <1>26, <1>27
        DEF MessageNext, Dispatch, Gateway, Outcome

\* Staff see "sent" only when WhatsApp has the message: in the row always, in
\* the chat up to a second operator who presses "send again" meanwhile;
\* whatever calls fail, answers are lost or processes die.
THEOREM SentIsAccepted == MessageSpec => []SentMeansAccepted
<1>1. EntryInv /\ OutInv /\ [MessageNext]_messageVars => (EntryInv /\ OutInv)'
    BY EntryNext, OutNext
<1>2. MessageInit => EntryInv /\ OutInv
    BY EntryInit, OutInit
<1>3. OutInv => SentMeansAccepted
    BY DEF OutInv
<1> QED BY <1>1, <1>2, <1>3, PTL DEF MessageSpec

-----------------------------------------------------------------------------
(* Nothing is sent twice without a cause *)

\* One process at most has the row in hand, and a row that is "processing" is
\* in somebody's hand.
OneHolder ==
    /\ ~entry.stale
    /\ entry.status = "processing" => \E w \in Workers : Holds(w)
    /\ \A w \in Workers : Holds(w) => entry.status \in {"processing", "sent", "failed"}
    /\ \A w, v \in Workers : Holds(w) /\ Holds(v) => w = v

\* Whoever is about to take the row has seen it due, and a call is where its
\* caller takes it to be.
CallsFit ==
    \A w \in Workers :
        /\ worker[w].at \in {"load", "take"} => worker[w].fair
        /\ At(w, "take") => ~worker[w].taken
        /\ ~At(w, "linger")
        /\ gateway[w] \in {"asked", "reporting", "failing"} => At(w, "wait")
        /\ At(w, "wait") => gateway[w] # "none"
        /\ gateway[w] = "ok" => worker[w].at \in {"wait", "apply", "refresh", "finalize"}
        /\ gateway[w] = "error" => worker[w].at \in {"wait", "fail", "refresh", "finalize"}
        /\ At(w, "apply") => gateway[w] = "ok"
        /\ At(w, "fail") => gateway[w] = "error"

\* w has the row and the message is not out.
Begun(w) ==
    \/ worker[w].at \in {"call", "give_up", "fail", "process", "raise"}
    \/ At(w, "wait") /\ gateway[w] \in {"asked", "failing", "error"}

\* A message that is out is not waiting, and nobody is about to send it.
NotOutYet ==
    /\ copies <= 1
    /\ copies > 0 => entry.status \notin Waiting \cup {"absent"}
    /\ \A w \in Workers : Begun(w) => copies = 0

\* As long as nothing has happened that excuses a duplicate.
UnexcusedInv == ~excused => OneHolder /\ CallsFit /\ NotOutYet

LEMMA UnexcusedInit == MessageInit => UnexcusedInv
BY DEF MessageInit, UnexcusedInv, OneHolder, CallsFit, NotOutYet, Begun, Holds, At, Idle, Waiting

\* What excuses a duplicate stays known.
LEMMA ExcusesStay == EntryInv /\ [MessageNext]_messageVars /\ excused => excused'
<1> SUFFICES ASSUME EntryInv, [MessageNext]_messageVars, excused PROVE excused'
    OBVIOUS
<1>1. ASSUME NEW w \in Workers, NEW k \in Makers, Make(w, k) PROVE excused'
    BY <1>1 DEF Make, history
<1>2. ASSUME NEW w \in Workers, List(w) \/ OnDemand(w) \/ Resend(w) \/ Dies(w) PROVE excused'
    BY <1>2 DEF List, OnDemand, Resend, Dies, history
<1>3. ASSUME NEW w \in Workers, Dispatch(w) PROVE excused'
    BY <1>3 DEF Dispatch, Load, Take, Races, Post, NoGateway, Hear, Outcome, Apply, MarkFailed, Pipeline,
                Finish, PipelineRaises, Resending, EnqueueAgain, Refresh, Finalize, Rested, history
<1>4. ASSUME NEW w \in Workers, Gateway(w) PROVE excused'
    BY <1>4 DEF Gateway, Refuse, Accept, Report, ReportFailure, history
<1>5. CASE Ack \/ Time \/ UNCHANGED messageVars
    BY <1>5 DEF Ack, Time, BackoffEnds, GoesStale, messageVars, history
<1> QED BY <1>1, <1>2, <1>3, <1>4, <1>5 DEF MessageNext

LEMMA UnexcusedNext == EntryInv /\ UnexcusedInv /\ [MessageNext]_messageVars => UnexcusedInv'
<1> SUFFICES ASSUME EntryInv, OneHolder, CallsFit, NotOutYet, [MessageNext]_messageVars, ~excused'
             PROVE  OneHolder' /\ CallsFit' /\ NotOutYet'
    BY ExcusesStay DEF UnexcusedInv
<1> DEFINE Goal == OneHolder' /\ CallsFit' /\ NotOutYet'
<1> USE DEF At
<1>0. \A v \in Workers : Begun(v) => Holds(v)
    BY DEF Begun, Holds
<1>a. Due => entry.status \in Waiting
    BY DEF Due, OneHolder
<1>b. entry.status \in Waiting \cup {"absent"} => \A v \in Workers : ~Holds(v)
    BY DEF OneHolder, Waiting
<1>c. \A v \in Workers : worker[v].at \notin {"wait", "apply", "fail", "refresh", "finalize"} =>
        gateway[v] = "none"
    BY DEF CallsFit, EntryInv, Calls
<1>1. ASSUME NEW w \in Workers, NEW k \in Makers, Make(w, k) PROVE Goal
    <2>1. /\ worker'[w].at = "load" /\ worker'[w].fair
          /\ \A v \in Workers : v # w => worker'[v] = worker[v]
        BY <1>1 DEF Make, Becomes, EntryInv, Doing, Idle
    <2>2. entry'.status \in Waiting /\ entry'.stale = entry.stale
        BY <1>1 DEF Make, EntryInv, Entries, Waiting
    <2>3. \A v \in Workers : ~Holds(v)' /\ ~Begun(v)'
        BY <1>0, <1>1, <1>b, <2>1 DEF Holds, Begun, Make
    <2>4. copies' = 0
        BY <1>1 DEF Make, NotOutYet, EntryInv
    <2>5. OneHolder'
        BY <2>2, <2>3 DEF OneHolder, Waiting
    <2>6. CallsFit'
        BY <1>1, <1>c, <2>1 DEF CallsFit, Make
    <2> QED BY <2>3, <2>4, <2>5, <2>6 DEF NotOutYet
<1>2. ASSUME NEW w \in Workers, List(w) PROVE Goal
    <2>1. /\ worker'[w].at = "load" /\ worker'[w].fair
          /\ \A v \in Workers : v # w => worker'[v] = worker[v]
        BY <1>2 DEF List, Listed, Becomes, EntryInv, Doing, Idle
    <2>2. \A v \in Workers : (Holds(v)' <=> Holds(v)) /\ (Begun(v)' <=> Begun(v))
        BY <1>2, <2>1 DEF Holds, Begun, List
    <2>3. CallsFit'
        BY <1>2, <1>c, <2>1 DEF CallsFit, List
    <2> QED BY <1>2, <2>2, <2>3 DEF OneHolder, NotOutYet, List
<1>3. ASSUME NEW w \in Workers, OnDemand(w) PROVE Goal
    BY <1>3 DEF OnDemand
<1>4. ASSUME NEW w \in Workers, Resend(w) \/ Resending(w) \/ EnqueueAgain(w) PROVE Goal
    <2>1. /\ worker[w].at \in {"idle", "resend", "enqueue"}
          /\ worker'[w].at \in {"resend", "enqueue", "refresh"}
          /\ \A v \in Workers : v # w => worker'[v] = worker[v]
          /\ UNCHANGED <<entry, gateway, copies>>
        BY <1>4, MoveNow DEF Resend, Resending, EnqueueAgain
    <2>2. \A v \in Workers : (Holds(v)' <=> Holds(v)) /\ (Begun(v)' <=> Begun(v))
        BY <2>1 DEF Holds, Begun
    <2>3. CallsFit'
        BY <1>c, <2>1 DEF CallsFit
    <2> QED BY <2>1, <2>2, <2>3 DEF OneHolder, NotOutYet
<1>5. ASSUME NEW w \in Workers, Load(w) PROVE Goal
    <2>1. Due
        BY <1>5 DEF Load, Races, CallsFit
    <2>2. /\ worker'[w].at = "take" /\ worker'[w].fair = worker[w].fair
          /\ worker'[w].taken = (entry.status = "processing")
          /\ \A v \in Workers : v # w => worker'[v] = worker[v]
        BY <1>5 DEF Load, Becomes, EntryInv, Doing
    <2>3. \A v \in Workers : (Holds(v)' <=> Holds(v)) /\ (Begun(v)' <=> Begun(v))
        BY <1>5, <2>2 DEF Holds, Begun, Load
    <2>4. CallsFit'
        BY ZenonT(60), <1>5, <1>a, <1>c, <2>1, <2>2 DEF CallsFit, Load, Waiting
    <2> QED BY <1>5, <2>3, <2>4 DEF OneHolder, NotOutYet, Load
<1>6. ASSUME NEW w \in Workers, Take(w) PROVE Goal
    <2>1. Due
        BY <1>6 DEF Take, Races, CallsFit
    <2>2. copies = 0 /\ copies' = 0
        BY <1>6, <1>a, <2>1 DEF Take, NotOutYet, EntryInv
    <2>3. /\ worker'[w].at \in {"call", "process"}
          /\ \A v \in Workers : v # w => worker'[v] = worker[v]
        BY <1>6 DEF Take, Becomes, EntryInv, Doing, Idle
    <2>4. entry'.status = "processing" /\ ~entry'.stale
        BY <1>6 DEF Take, EntryInv, Entries, CallsFit
    <2>5. \A v \in Workers : Holds(v)' <=> v = w
        BY <1>a, <1>b, <2>1, <2>3 DEF Holds
    <2>6. OneHolder'
        BY <2>4, <2>5 DEF OneHolder
    <2>7. CallsFit'
        BY <1>6, <1>c, <2>3 DEF CallsFit, Take
    <2> QED BY <2>2, <2>6, <2>7 DEF NotOutYet
<1>7. ASSUME NEW w \in Workers, Post(w) \/ NoGateway(w) PROVE Goal
    <2>1. /\ worker[w].at = "call" /\ gateway[w] = "none"
          /\ \/ worker'[w].at = "wait" /\ gateway'[w] = "asked"
             \/ worker'[w].at = "give_up" /\ gateway'[w] = "none"
          /\ \A v \in Workers : v # w => worker'[v] = worker[v] /\ gateway'[v] = gateway[v]
          /\ UNCHANGED <<entry, copies>>
        BY <1>7, <1>c, MoveNow, GatewayNow DEF Post, NoGateway
    <2>2. \A v \in Workers : (Holds(v)' <=> Holds(v)) /\ (Begun(v)' <=> Begun(v))
        BY <2>1 DEF Holds, Begun
    <2>3. CallsFit'
        BY <2>1 DEF CallsFit
    <2> QED BY <2>1, <2>2, <2>3 DEF OneHolder, NotOutYet
<1>8. ASSUME NEW w \in Workers, Hear(w) PROVE Goal
    <2>1. /\ worker[w].at = "wait"
          /\ \/ worker'[w].at = "apply" /\ gateway[w] = "ok"
             \/ worker'[w].at = "fail" /\ gateway[w] = "error"
          /\ \A v \in Workers : v # w => worker'[v] = worker[v]
          /\ UNCHANGED <<entry, gateway, copies>>
        BY <1>8, MoveNow DEF Hear
    <2>2. \A v \in Workers : (Holds(v)' <=> Holds(v)) /\ (Begun(v)' <=> Begun(v))
        BY <2>1 DEF Holds, Begun
    <2>3. CallsFit'
        BY <2>1 DEF CallsFit
    <2> QED BY <2>1, <2>2, <2>3 DEF OneHolder, NotOutYet
<1>9. ASSUME NEW w \in Workers, Refuse(w) PROVE Goal
    <2>1. /\ gateway[w] = "asked" /\ worker[w].at = "wait" /\ gateway'[w] \in {"error", "failing"}
          /\ \A v \in Workers : v # w => gateway'[v] = gateway[v]
          /\ UNCHANGED <<entry, worker, copies>>
        BY <1>9, GatewayNow DEF Refuse, CallsFit
    <2>2. \A v \in Workers : (Holds(v)' <=> Holds(v)) /\ (Begun(v)' <=> Begun(v))
        BY <2>1 DEF Holds, Begun
    <2>3. CallsFit'
        BY <2>1 DEF CallsFit
    <2> QED BY <2>1, <2>2, <2>3 DEF OneHolder, NotOutYet
<1>10. ASSUME NEW w \in Workers, Accept(w) PROVE Goal
    <2>1. /\ gateway[w] = "asked" /\ worker[w].at = "wait" /\ gateway'[w] = "reporting"
          /\ \A v \in Workers : v # w => gateway'[v] = gateway[v]
          /\ UNCHANGED <<entry, worker>>
        BY <1>10, GatewayNow DEF Accept, CallsFit
    <2>2. copies = 0 /\ copies' = 1
        BY <1>10, <2>1 DEF Accept, NotOutYet, Begun, Another
    <2>3. Holds(w) /\ \A v \in Workers : Holds(v)' <=> Holds(v)
        BY <2>1 DEF Holds
    <2>4. \A v \in Workers : ~Begun(v)'
        BY <1>0, <2>1, <2>3 DEF Begun, OneHolder, Holds
    <2>5. CallsFit'
        BY <2>1 DEF CallsFit
    <2>6. OneHolder'
        BY <2>1, <2>3 DEF OneHolder
    <2>7. entry'.status \notin Waiting \cup {"absent"}
        BY <1>b, <2>1, <2>3
    <2> QED BY <2>2, <2>4, <2>5, <2>6, <2>7 DEF NotOutYet
<1>11. ASSUME NEW w \in Workers, Report(w) PROVE Goal
    <2>1. /\ gateway[w] = "reporting" /\ worker[w].at = "wait" /\ gateway'[w] = "ok"
          /\ \A v \in Workers : v # w => gateway'[v] = gateway[v]
          /\ entry'.status = "sent" /\ entry'.stale = entry.stale
          /\ UNCHANGED <<worker, copies>>
        BY <1>11, GatewayNow, AppliedNow DEF Report, CallsFit
    <2>2. \A v \in Workers : (Holds(v)' <=> Holds(v)) /\ (Begun(v)' <=> Begun(v))
        BY <2>1 DEF Holds, Begun
    <2>3. CallsFit'
        BY <2>1 DEF CallsFit
    <2> QED BY <2>1, <2>2, <2>3 DEF OneHolder, NotOutYet, Waiting
<1>12. ASSUME NEW w \in Workers, ReportFailure(w) PROVE Goal
    <2>1. /\ gateway[w] = "failing" /\ worker[w].at = "wait" /\ gateway'[w] = "error"
          /\ \A v \in Workers : v # w => gateway'[v] = gateway[v]
          /\ UNCHANGED <<worker, copies>>
        BY <1>12, GatewayNow DEF ReportFailure, CallsFit
    <2>2. entry'.status \in {entry.status, "failed"} /\ entry'.stale = entry.stale
        BY <1>12, AppliedNow DEF ReportFailure
    <2>3. \A v \in Workers : (Holds(v)' <=> Holds(v)) /\ (Begun(v)' <=> Begun(v))
        BY <2>1 DEF Holds, Begun
    <2>4. CallsFit'
        BY <2>1 DEF CallsFit
    <2> QED BY <2>1, <2>2, <2>3, <2>4 DEF OneHolder, NotOutYet, Waiting
<1>13. ASSUME NEW w \in Workers, Apply(w) PROVE Goal
    <2>1. /\ worker[w].at = "apply" /\ gateway[w] = "ok"
          /\ \/ worker'[w].at = "refresh" /\ gateway'[w] = "ok"
             \/ worker'[w].at = "idle" /\ gateway'[w] = "none"
          /\ \A v \in Workers : v # w => worker'[v] = worker[v] /\ gateway'[v] = gateway[v]
          /\ entry'.status = "sent" /\ entry'.stale = entry.stale
          /\ UNCHANGED copies
        BY <1>13, AfterSendNow, AppliedNow DEF Apply, CallsFit
    <2>2. \A v \in Workers : ~Holds(v)' /\ ~Begun(v)'
        BY <1>0, <2>1 DEF Holds, Begun, OneHolder
    <2>3. CallsFit'
        BY <2>1 DEF CallsFit
    <2> QED BY <2>1, <2>2, <2>3 DEF OneHolder, NotOutYet, Waiting
<1>14. ASSUME NEW w \in Workers, MarkFailed(w) PROVE Goal
    <2>1. /\ worker[w].at \in {"fail", "give_up"} /\ gateway[w] \in {"error", "none"}
          /\ \/ worker'[w].at = "refresh" /\ gateway'[w] = gateway[w]
             \/ worker'[w].at = "idle" /\ gateway'[w] = "none"
          /\ \A v \in Workers : v # w => worker'[v] = worker[v] /\ gateway'[v] = gateway[v]
          /\ UNCHANGED copies
        BY <1>14, <1>c, AfterSendNow DEF MarkFailed, CallsFit
    <2>2. entry'.status \in {"failed", "retrying"} /\ entry'.stale = entry.stale
        BY <1>14 DEF MarkFailed, EntryInv, Entries
    <2>3. \A v \in Workers : ~Holds(v)' /\ ~Begun(v)'
        BY <1>0, <2>1 DEF Holds, Begun, OneHolder
    <2>4. copies' = 0
        BY <2>1 DEF NotOutYet, Begun
    <2>5. CallsFit'
        BY <2>1 DEF CallsFit
    <2> QED BY <2>2, <2>3, <2>4, <2>5 DEF OneHolder, NotOutYet
<1>15. ASSUME NEW w \in Workers, Pipeline(w) PROVE Goal
    <2>1. copies = 0 /\ copies' \in {0, 1}
        BY <1>15 DEF Pipeline, NotOutYet, Begun, Another
    <2>2. /\ worker[w].at = "process" /\ gateway[w] = "none"
          /\ \/ worker'[w].at = "finish"
             \/ worker'[w].at = "raise" /\ copies' = 0
          /\ \A v \in Workers : v # w => worker'[v] = worker[v]
          /\ UNCHANGED <<entry, gateway>>
        BY <1>15, <1>c, <2>1, MoveNow DEF Pipeline
    <2>3. Holds(w) /\ \A v \in Workers : Holds(v)' <=> Holds(v)
        BY <2>2 DEF Holds
    <2>4. \A v \in Workers : Begun(v)' => v = w /\ copies' = 0
        BY <1>0, <2>2, <2>3 DEF Begun, OneHolder, Holds
    <2>5. CallsFit'
        BY <2>2 DEF CallsFit
    <2>6. entry'.status \notin Waiting \cup {"absent"}
        BY <1>b, <2>2, <2>3
    <2>7. OneHolder'
        BY <2>2, <2>3 DEF OneHolder
    <2> QED BY <2>1, <2>4, <2>5, <2>6, <2>7 DEF NotOutYet
<1>16. ASSUME NEW w \in Workers, Finish(w) PROVE Goal
    <2>1. /\ worker[w].at = "finish" /\ worker'[w].at = "idle" /\ gateway'[w] = "none"
          /\ \A v \in Workers : v # w => worker'[v] = worker[v] /\ gateway'[v] = gateway[v]
          /\ UNCHANGED copies
        BY <1>16, <1>c, RestNow DEF Finish
    <2>2. entry'.status = "processed" /\ entry'.stale = entry.stale
        BY <1>16 DEF Finish, EntryInv, Entries
    <2>3. \A v \in Workers : ~Holds(v)' /\ ~Begun(v)'
        BY <1>0, <2>1 DEF Holds, Begun, OneHolder
    <2>4. CallsFit'
        BY <2>1 DEF CallsFit
    <2> QED BY <2>1, <2>2, <2>3, <2>4 DEF OneHolder, NotOutYet, Waiting
<1>17. ASSUME NEW w \in Workers, PipelineRaises(w) PROVE Goal
    <2>1. /\ worker[w].at = "raise" /\ worker'[w].at = "idle" /\ gateway'[w] = "none"
          /\ \A v \in Workers : v # w => worker'[v] = worker[v] /\ gateway'[v] = gateway[v]
          /\ UNCHANGED copies
        BY <1>17, <1>c, RestNow DEF PipelineRaises
    <2>2. entry'.status \in {"failed", "retrying"} /\ entry'.stale = entry.stale
        BY <1>17 DEF PipelineRaises, EntryInv, Entries
    <2>3. \A v \in Workers : ~Holds(v)' /\ ~Begun(v)'
        BY <1>0, <2>1 DEF Holds, Begun, OneHolder
    <2>4. copies' = 0
        BY <2>1 DEF NotOutYet, Begun
    <2>5. CallsFit'
        BY <2>1 DEF CallsFit
    <2> QED BY <2>2, <2>3, <2>4, <2>5 DEF OneHolder, NotOutYet
<1>18. ASSUME NEW w \in Workers, Refresh(w) \/ Finalize(w) PROVE Goal
    <2>1. /\ worker[w].at \in {"refresh", "finalize"}
          /\ \/ worker'[w].at = "finalize" /\ gateway'[w] = gateway[w]
             \/ worker'[w].at = "idle" /\ gateway'[w] = "none"
          /\ \A v \in Workers : v # w => worker'[v] = worker[v] /\ gateway'[v] = gateway[v]
          /\ UNCHANGED <<entry, copies>>
        BY <1>18, MoveNow, RestNow DEF Refresh, Finalize, CallsFit
    <2>2. \A v \in Workers : (Holds(v)' <=> Holds(v)) /\ (Begun(v)' <=> Begun(v))
        BY <2>1 DEF Holds, Begun
    <2>3. CallsFit'
        BY <2>1 DEF CallsFit
    <2> QED BY <2>1, <2>2, <2>3 DEF OneHolder, NotOutYet
<1>19. ASSUME NEW w \in Workers, Rested(w) PROVE Goal
    BY <1>19 DEF Rested, CallsFit
<1>20. ASSUME NEW w \in Workers, Dies(w) PROVE Goal
    <2>1. ~Holds(w)
        BY <1>20 DEF Dies
    <2>2. /\ worker'[w].at = "idle" /\ gateway'[w] = "none"
          /\ \A v \in Workers : v # w => worker'[v] = worker[v] /\ gateway'[v] = gateway[v]
          /\ UNCHANGED <<entry, copies>>
        BY <1>20, <2>1, RestNow DEF Dies, CallsFit, Holds
    <2>3. \A v \in Workers : (Holds(v)' <=> Holds(v)) /\ (Begun(v)' <=> Begun(v))
        BY <1>0, <2>1, <2>2 DEF Holds, Begun
    <2>4. CallsFit'
        BY <2>2 DEF CallsFit
    <2> QED BY <2>2, <2>3, <2>4 DEF OneHolder, NotOutYet
<1>21. CASE Ack
    <2>1. /\ entry'.status = "sent" /\ entry'.stale = entry.stale
          /\ UNCHANGED <<worker, gateway, copies>>
        BY <1>21, AppliedNow DEF Ack
    <2>2. \A v \in Workers : (Holds(v)' <=> Holds(v)) /\ (Begun(v)' <=> Begun(v))
        BY <2>1 DEF Holds, Begun
    <2>3. CallsFit'
        BY <2>1 DEF CallsFit
    <2> QED BY <2>1, <2>2, <2>3 DEF OneHolder, NotOutYet, Waiting
<1>22. CASE BackoffEnds
    <2>1. /\ entry'.status = entry.status /\ entry'.stale = entry.stale
          /\ UNCHANGED <<worker, gateway, copies>>
        BY <1>22 DEF BackoffEnds, EntryInv, Entries
    <2>2. \A v \in Workers : (Holds(v)' <=> Holds(v)) /\ (Begun(v)' <=> Begun(v))
        BY <2>1 DEF Holds, Begun
    <2>3. CallsFit'
        BY <2>1 DEF CallsFit
    <2> QED BY <2>1, <2>2, <2>3 DEF OneHolder, NotOutYet
<1>23. CASE GoesStale
    BY <1>23 DEF GoesStale, OneHolder
<1>24. CASE UNCHANGED messageVars
    <2>1. UNCHANGED <<entry, worker, gateway, copies>>
        BY <1>24 DEF messageVars
    <2>2. \A v \in Workers : (Holds(v)' <=> Holds(v)) /\ (Begun(v)' <=> Begun(v))
        BY <2>1 DEF Holds, Begun
    <2>3. CallsFit'
        BY <2>1 DEF CallsFit
    <2> QED BY <2>1, <2>2, <2>3 DEF OneHolder, NotOutYet
<1> QED BY <1>1, <1>2, <1>3, <1>4, <1>5, <1>6, <1>7, <1>8, <1>9, <1>10, <1>11, <1>12, <1>13, <1>14,
           <1>15, <1>16, <1>17, <1>18, <1>19, <1>20, <1>21, <1>22, <1>23, <1>24
        DEF MessageNext, Dispatch, Gateway, Outcome, Time

\* A guest gets a message twice, or the pipeline processes one twice, only
\* after two processes that both found it due, a success nobody heard of, a
\* pipeline slower than five minutes, a death or a dispatch on demand: the
\* retries, the cron and repeated reports alone do not duplicate.
THEOREM DuplicateHasCause == MessageSpec => []DuplicateNeedsCause
<1>1. MessageInit => EntryInv /\ UnexcusedInv
    BY EntryInit, UnexcusedInit
<1>2. EntryInv /\ UnexcusedInv /\ [MessageNext]_messageVars => (EntryInv /\ UnexcusedInv)'
    BY EntryNext, UnexcusedNext
<1>3. EntryInv /\ UnexcusedInv => DuplicateNeedsCause
    BY DEF EntryInv, UnexcusedInv, NotOutYet, DuplicateNeedsCause
<1> QED BY <1>1, <1>2, <1>3, PTL DEF MessageSpec
=============================================================================
